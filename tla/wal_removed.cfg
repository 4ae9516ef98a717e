CONSTANTS
    Absent = Absent
    Partial = Partial
    Environments = {{"kill", "removal"}}
    MaxOpens = 3
    MaxCommits = 1
    MaxCrashes = 1
SPECIFICATION Spec
INVARIANT MissingWalIsEmpty
