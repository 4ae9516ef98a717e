CONSTANTS
    Absent = Absent
    Partial = Partial
    Environments = {{"kill", "power"}}
    MaxOpens = 2
    MaxCommits = 1
    MaxCrashes = 1
SPECIFICATION Spec
INVARIANT CommitsSurvive
