------------------------------- MODULE Files -------------------------------
(***************************************************************************)
(* What the operating system promises about the two files of a database.   *)
(* No code of the repository is modelled here: these operators state what  *)
(* std::fs calls (write_all_at, set_len, sync_data, sync_all) do, as the   *)
(* code in storage/disk.rs, storage/wal/log.rs and storage/recovery.rs     *)
(* relies on.                                                              *)
(*                                                                         *)
(* A file has a page-cache copy, `now', that every read returns and that   *)
(* survives the death of the process, and `may', everything that could be  *)
(* on the medium if the power failed now.  A successful sync makes `now'   *)
(* the only possibility.  After a failed one the kernel may have dropped   *)
(* the dirty data and marked it clean: `lost' is what a later successful   *)
(* sync no longer writes.                                                  *)
(***************************************************************************)
EXTENDS Naturals

CONSTANT Torn     \* the contents of a page that was written only in part

-----------------------------------------------------------------------------
(***************************************************************************)
(* The data file: pages of one device block each.  An unsynced page write  *)
(* may be on the medium, not at all, or in part, unless it rewrites the    *)
(* bytes that are already there.                                           *)
(***************************************************************************)

PageFile(pages, contents) ==
    [now: [pages -> contents], may: [pages -> SUBSET contents],
     lost: SUBSET pages]

\* A data file that holds f, all of it on the medium.
Stored(f) == [now |-> f, may |-> [p \in DOMAIN f |-> {f[p]}], lost |-> {}]

PageWritten(file, p, v) ==
    [now |-> [file.now EXCEPT ![p] = v],
     may |-> [file.may EXCEPT ![p] = IF @ = {v} THEN @ ELSE @ \cup {v, Torn}],
     lost |-> file.lost \ {p}]

\* What a write that returns an error may leave behind.
PageWriteFailures(file, p, v) ==
    {file, PageWritten(file, p, v)}
        \cup IF file.now[p] = v THEN {} ELSE {PageWritten(file, p, Torn)}

PagesSynced(file) ==
    [now |-> file.now,
     may |-> [p \in DOMAIN file.now |-> IF p \in file.lost THEN file.may[p]
                                        ELSE {file.now[p]}],
     lost |-> file.lost]

PagesSyncFailed(file) ==
    [now |-> file.now, may |-> file.may,
     lost |-> {p \in DOMAIN file.now : file.may[p] # {file.now[p]}}]

\* g is what the medium holds when the power comes back.
IsPageSurvivor(file, g) == \A p \in DOMAIN g : g[p] \in file.may[p]

PageSurvivors(file) ==
    {g \in [DOMAIN file.now -> UNION {file.may[p] : p \in DOMAIN file.now}] :
       IsPageSurvivor(file, g)}

-----------------------------------------------------------------------------
(***************************************************************************)
(* The log file: an image has the sequence number in its header and the    *)
(* set of records whose bytes are intact.  Unsynced appended records reach *)
(* the medium in any order, each or not; a truncation happens or does not; *)
(* the 24-byte header lies in one sector and is replaced as a whole.       *)
(***************************************************************************)

LogImage(records) == [first: Nat, recs: SUBSET records]

LogFile(records) ==
    [now: LogImage(records), may: SUBSET LogImage(records), lost: BOOLEAN]

SavedLog(m) == [now |-> m, may |-> {m}, lost |-> FALSE]

AddRecords(m, batch) == [first |-> m.first, recs |-> m.recs \cup batch]
KeepRecords(m, keep) == [first |-> m.first, recs |-> m.recs \cap keep]
SetFirst(m, n) == [first |-> n, recs |-> m.recs]

\* What a write_all_at of these records that does not finish has written.
Prefixes(batch) ==
    {b \in SUBSET batch : \A r \in b, q \in batch : q.seq < r.seq => q \in b}

LogAppended(file, batch) ==
    [now |-> AddRecords(file.now, batch),
     may |-> {AddRecords(m, b) : m \in file.may, b \in SUBSET batch},
     lost |-> file.lost]

LogTruncated(file, keep) ==
    [now |-> KeepRecords(file.now, keep),
     may |-> file.may \cup {KeepRecords(m, keep) : m \in file.may},
     lost |-> file.lost]

LogHeaderWritten(file, n) ==
    [now |-> SetFirst(file.now, n),
     may |-> file.may \cup {SetFirst(m, n) : m \in file.may},
     lost |-> file.lost]

\* Records the kernel dropped stay unknown, but the length and the header
\* are rewritten, and with no record left there is nothing to be unknown.
LogSynced(file) ==
    [now |-> file.now,
     may |-> IF file.lost
             THEN {m \in file.may : /\ m.first = file.now.first
                                    /\ m.recs \subseteq file.now.recs}
             ELSE {file.now},
     lost |-> file.lost /\ file.now.recs # {}]

LogSyncFailed(file) == [now |-> file.now, may |-> file.may, lost |-> TRUE]
=============================================================================
