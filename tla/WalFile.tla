------------------------------ MODULE WalFile --------------------------------
(***************************************************************************)
(* The write-ahead log as a file (storage/wal/log.rs, record.rs): encoded  *)
(* records lie back to back after a header, they are found by decoding one *)
(* after the other, and an interrupted write may leave any of its blocks   *)
(* behind, or none.  Module Files takes a log to be a set of records, each *)
(* there or not; here that is shown to be what the bytes amount to.        *)
(*                                                                         *)
(* A file is a first sequence number (its header, replaced as a whole) and *)
(* a sequence of cells.  A commit record takes one cell, a page image two; *)
(* a cell knows the record and the part of it that was written there, and  *)
(* the checksum holds exactly when all parts are of one record.            *)
(***************************************************************************)
EXTENDS Naturals, FiniteSets, Sequences, FiniteSetsExt, Files, WalLog

Seqs == INSTANCE SequencesExt

CONSTANTS
    Hole,           \* a cell never written: zeros
    MaxRecords,     \* bound on appended records
    MaxBatch,       \* bound on the records of one flush
    MaxCrashes,     \* bound on kills and power losses
    MaxFaults       \* bound on failing I/O calls

VARIABLES
    now,            \* the file as reads see it
    may,            \* all that a power loss could leave of it
    lost,           \* has a sync failed, its data dropped by the kernel?
    pending, durable_len, next_seq, poisoned,   \* fields of Wal
    pc,             \* the call in progress, and where it is
    contents,       \* ghost: the records the log holds
    flushed,        \* ghost: of those, the ones whose flush returned
    log,            \* ghost: the same file in the terms of module Files
    stamps, crashes, faults

fileVars == <<now, may, lost>>
walVars == <<pending, durable_len, next_seq, poisoned>>
boundVars == <<stamps, crashes, faults>>
vars == <<fileVars, walVars, pc, contents, flushed, log, boundVars>>

-----------------------------------------------------------------------------
(***************************************************************************)
(* Records                                                                 *)
(***************************************************************************)

LenOf(r) == IF r.type = "image" THEN 2 ELSE 1

\* WalRecord::encode
encode(r) == [k \in 1 .. LenOf(r) |-> [rec |-> r, part |-> k]]

EncodeAll(rs) == Seqs!FlattenSeq([i \in DOMAIN rs |-> encode(rs[i])])

Ok(r) == [kind |-> "ok", rec |-> r]
Incomplete == [kind |-> "incomplete"]
Invalid == [kind |-> "invalid"]

\* WalRecord::decode: the length, then whether it fits, then the checksum.
decode(cells, at) ==
    IF cells[at] = Hole \/ cells[at].part # 1 THEN Invalid
    ELSE LET r == cells[at].rec
             end == at + LenOf(r) - 1
         IN  IF Len(cells) < end THEN Incomplete
             ELSE IF SubSeq(cells, at, end) = encode(r) THEN Ok(r)
             ELSE Invalid

\* Mutation: records out of sequence are accepted.
NextRecordAnySeq(cells, offset, seq) ==
    IF offset > Len(cells) THEN Incomplete ELSE decode(cells, offset)

\* One turn of the loop of Wal::open.
NextRecord(cells, offset, seq) ==
    IF offset > Len(cells) THEN Incomplete
    ELSE LET d == decode(cells, offset)
         IN  IF d.kind = "ok" /\ d.rec.seq # seq THEN Invalid ELSE d

RECURSIVE ScanFrom(_, _, _)
ScanFrom(cells, offset, seq) ==
    LET d == NextRecord(cells, offset, seq)
    IN  IF d.kind = "ok"
        THEN <<d.rec>> \o ScanFrom(cells, offset + LenOf(d.rec), seq + 1)
        ELSE <<>>

\* The records Wal::open finds in a file.
Scan(m) == ScanFrom(m.cells, 1, m.first)

-----------------------------------------------------------------------------
(***************************************************************************)
(* The operating system's part                                             *)
(***************************************************************************)

WriteAt(m, at, cells) ==
    [first |-> m.first,
     cells |-> SubSeq(m.cells, 1, at) \o cells
                   \o SubSeq(m.cells, at + Len(cells) + 1, Len(m.cells))]

\* Any of the cells may have reached the medium, and so may the new length.
PartlyWritten(m, at, cells) ==
    LET end == at + Len(cells)
        Result(S, len) ==
            [first |-> m.first,
             cells |-> [i \in 1 .. len |->
                           IF i \in S THEN cells[i - at]
                           ELSE IF i <= Len(m.cells) THEN m.cells[i] ELSE Hole]]
    IN  UNION {{Result(S, len) : len \in {n \in Len(m.cells) .. Max({Len(m.cells), end}) :
                                            \A i \in S : i <= n}}
                : S \in SUBSET ((at + 1) .. end)}

Resized(m, len) ==
    [first |-> m.first,
     cells |-> [i \in 1 .. len |-> IF i <= Len(m.cells) THEN m.cells[i] ELSE Hole]]

Headed(m, first) == [first |-> first, cells |-> m.cells]

Write(at, cells) ==
    /\ now' = WriteAt(now, at, cells)
    /\ may' = UNION {PartlyWritten(m, at, cells) : m \in may}
    /\ UNCHANGED lost

SetLen(len) ==
    /\ now' = Resized(now, len)
    /\ may' = may \cup {Resized(m, len) : m \in may}
    /\ UNCHANGED lost

WriteHeader(first) ==
    /\ now' = Headed(now, first)
    /\ may' = may \cup {Headed(m, first) : m \in may}
    /\ UNCHANGED lost

Sync ==
    /\ may' = IF lost THEN {m \in may : /\ m.first = now.first
                                        /\ Len(m.cells) = Len(now.cells)}
              ELSE {now}
    /\ lost' = (lost /\ now.cells # <<>>)
    /\ UNCHANGED now

SyncFails == lost' = TRUE /\ UNCHANGED <<now, may>>

-----------------------------------------------------------------------------
(***************************************************************************)
(* Wal                                                                     *)
(***************************************************************************)

\* Wal::create
Init ==
    /\ now = [first |-> 0, cells |-> <<>>] /\ may = {now} /\ lost = FALSE
    /\ pending = <<>> /\ durable_len = 0 /\ next_seq = 0 /\ poisoned = FALSE
    /\ pc = "idle"
    /\ contents = <<>> /\ flushed = {}
    /\ log = SavedLog([first |-> 0, recs |-> {}])
    /\ stamps = 0 /\ crashes = 0 /\ faults = 0

Goto(l) == pc' = l /\ UNCHANGED boundVars

\* A failing call poisons the log; open() returns the error instead.
Fail ==
    /\ faults < MaxFaults /\ faults' = faults + 1
    /\ UNCHANGED <<stamps, crashes>>

Poison ==
    /\ Fail /\ pc' = "idle" /\ poisoned' = TRUE
    /\ UNCHANGED <<pending, durable_len, next_seq, contents, flushed>>

append(type) ==
    /\ pc = "idle" /\ ~poisoned
    /\ stamps < MaxRecords /\ Len(pending) < MaxBatch
    /\ pending' = Append(pending, [type |-> type, seq |-> next_seq, stamp |-> stamps])
    /\ next_seq' = next_seq + 1 /\ stamps' = stamps + 1
    /\ UNCHANGED <<fileVars, durable_len, poisoned, pc, contents, flushed, log,
                   crashes, faults>>

FlushWrite ==
    /\ pc = "idle" /\ ~poisoned /\ pending # <<>>
    /\ Write(durable_len, EncodeAll(pending))
    /\ log' = LogAppended(log, Seqs!ToSet(pending))
    /\ contents' = contents \o pending
    /\ Goto("flush_sync") /\ UNCHANGED <<walVars, flushed>>

\* write_all_at wrote only some of the cells.
FlushWriteFails ==
    /\ pc = "idle" /\ ~poisoned /\ pending # <<>>
    /\ \E n \in 0 .. Len(EncodeAll(pending)), k \in 0 .. Len(pending) :
          /\ Len(EncodeAll(SubSeq(pending, 1, k))) <= n
          /\ k < Len(pending) => n < Len(EncodeAll(SubSeq(pending, 1, k + 1)))
          /\ Write(durable_len, SubSeq(EncodeAll(pending), 1, n))
          /\ log' = LogAppended(log, Seqs!ToSet(SubSeq(pending, 1, k)))
          /\ contents' = contents \o SubSeq(pending, 1, k)
    /\ Fail /\ pc' = "idle" /\ poisoned' = TRUE
    /\ UNCHANGED <<pending, durable_len, next_seq, flushed>>

\* Mutation: the next flush will write where this one did.
FlushSyncStuck ==
    /\ pc = "flush_sync" /\ Sync /\ log' = LogSynced(log)
    /\ pending' = <<>> /\ flushed' = flushed \cup Seqs!ToSet(pending)
    /\ Goto("idle") /\ UNCHANGED <<durable_len, next_seq, poisoned, contents>>

FlushSync ==
    /\ pc = "flush_sync" /\ Sync /\ log' = LogSynced(log)
    /\ durable_len' = durable_len + Len(EncodeAll(pending))
    /\ pending' = <<>> /\ flushed' = flushed \cup Seqs!ToSet(pending)
    /\ Goto("idle") /\ UNCHANGED <<next_seq, poisoned, contents>>

FlushSyncFails ==
    /\ pc = "flush_sync" /\ SyncFails /\ log' = LogSyncFailed(log) /\ Poison

\* Wal::reset is called when the data file has every change of the log.
ResetTruncate ==
    /\ pc \in {"idle", "opened"} /\ ~poisoned /\ pending = <<>>
    /\ SetLen(0) /\ log' = LogTruncated(log, {}) /\ flushed' = {}
    /\ Goto("reset_header") /\ UNCHANGED <<walVars, contents>>

\* Mutation: the header keeps its first sequence number.
ResetHeaderSame ==
    /\ pc = "reset_header"
    /\ WriteHeader(now.first) /\ log' = LogHeaderWritten(log, now.first)
    /\ Goto("reset_sync") /\ UNCHANGED <<walVars, contents, flushed>>

ResetHeader ==
    /\ pc = "reset_header"
    /\ WriteHeader(next_seq) /\ log' = LogHeaderWritten(log, next_seq)
    /\ Goto("reset_sync") /\ UNCHANGED <<walVars, contents, flushed>>

ResetSync ==
    /\ pc = "reset_sync" /\ Sync /\ log' = LogSynced(log)
    /\ durable_len' = 0 /\ contents' = <<>>
    /\ Goto("idle") /\ UNCHANGED <<pending, next_seq, poisoned, flushed>>

\* set_len or the header write fails with nothing done, or the sync fails.
ResetFails ==
    \/ /\ pc \in {"idle", "opened"} /\ ~poisoned /\ pending = <<>>
       /\ UNCHANGED <<fileVars, log>> /\ Poison
    \/ pc = "reset_header" /\ UNCHANGED <<fileVars, log>> /\ Poison
    \/ pc = "reset_sync" /\ SyncFails /\ log' = LogSyncFailed(log) /\ Poison

-----------------------------------------------------------------------------
\* The ghost follows the file once nothing of it is in doubt.
Settle == contents' = IF may' = {now'} THEN Scan(now') ELSE contents

\* Mutation: the discarded tail stays in the file.
OpenKeepingTail ==
    LET records == Scan(now)
        offset == Len(EncodeAll(records))
    IN  /\ pc = "closed"
        /\ next_seq' = now.first + Len(records) /\ durable_len' = offset
        /\ pending' = <<>> /\ poisoned' = FALSE
        /\ UNCHANGED <<fileVars, log>> /\ Goto("opened")
        /\ Settle /\ UNCHANGED flushed

\* Wal::open: what follows the last valid record is cut off.
Open ==
    LET records == Scan(now)
        offset == Len(EncodeAll(records))
    IN  /\ pc = "closed"
        /\ next_seq' = now.first + Len(records) /\ durable_len' = offset
        /\ pending' = <<>> /\ poisoned' = FALSE
        /\ IF offset = Len(now.cells)
           THEN UNCHANGED <<fileVars, log>> /\ Goto("opened")
           ELSE /\ SetLen(offset) /\ log' = LogTruncated(log, Seqs!ToSet(records))
                /\ Goto("open_sync")
        /\ Settle /\ UNCHANGED flushed

OpenSync ==
    /\ pc = "open_sync" /\ Sync /\ log' = LogSynced(log) /\ Settle
    /\ Goto("opened") /\ UNCHANGED <<walVars, flushed>>

OpenSyncFails ==
    /\ pc = "open_sync" /\ SyncFails /\ log' = LogSyncFailed(log)
    /\ Fail /\ pc' = "closed" /\ UNCHANGED <<walVars, contents, flushed>>

\* Database::open resets the log before it appends.  A caller that does not,
\* as the tests of log.rs, has a file with nothing unsynced in it, and no sync that failed.
Continue ==
    /\ pc = "opened" /\ may = {now} /\ ~lost
    /\ Goto("idle") /\ UNCHANGED <<fileVars, walVars, contents, flushed, log>>

\* The Wal is dropped; what was pending is gone.
Close ==
    /\ pc = "idle" /\ Goto("closed")
    /\ UNCHANGED <<fileVars, walVars, contents, flushed, log>>

Crash ==
    /\ crashes < MaxCrashes /\ pc # "closed"
    /\ crashes' = crashes + 1 /\ pc' = "closed"
    /\ UNCHANGED <<walVars, contents, flushed, stamps, faults>>

Kill == Crash /\ UNCHANGED <<fileVars, log>>

\* A file in the terms of module Files: the records whose blocks are intact.
Abstract(m) ==
    [first |-> m.first,
     recs |-> {c.rec : c \in
        {m.cells[i] : i \in {j \in DOMAIN m.cells : decode(m.cells, j).kind = "ok"}}}]

PowerLoss ==
    /\ Crash
    /\ \E m \in may :
          /\ now' = m /\ may' = {m} /\ lost' = FALSE
          /\ log' = SavedLog(Abstract(m))

Next ==
    \/ \E type \in {"image", "commit"} : append(type)
    \/ FlushWrite \/ FlushWriteFails \/ FlushSync \/ FlushSyncFails
    \/ ResetTruncate \/ ResetHeader \/ ResetSync \/ ResetFails
    \/ Open \/ OpenSync \/ OpenSyncFails \/ Continue \/ Close \/ Kill \/ PowerLoss

Spec == Init /\ [][Next]_vars

-----------------------------------------------------------------------------
\* The variables have their types, and a log in use that has not failed ends
\* where the next flush will write.
TypeOK ==
    /\ now \in may
    /\ durable_len \in Nat /\ next_seq \in Nat /\ lost \in BOOLEAN
    /\ pc = "idle" /\ ~poisoned => durable_len = Len(now.cells)

\* A record whose flush returned is read back from whatever a power loss
\* leaves, until a reset begins: no torn, stale or missing block in front of
\* it makes Wal::open stop early.
FlushedIsReadable ==
    \A m \in may : flushed \subseteq Seqs!ToSet(Scan(m))

\* What Wal::open reads is never more than the log held: no record of before
\* a reset, none of a discarded tail, and none put together from the blocks
\* of two ("records from before the checkpoint can never be mistaken for
\* current ones", storage-format.md).
NothingStaleIsRead ==
    \A m \in may : Seqs!IsPrefix(Scan(m), contents)

\* Module Files describes the file: whatever blocks the medium may hold, the
\* records that are intact are one of the sets Files allows, and of those
\* WalLog's Readable and the decoding of the file pick the same.
LogIsSetOfRecords ==
    \A m \in may :
        /\ Abstract(m) \in log.may
        /\ Readable(Abstract(m)) = Seqs!ToSet(Scan(m))
=============================================================================
