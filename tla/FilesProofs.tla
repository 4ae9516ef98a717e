----------------------------- MODULE FilesProofs -----------------------------
(***************************************************************************)
(* The operators of Files keep files well typed, and say what reads of a   *)
(* data file return afterwards.                                            *)
(***************************************************************************)
EXTENDS Files, FiniteSets, FiniteSetTheorems, TLAPS

\* A fully stored file (what creation, a power loss and a sync leave) is a
\* well-typed file that reads as what was stored.
LEMMA StoredType ==
  ASSUME NEW P, NEW C, NEW f \in [P -> C]
  PROVE  Stored(f) \in PageFile(P, C) /\ Stored(f).now = f
BY DEF Stored, PageFile

\* DiskManager::write_page changes what reads of that page return, and
\* nothing else.
LEMMA PageWrittenType ==
  ASSUME NEW P, NEW C, NEW file \in PageFile(P, C), NEW p \in P, NEW v \in C,
         Torn \in C
  PROVE  /\ PageWritten(file, p, v) \in PageFile(P, C)
         /\ \A q \in P : PageWritten(file, p, v).now[q]
                         = IF q = p THEN v ELSE file.now[q]
BY DEF PageWritten, PageFile

\* A failed write touches no other page.
LEMMA PageWriteFailuresType ==
  ASSUME NEW P, NEW C, NEW file \in PageFile(P, C), NEW p \in P, NEW v \in C,
         Torn \in C, NEW f \in PageWriteFailures(file, p, v)
  PROVE  /\ f \in PageFile(P, C)
         /\ \A q \in P \ {p} : f.now[q] = file.now[q]
<1>1. file.now \in [P -> C]
  BY DEF PageFile
<1>2. \/ f = file \/ f = PageWritten(file, p, v)
      \/ f = PageWritten(file, p, Torn)
  BY DEF PageWriteFailures
<1>3. ASSUME NEW u \in C
      PROVE  /\ PageWritten(file, p, u) \in PageFile(P, C)
             /\ \A q \in P \ {p} : PageWritten(file, p, u).now[q]
                                    = file.now[q]
  BY DEF PageWritten, PageFile
<1> QED
  BY <1>2, <1>3

\* A sync changes no read, whether or not it succeeds.
LEMMA PagesSyncType ==
  ASSUME NEW P, NEW C, NEW file \in PageFile(P, C)
  PROVE  /\ PagesSynced(file) \in PageFile(P, C)
         /\ PagesSynced(file).now = file.now
         /\ PagesSyncFailed(file) \in PageFile(P, C)
         /\ PagesSyncFailed(file).now = file.now
BY DEF PagesSynced, PagesSyncFailed, PageFile

\* A power loss leaves a data file with the same pages.
LEMMA PageSurvivorsType ==
  ASSUME NEW P, NEW C, NEW file \in PageFile(P, C),
         NEW g \in PageSurvivors(file)
  PROVE  g \in [P -> C]
BY DEF PageSurvivors, IsPageSurvivor, PageFile

-----------------------------------------------------------------------------

\* Every image a log file may have on the medium holds finitely many records.
FiniteLog(file) ==
    IsFiniteSet(file.now.recs) /\ \A m \in file.may : IsFiniteSet(m.recs)

\* An image is well formed: typed, and finite.
IsImage(m, R) == m \in LogImage(R) /\ IsFiniteSet(m.recs)

\* A log file is well formed when all its images are.
LEMMA LogFileType ==
  ASSUME NEW R, NEW now, NEW may, NEW lost \in BOOLEAN,
         IsImage(now, R), \A m \in may : IsImage(m, R)
  PROVE  LET file == [now |-> now, may |-> may, lost |-> lost]
         IN  file \in LogFile(R) /\ FiniteLog(file)
BY DEF LogFile, FiniteLog, IsImage

\* And conversely.
LEMMA LogFileImages ==
  ASSUME NEW R, NEW file \in LogFile(R), FiniteLog(file)
  PROVE  /\ IsImage(file.now, R) /\ file.lost \in BOOLEAN
         /\ \A m \in file.may : IsImage(m, R)
BY DEF LogFile, FiniteLog, IsImage

\* Wal::flush appends well-formed records to a well-formed log.
LEMMA LogAppendedType ==
  ASSUME NEW R, NEW file \in LogFile(R), NEW batch \in SUBSET R,
         FiniteLog(file), IsFiniteSet(batch)
  PROVE  /\ LogAppended(file, batch) \in LogFile(R)
         /\ FiniteLog(LogAppended(file, batch))
         /\ LogAppended(file, batch).now.recs = file.now.recs \cup batch
<1>1. ASSUME NEW m, NEW b \in SUBSET batch, IsImage(m, R)
      PROVE  IsImage(AddRecords(m, b), R)
  <2>1. IsFiniteSet(b) /\ IsFiniteSet(m.recs \cup b)
    BY <1>1, FS_Subset, FS_Union DEF IsImage
  <2> QED
    BY <1>1, <2>1 DEF IsImage, LogImage, AddRecords
<1>2. \A m \in {AddRecords(m, b) : m \in file.may, b \in SUBSET batch} :
         IsImage(m, R)
  BY <1>1, LogFileImages
<1>3. IsImage(AddRecords(file.now, batch), R)
  BY <1>1, LogFileImages
<1>4. /\ LogAppended(file, batch) \in LogFile(R)
      /\ FiniteLog(LogAppended(file, batch))
  BY <1>2, <1>3, LogFileImages, LogFileType DEF LogAppended
<1>5. LogAppended(file, batch).now.recs = file.now.recs \cup batch
  BY DEF LogAppended, AddRecords
<1> QED
  BY <1>4, <1>5

\* Wal::open and Wal::reset truncate: what is left was there before.
LEMMA LogTruncatedType ==
  ASSUME NEW R, NEW file \in LogFile(R), NEW keep, FiniteLog(file)
  PROVE  /\ LogTruncated(file, keep) \in LogFile(R)
         /\ FiniteLog(LogTruncated(file, keep))
<1>1. ASSUME NEW m, IsImage(m, R)
      PROVE  IsImage(KeepRecords(m, keep), R)
  <2>1. IsFiniteSet(m.recs \cap keep)
    BY <1>1, FS_Subset DEF IsImage
  <2> QED
    BY <1>1, <2>1 DEF IsImage, LogImage, KeepRecords
<1>2. \A m \in file.may \cup {KeepRecords(m, keep) : m \in file.may} :
         IsImage(m, R)
  BY <1>1, LogFileImages
<1>3. IsImage(KeepRecords(file.now, keep), R)
  BY <1>1, LogFileImages
<1> QED
  BY <1>2, <1>3, LogFileImages, LogFileType DEF LogTruncated

\* Wal::reset's header write keeps every record.
LEMMA LogHeaderWrittenType ==
  ASSUME NEW R, NEW file \in LogFile(R), NEW n \in Nat, FiniteLog(file)
  PROVE  /\ LogHeaderWritten(file, n) \in LogFile(R)
         /\ FiniteLog(LogHeaderWritten(file, n))
         /\ LogHeaderWritten(file, n).now.recs = file.now.recs
<1>1. ASSUME NEW m, IsImage(m, R)
      PROVE  IsImage(SetFirst(m, n), R)
  BY <1>1 DEF IsImage, LogImage, SetFirst
<1>2. \A m \in file.may \cup {SetFirst(m, n) : m \in file.may} :
         IsImage(m, R)
  BY <1>1, LogFileImages
<1>3. IsImage(SetFirst(file.now, n), R)
  BY <1>1, LogFileImages
<1> QED
  BY <1>2, <1>3, LogFileImages, LogFileType DEF LogHeaderWritten, SetFirst

\* A sync of the log changes no read, whether or not it succeeds.
LEMMA LogSyncType ==
  ASSUME NEW R, NEW file \in LogFile(R), FiniteLog(file)
  PROVE  /\ LogSynced(file) \in LogFile(R) /\ FiniteLog(LogSynced(file))
         /\ LogSynced(file).now = file.now
         /\ LogSyncFailed(file) \in LogFile(R)
         /\ FiniteLog(LogSyncFailed(file))
         /\ LogSyncFailed(file).now = file.now
BY DEF LogSynced, LogSyncFailed, LogFile, FiniteLog

\* A power loss leaves one well-formed image.
LEMMA SavedLogType ==
  ASSUME NEW R, NEW m, IsImage(m, R)
  PROVE  SavedLog(m) \in LogFile(R) /\ FiniteLog(SavedLog(m))
BY DEF SavedLog, LogFile, FiniteLog, IsImage
=============================================================================
