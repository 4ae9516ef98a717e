----------------------------- MODULE BufferPool -----------------------------
(***************************************************************************)
(* One shard of the buffer pool (storage/buffer_pool.rs) at the level of   *)
(* its locks: the shard's `state' mutex and one RwLock per frame.          *)
(*                                                                         *)
(* A step runs from one blocking point to the next: taking `state', taking *)
(* a frame lock, an iteration of the CLOCK sweep, a disk access.  A frame  *)
(* lock taken and released within a step is not kept; the frame locks that *)
(* outlive a step are the guards in callers' hands.  The model's callers   *)
(* hold several handles and guards at a time, as nested ReadTxn::read_page *)
(* callbacks do, and observe two rules without which they block themselves *)
(* whatever the pool does: install_page and the flushes are called with no *)
(* handle held, and a guard is not requested while holding one that        *)
(* conflicts with it or one of the same page.                              *)
(***************************************************************************)
EXTENDS Naturals, Sequences, FiniteSets

CONSTANTS
    Threads,
    PageIds,
    Capacity,         \* frames of the shard
    Values,           \* contents a page may have
    Initial,          \* the contents of every page on disk at the start
    Torn,             \* a page on disk that a failed write left damaged
    Depth,            \* how many handles a caller holds at most
    WriterPriority,   \* does a thread waiting to write a frame keep readers out?
    MaxCalls,         \* bound on calls of the pool, over all threads
    MaxFaults,        \* bound on disk errors
    None

Frames == 0 .. (Capacity - 1)
Slots == 0 .. Depth        \* slot 0 is the handle a call of the pool itself holds
Guards == {"none", "read", "write"}
Results == {"none", "ok", "exhausted", "io"}
Calls == [op: {"none"}] \cup [op: {"fetch"}, page: PageIds, slot: Slots \ {0}]
             \cup [op: {"install"}, page: PageIds, val: Values]
             \cup [op: {"flush"}, todo: SUBSET PageIds, sync: BOOLEAN]
             \cup [op: {"read", "write", "drop"}, slot: Slots \ {0}]
NoCall == [op |-> "none"]

ASSUME PoolAssumption ==
    /\ Capacity \in Nat \ {0} /\ Depth \in Nat \ {0}
    /\ MaxCalls \in Nat /\ MaxFaults \in Nat
    /\ WriterPriority \in BOOLEAN
    /\ Initial \in Values /\ Torn \notin Values
    /\ None \notin Threads /\ None \notin PageIds /\ None \notin Nat

VARIABLES
    pageTable, framePages, pinCounts, refBits, clockHand, freeFrames,
                  \* PoolState
    frames,       \* Frame of each frame: the page's contents and `dirty'
    disk,         \* the data file as read_page and write_page see it
    stateOwner,   \* who holds `state'
    handles,      \* the PageHandles of each thread
    guards,       \* the PageReadGuard or PageWriteGuard on each of them
    pc, call,     \* where each thread is, and in which call
    frame,        \* the frame the call works on
    sweep,        \* iterations find_victim has left
    result,       \* how each thread's last call ended
    owed,         \* ghost: pages a flush_all has found dirty and not yet seen written
    calls, faults

stateVars == <<pageTable, framePages, pinCounts, refBits, clockHand,
               freeFrames, stateOwner, sweep>>
pageVars == <<frames, disk, owed>>
vars == <<stateVars, pageVars, handles, guards, pc, call, frame, result,
          calls, faults>>

-----------------------------------------------------------------------------
(***************************************************************************)
(* States                                                                  *)
(***************************************************************************)

\* Shard::new
Init ==
    /\ pageTable = [p \in PageIds |-> None]
    /\ framePages = [f \in Frames |-> None]
    /\ pinCounts = [f \in Frames |-> 0]
    /\ refBits = [f \in Frames |-> FALSE]
    /\ clockHand = 0
    /\ freeFrames = [i \in 1 .. Capacity |-> Capacity - i]
    /\ frames = [f \in Frames |-> [val |-> Initial, dirty |-> FALSE]]
    /\ disk = [p \in PageIds |-> Initial]
    /\ stateOwner = None /\ sweep = 0
    /\ handles = [t \in Threads |-> [s \in Slots |-> None]]
    /\ guards = [t \in Threads |-> [s \in Slots |-> "none"]]
    /\ pc = [t \in Threads |-> "idle"]
    /\ call = [t \in Threads |-> NoCall]
    /\ frame = [t \in Threads |-> None]
    /\ result = [t \in Threads |-> "none"]
    /\ owed = [t \in Threads |-> {}]
    /\ calls = 0 /\ faults = 0

\* lock_state: the mutex, and the point where a blocked thread gets it.
StateFree == stateOwner = None
KeepState == UNCHANGED stateVars

Goto(t, l) == pc' = [pc EXCEPT ![t] = l]

\* A call ends with this result; the thread no longer works on a frame.
Return(t, r) ==
    /\ Goto(t, "idle")
    /\ call' = [call EXCEPT ![t] = NoCall]
    /\ frame' = [frame EXCEPT ![t] = None]
    /\ result' = [result EXCEPT ![t] = r]

HandlesOn(f) ==
    {h \in Threads \X Slots : /\ handles[h[1]][h[2]] # None
                              /\ handles[h[1]][h[2]].frame = f}

\* The RwLock of a frame.
GuardsOn(f, mode) == {h \in HandlesOn(f) : guards[h[1]][h[2]] = mode}
CanWrite(f) == GuardsOn(f, "read") = {} /\ GuardsOn(f, "write") = {}
WaitsToWrite(t, f) == pc[t] \in {"overwrite", "write_back", "write"}
                          /\ frame[t] = f
CanRead(f) ==
    /\ GuardsOn(f, "write") = {}
    /\ WriterPriority => \A t \in Threads : ~WaitsToWrite(t, f)

\* A disk access may fail now; the action that takes the failure counts it.
Fails == faults < MaxFaults /\ faults' = faults + 1
NoFault == UNCHANGED faults

\* What DiskManager::write_page of contents v to page p leaves on disk when
\* it fails.
WriteFailures(p, v) == {[disk EXCEPT ![p] = c] : c \in {disk[p], v, Torn}}

NewHandle(t, s, f, p) ==
    handles' = [handles EXCEPT ![t][s] = [frame |-> f, page |-> p]]

Pin(f) == pinCounts' = [pinCounts EXCEPT ![f] = @ + 1]
SetRef(f) == refBits' = [refBits EXCEPT ![f] = TRUE]
Map(p, f) ==
    /\ pageTable' = [pageTable EXCEPT ![p] = f]
    /\ framePages' = [framePages EXCEPT ![f] = p]

-----------------------------------------------------------------------------
(***************************************************************************)
(* fetch_page and install_page                                             *)
(***************************************************************************)

Begin(t, c, l) ==
    /\ pc[t] = "idle"
    /\ calls' = calls + 1
    /\ call' = [call EXCEPT ![t] = c]
    /\ result' = [result EXCEPT ![t] = "none"]
    /\ Goto(t, l)
    /\ KeepState /\ UNCHANGED <<pageVars, handles, guards, frame, faults>>

HoldsNothing(t) == \A s \in Slots : handles[t][s] = None

BeginFetch(t, p, s) ==
    /\ handles[t][s] = None
    /\ Begin(t, [op |-> "fetch", page |-> p, slot |-> s], "enter")

\* (BufferPool::install_page first refuses a page that carries another id.)
BeginInstall(t, p, v) ==
    /\ HoldsNothing(t)
    /\ Begin(t, [op |-> "install", page |-> p, val |-> v], "enter")

\* The page is cached: fetch_page pins it and returns the handle.
FetchHit(t, f) ==
    /\ call[t].op = "fetch"
    /\ NewHandle(t, call[t].slot, f, call[t].page)
    /\ Return(t, "ok")
    /\ UNCHANGED stateOwner

\* Mutation: install_page waits for the frame of a cached page under `state'.
InstallHitUnderState(t, f) ==
    /\ call[t].op = "install"
    /\ NewHandle(t, 0, f, call[t].page)
    /\ frame' = [frame EXCEPT ![t] = f]
    /\ Goto(t, "overwrite")
    /\ stateOwner' = t
    /\ UNCHANGED <<call, result>>

\* install_page pins it and releases `state' before it waits for the frame.
InstallHit(t, f) ==
    /\ call[t].op = "install"
    /\ NewHandle(t, 0, f, call[t].page)
    /\ frame' = [frame EXCEPT ![t] = f]
    /\ Goto(t, "overwrite")
    /\ UNCHANGED <<call, result, stateOwner>>

Hit(t) ==
    LET f == pageTable[call[t].page] IN
    /\ pc[t] = "enter" /\ StateFree
    /\ f # None
    /\ Pin(f) /\ SetRef(f)
    /\ FetchHit(t, f) \/ InstallHit(t, f)
    /\ UNCHANGED <<pageTable, framePages, clockHand, freeFrames, sweep,
                   pageVars, guards, calls, faults>>

\* Mutation: the clock goes round once, which may only clear reference bits.
SweepLengthOnce == Capacity

\* find_victim: "Two sweeps suffice".
SweepLength == 2 * Capacity

\* acquire_frame: a free frame, or else the search for a victim.
Miss(t) ==
    /\ pc[t] = "enter" /\ StateFree
    /\ pageTable[call[t].page] = None
    /\ stateOwner' = t
    /\ IF freeFrames # <<>>
       THEN /\ frame' = [frame EXCEPT ![t] = freeFrames[Len(freeFrames)]]
            /\ freeFrames' = SubSeq(freeFrames, 1, Len(freeFrames) - 1)
            /\ Goto(t, "fill")
            /\ UNCHANGED sweep
       ELSE /\ sweep' = SweepLength
            /\ Goto(t, "sweep")
            /\ UNCHANGED <<frame, freeFrames>>
    /\ UNCHANGED <<pageTable, framePages, pinCounts, refBits, clockHand,
                   pageVars, handles, guards, call, result, calls, faults>>

\* Mutation: pinned frames are victims like any other.
IsVictimPinned(f) == ~refBits[f]

\* find_victim: an unpinned frame whose reference bit is clear.
IsVictim(f) == pinCounts[f] = 0 /\ ~refBits[f]

\* Mutation: the clock hand runs off the end of the frames.
NextHandNoWrap == clockHand + 1

NextHand == (clockHand + 1) % Capacity

\* One iteration of find_victim, or its end without a victim.
Sweep(t) ==
    /\ pc[t] = "sweep"
    /\ IF sweep = 0
       THEN /\ Return(t, "exhausted")
            /\ stateOwner' = None
            /\ UNCHANGED <<sweep, clockHand, refBits>>
       ELSE /\ clockHand' = NextHand
            /\ refBits' = [refBits EXCEPT ![clockHand] =
                              @ /\ pinCounts[clockHand] > 0]
            /\ IF IsVictim(clockHand)
               THEN /\ frame' = [frame EXCEPT ![t] = clockHand]
                    /\ sweep' = 0
                    /\ Goto(t, "evict")
               ELSE sweep' = sweep - 1 /\ UNCHANGED <<pc, frame>>
            /\ UNCHANGED <<stateOwner, call, result>>
    /\ UNCHANGED <<pageTable, framePages, pinCounts, freeFrames, pageVars,
                   handles, guards, calls, faults>>

\* write_back of frame f as page p: a dirty page is written and is clean from
\* then on.  On failure the frame keeps it, dirty.
WriteBackOk(f, p) ==
    /\ NoFault
    /\ frames' = [frames EXCEPT ![f] = [val |-> @.val, dirty |-> FALSE]]
    /\ disk' = IF frames[f].dirty THEN [disk EXCEPT ![p] = frames[f].val]
               ELSE disk
    /\ owed' = [t \in Threads |-> owed[t] \ {p}]

\* Mutation: the dirty flag is cleared before the write, which then fails.
WriteBackFailsClean(f, p) ==
    /\ frames[f].dirty /\ Fails
    /\ disk' \in WriteFailures(p, frames[f].val)
    /\ frames' = [frames EXCEPT ![f] = [val |-> @.val, dirty |-> FALSE]]
    /\ UNCHANGED owed

WriteBackFails(f, p) ==
    /\ frames[f].dirty /\ Fails
    /\ disk' \in WriteFailures(p, frames[f].val)
    /\ UNCHANGED <<frames, owed>>

\* The rest of acquire_frame: the victim is written back, then unmapped.
Evict(t) ==
    LET f == frame[t] IN
    /\ pc[t] = "evict" /\ CanWrite(f)
    /\ \/ /\ WriteBackOk(f, framePages[f])
          /\ pageTable' = [pageTable EXCEPT ![framePages[f]] = None]
          /\ framePages' = [framePages EXCEPT ![f] = None]
          /\ Goto(t, "fill")
          /\ UNCHANGED <<stateOwner, call, frame, result>>
       \/ /\ WriteBackFails(f, framePages[f])
          /\ stateOwner' = None
          /\ Return(t, "io")
          /\ UNCHANGED <<pageTable, framePages>>
    /\ UNCHANGED <<pinCounts, refBits, clockHand, freeFrames, sweep, handles,
                   guards, calls>>

\* fetch_page with the frame it acquired: the page read goes into it, mapped
\* and pinned once.
FetchFill(t, f, p) ==
    /\ disk[p] \in Values /\ CanWrite(f) /\ NoFault
    /\ frames' = [frames EXCEPT ![f] = [val |-> disk[p], dirty |-> FALSE]]
    /\ Map(p, f) /\ SetRef(f)
    /\ pinCounts' = [pinCounts EXCEPT ![f] = 1]
    /\ NewHandle(t, call[t].slot, f, p)
    /\ Return(t, "ok")
    /\ UNCHANGED freeFrames

\* Mutation: the acquired frame is not put back.
FetchFailsLeaking(t, f, p) ==
    /\ (disk[p] = Torn /\ NoFault) \/ Fails
    /\ Return(t, "io")
    /\ UNCHANGED <<frames, pageTable, framePages, pinCounts, refBits,
                   freeFrames, handles>>

\* Its read fails, or finds a damaged page: the frame is free again.
FetchFails(t, f, p) ==
    /\ (disk[p] = Torn /\ NoFault) \/ Fails
    /\ freeFrames' = Append(freeFrames, f)
    /\ Return(t, "io")
    /\ UNCHANGED <<frames, pageTable, framePages, pinCounts, refBits, handles>>

\* install_page with the frame it acquired: no disk access, and no pin.
InstallFill(t, f, p) ==
    /\ CanWrite(f) /\ NoFault
    /\ frames' = [frames EXCEPT ![f] = [val |-> call[t].val, dirty |-> TRUE]]
    /\ Map(p, f) /\ SetRef(f)
    /\ Return(t, "ok")
    /\ UNCHANGED <<pinCounts, freeFrames, handles>>

Fill(t) ==
    LET f == frame[t]
        p == call[t].page
    IN
    /\ pc[t] = "fill"
    /\ \/ call[t].op = "fetch" /\ (FetchFill(t, f, p) \/ FetchFails(t, f, p))
       \/ call[t].op = "install" /\ InstallFill(t, f, p)
    /\ stateOwner' = None
    /\ UNCHANGED <<clockHand, sweep, disk, owed, guards, calls>>

\* install_page on a cached page, once it has the frame; the handle goes next.
Overwrite(t) ==
    /\ pc[t] = "overwrite" /\ CanWrite(frame[t])
    /\ frames' = [frames EXCEPT ![frame[t]] =
                     [val |-> call[t].val, dirty |-> TRUE]]
    /\ result' = [result EXCEPT ![t] = "ok"]
    /\ Goto(t, "unpin")
    /\ KeepState
    /\ UNCHANGED <<disk, owed, handles, guards, call, frame, calls, faults>>

-----------------------------------------------------------------------------
(***************************************************************************)
(* flush_page and flush_all                                                *)
(***************************************************************************)

BeginFlushPage(t, p) ==
    /\ HoldsNothing(t)
    /\ Begin(t, [op |-> "flush", todo |-> {p}, sync |-> FALSE], "flush")

BeginFlushAll(t) ==
    /\ HoldsNothing(t)
    /\ Begin(t, [op |-> "flush", todo |-> {}, sync |-> TRUE], "snapshot")

Cached == {p \in PageIds : pageTable[p] # None}
Dirty == {p \in Cached : frames[pageTable[p]].dirty}

SetTodo(t, pages, sync) ==
    call' = [call EXCEPT ![t] = [op |-> "flush", todo |-> pages, sync |-> sync]]

\* Mutation: only the pages no handle is on are flushed.
SnapshotPages0 == {p \in Cached : pinCounts[pageTable[p]] = 0}

\* flush_cached: the ids in the page table, collected under `state'.
SnapshotPages == Cached

Snapshot(t) ==
    /\ pc[t] = "snapshot" /\ StateFree
    /\ SetTodo(t, SnapshotPages, TRUE)
    /\ owed' = [owed EXCEPT ![t] = Dirty]
    /\ Goto(t, "flush")
    /\ KeepState
    /\ UNCHANGED <<frames, disk, handles, guards, frame, result, calls, faults>>

\* flush_page of the next page: skipped when no longer cached, else pinned
\* (its reference bit stays), and `state' released.
FlushPage(t, p) ==
    /\ pc[t] = "flush" /\ StateFree /\ p \in call[t].todo
    /\ SetTodo(t, call[t].todo \ {p}, call[t].sync)
    /\ IF pageTable[p] = None
       THEN UNCHANGED <<pinCounts, handles, frame, pc>>
       ELSE /\ Pin(pageTable[p])
            /\ NewHandle(t, 0, pageTable[p], p)
            /\ frame' = [frame EXCEPT ![t] = pageTable[p]]
            /\ Goto(t, "write_back")
    /\ UNCHANGED <<pageTable, framePages, refBits, clockHand, freeFrames,
                   stateOwner, sweep, pageVars, guards, result, calls, faults>>

\* Its write-back, once it has the frame.  An error ends a flush_all.
FlushWriteBack(t) ==
    LET f == frame[t]
        p == handles[t][0].page
    IN
    /\ pc[t] = "write_back" /\ CanWrite(f)
    /\ \/ WriteBackOk(f, p) /\ UNCHANGED <<call, result>>
       \/ /\ WriteBackFails(f, p)
          /\ SetTodo(t, {}, FALSE)
          /\ result' = [result EXCEPT ![t] = "io"]
    /\ Goto(t, "unpin")
    /\ KeepState
    /\ UNCHANGED <<handles, guards, frame, calls>>

\* All pages are done, or one failed.  flush_all ends with a sync, which may
\* fail.
FlushReturn(t) ==
    /\ pc[t] = "flush" /\ call[t].todo = {}
    /\ \/ NoFault /\ Return(t, IF result[t] = "none" THEN "ok" ELSE result[t])
       \/ call[t].sync /\ Fails /\ Return(t, "io")
    /\ owed' = [owed EXCEPT ![t] = {}]
    /\ KeepState
    /\ UNCHANGED <<frames, disk, handles, guards, calls>>

-----------------------------------------------------------------------------
(***************************************************************************)
(* Handles and guards in callers' hands                                    *)
(***************************************************************************)

\* Mutation: dropping a handle leaves the pin.
UnpinNot(f) == UNCHANGED pinCounts

Unpin(f) == pinCounts' = [pinCounts EXCEPT ![f] = @ - 1]

\* PageHandle::drop of the handle a call of the pool held, or of a caller's.
DropSlot(t) == IF call[t].op = "drop" THEN call[t].slot ELSE 0

Drop(t) ==
    LET s == DropSlot(t) IN
    /\ pc[t] = "unpin" /\ StateFree
    /\ Unpin(handles[t][s].frame)
    /\ handles' = [handles EXCEPT ![t][s] = None]
    /\ frame' = [frame EXCEPT ![t] = None]
    /\ IF call[t].op = "flush"
       THEN Goto(t, "flush") /\ UNCHANGED call
       ELSE Goto(t, "idle") /\ call' = [call EXCEPT ![t] = NoCall]
    /\ UNCHANGED <<pageTable, framePages, refBits, clockHand, freeFrames,
                   stateOwner, sweep, pageVars, guards, result, calls, faults>>

\* A caller turns to a handle it holds: PageHandle::read, PageHandle::write,
\* or its drop, which the borrow checker forbids while a guard is on it.
Turn(t, s, op, l) ==
    /\ pc[t] = "idle"
    /\ handles[t][s] # None /\ guards[t][s] = "none"
    /\ call' = [call EXCEPT ![t] = [op |-> op, slot |-> s]]
    /\ frame' = [frame EXCEPT ![t] = handles[t][s].frame]
    /\ Goto(t, l)
    /\ KeepState
    /\ UNCHANGED <<pageVars, handles, guards, result, faults>>

\* The guards a caller already has admit another one of this mode on page p.
MayAsk(t, p, mode) ==
    \A s \in Slots : guards[t][s] # "none" =>
        mode = "read" /\ guards[t][s] = "read" /\ handles[t][s].page # p

Ask(t, s, mode) ==
    /\ Turn(t, s, mode, mode)
    /\ MayAsk(t, handles[t][s].page, mode)
    /\ calls' = calls + 1

DropHandle(t, s) == Turn(t, s, "drop", "unpin") /\ UNCHANGED calls

HasLock(t, mode) ==
    /\ guards' = [guards EXCEPT ![t][call[t].slot] = mode]
    /\ call' = [call EXCEPT ![t] = NoCall]
    /\ frame' = [frame EXCEPT ![t] = None]
    /\ Goto(t, "idle")
    /\ KeepState
    /\ UNCHANGED <<disk, owed, handles, result, calls, faults>>

TakeRead(t) ==
    pc[t] = "read" /\ CanRead(frame[t]) /\ HasLock(t, "read")
        /\ UNCHANGED frames

MarkDirty(f) ==
    frames' = [frames EXCEPT ![f] = [val |-> @.val, dirty |-> TRUE]]

TakeWrite(t) ==
    pc[t] = "write" /\ CanWrite(frame[t]) /\ HasLock(t, "write")
        /\ MarkDirty(frame[t])

\* A change through a PageWriteGuard.
Modify(t, s, v) ==
    /\ pc[t] = "idle" /\ guards[t][s] = "write"
    /\ frames' = [frames EXCEPT ![handles[t][s].frame] =
                     [val |-> v, dirty |-> @.dirty]]
    /\ KeepState
    /\ UNCHANGED <<disk, owed, handles, guards, pc, call, frame, result, calls,
                   faults>>

DropGuard(t, s) ==
    /\ pc[t] = "idle" /\ guards[t][s] # "none"
    /\ guards' = [guards EXCEPT ![t][s] = "none"]
    /\ KeepState
    /\ UNCHANGED <<pageVars, handles, pc, call, frame, result, calls, faults>>

-----------------------------------------------------------------------------

\* What a thread does inside the pool, and what a caller does between calls.
PoolStep(t) ==
    \/ Hit(t) \/ Miss(t) \/ Sweep(t) \/ Evict(t) \/ Fill(t) \/ Overwrite(t)
    \/ Snapshot(t) \/ (\E p \in PageIds : FlushPage(t, p))
    \/ FlushWriteBack(t) \/ FlushReturn(t)
    \/ TakeRead(t) \/ TakeWrite(t) \/ Drop(t)

CallerStep(t) ==
    \/ /\ calls < MaxCalls
       /\ \/ \E p \in PageIds, s \in Slots \ {0} : BeginFetch(t, p, s)
          \/ \E p \in PageIds, v \in Values : BeginInstall(t, p, v)
          \/ \E p \in PageIds : BeginFlushPage(t, p)
          \/ BeginFlushAll(t)
          \/ \E s \in Slots \ {0} : Ask(t, s, "read") \/ Ask(t, s, "write")
    \/ \E s \in Slots \ {0}, v \in Values : Modify(t, s, v)

LetGo(t) == \E s \in Slots \ {0} : DropGuard(t, s) \/ DropHandle(t, s)

\* Every caller has let go of everything and the bound on calls is reached.
Terminated ==
    /\ calls = MaxCalls
    /\ \A t \in Threads : pc[t] = "idle" /\ HoldsNothing(t)
    /\ UNCHANGED vars

Next == \/ \E t \in Threads : PoolStep(t) \/ CallerStep(t) \/ LetGo(t)
        \/ Terminated

Safety == Init /\ [][Next]_vars

-----------------------------------------------------------------------------
(***************************************************************************)
(* Properties                                                              *)
(***************************************************************************)

Labels == {"idle", "enter", "sweep", "evict", "fill", "overwrite", "snapshot",
           "flush", "write_back", "unpin", "read", "write"}

\* The variables have their types.
TypeOK ==
    /\ pageTable \in [PageIds -> Frames \cup {None}]
    /\ framePages \in [Frames -> PageIds \cup {None}]
    /\ pinCounts \in [Frames -> Nat]
    /\ refBits \in [Frames -> BOOLEAN]
    /\ clockHand \in Frames
    /\ freeFrames \in Seq(Frames)
    /\ frames \in [Frames -> [val: Values, dirty: BOOLEAN]]
    /\ disk \in [PageIds -> Values \cup {Torn}]
    /\ stateOwner \in Threads \cup {None} /\ sweep \in Nat
    /\ handles \in [Threads ->
                       [Slots -> [frame: Frames, page: PageIds] \cup {None}]]
    /\ guards \in [Threads -> [Slots -> Guards]]
    /\ pc \in [Threads -> Labels]
    /\ call \in [Threads -> Calls]
    /\ frame \in [Threads -> Frames \cup {None}]
    /\ result \in [Threads -> Results]
    /\ owed \in [Threads -> SUBSET PageIds]
    /\ calls \in Nat /\ faults \in Nat

\* "A thread holding `state' may only block on the lock of an unpinned
\* frame" (module docs): whoever holds `state' finds the lock of the frame
\* it works on free, so it never waits for a thread that may be waiting for
\* `state' with that frame's guard in its hands.
StateHolderNeverWaits ==
    \A t \in Threads :
        stateOwner = t /\ frame[t] # None => CanWrite(frame[t])

\* A handle keeps its page where it is: as long as it exists, the page table
\* leads to its frame and the frame belongs to its page, so a guard taken
\* through it shows that page and no other.
HandlesValid ==
    \A t \in Threads, s \in Slots :
        LET h == handles[t][s] IN
        h # None => pageTable[h.page] = h.frame /\ framePages[h.frame] = h.page

\* A frame's pin count is the number of handles on it: no call, whether it
\* succeeds or fails, forgets a pin or drops one twice.
PinsAreCounted == \A f \in Frames : pinCounts[f] = Cardinality(HandlesOn(f))

InFlight == {frame[t] : t \in {u \in Threads : pc[u] = "fill"}}
FreeSet == {freeFrames[i] : i \in 1 .. Len(freeFrames)}

\* No frame is lost: each is on the free list, once, or holds exactly the
\* page the page table has in it, or is in the hands of the call that
\* acquired it.  In particular a victim always has a page id (the `expect' in
\* acquire_frame), and failed reads and write-backs give their frame back.
NoFrameLeaks ==
    /\ Cardinality(FreeSet) = Len(freeFrames)
    /\ \A f \in Frames :
          \/ f \in FreeSet \ InFlight /\ framePages[f] = None
          \/ f \in InFlight \ FreeSet /\ framePages[f] = None
          \/ /\ f \notin FreeSet \cup InFlight
             /\ framePages[f] # None /\ pageTable[framePages[f]] = f
    /\ \A p \in Cached : framePages[pageTable[p]] = p

\* A call reports ResourceExhausted only when every frame is pinned: the two
\* turns of the clock miss no victim, whatever the reference bits were.
ExhaustedOnlyWhenAllPinned ==
    [][\A t \in Threads :
          result'[t] = "exhausted" /\ result[t] # "exhausted" =>
              \A f \in Frames : pinCounts[f] > 0]_vars

\* When flush_all has gone through its list without an error, every page that
\* was cached and dirty when it collected the list has been written since,
\* by itself or by an eviction, although fetches, evictions and installs
\* went on meanwhile.  The checkpoint relies on it before it resets the WAL.
FlushAllWritesEverything ==
    \A t \in Threads :
        pc[t] = "flush" /\ call[t].todo = {} /\ result[t] = "none" =>
            owed[t] = {}

\* The contents of every page as callers see them.
Contents == [p \in PageIds |-> IF pageTable[p] = None THEN disk[p]
                               ELSE frames[pageTable[p]].val]

Memory == INSTANCE PageMemory WITH
    mem <- Contents,
    open <- {[thread |-> h[1], slot |-> h[2],
              page |-> handles[h[1]][h[2]].page,
              mode |-> guards[h[1]][h[2]]] :
                h \in {g \in Threads \X Slots : guards[g[1]][g[2]] # "none"}},
    install <- [t \in Threads |->
                   IF call[t].op = "install" /\ result[t] = "none"
                   THEN <<call[t].page, call[t].val>> ELSE None]

\* To its callers the pool is a memory of pages: module PageMemory.
IsPageMemory == Memory!Spec
=============================================================================
