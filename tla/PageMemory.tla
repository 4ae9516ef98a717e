----------------------------- MODULE PageMemory -----------------------------
(***************************************************************************)
(* What a buffer pool promises its callers (storage/buffer_pool.rs): a     *)
(* memory of pages.  install_page replaces a page at one instant, at which *)
(* nobody has the page open, or fails and changes nothing; a read guard    *)
(* shows contents nobody changes while it is open; a write guard is alone. *)
(* Frames, eviction, write-back and the disk do not appear.                *)
(***************************************************************************)
CONSTANTS Threads, Slots, PageIds, Values, Initial, None

VARIABLES
    mem,        \* the contents of every page
    open,       \* the guards in existence
    install,    \* the page and contents an install_page has yet to store
    result      \* how each thread's last call ended

vars == <<mem, open, install, result>>

Guard == [thread: Threads, slot: Slots, page: PageIds,
          mode: {"read", "write"}]

Init ==
    /\ mem = [p \in PageIds |-> Initial]
    /\ open = {}
    /\ install = [t \in Threads |-> None]
    /\ result = [t \in Threads |-> "none"]

Acquire(g) ==
    /\ \A h \in open : h.page = g.page => h.mode = "read" /\ g.mode = "read"
    /\ open' = open \cup {g}
    /\ UNCHANGED <<mem, install, result>>

Release(g) == g \in open /\ open' = open \ {g}
                  /\ UNCHANGED <<mem, install, result>>

\* A change made through a write guard.
Update(g, v) ==
    /\ g \in open /\ g.mode = "write"
    /\ mem' = [mem EXCEPT ![g.page] = v]
    /\ UNCHANGED <<open, install, result>>

BeginInstall(t, p, v) ==
    /\ install[t] = None
    /\ install' = [install EXCEPT ![t] = <<p, v>>]
    /\ result' = [result EXCEPT ![t] = "none"]
    /\ UNCHANGED <<mem, open>>

Install(t) ==
    /\ install[t] # None
    /\ \A g \in open : g.page # install[t][1]
    /\ mem' = [mem EXCEPT ![install[t][1]] = install[t][2]]
    /\ install' = [install EXCEPT ![t] = None]
    /\ result' = [result EXCEPT ![t] = "ok"]
    /\ UNCHANGED open

\* Any other call (fetch_page, flush_page, flush_all), begun or ended, and
\* an install_page that fails.
Report(t, r) ==
    /\ install' = [install EXCEPT ![t] = None]
    /\ r = "ok" => install[t] = None
    /\ result' = [result EXCEPT ![t] = r]
    /\ UNCHANGED <<mem, open>>

\* The steps by what they change.
Next ==
    \/ open' # open /\ \E g \in Guard : Acquire(g) \/ Release(g)
    \/ mem' # mem /\ open' = open
          /\ \E g \in open, v \in Values : Update(g, v)
    \/ install' # install
          /\ \E t \in Threads : \/ \E p \in PageIds, v \in Values :
                                       BeginInstall(t, p, v)
                                 \/ Install(t)
    \/ result' # result /\ mem' = mem
          /\ \E t \in Threads, r \in {"none", "ok", "exhausted", "io"} :
                Report(t, r)

Spec == Init /\ [][Next]_vars
=============================================================================
