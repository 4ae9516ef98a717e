------------------------------- MODULE Shards --------------------------------
(***************************************************************************)
(* How the buffer pool is split into shards (buffer_pool.rs): how many     *)
(* there are, how many frames each has, and which shard a page belongs to. *)
(* A page can only use the frames of its own shard, so a pool may report   *)
(* ResourceExhausted with frames to spare; how many is decided here, by a  *)
(* multiplication modulo 2^64 and a mask.                                  *)
(*                                                                         *)
(* A caller pins consecutive pages until it is refused, drops its handles  *)
(* and goes on from there.  Inside a shard, module BufferPool.             *)
(***************************************************************************)
EXTENDS Integers, FiniteSets, FiniteSetsExt, Bitwise

CONSTANTS
    Capacities,     \* the capacities a pool is created with
    MaxPageId       \* pages are numbered up to here

TARGET_SHARD_FRAMES == 64
MAX_SHARDS == 64

VARIABLES
    frames,     \* frames of each shard; empty before the pool is created
    requested,  \* ghost: the capacity it was created with
    pinned,     \* how many of them are pinned
    next,       \* the page to fetch next
    refused     \* was the last fetch refused?

vars == <<frames, requested, pinned, next, refused>>

-----------------------------------------------------------------------------
ilog2(n) == Max({k \in 0 .. 30 : 2^k <= n})

\* Mutation: rounded up to a power of two.
shard_count_for_up(capacity) ==
    LET wanted == Max({1, Min({capacity \div TARGET_SHARD_FRAMES, MAX_SHARDS})})
    IN  2^Min({k \in 0 .. 30 : wanted <= 2^k})

shard_count_for(capacity) ==
    LET wanted == Max({1, Min({capacity \div TARGET_SHARD_FRAMES, MAX_SHARDS})})
    IN  2^ilog2(wanted)

\* BufferPool::new: the remainder is spread over the first shards.
FramesOf(capacity) ==
    LET n == shard_count_for(capacity)
    IN  [i \in 0 .. n - 1 |->
            capacity \div n + (IF i < capacity % n THEN 1 ELSE 0)]

\* Mutation: the identity for a hash.
HashHighId(id) == id \div 2^16

\* Bits 32 to 47 of id * 0x9E3779B97F4A7C15, in limbs of 12 bits: the higher
\* ones are masked away, as there are at most 64 shards.
HashHigh(id) ==
    LET p0 == 3093 * id                         \* 0xC15
        p1 == 1191 * id + p0 \div 4096          \* 0x4A7
        p2 == 2431 * id + p1 \div 4096          \* 0x97F
        p3 == 1947 * id + p2 \div 4096          \* 0x79B
    IN  (p2 % 4096) \div 256 + 16 * (p3 % 4096)

shard_for(id) == HashHigh(id) & (Cardinality(DOMAIN frames) - 1)

-----------------------------------------------------------------------------
Init ==
    /\ frames = <<>> /\ requested = 0
    /\ pinned = <<>> /\ next = 1 /\ refused = FALSE

Nothing(f) == [i \in DOMAIN f |-> 0]

New(capacity) ==
    /\ frames = <<>>
    /\ frames' = FramesOf(capacity) /\ requested' = capacity
    /\ pinned' = Nothing(frames')
    /\ UNCHANGED <<next, refused>>

\* fetch_page, the handle kept: the shard has an unpinned frame, or it fails.
Fetch ==
    /\ frames # <<>> /\ ~refused /\ next <= MaxPageId
    /\ LET s == shard_for(next) IN
          IF pinned[s] < frames[s]
          THEN /\ pinned' = [pinned EXCEPT ![s] = @ + 1]
               /\ next' = next + 1 /\ UNCHANGED refused
          ELSE refused' = TRUE /\ UNCHANGED <<pinned, next>>
    /\ UNCHANGED <<frames, requested>>

DropHandles ==
    /\ refused
    /\ refused' = FALSE /\ pinned' = Nothing(frames)
    /\ UNCHANGED <<frames, requested, next>>

Terminated == next > MaxPageId /\ UNCHANGED vars

Next ==
    \/ \E c \in Capacities : New(c)
    \/ Fetch \/ DropHandles \/ Terminated

Spec == Init /\ [][Next]_vars

-----------------------------------------------------------------------------
\* BufferPool::capacity: the frames of all shards, added up by their number.
Total(f) ==
    MapThenSumSet(LAMBDA n : n * Cardinality({i \in DOMAIN f : f[i] = n}),
                  {f[i] : i \in DOMAIN f})

\* Every page has a shard with frames to put it in: an index that is out of
\* range, or a shard without frames, would make fetch_page panic or fail for
\* good.  No shard of a pool that has several falls below the size the pool
\* aims for, and no frame of the capacity is forgotten.
ShardsAreUsable ==
    frames # <<>> =>
        /\ shard_for(next) \in DOMAIN frames
        /\ \A i \in DOMAIN frames :
              frames[i] >= IF Cardinality(DOMAIN frames) = 1 THEN 1
                           ELSE TARGET_SHARD_FRAMES
        /\ Total(frames) = requested

\* "Sequential ids spread across shards" (shard_for): a caller that pins
\* consecutive pages is refused only when, on average, fewer than three
\* frames of a shard are left, wherever in the file the pages are.
NearlyFullWhenRefused ==
    refused => Total(frames) - Total(pinned) < 3 * Cardinality(DOMAIN frames)
=============================================================================
