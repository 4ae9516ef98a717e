----------------------------- MODULE PoolProofs -----------------------------
(***************************************************************************)
(* The buffer pool: a clean page is what the data file holds, and no       *)
(* operation but install_page changes what fetch_page returns.             *)
(***************************************************************************)
EXTENDS Database, FilesProofs

USE DEF Verify

\* A pool with cached pages c, of which d are dirty, over the data file f.
IsPool(c, d, f) ==
    /\ f \in PageFile(Pages, Contents)
    /\ DOMAIN c \subseteq DataPages
    /\ c \in [DOMAIN c -> Nat]
    /\ d \subseteq DOMAIN c
    /\ \A p \in DOMAIN c \ d : f.now[p] = c[p]

\* What fetch_page returns.
Shown(c, f, p) == IF p \in DOMAIN c THEN c[p] ELSE f.now[p]

SamePages(c, f) == \A p \in DataPages : Shown(c, f, p) = Fetched(p)

\* What the proofs use of the constants.
LEMMA Constants ==
  /\ HEADER \in Pages /\ DataPages \subseteq Pages /\ HEADER \notin DataPages
  /\ Pages \subseteq Nat /\ IsFiniteSet(Pages)
  /\ Torn \in Contents /\ Malformed \in Contents /\ Nat \subseteq Contents
BY ConstantsAssumption, FS_Interval
   DEF HEADER, Pages, DataPages, Contents

\* Shard::acquire_frame evicts a page only once the file holds it.
LEMMA AcquireFrameOK ==
  ASSUME IsPool(cache, dirty, data), NEW a \in AcquireFrame
  PROVE  IsPool(a.cache, a.dirty, a.data) /\ SamePages(a.cache, a.data)
<1>1. CASE a = [cache |-> cache, dirty |-> dirty, data |-> data]
  BY <1>1 DEF SamePages, Shown, Fetched
<1>2. ASSUME NEW q \in DOMAIN cache,
             a = [cache |-> Without(cache, q), dirty |-> dirty \ {q},
                  data |-> IF q \in dirty
                           THEN PageWritten(data, q, cache[q]) ELSE data]
      PROVE  IsPool(a.cache, a.dirty, a.data) /\ SamePages(a.cache, a.data)
  <2>1. /\ a.data \in PageFile(Pages, Contents)
        /\ \A p \in Pages : a.data.now[p] =
              IF p = q /\ q \in dirty THEN cache[q] ELSE data.now[p]
    <3>1. q \in Pages /\ cache[q] \in Contents
      BY Constants DEF IsPool
    <3>2. CASE q \in dirty
      <4>1. a.data = PageWritten(data, q, cache[q])
        BY <1>2, <3>2
      <4>2. data \in PageFile(Pages, Contents) /\ Torn \in Contents
        BY Constants DEF IsPool
      <4> QED
        BY <3>1, <3>2, <4>1, <4>2 DEF PageWritten, PageFile
    <3>3. CASE q \notin dirty
      BY <1>2, <3>3 DEF IsPool
    <3> QED
      BY <3>2, <3>3
  <2>2. /\ a.cache = Without(cache, q) /\ a.dirty = dirty \ {q}
        /\ DOMAIN a.cache = DOMAIN cache \ {q}
        /\ \A p \in DOMAIN a.cache : a.cache[p] = cache[p]
    BY <1>2 DEF Without
  <2>3. IsPool(a.cache, a.dirty, a.data)
    BY <2>1, <2>2, Constants DEF IsPool, Without
  <2>4. SamePages(a.cache, a.data)
    BY <2>1, <2>2, Constants DEF IsPool, SamePages, Shown, Fetched
  <2> QED
    BY <2>3, <2>4
<1> QED
  BY <1>1, <1>2 DEF AcquireFrame

\* The same of a call that needs a frame only if its page is not cached.
LEMMA FrameForOK ==
  ASSUME IsPool(cache, dirty, data), NEW p, NEW a \in FrameFor(p)
  PROVE  IsPool(a.cache, a.dirty, a.data) /\ SamePages(a.cache, a.data)
<1>1. CASE a = [cache |-> cache, dirty |-> dirty, data |-> data]
  BY <1>1 DEF SamePages, Shown, Fetched
<1>2. CASE a \in AcquireFrame
  BY <1>2, AcquireFrameOK
<1> QED
  BY <1>1, <1>2 DEF FrameFor

\* Shard::fetch_page, a failing write-back of a victim, and a failing
\* fetch_page: every page is still what it was.
LEMMA FetchPageOK ==
  ASSUME IsPool(cache, dirty, data), NEW p \in DataPages, FetchPage(p)
  PROVE  /\ IsPool(cache', dirty', data') /\ SamePages(cache', data')
         /\ cache'[p] \in Nat
<1>1. PICK a \in FrameFor(p) :
         LET page == IF p \in DOMAIN a.cache THEN a.cache[p]
                     ELSE a.data.now[p]
         IN  /\ page \in Nat
             /\ cache' = With(a.cache, p, page)
             /\ dirty' = a.dirty
             /\ data' = a.data
  BY DEF FetchPage
<1>2. IsPool(a.cache, a.dirty, a.data) /\ SamePages(a.cache, a.data)
  BY FrameForOK
<1>3. /\ DOMAIN cache' = DOMAIN a.cache \cup {p}
      /\ \A q \in DOMAIN a.cache : cache'[q] = a.cache[q]
      /\ p \notin DOMAIN a.cache => cache'[p] = a.data.now[p]
      /\ cache'[p] \in Nat
      /\ cache' = [q \in DOMAIN cache' |-> cache'[q]]
  BY <1>1 DEF With
<1>4. dirty' = a.dirty /\ data' = a.data
  BY <1>1
<1>5. IsPool(cache', dirty', data')
  BY <1>2, <1>3, <1>4 DEF IsPool
<1>6. SamePages(cache', data')
  BY <1>2, <1>3, <1>4 DEF SamePages, Shown
<1> QED
  BY <1>3, <1>5, <1>6

\* A failed write of a dirty page: the page stays cached, so nobody reads
\* what the write left.
LEMMA WriteFailureOK ==
  ASSUME IsPool(cache, dirty, data), NEW q \in dirty,
         data' \in PageWriteFailures(data, q, cache[q]), UNCHANGED poolVars
  PROVE  IsPool(cache', dirty', data') /\ SamePages(cache', data')
<1>1. /\ q \in Pages /\ q \in DOMAIN cache /\ cache[q] \in Contents
      /\ data \in PageFile(Pages, Contents) /\ Torn \in Contents
  BY Constants DEF IsPool
<1>2. /\ data' \in PageFile(Pages, Contents)
      /\ \A p \in Pages \ {q} : data'.now[p] = data.now[p]
  BY <1>1, PageWriteFailuresType
<1>3. cache' = cache /\ dirty' = dirty
  BY DEF poolVars
<1>4. IsPool(cache', dirty', data')
  BY <1>1, <1>2, <1>3, Constants DEF IsPool
<1>5. SamePages(cache', data')
  BY <1>1, <1>2, <1>3, Constants DEF SamePages, Shown, Fetched
<1> QED
  BY <1>4, <1>5

\* Shard::fetch_page returning an error changes no page either.
LEMMA FetchPageFailsOK ==
  ASSUME IsPool(cache, dirty, data), NEW p \in DataPages, FetchPageFails(p)
  PROVE  IsPool(cache', dirty', data') /\ SamePages(cache', data')
<1>1. CASE WriteBackFails
  BY <1>1, WriteFailureOK DEF WriteBackFails
<1>2. ASSUME NEW a \in AcquireFrame,
             cache' = a.cache /\ dirty' = a.dirty /\ data' = a.data
      PROVE  IsPool(cache', dirty', data') /\ SamePages(cache', data')
  BY <1>2, AcquireFrameOK
<1> QED
  BY <1>1, <1>2 DEF FetchPageFails

\* Shard::install_page leaves the pool consistent.
LEMMA InstallPageOK ==
  ASSUME IsPool(cache, dirty, data), NEW p \in DataPages, NEW page \in Nat,
         InstallPage(p, page)
  PROVE  IsPool(cache', dirty', data')
<1>1. PICK a \in FrameFor(p) :
         /\ cache' = With(a.cache, p, page)
         /\ dirty' = a.dirty \cup {p}
         /\ data' = a.data
  BY DEF InstallPage
<1>2. IsPool(a.cache, a.dirty, a.data)
  BY FrameForOK
<1>3. /\ DOMAIN cache' = DOMAIN a.cache \cup {p}
      /\ \A q \in DOMAIN a.cache \ {p} : cache'[q] = a.cache[q]
      /\ cache'[p] = page
      /\ cache' = [q \in DOMAIN cache' |-> cache'[q]]
  BY <1>1 DEF With
<1> QED
  BY <1>1, <1>2, <1>3 DEF IsPool

\* Shard::flush_page.
LEMMA FlushPageOK ==
  ASSUME IsPool(cache, dirty, data), NEW p \in DataPages, FlushPage(p)
  PROVE  IsPool(cache', dirty', data') /\ SamePages(cache', data')
<1>1. cache' = cache /\ dirty' = dirty \ {p}
  BY DEF FlushPage
<1>2. /\ data' \in PageFile(Pages, Contents)
      /\ \A q \in Pages : data'.now[q] =
            IF q = p /\ p \in dirty THEN cache[p] ELSE data.now[q]
  <2>1. CASE p \in dirty
    <3>1. /\ data' = PageWritten(data, p, cache[p])
          /\ p \in Pages /\ cache[p] \in Contents /\ Torn \in Contents
          /\ data \in PageFile(Pages, Contents)
      BY <2>1, Constants DEF FlushPage, IsPool
    <3> QED
      BY <2>1, <3>1 DEF PageWritten, PageFile
  <2>2. CASE p \notin dirty
    BY <2>2 DEF FlushPage, IsPool
  <2> QED
    BY <2>1, <2>2
<1>3. IsPool(cache', dirty', data')
  BY <1>1, <1>2, Constants DEF IsPool
<1>4. SamePages(cache', data')
  BY <1>1, <1>2, Constants DEF IsPool, SamePages, Shown, Fetched
<1> QED
  BY <1>3, <1>4

\* A step that leaves the pool and all reads of data pages alone.
LEMMA PoolKept ==
  ASSUME IsPool(cache, dirty, data), cache' = cache, dirty' = dirty,
         data' \in PageFile(Pages, Contents),
         \A p \in DataPages : data'.now[p] = data.now[p]
  PROVE  IsPool(cache', dirty', data') /\ SamePages(cache', data')
BY DEF IsPool, SamePages, Shown, Fetched

\* BufferPool::new: an empty pool fits any data file.
LEMMA EmptyPool ==
  ASSUME NEW f \in PageFile(Pages, Contents)
  PROVE  IsPool(Empty, {}, f)
BY DEF IsPool, Empty
=============================================================================
