------------------------------ MODULE PageStore ------------------------------
(***************************************************************************)
(* The data file as DiskManager sees it (storage/disk.rs), with the fields *)
(* of a page (page.rs) and of the file header (file_header.rs) and what is *)
(* verified when they are read back, on a medium that may tear a write,    *)
(* put it elsewhere, drop it, or let a stored field decay.                 *)
(*                                                                         *)
(* A checksum is the fields it was computed over: it matches exactly when  *)
(* they are unchanged.  Whether CRC32C tells damage apart is module        *)
(* Crc32c's question.                                                      *)
(***************************************************************************)
EXTENDS Naturals, Sequences

CONSTANTS
    MaxPages,       \* bound on page_count
    Payloads,       \* what the bytes after a page's header may be
    Unsealed,       \* a checksum field of zero
    Rotten,         \* a field that has decayed
    Cut,            \* page 0 of a file that ends inside it
    MaxWrites,      \* bound on pages written
    MaxFaults       \* bound on damage

FORMAT_VERSION == 1
PAGE_SIZE == 4096

VARIABLES
    header,         \* page 0 of the file, or Cut
    pages,          \* the pages after it, in order
    isOpen,
    page_count,     \* DiskManager::page_count
    last,           \* the last call: what it did to which page, and its result
    versions,       \* ghost: for each page id, the pages written under it
    newest,         \* ghost: the last of them, if nothing has damaged it in the
                    \* file; else zeroed
    writes, faults

fileVars == <<header, pages>>
diskVars == <<isOpen, page_count>>
ghosts == <<versions, newest>>
vars == <<fileVars, diskVars, last, ghosts, writes, faults>>

Ids == 1 .. MaxPages

-----------------------------------------------------------------------------
(***************************************************************************)
(* Pages                                                                   *)
(***************************************************************************)

PageType == [Free |-> 1, Heap |-> 2]

Fields(page) == [page EXCEPT !.checksum = Unsealed]

\* Mutation: a page that has a checksum keeps it.
sealOnce(page) ==
    IF page.checksum = Unsealed THEN [page EXCEPT !.checksum = Fields(page)]
    ELSE page

seal(page) == [page EXCEPT !.checksum = Fields(page)]

zeroed == [checksum |-> Unsealed, type |-> 0, reserved |-> 0, page_id |-> 0,
           lsn |-> 0, payload |-> 0]

\* Page::new, then payload_mut.  (Nothing in the engine calls set_lsn.)
NewPages(id) ==
    {[zeroed EXCEPT !.type = PageType.Heap, !.page_id = id, !.payload = d] :
        d \in Payloads}

\* Mutation: the page id is not compared.
verifyAnyId(page, expected) ==
    /\ page.checksum = Fields(page)
    /\ page.type \in {PageType.Free, PageType.Heap} /\ page.reserved = 0

\* Page::verify, with decode_header
verify(page, expected) ==
    /\ page.checksum = Fields(page)
    /\ page.type \in {PageType.Free, PageType.Heap} /\ page.reserved = 0
    /\ page.page_id = expected

-----------------------------------------------------------------------------
(***************************************************************************)
(* The file header                                                         *)
(***************************************************************************)

\* FileHeader::encode
Encode(count) ==
    seal([checksum |-> Unsealed, magic |-> "oxenDB", version |-> FORMAT_VERSION,
          page_size |-> PAGE_SIZE, page_count |-> count])

\* Mutation: the version is looked at before the checksum.
DecodeVersionFirst(h) ==
    CASE h.magic # "oxenDB" -> "unsupported"
      [] h.version # FORMAT_VERSION \/ h.page_size # PAGE_SIZE -> "unsupported"
      [] h.checksum # Fields(h) \/ h.page_count = 0 -> "corruption"
      [] OTHER -> "ok"

\* FileHeader::decode: the checks, in their order.
Decode(h) ==
    IF h.magic # "oxenDB" THEN "unsupported"
    ELSE IF h.checksum # Fields(h) THEN "corruption"
    ELSE IF h.version # FORMAT_VERSION \/ h.page_size # PAGE_SIZE THEN "unsupported"
    ELSE IF h.page_count = 0 THEN "corruption"
    ELSE "ok"

-----------------------------------------------------------------------------
(***************************************************************************)
(* DiskManager                                                             *)
(***************************************************************************)

Done(op, id, kind, page) ==
    last' = [op |-> op, id |-> id, kind |-> kind, page |-> page]

\* DiskManager::create
Init ==
    /\ header = Encode(1) /\ pages = <<>>
    /\ isOpen = TRUE /\ page_count = 1
    /\ last = [op |-> "create", id |-> 0, kind |-> "ok", page |-> zeroed]
    /\ versions = [id \in Ids |-> {}] /\ newest = [id \in Ids |-> zeroed]
    /\ writes = 0 /\ faults = 0

\* DiskManager::open: the length of page 0, the header, then the length that
\* the header gives the file.
Opened ==
    IF header = Cut THEN "unsupported"
    ELSE IF Decode(header) = "ok" /\ Len(pages) + 1 < header.page_count
    THEN "corruption" ELSE Decode(header)

Open ==
    /\ ~isOpen
    /\ isOpen' = (Opened = "ok")
    /\ page_count' = IF Opened = "ok" THEN header.page_count ELSE page_count
    /\ Done("open", 0, Opened, zeroed)
    /\ UNCHANGED <<fileVars, ghosts, writes, faults>>

Close ==
    /\ isOpen /\ isOpen' = FALSE
    /\ Done("close", 0, "ok", zeroed)
    /\ UNCHANGED <<fileVars, page_count, ghosts, writes, faults>>

set_page_count(n) ==
    /\ isOpen
    /\ IF n < page_count
       THEN Done("grow", 0, "invalid", zeroed) /\ UNCHANGED page_count
       ELSE Done("grow", 0, "ok", zeroed) /\ page_count' = n
    /\ UNCHANGED <<fileVars, isOpen, ghosts, writes, faults>>

write_file_header ==
    /\ isOpen
    /\ header' = Encode(page_count)
    /\ Done("write_header", 0, "ok", zeroed)
    /\ UNCHANGED <<pages, diskVars, ghosts, writes, faults>>

check_data_page(id) == id # 0 /\ id < page_count

\* Writing past the end leaves a hole of zeros.
Stored(id, page) ==
    [i \in 1 .. IF id > Len(pages) THEN id ELSE Len(pages) |->
        IF i = id THEN page
        ELSE IF i <= Len(pages) THEN pages[i] ELSE zeroed]

\* Damage, up to a bound, and the pages it takes from the file.
Fault == faults < MaxFaults /\ faults' = faults + 1
Lost(ids) ==
    newest' = [id \in Ids |-> IF id \in ids THEN zeroed ELSE newest[id]]

\* What a write that went wrong may have left: nothing, a mix of the old and
\* the new sectors, or the page in another place.
Misses(id, page, place) ==
    IF place = id
    THEN {pages, Stored(id, [page EXCEPT !.payload = Stored(id, zeroed)[id].payload])}
    ELSE IF place < page_count THEN {Stored(place, page)} ELSE {}

\* DiskManager::write_page
write_page(id, page) ==
    /\ isOpen /\ writes < MaxWrites
    /\ IF ~check_data_page(id) \/ page.page_id # id
       THEN /\ Done("write", id, "invalid", zeroed)
            /\ UNCHANGED <<pages, ghosts, writes, faults>>
       ELSE /\ Done("write", id, "ok", zeroed)
            /\ versions' = [versions EXCEPT ![id] = @ \cup {seal(page)}]
            /\ writes' = writes + 1
            /\ \/ /\ pages' = Stored(id, seal(page))
                  /\ newest' = [newest EXCEPT ![id] = Fields(page)]
                  /\ UNCHANGED faults
               \/ \E place \in Ids : /\ pages' \in Misses(id, seal(page), place)
                                     /\ Lost({id, place}) /\ Fault
    /\ UNCHANGED <<header, diskVars>>

\* DiskManager::read_page
read_page(id) ==
    /\ isOpen
    /\ LET kind == IF ~check_data_page(id) THEN "invalid"
                   ELSE IF id > Len(pages) THEN "io"
                   ELSE IF verify(pages[id], id) THEN "ok" ELSE "corruption"
       IN  Done("read", id, kind, IF kind = "ok" THEN pages[id] ELSE zeroed)
    /\ UNCHANGED <<fileVars, diskVars, ghosts, writes, faults>>

-----------------------------------------------------------------------------
Damaged == Fault /\ UNCHANGED <<diskVars, last, versions, writes>>

RotPage ==
    /\ \E i \in DOMAIN pages, f \in DOMAIN zeroed :
          pages' = [pages EXCEPT ![i][f] = Rotten] /\ Lost({i})
    /\ Damaged /\ UNCHANGED header

RotHeader ==
    /\ header # Cut
    /\ \E f \in DOMAIN header : header' = [header EXCEPT ![f] = Rotten]
    /\ Damaged /\ UNCHANGED <<pages, newest>>

\* The file ends inside its last page, which may be page 0.
LoseTail ==
    /\ ~isOpen
    /\ IF pages = <<>>
       THEN header' = Cut /\ UNCHANGED <<pages, newest>>
       ELSE /\ pages' = SubSeq(pages, 1, Len(pages) - 1) /\ Lost({Len(pages)})
            /\ UNCHANGED header
    /\ Damaged

\* The page that was just read, changed through payload_mut: its checksum is
\* that of the old payload.
Changed ==
    {[last.page EXCEPT !.payload = d] :
        d \in IF last.op = "read" /\ last.kind = "ok" THEN Payloads ELSE {}}

Next ==
    \/ Open \/ Close \/ write_file_header
    \/ \E n \in 1 .. MaxPages + 1 : set_page_count(n)
    \/ \E id \in 0 .. MaxPages : read_page(id)
    \/ \E id \in Ids, of \in Ids : \E page \in NewPages(of) : write_page(id, page)
    \/ \E id \in Ids, page \in Changed : write_page(id, page)
    \/ RotPage \/ RotHeader \/ LoseTail

Spec == Init /\ [][Next]_vars

-----------------------------------------------------------------------------
\* A page that read_page returns is one that was written under its id, whole:
\* never another page's, a mix of two versions, a hole or decayed.  (It may
\* be an older version, if a write was dropped: nothing here could tell.)
ReadIsAVersion ==
    last.op = "read" /\ last.kind = "ok" => last.page \in versions[last.id]

\* Damage stays where it is.  A page that was written and that nothing has
\* damaged since is read back as it was written last: although pages are
\* written in any order into a growing file and leave holes, a page is changed
\* and written again with its old checksum on it, others are damaged, and the
\* file is closed and opened.
UndamagedIsReadBack ==
    last.op = "read" /\ last.kind # "invalid" /\ newest[last.id] # zeroed =>
        last.kind = "ok" /\ Fields(last.page) = newest[last.id]

\* A file that this build wrote is reported as UnsupportedFormat only if it ends
\* inside page 0 or has lost its magic; any other damage to the header is
\* reported as corruption: a caller that gives up on, or converts, a file of
\* another version does not do so for a damaged file of this one.
DamageIsCorruption ==
    last.op = "open" /\ last.kind = "unsupported" =>
        header = Cut \/ header.magic # "oxenDB"
=============================================================================
