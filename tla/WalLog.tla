------------------------------- MODULE WalLog -------------------------------
(***************************************************************************)
(* The write-ahead log as data: which records a commit appends, which      *)
(* records Wal::open accepts, and which page images recovery::replay       *)
(* applies.  A record keeps its sequence number, so a set of records says  *)
(* where each one lies in the file.                                        *)
(***************************************************************************)
EXTENDS Naturals, FiniteSets

\* storage/wal/record.rs, WalRecord with the sequence number it is stored
\* under (DecodedRecord): a full page image, or the commit mark.
WalRecord(pages, contents) ==
    [type: {"image"}, seq: Nat, txn: Nat, page: pages, val: contents]
        \cup [type: {"commit"}, seq: Nat, txn: Nat]

\* How many of the pages in S come before p.
Rank(S, p) == Cardinality({q \in S : q < p})

\* WriteTxn::log: the images in the order of the vector commit() builds (the
\* header image first when there is one, then a BTreeMap's ascending page
\* ids: ascending over all), then the commit record.
LogRecords(txn, seq, images) ==
    {[type |-> "image", seq |-> seq + Rank(DOMAIN images, p), txn |-> txn,
      page |-> p, val |-> images[p]] : p \in DOMAIN images}
    \cup {[type |-> "commit", seq |-> seq + Cardinality(DOMAIN images),
           txn |-> txn]}

\* Wal::open: reading starts at the header's sequence number and stops at
\* the first record that is missing, damaged or numbered out of turn.
Readable(m) ==
    {r \in m.recs :
        /\ \A q \in m.recs : q.seq >= m.first
        /\ \A n \in m.first .. r.seq : \E q \in m.recs : q.seq = n}

\* recovery::replay: the transactions with a commit record.
Committed(records) == {r.txn : r \in {q \in records : q.type = "commit"}}

\* Mutation: images are replayed whether or not their transaction committed.
CommittedImagesAll(records) == {r \in records : r.type = "image"}

CommittedImages(records) ==
    {r \in records : r.type = "image" /\ r.txn \in Committed(records)}

\* `latest': of the images of each page, the last.
Latest(images) ==
    {r \in images : \A q \in images : q.page = r.page => q.seq <= r.seq}

ImagePages(images) == {r.page : r \in images}
=============================================================================
