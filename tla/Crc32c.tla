------------------------------- MODULE Crc32c --------------------------------
(***************************************************************************)
(* The CRC32C of storage/checksum: the tables of slicing-by-8, the update  *)
(* functions built on them, the paths through the CPU's instructions and   *)
(* the incremental hasher, against a definition one bit at a time.         *)
(*                                                                         *)
(* A word is the set of its bits that are 1, so that exclusive or is the   *)
(* symmetric difference; a byte is a word with bits 0 to 7.                *)
(***************************************************************************)
EXTENDS Naturals, Sequences, SequencesExt

CONSTANTS
    Lengths,        \* lengths of the pieces fed to a hasher
    Seeds,          \* what they are filled with
    Bursts,         \* sets of bits, 0 among them, that are flipped together
    MaxPieces,      \* bound on the calls of update
    MaxBytes        \* bound on the bytes fed

VARIABLES
    state,          \* Crc32c::state
    pieces,         \* calls of update
    cpu,            \* "none", "aarch64" or "x86_64": the instructions there are
    fed,            \* ghost: all the bytes fed so far
    twin, damaged   \* a hasher fed the same but for a burst of flipped bits

vars == <<state, cpu, fed, pieces, twin, damaged>>

-----------------------------------------------------------------------------
Word == 0 .. 31
Byte == SUBSET (0 .. 7)

Xor(a, b) == (a \ b) \cup (b \ a)
Not(a) == Word \ a
ShiftRight(a, n) == {i - n : i \in {j \in a : j >= n}}
LowByte(a) == a \cap (0 .. 7)

ToBits(n) == {i \in 0 .. 7 : (n \div 2^i) % 2 = 1}

\* u32::from_le_bytes
LittleEndian(bytes) ==
    UNION {{i + 8 * (k - 1) : i \in bytes[k]} : k \in DOMAIN bytes}

\* 0x82F63B78
POLY == {31, 25, 23, 22, 21, 20, 18, 17, 13, 12, 11, 9, 8, 6, 5, 4, 3}

\* The remainder after n more bits.
RECURSIVE BitSteps(_, _)
BitSteps(crc, n) ==
    IF n = 0 THEN crc
    ELSE IF 0 \in crc THEN BitSteps(Xor(ShiftRight(crc, 1), POLY), n - 1)
    ELSE BitSteps(ShiftRight(crc, 1), n - 1)

\* The remainder after more bytes, one bit at a time.
Divide(crc, bytes) ==
    LET after[c \in SUBSET Word, n \in 0 .. Len(bytes)] ==
            IF n = Len(bytes) THEN c
            ELSE after[BitSteps(Xor(c, bytes[n + 1]), 8), n + 1]
    IN  after[crc, 0]

-----------------------------------------------------------------------------
\* build_tables.  (The union with the empty function makes TLC compute a
\* table once and keep it.)
ByteTable == [b \in Byte |-> BitSteps(b, 8)] @@ <<>>

NextTable(table) ==
    [b \in Byte |->
        Xor(ShiftRight(table[b], 8), ByteTable[LowByte(table[b])])] @@ <<>>

TABLES ==
    LET tables[k \in 0 .. 7] ==
            IF k = 0 THEN ByteTable ELSE NextTable(tables[k - 1])
    IN  tables @@ <<>>

update_bytewise(crc, bytes) ==
    FoldLeft(LAMBDA c, byte :
                 Xor(TABLES[0][LowByte(Xor(c, byte))], ShiftRight(c, 8)),
             crc, bytes)

\* The whole chunks of eight bytes, and the rest: chunks_exact(8).
Chunks(bytes) == [n \in 1 .. Len(bytes) \div 8 |-> SubSeq(bytes, 8 * n - 7, 8 * n)]
Remainder(bytes) == SubSeq(bytes, 8 * (Len(bytes) \div 8) + 1, Len(bytes))

ByteAt(w, n) == LowByte(ShiftRight(w, 8 * n))

\* Mutation: the tables of the two halves are swapped.
LookupSwapped(lo, hi, n) ==
    Xor(TABLES[3 - n][ByteAt(lo, n)], TABLES[7 - n][ByteAt(hi, n)])

\* Mutation: the second half of a chunk is never looked up.
LookupHalf(lo, hi, n) == TABLES[7 - n][ByteAt(lo, n)]

\* Byte n of each half of a chunk: the table is the one for the number of
\* bytes that follow it.
Lookup(lo, hi, n) ==
    Xor(TABLES[7 - n][ByteAt(lo, n)], TABLES[3 - n][ByteAt(hi, n)])

\* One chunk of update_slice8.
Slice(crc, chunk) ==
    LET lo == Xor(LittleEndian(SubSeq(chunk, 1, 4)), crc)
        hi == LittleEndian(SubSeq(chunk, 5, 8))
    IN  FoldLeft(LAMBDA c, n : Xor(c, Lookup(lo, hi, n)), {}, <<0, 1, 2, 3>>)

update_slice8(crc, bytes) ==
    update_bytewise(FoldLeft(Slice, crc, Chunks(bytes)), Remainder(bytes))

\* The instructions: a byte, or the eight bytes of a 64-bit word.
CrcInstruction(crc, bytes) == Divide(crc, bytes)

\* hw.rs, update_aarch64 and update_x86_64
UpdateHardware(crc, bytes) ==
    FoldLeft(LAMBDA c, byte : CrcInstruction(c, <<byte>>),
             FoldLeft(CrcInstruction, crc, Chunks(bytes)), Remainder(bytes))

\* hw::update, or else the tables.
Updated(crc, bytes, on) ==
    IF on = "none" THEN update_slice8(crc, bytes) ELSE UpdateHardware(crc, bytes)

finalize(s) == Not(s)

-----------------------------------------------------------------------------
Piece(len, seed) == [i \in 1 .. len |-> ToBits((seed + 31 * i) % 251)]

\* The piece with the bits of a burst flipped, from bit `at' on.
Damaged(bytes, burst, at) ==
    [k \in DOMAIN bytes |->
        Xor(bytes[k], {i \in 0 .. 7 : \E j \in burst : j + at = 8 * (k - 1) + i})]

\* Crc32c::new
Init ==
    /\ state = Word /\ twin = Word /\ damaged = FALSE
    /\ fed = <<>> /\ pieces = 0
    /\ cpu \in {"none", "aarch64", "x86_64"}

update(bytes) ==
    /\ pieces < MaxPieces /\ Len(fed) + Len(bytes) <= MaxBytes
    /\ pieces' = pieces + 1
    /\ state' = Updated(state, bytes, cpu)
    /\ fed' = fed \o bytes
    /\ UNCHANGED cpu

Feed(bytes) ==
    /\ update(bytes)
    /\ twin' = Updated(twin, bytes, cpu) /\ UNCHANGED damaged

FeedDamaged(bytes) ==
    /\ ~damaged /\ damaged' = TRUE
    /\ update(bytes)
    /\ \E burst \in Bursts, at \in 0 .. 8 * Len(bytes) - 1 :
          twin' = Updated(twin, Damaged(bytes, burst, at), cpu)

Terminated ==
    /\ pieces = MaxPieces \/ \A n \in Lengths : Len(fed) + n > MaxBytes
    /\ UNCHANGED vars

Next ==
    \/ \E n \in Lengths, s \in Seeds : LET bytes == Piece(n, s)
                                       IN  Feed(bytes) \/ FeedDamaged(bytes)
    \/ Terminated

Spec == Init /\ [][Next]_vars

-----------------------------------------------------------------------------
\* The definition: the remainder of the bytes' bits.
Reference(bytes) == Not(Divide(Word, bytes))

ASSUME BurstAssumption == \A b \in Bursts : 0 \in b /\ b \subseteq Word

\* The standard check value: 0xE3069283 for "123456789".
ASSUME CheckValue ==
    Reference([i \in 1 .. 9 |-> ToBits(48 + i)])
        = LittleEndian(<<ToBits(131), ToBits(146), ToBits(6), ToBits(227)>>)

\* Crc32c::finalize gives the CRC of all bytes fed so far, however they were
\* cut into pieces and whichever instructions the CPU has: a page written on
\* one machine verifies on another.
IsTheChecksum == finalize(state) = Reference(fed)

\* Of two inputs that differ, within 32 consecutive bits, the checksums
\* differ, whatever came before and whatever follows.
BurstsAreDetected == damaged => finalize(twin) # finalize(state)
=============================================================================
