------------------------------- MODULE Crc32c -------------------------------
(***************************************************************************)
(* calculate_crc32c of lib/crc32c.c, by which btrfs_name_hash finds the    *)
(* hash of a name: byte by byte for a short buffer, and otherwise eight    *)
(* bytes at a time between the bytes before the first word boundary and    *)
(* those after the last whole slice.  The name lies anywhere in a path.    *)
(*                                                                         *)
(* A word is the set of its bits that are one, so that exclusive or is the *)
(* symmetric difference of sets.  Of each table the entries for the bytes  *)
(* of a single bit are given, as two halves of 16 bits; entry n of each of *)
(* the tables is the exclusive or of those of the bits of n.               *)
(***************************************************************************)
EXTENDS Integers, Sequences, FiniteSets

CONSTANT Buffers    \* what is hashed: a start value and a sequence of bytes

Word == SUBSET (0 .. 31)
Byte == SUBSET (0 .. 7)

ASSUME BuffersAssumption == Buffers \subseteq [seed : Word, bytes : Seq(Byte)]

a \oplus b == (a \ b) \cup (b \ a)
ShiftRight(w, n) == {i - n : i \in {i \in w : i >= n}}
ByteOf(w, n) == ShiftRight(w, 8 * n) \cap 0 .. 7

Half(h) == {i \in 0 .. 15 : (h \div 2^i) % 2 = 1}
Hex(halves) == Half(halves[2]) \cup {i + 16 : i \in Half(halves[1])}
Table(entries) == [n \in 0 .. 7 |-> Hex(entries[n + 1])]

crc32Table ==
    Table(<<<<\hf26b, \h8303>>, <<\he13b, \h70f7>>, <<\hc79a, \h971f>>, <<\h8ad9, \h58cf>>,
            <<\h105e, \hc76f>>, <<\h20bd, \h8ede>>, <<\h417b, \h1dbc>>, <<\h82f6, \h3b78>>>>)
tableil8_o32 ==
    Table(<<<<\hf26b, \h8303>>, <<\he13b, \h70f7>>, <<\hc79a, \h971f>>, <<\h8ad9, \h58cf>>,
            <<\h105e, \hc76f>>, <<\h20bd, \h8ede>>, <<\h417b, \h1dbc>>, <<\h82f6, \h3b78>>>>)
tableil8_o40 ==
    Table(<<<<\h13a2, \h9877>>, <<\h2745, \h30ee>>, <<\h4e8a, \h61dc>>, <<\h9d14, \hc3b8>>,
            <<\h3fc5, \hf181>>, <<\h7f8b, \he302>>, <<\hff17, \hc604>>, <<\hfbc3, \hfaf9>>>>)
tableil8_o48 ==
    Table(<<<<\ha541, \h927e>>, <<\h4f6f, \h520d>>, <<\h9ede, \ha41a>>, <<\h3851, \h3ec5>>,
            <<\h70a2, \h7d8a>>, <<\he144, \hfb14>>, <<\hc765, \h80d9>>, <<\h8b27, \h7743>>>>)
tableil8_o56 ==
    Table(<<<<\hdd45, \haab8>>, <<\hbf67, \h2381>>, <<\h7b22, \h31f3>>, <<\hf644, \h63e6>>,
            <<\he964, \hb13d>>, <<\hd725, \h148b>>, <<\haba6, \h5fe7>>, <<\h52a0, \hc93f>>>>)
tableil8_o64 ==
    Table(<<<<\h3811, \h6fac>>, <<\h7022, \hdf58>>, <<\he045, \hbeb0>>, <<\hc567, \h0b91>>,
            <<\h8f22, \h61d3>>, <<\h1ba8, \hb557>>, <<\h3751, \h6aae>>, <<\h6ea2, \hd55c>>>>)
tableil8_o72 ==
    Table(<<<<\hef30, \h6b19>>, <<\hdb8c, \ha0c3>>, <<\hb2f5, \h3777>>, <<\h6006, \h181f>>,
            <<\hc00c, \h303e>>, <<\h85f4, \h168d>>, <<\h0e04, \h5beb>>, <<\h1c08, \hb7d6>>>>)
tableil8_o80 ==
    Table(<<<<\h6803, \h2cc8>>, <<\hd006, \h5990>>, <<\ha5e0, \hc5d1>>, <<\h4e2d, \hfd53>>,
            <<\h9c5b, \hfaa6>>, <<\h3d5b, \h83bd>>, <<\h7ab7, \h077a>>, <<\hf56e, \h0ef4>>>>)
tableil8_o88 ==
    Table(<<<<\h493c, \h7d27>>, <<\h9278, \hfa4e>>, <<\h211d, \h826d>>, <<\h423b, \h04da>>,
            <<\h8476, \h09b4>>, <<\h0d00, \h6599>>, <<\h1a00, \hcb32>>, <<\h3401, \h9664>>>>)

\* The entry of a table for a byte.
Entry(table, byte) ==
    {i \in 0 .. 31 : Cardinality({j \in byte : i \in table[j]}) % 2 = 1}

VARIABLES
    input,     \* the arguments crc32c, buffer and length
    address,   \* where the buffer begins
    crc,
    taken,     \* how many bytes of the buffer were read
    hashPc

hashVars == <<input, address, crc, taken, hashPc>>

Length == Len(input.bytes)

\* The bytes up to the next word boundary, four of them when the buffer is on one
\* (wrong: those since the last one), the bytes of whole slices and those after them.
BytesPastBoundary == address % 4
InitBytes == 4 - (address % 4)
RunningLength == ((Length - InitBytes) \div 8) * 8
EndBytes == Length - InitBytes - RunningLength

\* The 32-bit load, little endian.
Load(at) == UNION {{i + 8 * n : i \in input.bytes[at + n + 1]} : n \in 0 .. 3}

HashInit ==
    /\ input \in Buffers
    /\ address \in 0 .. 3
    /\ crc = input.seed
    /\ taken = 0
    /\ hashPc = "start"

Choose ==
    /\ hashPc = "start"
    /\ hashPc' = IF Length < 4 THEN "single" ELSE "multi"
    /\ UNCHANGED <<input, address, crc, taken>>

TakeByte(table) ==
    /\ crc' = Entry(table, ByteOf(crc \oplus input.bytes[taken + 1], 0)) \oplus ShiftRight(crc, 8)
    /\ taken' = taken + 1
    /\ UNCHANGED <<input, address, hashPc>>

SingleByte == hashPc = "single" /\ taken < Length /\ TakeByte(crc32Table)

InitByte == hashPc = "multi" /\ taken < InitBytes /\ TakeByte(tableil8_o32)

AtSlice == hashPc = "multi" /\ taken >= InitBytes /\ taken - InitBytes < RunningLength

\* The step of a slice: crc and the first word together, and the second word (wrong
\* with its bytes from the other end).
TermsOfFirst(w) ==
    Entry(tableil8_o88, ByteOf(w, 0)) \oplus Entry(tableil8_o80, ByteOf(w, 1))
        \oplus Entry(tableil8_o72, ByteOf(w, 2)) \oplus Entry(tableil8_o64, ByteOf(w, 3))
TermsOfSecondReversed(w) ==
    Entry(tableil8_o56, ByteOf(w, 3)) \oplus Entry(tableil8_o48, ByteOf(w, 2))
        \oplus Entry(tableil8_o40, ByteOf(w, 1)) \oplus Entry(tableil8_o32, ByteOf(w, 0))
TermsOfSecond(w) ==
    Entry(tableil8_o56, ByteOf(w, 0)) \oplus Entry(tableil8_o48, ByteOf(w, 1))
        \oplus Entry(tableil8_o40, ByteOf(w, 2)) \oplus Entry(tableil8_o32, ByteOf(w, 3))

Slice ==
    /\ AtSlice
    /\ crc' = TermsOfFirst(crc \oplus Load(taken)) \oplus TermsOfSecond(Load(taken + 4))
    /\ taken' = taken + 8
    /\ UNCHANGED <<input, address, hashPc>>

AtEnd == hashPc = "multi" /\ taken >= InitBytes /\ taken - InitBytes >= RunningLength

EndByte ==
    /\ AtEnd
    /\ taken - InitBytes - RunningLength < EndBytes
    /\ TakeByte(tableil8_o32)

HashReturn ==
    /\ \/ hashPc = "single" /\ taken = Length
       \/ AtEnd /\ taken - InitBytes - RunningLength >= EndBytes
    /\ hashPc' = "done"
    /\ UNCHANGED <<input, address, crc, taken>>

HashStep == Choose \/ SingleByte \/ InitByte \/ Slice \/ EndByte \/ HashReturn
HashStopped == hashPc = "done" /\ UNCHANGED hashVars
HashNext == HashStep \/ HashStopped

HashSpec == HashInit /\ [][HashNext]_hashVars /\ WF_hashVars(HashStep)

----------------------------------------------------------------------------

(***************************************************************************)
(* CRC-32C itself, as the shift register the comment at the top of         *)
(* lib/crc32c.c describes: the bits go in one after the other, each byte's *)
(* lowest first, and the polynomial 0x1EDC6F41 comes back reversed.        *)
(***************************************************************************)
Polynomial == {31 - i : i \in {28, 27, 26, 25, 23, 22, 20, 19, 18, 14, 13, 11, 10, 9, 8, 6, 0}}

BitIn(bytes, n) == n % 8 \in bytes[n \div 8 + 1]

ShiftRegister(seed, bytes) ==
    LET after[n \in 0 .. 8 * Len(bytes)] ==
            IF n = 0 THEN seed
            ELSE LET before == after[n - 1]
                 IN  IF (0 \in before) = BitIn(bytes, n - 1)
                     THEN ShiftRight(before, 1)
                     ELSE ShiftRight(before, 1) \oplus Polynomial
    IN  after[8 * Len(bytes)]

\* After every step the register is the CRC-32C of the bytes taken so far, and at
\* the end that is all of them: the hash of a name depends neither on where the name
\* lies in the path nor on how it was cut into bytes and slices.
HashIsCrc32c ==
    /\ crc = ShiftRegister(input.seed, SubSeq(input.bytes, 1, taken))
    /\ hashPc = "done" => taken = Length

\* The two words of a slice are loaded from word boundaries, and from inside the
\* buffer, for a buffer that begins at any address.
SlicesAreAligned == AtSlice => (address + taken) % 4 = 0 /\ taken + 8 <= Length
=============================================================================
