------------------------------ MODULE MCCrc32c ------------------------------
(***************************************************************************)
(* The register is linear in the bits of the start value and of the        *)
(* buffer, so buffers and start values of a single bit, with the empty     *)
(* ones, stand for all of a length; the lengths give every number of bytes *)
(* before, in and after none, one or two slices.  The seed of the library  *)
(* and a known checksum come on top.                                       *)
(***************************************************************************)
EXTENDS Crc32c

NameSeed == 0 .. 31 \ {0}    \* (u32) ~1

Zeros(n) == [seed |-> {}, bytes |-> [i \in 1 .. n |-> {}]]
OneBit(n) ==
    {[Zeros(n) EXCEPT !.bytes[i] = {b}] : i \in 1 .. n, b \in 0 .. 7}
        \cup {[Zeros(n) EXCEPT !.seed = {b}] : b \in 0 .. 31}

\* The digits from 1 to 9, whose CRC-32C is E3069283.
Digit(d) == {4, 5} \cup Half(d)
Digits == [seed |-> 0 .. 31, bytes |-> [d \in 1 .. 9 |-> Digit(d)]]

ASSUME CheckValue ==
    (0 .. 31) \oplus ShiftRegister(Digits.seed, Digits.bytes) = Hex(<<\he306, \h9283>>)

MCBuffers ==
    UNION {OneBit(n) : n \in {0, 1, 3, 4, 5, 8, 11, 12, 13, 19, 20, 23}}
        \cup {[seed |-> NameSeed, bytes |-> [i \in 1 .. n |-> Digit(i % 8)]] : n \in 0 .. 23}
        \cup {Digits}
=============================================================================
