-------------------------- MODULE MCBtrfsListFiles --------------------------
(* Directories of zero to seven names, so that the array of four slots is  *)
(* kept, filled, grown once and grown twice, and directories with items of *)
(* other directories around theirs.                                        *)
EXTENDS BtrfsListFiles

MCNames == {"a", "b", "c", "d", "e", "f", "g"}
NameSeq == <<"a", "b", "c", "d", "e", "f", "g">>

Listing(n) == [k \in 1 .. n |-> [listed |-> TRUE, names |-> <<NameSeq[k]>>]]
Other == <<[listed |-> FALSE, names |-> <<"a">>]>>

MCDirectories ==
    {Listing(n) : n \in 0 .. 7}
        \cup {Other \o Listing(n) \o Other \o Other : n \in {0, 2, 3}}
        \cup {Other \o Listing(1) \o Other \o Listing(2)}
=============================================================================
