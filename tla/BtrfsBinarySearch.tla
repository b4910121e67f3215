------------------------- MODULE BtrfsBinarySearch -------------------------
(***************************************************************************)
(* __btrfs_binary_search: the search of one B-tree node, probe by probe,   *)
(* with the local variables of the C function (searchKey and searchResult  *)
(* are its key and *result).  middle and rel start with whatever is on the *)
(* stack; searchResult is NoResult until it is assigned.  The stride and   *)
(* the key's place in an item (leaf or internal node) are abstracted: a    *)
(* node is the sequence of its keys.                                       *)
(***************************************************************************)
EXTENDS BtrfsKeys

CONSTANTS
    Arrays,           \* the nodes that are searched, as sequences of keys
    SearchQueries     \* the keys that are searched for

ASSUME ArraysAssumption == \A s \in Arrays : s \in Seq(Key) /\ Sorted(s)
ASSUME QueriesAssumption == SearchQueries \subseteq Key

VARIABLES items, searchKey, left, right, middle, rel, searchResult, ret, searchPc

searchVars == <<items, searchKey, left, right, middle, rel, searchResult, ret, searchPc>>

NoResult == -1

Count == Len(items)
KeyAt(at) == items[at + 1]

SearchInit ==
    /\ items \in Arrays
    /\ searchKey \in SearchQueries
    /\ left = 0
    /\ right = Count
    /\ middle \in 0 .. Count
    /\ rel \in {-1, 0, 1}
    /\ searchResult = NoResult
    /\ ret = -1
    /\ searchPc = "start"

ReturnEmpty ==
    /\ searchPc = "start"
    /\ right = left
    /\ ret' = -1
    /\ searchPc' = "done"
    /\ UNCHANGED <<items, searchKey, left, right, middle, rel, searchResult>>

EnterLoop ==
    /\ searchPc = "start"
    /\ right /= left
    /\ searchPc' = "loop"
    /\ UNCHANGED <<items, searchKey, left, right, middle, rel, searchResult, ret>>

\* Probes that would be wrong: the lower half loses an item more than it should,
\* the upper half keeps the item that was probed, or the halves are exchanged.
ProbeLosingItem ==
    /\ searchPc = "loop"
    /\ left < right
    /\ middle' = left + (right - left) \div 2
    /\ rel' = CompKeys(KeyAt(middle'), searchKey)
    /\ left' = IF rel' < 0 THEN middle' + 1 ELSE left
    /\ right' = IF rel' > 0 THEN middle' - 1 ELSE right
    /\ searchPc' = IF rel' = 0 THEN "return" ELSE "loop"
    /\ UNCHANGED <<items, searchKey, searchResult, ret>>

ProbeExchanged ==
    /\ searchPc = "loop"
    /\ left < right
    /\ middle' = left + (right - left) \div 2
    /\ rel' = CompKeys(KeyAt(middle'), searchKey)
    /\ left' = IF rel' > 0 THEN middle' + 1 ELSE left
    /\ right' = IF rel' < 0 THEN middle' ELSE right
    /\ searchPc' = IF rel' = 0 THEN "return" ELSE "loop"
    /\ UNCHANGED <<items, searchKey, searchResult, ret>>

ProbeKeepingItem ==
    /\ searchPc = "loop"
    /\ left < right
    /\ middle' = left + (right - left) \div 2
    /\ rel' = CompKeys(KeyAt(middle'), searchKey)
    /\ left' = IF rel' < 0 THEN middle' ELSE left
    /\ right' = IF rel' > 0 THEN middle' ELSE right
    /\ searchPc' = IF rel' = 0 THEN "return" ELSE "loop"
    /\ UNCHANGED <<items, searchKey, searchResult, ret>>

\* One iteration of the loop: halve the range [left, right) or break.
Probe ==
    /\ searchPc = "loop"
    /\ left < right
    /\ middle' = left + (right - left) \div 2
    /\ rel' = CompKeys(KeyAt(middle'), searchKey)
    /\ left' = IF rel' < 0 THEN middle' + 1 ELSE left
    /\ right' = IF rel' > 0 THEN middle' ELSE right
    /\ searchPc' = IF rel' = 0 THEN "return" ELSE "loop"
    /\ UNCHANGED <<items, searchKey, searchResult, ret>>

LeaveLoop ==
    /\ searchPc = "loop"
    /\ left >= right
    /\ searchPc' = "return"
    /\ UNCHANGED <<items, searchKey, left, right, middle, rel, searchResult, ret>>

ReturnFound ==
    /\ searchPc = "return"
    /\ rel = 0
    /\ searchResult' = middle
    /\ ret' = 0
    /\ searchPc' = "done"
    /\ UNCHANGED <<items, searchKey, left, right, middle, rel>>

ReturnNone ==
    /\ searchPc = "return"
    /\ rel /= 0
    /\ left = 0
    /\ ret' = -1
    /\ searchPc' = "done"
    /\ UNCHANGED <<items, searchKey, left, right, middle, rel, searchResult>>

\* Wrong: left is the first greater item and not the last lower one.
ReturnGreater ==
    /\ searchPc = "return"
    /\ rel /= 0
    /\ left /= 0
    /\ searchResult' = left
    /\ ret' = 1
    /\ searchPc' = "done"
    /\ UNCHANGED <<items, searchKey, left, right, middle, rel>>

ReturnLower ==
    /\ searchPc = "return"
    /\ rel /= 0
    /\ left /= 0
    /\ searchResult' = left - 1
    /\ ret' = 1
    /\ searchPc' = "done"
    /\ UNCHANGED <<items, searchKey, left, right, middle, rel>>

Return == ReturnFound \/ ReturnNone \/ ReturnLower

Terminated == searchPc = "done" /\ UNCHANGED searchVars

SearchNext == ReturnEmpty \/ EnterLoop \/ Probe \/ LeaveLoop \/ Return \/ Terminated

\* A function call runs on until it returns.
SearchSpec == SearchInit /\ [][SearchNext]_searchVars /\ WF_searchVars(SearchNext)

----------------------------------------------------------------------------

\* The local variables stay within the node: every probe and every result is
\* the index of an item (btrfs_find_in_btree.c:77-99).
SearchTypeOK ==
    /\ items \in Arrays
    /\ searchKey \in SearchQueries
    /\ left \in 0 .. Count
    /\ right \in 0 .. Count
    /\ middle \in 0 .. Count
    /\ rel \in {-1, 0, 1}
    /\ searchResult \in {NoResult} \cup 0 .. Count - 1
    /\ ret \in {-1, 0, 1}
    /\ searchPc \in {"start", "loop", "return", "done"}

\* When the function returns, the comment above it holds of what it returns:
\* found, the greatest lower item, or no lower item (lines 44-49).  In
\* particular it never reads rel or middle before they are assigned.
Contract == searchPc = "done" => SearchContract(items, searchKey, ret, searchResult)

\* While the loop runs, every item below left is lower than the key and every
\* item from right on is greater: no probe throws away the answer.
RangeKeepsAnswer ==
    searchPc \in {"loop", "return"} =>
        /\ \A i \in 0 .. left - 1 : KeyLess(KeyAt(i), searchKey)
        /\ \A i \in right .. Count - 1 : KeyLess(searchKey, KeyAt(i))

\* Every probe that does not find the key leaves at most half of the range,
\* so the search of a node costs a logarithmic number of comparisons.
RangeHalves ==
    [][searchPc = "loop" /\ searchPc' = "loop" => 2 * (right' - left') <= right - left]_searchVars
=============================================================================
