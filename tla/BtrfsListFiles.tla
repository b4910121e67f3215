--------------------------- MODULE BtrfsListFiles ---------------------------
(***************************************************************************)
(* btrfs_low_list_files and its handler: the listing of a directory in an  *)
(* array that grows while the tree is walked, with every allocation that   *)
(* may fail on the way, and what the caller does with the listing.         *)
(*                                                                         *)
(* items is what the traversal hands over, in key order (ItemScan): each   *)
(* item says whether it passes the two tests of the handler, that it is a  *)
(* DIR_ITEM and that it belongs to the directory, and which names it       *)
(* packs; names whose hashes collide share one item.  mem is the heap: it  *)
(* maps an address to what is stored there, a name or an array of          *)
(* addresses.  Addresses are not used twice, so that an address whose      *)
(* memory was freed is never one of new memory by chance.                  *)
(***************************************************************************)
EXTENDS Integers, SequencesExt

CONSTANTS
    Names,
    Directories,     \* the sequences of items the handler may be given
    ShrinkMoves      \* whether realloc may move memory that it makes smaller

Item == [listed : BOOLEAN, names : Seq(Names) \ {<<>>}]

ASSUME DirectoriesAssumption == Directories \subseteq Seq(Item)
ASSUME ShrinkMovesAssumption == ShrinkMoves \in BOOLEAN

NullPtr == 0
Unset == -1         \* an array slot that malloc left undefined
ENOMEM == -12       \* the negative error number

VARIABLES
    items, next,    \* the items of the tree, and how many the handler has had
    mem, last,      \* the heap, and the last address that was allocated
    result, length, capacity, accRet,   \* the fields of the accumulator
    ret, i, files,  \* i counts from 1
    pc

acc == <<result, length, capacity, accRet>>
vars == <<items, next, mem, last, acc, ret, i, files, pc>>

EmptyArray(n) == [slot \in 1 .. n |-> Unset]
Without(addresses) == [a \in DOMAIN mem \ addresses |-> mem[a]]

Init ==
    /\ items \in Directories /\ next = 0
    /\ mem = <<>> /\ last = NullPtr
    /\ result = NullPtr /\ length = 2 /\ capacity = 4 /\ accRet = 0
    /\ ret = 0 /\ i = 1 /\ files = NullPtr
    /\ pc = "start"

AllocateArray ==
    /\ pc = "start"
    /\ \/ /\ result' = last + 1 /\ last' = last + 1
          /\ mem' = [a \in {last + 1} |-> EmptyArray(4)]
          /\ pc' = "dots"
          /\ UNCHANGED ret
       \/ /\ ret' = ENOMEM /\ pc' = "failed"
          /\ UNCHANGED <<result, last, mem>>
    /\ UNCHANGED <<items, next, length, capacity, accRet, i, files>>

\* result[0] and result[1], each of which may not be allocated.
AllocateDots ==
    /\ pc = "dots"
    /\ \E dot \in {NullPtr, last + 1}, dots \in {NullPtr, last + 2} :
        /\ mem' = [a \in DOMAIN mem \cup ({dot, dots} \ {NullPtr}) |->
                     CASE a = dot -> "."
                       [] a = dots -> ".."
                       [] OTHER -> [mem[a] EXCEPT ![1] = dot, ![2] = dots]]
        /\ IF NullPtr \in {dot, dots}
           THEN ret' = ENOMEM /\ pc' = "free"
           ELSE pc' = "scan" /\ UNCHANGED ret
    /\ last' = last + 2
    /\ UNCHANGED <<items, next, acc, i, files>>

HasItem == pc = "scan" /\ next < Len(items)
IsListedAnywhere == items[next + 1].names /= <<>>    \* wrong: whatever the item is
IsListed == items[next + 1].listed

SkipItem ==
    /\ HasItem
    /\ ~ IsListed
    /\ next' = next + 1
    /\ UNCHANGED <<mem, last, acc, items, ret, i, files, pc>>

\* The handler finds the array full: realloc moves it, or enlarges it in place.
Grow ==
    /\ HasItem
    /\ IsListed
    /\ capacity = length
    /\ capacity' = capacity * 2
    /\ result' \in {result, last + 1}
    /\ mem' = [a \in (DOMAIN mem \ {result}) \cup {result'} |->
                 IF a = result'
                 THEN [slot \in 1 .. capacity' |->
                         IF slot \in DOMAIN mem[result] THEN mem[result][slot] ELSE Unset]
                 ELSE mem[a]]
    /\ last' = last + 1
    /\ UNCHANGED <<items, next, length, accRet, ret, i, files, pc>>

\* Wrong: acc->result takes what realloc returns before it is looked at.
GrowFailsForgetting ==
    /\ HasItem
    /\ IsListed
    /\ capacity = length
    /\ capacity' = capacity * 2
    /\ result' = NullPtr
    /\ accRet' = ENOMEM
    /\ pc' = "scanned"
    /\ UNCHANGED <<items, next, mem, last, length, ret, i, files>>

GrowFails ==
    /\ HasItem
    /\ IsListed
    /\ capacity = length
    /\ capacity' = capacity * 2
    /\ accRet' = ENOMEM
    /\ pc' = "scanned"
    /\ UNCHANGED <<items, next, mem, last, result, length, ret, i, files>>

\* The handler copies the first name of the item.
AddName ==
    /\ HasItem
    /\ IsListed
    /\ capacity /= length
    /\ mem' = [a \in DOMAIN mem \cup {last + 1} |->
                 CASE a = last + 1 -> items[next + 1].names[1]
                   [] a = result -> [mem[a] EXCEPT ![length + 1] = last + 1]
                   [] OTHER -> mem[a]]
    /\ last' = last + 1
    /\ length' = length + 1
    /\ next' = next + 1
    /\ UNCHANGED <<items, result, capacity, accRet, ret, i, files, pc>>

AddNameFails ==
    /\ HasItem
    /\ IsListed
    /\ capacity /= length
    /\ mem' = [mem EXCEPT ![result][length + 1] = NullPtr]
    /\ accRet' = ENOMEM
    /\ pc' = "scanned"
    /\ UNCHANGED <<items, next, last, result, length, capacity, ret, i, files>>

EndScan ==
    /\ pc = "scan"
    /\ next = Len(items)
    /\ pc' = "scanned"
    /\ UNCHANGED <<items, next, mem, last, acc, ret, i, files>>

Finish ==
    /\ pc = "scanned"
    /\ ret' = accRet
    /\ pc' = IF accRet /= 0 THEN "free" ELSE IF length < capacity THEN "shrink" ELSE "return"
    /\ UNCHANGED <<items, next, mem, last, acc, i, files>>

\* The result of this realloc goes to the local variable result and nowhere else.
Shrink ==
    /\ pc = "shrink"
    /\ \E moved \in IF ShrinkMoves THEN {result, last + 1} ELSE {result} :
        mem' = [a \in (DOMAIN mem \ {result}) \cup {moved} |->
                  IF a = moved THEN SubSeq(mem[result], 1, length) ELSE mem[a]]
    /\ last' = last + 1
    /\ pc' = "return"
    /\ UNCHANGED <<items, next, acc, ret, i, files>>

\* assert(result != NULL)
ShrinkFails ==
    /\ pc = "shrink"
    /\ pc' = "abort"
    /\ UNCHANGED <<items, next, mem, last, acc, ret, i, files>>

ReturnFiles ==
    /\ pc = "return"
    /\ files' = result
    /\ pc' = "listed"
    /\ UNCHANGED <<items, next, mem, last, acc, ret, i>>

\* Wrong: the slots that were never written are freed, or the array is not.
FreeNameToCapacity ==
    /\ pc = "free"
    /\ i <= capacity
    /\ mem' = Without({mem[result][i]})
    /\ i' = i + 1
    /\ UNCHANGED <<items, next, last, acc, ret, files, pc>>

FreeNoArray ==
    /\ pc = "free"
    /\ i > length
    /\ pc' = "failed"
    /\ UNCHANGED <<items, next, mem, last, acc, ret, i, files>>

\* free_result; free of a null pointer does nothing.
FreeName ==
    /\ pc = "free"
    /\ i <= length
    /\ mem' = Without({mem[result][i]})
    /\ i' = i + 1
    /\ UNCHANGED <<items, next, last, acc, ret, files, pc>>

FreeArray ==
    /\ pc = "free"
    /\ i > length
    /\ mem' = Without({result})
    /\ pc' = "failed"
    /\ UNCHANGED <<items, next, last, acc, ret, i, files>>

\* The caller frees the names and the array (test/test.c:82-88).
CallerFrees ==
    /\ pc = "listed"
    /\ files \in DOMAIN mem
    /\ mem' = Without({mem[files][n] : n \in 1 .. length} \cup {files})
    /\ pc' = "freed"
    /\ UNCHANGED <<items, next, last, acc, ret, i, files>>

Step ==
    \/ AllocateArray \/ AllocateDots
    \/ SkipItem \/ Grow \/ GrowFails \/ AddName \/ AddNameFails \/ EndScan
    \/ Finish \/ Shrink \/ ShrinkFails \/ ReturnFiles \/ FreeName \/ FreeArray

Stopped == pc \in {"listed", "failed", "freed", "abort"} /\ UNCHANGED vars

Next == Step \/ CallerFrees \/ Stopped

\* A call runs on until it returns; the caller need not free the listing.
Spec == Init /\ [][Next]_vars /\ WF_vars(Step)

----------------------------------------------------------------------------

TypeOK ==
    /\ items \in Directories /\ next \in 0 .. Len(items)
    /\ last \in Nat /\ DOMAIN mem \subseteq 1 .. last
    /\ result \in 0 .. last /\ files \in 0 .. last
    /\ length \in Nat /\ capacity \in Nat
    /\ accRet \in {0, ENOMEM} /\ ret \in {0, ENOMEM}
    /\ i \in 1 .. length + 1
    /\ pc \in {"start", "dots", "scan", "scanned", "shrink", "return", "listed",
               "free", "failed", "freed", "abort"}

\* How many of the first n items are listed.
Rank(n) == Cardinality({k \in 1 .. n : items[k].listed})

\* The array is as large as its capacity says whenever the handler relies on it,
\* and each of the slots below length owns a name of its own: no write lands
\* outside the array, and freeing the names frees none of them twice.
ArrayIsSound ==
    pc \in {"scan", "free"} =>
        /\ result \in DOMAIN mem
        /\ length <= Len(mem[result])
        /\ accRet = 0 /\ ret = 0 => Len(mem[result]) = capacity
        /\ \A m, n \in i .. length :
            /\ mem[result][m] \in (DOMAIN mem \ {result}) \cup {NullPtr}
            /\ m /= n => mem[result][m] /= mem[result][n] \/ mem[result][m] = NullPtr

\* A listing that fails, wherever it ran out of memory, and a listing that the
\* caller has freed leave nothing allocated.
NothingLeaks == pc \in {"failed", "freed"} => DOMAIN mem = {}

\* What the caller is given is the two dots and then the name of every listed item
\* in the place that its rank gives it, which is key order; all of them are still
\* there after the moves of the array, and there is nothing else.
ListingIsComplete ==
    pc = "listed" =>
        /\ Len(mem[files]) = length /\ length = 2 + Rank(Len(items))
        /\ mem[mem[files][1]] = "." /\ mem[mem[files][2]] = ".."
        /\ \A k \in 1 .. Len(items) :
            items[k].listed => mem[mem[files][2 + Rank(k)]] = items[k].names[1]

\* The loop of test/test.c:83-88 reads and frees files[i] and then files: what the
\* function returns is memory that is still allocated.
CallerMayReadFiles == pc = "listed" => files \in DOMAIN mem
=============================================================================
