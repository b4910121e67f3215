------------------------- MODULE BtrfsTraverseBtree -------------------------
(***************************************************************************)
(* btrfs_traverse_btree: the recursive walk over a tree that calls a       *)
(* handler with every item, until the handler wants no more.               *)
(*                                                                         *)
(* A frame of the stack is one activation of __btrfs_traverse_btree_do:    *)
(* the block it resolved and its loop variable i, counted from 1.  An      *)
(* activation whose block is not mapped returns at once and gets no frame. *)
(* result is the local variable of the innermost activation: a caller's    *)
(* own is CONTINUE while the activations it calls run, and takes theirs    *)
(* over when they return.  The handler is the environment: whatever it     *)
(* does, all that the walk sees of it is CONTINUE or BREAK.                *)
(***************************************************************************)
EXTENDS BtrfsTree, SequencesExt

CONSTANTS Trees, Mappings

ASSUME TreesAssumption == \A t \in Trees : WellFormed(t)
ASSUME MappingsAssumption == Mappings \subseteq SUBSET Blocks

VARIABLES
    tree,
    mapped,    \* the blocks that the chunk list resolves
    stack,
    result,
    handled,   \* the keys the handler was called with, in order
    skipped,   \* the blocks that were passed over
    pc

vars == <<tree, mapped, stack, result, handled, skipped, pc>>

\* Wrong: the loop starts before the first item.
FrameBeforeFirst(b) == [block |-> b, i |-> 0]

Frame(b) == [block |-> b, i |-> 1]
Top == stack[Len(stack)]
Level(b) == tree.level[b]
Nritems(b) == Len(tree.keys[b])
Child(frame) == tree.ptrs[frame.block][frame.i]

InLoop ==
    /\ pc = "walk"
    /\ stack /= <<>>
    /\ Top.i <= Nritems(Top.block)
    /\ result = "CONTINUE"

\* ++i in the frame at the end of the stack s.
Advance(s) == [s EXCEPT ![Len(s)].i = @ + 1]

Init ==
    /\ tree \in Trees
    /\ mapped \in Mappings
    /\ stack = <<>>
    /\ result = "CONTINUE"
    /\ handled = <<>>
    /\ skipped = {}
    /\ pc = "start"

\* btrfs_traverse_btree_do
Start ==
    /\ pc = "start"
    /\ IF tree.root \in mapped
       THEN stack' = <<Frame(tree.root)>> /\ UNCHANGED skipped
       ELSE skipped' = {tree.root} /\ UNCHANGED stack
    /\ pc' = "walk"
    /\ UNCHANGED <<tree, mapped, result, handled>>

HandleItem ==
    /\ InLoop
    /\ Level(Top.block) = 0
    /\ handled' = Append(handled, tree.keys[Top.block][Top.i])
    /\ result' \in {"CONTINUE", "BREAK"}
    /\ stack' = IF result' = "BREAK" THEN stack ELSE Advance(stack)
    /\ UNCHANGED <<tree, mapped, skipped, pc>>

EnterChild ==
    /\ InLoop
    /\ Level(Top.block) > 0
    /\ Child(Top) \in mapped
    /\ stack' = Append(stack, Frame(Child(Top)))
    /\ UNCHANGED <<tree, mapped, result, handled, skipped, pc>>

\* Wrong: a block that is not mapped ends the loop of its parent, or holds it up.
SkipSiblings ==
    /\ InLoop
    /\ Level(Top.block) > 0
    /\ Child(Top) \notin mapped
    /\ skipped' = skipped \cup {Child(Top)}
    /\ stack' = IF Len(stack) = 1 THEN <<>> ELSE Advance(Front(stack))
    /\ UNCHANGED <<tree, mapped, result, handled, pc>>

SkipForever ==
    /\ InLoop
    /\ Level(Top.block) > 0
    /\ Child(Top) \notin mapped
    /\ skipped' = skipped \cup {Child(Top)}
    /\ UNCHANGED <<tree, mapped, stack, result, handled, pc>>

\* The activation for a block that is not mapped returns CONTINUE.
SkipChild ==
    /\ InLoop
    /\ Level(Top.block) > 0
    /\ Child(Top) \notin mapped
    /\ skipped' = skipped \cup {Child(Top)}
    /\ stack' = Advance(stack)
    /\ UNCHANGED <<tree, mapped, result, handled, pc>>

\* Wrong: the caller does not look at what the activation it called returns.
ReturnUnheard ==
    /\ pc = "walk"
    /\ stack /= <<>>
    /\ ~ InLoop
    /\ stack' = IF Len(stack) = 1 THEN <<>> ELSE Advance(Front(stack))
    /\ result' = IF Len(stack) = 1 THEN result ELSE "CONTINUE"
    /\ UNCHANGED <<tree, mapped, handled, skipped, pc>>

\* The loop of an activation is over: its caller breaks too, or goes on.
Return ==
    /\ pc = "walk"
    /\ stack /= <<>>
    /\ ~ InLoop
    /\ stack' = IF result = "BREAK" \/ Len(stack) = 1 THEN Front(stack)
                ELSE Advance(Front(stack))
    /\ UNCHANGED <<tree, mapped, result, handled, skipped, pc>>

Finish ==
    /\ pc = "walk"
    /\ stack = <<>>
    /\ pc' = "done"
    /\ UNCHANGED <<tree, mapped, stack, result, handled, skipped>>

Stopped == pc = "done" /\ UNCHANGED vars

Step == Start \/ HandleItem \/ EnterChild \/ SkipChild \/ Return \/ Finish
Next == Step \/ Stopped

\* A call runs on until it returns, provided that the handler always does.
Spec == Init /\ [][Next]_vars /\ WF_vars(Step)

----------------------------------------------------------------------------

TypeOK ==
    /\ tree \in Tree
    /\ mapped \in Mappings
    /\ stack \in Seq([block : Blocks, i : Nat \ {0}])
    /\ result \in {"CONTINUE", "BREAK"}
    /\ handled \in Seq(Key)
    /\ skipped \subseteq Blocks
    /\ pc \in {"start", "walk", "done"}

\* The keys under the blocks that were skipped.
Lost == UNION {tree.items[b] : b \in skipped}

\* A walk that the handler did not break has handed over every item of the tree
\* but those under blocks that the chunk list does not map.
HandlesEveryItem ==
    pc = "done" /\ result = "CONTINUE" =>
        /\ skipped \cap mapped = {}
        /\ ToSet(handled) \cup Lost = tree.items[tree.root]
        /\ ToSet(handled) \cap Lost = {}

\* Every walk ends.
Termination == <>(pc = "done")

\* The walk implements the abstract scan: the handler gets the items in key order and
\* none of them twice, so that one that stops at the first match (locate_file) stops
\* at the lowest; and once it has said BREAK, however deep in the tree, it is never
\* called again.
Scan == INSTANCE ItemScan WITH
    stored <- tree.items[tree.root],
    lost <- Lost,
    status <- IF result = "BREAK" THEN "broken" ELSE IF pc = "done" THEN "done" ELSE "running"

ImplementsScan == Scan!ScanSafeSpec
=============================================================================
