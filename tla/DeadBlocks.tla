----------------------------- MODULE DeadBlocks -----------------------------
(***************************************************************************)
(* deadBlockElimination of optimization/optimization.c: mark every block   *)
(* control can reach from the function's entry, then every block a jump    *)
(* table of the FILE lists and what can be reached from there, and unlink  *)
(* the others.                                                             *)
(*                                                                         *)
(* markReachable calls itself once per jump target, first target first.    *)
(* The calls that wait for the running one to return are the stack: their  *)
(* arguments, in the order they will be made.  The tables are all of the   *)
(* file's, so they may list labels of blocks of other functions.           *)
(*                                                                         *)
(* Unlinking a block frees its instructions and the operands they hold;    *)
(* freeing an operand a second time is undefined, and the pass stops.      *)
(***************************************************************************)
EXTENDS IR

CONSTANT Inputs  \* records [blocks, tables, freed]: a function, its file's
                 \* tables, and the operands freed before

\* What the pass takes for granted of its input.
IsInput(f) == IsFunction(f)
InputsOK == \A f \in Inputs : IsInput(f)

VARIABLES
  in,      \* the function and the file's tables (never changes)
  blocks,  \* the blocks now
  freed,   \* the operand objects that were freed
  marked,  \* the labels whose "seen" is true, in the order they became so
  stack,   \* labels of calls of markReachable to be made, the next one first
  data,    \* the labels in read-only data that were not looked at yet
  curr,    \* the block being kept or unlinked, a position in blocks,
  idx,     \* and its index in "seen", which is a position in in.blocks
  phase    \* "mark", "unlink", "done", "crash" on a null pointer, or "undefined"

vars == <<in, blocks, freed, marked, stack, data, curr, idx, phase>>

TargetsOf(b) == ElementsOf(JumpTargets(LastOf(b), in.tables))
Seen == ElementsOf(marked)

\* The labels listed by the tables of the file.
DataLabels(tables) == UNION {ElementsOf(tables[t]) : t \in DOMAIN tables}

\* The pass is entered.
Start ==
  /\ blocks = in.blocks
  /\ freed = in.freed
  /\ marked = << >>
  /\ stack = <<in.blocks[1].label>>
  /\ data = DataLabels(in.tables)
  /\ curr = 1
  /\ idx = 1
  /\ phase = "mark"

Init == in \in Inputs /\ Start
-----------------------------------------------------------------------------
\* A call that finds its block already seen returns at once.
Return ==
  /\ phase = "mark" /\ stack # << >>
  /\ Head(stack) \in Seen
  /\ stack' = Tail(stack)
  /\ UNCHANGED <<in, freed, blocks, marked, data, curr, idx, phase>>

\* Slips KeptClosed and MarkedForAReason catch: only the first target is
\* followed; the next block is taken to be reached by falling through.
MarkFirstTarget ==
  /\ phase = "mark" /\ stack # << >>
  /\ Head(stack) \notin Seen
  /\ HasBlock(blocks, Head(stack))
  /\ marked' = Append(marked, Head(stack))
  /\ LET targets == JumpTargets(LastOf(FindBlock(blocks, Head(stack))), in.tables)
     IN  stack' = [k \in DOMAIN targets \cap {1} |-> targets[k]] \o Tail(stack)
  /\ UNCHANGED <<in, freed, blocks, data, curr, idx, phase>>
MarkFallingThrough ==
  /\ phase = "mark" /\ stack # << >>
  /\ Head(stack) \notin Seen
  /\ HasBlock(blocks, Head(stack))
  /\ marked' = Append(marked, Head(stack))
  /\ LET i == IndexOfBlock(blocks, Head(stack))
         following == IF i < Len(blocks) THEN <<blocks[i + 1].label>> ELSE << >>
     IN  stack' = JumpTargets(LastOf(blocks[i]), in.tables) \o following \o Tail(stack)
  /\ UNCHANGED <<in, freed, blocks, data, curr, idx, phase>>

\* Any other call marks its block and calls itself on the block's targets.
Mark ==
  /\ phase = "mark" /\ stack # << >>
  /\ Head(stack) \notin Seen
  /\ HasBlock(blocks, Head(stack))
  /\ marked' = Append(marked, Head(stack))
  /\ stack' = JumpTargets(LastOf(FindBlock(blocks, Head(stack))), in.tables)
                \o Tail(stack)
  /\ UNCHANGED <<in, freed, blocks, data, curr, idx, phase>>

\* findBlock gave NULL for a jump's target, and the call dereferences it.
NullBlock ==
  /\ phase = "mark" /\ stack # << >>
  /\ ~HasBlock(blocks, Head(stack))
  /\ phase' = "crash"
  /\ UNCHANGED <<in, freed, blocks, marked, stack, data, curr, idx>>

\* A slip CrashOnlyOnDanglingJump catches: no test whether the label in the
\* table is one of this function's.
MarkDataUntested ==
  /\ phase = "mark" /\ stack = << >>
  /\ \E l \in data : data' = data \ {l} /\ stack' = <<l>>
  /\ UNCHANGED <<in, freed, blocks, marked, curr, idx, phase>>

\* One label of the file's tables; the labels are looked at in an order that
\* does not matter.  Other functions' labels are ignored.
MarkData ==
  /\ phase = "mark" /\ stack = << >>
  /\ \E l \in data :
       /\ data' = data \ {l}
       /\ stack' = IF HasBlock(blocks, l) THEN <<l>> ELSE << >>
  /\ UNCHANGED <<in, freed, blocks, marked, curr, idx, phase>>

\* A slip DataKept catches: the data is left unread.
StartUnlinkingEarly ==
  /\ phase = "mark" /\ stack = << >>
  /\ phase' = "unlink"
  /\ UNCHANGED <<in, freed, blocks, marked, stack, data, curr, idx>>

StartUnlinking ==
  /\ phase = "mark" /\ stack = << >> /\ data = {}
  /\ phase' = "unlink"
  /\ UNCHANGED <<in, freed, blocks, marked, stack, data, curr, idx>>

KeepBlock ==
  /\ phase = "unlink" /\ curr <= Len(blocks)
  /\ in.blocks[idx].label \in Seen
  /\ curr' = curr + 1
  /\ idx' = idx + 1
  /\ UNCHANGED <<in, freed, blocks, marked, stack, data, phase>>

\* A slip UnlinkingInStep catches: the index stays behind the cursor.
UnlinkBlockIndexBehind ==
  /\ phase = "unlink" /\ curr <= Len(blocks)
  /\ in.blocks[idx].label \notin Seen
  /\ blocks' = SubSeq(blocks, 1, curr - 1)
                 \o SubSeq(blocks, curr + 1, Len(blocks))
  /\ UNCHANGED <<in, freed, marked, stack, data, curr, idx, phase>>

UnlinkBlock ==
  /\ phase = "unlink" /\ curr <= Len(blocks)
  /\ in.blocks[idx].label \notin Seen
  /\ OwnedOnce(<<blocks[curr]>>, freed)
  /\ freed' = freed \cup ObjectsIn(blocks[curr])
  /\ blocks' = SubSeq(blocks, 1, curr - 1)
                 \o SubSeq(blocks, curr + 1, Len(blocks))
  /\ idx' = idx + 1
  /\ UNCHANGED <<in, marked, stack, data, curr, phase>>

\* The block holds an operand twice, or one that another block had freed.
FreeTwice ==
  /\ phase = "unlink" /\ curr <= Len(blocks)
  /\ in.blocks[idx].label \notin Seen
  /\ ~OwnedOnce(<<blocks[curr]>>, freed)
  /\ phase' = "undefined"
  /\ UNCHANGED <<in, freed, blocks, marked, stack, data, curr, idx>>

Finish ==
  /\ phase = "unlink" /\ curr > Len(blocks)
  /\ phase' = "done"
  /\ UNCHANGED <<in, freed, blocks, marked, stack, data, curr, idx>>

Next ==
  \/ Return \/ Mark \/ NullBlock \/ MarkData
  \/ StartUnlinking \/ KeepBlock \/ UnlinkBlock \/ FreeTwice \/ Finish

Spec == Init /\ [][Next]_vars /\ WF_vars(Next)
-----------------------------------------------------------------------------
(* Properties *)

\* The type invariant.
TypeOK ==
  /\ Len(blocks) <= Len(in.blocks)
  /\ ElementsOf(blocks) \subseteq ElementsOf(in.blocks)
  /\ Seen \subseteq LabelsOf(in.blocks)
  /\ data \subseteq DataLabels(in.tables)
  /\ curr \in 1 .. Len(in.blocks) + 1
  /\ idx \in 1 .. Len(in.blocks) + 1
  /\ phase \in {"mark", "unlink", "done", "crash", "undefined"}

\* Every block in the list that was passed is marked, none that was unlinked
\* is, and the cursor in the list and the index in "seen" are at one block.
UnlinkingInStep ==
  phase = "unlink" =>
    /\ SubSeq(blocks, curr, Len(blocks))
         = SubSeq(in.blocks, idx, Len(in.blocks))
    /\ \A j \in 1 .. curr - 1 : blocks[j].label \in Seen
    /\ \A j \in 1 .. idx - 1 : in.blocks[j].label \in Seen =>
         \E k \in 1 .. curr - 1 : blocks[k] = in.blocks[j]

\* Only a null pointer for a jump to a label no block had can stop the pass.
CrashOnlyOnDanglingJump ==
  phase = "crash" =>
    \E b \in ElementsOf(in.blocks) :
      \E l \in TargetsOf(b) : ~HasBlock(in.blocks, l)

\* What is left of the function can run on its own: every target of a block
\* that is kept is the label of a block that is kept, so no block that control
\* reaches from the entry was unlinked.
KeptClosed ==
  phase = "done" =>
    \A b \in ElementsOf(blocks) : TargetsOf(b) \subseteq LabelsOf(blocks)

\* A jump table listing a label of this function keeps the block, even when
\* control no longer reaches the table's jump: the data refers to the label.
DataKept ==
  phase = "done" =>
    DataLabels(in.tables) \cap LabelsOf(in.blocks) \subseteq LabelsOf(blocks)

\* Nothing else is kept: every marked block is the entry, is listed in a table,
\* or is the target of a block marked before it.
MarkedForAReason ==
  \A i \in DOMAIN marked :
    \/ marked[i] = in.blocks[1].label
    \/ marked[i] \in DataLabels(in.tables)
    \/ \E j \in 1 .. i - 1 :
         marked[i] \in TargetsOf(FindBlock(in.blocks, marked[j]))

\* The pass uses an operand that is freed only in a function in
\* which two instructions hold the same operand, or one that was freed before
\* (optimization.c:188).
UndefinedOnlyIfShared == phase = "undefined" => ~OwnedOnce(in.blocks, in.freed)
=============================================================================
