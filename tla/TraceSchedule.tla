---------------------------- MODULE TraceSchedule ----------------------------
(***************************************************************************)
(* translation/traceSchedule.c: the blocks of a function into one list of  *)
(* instructions.  scheduleBlock takes a block off the list of blocks,      *)
(* copies it behind what was emitted, turns its two-target jump into a     *)
(* fallthrough jump, and calls itself for the blocks it leads to.          *)
(*                                                                         *)
(* The work list holds what the calls that have not returned still have to *)
(* do: schedule a block if it is still in the list, or, for the false      *)
(* target of a conditional jump, schedule it or else emit a jump to it;    *)
(* and last, free what is left of the block a call was made for.           *)
(* Every JUMP built by translation has a LOCAL operand, so the test        *)
(* irOperandIsLocal is always true here.                                   *)
(*                                                                         *)
(* Instructions are moved, but a two-target jump is copied and freed with  *)
(* its block, and so are the operands it holds; blocks that were never     *)
(* scheduled are freed at the end.  The pass stops when it uses an operand *)
(* that was freed.                                                         *)
(***************************************************************************)
EXTENDS IR

CONSTANT Inputs  \* records [blocks, tables, freed]: a function, its file's
                 \* tables, and the operands freed before

\* What the pass takes for granted of its input: labels are not among the
\* instructions yet, a block has its own.
IsInput(f) ==
  /\ IsFunction(f)
  /\ \A i \in DOMAIN f.blocks : \A k \in DOMAIN f.blocks[i].instructions :
       f.blocks[i].instructions[k].op # "LABEL"
InputsOK == \A f \in Inputs : IsInput(f)

VARIABLES
  in,      \* the function and the tables (never changes)
  blocks,  \* the blocks not scheduled yet
  freed,   \* the operand objects that were freed
  out,     \* the instructions emitted
  work,    \* what is still to be done, the next item first
  phase    \* "schedule", "done" or "undefined"

vars == <<in, blocks, freed, out, work, phase>>

IfFound(l) == [todo |-> "ifFound", label |-> l]
OrJump(l) == [todo |-> "orJump", label |-> l]
Free(objects) == [todo |-> "free", objects |-> objects]

\* The pass is entered.
Start ==
  /\ blocks = in.blocks
  /\ freed = in.freed
  /\ out = << >>
  /\ work = <<IfFound(in.blocks[1].label)>>
  /\ phase = "schedule"

Init == in \in Inputs /\ Start
-----------------------------------------------------------------------------
Body(b) == SubSeq(b.instructions, 1, Len(b.instructions) - 1)

\* A slip FinalMeaningKept catches: the fallthrough jump keeps the false target.
OneArgJumpToFalse(i) ==
  Copied([op |-> FallthroughOp[i.op],
          args |-> <<i.args[2]>> \o SubSeq(i.args, 3, Len(i.args))])

\* oneArgJumpFromTwoArgJump: the false target goes, the rest stays.
OneArgJump(i) ==
  Copied([op |-> FallthroughOp[i.op],
          args |-> <<i.args[1]>> \o SubSeq(i.args, 3, Len(i.args))])

\* What scheduleBlock emits for the last instruction itself: a table jump and a
\* return are moved as they are ...
EmittedFor(i) ==
  CASE i.op = "JUMP" -> << >>
    [] i.op \in TwoTarget -> <<OneArgJump(i)>>
    [] OTHER -> <<i>>

\* ... and what it does after that.
WorkFor(i) ==
  LET targets == JumpTargets(i, in.tables)
  IN  IF i.op \in TwoTarget
      THEN <<OrJump(targets[2]), IfFound(targets[1])>>
      ELSE [k \in DOMAIN targets |-> IfFound(targets[k])]

\* irBlockFree: what is still in the block is a jump that was not moved behind
\* the output.  Freeing operands nothing else holds is left out.
FreedWith(b) ==
  IF LastOf(b).op \in {"JUMP"} \cup TwoTarget THEN Objects(LastOf(b)) ELSE {}
Freeing(b) == IF FreedWith(b) = {} THEN << >> ELSE <<Free(FreedWith(b))>>

Without(bs, l) ==
  LET n == IndexOfBlock(bs, l)
  IN  SubSeq(bs, 1, n - 1) \o SubSeq(bs, n + 1, Len(bs))

Scheduling == phase = "schedule" /\ work # << >>
IsToSchedule(item) ==
  item.todo \in {"ifFound", "orJump"} /\ HasBlock(blocks, item.label)

\* A freed operand is about to be copied with the jump of the next block, or to
\* be freed again with a block that was scheduled or those that were not.
UsesFreed ==
  IF work = << >> THEN ~OwnedOnce(blocks, freed)
  ELSE IF Head(work).todo = "free" THEN Head(work).objects \cap freed # {}
  ELSE /\ IsToSchedule(Head(work))
       /\ FreedWith(FindBlock(blocks, Head(work).label)) \cap freed # {}

UseFreed ==
  /\ phase = "schedule"
  /\ UsesFreed
  /\ phase' = "undefined"
  /\ UNCHANGED <<in, freed, blocks, out, work>>

ScheduleBlock ==
  /\ Scheduling
  /\ IsToSchedule(Head(work))
  /\ ~UsesFreed
  /\ LET b == FindBlock(blocks, Head(work).label)
     IN  /\ out' = out \o (<<LABEL(b.label)>> \o Body(b) \o EmittedFor(LastOf(b)))
         /\ work' = WorkFor(LastOf(b)) \o Freeing(b) \o Tail(work)
         /\ blocks' = Without(blocks, b.label)
  /\ UNCHANGED <<in, freed, phase>>

\* A call returns.
FreeBlock ==
  /\ Scheduling
  /\ Head(work).todo = "free"
  /\ ~UsesFreed
  /\ freed' = freed \cup Head(work).objects
  /\ work' = Tail(work)
  /\ UNCHANGED <<in, blocks, out, phase>>

\* The false target was scheduled before: the fallthrough needs a jump.
EmitJump ==
  /\ Scheduling
  /\ Head(work).todo = "orJump"
  /\ ~HasBlock(blocks, Head(work).label)
  /\ out' = out \o <<JUMP(Head(work).label)>>
  /\ work' = Tail(work)
  /\ UNCHANGED <<in, freed, blocks, phase>>

\* Any other target was scheduled before: nothing is done.
SkipScheduled ==
  /\ Scheduling
  /\ Head(work).todo = "ifFound"
  /\ ~HasBlock(blocks, Head(work).label)
  /\ work' = Tail(work)
  /\ UNCHANGED <<in, freed, blocks, out, phase>>

\* traceSchedule frees the blocks that were never scheduled.
Finish ==
  /\ phase = "schedule" /\ work = << >>
  /\ ~UsesFreed
  /\ blocks' = << >>
  /\ freed' = freed \cup UNION {ObjectsIn(blocks[i]) : i \in DOMAIN blocks}
  /\ phase' = "done"
  /\ UNCHANGED <<in, out, work>>

Next ==
  ScheduleBlock \/ EmitJump \/ SkipScheduled \/ FreeBlock \/ UseFreed \/ Finish

Spec == Init /\ [][Next]_vars /\ WF_vars(Next)
-----------------------------------------------------------------------------
(* Properties *)

Labels == LabelsOf(in.blocks)
PositionsOf(l) == {p \in DOMAIN out : out[p] = LABEL(l)}
Emitted == {l \in Labels : PositionsOf(l) # {}}

\* The instructions emitted right behind block b's own.
After(b) ==
  (CHOOSE p \in PositionsOf(b.label) : TRUE)
    + Len(Body(b)) + Len(EmittedFor(LastOf(b))) + 1

\* The next instruction control gets to by falling off the end of block b is
\* the start of the block labelled l, or a jump there.
FallsInto(b, l) ==
  /\ After(b) \in DOMAIN out
  /\ out[After(b)] \in {LABEL(l), JUMP(l)}

\* The type invariant.
TypeOK ==
  /\ Len(blocks) <= Len(in.blocks)
  /\ LabelsOf(blocks) \subseteq Labels
  /\ \A w \in DOMAIN work : work[w].todo \in {"ifFound", "orJump", "free"}
  /\ phase \in {"schedule", "done", "undefined"}

\* No block is lost or emitted twice: a label is in the list of blocks, or in
\* the output exactly once with the block's instructions behind it.
EmittedOnce ==
  phase = "schedule" =>
    \A b \in {in.blocks[i] : i \in DOMAIN in.blocks} :
      IF b.label \in LabelsOf(blocks)
      THEN PositionsOf(b.label) = {}
      ELSE \E p \in DOMAIN out :
             /\ PositionsOf(b.label) = {p}
             /\ SubSeq(out, p + 1, After(b) - 1) = Body(b) \o EmittedFor(LastOf(b))

\* No block that control reaches is thrown away: the entry is emitted first,
\* and with a block every block of the function it leads to.
TargetsScheduled ==
  phase = "done" =>
    /\ out[1] = LABEL(in.blocks[1].label)
    /\ \A b \in {in.blocks[i] : i \in DOMAIN in.blocks} :
         b.label \in Emitted =>
           LET t == JumpTargets(LastOf(b), in.tables)
           IN  \A k \in DOMAIN t : t[k] \in Labels => t[k] \in Emitted

\* A condition that is false leads where it led before: the instruction behind
\* a fallthrough jump is the false target's label or a jump to it.
FalseTargetFollows ==
  phase = "done" =>
    \A b \in {in.blocks[i] : i \in DOMAIN in.blocks} :
      LastOf(b).op \in TwoTarget /\ b.label \in Emitted =>
        FallsInto(b, LastOf(b).args[2].name)

\* A jump leads where it led before: it is replaced by falling through only
\* when its target comes next (the comment of scheduleBlock: "if it's a jump to
\* a local, schedule that block and skip the jump").
JumpKept ==
  phase = "done" =>
    \A b \in {in.blocks[i] : i \in DOMAIN in.blocks} :
      LastOf(b).op = "JUMP" /\ b.label \in Emitted =>
        FallsInto(b, LastOf(b).args[1].name)

\* Scheduling uses an operand that is freed only in a function in
\* which two instructions hold the same operand, or one that was freed before
\* (traceSchedule.c:224).
UndefinedOnlyIfShared == phase = "undefined" => ~OwnedOnce(in.blocks, in.freed)
=============================================================================
