------------------------------- MODULE Passes -------------------------------
(***************************************************************************)
(* What each pass of the middle end computes, stated without the loops,    *)
(* stacks and cursors it computes it with.  The modules of the passes are  *)
(* checked against these definitions, and MiddleEnd is built from them.    *)
(***************************************************************************)
EXTENDS IR, SequencesExt

ReplaceLast(b, i) ==
  [b EXCEPT !.instructions[Len(b.instructions)] = i]

\* No chain of jumps goes round in a circle, or to a label no block has.
RECURSIVE ChainEnds(_, _, _)
ChainEnds(blocks, i, n) ==
  i.op = "JUMP" =>
    /\ n > 0
    /\ HasBlock(blocks, i.args[1].name)
    /\ LET b == FindBlock(blocks, i.args[1].name)
       IN  IsSingle(b) => ChainEnds(blocks, LastOf(b), n - 1)

IsShortenable(blocks) ==
  \A i \in DOMAIN blocks : ChainEnds(blocks, LastOf(blocks[i]), Len(blocks))

\* The jump at the end of a chain of blocks that only jump, for a function that
\* is shortenable.
RECURSIVE EndOfChain(_, _)
EndOfChain(blocks, i) ==
  IF i.op = "JUMP" /\ IsSingle(FindBlock(blocks, i.args[1].name))
  THEN EndOfChain(blocks, LastOf(FindBlock(blocks, i.args[1].name)))
  ELSE i

Shortened(blocks) ==
  [i \in DOMAIN blocks |->
     LET last == EndOfChain(blocks, LastOf(blocks[i]))
     IN  IF last = LastOf(blocks[i]) THEN blocks[i]
         ELSE ReplaceLast(blocks[i], Copied(last))]

\* The labels reached from the labels in R.
RECURSIVE ReachedFrom(_, _, _)
ReachedFrom(blocks, tables, R) ==
  LET next == R \cup UNION {ToSet(JumpTargets(LastOf(b), tables)) :
                              b \in {c \in ToSet(blocks) : c.label \in R}}
  IN  IF next = R THEN R ELSE ReachedFrom(blocks, tables, next)

\* The labels that are reached from the entry or from the file's jump tables.
Live(blocks, tables) ==
  LET listed == UNION {ToSet(tables[t]) : t \in DOMAIN tables}
  IN  ReachedFrom(blocks, tables,
                  {blocks[1].label} \cup (listed \cap LabelsOf(blocks)))

WithoutDeadBlocks(blocks, tables) ==
  LET live == Live(blocks, tables)
  IN  SelectSeq(blocks, LAMBDA b : b.label \in live)
\* The operands that are freed with the blocks that are unlinked.
FreedWithBlocks(blocks, tables) ==
  LET live == Live(blocks, tables)
  IN  UNION {ObjectsIn(b) : b \in {c \in ToSet(blocks) : c.label \notin live}}
-----------------------------------------------------------------------------
(* Temps *)

D == INSTANCE DeadTemps WITH Inputs <- {}, in <- << >>, blocks <- << >>,
       freed <- {}, seen <- {}, block <- 1, inst <- 1, changed <- FALSE, phase <- "done"

InstructionsOf(blocks) == UNION {ToSet(b.instructions) : b \in ToSet(blocks)}

\* Take the writes to temps nothing marks away, until there are none.
RECURSIVE WithoutDeadTemps(_)
WithoutDeadTemps(blocks) ==
  LET used == UNION {D!MarkTempUse(i) : i \in InstructionsOf(blocks)}
      next == [b \in DOMAIN blocks |->
                [blocks[b] EXCEPT !.instructions =
                   [k \in DOMAIN @ |->
                      IF D!WritesDeadTemp(used, @[k]) THEN NOP ELSE @[k]]]]
  IN  IF next = blocks THEN blocks ELSE WithoutDeadTemps(next)

\* The operands of the instructions that became NOPs.
FreedWithTemps(blocks) ==
  LET left == WithoutDeadTemps(blocks)
  IN  UNION {UNION {Objects(blocks[b].instructions[k]) :
                      k \in {j \in DOMAIN blocks[b].instructions :
                              left[b].instructions[j] # blocks[b].instructions[j]}} :
               b \in DOMAIN blocks}
-----------------------------------------------------------------------------
(* Scheduling *)

T == INSTANCE TraceSchedule WITH Inputs <- {}, in <- << >>, blocks <- << >>,
       freed <- {}, out <- << >>, work <- << >>, phase <- "done"

\* scheduleBlock as the recursion it is: sched has the blocks left and the
\* instructions emitted.
RECURSIVE ScheduleFrom(_, _, _)
ScheduleFrom(label, tables, sched) ==
  IF ~HasBlock(sched.blocks, label) THEN sched
  ELSE LET b == FindBlock(sched.blocks, label)
           last == LastOf(b)
           targets == JumpTargets(last, tables)
           emitted == [blocks |-> T!Without(sched.blocks, label),
                       out |-> sched.out \o <<LABEL(label)>> \o Front(b.instructions)
                                 \o T!EmittedFor(last)]
       IN  FoldLeft(LAMBDA s, k :
                      IF last.op \in TwoTarget /\ k = 2 /\ ~HasBlock(s.blocks, targets[2])
                      THEN [s EXCEPT !.out = Append(@, JUMP(targets[2]))]
                      ELSE ScheduleFrom(targets[k], tables, s),
                    emitted,
                    IF last.op \in TwoTarget THEN <<2, 1>>
                                             ELSE [k \in DOMAIN targets |-> k])

Scheduled(blocks, tables) ==
  ScheduleFrom(blocks[1].label, tables, [blocks |-> blocks, out |-> << >>]).out

\* The operands freed with two-target jumps and with blocks never scheduled.
FreedWithSchedule(blocks, tables) ==
  LET code == ToSet(Scheduled(blocks, tables))
  IN  UNION {IF LABEL(b.label) \in code THEN T!FreedWith(b) ELSE ObjectsIn(b) :
               b \in ToSet(blocks)}

\* The labels no jump and no table names are left out.
WithoutDeadLabels(code, tables) ==
  LET named == UNION {ToSet(tables[t]) : t \in DOMAIN tables}
               \cup {code[k].args[1].name :
                       k \in {j \in DOMAIN code :
                               code[j].op \in {"JUMP"} \cup OneTarget}}
  IN  SelectSeq(code, LAMBDA i : i.op = "LABEL" => i.args[1].name \in named)
=============================================================================
