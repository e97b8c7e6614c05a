------------------------------ MODULE Pipeline ------------------------------
(***************************************************************************)
(* MiddleEnd in detail: the same file, the same order of passes, but every *)
(* pass is the loop of its own module, started on what the pass before it  *)
(* left and written back when it is done.  A pass that stops the compiler  *)
(* (freed memory read, internal error, null pointer) stops the pipeline.   *)
(*                                                                         *)
(* Pipeline implements MiddleEnd (MCPipeline): every pass computes what    *)
(* Passes says.                                                            *)
(***************************************************************************)
EXTENDS CompiledFile

CONSTANT ReuseFirst  \* as in ShortCircuitJumps

\* The state of the running pass; phase is "idle" between two passes.
VARIABLES
  in, phase, blocks, code,
  heap,                              \* what the pass calls freed
  idx, curr, changed, seen,          \* of more than one pass
  hops, chunk, shortCircuits,        \* of shortCircuitJumps
  marked, stack, data,               \* of deadBlockElimination
  block, inst,                       \* of deadTempElimination
  out, work                          \* of scheduleBlock
scVars == <<hops, chunk, shortCircuits>>
dbVars == <<marked, stack, data>>
dtVars == <<block, inst>>
tsVars == <<out, work>>
passVars == <<in, phase, blocks, code, heap, idx, curr, changed, seen,
              scVars, dbVars, dtVars, tsVars>>

SC == INSTANCE ShortCircuitJumps WITH Inputs <- {}, src <- in.blocks
DB == INSTANCE DeadBlocks WITH Inputs <- {}, freed <- heap
DT == INSTANCE DeadTemps WITH Inputs <- {}, freed <- heap
TS == INSTANCE TraceSchedule WITH Inputs <- {}, freed <- heap
DL == INSTANCE DeadLabels WITH Inputs <- {}

Idle ==
  /\ in = << >> /\ phase = "idle" /\ blocks = << >> /\ code = << >> /\ heap = {}
  /\ idx = 1 /\ curr = 1 /\ changed = FALSE /\ seen = {}
  /\ hops = << >> /\ chunk = << >> /\ shortCircuits = << >>
  /\ marked = << >> /\ stack = << >> /\ data = {}
  /\ block = 1 /\ inst = 1
  /\ out = << >> /\ work = << >>

PipelineInit == Init /\ Idle
-----------------------------------------------------------------------------
\* A pass returns: its locals are gone.
Reset ==
  /\ in' = << >> /\ phase' = "idle" /\ blocks' = << >> /\ code' = << >>
  /\ heap' = {}
  /\ idx' = 1 /\ curr' = 1 /\ changed' = FALSE /\ seen' = {}
  /\ hops' = << >> /\ chunk' = << >> /\ shortCircuits' = << >>
  /\ marked' = << >> /\ stack' = << >> /\ data' = {}
  /\ block' = 1 /\ inst' = 1
  /\ out' = << >> /\ work' = << >>

\* What every pass is given: a function, its file's tables and nextId.
Given ==
  [blocks |-> frags[next].blocks, code |-> frags[next].code, tables |-> tables,
   freed |-> freed, maxTemps |-> nextId, maxLabels |-> nextId]

\* A pass is called for the next function.
Enter(p, first) ==
  /\ pass = p /\ phase = "idle" /\ next <= Len(frags)
  /\ in' = Given
  /\ phase' = first
  /\ blocks' = Given.blocks /\ code' = Given.code /\ heap' = Given.freed
  /\ UNCHANGED <<vars, idx, curr, block, inst, changed>>

Running(p) == pass = p /\ phase # "idle" /\ UNCHANGED <<vars, in>>

\* The pass is done with the function: what it made replaces what it was given.
Return(p, after, field, made) ==
  /\ pass = p /\ phase = "done"
  /\ pass' = after
  /\ next' = IF after = "deadBlocks" \/ after = "deadTemps" THEN next ELSE next + 1
  /\ frags' = [frags EXCEPT ![next][field] = made]
  /\ freed' = heap
  /\ UNCHANGED <<file, tables, nextId>>
  /\ Reset
-----------------------------------------------------------------------------
TranslateNext == Translate /\ UNCHANGED passVars
StartPass == NextPass /\ UNCHANGED passVars

\* The null-initialised locals of shortCircuitJumps, filled by its first loop.
EnterShortCircuit ==
  LET bs == Given.blocks
  IN  /\ Enter("shortCircuit", "sweep")
      /\ hops' = [i \in DOMAIN bs |-> SC!HopsFrom(bs, i)]
      /\ chunk' = [i \in DOMAIN bs |-> i]
      /\ shortCircuits' = SC!FirstLoop(bs)
      /\ UNCHANGED <<seen, dbVars, tsVars>>
StepShortCircuit ==
  /\ Running("shortCircuit")
  /\ UNCHANGED <<code, heap, curr, seen, dbVars, dtVars, tsVars>>
  /\ SC!Next
LeaveShortCircuit == Return("shortCircuit", "deadBlocks", "blocks", blocks)

\* A slip InputsOK catches: the entry is not marked before the tables.
EnterDeadBlocksEntryUnmarked ==
  /\ Enter("deadBlocks", "mark")
  /\ marked' = << >>
  /\ stack' = << >>
  /\ data' = DB!DataLabels(tables)
  /\ UNCHANGED <<seen, scVars, tsVars>>

EnterDeadBlocks ==
  /\ Enter("deadBlocks", "mark")
  /\ marked' = << >>
  /\ stack' = <<Given.blocks[1].label>>
  /\ data' = DB!DataLabels(tables)
  /\ UNCHANGED <<seen, scVars, tsVars>>
StepDeadBlocks ==
  /\ Running("deadBlocks")
  /\ UNCHANGED <<code, changed, seen, scVars, dtVars, tsVars>>
  /\ DB!Next
LeaveDeadBlocks == Return("deadBlocks", "deadTemps", "blocks", blocks)

EnterDeadTemps ==
  /\ Enter("deadTemps", "mark")
  /\ UNCHANGED <<seen, scVars, dbVars, tsVars>>
StepDeadTemps ==
  /\ Running("deadTemps")
  /\ UNCHANGED <<code, idx, curr, scVars, dbVars, tsVars>>
  /\ DT!Next
LeaveDeadTemps == Return("deadTemps", "shortCircuit", "blocks", blocks)

EnterSchedule ==
  /\ Enter("schedule", "schedule")
  /\ out' = << >>
  /\ work' = <<TS!IfFound(Given.blocks[1].label)>>
  /\ UNCHANGED <<seen, scVars, dbVars>>
StepSchedule ==
  /\ Running("schedule")
  /\ UNCHANGED <<code, idx, curr, changed, seen, scVars, dbVars, dtVars>>
  /\ TS!Next
LeaveSchedule == Return("schedule", "schedule", "code", out)

EnterDeadLabels ==
  /\ Enter("deadLabels", "mark")
  /\ seen' = DL!DataLabels(tables)
  /\ UNCHANGED <<scVars, dbVars, tsVars>>
StepDeadLabels ==
  /\ Running("deadLabels")
  /\ UNCHANGED <<blocks, heap, idx, changed, scVars, dbVars, dtVars, tsVars>>
  /\ DL!Next
LeaveDeadLabels == Return("deadLabels", "deadLabels", "code", code)

\* The compiler stops inside a pass.
StopInside ==
  /\ phase \in {"undefined", "error", "crash"}
  /\ pass' = "stopped"
  /\ UNCHANGED <<file, frags, tables, freed, nextId, next>>
  /\ Reset

PipelineNext ==
  \/ TranslateNext \/ StartPass \/ StopInside
  \/ EnterShortCircuit \/ StepShortCircuit \/ LeaveShortCircuit
  \/ EnterDeadBlocks \/ StepDeadBlocks \/ LeaveDeadBlocks
  \/ EnterDeadTemps \/ StepDeadTemps \/ LeaveDeadTemps
  \/ EnterSchedule \/ StepSchedule \/ LeaveSchedule
  \/ EnterDeadLabels \/ StepDeadLabels \/ LeaveDeadLabels

\* One thread: it takes a step whenever it can.
PipelineVars == <<vars, passVars>>
PipelineSpec ==
  PipelineInit /\ [][PipelineNext]_PipelineVars /\ WF_PipelineVars(PipelineNext)
-----------------------------------------------------------------------------
(* Properties *)

In(p) == pass = p /\ phase # "idle"

\* The type invariants of the passes, of whichever runs.
TypeOK ==
  /\ pass \in {"translate", "shortCircuit", "deadBlocks", "deadTemps",
               "schedule", "deadLabels", "done", "stopped"}
  /\ next \in 1 .. Len(file) + 1
  /\ In("shortCircuit") => SC!TypeOK
  /\ In("deadBlocks") => DB!TypeOK
  /\ In("deadTemps") => DT!TypeOK
  /\ In("schedule") => TS!TypeOK
  /\ In("deadLabels") => DL!TypeOK

\* Each pass is given what it takes for granted, by translation or by the
\* passes before it: every block ends with a jump or a return, blocks have
\* labels of their own, no label reaches nextId.  This is what the theorems about
\* the passes assume.
InputsOK ==
  /\ In("shortCircuit") => SC!IsInput(in.blocks)
  /\ In("deadBlocks") => DB!IsInput(in)
  /\ In("deadTemps") => DT!IsInput(in)
  /\ In("schedule") => TS!IsInput(in)
  /\ In("deadLabels") => DL!IsInput(in)

\* Loops, rounds and recursions end, however many cycles a function has.
Terminates == <>(pass \in {"done", "stopped"})

\* The passes that free operands use one that is freed only in a function in
\* which two instructions hold the same operand, or one that translation freed:
\* no pass keeps a pointer into what it freed itself, round after round.
UndefinedOnlyIfShared ==
  /\ In("deadBlocks") => DB!UndefinedOnlyIfShared
  /\ In("deadTemps") => DT!UndefinedOnlyIfShared
  /\ In("schedule") => TS!UndefinedOnlyIfShared

\* No temp whose definition dead temp elimination removed is read by what is
\* left, and in the end every definition that is left is read
\* (optimization.c:212).
RemovedNeverRead == In("deadTemps") => DT!RemovedNeverRead /\ DT!Saturated

\* The schedule has every reachable block once and no other, so that each label
\* that is jumped to or stands in a table is there, and a conditional jump is
\* followed by the block it falls through to; dead label elimination leaves
\* every label that is still named, and no other (traceSchedule.c:127,
\* optimization.c:480).
TargetsKept ==
  /\ In("schedule") => TS!EmittedOnce /\ TS!TargetsScheduled /\ TS!FalseTargetFollows
  /\ In("deadLabels") => DL!TargetsKept /\ DL!OthersRemoved
=============================================================================
