------------------------------ MODULE MiddleEnd ------------------------------
(***************************************************************************)
(* From the typed syntax tree of a file to scheduled instructions: the     *)
(* order in which main.c, translateFile, optimizeBlockedIr, traceSchedule  *)
(* and optimizeScheduledIr run the passes over the functions of a file,    *)
(* which share one supply of labels and temps and one set of jump tables.  *)
(*                                                                         *)
(* A pass over one function is one step here and is given by what it       *)
(* computes (Passes); the pass's own module is checked to compute it.      *)
(***************************************************************************)
EXTENDS CompiledFile, Semantics, Passes, TranslateStmt

\* The functions of a file are records [body, returnsValue, calls].
CONSTANTS Variables,  \* the local variables of the functions
          Oracles     \* for the properties: Oracles[f.calls] is the set of
                      \* what the calls of function f may return

-----------------------------------------------------------------------------
Blocks == frags[next].blocks
SetBlocks(bs) == frags' = [frags EXCEPT ![next].blocks = bs]

\* optimizeBlockedIr runs its three passes over one function, then over the
\* next one.
ShortCircuit ==
  /\ pass = "shortCircuit" /\ next <= Len(frags)
  /\ pass' = "deadBlocks"
  /\ IsShortenable(Blocks)
  /\ SetBlocks(Shortened(Blocks))
  /\ UNCHANGED <<file, tables, freed, nextId, next>>

EliminateBlocks ==
  /\ pass = "deadBlocks"
  /\ pass' = "deadTemps"
  /\ Live(Blocks, tables) \subseteq LabelsOf(Blocks)
  /\ SetBlocks(WithoutDeadBlocks(Blocks, tables))
  /\ freed' = freed \cup FreedWithBlocks(Blocks, tables)
  /\ UNCHANGED <<file, tables, nextId, next>>

EliminateTemps ==
  /\ pass = "deadTemps"
  /\ pass' = "shortCircuit"
  /\ next' = next + 1
  /\ SetBlocks(WithoutDeadTemps(Blocks))
  /\ freed' = freed \cup FreedWithTemps(Blocks)
  /\ UNCHANGED <<file, tables, nextId>>

\* traceSchedule: the block list becomes one block of instructions.
Schedule ==
  /\ pass = "schedule" /\ next <= Len(frags)
  /\ next' = next + 1
  /\ frags' = [frags EXCEPT ![next].code = Scheduled(Blocks, tables)]
  /\ freed' = freed \cup FreedWithSchedule(Blocks, tables)
  /\ UNCHANGED <<file, tables, nextId, pass>>

EliminateLabels ==
  /\ pass = "deadLabels" /\ next <= Len(frags)
  /\ next' = next + 1
  /\ frags' = [frags EXCEPT ![next].code = WithoutDeadLabels(@, tables)]
  /\ UNCHANGED <<file, tables, freed, nextId, pass>>

\* The compiler stops inside a pass: an internal error or a null pointer for a
\* label no block has, or the endless loop shortCircuitJumps trips over.  A
\* function with an operand that two instructions hold may be compiled, or a
\* pass uses the operand when it is freed already.
Stopped ==
  /\ pass' = "stopped"
  /\ next <= Len(frags)
  /\ \/ pass = "shortCircuit" /\ ~IsShortenable(Blocks)
     \/ /\ pass = "deadBlocks"
        /\ ~(Live(Blocks, tables) \subseteq LabelsOf(Blocks))
     \/ /\ pass \in {"deadBlocks", "deadTemps", "schedule"}
        /\ ~OwnedOnce(Blocks, freed)
  /\ UNCHANGED <<file, frags, tables, freed, nextId, next>>

Next ==
  \/ Translate \/ ShortCircuit \/ EliminateBlocks \/ EliminateTemps
  \/ Schedule \/ EliminateLabels \/ NextPass \/ Stopped

Spec == Init /\ [][Next]_vars /\ WF_vars(Next)
-----------------------------------------------------------------------------
(* Properties *)

\* What scheduling made of the blocks of function k.
Scheduling(k) ==
  INSTANCE TraceSchedule WITH
    Inputs <- {}, in <- [blocks |-> frags[k].blocks, tables |-> tables],
    blocks <- << >>, out <- Scheduled(frags[k].blocks, tables), work <- << >>,
    freed <- freed, phase <- "done"

IsScheduled(k) == frags[k].code # << >>
CodeOf(k) == IF IsScheduled(k) THEN frags[k].code ELSE Flatten(frags[k].blocks)

\* Function k does what its source does.
FunctionMeans(k) ==
  Means(file[k], Variables, CodeOf(k), tables, nextId, Oracles[file[k].calls])

\* Dead temp elimination has seen function k.  (A compiler that stopped has
\* changed nothing since the state before.)
TempsEliminated(k) ==
  \/ pass \in {"schedule", "deadLabels", "done"}
  \/ pass \in {"shortCircuit", "deadBlocks", "deadTemps"} /\ k < next
TempsNotEliminated(k) == pass # "stopped" /\ ~TempsEliminated(k)

\* An instruction of function k holds an operand that was freed.
Dangling(k) == \E i \in ToSet(CodeOf(k)) : Objects(i) \cap freed # {}

Uses(k, op) ==
  \E b \in ToSet(frags[k].blocks) : \E i \in ToSet(b.instructions) : i.op = op

\* Translation and the passes before dead temp elimination keep the meaning of
\* every function: whatever the calls return, its blocks make the same calls
\* in the same order and return the same value as the source (the Standard's
\* rules for statements and expressions), except for the functions of Deviating,
\* which all do something else.  A function with a dangling operand is left
\* aside here and below: the operand may read as anything.
BlockedMeaningKept ==
  \A k \in DOMAIN frags :
    TempsNotEliminated(k) /\ ~Dangling(k) => (FunctionMeans(k) <=> file[k] \notin Deviating)

\* Dead temp elimination, scheduling and dead label elimination keep it too,
\* for a function without table jumps and address-of, whose reads the first
\* of them misses, and without a jump that scheduling dropped.
FinalMeaningKept ==
  \A k \in DOMAIN frags :
    /\ TempsEliminated(k) /\ ~Dangling(k)
    /\ ~Uses(k, "JUMPTABLE") /\ ~Uses(k, "ADDROF")
    /\ file[k] \notin Deviating
    /\ IsScheduled(k) => Scheduling(k)!JumpKept
    => FunctionMeans(k)

\* && and || mean the same for their value as in a condition
\* (standard/Standard.tex: "The logical and and logical or operators perform
\* the standard boolean operation on their left and right hand sides").
LogicalOperatorsStandard ==
  \A k \in DOMAIN frags : TempsNotEliminated(k) /\ ~Dangling(k) => FunctionMeans(k)
=============================================================================
