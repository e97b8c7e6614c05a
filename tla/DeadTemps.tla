------------------------------ MODULE DeadTemps ------------------------------
(***************************************************************************)
(* deadTempElimination of optimization/optimization.c: mark the temps that *)
(* the instructions of a function read, turn every write to an unmarked    *)
(* temp into a NOP, and do it again until a round removes nothing.         *)
(*                                                                         *)
(* Turning an instruction into a NOP frees the operands it holds.  When    *)
(* another instruction holds one of them too, the next round reads freed   *)
(* memory there, and the pass stops.                                       *)
(***************************************************************************)
EXTENDS IR

CONSTANT Inputs  \* records [blocks, maxTemps, freed]: a function, its file's
                 \* nextId, and the operands freed before

\* The arguments of an instruction the pass takes for reads.
MarkedArgs(op) ==
  CASE op \in {"VOLATILE", "ADDROF", "JUMP", "CALL"} -> {1}
    [] op \in {"MOVE", "STK_LOAD"} \cup Unary -> {2}
    [] op = "STK_STORE" -> {1, 2}
    [] op = "MEM_STORE" -> {1, 2, 3}
    [] op \in {"MEM_LOAD", "OFFSET_STORE", "OFFSET_LOAD"} \cup Binary \cup BJumps
         -> {2, 3}
    [] op \in CJumps -> {3, 4}
    [] OTHER -> {}

\* The arguments ir.h says an instruction reads.
ReadArgs(op) ==
  CASE op = "ADDROF" -> {2}
    [] op = "JUMPTABLE" -> {1}
    [] OTHER -> MarkedArgs(op)

\* The instructions the pass removes when the temp in their first argument is
\* not read.
Writers == {"UNINITIALIZED", "ADDROF", "MOVE", "MEM_LOAD", "STK_LOAD",
            "OFFSET_STORE", "OFFSET_LOAD"} \cup Binary \cup Unary

\* The temps among some of an instruction's arguments.
TempsIn(i, args) ==
  {i.args[a].name : a \in {b \in args \cap DOMAIN i.args : i.args[b].kind = "TEMP"}}

\* What the pass takes for granted of its input: the temps are the file's, and
\* what was freed has a name.
IsInput(f) ==
  /\ IsBlockList(f.blocks)
  /\ 0 \notin f.freed
  /\ \A b \in DOMAIN f.blocks : \A k \in DOMAIN f.blocks[b].instructions :
       LET i == f.blocks[b].instructions[k]
       IN  TempsIn(i, DOMAIN i.args) \subseteq 0 .. f.maxTemps - 1
InputsOK == \A f \in Inputs : IsInput(f)

\* A slip RemovedNeverRead catches: an operand of binary operations is missed.
MarkTempUseNoRhs(i) == TempsIn(i, MarkedArgs(i.op) \ {3})

MarkTempUse(i) == TempsIn(i, MarkedArgs(i.op))

WritesDeadTemp(seen, i) ==
  i.op \in Writers /\ TempsIn(i, {1}) # {} /\ TempsIn(i, {1}) \cap seen = {}

VARIABLES
  in,       \* the function and nextId (never changes)
  blocks,   \* the function now
  freed,    \* the operand objects that were freed
  seen,     \* the temps marked in this round
  block,    \* the instruction being visited: its block, and
  inst,     \* its position there
  changed,  \* did this round remove an instruction
  phase     \* "mark", "sweep", "done", "undefined"

vars == <<in, blocks, freed, seen, block, inst, changed, phase>>

\* The pass is entered.
Start ==
  /\ blocks = in.blocks
  /\ freed = in.freed
  /\ seen = {}
  /\ block = 1 /\ inst = 1
  /\ changed = FALSE
  /\ phase = "mark"

Init == in \in Inputs /\ Start
-----------------------------------------------------------------------------
Current == blocks[block].instructions[inst]

Visiting(p) == phase = p /\ block <= Len(blocks)

\* On to the next instruction of the block, or to the next block.
Advance ==
  IF inst < Len(blocks[block].instructions)
  THEN inst' = inst + 1 /\ UNCHANGED block
  ELSE inst' = 1 /\ block' = block + 1

\* The arguments of the current instruction that are read now: to mark them, to
\* look at what is written, or to free them with it.
ReadNow ==
  IF phase = "mark" THEN MarkedArgs(Current.op)
  ELSE IF WritesDeadTemp(seen, Current) THEN DOMAIN Current.args
  ELSE IF Current.op \in Writers THEN {1} ELSE {}

ReadsFreed ==
  \E a \in ReadNow \cap DOMAIN Current.args : Current.args[a].obj \in freed

\* An operand the current instruction holds was freed with another instruction.
UseFreed ==
  /\ Visiting(phase)
  /\ phase \in {"mark", "sweep"}
  /\ ReadsFreed
  /\ phase' = "undefined"
  /\ UNCHANGED <<in, freed, blocks, seen, block, inst, changed>>

Mark ==
  /\ Visiting("mark")
  /\ ~ReadsFreed
  /\ seen' = seen \cup MarkTempUse(Current)
  /\ Advance
  /\ UNCHANGED <<in, freed, blocks, changed, phase>>

StartSweep ==
  /\ phase = "mark" /\ block > Len(blocks)
  /\ phase' = "sweep" /\ block' = 1 /\ inst' = 1
  /\ UNCHANGED <<in, freed, blocks, seen, changed>>

Keep ==
  /\ Visiting("sweep")
  /\ ~WritesDeadTemp(seen, Current)
  /\ ~ReadsFreed
  /\ Advance
  /\ UNCHANGED <<in, freed, blocks, seen, changed, phase>>

\* A slip UndefinedOnlyIfShared catches: the operands are freed, the operator
\* stays.
MakeNopFreeOnly ==
  /\ Visiting("sweep")
  /\ WritesDeadTemp(seen, Current)
  /\ ~ReadsFreed
  /\ freed' = freed \cup Objects(Current)
  /\ changed' = TRUE
  /\ Advance
  /\ UNCHANGED <<in, blocks, seen, phase>>

\* irInstructionMakeNop
MakeNop ==
  /\ Visiting("sweep")
  /\ WritesDeadTemp(seen, Current)
  /\ ~ReadsFreed
  /\ freed' = freed \cup Objects(Current)
  /\ blocks' = [blocks EXCEPT ![block].instructions[inst] = NOP]
  /\ changed' = TRUE
  /\ Advance
  /\ UNCHANGED <<in, seen, phase>>

\* A slip Terminates catches: changed is not reset for the next round.
NextRoundNoReset ==
  /\ phase = "sweep" /\ block > Len(blocks)
  /\ changed
  /\ phase' = "mark" /\ seen' = {} /\ block' = 1 /\ inst' = 1
  /\ UNCHANGED <<in, freed, blocks, changed>>

NextRound ==
  /\ phase = "sweep" /\ block > Len(blocks)
  /\ changed
  /\ phase' = "mark" /\ seen' = {} /\ changed' = FALSE
  /\ block' = 1 /\ inst' = 1
  /\ UNCHANGED <<in, freed, blocks>>

\* A slip Implements catches: one round is taken to be enough.
FinishAfterRound ==
  /\ phase = "sweep" /\ block > Len(blocks)
  /\ phase' = "done"
  /\ UNCHANGED <<in, freed, blocks, seen, block, inst, changed>>

Finish ==
  /\ phase = "sweep" /\ block > Len(blocks)
  /\ ~changed
  /\ phase' = "done"
  /\ UNCHANGED <<in, freed, blocks, seen, block, inst, changed>>

Next == Mark \/ StartSweep \/ Keep \/ MakeNop \/ UseFreed \/ NextRound \/ Finish

Spec == Init /\ [][Next]_vars /\ WF_vars(Next)
-----------------------------------------------------------------------------
(* Properties *)

\* The places of the function's instructions.
Places == UNION {{<<b, i>> : i \in 1 .. Len(in.blocks[b].instructions)} :
                   b \in 1 .. Len(in.blocks)}
Was(p) == in.blocks[p[1]].instructions[p[2]]
Now(p) == blocks[p[1]].instructions[p[2]]
Removed == {p \in Places : Now(p) # Was(p)}

\* The temps a set of arguments of the instructions that are left reads; Args
\* is MarkedArgs or ReadArgs.
LeftIn(ops, Args(_)) ==
  UNION {TempsIn(Now(p), Args(Now(p).op)) : p \in {q \in Places : Now(q).op \in ops}}
LostTemps == UNION {TempsIn(Was(p), {1}) : p \in Removed}
Ops == {Now(p).op : p \in Places}

\* The type invariant; marks stay inside the array of nextId entries that
\* calloc gave.
TypeOK ==
  /\ Len(blocks) = Len(in.blocks)
  /\ seen \subseteq 0 .. in.maxTemps - 1
  /\ block \in 1 .. Len(in.blocks) + 1
  /\ inst \in Nat \ {0}
  /\ changed \in BOOLEAN
  /\ phase \in {"mark", "sweep", "done", "undefined"}

\* A write is removed only if nothing that is left reads its temp, leaving
\* aside the two instructions whose reads the pass does not mark, though ir.h has
\* them read (ADDROF its second argument, JUMPTABLE its first): at no moment
\* does a temp that is read lose one of its writes.
RemovedNeverRead ==
  LostTemps \cap LeftIn(Ops \ {"ADDROF", "JUMPTABLE"}, ReadArgs) = {}

\* When the pass is done, every write that is left is to a temp some
\* instruction that is left marks: no round of removing was missed.
Saturated ==
  phase = "done" =>
    \A p \in Places : ~WritesDeadTemp(LeftIn(Ops, MarkedArgs), Now(p))

\* A set of instructions in which every write is to a temp that one of them marks.
ReadsOf(K) == UNION {MarkTempUse(Was(q)) : q \in K}
NeedsItself(K) == K \subseteq Places /\ \A p \in K : ~WritesDeadTemp(ReadsOf(K), Was(p))

\* The pass takes no more away than it has to: an instruction that belongs to such
\* a set stays, in whatever order the rounds get to the others.
NeededKept == \A K \in SUBSET Places : NeedsItself(K) => \A p \in K : Now(p) = Was(p)

\* When the pass is done, what is left is the largest such set: each instruction of
\* it is needed, and nothing more could have stayed.
LargestLeft ==
  phase = "done" =>
    /\ NeedsItself(Places \ Removed)
    /\ \A K \in SUBSET Places : NeedsItself(K) => K \subseteq Places \ Removed

\* The pass uses an operand that is freed only in a function in
\* which two instructions hold the same operand, or one that was freed before
\* (optimization.c:365).
UndefinedOnlyIfShared == phase = "undefined" => ~OwnedOnce(in.blocks, in.freed)
=============================================================================
