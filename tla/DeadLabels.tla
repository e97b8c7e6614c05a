----------------------------- MODULE DeadLabels -----------------------------
(***************************************************************************)
(* deadLabelElimination of optimization/optimization.c: mark the labels    *)
(* the file's jump tables list and the ones a function's jumps name, and   *)
(* unlink the other labels from the function's instructions.               *)
(***************************************************************************)
EXTENDS IR

CONSTANT Inputs  \* records [code, tables, maxLabels]: a scheduled function,
                 \* its file's tables and nextId

\* The labels the file's tables list, and those a list of instructions may jump
\* to: those of a table for a table jump, the only operand or the true target
\* for the others.
DataLabels(tables) ==
  UNION {{tables[t][k] : k \in DOMAIN tables[t]} : t \in DOMAIN tables}
Targets(i, tables) ==
  CASE i.op = "JUMPTABLE" ->
         {tables[i.args[2].name][k] : k \in DOMAIN tables[i.args[2].name]}
    [] i.op \in {"JUMP"} \cup OneTarget -> {i.args[1].name}
    [] OTHER -> {}

\* What the pass takes for granted of its input: nextId was not reached by any
\* label that is listed or jumped to.
IsInput(f) ==
  /\ f.code \in Seq(IRInstruction)
  /\ f.maxLabels \in Nat
  /\ DataLabels(f.tables) \subseteq 0 .. f.maxLabels - 1
  /\ \A k \in DOMAIN f.code : Targets(f.code[k], f.tables) \subseteq 0 .. f.maxLabels - 1
InputsOK == \A f \in Inputs : IsInput(f)

VARIABLES
  in,     \* the function and the tables (never changes)
  code,   \* the function now
  seen,   \* the labels marked
  curr,   \* the instruction being looked at
  phase   \* "mark", "unlink", "done"

vars == <<in, code, seen, curr, phase>>

JumpedTo(i) == Targets(i, in.tables)

\* The pass is entered.
Start ==
  /\ code = in.code
  /\ seen = DataLabels(in.tables)
  /\ curr = 1
  /\ phase = "mark"

Init == in \in Inputs /\ Start
-----------------------------------------------------------------------------
\* A slip TargetsKept catches: fallthrough jumps are forgotten.
MarkNoFallthroughs ==
  /\ phase = "mark" /\ curr <= Len(code)
  /\ seen' = seen \cup (IF code[curr].op \in OneTarget THEN {}
                        ELSE JumpedTo(code[curr]))
  /\ curr' = curr + 1
  /\ UNCHANGED <<in, code, phase>>

Mark ==
  /\ phase = "mark" /\ curr <= Len(code)
  /\ seen' = seen \cup JumpedTo(code[curr])
  /\ curr' = curr + 1
  /\ UNCHANGED <<in, code, phase>>

StartUnlinking ==
  /\ phase = "mark" /\ curr > Len(code)
  /\ curr' = 1
  /\ phase' = "unlink"
  /\ UNCHANGED <<in, code, seen>>

IsDeadLabel(i) == i.op = "LABEL" /\ i.args[1].name \notin seen

Keep ==
  /\ phase = "unlink" /\ curr <= Len(code)
  /\ ~IsDeadLabel(code[curr])
  /\ curr' = curr + 1
  /\ UNCHANGED <<in, code, seen, phase>>

Unlink ==
  /\ phase = "unlink" /\ curr <= Len(code)
  /\ IsDeadLabel(code[curr])
  /\ code' = SubSeq(code, 1, curr - 1) \o SubSeq(code, curr + 1, Len(code))
  /\ UNCHANGED <<in, seen, curr, phase>>

Finish ==
  /\ phase = "unlink" /\ curr > Len(code)
  /\ phase' = "done"
  /\ UNCHANGED <<in, code, seen, curr>>

Next == Mark \/ StartUnlinking \/ Keep \/ Unlink \/ Finish

Spec == Init /\ [][Next]_vars /\ WF_vars(Next)
-----------------------------------------------------------------------------
(* Properties *)

LabelsIn(instructions) ==
  {instructions[k].args[1].name :
     k \in {j \in DOMAIN instructions : instructions[j].op = "LABEL"}}
JumpedToIn(instructions) ==
  UNION {JumpedTo(instructions[k]) : k \in DOMAIN instructions}

\* The type invariant; marks stay inside the array of nextId entries that
\* calloc gave.
TypeOK ==
  /\ Len(code) <= Len(in.code)
  /\ seen \subseteq 0 .. in.maxLabels - 1
  /\ curr \in 1 .. Len(in.code) + 1
  /\ phase \in {"mark", "unlink", "done"}

\* At no moment does a jump of the function, or a table of the file that lists
\* a label of the function, lose its label.
TargetsKept ==
  LabelsIn(in.code) \cap (JumpedToIn(in.code) \cup DataLabels(in.tables))
    \subseteq LabelsIn(code)

\* When the pass is done no other label is left.
OthersRemoved ==
  phase = "done" => LabelsIn(code) \subseteq JumpedToIn(in.code) \cup DataLabels(in.tables)
=============================================================================
