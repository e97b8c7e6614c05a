---------------------------- MODULE MCValidation ----------------------------
(***************************************************************************)
(* Validation of every operator with every combination of a few operands:  *)
(* temporaries of each kind, constants, a label that is a block's and one  *)
(* that is not, data, and a register of each kind.                         *)
(***************************************************************************)
EXTENDS Validation

MCLabels == {1}   \* 2 is the label of no block

Temps ==
  {Temp(1, 8, "GP"), Temp(1, 4, "GP"), Temp(2, 8, "FP"), Temp(3, 24, "MEM"), Temp(4, 8, "MEM")}
Others ==
  {Const(Word(8), 8), Const(Word(8), 1), Local(2), Global(7), Reg("rax", 8), Reg("xmm0", 8)}
Wide8  == {o \in Temps \union Others : o.size = 8 /\ o.kind # "REG"}

ArgumentsOf(op) ==
  LET values == IF op \in Triples \union Shifts \union IntegerOrders \union FloatOrders THEN Wide8 ELSE Temps \union Others
      targets == {Local(1), Local(2)}
      n == ArityOf(op)  t == TargetsOf(op)
  IN IF n - t <= 1
     THEN {[k \in 1..n |-> IF k <= t THEN target ELSE v] : target \in targets, v \in values}
     ELSE {[k \in 1..n |-> IF k <= t THEN Local(1) ELSE f[k - t]] : f \in [1..(n - t) -> values]}

Every == [op \in Operators |-> ArgumentsOf(op)]
Uses  == [op \in {"VOLATILE"} |-> {<<o>> : o \in Temps}]
Define(o) == [op \in {"UNINITIALIZED"} |-> {<<o>>}]

\* copies of whole temporaries and of parts of them
Copies == [op \in {"UNINITIALIZED", "MOVE", "OFFSET_STORE", "OFFSET_LOAD"} |->
             {[k \in 1..ArityOf(op) |-> IF k = 3 THEN Const(Word(8), 8) ELSE f[k]] : f \in [1..2 -> Temps]}]

\* Nothing is defined, or each temporary is, number 1 with one of its two sizes;
\* then comes any instruction, then a use. Or some copies, then a use.
MCListings ==
  << <<Every, Uses>>,
     << Define(Temp(1, 8, "GP")), Define(Temp(2, 8, "FP")), Define(Temp(3, 24, "MEM")),
        Define(Temp(4, 8, "MEM")), Every, Uses >>,
     <<Copies, Copies, Copies, Uses>> >>
=============================================================================
