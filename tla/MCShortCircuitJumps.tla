------------------------ MODULE MCShortCircuitJumps ------------------------
(* ShortCircuitJumps on every small function, of whatever blocks. *)
EXTENDS ShortCircuitJumps

\* A block does something or nothing before its last instruction.
Block(l, busy, last) ==
  BLOCK(l, IF busy THEN <<CALL(Global(1)), last>> ELSE <<last>>)

\* Three blocks, labelled 1 to 3, with every kind of last instruction; no
\* block has label 4.
Lasts == {JUMP(l) : l \in 1 .. 4} \cup {RETURN, JUMPTABLE(Temp(7), 8)}
         \cup {BJUMP("J2Z", l, 3, Temp(7)) : l \in {1, 4}}
Mixed ==
  {[l \in 1 .. 3 |-> Block(l, busy[l], lasts[l])] :
     busy \in [1 .. 3 -> BOOLEAN], lasts \in [1 .. 3 -> Lasts]}

\* Four blocks that only jump, or return: chains of any shape and order.
Chains ==
  {[l \in 1 .. 4 |-> Block(l, FALSE, lasts[l])] :
     lasts \in [1 .. 4 -> {JUMP(l) : l \in 1 .. 4} \cup {RETURN}]}

MCInputs == Mixed \cup Chains

\* The hypothesis of the theorems holds of these functions.
ASSUME InputsOK
=============================================================================
