---------------------------- MODULE MCDeadBlocks ----------------------------
(* DeadBlocks on every small function, of whatever blocks. *)
EXTENDS DeadBlocks

\* The value of an assignment that is also a condition: one operand held by
\* the instruction that stores it and by the jump that tests it.
Shared == Named(Temp(7), 1)

\* Three blocks, labelled 1 to 3, with every kind of last instruction; no
\* block has label 4.
Lasts == {JUMP(l) : l \in {1, 2, 4}}
         \cup {RETURN, JUMPTABLE(Temp(6), 8), BJUMP("J2Z", 3, 2, Shared),
               BJUMP("J2NZ", 1, 3, Temp(6))}

\* The table lists one label, labels of this function and of another one
\* (4, which is also where a jump without a block leads), or none.
Tables == {[n \in {8} |-> list] : list \in {<<3>>, <<2, 4>>, << >>}}

\* One of the blocks, or none (0), stores the shared operand.
MCInputs ==
  {[blocks |-> [l \in 1 .. 3 |->
                  BLOCK(l, IF l = holder THEN <<MOVE(Temp(5), Shared), lasts[l]>>
                                         ELSE <<lasts[l]>>)],
    tables |-> tables,
    freed |-> {}] :
     lasts \in [1 .. 3 -> Lasts], tables \in Tables, holder \in 0 .. 3}

\* The hypothesis of the theorems holds of these functions.
ASSUME InputsOK
=============================================================================
