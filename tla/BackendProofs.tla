----------------------------- MODULE BackendProofs -----------------------------
(***************************************************************************)
(* Proofs about what the back end hands on: IR that validation accepts,    *)
(* and machine code that the assembler accepts.                            *)
(*                                                                         *)
(* The first half is about IR validation, for every list of listings of    *)
(* instructions with operands of ir.h's kinds, whatever their number, and  *)
(* for every set of labels.  The invariant VInv adds to the three          *)
(* properties what the validator's table of temporaries holds: each entry  *)
(* is an argument that some instruction recorded, and, as long as nothing  *)
(* was refused, every temporary that was written has an entry it agrees    *)
(* with.  The proof goes from the operators to the steps.  Covered: the    *)
(* checks of every operator look at the arguments ir.h says it reads,      *)
(* record those it writes and resolve its labels.  CheckFacts: so          *)
(* validating one instruction leaves the table and the verdict the         *)
(* invariant speaks of.  The lemmas whose names end in Works: each arm of  *)
(* the selector gives instructions, for the operands its checks let        *)
(* through.                                                                *)
(*                                                                         *)
(* The second half is about instruction selection, for all sizes of        *)
(* operands and all constants: the lemmas whose names end in Takes say     *)
(* when one machine instruction can be encoded, those in Accepted when the *)
(* code of one arm of the selector can, and ConsideredAccepted that this   *)
(* is so exactly for the operands Unencodable leaves over.                 *)
(***************************************************************************)
EXTENDS Validation, Selection, TLAPS

-----------------------------------------------------------------------------
\* Lists of checks: the places of a list written out, and what it holds

\* A list of one check has one place.
LEMMA One ==
  ASSUME NEW a
  PROVE  DOMAIN <<a>> = 1..1 /\ ToSet(<<a>>) = {a}
BY DEF ToSet

\* A list of two checks has two places.
LEMMA Two ==
  ASSUME NEW a, NEW b
  PROVE  DOMAIN <<a, b>> = 1..2 /\ ToSet(<<a, b>>) = {a, b}
BY DEF ToSet

\* A list of three checks has three places.
LEMMA Three ==
  ASSUME NEW a, NEW b, NEW c
  PROVE  DOMAIN <<a, b, c>> = 1..3 /\ ToSet(<<a, b, c>>) = {a, b, c}
BY DEF ToSet

\* A list of four checks has four places.
LEMMA Four ==
  ASSUME NEW a, NEW b, NEW c, NEW d
  PROVE  DOMAIN <<a, b, c, d>> = 1..4 /\ ToSet(<<a, b, c, d>>) = {a, b, c, d}
BY DEF ToSet

\* A list of five checks has five places.
LEMMA Five ==
  ASSUME NEW a, NEW b, NEW c, NEW d, NEW e
  PROVE  DOMAIN <<a, b, c, d, e>> = 1..5 /\ ToSet(<<a, b, c, d, e>>) = {a, b, c, d, e}
BY DEF ToSet

\* A list of six checks has six places.
LEMMA Six ==
  ASSUME NEW a, NEW b, NEW c, NEW d, NEW e, NEW f
  PROVE  DOMAIN <<a, b, c, d, e, f>> = 1..6 /\ ToSet(<<a, b, c, d, e, f>>) = {a, b, c, d, e, f}
BY DEF ToSet

\* A list of seven checks has seven places.
LEMMA Seven ==
  ASSUME NEW a, NEW b, NEW c, NEW d, NEW e, NEW f, NEW g
  PROVE  DOMAIN <<a, b, c, d, e, f, g>> = 1..7 /\ ToSet(<<a, b, c, d, e, f, g>>) = {a, b, c, d, e, f, g}
BY DEF ToSet

-----------------------------------------------------------------------------
\* What the checks of an operator are about

\* the arguments that end up in the table
Recording(op) == WrittenArgs(op) \union (IF op = "OFFSET_LOAD" THEN {2} ELSE {})
\* the argument a check compares with the table, and the one it leaves no unknown label in
Reads(c) ==
  IF c[1] \in {"temp read", "read", "read no label", "pointer", "offset", "byte", "call target"} THEN {c[2]} ELSE {}
Resolves(c) ==
  IF c[1] \in {"target", "read", "pointer", "call target", "temp", "temp read", "temp written"} THEN {c[2]} ELSE {}
\* the operators whose labels are let by
Unresolved(op) ==
  op \in {"JUMPTABLE", "LABEL", "FNEG", "F2I", "FRESIZE"} \union FloatBinops \union FloatOrders
         \union FloatJumps1 \union FloatJumps2

\* what one check records, reads and resolves, and what the checks of an operator do together
Kind(c, recorded, reads, resolves) == RecordedArg(c) = recorded /\ Reads(c) = reads /\ Resolves(c) = resolves

Facts(op, checks) ==
  /\ \A c \in checks : RecordedArg(c) \in {0} \union Recording(op)
  /\ \A k \in WrittenArgs(op) : \E c \in checks : RecordedArg(c) = k /\ c[2] = k
  /\ op # "JUMPTABLE" => \A k \in ReadArgs(op) \ Recording(op) : \E c \in checks : k \in Reads(c)
  /\ ~Unresolved(op) => \A k \in 1..ArityOf(op) \ WrittenArgs(op) :
       \/ \E c \in checks : k \in Resolves(c)
       \/ Offset(k) \in checks \/ Byte(k) \in checks

\* the sets of operators are expanded throughout
USE DEF IntegerBinops, FloatBinops, Shifts, IntegerOrders, FloatOrders, TwoTargets, OneTarget, Jumps1, Jumps2,
        FloatJumps1, FloatJumps2

\* What each check of irValidation.c records, reads and resolves.
LEMMA Kinds ==
  /\ GpWritten[2] = 1 /\ FpWritten[2] = 1 /\ ByteWritten[2] = 1 /\ PointerWritten[2] = 1
  /\ \A k : Written(k)[2] = k /\ TempWritten(k)[2] = k /\ PartWritten(k)[2] = k
  /\ \A k : Kind(Written(k), 1, {}, {})
  /\ Kind(GpWritten, 1, {}, {})
  /\ Kind(FpWritten, 1, {}, {})
  /\ Kind(ByteWritten, 1, {}, {})
  /\ Kind(PointerWritten, 1, {}, {})
  /\ \A k : Kind(TempWritten(k), k, {}, {k})
  /\ \A k : Kind(PartWritten(k), k, {}, {k})
  /\ \A k : Kind(TempRead(k), 0, {k}, {k})
  /\ \A k : Kind(Addressed(k), 0, {k}, {k})
  /\ \A k : Kind(Read(k), 0, {k}, {k})
  /\ \A k : Kind(GpRead(k), 0, {k}, {k})
  /\ \A k : Kind(FpTest(k), 0, {k}, {k})
  /\ \A k : Kind(FpRead(k), 0, {k}, {})
  /\ \A k : Kind(PointerTo(k), 0, {k}, {k})
  /\ \A k : Kind(Offset(k), 0, {k}, {})
  /\ \A k : Kind(Byte(k), 0, {k}, {})
  /\ \A k : Kind(CallTarget(k), 0, {k}, {k})
  /\ \A k : Kind(Label(k), 0, {}, {})
  /\ Kind(Table, 0, {}, {1})
  /\ \A k : Kind(Target(k), 0, {}, {k})
  /\ \A j, k : Kind(Pair(j, k), 0, {}, {})
  /\ Kind(Triple, 0, {}, {})
  /\ Kind(Blocked, 0, {}, {})
  /\ Kind(Scheduled, 0, {}, {})
  /\ Kind(Terminal, 0, {}, {})
  /\ \A j, k : Kind(Smaller(j, k), 0, {}, {})
  /\ \A j, k : Kind(OtherSize(j, k), 0, {}, {})
BY DEF Kind, RecordedArg, Reads, Resolves, Written, GpWritten, FpWritten, ByteWritten, PointerWritten, TempWritten,
       PartWritten, TempRead, Addressed, Read, GpRead, FpTest, FpRead, PointerTo, Offset, Byte, CallTarget, Label,
       Table, Target, Pair, Triple, Blocked, Scheduled, Terminal, Smaller, OtherSize

\* The checks of an operator cover its arguments: they record no others than those of
\* Recording, and leave none of those ir.h says are read, or that may be labels, unlooked at.
LEMMA Covered ==
  ASSUME NEW op \in Operators
  PROVE  Facts(op, ToSet(ChecksOf(op)))
<1>1. CASE op = "LABEL"
  <2>1. ToSet(ChecksOf(op)) = {Label(1), Scheduled}
    BY <1>1, Two DEF ChecksOf, PseudoChecks
  <2> QED
    BY <1>1, <2>1, Kinds DEF Kind, Facts, Recording, Unresolved, WrittenArgs, ReadArgs, ArityOf, TargetsOf, Triples
<1>2. CASE op = "VOLATILE"
  <2>1. ToSet(ChecksOf(op)) = {TempRead(1)}
    BY <1>2, One DEF ChecksOf, PseudoChecks
  <2> QED
    BY <1>2, <2>1, Kinds DEF Kind, Facts, Recording, Unresolved, WrittenArgs, ReadArgs, ArityOf, TargetsOf, Triples
<1>3. CASE op = "UNINITIALIZED"
  <2>1. ToSet(ChecksOf(op)) = {TempWritten(1)}
    BY <1>3, One DEF ChecksOf, PseudoChecks
  <2> QED
    BY <1>3, <2>1, Kinds DEF Kind, Facts, Recording, Unresolved, WrittenArgs, ReadArgs, ArityOf, TargetsOf, Triples
<1>4. CASE op = "ADDROF"
  <2>1. ToSet(ChecksOf(op)) = {PointerWritten, Addressed(2)}
    BY <1>4, Two DEF ChecksOf, PseudoChecks
  <2> QED
    BY <1>4, <2>1, Kinds DEF Kind, Facts, Recording, Unresolved, WrittenArgs, ReadArgs, ArityOf, TargetsOf, Triples
<1>5. CASE op = "NOP"
  <2>1. ToSet(ChecksOf(op)) = {}
    BY <1>5 DEF ChecksOf, PseudoChecks, ToSet
  <2> QED
    BY <1>5, <2>1, Kinds DEF Kind, Facts, Recording, Unresolved, WrittenArgs, ReadArgs, ArityOf, TargetsOf, Triples
<1>6. CASE op = "MOVE"
  <2>1. ToSet(ChecksOf(op)) = {Written(1), Read(2), Pair(1, 2)}
    BY <1>6, Three DEF ChecksOf, MoveChecks
  <2> QED
    BY <1>6, <2>1, Kinds DEF Kind, Facts, Recording, Unresolved, WrittenArgs, ReadArgs, ArityOf, TargetsOf, Triples
<1>7. CASE op = "MEM_STORE"
  <2>1. ToSet(ChecksOf(op)) = {PointerTo(1), Read(2), Offset(3)}
    BY <1>7, Three DEF ChecksOf, MoveChecks
  <2>2. WrittenArgs(op) = {} /\ ReadArgs(op) = {1, 2, 3} /\ ArityOf(op) = 3
    BY <1>7 DEF WrittenArgs, ReadArgs, ArityOf, TargetsOf, Triples
  <2>3. Offset(3) \in ToSet(ChecksOf(op)) /\ \A k \in {1, 2} \ WrittenArgs(op) : \E c \in ToSet(ChecksOf(op)) : k \in Resolves(c)
    BY <2>1, <2>2, Kinds DEF Kind
  <2>4. 1..ArityOf(op) = {1, 2, 3}
    BY <2>2
  <2> QED
    BY <1>7, <2>1, <2>2, <2>3, <2>4, Kinds DEF Kind, Facts, Recording
<1>8. CASE op = "MEM_LOAD"
  <2>1. ToSet(ChecksOf(op)) = {Written(1), PointerTo(2), Offset(3)}
    BY <1>8, Three DEF ChecksOf, MoveChecks
  <2>2. WrittenArgs(op) = {1} /\ ReadArgs(op) = {2, 3} /\ ArityOf(op) = 3
    BY <1>8 DEF WrittenArgs, ReadArgs, ArityOf, TargetsOf, Triples
  <2>3. Offset(3) \in ToSet(ChecksOf(op)) /\ \A k \in {1, 2} \ WrittenArgs(op) : \E c \in ToSet(ChecksOf(op)) : k \in Resolves(c)
    BY <2>1, <2>2, Kinds DEF Kind
  <2>4. 1..ArityOf(op) = {1, 2, 3}
    BY <2>2
  <2> QED
    BY <1>8, <2>1, <2>2, <2>3, <2>4, Kinds DEF Kind, Facts, Recording
<1>9. CASE op = "STK_STORE"
  <2>1. ToSet(ChecksOf(op)) = {Offset(1), Read(2)}
    BY <1>9, Two DEF ChecksOf, MoveChecks
  <2> QED
    BY <1>9, <2>1, Kinds DEF Kind, Facts, Recording, Unresolved, WrittenArgs, ReadArgs, ArityOf, TargetsOf, Triples
<1>10. CASE op = "STK_LOAD"
  <2>1. ToSet(ChecksOf(op)) = {Written(1), Offset(2)}
    BY <1>10, Two DEF ChecksOf, MoveChecks
  <2> QED
    BY <1>10, <2>1, Kinds DEF Kind, Facts, Recording, Unresolved, WrittenArgs, ReadArgs, ArityOf, TargetsOf, Triples
<1>11. CASE op = "OFFSET_STORE"
  <2>1. ToSet(ChecksOf(op)) = {PartWritten(1), Read(2), Offset(3)}
    BY <1>11, Three DEF ChecksOf, MoveChecks
  <2> QED
    BY <1>11, <2>1, Kinds DEF Kind, Facts, Recording, Unresolved, WrittenArgs, ReadArgs, ArityOf, TargetsOf, Triples
<1>12. CASE op = "OFFSET_LOAD"
  <2>1. ToSet(ChecksOf(op)) = {Written(1), PartWritten(2), Offset(3)}
    BY <1>12, Three DEF ChecksOf, MoveChecks
  <2> QED
    BY <1>12, <2>1, Kinds DEF Kind, Facts, Recording, Unresolved, WrittenArgs, ReadArgs, ArityOf, TargetsOf, Triples
<1>13. CASE op \in IntegerBinops
  <2>1. ToSet(ChecksOf(op)) = {GpWritten, GpRead(2), GpRead(3), Triple}
    BY <1>13, Four DEF ChecksOf, ArithmeticChecks
  <2> QED
    BY <1>13, <2>1, Kinds DEF Kind, Facts, Recording, Unresolved, WrittenArgs, ReadArgs, ArityOf, TargetsOf, Triples
<1>14. CASE op \in FloatBinops
  <2>1. ToSet(ChecksOf(op)) = {FpWritten, FpRead(2), FpRead(3), Triple}
    BY <1>14, Four DEF ChecksOf, ArithmeticChecks
  <2> QED
    BY <1>14, <2>1, Kinds DEF Kind, Facts, Recording, Unresolved, WrittenArgs, ReadArgs, ArityOf, TargetsOf, Triples
<1>15. CASE op \in {"NEG", "NOT"}
  <2>1. ToSet(ChecksOf(op)) = {GpWritten, GpRead(2), Pair(1, 2)}
    BY <1>15, Three DEF ChecksOf, ArithmeticChecks
  <2> QED
    BY <1>15, <2>1, Kinds DEF Kind, Facts, Recording, Unresolved, WrittenArgs, ReadArgs, ArityOf, TargetsOf, Triples
<1>16. CASE op = "FNEG"
  <2>1. ToSet(ChecksOf(op)) = {FpWritten, FpRead(2), Pair(1, 2)}
    BY <1>16, Three DEF ChecksOf, ArithmeticChecks
  <2> QED
    BY <1>16, <2>1, Kinds DEF Kind, Facts, Recording, Unresolved, WrittenArgs, ReadArgs, ArityOf, TargetsOf, Triples
<1>17. CASE op \in Shifts
  <2>1. ToSet(ChecksOf(op)) = {GpWritten, GpRead(2), Byte(3), Pair(1, 2)}
    BY <1>17, Four DEF ChecksOf, ArithmeticChecks
  <2> QED
    BY <1>17, <2>1, Kinds DEF Kind, Facts, Recording, Unresolved, WrittenArgs, ReadArgs, ArityOf, TargetsOf, Triples
<1>18. CASE op \in IntegerOrders
  <2>1. ToSet(ChecksOf(op)) = {ByteWritten, GpRead(2), GpRead(3), Pair(2, 3)}
    BY <1>18, Four DEF ChecksOf, TestChecks
  <2> QED
    BY <1>18, <2>1, Kinds DEF Kind, Facts, Recording, Unresolved, WrittenArgs, ReadArgs, ArityOf, TargetsOf, Triples
<1>19. CASE op \in FloatOrders
  <2>1. ToSet(ChecksOf(op)) = {ByteWritten, FpRead(2), FpRead(3), Pair(2, 3)}
    BY <1>19, Four DEF ChecksOf, TestChecks
  <2> QED
    BY <1>19, <2>1, Kinds DEF Kind, Facts, Recording, Unresolved, WrittenArgs, ReadArgs, ArityOf, TargetsOf, Triples
<1>20. CASE op \in {"Z", "NZ"}
  <2>1. ToSet(ChecksOf(op)) = {ByteWritten, GpRead(2)}
    BY <1>20, Two DEF ChecksOf, TestChecks
  <2> QED
    BY <1>20, <2>1, Kinds DEF Kind, Facts, Recording, Unresolved, WrittenArgs, ReadArgs, ArityOf, TargetsOf, Triples
<1>21. CASE op \in {"FZ", "FNZ"}
  <2>1. ToSet(ChecksOf(op)) = {ByteWritten, FpTest(2)}
    BY <1>21, Two DEF ChecksOf, TestChecks
  <2> QED
    BY <1>21, <2>1, Kinds DEF Kind, Facts, Recording, Unresolved, WrittenArgs, ReadArgs, ArityOf, TargetsOf, Triples
<1>22. CASE op = "LNOT"
  <2>1. ToSet(ChecksOf(op)) = {ByteWritten, Byte(2)}
    BY <1>22, Two DEF ChecksOf, TestChecks
  <2> QED
    BY <1>22, <2>1, Kinds DEF Kind, Facts, Recording, Unresolved, WrittenArgs, ReadArgs, ArityOf, TargetsOf, Triples
<1>23. CASE op \in {"SX", "ZX"}
  <2>1. ToSet(ChecksOf(op)) = {GpWritten, GpRead(2), Smaller(2, 1)}
    BY <1>23, Three DEF ChecksOf, ConversionChecks
  <2> QED
    BY <1>23, <2>1, Kinds DEF Kind, Facts, Recording, Unresolved, WrittenArgs, ReadArgs, ArityOf, TargetsOf, Triples
<1>24. CASE op = "TRUNC"
  <2>1. ToSet(ChecksOf(op)) = {GpWritten, GpRead(2), Smaller(1, 2)}
    BY <1>24, Three DEF ChecksOf, ConversionChecks
  <2> QED
    BY <1>24, <2>1, Kinds DEF Kind, Facts, Recording, Unresolved, WrittenArgs, ReadArgs, ArityOf, TargetsOf, Triples
<1>25. CASE op \in {"U2F", "S2F"}
  <2>1. ToSet(ChecksOf(op)) = {FpWritten, GpRead(2)}
    BY <1>25, Two DEF ChecksOf, ConversionChecks
  <2> QED
    BY <1>25, <2>1, Kinds DEF Kind, Facts, Recording, Unresolved, WrittenArgs, ReadArgs, ArityOf, TargetsOf, Triples
<1>26. CASE op = "FRESIZE"
  <2>1. ToSet(ChecksOf(op)) = {FpWritten, FpRead(2), OtherSize(1, 2)}
    BY <1>26, Three DEF ChecksOf, ConversionChecks
  <2> QED
    BY <1>26, <2>1, Kinds DEF Kind, Facts, Recording, Unresolved, WrittenArgs, ReadArgs, ArityOf, TargetsOf, Triples
<1>27. CASE op = "F2I"
  <2>1. ToSet(ChecksOf(op)) = {GpWritten, FpRead(2)}
    BY <1>27, Two DEF ChecksOf, ConversionChecks
  <2> QED
    BY <1>27, <2>1, Kinds DEF Kind, Facts, Recording, Unresolved, WrittenArgs, ReadArgs, ArityOf, TargetsOf, Triples
<1>28. CASE op = "JUMP"
  <2>1. ToSet(ChecksOf(op)) = {Target(1), Terminal}
    BY <1>28, Two DEF ChecksOf, JumpChecks
  <2> QED
    BY <1>28, <2>1, Kinds DEF Kind, Facts, Recording, Unresolved, WrittenArgs, ReadArgs, ArityOf, TargetsOf, Triples
<1>29. CASE op = "JUMPTABLE"
  <2>1. ToSet(ChecksOf(op)) = {Table, Label(2), Terminal}
    BY <1>29, Three DEF ChecksOf, JumpChecks
  <2> QED
    BY <1>29, <2>1, Kinds DEF Kind, Facts, Recording, Unresolved, WrittenArgs, ReadArgs, ArityOf, TargetsOf, Triples
<1>30. CASE op \in Jumps2
  <2>1. ToSet(ChecksOf(op)) = {Target(1), Target(2), GpRead(3), GpRead(4), Pair(3, 4), Terminal, Blocked}
    BY <1>30, Seven DEF ChecksOf, JumpChecks
  <2> QED
    BY <1>30, <2>1, Kinds DEF Kind, Facts, Recording, Unresolved, WrittenArgs, ReadArgs, ArityOf, TargetsOf, Triples
<1>31. CASE op \in FloatJumps2
  <2>1. ToSet(ChecksOf(op)) = {Target(1), Target(2), FpRead(3), FpRead(4), Pair(3, 4), Terminal, Blocked}
    BY <1>31, Seven DEF ChecksOf, JumpChecks
  <2> QED
    BY <1>31, <2>1, Kinds DEF Kind, Facts, Recording, Unresolved, WrittenArgs, ReadArgs, ArityOf, TargetsOf, Triples
<1>32. CASE op \in {"J2Z", "J2NZ"}
  <2>1. ToSet(ChecksOf(op)) = {Target(1), Target(2), GpRead(3), Terminal, Blocked}
    BY <1>32, Five DEF ChecksOf, JumpChecks
  <2> QED
    BY <1>32, <2>1, Kinds DEF Kind, Facts, Recording, Unresolved, WrittenArgs, ReadArgs, ArityOf, TargetsOf, Triples
<1>33. CASE op \in {"J2FZ", "J2FNZ"}
  <2>1. ToSet(ChecksOf(op)) = {Target(1), Target(2), FpTest(3), Terminal, Blocked}
    BY <1>33, Five DEF ChecksOf, JumpChecks
  <2> QED
    BY <1>33, <2>1, Kinds DEF Kind, Facts, Recording, Unresolved, WrittenArgs, ReadArgs, ArityOf, TargetsOf, Triples
<1>34. CASE op \in Jumps1
  <2>1. ToSet(ChecksOf(op)) = {Target(1), GpRead(2), GpRead(3), Pair(2, 3), Scheduled}
    BY <1>34, Five DEF ChecksOf, JumpChecks
  <2> QED
    BY <1>34, <2>1, Kinds DEF Kind, Facts, Recording, Unresolved, WrittenArgs, ReadArgs, ArityOf, TargetsOf, Triples
<1>35. CASE op \in FloatJumps1
  <2>1. ToSet(ChecksOf(op)) = {Target(1), FpRead(2), FpRead(3), Pair(2, 3), Scheduled}
    BY <1>35, Five DEF ChecksOf, JumpChecks
  <2> QED
    BY <1>35, <2>1, Kinds DEF Kind, Facts, Recording, Unresolved, WrittenArgs, ReadArgs, ArityOf, TargetsOf, Triples
<1>36. CASE op \in {"J1Z", "J1NZ"}
  <2>1. ToSet(ChecksOf(op)) = {Target(1), GpRead(2), Scheduled}
    BY <1>36, Three DEF ChecksOf, JumpChecks
  <2> QED
    BY <1>36, <2>1, Kinds DEF Kind, Facts, Recording, Unresolved, WrittenArgs, ReadArgs, ArityOf, TargetsOf, Triples
<1>37. CASE op \in {"J1FZ", "J1FNZ"}
  <2>1. ToSet(ChecksOf(op)) = {Target(1), FpTest(2), Scheduled}
    BY <1>37, Three DEF ChecksOf, JumpChecks
  <2> QED
    BY <1>37, <2>1, Kinds DEF Kind, Facts, Recording, Unresolved, WrittenArgs, ReadArgs, ArityOf, TargetsOf, Triples
<1>38. CASE op = "CALL"
  <2>1. ToSet(ChecksOf(op)) = {CallTarget(1)}
    BY <1>38, One DEF ChecksOf, JumpChecks
  <2> QED
    BY <1>38, <2>1, Kinds DEF Kind, Facts, Recording, Unresolved, WrittenArgs, ReadArgs, ArityOf, TargetsOf, Triples
<1>39. CASE op = "RETURN"
  <2>1. ToSet(ChecksOf(op)) = {Terminal}
    BY <1>39, One DEF ChecksOf, JumpChecks
  <2> QED
    BY <1>39, <2>1, Kinds DEF Kind, Facts, Recording, Unresolved, WrittenArgs, ReadArgs, ArityOf, TargetsOf, Triples
<1> QED
  BY <1>1, <1>2, <1>3, <1>4, <1>5, <1>6, <1>7, <1>8, <1>9, <1>10, <1>11, <1>12, <1>13, <1>14, <1>15, <1>16, <1>17,
     <1>18, <1>19, <1>20, <1>21, <1>22, <1>23, <1>24, <1>25, <1>26, <1>27, <1>28, <1>29, <1>30, <1>31, <1>32, <1>33,
     <1>34, <1>35, <1>36, <1>37, <1>38, <1>39 DEF Operators

-----------------------------------------------------------------------------
\* One check, and one instruction

\* A table after some arguments were recorded: what was known stays, and what is new is an
\* argument that was recorded.
LEMMA KnownFacts ==
  ASSUME NEW i, NEW temps, NEW args \in SUBSET {0, 1, 2}
  PROVE  LET known == Known(args, i, temps) IN
         /\ \A n \in DOMAIN temps : n \in DOMAIN known /\ known[n] = temps[n]
         /\ \A n \in DOMAIN known \ DOMAIN temps :
              \E k \in args \ {0} : isTemp(i.args[k]) /\ known[n] = i.args[k] /\ i.args[k].name = n
         /\ \A k \in args \ {0} : isTemp(i.args[k]) => i.args[k].name \in DOMAIN known
         /\ 1 \in args /\ isTemp(i.args[1]) /\ i.args[1].name \notin DOMAIN temps =>
              known[i.args[1].name] = i.args[1]
<1> DEFINE known == Known(args, i, temps)
           new == {k \in args \ {0} : isTemp(i.args[k])}
           The(n) == CHOOSE k \in new : /\ i.args[k].name = n
                                       /\ \A j \in new : i.args[j].name = n => k <= j
<1>1. known = [n \in DOMAIN temps \union {i.args[k].name : k \in new} |->
                 IF n \in DOMAIN temps THEN temps[n] ELSE i.args[The(n)]]
  BY DEF Known
<1>2. ASSUME NEW n \in {i.args[k].name : k \in new}
      PROVE  /\ The(n) \in new /\ i.args[The(n)].name = n
             /\ 1 \in new /\ i.args[1].name = n => The(n) = 1
  <2>1. \E k \in new : i.args[k].name = n /\ \A j \in new : i.args[j].name = n => k <= j
    <3>1. CASE 1 \in new /\ i.args[1].name = n
      BY <3>1
    <3>2. CASE ~(1 \in new /\ i.args[1].name = n)
      <4>1. 2 \in new /\ i.args[2].name = n
        BY <3>2
      <4> QED
        BY <3>2, <4>1
    <3> QED
      BY <3>1, <3>2
  <2>2. /\ The(n) \in new /\ i.args[The(n)].name = n
        /\ \A j \in new : i.args[j].name = n => The(n) <= j
    BY <2>1
  <2> HIDE DEF The
  <2>3. The(n) \in {1, 2}
    BY <2>2
  <2> QED
    BY <2>2, <2>3
<1> HIDE DEF The
<1>3. \A n \in DOMAIN temps : n \in DOMAIN known /\ known[n] = temps[n]
  BY <1>1
<1>4. ASSUME NEW n \in DOMAIN known \ DOMAIN temps
      PROVE  \E k \in args \ {0} : isTemp(i.args[k]) /\ known[n] = i.args[k] /\ i.args[k].name = n
  BY <1>1, <1>2
<1>5. \A k \in args \ {0} : isTemp(i.args[k]) => i.args[k].name \in DOMAIN known
  BY <1>1
<1>6. 1 \in args /\ isTemp(i.args[1]) /\ i.args[1].name \notin DOMAIN temps => known[i.args[1].name] = i.args[1]
  BY <1>1, <1>2
<1> QED
  BY <1>3, <1>4, <1>5, <1>6

\* What a check that passes says of the arguments it reads, records and resolves.
LEMMA PassesFacts ==
  ASSUME NEW c, NEW i, NEW temps, NEW labels, NEW blocked, NEW last,
         Passes(c, i, temps, labels, blocked, last)
  PROVE  /\ \A k \in Reads(c) : isTemp(i.args[k]) => Readable(temps, i.args[k])
         /\ \A k \in Resolves(c) : isLocal(i.args[k]) => i.args[k].value[2] \in labels
         /\ RecordedArg(c) # 0 /\ isTemp(i.args[RecordedArg(c)]) => Writable(temps, i.args[RecordedArg(c)])
         /\ RecordedArg(c) # 0 => i.args[c[2]].kind \in {"REG", "TEMP"}
<1>1. CASE c[1] \in {"local", "target", "temp", "temp read"}
  BY <1>1 DEF Passes, Reads, Resolves, RecordedArg, isTemp, isLocal, isConst, Exists
<1>2. CASE c[1] \in {"temp written", "written", "byte written", "pointer written"}
  BY <1>2 DEF Passes, Reads, Resolves, RecordedArg, isTemp, isLocal, isConst
<1>3. CASE c[1] \in {"read", "read no label", "pointer", "offset", "byte", "call target"}
  BY <1>3 DEF Passes, Reads, Resolves, RecordedArg, ReadOnly, ReadOrNamed, Exists
<1>4. CASE c[1] \notin {"local", "target", "temp", "temp read", "temp written", "written", "byte written",
                       "pointer written", "read", "read no label", "pointer", "offset", "byte", "call target"}
  BY <1>4 DEF Reads, Resolves, RecordedArg
<1> QED
  BY <1>1, <1>2, <1>3, <1>4

\* The temporaries an instruction has recorded, and those all have.
Recordable(i) == {o \in {i.args[k] : k \in Recording(i.op)} : isTemp(o)}
Recorded == UNION {Recordable(checked[k]) : k \in 1..Len(checked)}
WrittenBy == UNION {Writes(checked[k]) : k \in 1..Len(checked)}

\* Everything that was written has an entry it agrees with.
Defines(temps, o) == o.name \in DOMAIN temps /\ Consistent(temps[o.name], o) /\ o.align <= 16

Typed ==
  /\ given \in DOMAIN Listings
  /\ checked \in Seq(ToSet(checked)) /\ \A i \in ToSet(checked) : IsInstruction(i)
  /\ state = [temps |-> state.temps, ok |-> state.ok] /\ state.ok \in BOOLEAN
  /\ \A n \in DOMAIN state.temps : state.temps[n] \in Recorded /\ state.temps[n].name = n
  /\ state.ok => \A o \in WrittenBy : Defines(state.temps, o)

VInv == Typed /\ ReadsDefined /\ LabelsResolved /\ AcceptedSelected

\* A temporary is the one of a table with its name if they agree.
LEMMA SameTemp ==
  ASSUME NEW o, NEW d, IsOperand(o), IsOperand(d), isTemp(o), isTemp(d), Consistent(d, o), d.name = o.name
  PROVE  d = o
BY DEF IsOperand, isTemp, Consistent, AlignedTemp, Reg, Const

\* Only the first two arguments are ever recorded, each because it is written or because
\* a part of it is loaded.
LEMMA RecordableFacts ==
  ASSUME NEW i, IsInstruction(i)
  PROVE  /\ Recording(i.op) \subseteq {1, 2} /\ Recording(i.op) \subseteq DOMAIN i.args
         /\ WrittenArgs(i.op) \subseteq Recording(i.op)
         /\ \A o \in Recordable(i) : isTemp(o) /\ IsOperand(o)
         /\ \A o \in Recordable(i) : o \in Writes(i) \/ (i.op = "OFFSET_LOAD" /\ o = i.args[2])
         /\ Writes(i) \subseteq Recordable(i)
         /\ ReadArgs(i.op) \subseteq DOMAIN i.args
<1>1. /\ WrittenArgs(i.op) \subseteq {1} /\ ArityOf(i.op) \in Nat /\ (i.op = "OFFSET_LOAD" => ArityOf(i.op) = 3)
      /\ WrittenArgs(i.op) # {} => ArityOf(i.op) >= 1
  BY DEF WrittenArgs, ArityOf, IsInstruction, Operators, Triples
<1>2. Recording(i.op) \subseteq {1, 2} /\ Recording(i.op) \subseteq DOMAIN i.args /\ WrittenArgs(i.op) \subseteq Recording(i.op)
  BY <1>1 DEF Recording, IsInstruction
<1>3. ReadArgs(i.op) \subseteq DOMAIN i.args
  BY <1>1 DEF ReadArgs, IsInstruction, ArityOf
<1> QED
  BY <1>2, <1>3 DEF Recordable, Writes, Recording, IsInstruction

\* What the listings offer are instructions.
LEMMA ListedInstruction ==
  ASSUME given \in DOMAIN Listings, NEW n \in DOMAIN Listings[given],
         NEW op \in DOMAIN Listings[given][n], NEW args \in Listings[given][n][op]
  PROVE  IsInstruction(Ins(op, args))
BY ListingsAssumption DEF ToSet

\* What was recorded are temporaries.
LEMMA RecordedFacts ==
  ASSUME Typed
  PROVE  \A o \in Recorded : isTemp(o) /\ IsOperand(o)
BY RecordableFacts DEF Typed, Recorded, ToSet

\* Every check of an instruction passes, with what was known when it was made.
AllPass(i) == \A c \in ToSet(ChecksOf(i.op)) : \E temps : Passes(c, i, temps, Labels, InBlock(i), TRUE)

\* What validating one instruction does to the table, and what it requires.
LEMMA CheckFacts ==
  ASSUME Typed, NEW i, IsInstruction(i), state' = Check(state, i)
  PROVE  /\ state' = [temps |-> state'.temps, ok |-> state'.ok] /\ state'.ok \in BOOLEAN
         /\ \A n \in DOMAIN state.temps : n \in DOMAIN state'.temps /\ state'.temps[n] = state.temps[n]
         /\ \A n \in DOMAIN state'.temps \ DOMAIN state.temps :
              state'.temps[n] \in Recordable(i) /\ state'.temps[n].name = n
         /\ \A o \in Recordable(i) : o.name \in DOMAIN state'.temps
         /\ state'.ok => \A o \in Writes(i) : Defines(state'.temps, o)
         /\ state'.ok /\ i.op # "JUMPTABLE" =>
              \A k \in ReadArgs(i.op) : isTemp(i.args[k]) => i.args[k] \in Recorded \union Recordable(i)
         /\ state'.ok /\ ~Unresolved(i.op) =>
              \A k \in DOMAIN i.args : isLocal(i.args[k]) =>
                i.args[k].value[2] \in Labels \/ {Offset(k), Byte(k)} \cap ToSet(ChecksOf(i.op)) # {}
         /\ state'.ok => AllPass(i)
<1> DEFINE checks == ChecksOf(i.op)
           by(places) == {RecordedArg(checks[m]) : m \in places}
           before(m) == Known(by({n \in DOMAIN checks : n < m}), i, state.temps)
           after == Known(by(DOMAIN checks), i, state.temps)
           fine == \A m \in DOMAIN checks : Passes(checks[m], i, before(m), Labels, InBlock(i), TRUE)
<1>1. Facts(i.op, ToSet(checks))
  BY Covered DEF IsInstruction
<1>2. /\ \A m \in DOMAIN checks : checks[m] \in ToSet(checks)
      /\ \A c \in ToSet(checks) : \E m \in DOMAIN checks : c = checks[m]
  BY DEF ToSet
<1>3. \A places \in SUBSET DOMAIN checks : by(places) \subseteq {0} \union Recording(i.op)
  BY <1>1, <1>2 DEF Facts
<1>4. Recording(i.op) \subseteq by(DOMAIN checks)
  <2>1. WrittenArgs(i.op) \subseteq by(DOMAIN checks)
    BY <1>1, <1>2 DEF Facts
  <2>2. i.op = "OFFSET_LOAD" => 2 \in by(DOMAIN checks)
    <3>1. SUFFICES ASSUME i.op = "OFFSET_LOAD" PROVE 2 \in by(DOMAIN checks)
      OBVIOUS
    <3>2. ToSet(checks) = {Written(1), PartWritten(2), Offset(3)}
      BY <3>1, Three DEF ChecksOf, MoveChecks
    <3> QED
      BY <1>2, <3>2, Kinds DEF Kind
  <2> QED
    BY <2>1, <2>2 DEF Recording
<1>5. state' = [temps |-> after, ok |-> (state.ok /\ fine) /\ ArchSpecific(i)]
  BY DEF Check, CheckInstruction
<1>6. ArchSpecific(i) \in BOOLEAN /\ fine \in BOOLEAN
  BY DEF ArchSpecific
<1>7. /\ state'.temps = after /\ state'.ok \in BOOLEAN /\ state' = [temps |-> state'.temps, ok |-> state'.ok]
      /\ state'.ok => ArchSpecific(i) /\ fine
  <2> HIDE DEF after, fine
  <2> QED
    BY <1>5, <1>6 DEF Typed
<1>8. Recording(i.op) \subseteq {1, 2}
  BY RecordableFacts
<1> HIDE DEF checks
<1>9. ASSUME NEW places \in SUBSET DOMAIN checks
      PROVE  LET known == Known(by(places), i, state.temps) IN
             /\ \A n \in DOMAIN state.temps : n \in DOMAIN known /\ known[n] = state.temps[n]
             /\ \A n \in DOMAIN known \ DOMAIN state.temps : known[n] \in Recordable(i) /\ known[n].name = n
             /\ \A k \in by(places) \ {0} : isTemp(i.args[k]) => i.args[k].name \in DOMAIN known
             /\ 1 \in by(places) /\ isTemp(i.args[1]) /\ i.args[1].name \notin DOMAIN state.temps =>
                  known[i.args[1].name] = i.args[1]
  <2>1. by(places) \subseteq {0, 1, 2} /\ by(places) \ {0} \subseteq Recording(i.op)
    BY <1>3, <1>8
  <2> HIDE DEF by
  <2> QED
    BY <2>1, KnownFacts DEF Recordable
<1>10. /\ \A n \in DOMAIN state.temps : n \in DOMAIN after /\ after[n] = state.temps[n]
       /\ \A n \in DOMAIN after \ DOMAIN state.temps : after[n] \in Recordable(i) /\ after[n].name = n
       /\ \A k \in by(DOMAIN checks) \ {0} : isTemp(i.args[k]) => i.args[k].name \in DOMAIN after
  BY <1>9
<1>11. \A o \in Recordable(i) : o.name \in DOMAIN after
  BY <1>4, <1>8, <1>10 DEF Recordable
<1>12. ASSUME NEW m \in DOMAIN checks, NEW n \in DOMAIN before(m)
       PROVE  /\ before(m)[n] \in Recorded \union Recordable(i) /\ before(m)[n].name = n
              /\ n \in DOMAIN state.temps => before(m)[n] = state.temps[n]
  <2>1. before(m) = Known(by({j \in DOMAIN checks : j < m}), i, state.temps)
    OBVIOUS
  <2>2. {j \in DOMAIN checks : j < m} \in SUBSET DOMAIN checks
    OBVIOUS
  <2> HIDE DEF before, by
  <2>3. /\ \A j \in DOMAIN state.temps : j \in DOMAIN before(m) /\ before(m)[j] = state.temps[j]
        /\ \A j \in DOMAIN before(m) \ DOMAIN state.temps : before(m)[j] \in Recordable(i) /\ before(m)[j].name = j
    BY <1>9, <2>1, <2>2
  <2> QED
    BY <2>3 DEF Typed
<1>13. ASSUME state'.ok, NEW o \in Writes(i)
       PROVE  Defines(after, o)
  <2>1. o = i.args[1] /\ 1 \in WrittenArgs(i.op) /\ isTemp(o) /\ 1 \in DOMAIN i.args
    BY RecordableFacts DEF Writes, WrittenArgs
  <2>2. PICK m \in DOMAIN checks : RecordedArg(checks[m]) = 1
    BY <1>1, <1>2, <2>1 DEF Facts
  <2>3. Writable(before(m), o)
    <3>1. Passes(checks[m], i, before(m), Labels, InBlock(i), TRUE)
      BY <1>7, <1>13
    <3> HIDE DEF before
    <3>2. isTemp(i.args[RecordedArg(checks[m])]) /\ RecordedArg(checks[m]) # 0
      BY <2>1, <2>2
    <3>3. Writable(before(m), i.args[RecordedArg(checks[m])])
      BY <3>1, <3>2, PassesFacts
    <3> QED
      BY <2>1, <2>2, <3>3
  <2>4. o.align <= 16
    BY <1>7, <1>13, <2>1 DEF ArchSpecific
  <2>5. CASE o.name \in DOMAIN state.temps
    <3>1. o.name \in DOMAIN before(m) /\ before(m)[o.name] = state.temps[o.name]
      <4>1. {j \in DOMAIN checks : j < m} \in SUBSET DOMAIN checks
        OBVIOUS
      <4> HIDE DEF by
      <4> QED
        BY <1>9, <2>5, <4>1
    <3>2. o.name \in DOMAIN after /\ after[o.name] = state.temps[o.name]
      <4> HIDE DEF after
      <4> QED
        BY <1>10, <2>5
    <3> HIDE DEF before, after
    <3> QED
      BY <2>3, <2>4, <3>1, <3>2 DEF Writable, Defines
  <2>6. CASE o.name \notin DOMAIN state.temps
    <3>1. o.name \in DOMAIN after /\ after[o.name] = o
      <4>1. 1 \in by(DOMAIN checks)
        BY <2>2
      <4> HIDE DEF by
      <4> QED
        BY <1>9, <2>1, <2>6, <4>1
    <3> HIDE DEF after
    <3> QED
      BY <2>4, <3>1 DEF Defines, Consistent
  <2> QED
    BY <2>5, <2>6
<1>14. ASSUME state'.ok, i.op # "JUMPTABLE", NEW k \in ReadArgs(i.op), isTemp(i.args[k])
       PROVE  i.args[k] \in Recorded \union Recordable(i)
  <2>1. CASE k \in Recording(i.op)
    BY <1>14, <2>1 DEF Recordable
  <2>2. CASE k \notin Recording(i.op)
    <3>1. PICK m \in DOMAIN checks : k \in Reads(checks[m])
      BY <1>1, <1>2, <1>14, <2>2 DEF Facts
    <3>2. Passes(checks[m], i, before(m), Labels, InBlock(i), TRUE)
      BY <1>7, <1>14
    <3> DEFINE d == before(m)[i.args[k].name]
    <3>3. Readable(before(m), i.args[k])
      <4> HIDE DEF before
      <4> QED
        BY <1>14, <3>1, <3>2, PassesFacts
    <3>4. d \in Recorded \union Recordable(i) /\ d.name = i.args[k].name /\ Consistent(d, i.args[k])
      BY <1>12, <3>3 DEF Readable
    <3>5. isTemp(d) /\ IsOperand(d) /\ IsOperand(i.args[k])
      BY <3>4, RecordableFacts, RecordedFacts DEF IsInstruction
    <3> HIDE DEF d
    <3> QED
      BY <1>14, <3>4, <3>5, SameTemp
  <2> QED
    BY <2>1, <2>2
<1>15. ASSUME state'.ok, ~Unresolved(i.op), NEW k \in DOMAIN i.args, isLocal(i.args[k])
       PROVE  i.args[k].value[2] \in Labels \/ {Offset(k), Byte(k)} \cap ToSet(checks) # {}
  <2>1. CASE k \in WrittenArgs(i.op)
    <3>1. PICK m \in DOMAIN checks : RecordedArg(checks[m]) = k /\ checks[m][2] = k
      BY <1>1, <1>2, <2>1 DEF Facts
    <3>2. Passes(checks[m], i, before(m), Labels, InBlock(i), TRUE)
      BY <1>7, <1>15
    <3>3. k # 0
      BY DEF IsInstruction
    <3> HIDE DEF before
    <3>4. i.args[k].kind \in {"REG", "TEMP"}
      BY <3>1, <3>2, <3>3, PassesFacts
    <3> QED
      BY <1>15, <3>4 DEF isLocal, isConst
  <2>2. CASE k \notin WrittenArgs(i.op) /\ ~({Offset(k), Byte(k)} \cap ToSet(checks) # {})
    <3>1. PICK m \in DOMAIN checks : k \in Resolves(checks[m])
      BY <1>1, <1>2, <1>15, <2>2 DEF Facts, IsInstruction
    <3>2. Passes(checks[m], i, before(m), Labels, InBlock(i), TRUE)
      BY <1>7, <1>15
    <3> HIDE DEF before
    <3> QED
      BY <1>15, <3>1, <3>2, PassesFacts
  <2> QED
    BY <2>1, <2>2
<1>16. ASSUME state'.ok
       PROVE  AllPass(i)
  <2>1. \A m \in DOMAIN checks : Passes(checks[m], i, before(m), Labels, InBlock(i), TRUE)
    BY <1>7, <1>16
  <2> HIDE DEF before
  <2> QED
    BY <1>2, <2>1 DEF AllPass, checks
<1> HIDE DEF after
<1> QED
  BY <1>7, <1>10, <1>11, <1>13, <1>14, <1>15, <1>16 DEF checks

-----------------------------------------------------------------------------
\* The selector

\* A list of machine instructions in which no arm has given up.
Works(list) == list \in Seq(ToSet(list)) /\ \A x \in ToSet(list) : x.op # "error"

\* An arm that has nothing to do has not given up.
LEMMA Nothing == Works(<<>>)
BY DEF Works, ToSet

\* Nor has one that gives an instruction.
LEMMA OneWorks ==
  ASSUME NEW x, x.op # "error"
  PROVE  Works(<<x>>)
<1>1. DOMAIN <<x>> = 1..1 /\ <<x>>[1] = x /\ ToSet(<<x>>) = {x}
  BY DEF ToSet
<1> QED
  BY <1>1 DEF Works

\* Code put together from code that works does.
LEMMA Joined ==
  ASSUME NEW s, NEW t, Works(s), Works(t)
  PROVE  Works(s \o t)
<1> DEFINE both == s \o t  S == ToSet(s) \union ToSet(t)
<1>1. s \in Seq(S) /\ t \in Seq(S)
  BY DEF Works
<1>2. both \in Seq(S) /\ Len(both) = Len(s) + Len(t)
      /\ \A k \in 1..Len(both) : both[k] \in S
  BY <1>1
<1>3. DOMAIN both = 1..Len(both)
  BY <1>2
<1> HIDE DEF both
<1>4. ToSet(both) \subseteq S
  BY <1>2, <1>3 DEF ToSet
<1>5. both \in Seq(ToSet(both))
  BY <1>2, <1>3 DEF ToSet
<1> QED
  BY <1>4, <1>5 DEF Works, both

\* Two instructions work.
LEMMA TwoWork ==
  ASSUME NEW x, NEW y, x.op # "error", y.op # "error"
  PROVE  Works(<<x, y>>)
<1>1. DOMAIN <<x, y>> = 1..2 /\ ToSet(<<x, y>>) = {x, y}
  BY DEF ToSet
<1>2. <<x, y>> \in Seq({x, y})
  OBVIOUS
<1> QED
  BY <1>1, <1>2 DEF Works

\* Four instructions work.
LEMMA FourWork ==
  ASSUME NEW x, NEW y, NEW z, NEW w, x.op # "error", y.op # "error", z.op # "error", w.op # "error"
  PROVE  Works(<<x, y, z, w>>)
<1>1. DOMAIN <<x, y, z, w>> = 1..4 /\ ToSet(<<x, y, z, w>>) = {x, y, z, w}
  BY DEF ToSet
<1>2. <<x, y, z, w>> \in Seq({x, y, z, w})
  OBVIOUS
<1> QED
  BY <1>1, <1>2 DEF Works

\* Code that works holds no call of error(), which is how an arm gives up.
LEMMA Never ==
  ASSUME NEW s, Works(s)
  PROVE  Unhandled[1] \notin ToSet(s)
BY DEF Works, Unhandled, Insn

\* Code that gives up does hold one.
LEMMA GaveUp == Unhandled[1] \in ToSet(Unhandled)
BY DEF Unhandled, ToSet

\* The mnemonic of an instruction is the one it was built with.
LEMMA Mnemonics ==
  /\ \A op, args, defs, uses : Insn(op, args, defs, uses).op = op
  /\ \A op, to, from : Copy(op, to, from).op = op /\ Plain(op, to, from).op = op
  /\ \A to, from : Mov(to, from).op = "mov" /\ LeaTemp(to, from).op = "lea" /\ LeaFrag(to, from).op = "lea"
  /\ \A r, b, o : LeaAt(r, b, o).op = "lea"
  /\ \A size : FpMove(size) # "error" /\ FpBits(size) # "error"
  /\ \A op, args, defs, uses, j, k : Moving(Insn(op, args, defs, uses), j, k).op = op
<1>1. \A op, args, defs, uses : Insn(op, args, defs, uses).op = op
  BY DEF Insn
<1>2. \A op, args, defs, uses, j, k : Moving(Insn(op, args, defs, uses), j, k).op = op
  BY DEF Insn, Moving
<1> QED
  BY <1>1, <1>2 DEF Copy, Plain, Mov, LeaTemp, LeaFrag, LeaAt, FpMove, FpBits

\* An instruction whose skeleton has no newline at its end is not an error either.
LEMMA OpenWorks ==
  ASSUME NEW op, op # "error", NEW args, NEW defs, NEW uses, NEW j, NEW k
  PROVE  /\ Works(Unterminated(<<Insn(op, args, defs, uses)>>))
         /\ Works(Unterminated(<<Moving(Insn(op, args, defs, uses), j, k)>>))
<1>1. ASSUME NEW x, [x EXCEPT !.ends = FALSE].op = op
      PROVE  Works(Unterminated(<<x>>))
  <2> DEFINE y == [x EXCEPT !.ends = FALSE]  open == Unterminated(<<x>>)
  <2>1. DOMAIN <<x>> = 1..1 /\ \A m \in 1..1 : <<x>>[m] = x
    OBVIOUS
  <2>2. open = [m \in 1..1 |-> [<<x>>[m] EXCEPT !.ends = FALSE]]
    BY <2>1 DEF Unterminated
  <2>3. \A m \in 1..1 : [<<x>>[m] EXCEPT !.ends = FALSE] = y
    BY <2>1
  <2>4. y.op # "error"
    BY <1>1
  <2> HIDE DEF y, open
  <2>5. DOMAIN open = 1..1 /\ open[1] = y /\ open \in Seq({y})
    BY <2>2, <2>3
  <2>6. ToSet(open) = {y}
    BY <2>5 DEF ToSet
  <2>7. Works(open)
    BY <2>4, <2>5, <2>6 DEF Works
  <2> QED
    BY <2>7 DEF open
<1>2. /\ [Insn(op, args, defs, uses) EXCEPT !.ends = FALSE].op = op
      /\ [Moving(Insn(op, args, defs, uses), j, k) EXCEPT !.ends = FALSE].op = op
  BY DEF Insn, Moving
<1> QED
  BY <1>1, <1>2

\* Operands in memory are loaded into a patch register, whatever they are.
LEMMA LoadWorks ==
  ASSUME NEW o, NEW n
  PROVE  Works(Load(o, n)) /\ Works(FpLoad(o, n)) /\ Works(Unterminated(Load(o, n)))
<1>1. Works(Load(o, n)) /\ Works(FpLoad(o, n))
  BY Nothing, OneWorks, Mnemonics DEF Load, FpLoad
<1>2. CASE isMemTemp(o)
  <2>1. Load(o, n) = <<Mov(Patch(o, n, "GP"), o)>>
    BY <1>2 DEF Load
  <2>2. Works(Unterminated(<<Mov(Patch(o, n, "GP"), o)>>))
    BY OpenWorks DEF Mov, Copy
  <2> QED
    BY <1>1, <2>1, <2>2
<1>3. CASE ~isMemTemp(o)
  <2>1. Unterminated(Load(o, n)) = <<>>
    BY <1>3 DEF Unterminated, Load
  <2> QED
    BY <1>1, <2>1, Nothing
<1> QED
  BY <1>2, <1>3

\* The end of a copy of memory: the count and the string instruction.
LEMMA MemcpyWorks ==
  ASSUME NEW size, NEW defs, NEW uses
  PROVE  /\ Works(FinishMemcpy(size, defs, uses))
         /\ FinishMemcpy(size, defs, uses)[1].op # "error"
         /\ Moving(FinishMemcpy(size, defs, uses)[2], 4, 4).op # "error"
<1> DEFINE x == Insn("mov", <<D, Imm(Word(size \div Unit(size)))>>, <<RCX>>, <<>>)
           y == Insn("rep movs", <<Width(Unit(size))>>, <<RSI, RDI, RCX>> \o defs, <<RSI, RDI, RCX>> \o uses)
<1>1. FinishMemcpy(size, defs, uses) = <<x, y>>
  BY DEF FinishMemcpy
<1>2. x.op = "mov" /\ y.op = "rep movs" /\ Moving(y, 4, 4).op = "rep movs"
  BY DEF Insn, Moving
<1> HIDE DEF x, y
<1>3. <<x, y>>[1] = x /\ <<x, y>>[2] = y
  OBVIOUS
<1> QED
  BY <1>1, <1>2, <1>3, TwoWork

\* A MOVE to a register or a temporary has an arm.
LEMMA MoveWorks ==
  ASSUME NEW d, NEW s, NEW n, d.kind \in {"REG", "TEMP"}, Value(s), IsOperand(d), IsOperand(s)
  PROVE  Works(SelectMove(d, s, n))
<1>0. /\ isGp(d) \/ isFp(d) \/ isMemTemp(d)
      /\ isGp(s) \/ isFp(s) \/ isMemTemp(s) \/ isConst(s)
  BY DEF IsOperand, AlignedTemp, Reg, Const, isGp, isFp, isMemTemp, isConst, isGpReg, isFpReg, isGpTemp, isFpTemp
<1>1. CASE isMemTemp(d) /\ isMemTemp(s)
  <2>1. Works(<<Mov(Patch(s, n, "GP"), s), Mov(d, Patch(s, n, "GP"))>>)
    BY TwoWork, Mnemonics
  <2>2. Works(<<Copy("movdqu", Patch(s, n, "FP"), s), Copy("movdqu", d, Patch(s, n, "FP"))>>)
    BY TwoWork, Mnemonics
  <2>3. LET copy == FinishMemcpy(s.size, <<d>>, <<s>>) IN
        Works(<<LeaTemp(RSI, s), LeaTemp(RDI, d), copy[1], Moving(copy[2], 4, 4)>>)
    BY FourWork, MemcpyWorks, Mnemonics
  <2>4. Works(MoveMemory(d, s, n))
    BY <2>1, <2>2, <2>3 DEF MoveMemory
  <2> QED
    BY <1>1, <2>4 DEF SelectMove, isMemTemp, isConst
<1>2. CASE isMemTemp(d) /\ isConst(s)
  <2>1. Works(MoveConstToMemory(d, s))
    BY OneWorks, TwoWork, Joined, MemcpyWorks, Mnemonics DEF MoveConstToMemory
  <2> QED
    BY <1>2, <2>1 DEF SelectMove, isMemTemp, isConst
<1>3. CASE ~(isMemTemp(d) /\ (isMemTemp(s) \/ isConst(s)))
  <2>1. Works(MoveRegisters(d, s))
    BY <1>0, <1>3, OneWorks, Mnemonics DEF MoveRegisters, Among
  <2> QED
    BY <1>3, <2>1 DEF SelectMove
<1> QED
  BY <1>1, <1>2, <1>3

\* Stores to memory and loads from it, of one register.
LEMMA StoresWork ==
  ASSUME NEW op, op # "error", NEW w, NEW b, NEW o, NEW v, NEW d
  PROVE  Works(StoreTo(op, w, b, o, v)) /\ Works(LoadFrom(op, w, d, b, o))
BY OneWorks, Mnemonics DEF StoreTo, LoadFrom

\* Copies of large values to memory and from it.
LEMMA CopiesWork ==
  ASSUME NEW b, NEW o, NEW v, NEW d
  PROVE  /\ Works(<<LeaTemp(RSI, v), LeaAt(RDI, b, o)>> \o FinishMemcpy(v.size, <<>>, <<v>>))
         /\ Works(<<LeaFrag(RSI, v), LeaAt(RDI, b, o)>> \o FinishMemcpy(v.size, <<>>, <<>>))
         /\ Works(CopyFrom(d, b, o))
<1>1. /\ Works(<<LeaTemp(RSI, v), LeaAt(RDI, b, o)>>) /\ Works(<<LeaFrag(RSI, v), LeaAt(RDI, b, o)>>)
      /\ Works(<<LeaAt(RSI, b, o), LeaTemp(RDI, d)>>)
  BY TwoWork, Mnemonics
<1>2. /\ Works(FinishMemcpy(v.size, <<>>, <<v>>)) /\ Works(FinishMemcpy(v.size, <<>>, <<>>))
      /\ Works(FinishMemcpy(d.size, <<d>>, <<>>))
  BY MemcpyWorks
<1> QED
  BY <1>1, <1>2, Joined DEF CopyFrom

\* What the arms of MEM_STORE and STK_STORE end with.
LEMMA StoreWorks ==
  ASSUME NEW b, NEW o, NEW v, NEW n, NEW move16, move16 # "error"
  PROVE  /\ Works(StoreGp(b, o, v)) /\ Works(StoreFp(b, o, v)) /\ Works(StoreConst(b, o, v))
         /\ Works(StoreMem(b, o, v, n, move16)) /\ Works(StackMem(o, v, n))
<1>1. Works(StoreGp(b, o, v)) /\ Works(StoreFp(b, o, v)) /\ Works(StoreGp(b, o, Patch(v, n, "GP")))
  BY StoresWork, Mnemonics DEF StoreGp, StoreFp
<1>2. Works(StoreConst(b, o, v))
  BY <1>1, CopiesWork DEF StoreConst
<1>3. /\ Works(<<Mov(Patch(v, n, "GP"), v)>>) /\ Works(<<Copy(move16, Patch(v, n, "FP"), v)>>)
      /\ Works(<<Copy("movdqu", Patch(v, n, "FP"), v)>>)
  BY OneWorks, Mnemonics
<1>4. /\ Works(StoreTo("movdqu", 0, b, o, Patch(v, n, "FP")))
      /\ Works(StoreTo("mov", 0, RSP, o, Patch(v, n, "GP"))) /\ Works(StoreTo("mov", 0, RSP, o, Patch(v, n, "FP")))
  BY StoresWork
<1>5. Works(StoreMem(b, o, v, n, move16))
  <2>1. /\ Works(<<Mov(Patch(v, n, "GP"), v)>> \o StoreGp(b, o, Patch(v, n, "GP")))
        /\ Works(<<Copy(move16, Patch(v, n, "FP"), v)>> \o StoreTo("movdqu", 0, b, o, Patch(v, n, "FP")))
    BY <1>1, <1>3, <1>4, Joined
  <2> QED
    BY <2>1, CopiesWork DEF StoreMem
<1>6. Works(StackMem(o, v, n))
  <2>1. /\ Works(<<Mov(Patch(v, n, "GP"), v)>> \o StoreTo("mov", 0, RSP, o, Patch(v, n, "GP")))
        /\ Works(<<Copy("movdqu", Patch(v, n, "FP"), v)>> \o StoreTo("mov", 0, RSP, o, Patch(v, n, "FP")))
    BY <1>3, <1>4, Joined
  <2> QED
    BY <2>1, CopiesWork DEF StackMem
<1> QED
  BY <1>1, <1>2, <1>5, <1>6

\* What the arms of MEM_LOAD end with.
LEMMA LoadedWork ==
  ASSUME NEW b, NEW o, NEW d, NEW n
  PROVE  Works(LoadGp(d, b, o)) /\ Works(LoadFp(d, b, o)) /\ Works(ThroughPatch(d, b, o, n))
<1>1. Works(LoadGp(d, b, o)) /\ Works(LoadFp(d, b, o)) /\ Works(LoadGp(Patch(d, n, "GP"), b, o))
  BY StoresWork, Mnemonics DEF LoadGp, LoadFp
<1>2. Works(<<Mov(d, Patch(d, n, "GP"))>>)
  BY OneWorks, Mnemonics
<1> QED
  BY <1>1, <1>2, Joined DEF ThroughPatch

\* Every operand is of one class.
OneClass(o) ==
  \/ isGp(o) /\ ~isFp(o) /\ ~isMemTemp(o) /\ ~isConst(o)
  \/ isFp(o) /\ ~isGp(o) /\ ~isMemTemp(o) /\ ~isConst(o)
  \/ isMemTemp(o) /\ ~isGp(o) /\ ~isFp(o) /\ ~isConst(o)
  \/ isConst(o) /\ ~isGp(o) /\ ~isFp(o) /\ ~isMemTemp(o)
\* Validation tells the classes apart only for temporaries: what it lets through as
\* general purpose may still be a machine register for floating point.
LEMMA Classes ==
  ASSUME NEW o, IsOperand(o)
  PROVE  /\ OneClass(o)
         /\ isConst(o) <=> o.kind \notin {"REG", "TEMP"}
         /\ GpOrMem(o) => (isFp(o) <=> isFpReg(o))
         /\ isTemp(o) /\ FpOrMem(o) => (isMemTemp(o) <=> ~isFpTemp(o)) /\ ~isGp(o)
BY DEF OneClass, IsOperand, AlignedTemp, Reg, Const, isTemp, GpOrMem, FpOrMem, isGp, isFp, isMemTemp, isConst,
       isGpReg, isFpReg, isGpTemp, isFpTemp, GpRegisters, FpRegisters

\* A MEM_STORE has an arm unless its address or offset is for floating point, or it is a
\* copy of a large temporary to a constant address at a constant offset.
LEMMA MemStoreWorks ==
  ASSUME NEW b, NEW v, NEW o, NEW n, OneClass(b), OneClass(v), OneClass(o), ~isFp(b), ~isFp(o),
         ~(isConst(b) /\ isConst(o) /\ isMemTemp(v) /\ v.size \notin MovableSizes \union {16})
  PROVE  Works(SelectMemStore(b, v, o, n))
<1>1. Works(Load(b, n)) /\ Works(Load(o, n)) /\ Works(Load(o, n + 1)) /\ Works(FpLoad(b, n)) /\ Works(FpLoad(o, n + 1))
  BY LoadWorks
<1>2. Works(Load(b, n) \o Load(o, n + 1)) /\ Works(FpLoad(b, n) \o FpLoad(o, n + 1))
  BY <1>1, Joined
<1>3. Works(StoreGpGp(b, v, o, n)) /\ Works(StoreConstGp(b, v, o, n)) /\ Works(StoreMemGp(b, v, o, n))
  <2>1. Works(StoreGp(b, Loaded(o, n), v)) /\ Works(StoreGp(Loaded(b, n), Loaded(o, n + 1), v))
    BY StoreWorks
  <2> QED
    BY <1>1, <1>2, <2>1, Joined DEF StoreGpGp, StoreConstGp, StoreMemGp
<1>4. Works(StoreGpFp(b, v, o, n)) /\ Works(StoreConstFp(b, v, o, n)) /\ Works(StoreMemFp(b, v, o, n))
  BY <1>1, <1>2, StoreWorks, Joined DEF StoreGpFp, StoreConstFp, StoreMemFp
<1>5. Works(StoreGpConst(b, v, o, n)) /\ Works(StoreConstConst(b, v, o, n)) /\ Works(StoreMemConst(b, v, o, n))
  BY <1>1, <1>2, StoreWorks, Joined DEF StoreGpConst, StoreConstConst, StoreMemConst
<1>6. Works(StoreGpMem(b, v, o, n)) /\ Works(StoreMemMem(b, v, o, n))
  BY <1>1, <1>2, StoreWorks, Joined DEF StoreGpMem, StoreMemMem
<1>7. isConst(b) /\ isMemTemp(v) => Works(StoreConstMem(b, v, o, n))
  BY <1>1, StoreWorks, Joined DEF StoreConstMem
<1> QED
  BY <1>3, <1>4, <1>5, <1>6, <1>7 DEF SelectMemStore, OneClass

\* A MEM_LOAD has an arm unless its address or offset is for floating point.
LEMMA MemLoadWorks ==
  ASSUME NEW d, NEW b, NEW o, NEW n, OneClass(d), OneClass(b), OneClass(o), ~isFp(b), ~isFp(o), ~isConst(d)
  PROVE  Works(SelectMemLoad(d, b, o, n))
<1>1. /\ Works(Load(b, n)) /\ Works(Load(o, n)) /\ Works(Load(o, n + 1)) /\ Works(Unterminated(Load(o, n)))
      /\ Works(Load(b, n) \o Load(o, n + 1))
  BY LoadWorks, Joined
<1>2. Works(LoadGpGp(d, b, o, n)) /\ Works(LoadGpMem(d, b, o, n)) /\ Works(LoadGpConst(d, b, o, n))
  BY <1>1, LoadedWork, Joined DEF LoadGpGp, LoadGpMem, LoadGpConst
<1>3. Works(LoadFpGp(d, b, o, n)) /\ Works(LoadFpMem(d, b, o, n)) /\ Works(LoadFpConst(d, b, o, n))
  BY <1>1, LoadedWork, Joined DEF LoadFpGp, LoadFpMem, LoadFpConst
<1>4. Works(LoadMemGp(d, b, o, n))
  <2>1. Works(<< LeaAt(RSI, b, Loaded(o, n)), Insn("lea", <<Lit("rdi"), U>>, <<RDI, d>>, <<>>) >>
                \o FinishMemcpy(d.size, <<d>>, <<>>))
    BY TwoWork, Mnemonics, MemcpyWorks, Joined
  <2>2. Works(ThroughPatch(d, b, Loaded(o, n), After(o, n))) /\ Works(CopyFrom(d, b, o))
    BY LoadedWork, CopiesWork
  <2> QED
    BY <1>1, <2>1, <2>2, Joined DEF LoadMemGp
<1>5. Works(LoadMemMem(d, b, o, n))
  <2> DEFINE base == Loaded(b, n) offset == Loaded(o, n + 1)
  <2>1. Works(<< Insn("mov", <<D, At(d.size, U, U)>>, <<Patch(d, n + 1, "GP")>>, <<base>>),
                 Mov(d, Patch(d, n + 1, "GP")) >>)
    BY TwoWork, Mnemonics
  <2>2. Works(ThroughPatch(d, base, offset, After(o, n + 1))) /\ Works(CopyFrom(d, base, offset))
    BY LoadedWork, CopiesWork
  <2> QED
    BY <1>1, <2>1, <2>2, Joined DEF LoadMemMem
<1>6. Works(LoadMemConst(d, b, o, n))
  <2>1. Works(ThroughPatch(d, b, Loaded(o, n), After(o, n))) /\ Works(CopyFrom(d, b, Loaded(o, n)))
    BY LoadedWork, CopiesWork
  <2> QED
    BY <1>1, <2>1, Joined DEF LoadMemConst
<1> QED
  BY <1>2, <1>3, <1>4, <1>5, <1>6 DEF SelectMemLoad, OneClass

\* Stores to and loads from the stack have an arm unless the offset is for floating point.
LEMMA StackWorks ==
  ASSUME NEW o, NEW v, NEW n, OneClass(o), OneClass(v)
  PROVE  /\ ~isFp(o) => Works(SelectStkStore(o, v, n))
         /\ ~isFp(o) /\ ~isConst(v) => Works(SelectStkLoad(v, o, n))
<1>1. Works(Load(o, n)) /\ Works(StoreTo("mov", 0, RSP, o, v)) /\ Works(StoreTo("mov", 0, RSP, Loaded(o, n), v))
  BY LoadWorks, StoresWork
<1>2. Works(StkStoreRegister(o, v, n))
  BY <1>1, StoreWorks DEF StkStoreRegister, OneClass
<1>3. Works(StkStoreConst(o, v, n))
  <2>1. Works(StackMem(o, v, n)) /\ Works(StoreConst(RSP, o, v))
    BY StoreWorks
  <2> QED
    BY <1>1, <2>1, Nothing DEF StkStoreConst, OneClass
<1>4. Works(StkStoreMem(o, v, n))
  BY <1>1, StoreWorks, Joined DEF StkStoreMem, OneClass
<1>5. Works(StkLoadGp(v, o, n)) /\ Works(StkLoadFp(v, o, n))
  <2>1. Works([k \in DOMAIN Load(o, n) |-> Plain("mov", Loaded(o, n), o)])
    <3> DEFINE x == Plain("mov", Loaded(o, n), o)  moves == [k \in DOMAIN Load(o, n) |-> x]
    <3>1. x.op # "error" /\ (DOMAIN Load(o, n) = {} \/ DOMAIN Load(o, n) = 1..1)
      BY Mnemonics DEF Load
    <3> HIDE DEF x
    <3>2. moves \in Seq(ToSet(moves)) /\ ToSet(moves) \subseteq {x}
      BY <3>1 DEF ToSet
    <3> QED
      BY <3>1, <3>2 DEF Works, x
  <2>2. Works(LoadFrom("mov", 0, v, RSP, Loaded(o, n))) /\ Works(LoadFrom(FpMove(v.size), 0, v, RSP, Loaded(o, n)))
    BY StoresWork, Mnemonics
  <2> QED
    BY <1>1, <2>1, <2>2, Joined DEF StkLoadGp, StkLoadFp
<1>6. Works(StkLoadMem(v, o, n))
  <2> DEFINE offset == Loaded(o, n)  next == After(o, n)
             x == Plain("mov", v, Patch(v, next, "GP"))  y == Plain("movdqu", v, Patch(v, next, "FP"))
  <2>1. Works(LoadFrom("mov", 0, Patch(v, next, "GP"), RSP, offset))
        /\ Works(LoadFrom("movdqu", 0, Patch(v, next, "FP"), RSP, offset)) /\ Works(CopyFrom(v, RSP, offset))
    BY StoresWork, CopiesWork
  <2>2. Works(Unterminated(<<x>>)) /\ Works(Unterminated(<<y>>))
    BY OpenWorks DEF Plain
  <2>3. /\ Works(LoadFrom("mov", 0, Patch(v, next, "GP"), RSP, offset) \o Unterminated(<<x>>))
        /\ Works(LoadFrom("movdqu", 0, Patch(v, next, "FP"), RSP, offset) \o Unterminated(<<y>>))
    BY <2>1, <2>2, Joined
  <2> QED
    BY <1>1, <2>1, <2>3, Joined DEF StkLoadMem
<1> QED
  BY <1>2, <1>3, <1>4, <1>5, <1>6 DEF SelectStkStore, SelectStkLoad, OneClass

\* Stores into a part of a temporary have an arm unless the offset is for floating point.
LEMMA OffsetStoreWorks ==
  ASSUME NEW d, NEW v, NEW o, NEW n, OneClass(v), OneClass(o), ~isFp(o)
  PROVE  Works(SelectOffsetStore(d, v, o, n))
<1> DEFINE part == Inside(d, Loaded(o, n))  next == After(o, n)
<1>1. Works(Load(o, n))
  BY LoadWorks
<1>2. Works(OffsetStoreGp(d, v, o, n)) /\ Works(OffsetStoreFp(d, v, o, n))
  <2>1. Works(<<Plain("mov", part, v)>>) /\ Works(<<Plain(FpBits(v.size), part, v)>>)
    BY OneWorks, Mnemonics
  <2> QED
    BY <1>1, <2>1, Joined DEF OffsetStoreGp, OffsetStoreFp
<1>3. Works(OffsetStoreMem(d, v, o, n))
  <2>1. Works(<<Mov(Patch(v, next, "GP"), v), Plain("mov", part, Patch(v, next, "GP"))>>)
    BY TwoWork, Mnemonics
  <2>2. Works(<<Copy("movdqu", Patch(v, next, "FP"), v), Plain("movdqu", part, Patch(v, next, "FP"))>>)
    BY TwoWork, Mnemonics
  <2>3. LET copy == FinishMemcpy(v.size, <<d>>, <<v>>) IN
        Works(<<LeaTemp(RSI, v), LeaTemp(RDI, part), copy[1], Moving(copy[2], 4, 4)>>)
    BY FourWork, MemcpyWorks, Mnemonics
  <2> QED
    BY <1>1, <2>1, <2>2, <2>3, Joined DEF OffsetStoreMem
<1>4. Works(OffsetStoreConst(d, v, o, n))
  <2>1. Works(<<Insn("mov", <<Sized(v.size), Imm(v.value)>>, <<part>>, <<>>)>>)
    BY OneWorks, Mnemonics
  <2>2. Works(<<LeaFrag(RSI, v), LeaTemp(RDI, part)>>) /\ Works(FinishMemcpy(v.size, <<d>>, <<>>))
    BY TwoWork, Mnemonics, MemcpyWorks
  <2>3. Works(<<LeaFrag(RSI, v), LeaTemp(RDI, part)>> \o FinishMemcpy(v.size, <<d>>, <<>>))
    BY <2>2, Joined
  <2> QED
    BY <1>1, <2>1, <2>3, Joined DEF OffsetStoreConst
<1> QED
  BY <1>2, <1>3, <1>4 DEF SelectOffsetStore, OneClass

\* Loads of a part of a temporary have an arm unless the offset is for floating point.
LEMMA OffsetLoadWorks ==
  ASSUME NEW d, NEW s, NEW o, NEW n, OneClass(d), OneClass(o), ~isFp(o), ~isConst(d)
  PROVE  Works(SelectOffsetLoad(d, s, o, n))
<1> DEFINE part == Inside(s, Loaded(o, n))
<1>1. Works(Load(o, n))
  BY LoadWorks
<1>2. Works(<<Plain("mov", d, part)>>) /\ Works(<<Plain(FpBits(d.size), d, part)>>)
  BY OneWorks, Mnemonics
<1>3. LET copy == FinishMemcpy(d.size, <<d>>, <<s>>) IN
      Works(<<LeaTemp(RSI, part), LeaTemp(RDI, d), copy[1], Moving(copy[2], 4, 4)>>)
  BY FourWork, MemcpyWorks, Mnemonics
<1>4. Works(OffsetLoadGp(d, s, o, n)) /\ Works(OffsetLoadFp(d, s, o, n))
  BY <1>1, <1>2, Joined DEF OffsetLoadGp, OffsetLoadFp
<1>5. Works(OffsetLoadMem(d, s, o, n))
  BY <1>1, <1>3, Joined DEF OffsetLoadMem
<1> QED
  BY <1>4, <1>5 DEF SelectOffsetLoad, OneClass

\* The address of a temporary in memory has an arm.
LEMMA AddrofWorks ==
  ASSUME NEW d, NEW s, NEW n, isGp(d) \/ isMemTemp(d), isMemTemp(s)
  PROVE  Works(SelectAddrof(d, s, n))
BY OneWorks, TwoWork, Mnemonics DEF SelectAddrof

\* A CALL has an arm unless its target is for floating point.
LEMMA CallWorks ==
  ASSUME NEW f, ~isFp(f)
  PROVE  Works(SelectCall(f))
BY OneWorks, Mnemonics DEF SelectCall

\* What the checks of a move require of its operands.
LEMMA Demands ==
  ASSUME NEW i, NEW temps, NEW k
  PROVE  /\ Passes(Written(k), i, temps, Labels, InBlock(i), TRUE) => i.args[k].kind \in {"REG", "TEMP"}
         /\ Passes(PointerWritten, i, temps, Labels, InBlock(i), TRUE) =>
              i.args[1].kind \in {"REG", "TEMP"} /\ GpOrMem(i.args[1])
         /\ Passes(PartWritten(k), i, temps, Labels, InBlock(i), TRUE) => isTemp(i.args[k]) /\ FpOrMem(i.args[k])
         /\ Passes(Addressed(k), i, temps, Labels, InBlock(i), TRUE) => isTemp(i.args[k]) /\ FpOrMem(i.args[k])
         /\ Passes(Read(k), i, temps, Labels, InBlock(i), TRUE) => Value(i.args[k])
         /\ Passes(PointerTo(k), i, temps, Labels, InBlock(i), TRUE) => GpOrMem(i.args[k])
         /\ Passes(Offset(k), i, temps, Labels, InBlock(i), TRUE) => GpOrMem(i.args[k])
         /\ Passes(CallTarget(k), i, temps, Labels, InBlock(i), TRUE) => GpOrMem(i.args[k])
BY DEF Passes, Stored, Written, PointerWritten, PartWritten, Addressed, Read, PointerTo, Offset, CallTarget

\* Of the instructions whose checks all pass, the selector gives up on those of Unselected,
\* and on no others.
LEMMA Selected ==
  ASSUME NEW i, IsInstruction(i), AllPass(i), i.op \in Moves
  PROVE  Unhandled[1] \in ToSet(Select(i, 90)) <=> Unselected(i)
<1> DEFINE a == i.args
<1>1. \A k \in 1..ArityOf(i.op) : IsOperand(a[k])
  BY DEF IsInstruction
<1>2. CASE i.op = "ADDROF"
  <2>1. IsOperand(a[1]) /\ IsOperand(a[2])
    BY <1>1, <1>2 DEF ArityOf
  <2>2. ToSet(ChecksOf(i.op)) = {PointerWritten, Addressed(2)}
    BY <1>2, Two DEF ChecksOf, PseudoChecks
  <2>3. a[1].kind \in {"REG", "TEMP"} /\ GpOrMem(a[1]) /\ isTemp(a[2]) /\ FpOrMem(a[2])
    BY <2>2, Demands DEF AllPass
  <2>4. Select(i, 90) = SelectAddrof(a[1], a[2], 90)
    BY <1>2 DEF Select, UntranslatedArithmetic, UntranslatedOrders, UntranslatedTests, UntranslatedJumps
  <2>5. Unselected(i) <=> isFpTemp(a[2]) \/ isFpReg(a[1])
    BY <1>2 DEF Unselected
  <2>6. (isMemTemp(a[2]) <=> ~isFpTemp(a[2])) /\ ~isGp(a[2])
    BY <2>1, <2>3, Classes
  <2>7. (isGp(a[1]) \/ isMemTemp(a[1]) <=> ~isFpReg(a[1])) /\ OneClass(a[1])
    BY <2>1, <2>3, Classes DEF OneClass
  <2>8. isFpTemp(a[2]) \/ isFpReg(a[1]) => SelectAddrof(a[1], a[2], 90) = Unhandled
    BY <2>6, <2>7 DEF SelectAddrof
  <2>9. ~(isFpTemp(a[2]) \/ isFpReg(a[1])) => Works(SelectAddrof(a[1], a[2], 90))
    BY <2>6, <2>7, AddrofWorks
  <2> QED
    BY <2>4, <2>5, <2>8, <2>9, Never, GaveUp
<1>3. CASE i.op = "MOVE"
  <2>1. IsOperand(a[1]) /\ IsOperand(a[2])
    BY <1>1, <1>3 DEF ArityOf
  <2>2. ToSet(ChecksOf(i.op)) = {Written(1), Read(2), Pair(1, 2)}
    BY <1>3, Three DEF ChecksOf, MoveChecks
  <2>3. a[1].kind \in {"REG", "TEMP"} /\ Value(a[2])
    BY <2>2, Demands DEF AllPass
  <2>4. Select(i, 90) = SelectMove(a[1], a[2], 90)
    BY <1>3 DEF Select, UntranslatedArithmetic, UntranslatedOrders, UntranslatedTests, UntranslatedJumps
  <2>5. ~Unselected(i)
    BY <1>3 DEF Unselected
  <2> QED
    BY <2>1, <2>3, <2>4, <2>5, MoveWorks, Never
<1>4. CASE i.op = "MEM_STORE"
  <2>1. IsOperand(a[1]) /\ IsOperand(a[2]) /\ IsOperand(a[3])
    BY <1>1, <1>4 DEF ArityOf
  <2>2. ToSet(ChecksOf(i.op)) = {PointerTo(1), Read(2), Offset(3)}
    BY <1>4, Three DEF ChecksOf, MoveChecks
  <2>3. GpOrMem(a[1]) /\ GpOrMem(a[3])
    BY <2>2, Demands DEF AllPass
  <2>4. Select(i, 90) = SelectMemStore(a[1], a[2], a[3], 90)
    BY <1>4 DEF Select, UntranslatedArithmetic, UntranslatedOrders, UntranslatedTests, UntranslatedJumps
  <2> DEFINE large == /\ isConst(a[1]) /\ isConst(a[3]) /\ isMemTemp(a[2])
                      /\ a[2].size \notin MovableSizes \union {16}
  <2>5. Unselected(i) <=> isFp(a[1]) \/ isFp(a[3]) \/ large
    BY <1>4, <2>1, <2>3, Classes DEF Unselected
  <2>6. OneClass(a[1]) /\ OneClass(a[2]) /\ OneClass(a[3])
    BY <2>1, Classes
  <2>7. isFp(a[1]) \/ isFp(a[3]) \/ large => SelectMemStore(a[1], a[2], a[3], 90) = Unhandled
    <3>1. CASE isFp(a[1]) \/ isFp(a[3])
      BY <3>1 DEF SelectMemStore
    <3>2. CASE large /\ ~(isFp(a[1]) \/ isFp(a[3]))
      BY <2>6, <3>2 DEF SelectMemStore, OneClass, StoreConstMem
    <3> QED
      BY <3>1, <3>2
  <2>8. ~(isFp(a[1]) \/ isFp(a[3]) \/ large) => Works(SelectMemStore(a[1], a[2], a[3], 90))
    BY <2>6, MemStoreWorks
  <2> QED
    BY <2>4, <2>5, <2>7, <2>8, Never, GaveUp
<1>5. CASE i.op = "MEM_LOAD"
  <2>1. IsOperand(a[1]) /\ IsOperand(a[2]) /\ IsOperand(a[3])
    BY <1>1, <1>5 DEF ArityOf
  <2>2. ToSet(ChecksOf(i.op)) = {Written(1), PointerTo(2), Offset(3)}
    BY <1>5, Three DEF ChecksOf, MoveChecks
  <2>3. a[1].kind \in {"REG", "TEMP"} /\ GpOrMem(a[2]) /\ GpOrMem(a[3])
    BY <2>2, Demands DEF AllPass
  <2>4. Select(i, 90) = SelectMemLoad(a[1], a[2], a[3], 90)
    BY <1>5 DEF Select, UntranslatedArithmetic, UntranslatedOrders, UntranslatedTests, UntranslatedJumps
  <2>5. (Unselected(i) <=> isFp(a[2]) \/ isFp(a[3])) /\ ~isConst(a[1])
    BY <1>5, <2>1, <2>3, Classes DEF Unselected
  <2>6. OneClass(a[1]) /\ OneClass(a[2]) /\ OneClass(a[3])
    BY <2>1, Classes
  <2>7. isFp(a[2]) \/ isFp(a[3]) => SelectMemLoad(a[1], a[2], a[3], 90) = Unhandled
    BY DEF SelectMemLoad
  <2>8. ~(isFp(a[2]) \/ isFp(a[3])) => Works(SelectMemLoad(a[1], a[2], a[3], 90))
    BY <2>5, <2>6, MemLoadWorks
  <2> QED
    BY <2>4, <2>5, <2>7, <2>8, Never, GaveUp
<1>6. CASE i.op = "STK_STORE"
  <2>1. IsOperand(a[1]) /\ IsOperand(a[2])
    BY <1>1, <1>6 DEF ArityOf
  <2>2. ToSet(ChecksOf(i.op)) = {Offset(1), Read(2)}
    BY <1>6, Two DEF ChecksOf, MoveChecks
  <2>3. GpOrMem(a[1])
    BY <2>2, Demands DEF AllPass
  <2>4. Select(i, 90) = SelectStkStore(a[1], a[2], 90)
    BY <1>6 DEF Select, UntranslatedArithmetic, UntranslatedOrders, UntranslatedTests, UntranslatedJumps
  <2>5. Unselected(i) <=> isFp(a[1])
    BY <1>6, <2>1, <2>3, Classes DEF Unselected
  <2>6. OneClass(a[1]) /\ OneClass(a[2])
    BY <2>1, Classes
  <2>7. isFp(a[1]) => SelectStkStore(a[1], a[2], 90) = Unhandled
    BY <2>6 DEF SelectStkStore, OneClass
  <2> QED
    BY <2>4, <2>5, <2>6, <2>7, StackWorks, Never, GaveUp
<1>7. CASE i.op = "STK_LOAD"
  <2>1. IsOperand(a[1]) /\ IsOperand(a[2])
    BY <1>1, <1>7 DEF ArityOf
  <2>2. ToSet(ChecksOf(i.op)) = {Written(1), Offset(2)}
    BY <1>7, Two DEF ChecksOf, MoveChecks
  <2>3. a[1].kind \in {"REG", "TEMP"} /\ GpOrMem(a[2])
    BY <2>2, Demands DEF AllPass
  <2>4. Select(i, 90) = SelectStkLoad(a[1], a[2], 90)
    BY <1>7 DEF Select, UntranslatedArithmetic, UntranslatedOrders, UntranslatedTests, UntranslatedJumps
  <2>5. (Unselected(i) <=> isFp(a[2])) /\ ~isConst(a[1])
    BY <1>7, <2>1, <2>3, Classes DEF Unselected
  <2>6. OneClass(a[1]) /\ OneClass(a[2])
    BY <2>1, Classes
  <2>7. isFp(a[2]) => SelectStkLoad(a[1], a[2], 90) = Unhandled
    BY DEF SelectStkLoad
  <2> QED
    BY <2>4, <2>5, <2>6, <2>7, StackWorks, Never, GaveUp
<1>8. CASE i.op = "OFFSET_STORE"
  <2>1. IsOperand(a[1]) /\ IsOperand(a[2]) /\ IsOperand(a[3])
    BY <1>1, <1>8 DEF ArityOf
  <2>2. ToSet(ChecksOf(i.op)) = {PartWritten(1), Read(2), Offset(3)}
    BY <1>8, Three DEF ChecksOf, MoveChecks
  <2>3. GpOrMem(a[3])
    BY <2>2, Demands DEF AllPass
  <2>4. Select(i, 90) = SelectOffsetStore(a[1], a[2], a[3], 90)
    BY <1>8 DEF Select, UntranslatedArithmetic, UntranslatedOrders, UntranslatedTests, UntranslatedJumps
  <2>5. Unselected(i) <=> isFp(a[3])
    BY <1>8, <2>1, <2>3, Classes DEF Unselected
  <2>6. OneClass(a[2]) /\ OneClass(a[3])
    BY <2>1, Classes
  <2>7. isFp(a[3]) => SelectOffsetStore(a[1], a[2], a[3], 90) = Unhandled
    BY DEF SelectOffsetStore
  <2> QED
    BY <2>4, <2>5, <2>6, <2>7, OffsetStoreWorks, Never, GaveUp
<1>9. CASE i.op = "OFFSET_LOAD"
  <2>1. IsOperand(a[1]) /\ IsOperand(a[2]) /\ IsOperand(a[3])
    BY <1>1, <1>9 DEF ArityOf
  <2>2. ToSet(ChecksOf(i.op)) = {Written(1), PartWritten(2), Offset(3)}
    BY <1>9, Three DEF ChecksOf, MoveChecks
  <2>3. a[1].kind \in {"REG", "TEMP"} /\ GpOrMem(a[3])
    BY <2>2, Demands DEF AllPass
  <2>4. Select(i, 90) = SelectOffsetLoad(a[1], a[2], a[3], 90)
    BY <1>9 DEF Select, UntranslatedArithmetic, UntranslatedOrders, UntranslatedTests, UntranslatedJumps
  <2>5. (Unselected(i) <=> isFp(a[3])) /\ ~isConst(a[1])
    BY <1>9, <2>1, <2>3, Classes DEF Unselected
  <2>6. OneClass(a[1]) /\ OneClass(a[3])
    BY <2>1, Classes
  <2>7. isFp(a[3]) => SelectOffsetLoad(a[1], a[2], a[3], 90) = Unhandled
    BY DEF SelectOffsetLoad
  <2> QED
    BY <2>4, <2>5, <2>6, <2>7, OffsetLoadWorks, Never, GaveUp
<1>10. CASE i.op = "CALL"
  <2>1. IsOperand(a[1])
    BY <1>1, <1>10 DEF ArityOf
  <2>2. ToSet(ChecksOf(i.op)) = {CallTarget(1)}
    BY <1>10, One DEF ChecksOf, JumpChecks
  <2>3. GpOrMem(a[1])
    BY <2>2, Demands DEF AllPass
  <2>4. Select(i, 90) = SelectCall(a[1])
    BY <1>10 DEF Select, UntranslatedArithmetic, UntranslatedOrders, UntranslatedTests, UntranslatedJumps
  <2>5. Unselected(i) <=> isFp(a[1])
    BY <1>10, <2>1, <2>3, Classes DEF Unselected
  <2>6. isFp(a[1]) => SelectCall(a[1]) = Unhandled
    BY DEF SelectCall
  <2> QED
    BY <2>4, <2>5, <2>6, CallWorks, Never, GaveUp
<1> QED
  BY <1>2, <1>3, <1>4, <1>5, <1>6, <1>7, <1>8, <1>9, <1>10 DEF Moves

-----------------------------------------------------------------------------
\* The steps

\* The list of instructions grows by the one validated.
LEMMA Appended ==
  ASSUME Typed, NEW i, IsInstruction(i), checked' = Append(checked, i)
  PROVE  /\ checked' \in Seq(ToSet(checked')) /\ ToSet(checked') = ToSet(checked) \union {i}
         /\ checked' # <<>> /\ Last(checked') = i
         /\ Recorded' = Recorded \union Recordable(i) /\ WrittenBy' = WrittenBy \union Writes(i)
         /\ Earlier' = WrittenBy
         /\ Recorded' \subseteq Earlier' \union Assumed'
<1>1. /\ Len(checked) \in Nat /\ Len(checked') = Len(checked) + 1 /\ checked'[Len(checked) + 1] = i
      /\ \A k \in 1..Len(checked) : checked'[k] = checked[k]
      /\ checked' \in Seq(ToSet(checked) \union {i}) /\ DOMAIN checked' = 1..(Len(checked) + 1)
      /\ DOMAIN checked = 1..Len(checked)
  BY DEF Typed
<1>2. ToSet(checked') = ToSet(checked) \union {i}
  BY <1>1 DEF ToSet
<1>3. 1..Len(checked') = 1..Len(checked) \union {Len(checked) + 1}
  BY <1>1
<1>4. Recorded' = Recorded \union Recordable(i) /\ WrittenBy' = WrittenBy \union Writes(i)
  BY <1>1, <1>3 DEF Recorded, WrittenBy
<1>5. Earlier' = WrittenBy
  BY <1>1 DEF Earlier, WrittenBy
<1>6. Last(checked') = i /\ checked' # <<>>
  BY <1>1 DEF Last
<1>7. ASSUME NEW o \in Recorded'
      PROVE  o \in Earlier' \union Assumed'
  <2>1. PICK k \in 1..Len(checked') : o \in Recordable(checked'[k])
    BY DEF Recorded
  <2>2. IsInstruction(checked'[k])
    BY <1>1, <1>3 DEF Typed, ToSet
  <2>3. o \in Writes(checked'[k]) \/ (checked'[k].op = "OFFSET_LOAD" /\ o = checked'[k].args[2])
    BY <2>1, <2>2, RecordableFacts
  <2>4. CASE o \in Writes(checked'[k])
    BY <1>1, <1>3, <1>5, <1>6, <2>4 DEF Assumed, WrittenBy
  <2>5. CASE checked'[k].op = "OFFSET_LOAD" /\ o = checked'[k].args[2]
    BY <1>1, <2>5 DEF Assumed
  <2> QED
    BY <2>3, <2>4, <2>5
<1>8. checked' \in Seq(ToSet(checked'))
  BY <1>1, <1>2
<1> QED
  BY <1>2, <1>4, <1>5, <1>6, <1>7, <1>8

\* A use of a temporary that was given a value is accepted.
LEMMA UseAccepted ==
  ASSUME Typed, state.ok, NEW i, IsInstruction(i), i.op = "VOLATILE", i.args[1] \in WrittenBy,
         state' = Check(state, i)
  PROVE  state'.ok
<1> DEFINE o == i.args[1]
           checks == ChecksOf(i.op)
           by(places) == {RecordedArg(checks[m]) : m \in places}
           before(m) == Known(by({n \in DOMAIN checks : n < m}), i, state.temps)
           after == Known(by(DOMAIN checks), i, state.temps)
           fine == \A m \in DOMAIN checks : Passes(checks[m], i, before(m), Labels, InBlock(i), TRUE)
<1>1. state' = [temps |-> after, ok |-> (state.ok /\ fine) /\ ArchSpecific(i)]
  BY DEF Check, CheckInstruction
<1>2. DOMAIN checks = {1} /\ checks[1] = TempRead(1)
  BY DEF ChecksOf, PseudoChecks
<1>3. DOMAIN i.args = {1}
  BY DEF IsInstruction, ArityOf
<1>4. isTemp(o) /\ Defines(state.temps, o)
  BY DEF Typed, WrittenBy, Writes
<1> HIDE DEF checks
<1>5. o.name \in DOMAIN before(1) /\ before(1)[o.name] = state.temps[o.name]
  <2>1. by({n \in DOMAIN checks : n < 1}) = {}
    BY <1>2
  <2> HIDE DEF by
  <2> QED
    BY <1>4, <2>1, KnownFacts DEF Defines
<1>6. fine
  <2> HIDE DEF before
  <2>1. Passes(TempRead(1), i, before(1), Labels, InBlock(i), TRUE)
    BY <1>4, <1>5 DEF Passes, TempRead, Readable, Defines, Stored
  <2> QED
    BY <1>2, <2>1
<1>7. ArchSpecific(i)
  BY <1>3, <1>4 DEF ArchSpecific, Defines, isTemp
<1> HIDE DEF after, fine
<1>8. ((state.ok /\ fine) /\ ArchSpecific(i)) = TRUE
  BY <1>6, <1>7
<1>9. state'.ok = ((state.ok /\ fine) /\ ArchSpecific(i))
  BY <1>1
<1> QED
  BY <1>8, <1>9

\* Before anything is validated nothing is known.
LEMMA InitVInv == Init => VInv
<1> SUFFICES ASSUME Init
             PROVE  VInv
  OBVIOUS
<1>1. checked = <<>> /\ given \in DOMAIN Listings /\ state = [temps |-> <<>>, ok |-> TRUE]
  BY DEF Init
<1>2. ToSet(checked) = {} /\ 1..Len(checked) = {} /\ DOMAIN state.temps = {}
  BY <1>1 DEF ToSet
<1> QED
  BY <1>1, <1>2 DEF VInv, Typed, ReadsDefined, LabelsResolved, AcceptedSelected, WrittenBy

\* Validating one more instruction keeps the invariant.
LEMMA VStep == VInv /\ [Next]_vars => VInv'
<1> SUFFICES ASSUME VInv, [Next]_vars
             PROVE  VInv'
  OBVIOUS
<1>1. CASE UNCHANGED vars
  BY <1>1 DEF vars, VInv, Typed, Recorded, WrittenBy, ReadsDefined, LabelsResolved, Earlier, Assumed, AcceptedSelected
<1>2. CASE Next
  <2>1. PICK n \in DOMAIN Listings[given] :
          \E op \in DOMAIN Listings[given][n] : \E args \in Listings[given][n][op] : Validated(Ins(op, args))
    BY <1>2 DEF Next
  <2>2. PICK op \in DOMAIN Listings[given][n] : \E args \in Listings[given][n][op] : Validated(Ins(op, args))
    BY <2>1
  <2>3. PICK args \in Listings[given][n][op] : Validated(Ins(op, args))
    BY <2>2
  <2> DEFINE i == Ins(op, args)
  <2>4. IsInstruction(i)
    BY ListedInstruction DEF VInv, Typed
  <2> HIDE DEF i
  <2>5. state.ok /\ checked' = Append(checked, i) /\ state' = Check(state, i) /\ given' = given /\ Typed
    BY <2>3 DEF Validated, VInv, i
  <2>6. /\ checked' \in Seq(ToSet(checked')) /\ ToSet(checked') = ToSet(checked) \union {i}
        /\ checked' # <<>> /\ Last(checked') = i
        /\ Recorded' = Recorded \union Recordable(i) /\ WrittenBy' = WrittenBy \union Writes(i)
        /\ Earlier' = WrittenBy
        /\ Recorded' \subseteq Earlier' \union Assumed'
    BY <2>4, <2>5, Appended
  <2>7. /\ state' = [temps |-> state'.temps, ok |-> state'.ok] /\ state'.ok \in BOOLEAN
        /\ \A k \in DOMAIN state.temps : k \in DOMAIN state'.temps /\ state'.temps[k] = state.temps[k]
        /\ \A k \in DOMAIN state'.temps \ DOMAIN state.temps :
             state'.temps[k] \in Recordable(i) /\ state'.temps[k].name = k
        /\ state'.ok => \A o \in Writes(i) : Defines(state'.temps, o)
        /\ state'.ok /\ i.op # "JUMPTABLE" =>
             \A k \in ReadArgs(i.op) : isTemp(i.args[k]) => i.args[k] \in Recorded \union Recordable(i)
        /\ state'.ok /\ ~Unresolved(i.op) =>
             \A k \in DOMAIN i.args : isLocal(i.args[k]) =>
               i.args[k].value[2] \in Labels \/ {Offset(k), Byte(k)} \cap ToSet(ChecksOf(i.op)) # {}
        /\ state'.ok => AllPass(i)
    BY <2>4, <2>5, CheckFacts
  <2>8. Typed'
    <3>1. \A k \in DOMAIN state'.temps : state'.temps[k] \in Recorded' /\ state'.temps[k].name = k
      BY <2>5, <2>6, <2>7 DEF Typed
    <3>2. state'.ok => \A o \in WrittenBy' : Defines(state'.temps, o)
      BY <2>5, <2>6, <2>7 DEF Typed, Defines
    <3>3. \A j \in ToSet(checked') : IsInstruction(j)
      BY <2>4, <2>5, <2>6 DEF Typed
    <3> QED
      BY <2>5, <2>6, <2>7, <3>1, <3>2, <3>3 DEF Typed
  <2>9. ReadsDefined'
    <3>1. (state'.ok /\ i.op # "JUMPTABLE") =>
             \A k \in ReadArgs(i.op) : isTemp(i.args[k]) => i.args[k] \in Earlier' \union Assumed'
      BY <2>6, <2>7
    <3>2. (i.op = "VOLATILE" /\ i.args[1] \in Earlier') => state'.ok
      BY <2>4, <2>5, <2>6, UseAccepted
    <3> QED
      BY <2>6, <3>1, <3>2 DEF ReadsDefined
  <2>10. LabelsResolved'
    BY <2>6, <2>7 DEF LabelsResolved, Unresolved
  <2>11. AcceptedSelected'
    BY <2>4, <2>6, <2>7, Selected DEF AcceptedSelected
  <2> QED
    BY <2>8, <2>9, <2>10, <2>11 DEF VInv
<1> QED
  BY <1>1, <1>2

\* The validator of ir.c never accepts a read of a temporary that nothing gave a value,
\* other than the ones named in Assumed, and accepts the use of every temporary that was
\* given one: it neither forgets nor invents definitions.
THEOREM ReadsAlwaysDefined == Spec => []ReadsDefined
<1>1. VInv => ReadsDefined
  BY DEF VInv
<1> QED
  BY <1>1, InitVInv, VStep, PTL DEF Spec

\* What the validator accepts names labels that exist, except where ir.c does not look.
THEOREM LabelsAlwaysResolved == Spec => []LabelsResolved
<1>1. VInv => LabelsResolved
  BY DEF VInv
<1> QED
  BY <1>1, InitVInv, VStep, PTL DEF Spec

\* The selector of asm.c has an arm for every move and call the validator accepts, other
\* than the ones named in Unselected, and for none of those.
THEOREM AcceptedAlwaysSelected == Spec => []AcceptedSelected
<1>1. VInv => AcceptedSelected
  BY DEF VInv
<1> QED
  BY <1>1, InitVInv, VStep, PTL DEF Spec

\* Arguments as they are printed: what kind each is, and what size it has.
LEMMA OperandArgument ==
  ASSUME NEW o
  PROVE  LET a == <<"op", o>> IN
         /\ GpArg(a) <=> isGp(o)
         /\ FpArg(a) <=> isFp(o)
         /\ ~ImmArg(a)
         /\ MemArg(a) <=> o.kind = "OFFSET" \/ isMemTemp(o)
         /\ Part(a) <=> isGp(o) /\ o.size = 8
         /\ SizeOf(a) = IF o.kind = "OFFSET" THEN 0 ELSE o.size
         /\ Narrow(a)
<1> DEFINE a == <<"op", o>>
<1>1. a[1] = "op" /\ a[2] = o /\ Len(a) = 2
  OBVIOUS
<1> HIDE DEF a
<1> QED
  BY <1>1 DEF a, GpArg, FpArg, ImmArg, MemArg, Part, SizeOf, Narrow

\* An operand printed at a given size has that size.
LEMMA SizedArgument ==
  ASSUME NEW o, NEW w
  PROVE  LET a == <<"op", o, w>> IN
         /\ GpArg(a) <=> isGp(o)
         /\ FpArg(a) <=> isFp(o)
         /\ ~ImmArg(a)
         /\ MemArg(a) <=> o.kind = "OFFSET" \/ isMemTemp(o)
         /\ SizeOf(a) = w
<1> DEFINE a == <<"op", o, w>>
<1>1. a[1] = "op" /\ a[2] = o /\ Len(a) = 3 /\ a[3] = w
  OBVIOUS
<1> HIDE DEF a
<1> QED
  BY <1>1 DEF a, GpArg, FpArg, ImmArg, MemArg, SizeOf

\* A number is an immediate without a size; whether 64 bits take it is its value's matter.
LEMMA ImmediateArgument ==
  ASSUME NEW v
  PROVE  LET a == Imm(v) IN
         /\ ~GpArg(a) /\ ~FpArg(a) /\ ImmArg(a) /\ ~MemArg(a) /\ Part(a)
         /\ SizeOf(a) = 0
         /\ Narrow(a) <=> FitsImmediate(v)
<1> DEFINE a == Imm(v)
<1>1. a[1] = "imm" /\ a[2] = v
  BY DEF Imm
<1> HIDE DEF a
<1> QED
  BY <1>1 DEF a, GpArg, FpArg, ImmArg, MemArg, Part, SizeOf, Narrow

\* Arithmetic left to the assembler is an immediate that is always narrow.
LEMMA InfixArgument ==
  ASSUME NEW f, NEW c, NEW d
  PROVE  LET a == Infix(f, c, d) IN
         /\ ~GpArg(a) /\ ~FpArg(a) /\ ImmArg(a) /\ ~MemArg(a)
         /\ SizeOf(a) = 0
         /\ Narrow(a)
<1> DEFINE a == Infix(f, c, d)
<1>1. a[1] = "infix"
  BY DEF Infix
<1> HIDE DEF a
<1> QED
  BY <1>1 DEF a, GpArg, FpArg, ImmArg, MemArg, SizeOf, Narrow

\* A register named in the skeleton is a general purpose register of eight bytes.
LEMMA RegisterArgument ==
  ASSUME NEW r
  PROVE  LET a == Lit(r) IN
         GpArg(a) /\ ~FpArg(a) /\ ~ImmArg(a) /\ ~MemArg(a) /\ Part(a) /\ SizeOf(a) = 8 /\ Narrow(a)
<1> DEFINE a == Lit(r)
<1>1. a[1] = "reg"
  BY DEF Lit
<1> HIDE DEF a
<1> QED
  BY <1>1 DEF a, GpArg, FpArg, ImmArg, MemArg, Part, SizeOf, Narrow

\* The label of a fragment is neither register, number nor memory, but a part of an address.
LEMMA FragmentArgument ==
  ASSUME NEW c
  PROVE  LET a == Frag(c) IN
         ~GpArg(a) /\ ~FpArg(a) /\ ~ImmArg(a) /\ ~MemArg(a) /\ Part(a) /\ SizeOf(a) = 0 /\ a[1] = "frag"
<1> DEFINE a == Frag(c)
<1>1. a[1] = "frag"
  BY DEF Frag
<1> HIDE DEF a
<1> QED
  BY <1>1 DEF a, GpArg, FpArg, ImmArg, MemArg, Part, SizeOf

\* An address is memory if its two parts can be parts of one; its size is the one printed.
LEMMA AddressArgument ==
  ASSUME NEW w, NEW x, NEW y
  PROVE  LET a == <<"mem", w, x, y>> IN
         /\ ~GpArg(a) /\ ~FpArg(a) /\ ~ImmArg(a)
         /\ MemArg(a) <=> Part(x) /\ Part(y)
         /\ SizeOf(a) = w
         /\ Narrow(a)
<1> DEFINE a == <<"mem", w, x, y>>
<1>1. a[1] = "mem" /\ a[2] = w /\ a[3] = x /\ a[4] = y
  OBVIOUS
<1> HIDE DEF a
<1> QED
  BY <1>1 DEF a, GpArg, FpArg, ImmArg, MemArg, SizeOf, Narrow

-----------------------------------------------------------------------------
\* How a skeleton and its operands are printed

\* The operand of a slot as it is printed.
Shown(o) == IF isConst(o) THEN Imm(o.value) ELSE IF o = RSP THEN Lit("rsp") ELSE <<"op", o>>

\* What the arguments of a skeleton look like before they are printed.
LEMMA Skeletons ==
  /\ D[1] = "d" /\ Len(D) = 1 /\ U[1] = "u"
  /\ \A w : Sized(w)[1] = "d" /\ Len(Sized(w)) = 2 /\ Sized(w)[2] = w
  /\ \A v : Imm(v)[1] = "imm"
  /\ \A r : Lit(r)[1] = "reg"
  /\ \A c : Frag(c)[1] = "frag"
  /\ \A f, c, d : Infix(f, c, d)[1] = "infix"
  /\ \A w, x, y : At(w, x, y)[1] = "mem" /\ At(w, x, y)[2] = w /\ At(w, x, y)[3] = x /\ At(w, x, y)[4] = y
BY DEF D, U, Sized, Imm, Lit, Frag, Infix, At

\* The arguments that print no used operand, and the one that does.
LEMMA Taking ==
  /\ Takes(D) = 0 /\ Takes(U) = 1
  /\ \A w : Takes(Sized(w)) = 0
  /\ \A v : Takes(Imm(v)) = 0
  /\ \A r : Takes(Lit(r)) = 0
  /\ \A c : Takes(Frag(c)) = 0
BY Skeletons, Zenon DEF Takes, D, U

\* Operands one after the other: what is at which place.
LEMMA Chained ==
  ASSUME NEW S, NEW s \in Seq(S), NEW t \in Seq(S)
  PROVE  /\ s \o t \in Seq(S) /\ Len(s \o t) = Len(s) + Len(t) /\ DOMAIN (s \o t) = 1..(Len(s) + Len(t))
         /\ \A k \in 1..Len(s) : (s \o t)[k] = s[k]
         /\ \A k \in 1..Len(t) : (s \o t)[Len(s) + k] = t[k]
OBVIOUS

\* An operand whose slot is open is listed and shown as it is, any other only shown.
LEMMA Slots ==
  ASSUME NEW o
  PROVE  /\ Slot(o) = U => Used(o) = <<o>> /\ Shown(o) = <<"op", o>>
         /\ Slot(o) # U => Used(o) = <<>> /\ Shown(o) = Slot(o) /\ Slot(o)[1] \in {"imm", "reg"}
<1>1. \A v : Imm(v) # U /\ Lit(v) # U
  BY Skeletons DEF U
<1>2. isConst(o) => o # RSP
  BY DEF isConst, RSP, Reg
<1>3. CASE isConst(o)
  BY <1>1, <1>2, <1>3, Skeletons DEF Slot, Used, Shown
<1>4. CASE o = RSP
  BY <1>1, <1>2, <1>4, Skeletons DEF Slot, Used, Shown
<1>5. CASE ~isConst(o) /\ o # RSP
  BY <1>5 DEF Slot, Used, Shown
<1> QED
  BY <1>3, <1>4, <1>5

\* One place in that list for an open slot, none for another.
Place(o) == IF Slot(o) = U THEN 1 ELSE 0

\* An operand is listed where its slot is open, and nowhere else.
LEMMA UsedFacts ==
  ASSUME NEW o, NEW S, o \in S
  PROVE  /\ Used(o) \in Seq(S) /\ Len(Used(o)) = Place(o) /\ Place(o) \in {0, 1}
         /\ Place(o) = 1 => Used(o)[1] = o
<1>1. CASE Slot(o) = U
  <2>1. Used(o) = <<o>> /\ Place(o) = 1
    BY <1>1, Slots DEF Place
  <2>2. <<o>> \in Seq(S) /\ Len(<<o>>) = 1 /\ <<o>>[1] = o
    OBVIOUS
  <2> QED
    BY <2>1, <2>2
<1>2. CASE Slot(o) # U
  <2>1. Used(o) = <<>> /\ Place(o) = 0
    BY <1>2, Slots DEF Place
  <2> QED
    BY <2>1
<1> QED
  BY <1>1, <1>2

\* Where the operands of an address are listed, in the order of its slots.
LEMMA UsedPlaces ==
  ASSUME NEW b, NEW o
  PROVE  LET u == Used(b) \o Used(o) IN
         /\ Place(b) = 1 => Operand(u, 1) = Shown(b)
         /\ Place(o) = 1 => Operand(u, Place(b) + 1) = Shown(o)
<1> DEFINE S == {b, o}  u == Used(b) \o Used(o)
<1>1. /\ Used(b) \in Seq(S) /\ Len(Used(b)) = Place(b) /\ Place(b) \in {0, 1} /\ (Place(b) = 1 => Used(b)[1] = b)
      /\ Used(o) \in Seq(S) /\ Len(Used(o)) = Place(o) /\ Place(o) \in {0, 1} /\ (Place(o) = 1 => Used(o)[1] = o)
  BY UsedFacts
<1>2. /\ DOMAIN u = 1..(Place(b) + Place(o))
      /\ \A k \in 1..Place(b) : u[k] = Used(b)[k]
      /\ \A k \in 1..Place(o) : u[Place(b) + k] = Used(o)[k]
  BY <1>1, Chained
<1>3. (Place(b) = 1 => Shown(b) = <<"op", b>>) /\ (Place(o) = 1 => Shown(o) = <<"op", o>>)
  BY Slots DEF Place
<1> HIDE DEF u
<1>4. Place(b) = 1 => 1 \in DOMAIN u /\ u[1] = b
  BY <1>1, <1>2
<1>5. Place(o) = 1 => Place(b) + 1 \in DOMAIN u /\ u[Place(b) + 1] = o
  BY <1>1, <1>2
<1> QED
  BY <1>3, <1>4, <1>5 DEF u, Operand

\* The same for a value that is listed behind the operands of an address.
LEMMA UsedPlaces3 ==
  ASSUME NEW b, NEW o, NEW v
  PROVE  LET u == Used(b) \o Used(o) \o Used(v) IN
         /\ Place(b) = 1 => Operand(u, 1) = Shown(b)
         /\ Place(o) = 1 => Operand(u, Place(b) + 1) = Shown(o)
         /\ Place(v) = 1 => Operand(u, Place(b) + Place(o) + 1) = Shown(v)
<1> DEFINE S == {b, o, v}  w == Used(b) \o Used(o)  u == w \o Used(v)
<1>1. /\ Used(b) \in Seq(S) /\ Len(Used(b)) = Place(b) /\ Place(b) \in {0, 1} /\ (Place(b) = 1 => Used(b)[1] = b)
      /\ Used(o) \in Seq(S) /\ Len(Used(o)) = Place(o) /\ Place(o) \in {0, 1} /\ (Place(o) = 1 => Used(o)[1] = o)
      /\ Used(v) \in Seq(S) /\ Len(Used(v)) = Place(v) /\ Place(v) \in {0, 1} /\ (Place(v) = 1 => Used(v)[1] = v)
  BY UsedFacts
<1>2. /\ w \in Seq(S) /\ Len(w) = Place(b) + Place(o)
      /\ \A k \in 1..Place(b) : w[k] = Used(b)[k]
      /\ \A k \in 1..Place(o) : w[Place(b) + k] = Used(o)[k]
  BY <1>1, Chained
<1> HIDE DEF w, S
<1>a. w \in Seq(S) /\ Used(v) \in Seq(S)
  BY <1>1, <1>2
<1>b. DOMAIN u = 1..(Len(w) + Len(Used(v)))
  BY <1>a, Chained
<1>c. \A k \in 1..Len(w) : u[k] = w[k]
  BY <1>a, Chained
<1>d. \A k \in 1..Len(Used(v)) : u[Len(w) + k] = Used(v)[k]
  BY <1>a, Chained
<1> HIDE DEF u
<1>3. /\ DOMAIN u = 1..(Place(b) + Place(o) + Place(v))
      /\ \A k \in 1..(Place(b) + Place(o)) : u[k] = w[k]
      /\ \A k \in 1..Place(v) : u[Place(b) + Place(o) + k] = Used(v)[k]
  BY <1>b, <1>c, <1>d, <1>1, <1>2
<1>4. /\ (Place(b) = 1 => Shown(b) = <<"op", b>>) /\ (Place(o) = 1 => Shown(o) = <<"op", o>>)
      /\ (Place(v) = 1 => Shown(v) = <<"op", v>>)
  BY Slots DEF Place
<1>5. Place(b) = 1 => 1 \in DOMAIN u /\ u[1] = b
  BY <1>1, <1>2, <1>3
<1>6. Place(o) = 1 => Place(b) + 1 \in DOMAIN u /\ u[Place(b) + 1] = o
  BY <1>1, <1>2, <1>3
<1>7. Place(v) = 1 => Place(b) + Place(o) + 1 \in DOMAIN u /\ u[Place(b) + Place(o) + 1] = v
  BY <1>1, <1>3
<1>8. /\ Place(b) = 1 => Operand(u, 1) = Shown(b)
      /\ Place(o) = 1 => Operand(u, Place(b) + 1) = Shown(o)
      /\ Place(v) = 1 => Operand(u, Place(b) + Place(o) + 1) = Shown(v)
  BY <1>4, <1>5, <1>6, <1>7 DEF Operand
<1> QED
  BY <1>8 DEF u, w

\* An instruction with a defined and a used operand prints the two.
LEMMA PrintedPair ==
  ASSUME NEW op, NEW to, NEW from, NEW uses, 1 \in DOMAIN uses, uses[1] = from
  PROVE  Printed(Insn(op, <<D, U>>, <<to>>, uses)) = << <<"op", to>>, <<"op", from>> >>
<1> DEFINE i == Insn(op, <<D, U>>, <<to>>, uses)
<1>1. i.args = <<D, U>> /\ i.defs = <<to>> /\ i.uses = uses
  BY DEF Insn
<1> HIDE DEF i
<1>2. DOMAIN i.args = 1..2 /\ i.args[1] = D /\ i.args[2] = U
  BY <1>1
<1>3. TakenBefore(i, 1) = 0 /\ TakenBefore(i, 2) = 0
  BY <1>2, Taking DEF TakenBefore
<1>4. Operand(i.uses, 1) = <<"op", from>>
  BY <1>1 DEF Operand
<1>5. i.defs[1] = to
  BY <1>1
<1>6. Printed(i) = [k \in 1..2 |-> IF k = 1 THEN <<"op", to>> ELSE <<"op", from>>]
  BY <1>2, <1>3, <1>4, <1>5, Skeletons DEF Printed
<1> QED
  BY <1>6 DEF i

\* A load prints its destination and the address its used operands make.
LEMMA PrintedLoad ==
  ASSUME NEW op, NEW w, NEW d, NEW b, NEW o
  PROVE  Printed(LoadFrom(op, w, d, b, o)[1]) = << <<"op", d>>, <<"mem", w, Shown(b), Shown(o)>> >>
<1> DEFINE i == LoadFrom(op, w, d, b, o)[1]
           m == <<"mem", w, Shown(b), Shown(o)>>
<1>1. i.args = <<D, At(w, Slot(b), Slot(o))>> /\ i.defs = <<d>> /\ i.uses = Used(b) \o Used(o)
  BY DEF LoadFrom, Insn
<1> HIDE DEF i
<1>2. DOMAIN i.args = 1..2 /\ i.args[1] = D /\ i.args[2] = At(w, Slot(b), Slot(o)) /\ i.defs[1] = d
  BY <1>1
<1>3. TakenBefore(i, 1) = 0 /\ TakenBefore(i, 2) = 0
  BY <1>2, Taking DEF TakenBefore
<1>4. (IF Slot(b) = U THEN Operand(i.uses, 1) ELSE Slot(b)) = Shown(b)
  BY <1>1, UsedPlaces, Slots DEF Place
<1>5. (IF Slot(o) = U THEN Operand(i.uses, IF Slot(b) = U THEN 2 ELSE 1) ELSE Slot(o)) = Shown(o)
  BY <1>1, UsedPlaces, Slots DEF Place
<1>6. Printed(i) = [k \in 1..2 |-> IF k = 1 THEN <<"op", d>> ELSE m]
  BY <1>2, <1>3, <1>4, <1>5, Skeletons DEF Printed
<1> HIDE DEF m
<1>7. Printed(i) = << <<"op", d>>, m >>
  BY <1>6
<1> QED
  BY <1>7 DEF i, m

-----------------------------------------------------------------------------
\* What the processor asks of two arguments, whatever instruction they belong to.

Matching(a, b) == 0 \in {SizeOf(a), SizeOf(b)} \/ SizeOf(a) = SizeOf(b)

\* The width of an instruction is the size that its arguments agree on.
LEMMA WidthAgreed ==
  ASSUME NEW p, NEW x \in Nat, NEW y \in Nat, x = y \/ 0 \in {x, y},
         {SizeOf(p[k]) : k \in DOMAIN p} \ {0} = {x, y} \ {0}
  PROVE  \A n \in Nat \ {0} : WidthOf(p) = n <=> n \in {x, y}
<1> DEFINE sizes == {SizeOf(p[k]) : k \in DOMAIN p} \ {0}
<1> SUFFICES ASSUME NEW n \in Nat \ {0}
             PROVE  WidthOf(p) = n <=> n \in {x, y}
  OBVIOUS
<1>1. CASE sizes = {}
  <2>1. WidthOf(p) = 0
    BY <1>1 DEF WidthOf
  <2> QED
    BY <2>1, <1>1
<1>2. ASSUME NEW w \in Nat \ {0}, sizes = {w}
      PROVE  WidthOf(p) = w
  BY <1>2 DEF WidthOf
<1>3. CASE sizes # {}
  <2>1. PICK w \in sizes : TRUE
    BY <1>3
  <2>2. sizes = {w} /\ w \in Nat \ {0}
    BY <2>1
  <2> QED
    BY <2>2, <1>2
<1> QED
  BY <1>1, <1>3

\* For two arguments, the sizes agree exactly if they match, and the width is one of them.
LEMMA Widths ==
  ASSUME NEW p, NEW a, NEW b, SizeOf(a) \in Nat, SizeOf(b) \in Nat, p[1] = a, p[2] = b,
         DOMAIN p = 1..2 \/ (DOMAIN p = 1..3 /\ SizeOf(p[3]) = 0)
  PROVE  /\ OneSize(p) <=> Matching(a, b)
         /\ Matching(a, b) => \A n \in Nat \ {0} : WidthOf(p) = n <=> n \in {SizeOf(a), SizeOf(b)}
<1>1. OneSize(p) <=> Matching(a, b)
  BY DEF OneSize, Matching
<1>2. {SizeOf(p[k]) : k \in DOMAIN p} \ {0} = {SizeOf(a), SizeOf(b)} \ {0}
  OBVIOUS
<1> QED
  BY <1>1, <1>2, WidthAgreed DEF Matching

\* The immediate b fits an instruction as wide as its arguments.
Fitting(a, b) == ImmArg(b) /\ (8 \in {SizeOf(a), SizeOf(b)} => Narrow(b))

\* The pairs of arguments an instruction can have.
TakesPair(op, a, b) ==
  \/ /\ op = "mov" /\ Matching(a, b)
     /\ (GpArg(a) /\ (GpArg(b) \/ MemArg(b) \/ ImmArg(b))) \/ (MemArg(a) /\ (GpArg(b) \/ Fitting(a, b)))
  \/ /\ op \in {"add", "sub", "xor"} /\ Matching(a, b)
     /\ (GpArg(a) /\ (GpArg(b) \/ MemArg(b) \/ Fitting(a, b))) \/ (MemArg(a) /\ (GpArg(b) \/ Fitting(a, b)))
  \/ /\ op = "imul" /\ Matching(a, b) /\ 1 \notin {SizeOf(a), SizeOf(b)}
     /\ GpArg(a) /\ (GpArg(b) \/ MemArg(b))
  \/ op = "lea" /\ GpArg(a) /\ (MemArg(b) \/ b[1] = "frag")
  \/ op = "movsx" /\ GpArg(a) /\ (GpArg(b) \/ MemArg(b)) /\ SizeOf(a) = 2 /\ SizeOf(b) = 1
  \/ /\ op \in {"movss", "movsd", "movdqu"} /\ Matching(a, b)
     /\ (FpArg(a) /\ (FpArg(b) \/ MemArg(b))) \/ (MemArg(a) /\ FpArg(b))
  \/ /\ op \in {"movd", "movq"} /\ Matching(a, b)
     /\ (FpArg(a) /\ (GpArg(b) \/ MemArg(b))) \/ ((GpArg(a) \/ MemArg(a)) /\ FpArg(b))

\* An instruction that prints two arguments can be encoded exactly if its pair is taken.
LEMMA Accepting ==
  ASSUME NEW i, NEW p, NEW a, NEW b, i.ends = TRUE,
         Printed(i) = p, DOMAIN p = 1..2, p[1] = a, p[2] = b,
         SizeOf(a) \in Nat, SizeOf(b) \in Nat
  PROVE  i.op # "rep movs" => (Encodable(i) <=> TakesPair(i.op, a, b))
<1>1. /\ OneSize(p) <=> Matching(a, b)
      /\ Matching(a, b) => (WidthOf(p) = 8 <=> 8 \in {SizeOf(a), SizeOf(b)})
      /\ Matching(a, b) => (WidthOf(p) = 1 <=> 1 \in {SizeOf(a), SizeOf(b)})
  BY Widths
<1>2. Len(p) # 3
  OBVIOUS
<1>3. CASE i.op = "mov"
  <2>1. Encodable(i) <=> Matching(a, b) /\
          ((GpArg(a) /\ (GpArg(b) \/ MemArg(b) \/ ImmArg(b))) \/ (MemArg(a) /\ (GpArg(b) \/ Fitting(a, b))))
    BY <1>1, <1>3 DEF Encodable, Forms, Fitting
  <2> QED
    BY <2>1, <1>3 DEF TakesPair
<1>4. CASE i.op \in {"add", "sub", "xor"}
  <2>1. Encodable(i) <=> Matching(a, b) /\
          \/ GpArg(a) /\ (GpArg(b) \/ MemArg(b) \/ Fitting(a, b))
          \/ MemArg(a) /\ (GpArg(b) \/ Fitting(a, b))
    BY <1>1, <1>4 DEF Encodable, Forms, Fitting
  <2> QED
    BY <2>1, <1>4 DEF TakesPair
<1>5. CASE i.op = "imul"
  BY <1>1, <1>2, <1>5 DEF Encodable, Forms, TakesPair
<1>6. CASE i.op = "lea"
  BY <1>6 DEF Encodable, Forms, TakesPair
<1>7. CASE i.op = "movsx"
  BY <1>7 DEF Encodable, Forms, TakesPair
<1>8. CASE i.op \in {"movss", "movsd", "movdqu"}
  BY <1>1, <1>8 DEF Encodable, Forms, TakesPair
<1>9. CASE i.op \in {"movd", "movq"}
  BY <1>1, <1>9 DEF Encodable, Forms, TakesPair
<1>10. CASE i.op \notin {"mov", "add", "sub", "xor", "imul", "lea", "movsx", "movss", "movsd", "movdqu", "movd", "movq"}
  BY <1>10 DEF Encodable, Forms, TakesPair
<1> QED
  BY <1>3, <1>4, <1>5, <1>6, <1>7, <1>8, <1>9, <1>10

-----------------------------------------------------------------------------
\* What the processor asks of the operands of one selected instruction

InMemory(o) == o.kind = "OFFSET" \/ isMemTemp(o)
Extent(o)   == IF o.kind = "OFFSET" THEN 0 ELSE o.size
Agree(d, s) == 0 \in {Extent(d), Extent(s)} \/ Extent(d) = Extent(s)

TakesOperands(op, d, s) ==
  \/ /\ op \in {"mov", "add", "sub", "xor"} /\ Agree(d, s)
     /\ (isGp(d) /\ (isGp(s) \/ InMemory(s))) \/ (InMemory(d) /\ isGp(s))
  \/ /\ op = "imul" /\ Agree(d, s) /\ 1 \notin {Extent(d), Extent(s)}
     /\ isGp(d) /\ (isGp(s) \/ InMemory(s))
  \/ op = "lea" /\ isGp(d) /\ InMemory(s)
  \/ op = "movsx" /\ isGp(d) /\ (isGp(s) \/ InMemory(s)) /\ Extent(d) = 2 /\ Extent(s) = 1
  \/ /\ op \in {"movss", "movsd", "movdqu"} /\ Agree(d, s)
     /\ (isFp(d) /\ (isFp(s) \/ InMemory(s))) \/ (InMemory(d) /\ isFp(s))
  \/ /\ op \in {"movd", "movq"} /\ Agree(d, s)
     /\ (isFp(d) /\ (isGp(s) \/ InMemory(s))) \/ ((isGp(d) \/ InMemory(d)) /\ isFp(s))

\* For two operands printed as they are, what they are and how large decides.
LEMMA TwoOperands ==
  ASSUME NEW i, NEW d, NEW s, i.ends = TRUE,
         Printed(i) = << <<"op", d>>, <<"op", s>> >>, Extent(d) \in Nat, Extent(s) \in Nat
  PROVE  i.op # "rep movs" => (Encodable(i) <=> TakesOperands(i.op, d, s))
<1> DEFINE a == <<"op", d>>  b == <<"op", s>>  p == <<a, b>>
<1>1. /\ GpArg(a) <=> isGp(d)
      /\ FpArg(a) <=> isFp(d)
      /\ ~ImmArg(a)
      /\ MemArg(a) <=> InMemory(d)
      /\ SizeOf(a) = Extent(d)
  BY OperandArgument DEF InMemory, Extent
<1>2. /\ GpArg(b) <=> isGp(s)
      /\ FpArg(b) <=> isFp(s)
      /\ ~ImmArg(b)
      /\ MemArg(b) <=> InMemory(s)
      /\ SizeOf(b) = Extent(s)
      /\ b[1] # "frag"
  BY OperandArgument DEF InMemory, Extent
<1> HIDE DEF a, b
<1>3. DOMAIN p = 1..2 /\ p[1] = a /\ p[2] = b
  OBVIOUS
<1>4. Printed(i) = p
  BY DEF a, b
<1> HIDE DEF p
<1>5. Matching(a, b) <=> Agree(d, s)
  BY <1>1, <1>2 DEF Matching, Agree
<1>6. i.op # "rep movs" => (Encodable(i) <=> TakesPair(i.op, a, b))
  BY <1>1, <1>2, <1>3, <1>4, Accepting
<1> QED
  BY <1>1, <1>2, <1>5, <1>6 DEF Fitting, TakesPair, TakesOperands

-----------------------------------------------------------------------------
\* Whether an instruction can be encoded does not depend on what MOVES says of it.
LEMMA Alike ==
  ASSUME NEW i, NEW j, i.args = j.args, i.defs = j.defs, i.uses = j.uses, i.op = j.op, i.ends = j.ends
  PROVE  Encodable(i) <=> Encodable(j)
<1>1. Printed(i) = Printed(j)
  BY DEF Printed, TakenBefore
<1> QED
  BY <1>1 DEF Encodable

\* Marking an instruction as a move changes nothing that is printed.
LEMMA Moved ==
  ASSUME NEW op, NEW args, NEW defs, NEW uses, NEW j, NEW k
  PROVE  Encodable(Moving(Insn(op, args, defs, uses), j, k)) <=> Encodable(Insn(op, args, defs, uses))
BY Alike DEF Moving, Insn

\* The three ways the selector builds an instruction of two operands.
LEMMA CopyTakes ==
  ASSUME NEW op, NEW d, NEW s, Extent(d) \in Nat, Extent(s) \in Nat
  PROVE  op # "rep movs" => /\ Encodable(Plain(op, d, s)) <=> TakesOperands(op, d, s)
                            /\ Encodable(Copy(op, d, s)) <=> TakesOperands(op, d, s)
                            /\ Encodable(Combine(op, d, s)) <=> TakesOperands(op, d, s)
<1> DEFINE i == Insn(op, <<D, U>>, <<d>>, <<s>>)  j == Insn(op, <<D, U>>, <<d>>, <<s, d>>)
<1>1. Printed(i) = << <<"op", d>>, <<"op", s>> >>
  BY PrintedPair
<1>2. Printed(j) = << <<"op", d>>, <<"op", s>> >>
  BY PrintedPair
<1>3. i.ends = TRUE /\ i.op = op
  BY DEF Insn
<1>4. j.ends = TRUE /\ j.op = op
  BY DEF Insn
<1>5. Plain(op, d, s) = i /\ Combine(op, d, s) = j
  BY DEF Plain, Combine
<1>6. Encodable(Copy(op, d, s)) <=> Encodable(i)
  BY Moved DEF Copy
<1> HIDE DEF i, j
<1>7. op # "rep movs" => (Encodable(i) <=> TakesOperands(op, d, s))
  BY <1>1, <1>3, TwoOperands
<1>8. op # "rep movs" => (Encodable(j) <=> TakesOperands(op, d, s))
  BY <1>2, <1>4, TwoOperands
<1> QED
  BY <1>5, <1>6, <1>7, <1>8

\* The operands of ir.h whose size is a number of bytes.
Sizable(o) == IsOperand(o) /\ o.size \in Nat

\* The operands the processor can make an address of, as the selector prints them.
Addressing(o) == isConst(o) \/ (isGp(o) /\ o.size = 8)

\* An operand of ir.h is a constant, in a register or in memory, and only one of them.
LEMMA OperandFacts ==
  ASSUME NEW o, Sizable(o)
  PROVE  /\ isConst(o) \/ isGp(o) \/ isFp(o) \/ isMemTemp(o)
         /\ isGp(o) => ~isFp(o) /\ ~isMemTemp(o) /\ ~isConst(o)
         /\ isFp(o) => ~isMemTemp(o) /\ ~isConst(o)
         /\ isMemTemp(o) => ~isConst(o)
         /\ o.kind # "OFFSET" /\ (InMemory(o) <=> isMemTemp(o)) /\ Extent(o) = o.size /\ Extent(o) \in Nat
BY DEF Sizable, IsOperand, AlignedTemp, Reg, Const, isGp, isFp, isMemTemp, isConst, InMemory, Extent,
       isGpReg, isFpReg, isGpTemp, isFpTemp, GpRegisters, FpRegisters

\* Widening an operand to two bytes leaves it where it is.
LEMMA Widened ==
  ASSUME NEW o, Sizable(o), ~isConst(o)
  PROVE  Wide(o).size = 2 /\ Wide(o).kind # "OFFSET" /\ (isGp(Wide(o)) <=> isGp(o)) /\ Extent(Wide(o)) = 2
BY DEF Sizable, IsOperand, AlignedTemp, Reg, Const, isGp, isConst, Extent, isGpReg, isGpTemp, Wide

\* A patch is a register of the kind asked for, as large as the operand it stands for.
LEMMA PatchFacts ==
  ASSUME NEW o, NEW n
  PROVE  /\ isGp(Patch(o, n, "GP")) /\ ~isFp(Patch(o, n, "GP"))
         /\ isFp(Patch(o, n, "FP")) /\ ~isGp(Patch(o, n, "FP"))
         /\ \A hint \in {"GP", "FP"} : LET p == Patch(o, n, hint) IN
              /\ ~isMemTemp(p) /\ ~isConst(p) /\ ~InMemory(p) /\ p # RSP
              /\ p.size = o.size /\ Extent(p) = o.size /\ p.kind # "OFFSET"
BY DEF Patch, Temp, AlignedTemp, isGp, isFp, isMemTemp, isConst, InMemory, Extent, RSP, Reg,
       isGpReg, isFpReg, isGpTemp, isFpTemp

\* A patch can be widened too.
LEMMA WidePatch ==
  ASSUME NEW o, NEW n
  PROVE  isGp(Wide(Patch(o, n, "GP"))) /\ Extent(Wide(Patch(o, n, "GP"))) = 2
BY DEF Patch, Temp, AlignedTemp, isGp, Extent, isGpReg, isGpTemp, Wide

\* The registers the selector names by itself.
LEMMA MachineFacts ==
  /\ \A r \in {RSI, RDI, RCX, RSP} : isGp(r) /\ ~isFp(r) /\ r.size = 8 /\ ~isConst(r) /\ ~isMemTemp(r) /\ Extent(r) = 8
  /\ RSI.name = "rsi" /\ RDI.name = "rdi"
BY DEF RSI, RDI, RCX, RSP, Reg, isGp, isFp, isConst, isMemTemp, isGpReg, isFpReg, isGpTemp, isFpTemp, GpRegisters, FpRegisters, Extent

\* A part of a temporary is in memory, and has no size of its own.
LEMMA PartFacts ==
  ASSUME NEW b, NEW o
  PROVE  LET p == Inside(b, o) IN
         InMemory(p) /\ Extent(p) = 0 /\ ~isGp(p) /\ ~isFp(p) /\ ~isConst(p)
BY DEF Inside, InMemory, Extent, isGp, isFp, isConst, isGpReg, isGpTemp, isFpReg, isFpTemp

\* The sign extension of a byte prints its destination two bytes wide.
LEMMA MovsxTakes ==
  ASSUME NEW d, NEW s, Extent(Wide(d)) \in Nat, Extent(s) \in Nat
  PROVE  Encodable(Movsx(d, s)) <=> TakesOperands("movsx", Wide(d), s)
<1>1. Movsx(d, s) = Plain("movsx", Wide(d), s)
  BY DEF Movsx, Plain
<1> QED
  BY <1>1, CopyTakes

-----------------------------------------------------------------------------
\* An operand beside an argument that is printed as it stands.
LEMMA PrintedBeside ==
  ASSUME NEW op, NEW x, NEW d, NEW uses, x[1] \in {"imm", "infix", "frag"}
  PROVE  Printed(Insn(op, <<D, x>>, <<d>>, uses)) = << <<"op", d>>, x >>
<1> DEFINE i == Insn(op, <<D, x>>, <<d>>, uses)
<1>1. i.args = <<D, x>> /\ i.defs = <<d>>
  BY DEF Insn
<1> HIDE DEF i
<1>2. DOMAIN i.args = 1..2 /\ i.args[1] = D /\ i.args[2] = x /\ i.defs[1] = d
  BY <1>1
<1>3. Printed(i) = [k \in 1..2 |-> IF k = 1 THEN <<"op", d>> ELSE x]
  BY <1>2, Skeletons DEF Printed
<1> QED
  BY <1>3 DEF i

TakesImmediate(op, d, v) ==
  \/ op = "mov" /\ (isGp(d) \/ (InMemory(d) /\ (Extent(d) = 8 => FitsImmediate(v))))
  \/ op \in {"add", "sub", "xor"} /\ (isGp(d) \/ InMemory(d)) /\ (Extent(d) = 8 => FitsImmediate(v))

\* An instruction with a number in the skeleton prints its destination and the number.
LEMMA ImmediateTakes ==
  ASSUME NEW op, NEW d, NEW v, NEW uses, Extent(d) \in Nat
  PROVE  op # "rep movs" => (Encodable(Insn(op, <<D, Imm(v)>>, <<d>>, uses)) <=> TakesImmediate(op, d, v))
<1> DEFINE i == Insn(op, <<D, Imm(v)>>, <<d>>, uses)  a == <<"op", d>>  b == Imm(v)  p == <<a, b>>
<1>1. /\ GpArg(a) <=> isGp(d)
      /\ FpArg(a) <=> isFp(d)
      /\ ~ImmArg(a)
      /\ MemArg(a) <=> InMemory(d)
      /\ SizeOf(a) = Extent(d)
  BY OperandArgument DEF InMemory, Extent
<1>2. /\ ~GpArg(b) /\ ~FpArg(b) /\ ImmArg(b) /\ ~MemArg(b)
      /\ SizeOf(b) = 0
      /\ Narrow(b) <=> FitsImmediate(v)
      /\ b[1] = "imm"
  BY ImmediateArgument, Skeletons
<1>0. SizeOf(a) \in Nat /\ SizeOf(b) \in Nat
  BY <1>1, <1>2
<1>3. Printed(i) = p
  BY Skeletons, PrintedBeside
<1>4. i.ends = TRUE /\ i.op = op
  BY DEF Insn
<1> HIDE DEF i, a, b
<1>5. DOMAIN p = 1..2 /\ p[1] = a /\ p[2] = b
  OBVIOUS
<1> HIDE DEF p
<1>6. op # "rep movs" => (Encodable(i) <=> TakesPair(op, a, b))
  BY <1>0, <1>3, <1>4, <1>5, Accepting
<1>7. Matching(a, b)
  BY <1>2 DEF Matching
<1>8. Fitting(a, b) <=> (Extent(d) = 8 => FitsImmediate(v))
  BY <1>1, <1>2 DEF Fitting
<1> HIDE DEF a, b
<1>9. TakesPair(op, a, b) <=> TakesImmediate(op, d, v)
  BY <1>1, <1>2, <1>7, <1>8 DEF TakesPair, TakesImmediate
<1> QED
  BY <1>6, <1>9 DEF i

\* Arithmetic left to the assembler always fits.
LEMMA InfixTakes ==
  ASSUME NEW f, NEW c, NEW e, NEW d, NEW uses, Extent(d) \in Nat
  PROVE  Encodable(Insn("mov", <<D, Infix(f, c, e)>>, <<d>>, uses)) <=> isGp(d) \/ InMemory(d)
<1> DEFINE i == Insn("mov", <<D, Infix(f, c, e)>>, <<d>>, uses)  a == <<"op", d>>  b == Infix(f, c, e)  p == <<a, b>>
<1>1. /\ GpArg(a) <=> isGp(d)
      /\ MemArg(a) <=> InMemory(d)
      /\ SizeOf(a) = Extent(d)
  BY OperandArgument DEF InMemory, Extent
<1>2. ImmArg(b) /\ SizeOf(b) = 0 /\ Narrow(b) /\ b[1] = "infix"
  BY InfixArgument, Skeletons
<1>0. SizeOf(a) \in Nat /\ SizeOf(b) \in Nat
  BY <1>1, <1>2
<1>3. Printed(i) = p
  BY Skeletons, PrintedBeside
<1>4. i.ends = TRUE /\ i.op = "mov"
  BY DEF Insn
<1> HIDE DEF i, a, b
<1>5. DOMAIN p = 1..2 /\ p[1] = a /\ p[2] = b
  OBVIOUS
<1> HIDE DEF p
<1>6. Encodable(i) <=> TakesPair("mov", a, b)
  BY <1>0, <1>3, <1>4, <1>5, Accepting
<1>7. Matching(a, b) /\ Fitting(a, b)
  BY <1>2 DEF Matching, Fitting
<1>9. TakesPair("mov", a, b) <=> isGp(d) \/ InMemory(d)
  BY <1>1, <1>2, <1>7 DEF TakesPair
<1> QED
  BY <1>6, <1>9 DEF i

\* A constant behind a printed size fits unless it needs 64 bits.
LEMMA SizedTakes ==
  ASSUME NEW w \in Nat, NEW v, NEW d
  PROVE  Encodable(Insn("mov", <<Sized(w), Imm(v)>>, <<d>>, <<>>)) <=>
           isGp(d) \/ (InMemory(d) /\ (w = 8 => FitsImmediate(v)))
<1> DEFINE i == Insn("mov", <<Sized(w), Imm(v)>>, <<d>>, <<>>)  a == <<"op", d, w>>  b == Imm(v)  p == <<a, b>>
<1>1. /\ GpArg(a) <=> isGp(d)
      /\ MemArg(a) <=> InMemory(d)
      /\ SizeOf(a) = w
  BY SizedArgument DEF InMemory
<1>2. /\ ~GpArg(b) /\ ~FpArg(b) /\ ImmArg(b) /\ ~MemArg(b)
      /\ SizeOf(b) = 0
      /\ Narrow(b) <=> FitsImmediate(v)
      /\ b[1] = "imm"
  BY ImmediateArgument, Skeletons
<1>0. SizeOf(a) \in Nat /\ SizeOf(b) \in Nat
  BY <1>1, <1>2
<1>3. i.ends = TRUE /\ i.op = "mov" /\ i.args = <<Sized(w), Imm(v)>> /\ i.defs = <<d>>
  BY DEF Insn
<1> HIDE DEF i, b
<1>4. DOMAIN i.args = 1..2 /\ i.args[1] = Sized(w) /\ i.args[2] = b /\ i.defs[1] = d
  BY <1>3 DEF b
<1> HIDE DEF a
<1>5. Printed(i) = [k \in 1..2 |-> IF k = 1 THEN a ELSE b]
  BY <1>2, <1>4, Skeletons DEF Printed, a
<1>6. Printed(i) = p /\ DOMAIN p = 1..2 /\ p[1] = a /\ p[2] = b
  BY <1>5
<1> HIDE DEF p
<1>7. Encodable(i) <=> TakesPair("mov", a, b)
  BY <1>0, <1>3, <1>6, Accepting
<1>8. Matching(a, b) /\ (Fitting(a, b) <=> (w = 8 => FitsImmediate(v)))
  BY <1>1, <1>2 DEF Matching, Fitting
<1>9. TakesPair("mov", a, b) <=> isGp(d) \/ (InMemory(d) /\ (w = 8 => FitsImmediate(v)))
  BY <1>1, <1>2, <1>8 DEF TakesPair
<1> QED
  BY <1>7, <1>9 DEF i, b

-----------------------------------------------------------------------------
\* What is shown of an operand: a part of an address, or a value to be stored.
LEMMA ShownFacts ==
  ASSUME NEW o, o.kind # "OFFSET"
  PROVE  /\ Part(Shown(o)) <=> Addressing(o)
         /\ GpArg(Shown(o)) <=> isGp(o)
         /\ FpArg(Shown(o)) <=> isFp(o)
         /\ ImmArg(Shown(o)) <=> isConst(o)
         /\ SizeOf(Shown(o)) = IF isConst(o) THEN 0 ELSE o.size
         /\ Narrow(Shown(o)) <=> (isConst(o) => FitsImmediate(o.value))
<1>0. isConst(o) => ~isGp(o) /\ ~isFp(o)
  BY DEF isConst, isGp, isFp, isGpReg, isGpTemp, isFpReg, isFpTemp
<1>1. CASE isConst(o)
  <2>1. Shown(o) = Imm(o.value)
    BY <1>1 DEF Shown
  <2> QED
    BY <2>1, <1>0, <1>1, ImmediateArgument DEF Addressing
<1>2. CASE ~isConst(o) /\ o = RSP
  <2>1. Shown(o) = Lit("rsp")
    BY <1>2 DEF Shown
  <2>2. isGp(o) /\ ~isFp(o) /\ o.size = 8
    BY <1>2, MachineFacts
  <2>3. Part(Shown(o)) /\ GpArg(Shown(o)) /\ ~FpArg(Shown(o)) /\ ~ImmArg(Shown(o)) /\ SizeOf(Shown(o)) = 8 /\ Narrow(Shown(o))
    BY <2>1, RegisterArgument
  <2> QED
    BY <2>2, <2>3, <1>2 DEF Addressing
<1>3. CASE ~isConst(o) /\ o # RSP
  <2>1. Shown(o) = <<"op", o>>
    BY <1>3 DEF Shown
  <2> QED
    BY <2>1, <1>3, OperandArgument DEF Addressing
<1> QED
  BY <1>1, <1>2, <1>3

\* How an address of w bytes at b + o is printed.
LEMMA ShownAddress ==
  ASSUME NEW w, NEW b, NEW o, b.kind # "OFFSET", o.kind # "OFFSET"
  PROVE  LET a == <<"mem", w, Shown(b), Shown(o)>> IN
         /\ ~GpArg(a) /\ ~FpArg(a) /\ ~ImmArg(a)
         /\ MemArg(a) <=> Addressing(b) /\ Addressing(o)
         /\ SizeOf(a) = w
BY AddressArgument, ShownFacts

-----------------------------------------------------------------------------
\* Taking the address of an operand prints the register and the operand.
LEMMA PrintedLea ==
  ASSUME NEW r, NEW defs, NEW o
  PROVE  Printed(Insn("lea", <<Lit(r), U>>, defs, <<o>>)) = << Lit(r), <<"op", o>> >>
<1> DEFINE i == Insn("lea", <<Lit(r), U>>, defs, <<o>>)  x == Lit(r)
<1>1. i.args = <<x, U>> /\ i.uses = <<o>>
  BY DEF Insn
<1>2. x[1] = "reg" /\ Takes(x) = 0
  BY Skeletons, Taking
<1> HIDE DEF i, x
<1>3. DOMAIN i.args = 1..2 /\ i.args[1] = x /\ i.args[2] = U
  BY <1>1
<1>4. TakenBefore(i, 1) = 0 /\ TakenBefore(i, 2) = 0
  BY <1>2, <1>3 DEF TakenBefore
<1>5. Operand(i.uses, 1) = <<"op", o>>
  BY <1>1 DEF Operand
<1>6. Printed(i) = [k \in 1..2 |-> IF k = 1 THEN x ELSE <<"op", o>>]
  BY <1>2, <1>3, <1>4, <1>5, Skeletons DEF Printed
<1> QED
  BY <1>6 DEF i, x

\* The same into a register that the skeleton names.
LEMMA PrintedLeaAt ==
  ASSUME NEW r, NEW defs, NEW b, NEW o
  PROVE  Printed(Insn("lea", <<Lit(r), At(0, Slot(b), Slot(o))>>, defs, Used(b) \o Used(o)))
           = << Lit(r), <<"mem", 0, Shown(b), Shown(o)>> >>
<1> DEFINE i == Insn("lea", <<Lit(r), At(0, Slot(b), Slot(o))>>, defs, Used(b) \o Used(o))
           x == Lit(r)
           m == <<"mem", 0, Shown(b), Shown(o)>>
<1>1. i.args = <<x, At(0, Slot(b), Slot(o))>> /\ i.uses = Used(b) \o Used(o)
  BY DEF Insn
<1>2. x[1] = "reg" /\ Takes(x) = 0
  BY Skeletons, Taking
<1> HIDE DEF i, x
<1>3. DOMAIN i.args = 1..2 /\ i.args[1] = x /\ i.args[2] = At(0, Slot(b), Slot(o))
  BY <1>1
<1>4. TakenBefore(i, 1) = 0 /\ TakenBefore(i, 2) = 0
  BY <1>2, <1>3 DEF TakenBefore
<1>5. (IF Slot(b) = U THEN Operand(i.uses, 1) ELSE Slot(b)) = Shown(b)
  BY <1>1, UsedPlaces, Slots DEF Place
<1>6. (IF Slot(o) = U THEN Operand(i.uses, IF Slot(b) = U THEN 2 ELSE 1) ELSE Slot(o)) = Shown(o)
  BY <1>1, UsedPlaces, Slots DEF Place
<1>7. Printed(i) = [k \in 1..2 |-> IF k = 1 THEN x ELSE m]
  BY <1>2, <1>3, <1>4, <1>5, <1>6, Skeletons DEF Printed
<1> HIDE DEF m
<1>8. Printed(i) = <<x, m>>
  BY <1>7
<1> QED
  BY <1>8 DEF i, m, x

\* The address of an operand can be taken exactly if it is in memory.
LEMMA LeaTakes ==
  ASSUME NEW r, NEW o, Extent(o) \in Nat
  PROVE  Encodable(LeaTemp(r, o)) <=> InMemory(o)
<1> DEFINE i == LeaTemp(r, o)  a == Lit(r.name)  b == <<"op", o>>  p == <<a, b>>
<1>1. GpArg(a) /\ SizeOf(a) = 8
  BY RegisterArgument
<1>2. (MemArg(b) <=> InMemory(o)) /\ SizeOf(b) = Extent(o)
  BY OperandArgument DEF InMemory, Extent
<1>3. b[1] # "frag"
  OBVIOUS
<1>4. i.ends = TRUE /\ i.op = "lea"
  BY DEF LeaTemp, Insn
<1>5. Printed(i) = p
  BY PrintedLea DEF LeaTemp
<1> HIDE DEF i, a, b
<1>6. DOMAIN p = 1..2 /\ p[1] = a /\ p[2] = b
  OBVIOUS
<1> HIDE DEF p
<1>7. SizeOf(a) \in Nat /\ SizeOf(b) \in Nat
  BY <1>1, <1>2
<1>8. Encodable(i) <=> TakesPair("lea", a, b)
  BY <1>4, <1>5, <1>6, <1>7, Accepting
<1>9. TakesPair("lea", a, b) <=> InMemory(o)
  BY <1>1, <1>2, <1>3 DEF TakesPair
<1> QED
  BY <1>8, <1>9 DEF i

\* An address can be computed exactly if the processor can add its two parts.
LEMMA LeaAtTakes ==
  ASSUME NEW r, NEW b, NEW o, b.kind # "OFFSET", o.kind # "OFFSET"
  PROVE  Encodable(LeaAt(r, b, o)) <=> Addressing(b) /\ Addressing(o)
<1> DEFINE i == LeaAt(r, b, o)  a == Lit(r.name)  m == <<"mem", 0, Shown(b), Shown(o)>>  p == <<a, m>>
<1>1. GpArg(a) /\ SizeOf(a) = 8
  BY RegisterArgument
<1>2. (MemArg(m) <=> Addressing(b) /\ Addressing(o)) /\ SizeOf(m) = 0
  BY ShownAddress
<1>3. m[1] # "frag"
  OBVIOUS
<1>4. i.ends = TRUE /\ i.op = "lea"
  BY DEF LeaAt, Insn
<1>5. Printed(i) = p
  BY PrintedLeaAt DEF LeaAt
<1> HIDE DEF i, a, m
<1>6. DOMAIN p = 1..2 /\ p[1] = a /\ p[2] = m
  OBVIOUS
<1> HIDE DEF p
<1>7. SizeOf(a) \in Nat /\ SizeOf(m) \in Nat
  BY <1>1, <1>2
<1>8. Encodable(i) <=> TakesPair("lea", a, m)
  BY <1>4, <1>5, <1>6, <1>7, Accepting
<1>9. TakesPair("lea", a, m) <=> Addressing(b) /\ Addressing(o)
  BY <1>1, <1>2, <1>3 DEF TakesPair
<1> QED
  BY <1>8, <1>9 DEF i

\* The address of a fragment can always be taken.
LEMMA LeaFragTakes ==
  ASSUME NEW r, NEW c
  PROVE  Encodable(LeaFrag(r, c))
<1> DEFINE i == LeaFrag(r, c)  a == Lit(r.name)  b == Frag(c)  p == <<a, b>>
<1>1. GpArg(a) /\ SizeOf(a) = 8 /\ SizeOf(b) = 0
  BY RegisterArgument, FragmentArgument
<1>2. a[1] = "reg" /\ b[1] = "frag"
  BY Skeletons
<1>3. i.args = p
  BY DEF LeaFrag, Insn
<1>4. i.ends = TRUE /\ i.op = "lea"
  BY DEF LeaFrag, Insn
<1> HIDE DEF i, a, b
<1>5. DOMAIN p = 1..2 /\ p[1] = a /\ p[2] = b
  OBVIOUS
<1> HIDE DEF p
<1>6. Printed(i) = [k \in 1..2 |-> IF k = 1 THEN a ELSE b]
  BY <1>2, <1>3, <1>5 DEF Printed
<1>7. Encodable(i)
  BY <1>1, <1>2, <1>4, <1>6 DEF Encodable, Forms
<1> QED
  BY <1>7 DEF i

\* A slip of LoadMemGp: the address of the destination is to be taken, and is not used.
LEMMA LeaOfNothing ==
  ASSUME NEW r, NEW defs
  PROVE  ~Encodable(Insn("lea", <<Lit(r), U>>, defs, <<>>))
<1> DEFINE i == Insn("lea", <<Lit(r), U>>, defs, <<>>)  x == Lit(r)
<1>1. i.args = <<x, U>> /\ i.uses = <<>> /\ i.op = "lea"
  BY DEF Insn
<1>2. x[1] = "reg" /\ Takes(x) = 0
  BY Skeletons, Taking
<1> HIDE DEF i, x
<1>3. DOMAIN i.args = 1..2 /\ i.args[1] = x /\ i.args[2] = U
  BY <1>1
<1>4. TakenBefore(i, 2) = 0
  BY <1>2, <1>3 DEF TakenBefore
<1>5. Operand(i.uses, 1) = <<"missing">>
  BY <1>1 DEF Operand
<1>6. Printed(i)[2] = <<"missing">>
  BY <1>3, <1>4, <1>5, Skeletons DEF Printed
<1>7. ~MemArg(<<"missing">>)
  BY DEF MemArg
<1>8. <<"missing">>[1] # "frag"
  OBVIOUS
<1>9. ~Encodable(i)
  BY <1>1, <1>6, <1>7, <1>8 DEF Encodable, Forms
<1> QED
  BY <1>9 DEF i

-----------------------------------------------------------------------------
\* A store prints the address its first operands make, and its value.
LEMMA PrintedStore ==
  ASSUME NEW op, NEW w, NEW b, NEW o, NEW v
  PROVE  Printed(StoreTo(op, w, b, o, v)[1]) = << <<"mem", w, Shown(b), Shown(o)>>, Shown(v) >>
<1> DEFINE i == StoreTo(op, w, b, o, v)[1]
           m == <<"mem", w, Shown(b), Shown(o)>>
<1>1. i.args = <<At(w, Slot(b), Slot(o)), Slot(v)>> /\ i.uses = Used(b) \o Used(o) \o Used(v)
  BY DEF StoreTo, Insn
<1> HIDE DEF i
<1>2. DOMAIN i.args = 1..2 /\ i.args[1] = At(w, Slot(b), Slot(o)) /\ i.args[2] = Slot(v)
  BY <1>1
<1>3. TakenBefore(i, 1) = 0
  BY <1>2 DEF TakenBefore
<1>4. TakenBefore(i, 2) = Place(b) + Place(o)
  BY <1>2, Skeletons DEF TakenBefore, Takes, Place
<1>5. (IF Slot(b) = U THEN Operand(i.uses, 1) ELSE Slot(b)) = Shown(b)
  BY <1>1, UsedPlaces3, Slots DEF Place
<1>6. (IF Slot(o) = U THEN Operand(i.uses, IF Slot(b) = U THEN 2 ELSE 1) ELSE Slot(o)) = Shown(o)
  BY <1>1, UsedPlaces3, Slots DEF Place
<1>7. (IF Slot(v) = U THEN Operand(i.uses, TakenBefore(i, 2) + 1) ELSE Slot(v)) = Shown(v)
  BY <1>1, <1>4, UsedPlaces3, Slots DEF Place
<1>8. Slot(v) = U \/ Slot(v)[1] \in {"imm", "reg"}
  BY Slots
<1>9. Printed(i)[1] = m
  BY <1>2, <1>3, <1>5, <1>6, Skeletons DEF Printed
<1>10. Printed(i)[2] = Shown(v)
  BY <1>2, <1>7, <1>8, Skeletons DEF Printed
<1>11. Printed(i) = [k \in 1..2 |-> IF k = 1 THEN m ELSE Shown(v)]
  BY <1>2, <1>9, <1>10 DEF Printed
<1> HIDE DEF m
<1>12. Printed(i) = <<m, Shown(v)>>
  BY <1>11
<1> QED
  BY <1>12 DEF i, m

\* A store is taken if its address is one and its value is in a register of the right kind,
\* or is a number that fits.
LEMMA StoreTakes ==
  ASSUME NEW w \in Nat, NEW b, NEW o, NEW v, b.kind # "OFFSET", o.kind # "OFFSET", v.kind # "OFFSET",
         v.size \in Nat, w \in {0, v.size}
  PROVE  /\ Encodable(StoreTo("mov", w, b, o, v)[1]) <=>
              /\ Addressing(b) /\ Addressing(o)
              /\ isGp(v) \/ (isConst(v) /\ (w = 8 => FitsImmediate(v.value)))
         /\ \A op \in {"movss", "movsd", "movdqu"} :
              Encodable(StoreTo(op, w, b, o, v)[1]) <=> Addressing(b) /\ Addressing(o) /\ isFp(v)
<1> DEFINE a == <<"mem", w, Shown(b), Shown(o)>>  s == Shown(v)  p == <<a, s>>
<1>1. /\ ~GpArg(a) /\ ~FpArg(a) /\ ~ImmArg(a)
      /\ MemArg(a) <=> Addressing(b) /\ Addressing(o)
      /\ SizeOf(a) = w
  BY ShownAddress
<1>2. /\ GpArg(s) <=> isGp(v)
      /\ FpArg(s) <=> isFp(v)
      /\ ImmArg(s) <=> isConst(v)
      /\ SizeOf(s) = IF isConst(v) THEN 0 ELSE v.size
      /\ Narrow(s) <=> (isConst(v) => FitsImmediate(v.value))
  BY ShownFacts
<1>3. ASSUME NEW op
      PROVE  LET i == StoreTo(op, w, b, o, v)[1] IN i.ends = TRUE /\ i.op = op /\ Printed(i) = p
  <2>1. Printed(StoreTo(op, w, b, o, v)[1]) = p
    BY PrintedStore
  <2> HIDE DEF p
  <2> QED
    BY <2>1 DEF StoreTo, Insn
<1> HIDE DEF a, s
<1>4. DOMAIN p = 1..2 /\ p[1] = a /\ p[2] = s
  OBVIOUS
<1> HIDE DEF p
<1>5. SizeOf(a) \in Nat /\ SizeOf(s) \in Nat
  BY <1>1, <1>2
<1>6. ASSUME NEW op
      PROVE  op # "rep movs" => (Encodable(StoreTo(op, w, b, o, v)[1]) <=> TakesPair(op, a, s))
  <2> DEFINE i == StoreTo(op, w, b, o, v)[1]
  <2>1. i.ends = TRUE /\ i.op = op /\ Printed(i) = p
    BY <1>3
  <2> HIDE DEF i
  <2>2. i.op # "rep movs" => (Encodable(i) <=> TakesPair(i.op, a, s))
    BY <2>1, <1>4, <1>5, Accepting
  <2> QED
    BY <2>1, <2>2 DEF i
<1>7. Matching(a, s)
  BY <1>1, <1>2 DEF Matching
<1>8. isConst(v) => (Fitting(a, s) <=> (w = 8 => FitsImmediate(v.value)))
  BY <1>1, <1>2 DEF Fitting
<1>9. Fitting(a, s) => isConst(v)
  BY <1>2 DEF Fitting
<1>10. TakesPair("mov", a, s) <=> MemArg(a) /\ (isGp(v) \/ Fitting(a, s))
  BY <1>1, <1>2, <1>7 DEF TakesPair
<1>11. \A op \in {"movss", "movsd", "movdqu"} : TakesPair(op, a, s) <=> MemArg(a) /\ isFp(v)
  BY <1>1, <1>2, <1>7 DEF TakesPair
<1>12. Encodable(StoreTo("mov", w, b, o, v)[1]) <=> TakesPair("mov", a, s)
  BY <1>6
<1>13. \A op \in {"movss", "movsd", "movdqu"} : Encodable(StoreTo(op, w, b, o, v)[1]) <=> TakesPair(op, a, s)
  BY <1>6
<1> HIDE DEF a, s
<1>14. Encodable(StoreTo("mov", w, b, o, v)[1]) <=>
              /\ Addressing(b) /\ Addressing(o)
              /\ isGp(v) \/ (isConst(v) /\ (w = 8 => FitsImmediate(v.value)))
  BY <1>1, <1>8, <1>9, <1>10, <1>12
<1>15. \A op \in {"movss", "movsd", "movdqu"} :
              Encodable(StoreTo(op, w, b, o, v)[1]) <=> Addressing(b) /\ Addressing(o) /\ isFp(v)
  BY <1>1, <1>11, <1>13
<1> QED
  BY <1>14, <1>15

\* A load is taken if its address is one and its destination is a register of the right kind.
LEMMA LoadTakes ==
  ASSUME NEW w \in Nat, NEW b, NEW o, NEW d, b.kind # "OFFSET", o.kind # "OFFSET", d.kind # "OFFSET",
         d.size \in Nat, w \in {0, d.size}, ~isMemTemp(d)
  PROVE  /\ Encodable(LoadFrom("mov", w, d, b, o)[1]) <=> Addressing(b) /\ Addressing(o) /\ isGp(d)
         /\ \A op \in {"movss", "movsd", "movdqu"} :
              Encodable(LoadFrom(op, w, d, b, o)[1]) <=> Addressing(b) /\ Addressing(o) /\ isFp(d)
<1> DEFINE m == <<"mem", w, Shown(b), Shown(o)>>  a == <<"op", d>>  p == <<a, m>>
<1>1. /\ ~GpArg(m) /\ ~FpArg(m) /\ ~ImmArg(m)
      /\ MemArg(m) <=> Addressing(b) /\ Addressing(o)
      /\ SizeOf(m) = w
  BY ShownAddress
<1>2. /\ GpArg(a) <=> isGp(d)
      /\ FpArg(a) <=> isFp(d)
      /\ ~ImmArg(a) /\ ~MemArg(a)
      /\ SizeOf(a) = d.size
  BY OperandArgument
<1>3. ASSUME NEW op
      PROVE  LET i == LoadFrom(op, w, d, b, o)[1] IN i.ends = TRUE /\ i.op = op /\ Printed(i) = p
  <2>1. Printed(LoadFrom(op, w, d, b, o)[1]) = p
    BY PrintedLoad
  <2> HIDE DEF p
  <2> QED
    BY <2>1 DEF LoadFrom, Insn
<1> HIDE DEF a, m
<1>4. DOMAIN p = 1..2 /\ p[1] = a /\ p[2] = m
  OBVIOUS
<1> HIDE DEF p
<1>5. SizeOf(a) \in Nat /\ SizeOf(m) \in Nat
  BY <1>1, <1>2
<1>6. ASSUME NEW op
      PROVE  op # "rep movs" => (Encodable(LoadFrom(op, w, d, b, o)[1]) <=> TakesPair(op, a, m))
  <2> DEFINE i == LoadFrom(op, w, d, b, o)[1]
  <2>1. i.ends = TRUE /\ i.op = op /\ Printed(i) = p
    BY <1>3
  <2> HIDE DEF i
  <2>2. i.op # "rep movs" => (Encodable(i) <=> TakesPair(i.op, a, m))
    BY <2>1, <1>4, <1>5, Accepting
  <2> QED
    BY <2>1, <2>2 DEF i
<1>7. Matching(a, m)
  BY <1>1, <1>2 DEF Matching
<1>8. TakesPair("mov", a, m) <=> MemArg(m) /\ isGp(d)
  BY <1>1, <1>2, <1>7 DEF TakesPair
<1>9. \A op \in {"movss", "movsd", "movdqu"} : TakesPair(op, a, m) <=> MemArg(m) /\ isFp(d)
  BY <1>1, <1>2, <1>7 DEF TakesPair
<1>10. Encodable(LoadFrom("mov", w, d, b, o)[1]) <=> TakesPair("mov", a, m)
  BY <1>6
<1>11. \A op \in {"movss", "movsd", "movdqu"} : Encodable(LoadFrom(op, w, d, b, o)[1]) <=> TakesPair(op, a, m)
  BY <1>6
<1> QED
  BY <1>1, <1>8, <1>9, <1>10, <1>11

-----------------------------------------------------------------------------
\* The remaining skeletons

\* A multiplication by a number prints a destination, a factor and the number.
LEMMA ImulTakes ==
  ASSUME NEW d, NEW x, NEW c, Extent(d) \in Nat, Extent(x) \in Nat
  PROVE  Encodable(ImulImm(d, x, c)) <=>
           /\ Agree(d, x) /\ 1 \notin {Extent(d), Extent(x)}
           /\ isGp(d) /\ (isGp(x) \/ InMemory(x))
           /\ 8 \in {Extent(d), Extent(x)} => FitsImmediate(c.value)
<1> DEFINE i == ImulImm(d, x, c)  a == <<"op", d>>  b == <<"op", x>>  e == Imm(c.value)  p == <<a, b, e>>
<1>1. (GpArg(a) <=> isGp(d)) /\ SizeOf(a) = Extent(d)
  BY OperandArgument DEF InMemory, Extent
<1>2. (GpArg(b) <=> isGp(x)) /\ (MemArg(b) <=> InMemory(x)) /\ SizeOf(b) = Extent(x)
  BY OperandArgument DEF InMemory, Extent
<1>3. ImmArg(e) /\ SizeOf(e) = 0 /\ (Narrow(e) <=> FitsImmediate(c.value))
  BY ImmediateArgument
<1>4. e[1] = "imm"
  BY Skeletons
<1>5. i.args = <<D, U, e>> /\ i.defs = <<d>> /\ i.uses = <<x>> /\ i.ends = TRUE /\ i.op = "imul"
  BY DEF ImulImm, Insn
<1> HIDE DEF i, e
<1>6. DOMAIN i.args = 1..3 /\ i.args[1] = D /\ i.args[2] = U /\ i.args[3] = e
  BY <1>5
<1>7. TakenBefore(i, 1) = 0 /\ TakenBefore(i, 2) = 0
  BY <1>6, Taking DEF TakenBefore
<1>8. i.defs[1] = d /\ Operand(i.uses, 1) = b
  BY <1>5 DEF Operand
<1> HIDE DEF a, b
<1>9. Printed(i)[1] = a
  BY <1>6, <1>8, Skeletons DEF Printed, a
<1>10. Printed(i)[2] = b
  BY <1>6, <1>7, <1>8, Skeletons DEF Printed
<1>11. Printed(i)[3] = e
  BY <1>6, <1>4 DEF Printed
<1>12. DOMAIN Printed(i) = 1..3
  BY <1>6 DEF Printed
<1> DEFINE q == Printed(i)
<1> HIDE DEF q
<1>13. DOMAIN q = 1..3 /\ q[1] = a /\ q[2] = b /\ q[3] = e
  BY <1>9, <1>10, <1>11, <1>12 DEF q
<1>14. Len(q) = 3
  <2>1. q = [k \in 1..3 |-> q[k]]
    BY <1>12 DEF Printed, q, e
  <2> QED
    BY <2>1
<1>15. SizeOf(a) \in Nat /\ SizeOf(b) \in Nat /\ SizeOf(q[3]) = 0
  BY <1>1, <1>2, <1>3, <1>13
<1>16. /\ OneSize(q) <=> Matching(a, b)
       /\ Matching(a, b) => \A n \in Nat \ {0} : WidthOf(q) = n <=> n \in {SizeOf(a), SizeOf(b)}
  BY <1>13, <1>15, Widths
<1>17. Matching(a, b) <=> Agree(d, x)
  BY <1>1, <1>2 DEF Matching, Agree
<1>18. Encodable(i) <=> OneSize(q) /\ GpArg(q[1]) /\ (GpArg(q[2]) \/ MemArg(q[2])) /\ WidthOf(q) # 1
                          /\ ImmArg(q[3]) /\ (WidthOf(q) = 8 => Narrow(q[3]))
  BY <1>5, <1>14 DEF Encodable, Forms, q
<1>19. Encodable(i) <=> Matching(a, b) /\ GpArg(a) /\ (GpArg(b) \/ MemArg(b)) /\ WidthOf(q) # 1
                          /\ ImmArg(e) /\ (WidthOf(q) = 8 => Narrow(e))
  BY <1>18, <1>16, <1>13
<1>20. Agree(d, x) => (WidthOf(q) = 8 <=> 8 \in {Extent(d), Extent(x)}) /\ (WidthOf(q) = 1 <=> 1 \in {Extent(d), Extent(x)})
  BY <1>16, <1>17, <1>1, <1>2
<1>21. Encodable(i) <=> Agree(d, x) /\ isGp(d) /\ (isGp(x) \/ InMemory(x)) /\ WidthOf(q) # 1
                          /\ (WidthOf(q) = 8 => FitsImmediate(c.value))
  BY <1>19, <1>1, <1>2, <1>3, <1>17
<1>22. Encodable(i) <=> /\ Agree(d, x) /\ 1 \notin {Extent(d), Extent(x)}
                        /\ isGp(d) /\ (isGp(x) \/ InMemory(x))
                        /\ 8 \in {Extent(d), Extent(x)} => FitsImmediate(c.value)
  BY <1>20, <1>21
<1> QED
  BY <1>22 DEF i

\* A constant for a floating point register is loaded from its read-only copy.
LEMMA FragmentLoadTakes ==
  ASSUME NEW op \in {"movss", "movsd"}, NEW d, NEW c, Extent(d) \in Nat
  PROVE  Encodable(Insn(op, <<D, At(0, Frag(c), Imm(Word(0)))>>, <<d>>, <<>>)) <=> isFp(d)
<1> DEFINE f == Frag(c)  v == Imm(Word(0))  m == At(0, f, v)
           i == Insn(op, <<D, m>>, <<d>>, <<>>)  a == <<"op", d>>  g == <<"mem", 0, f, v>>
           p == <<a, g>>
<1>1. (FpArg(a) <=> isFp(d)) /\ (MemArg(a) <=> InMemory(d)) /\ SizeOf(a) = Extent(d)
  BY OperandArgument DEF InMemory, Extent
<1>2. MemArg(g) /\ ~FpArg(g) /\ SizeOf(g) = 0
  <2>1. Part(f) /\ Part(v)
    BY FragmentArgument, ImmediateArgument
  <2> HIDE DEF f, v
  <2> QED
    BY <2>1, AddressArgument
<1>3. f # U /\ v # U
  BY Skeletons DEF U
<1>4. i.args = <<D, m>> /\ i.defs = <<d>> /\ i.ends = TRUE /\ i.op = op
  BY DEF Insn
<1>5. m[1] = "mem" /\ m[2] = 0 /\ m[3] = f /\ m[4] = v
  BY Skeletons
<1> HIDE DEF i, m, f, v
<1>6. DOMAIN i.args = 1..2 /\ i.args[1] = D /\ i.args[2] = m /\ i.defs[1] = d
  BY <1>4
<1>7. Printed(i) = [k \in 1..2 |-> IF k = 1 THEN a ELSE g]
  BY <1>3, <1>5, <1>6, Skeletons DEF Printed
<1> HIDE DEF a, g
<1>8. Printed(i) = p /\ DOMAIN p = 1..2 /\ p[1] = a /\ p[2] = g
  BY <1>7
<1> HIDE DEF p
<1>9. SizeOf(a) \in Nat /\ SizeOf(g) \in Nat
  BY <1>1, <1>2
<1>10. Encodable(i) <=> TakesPair(op, a, g)
  <2>1. op # "rep movs"
    OBVIOUS
  <2>2. i.op # "rep movs" => (Encodable(i) <=> TakesPair(i.op, a, g))
    BY <1>4, <1>8, <1>9, Accepting
  <2> QED
    BY <2>1, <2>2, <1>4
<1>11. TakesPair(op, a, g) <=> isFp(d)
  BY <1>1, <1>2 DEF TakesPair, Matching
<1> QED
  BY <1>10, <1>11 DEF i, m, f, v

\* A slip of LoadMemMem: the register with the offset is printed and not listed.
LEMMA LoadOfNothing ==
  ASSUME NEW w, NEW d, NEW b
  PROVE  ~Encodable(Insn("mov", <<D, At(w, U, U)>>, <<d>>, <<b>>))
<1> DEFINE m == At(w, U, U)  i == Insn("mov", <<D, m>>, <<d>>, <<b>>)
           g == <<"mem", w, <<"op", b>>, <<"missing">> >>
<1>1. i.args = <<D, m>> /\ i.uses = <<b>> /\ i.op = "mov" /\ i.defs = <<d>>
  BY DEF Insn
<1>2. m[1] = "mem" /\ m[2] = w /\ m[3] = U /\ m[4] = U
  BY Skeletons
<1> HIDE DEF i, m
<1>3. DOMAIN i.args = 1..2 /\ i.args[1] = D /\ i.args[2] = m /\ i.defs[1] = d
  BY <1>1
<1>4. TakenBefore(i, 2) = 0
  BY <1>3, Taking DEF TakenBefore
<1>5. Operand(i.uses, 1) = <<"op", b>> /\ Operand(i.uses, 2) = <<"missing">>
  BY <1>1 DEF Operand
<1>6. Printed(i)[2] = g
  BY <1>2, <1>3, <1>4, <1>5, Skeletons DEF Printed
<1>7. ~Part(<<"missing">>)
  BY DEF Part, GpArg
<1>8. ~GpArg(g) /\ ~MemArg(g) /\ ~ImmArg(g)
  BY <1>7, AddressArgument
<1>9. Printed(i)[1] = <<"op", d>>
  BY <1>3, Skeletons DEF Printed
<1> HIDE DEF g
<1>10. ~Encodable(i)
  BY <1>1, <1>6, <1>8 DEF Encodable, Forms, Fitting
<1> QED
  BY <1>10 DEF i, m

\* The two instructions that end every copy of a large value have no operands to refuse.
LEMMA MemcpyTakes ==
  ASSUME NEW size, NEW defs, NEW uses
  PROVE  /\ Encodable(FinishMemcpy(size, defs, uses)[1])
         /\ Encodable(FinishMemcpy(size, defs, uses)[2])
         /\ \A j, k : Encodable(Moving(FinishMemcpy(size, defs, uses)[2], j, k))
<1>1. Encodable(FinishMemcpy(size, defs, uses)[1])
  <2> DEFINE v == Word(size \div Unit(size))
  <2>1. FinishMemcpy(size, defs, uses)[1] = Insn("mov", <<D, Imm(v)>>, <<RCX>>, <<>>)
    BY DEF FinishMemcpy
  <2> HIDE DEF v
  <2>2. isGp(RCX) /\ Extent(RCX) \in Nat
    BY MachineFacts
  <2>3. TakesImmediate("mov", RCX, v)
    BY <2>2 DEF TakesImmediate
  <2>4. "mov" # "rep movs"
    OBVIOUS
  <2> QED
    BY <2>1, <2>2, <2>3, <2>4, ImmediateTakes, Zenon
<1>2. ASSUME NEW d, NEW u
      PROVE  Encodable(Insn("rep movs", <<Width(Unit(size))>>, d, u))
  <2> DEFINE x == Width(Unit(size))  i == Insn("rep movs", <<x>>, d, u)
  <2>1. x[1] = "width"
    BY DEF Width
  <2>2. i.args = <<x>> /\ i.ends = TRUE
    BY DEF Insn
  <2>3. i.op = "rep movs"
    BY DEF Insn
  <2> HIDE DEF x, i
  <2>4. DOMAIN i.args = 1..1 /\ i.args[1] = x
    BY <2>2
  <2>5. DOMAIN Printed(i) = 1..1 /\ Printed(i)[1] = x
    BY <2>1, <2>4 DEF Printed
  <2>6. OneSize(Printed(i))
    BY <2>5 DEF OneSize
  <2>7. Encodable(i)
    BY <2>2, <2>3, <2>6 DEF Encodable, Forms
  <2> QED
    BY <2>7 DEF i, x
<1> DEFINE d == <<RSI, RDI, RCX>> \o defs  u == <<RSI, RDI, RCX>> \o uses
<1>3. FinishMemcpy(size, defs, uses)[2] = Insn("rep movs", <<Width(Unit(size))>>, d, u)
  BY DEF FinishMemcpy
<1> HIDE DEF d, u
<1> QED
  BY <1>1, <1>2, <1>3, Moved

\* An internal error, an arm that misreads an operand, or a stray marker.
LEMMA NeverTaken ==
  ASSUME NEW op \in {"error", "undefined", "mov with stray marker"}, NEW args, NEW defs, NEW uses
  PROVE  ~Encodable(Insn(op, args, defs, uses))
BY DEF Encodable, Forms, Insn

-----------------------------------------------------------------------------
\* Lists of machine instructions, and whether the assembler takes all of them.
IsCode(c)   == c \in Seq(ToSet(c))
Accepted(c) == \A x \in ToSet(c) : Encodable(x)

\* No code at all is accepted.
LEMMA NoneAccepted == IsCode(<<>>) /\ Accepted(<<>>)
BY DEF IsCode, Accepted, ToSet

\* One instruction is accepted if it can be encoded.
LEMMA OneAccepted ==
  ASSUME NEW x
  PROVE  IsCode(<<x>>) /\ (Accepted(<<x>>) <=> Encodable(x))
<1>1. DOMAIN <<x>> = 1..1 /\ ToSet(<<x>>) = {x}
  BY DEF ToSet
<1>2. <<x>> \in Seq({x})
  OBVIOUS
<1> QED
  BY <1>1, <1>2 DEF IsCode, Accepted

\* Two instructions are accepted if both can be encoded.
LEMMA TwoAccepted ==
  ASSUME NEW x, NEW y
  PROVE  IsCode(<<x, y>>) /\ (Accepted(<<x, y>>) <=> Encodable(x) /\ Encodable(y))
<1>1. DOMAIN <<x, y>> = 1..2 /\ ToSet(<<x, y>>) = {x, y}
  BY DEF ToSet
<1>2. <<x, y>> \in Seq({x, y})
  OBVIOUS
<1> QED
  BY <1>1, <1>2 DEF IsCode, Accepted

\* Three instructions are accepted if all of them can be encoded.
LEMMA ThreeAccepted ==
  ASSUME NEW x, NEW y, NEW z
  PROVE  /\ IsCode(<<x, y, z>>)
         /\ Accepted(<<x, y, z>>) <=> Encodable(x) /\ Encodable(y) /\ Encodable(z)
<1>1. DOMAIN <<x, y, z>> = 1..3 /\ ToSet(<<x, y, z>>) = {x, y, z}
  BY DEF ToSet
<1>2. <<x, y, z>> \in Seq({x, y, z})
  OBVIOUS
<1> QED
  BY <1>1, <1>2 DEF IsCode, Accepted

\* Four instructions are accepted if all of them can be encoded.
LEMMA FourAccepted ==
  ASSUME NEW x, NEW y, NEW z, NEW w
  PROVE  /\ IsCode(<<x, y, z, w>>)
         /\ Accepted(<<x, y, z, w>>) <=> Encodable(x) /\ Encodable(y) /\ Encodable(z) /\ Encodable(w)
<1>1. DOMAIN <<x, y, z, w>> = 1..4 /\ ToSet(<<x, y, z, w>>) = {x, y, z, w}
  BY DEF ToSet
<1>2. <<x, y, z, w>> \in Seq({x, y, z, w})
  OBVIOUS
<1> QED
  BY <1>1, <1>2 DEF IsCode, Accepted

\* Code in two parts is accepted if both parts are.
LEMMA JoinedAccepted ==
  ASSUME NEW s, NEW t, IsCode(s), IsCode(t)
  PROVE  IsCode(s \o t) /\ (Accepted(s \o t) <=> Accepted(s) /\ Accepted(t))
<1> DEFINE both == s \o t  S == ToSet(s) \union ToSet(t)
<1>1. s \in Seq(S) /\ t \in Seq(S)
  BY DEF IsCode
<1> HIDE DEF S
<1>2. both \in Seq(S) /\ DOMAIN both = 1..(Len(s) + Len(t))
  BY <1>1, Chained
<1>3. \A k \in 1..Len(s) : both[k] = s[k]
  BY <1>1, Chained
<1>4. \A k \in 1..Len(t) : both[Len(s) + k] = t[k]
  BY <1>1, Chained
<1>5. /\ DOMAIN s = 1..Len(s) /\ DOMAIN t = 1..Len(t)
      /\ Len(s) \in Nat /\ Len(t) \in Nat
  BY <1>1
<1>6. Len(both) = Len(s) + Len(t) /\ \A k \in 1..Len(both) : both[k] \in S
  BY <1>1
<1> HIDE DEF both
<1>7. \A k \in 1..(Len(s) + Len(t)) : k \in 1..Len(s) \/ (k - Len(s) \in 1..Len(t) /\ k = Len(s) + (k - Len(s)))
  BY <1>5
<1>8. ToSet(both) = ToSet(s) \union ToSet(t)
  <2>1. ASSUME NEW x \in ToSet(both)
        PROVE  x \in ToSet(s) \union ToSet(t)
    <3>1. PICK k \in 1..(Len(s) + Len(t)) : both[k] = x
      BY <1>2 DEF ToSet
    <3>2. CASE k \in 1..Len(s)
      BY <3>1, <3>2, <1>3, <1>5 DEF ToSet
    <3>3. CASE k - Len(s) \in 1..Len(t) /\ k = Len(s) + (k - Len(s))
      BY <3>1, <3>3, <1>4, <1>5 DEF ToSet
    <3> QED
      BY <3>2, <3>3, <1>7
  <2>2. ASSUME NEW x \in ToSet(s)
        PROVE  x \in ToSet(both)
    <3>1. PICK k \in 1..Len(s) : s[k] = x
      BY <1>5 DEF ToSet
    <3>2. k \in DOMAIN both /\ both[k] = x
      BY <3>1, <1>2, <1>3, <1>5
    <3> QED
      BY <3>2 DEF ToSet
  <2>3. ASSUME NEW x \in ToSet(t)
        PROVE  x \in ToSet(both)
    <3>1. PICK k \in 1..Len(t) : t[k] = x
      BY <1>5 DEF ToSet
    <3>2. Len(s) + k \in DOMAIN both /\ both[Len(s) + k] = x
      BY <3>1, <1>2, <1>4, <1>5
    <3> QED
      BY <3>2 DEF ToSet
  <2> QED
    BY <2>1, <2>2, <2>3
<1>9. both \in Seq(ToSet(both))
  BY <1>2, <1>6 DEF ToSet
<1> QED
  BY <1>8, <1>9 DEF IsCode, Accepted, both

\* The internal error and the misread operand are never accepted.
LEMMA NeverAccepted ==
  /\ IsCode(Unhandled) /\ ~Accepted(Unhandled)
  /\ IsCode(Undefined) /\ ~Accepted(Undefined)
BY OneAccepted, NeverTaken DEF Unhandled, Undefined

\* The end of a copy is accepted.
LEMMA MemcpyAccepted ==
  ASSUME NEW size, NEW defs, NEW uses
  PROVE  IsCode(FinishMemcpy(size, defs, uses)) /\ Accepted(FinishMemcpy(size, defs, uses))
<1> DEFINE x == FinishMemcpy(size, defs, uses)[1]  y == FinishMemcpy(size, defs, uses)[2]
<1>1. FinishMemcpy(size, defs, uses) = <<x, y>>
  BY DEF FinishMemcpy
<1>2. Encodable(x) /\ Encodable(y)
  BY MemcpyTakes
<1> HIDE DEF x, y
<1> QED
  BY <1>1, <1>2, TwoAccepted

\* A skeleton that runs into the next line is never accepted.
LEMMA OpenAccepted ==
  ASSUME NEW x, NEW S, x \in [{"op", "args", "defs", "uses", "move", "ends"} -> S]
  PROVE  IsCode(Unterminated(<<x>>)) /\ ~Accepted(Unterminated(<<x>>))
<1> DEFINE y == [x EXCEPT !.ends = FALSE]  open == Unterminated(<<x>>)
<1>1. DOMAIN <<x>> = 1..1 /\ \A m \in 1..1 : <<x>>[m] = x
  OBVIOUS
<1>2. open = [m \in 1..1 |-> [<<x>>[m] EXCEPT !.ends = FALSE]]
  BY <1>1 DEF Unterminated
<1>3. \A m \in 1..1 : [<<x>>[m] EXCEPT !.ends = FALSE] = y
  BY <1>1
<1>4. y.ends = FALSE
  OBVIOUS
<1> HIDE DEF y, open
<1>5. DOMAIN open = 1..1 /\ open[1] = y /\ open \in Seq({y})
  BY <1>2, <1>3
<1>6. ToSet(open) = {y}
  BY <1>5 DEF ToSet
<1>7. ~Encodable(y)
  BY <1>4 DEF Encodable
<1>8. IsCode(open) /\ ~Accepted(open)
  BY <1>5, <1>6, <1>7 DEF IsCode, Accepted
<1> QED
  BY <1>8 DEF open

\* An address in memory is loaded into a register of the processor's.
LEMMA LoadAccepted ==
  ASSUME NEW o, NEW n, Sizable(o)
  PROVE  /\ IsCode(Load(o, n)) /\ Accepted(Load(o, n))
         /\ IsCode(FpLoad(o, n)) /\ (Accepted(FpLoad(o, n)) <=> ~isMemTemp(o))
         /\ IsCode(Unterminated(Load(o, n))) /\ (Accepted(Unterminated(Load(o, n))) <=> ~isMemTemp(o))
<1>1. ASSUME NEW hint \in {"GP", "FP"}
      PROVE  Encodable(Mov(Patch(o, n, hint), o)) <=> TakesOperands("mov", Patch(o, n, hint), o)
  <2>1. Extent(Patch(o, n, hint)) \in Nat /\ Extent(o) \in Nat
    BY PatchFacts, OperandFacts
  <2> QED
    BY <2>1, CopyTakes DEF Mov
<1>2. isMemTemp(o) => TakesOperands("mov", Patch(o, n, "GP"), o)
  BY PatchFacts, OperandFacts DEF TakesOperands, Agree
<1>3. isMemTemp(o) => ~TakesOperands("mov", Patch(o, n, "FP"), o)
  BY PatchFacts, OperandFacts DEF TakesOperands, Agree
<1>4. IsCode(Load(o, n)) /\ Accepted(Load(o, n))
  BY <1>1, <1>2, OneAccepted, NoneAccepted DEF Load
<1>5. IsCode(FpLoad(o, n)) /\ (Accepted(FpLoad(o, n)) <=> ~isMemTemp(o))
  BY <1>1, <1>3, OneAccepted, NoneAccepted DEF FpLoad
<1>6. IsCode(Unterminated(Load(o, n))) /\ (Accepted(Unterminated(Load(o, n))) <=> ~isMemTemp(o))
  <2>1. CASE isMemTemp(o)
    <3> DEFINE x == Mov(Patch(o, n, "GP"), o)  S == {x[f] : f \in {"op", "args", "defs", "uses", "move", "ends"}}
    <3>1. x \in [{"op", "args", "defs", "uses", "move", "ends"} -> S]
      BY DEF Mov, Copy, Moving, Insn
    <3>2. Load(o, n) = <<x>>
      BY <2>1 DEF Load
    <3> HIDE DEF x, S
    <3> QED
      BY <2>1, <3>1, <3>2, OpenAccepted
  <2>2. CASE ~isMemTemp(o)
    <3>1. Load(o, n) = <<>>
      BY <2>2 DEF Load
    <3>2. Unterminated(<<>>) = <<>>
      BY DEF Unterminated
    <3> QED
      BY <2>2, <3>1, <3>2, NoneAccepted
  <2> QED
    BY <2>1, <2>2
<1> QED
  BY <1>4, <1>5, <1>6

\* What an address is after it was loaded.
LEMMA LoadedFacts ==
  ASSUME NEW o, NEW n, Sizable(o), ~isFp(o), o.size = 8
  PROVE  /\ Addressing(Loaded(o, n)) /\ Loaded(o, n).kind # "OFFSET" /\ Loaded(o, n).size = 8
         /\ Addressing(o) <=> ~isMemTemp(o)
         /\ Addressing(FpPatch(o, n)) <=> ~isMemTemp(o)
         /\ FpPatch(o, n).kind # "OFFSET"
         /\ o.kind # "OFFSET"
BY OperandFacts, PatchFacts DEF Loaded, FpPatch, Addressing

-----------------------------------------------------------------------------
\* The mnemonics the selector gives two operands
TwoOperandOps == {"mov", "add", "sub", "xor", "imul", "lea", "movss", "movsd", "movdqu", "movd", "movq"}

\* CopyTakes for the mnemonics the selector uses this way.
LEMMA Copies ==
  ASSUME NEW op \in TwoOperandOps, NEW d, NEW s, Extent(d) \in Nat, Extent(s) \in Nat
  PROVE  /\ Encodable(Plain(op, d, s)) <=> TakesOperands(op, d, s)
         /\ Encodable(Copy(op, d, s)) <=> TakesOperands(op, d, s)
         /\ Encodable(Combine(op, d, s)) <=> TakesOperands(op, d, s)
BY CopyTakes DEF TwoOperandOps

\* The move of a register, as the selector writes it.
LEMMA MovCopies ==
  ASSUME NEW d, NEW s, Extent(d) \in Nat, Extent(s) \in Nat
  PROVE  Encodable(Mov(d, s)) <=> TakesOperands("mov", d, s)
BY Copies DEF Mov, TwoOperandOps

\* ImmediateTakes for the mnemonics the selector uses this way.
LEMMA Immediates ==
  ASSUME NEW op \in {"mov", "add", "sub", "xor"}, NEW d, NEW v, NEW uses, Extent(d) \in Nat
  PROVE  Encodable(Insn(op, <<D, Imm(v)>>, <<d>>, uses)) <=> TakesImmediate(op, d, v)
BY ImmediateTakes

\* The mnemonics for floating point values are those of single or of double precision.
LEMMA FpNames ==
  ASSUME NEW w
  PROVE  FpMove(w) \in {"movss", "movsd"} /\ FpBits(w) \in {"movd", "movq"}
BY DEF FpMove, FpBits

\* A value in memory moves to and from its patch.
LEMMA PatchMoves ==
  ASSUME NEW o, NEW n, NEW t, Sizable(o), Sizable(t), isMemTemp(t), t.size = o.size
  PROVE  /\ Encodable(Mov(Patch(o, n, "GP"), t)) /\ Encodable(Mov(t, Patch(o, n, "GP")))
         /\ Encodable(Plain("mov", t, Patch(o, n, "GP")))
         /\ Encodable(Copy("movdqu", Patch(o, n, "FP"), t)) /\ Encodable(Copy("movdqu", t, Patch(o, n, "FP")))
         /\ Encodable(Plain("movdqu", t, Patch(o, n, "FP")))
<1> DEFINE g == Patch(o, n, "GP")  f == Patch(o, n, "FP")
<1>1. isGp(g) /\ isFp(f) /\ Extent(g) = o.size /\ Extent(f) = o.size
  BY PatchFacts
<1>2. InMemory(t) /\ Extent(t) = o.size /\ o.size \in Nat
  BY OperandFacts DEF Sizable
<1> HIDE DEF g, f
<1>3. TakesOperands("mov", g, t) /\ TakesOperands("mov", t, g)
  BY <1>1, <1>2 DEF TakesOperands, Agree
<1>4. TakesOperands("movdqu", f, t) /\ TakesOperands("movdqu", t, f)
  BY <1>1, <1>2 DEF TakesOperands, Agree
<1> QED
  BY <1>1, <1>2, <1>3, <1>4, Copies, MovCopies DEF TwoOperandOps, g, f

-----------------------------------------------------------------------------
\* ADDROF and MOVE

\* ADDROF: accepted for everything it is asked of.
LEMMA AddrofAccepted ==
  ASSUME NEW d, NEW s, NEW n, Sizable(d), Sizable(s), isGp(d) \/ isMemTemp(d), isMemTemp(s)
  PROVE  IsCode(SelectAddrof(d, s, n)) /\ Accepted(SelectAddrof(d, s, n))
<1>1. Extent(d) \in Nat /\ Extent(s) \in Nat /\ InMemory(s) /\ Extent(Patch(d, n, "GP")) \in Nat
  BY OperandFacts, PatchFacts
<1>2. isGp(d) => ~isMemTemp(d)
  BY OperandFacts
<1>3. CASE isGp(d)
  <2>1. Encodable(Plain("lea", d, s))
    BY <1>1, <1>3, Copies DEF TakesOperands, TwoOperandOps
  <2>2. SelectAddrof(d, s, n) = <<Plain("lea", d, s)>>
    BY <1>2, <1>3 DEF SelectAddrof
  <2> QED
    BY <2>1, <2>2, OneAccepted
<1>4. CASE isMemTemp(d)
  <2>1. Encodable(Plain("lea", Patch(d, n, "GP"), s))
    BY <1>1, PatchFacts, Copies DEF TakesOperands, TwoOperandOps
  <2>2. Encodable(Mov(d, Patch(d, n, "GP")))
    BY <1>4, PatchMoves
  <2>3. SelectAddrof(d, s, n) = <<Plain("lea", Patch(d, n, "GP"), s), Mov(d, Patch(d, n, "GP"))>>
    BY <1>2, <1>4 DEF SelectAddrof
  <2> QED
    BY <2>1, <2>2, <2>3, TwoAccepted
<1> QED
  BY <1>3, <1>4

\* MOVE: refused only where a number of 64 bits would have to go to memory.
LEMMA MoveAccepted ==
  ASSUME NEW d, NEW s, NEW n, Sizable(d), Sizable(s), ~isConst(d), d.size = s.size
  PROVE  IsCode(SelectMove(d, s, n)) /\ (Accepted(SelectMove(d, s, n)) <=> ~(isMemTemp(d) /\ TooLong(s)))
<1>1. /\ isConst(s) \/ isGp(s) \/ isFp(s) \/ isMemTemp(s)
      /\ isGp(s) => ~isFp(s) /\ ~isMemTemp(s) /\ ~isConst(s)
      /\ isFp(s) => ~isMemTemp(s) /\ ~isConst(s)
      /\ isMemTemp(s) => ~isConst(s)
      /\ InMemory(s) <=> isMemTemp(s)
      /\ Extent(s) = s.size /\ Extent(s) \in Nat
  BY OperandFacts
<1>2. /\ isGp(d) \/ isFp(d) \/ isMemTemp(d)
      /\ isGp(d) => ~isFp(d) /\ ~isMemTemp(d)
      /\ isFp(d) => ~isMemTemp(d)
      /\ InMemory(d) <=> isMemTemp(d)
      /\ Extent(d) = d.size /\ Extent(d) \in Nat
  BY OperandFacts
<1>3. CASE isMemTemp(d) /\ isMemTemp(s)
  <2>0. SelectMove(d, s, n) = MoveMemory(d, s, n) /\ ~TooLong(s)
    BY <1>1, <1>3 DEF SelectMove, TooLong
  <2>1. CASE s.size \in MovableSizes
    <3>1. MoveMemory(d, s, n) = <<Mov(Patch(s, n, "GP"), s), Mov(d, Patch(s, n, "GP"))>>
      BY <2>1 DEF MoveMemory, MovableSizes
    <3>2. Encodable(Mov(Patch(s, n, "GP"), s)) /\ Encodable(Mov(d, Patch(s, n, "GP")))
      BY <1>3, PatchMoves
    <3> QED
      BY <2>0, <3>1, <3>2, TwoAccepted
  <2>2. CASE s.size = 16
    <3>1. MoveMemory(d, s, n) = <<Copy("movdqu", Patch(s, n, "FP"), s), Copy("movdqu", d, Patch(s, n, "FP"))>>
      BY <2>2 DEF MoveMemory, MovableSizes
    <3>2. Encodable(Copy("movdqu", Patch(s, n, "FP"), s)) /\ Encodable(Copy("movdqu", d, Patch(s, n, "FP")))
      BY <1>3, PatchMoves
    <3> QED
      BY <2>0, <3>1, <3>2, TwoAccepted
  <2>3. CASE s.size \notin MovableSizes \union {16}
    <3> DEFINE copy == FinishMemcpy(s.size, <<d>>, <<s>>)
    <3>1. MoveMemory(d, s, n) = <<LeaTemp(RSI, s), LeaTemp(RDI, d), copy[1], Moving(copy[2], 4, 4)>>
      BY <2>3 DEF MoveMemory
    <3>2. Encodable(LeaTemp(RSI, s)) /\ Encodable(LeaTemp(RDI, d))
      BY <1>1, <1>2, <1>3, LeaTakes
    <3>3. Encodable(copy[1]) /\ Encodable(Moving(copy[2], 4, 4))
      BY MemcpyTakes
    <3> QED
      BY <2>0, <3>1, <3>2, <3>3, FourAccepted
  <2> QED
    BY <2>1, <2>2, <2>3
<1>4. CASE isMemTemp(d) /\ isConst(s)
  <2>0. SelectMove(d, s, n) = MoveConstToMemory(d, s)
    BY <1>1, <1>4 DEF SelectMove
  <2>1. CASE s.size \in MovableSizes
    <3>1. MoveConstToMemory(d, s) = <<Insn("mov", <<D, Imm(s.value)>>, <<d>>, <<>>)>>
      BY <2>1 DEF MoveConstToMemory
    <3>2. Encodable(Insn("mov", <<D, Imm(s.value)>>, <<d>>, <<>>)) <=> (d.size = 8 => FitsImmediate(s.value))
      BY <1>2, <1>4, Immediates DEF TakesImmediate
    <3> QED
      BY <2>0, <3>1, <3>2, <1>4, OneAccepted DEF TooLong
  <2>2. CASE s.size \notin MovableSizes
    <3>1. MoveConstToMemory(d, s) = <<LeaFrag(RSI, s), LeaTemp(RDI, d)>> \o FinishMemcpy(s.size, <<d>>, <<>>)
      BY <2>2 DEF MoveConstToMemory
    <3>2. Encodable(LeaFrag(RSI, s)) /\ Encodable(LeaTemp(RDI, d))
      BY <1>2, <1>4, LeaTakes, LeaFragTakes
    <3>3. ~TooLong(s)
      BY <2>2 DEF TooLong, MovableSizes
    <3>4. IsCode(<<LeaFrag(RSI, s), LeaTemp(RDI, d)>>) /\ Accepted(<<LeaFrag(RSI, s), LeaTemp(RDI, d)>>)
      BY <3>2, TwoAccepted
    <3>5. IsCode(FinishMemcpy(s.size, <<d>>, <<>>)) /\ Accepted(FinishMemcpy(s.size, <<d>>, <<>>))
      BY MemcpyAccepted
    <3>6. IsCode(MoveConstToMemory(d, s)) /\ Accepted(MoveConstToMemory(d, s))
      BY <3>1, <3>4, <3>5, JoinedAccepted
    <3> QED
      BY <2>0, <3>3, <3>6
  <2> QED
    BY <2>1, <2>2
<1>5. CASE ~(isMemTemp(d) /\ (isMemTemp(s) \/ isConst(s)))
  <2>0. SelectMove(d, s, n) = MoveRegisters(d, s) /\ ~(isMemTemp(d) /\ TooLong(s))
    BY <1>1, <1>2, <1>5 DEF SelectMove, TooLong
  <2>1. CASE Among(d, s, isGp(d), isGp(s))
    <3>1. MoveRegisters(d, s) = <<Mov(d, s)>>
      BY <1>1, <1>2, <2>1 DEF MoveRegisters, Among
    <3>2. TakesOperands("mov", d, s)
      BY <1>1, <1>2, <2>1 DEF TakesOperands, Agree, Among
    <3> QED
      BY <2>0, <3>1, <3>2, <1>1, <1>2, MovCopies, OneAccepted
  <2>2. CASE (isGp(d) /\ isFp(s)) \/ (isFp(d) /\ isGp(s))
    <3>1. MoveRegisters(d, s) = <<Copy(FpBits(s.size), d, s)>>
      BY <1>1, <1>2, <2>2 DEF MoveRegisters, Among
    <3>2. FpBits(s.size) \in {"movd", "movq"}
      BY FpNames
    <3>3. TakesOperands(FpBits(s.size), d, s)
      BY <1>1, <1>2, <2>2, <3>2 DEF TakesOperands, Agree
    <3> QED
      BY <2>0, <3>1, <3>2, <3>3, <1>1, <1>2, Copies, OneAccepted DEF TwoOperandOps
  <2>3. CASE isGp(d) /\ isConst(s)
    <3>1. MoveRegisters(d, s) = <<Insn("mov", <<D, Imm(s.value)>>, <<d>>, <<>>)>>
      BY <1>1, <1>2, <2>3 DEF MoveRegisters, Among
    <3>2. Encodable(Insn("mov", <<D, Imm(s.value)>>, <<d>>, <<>>))
      BY <1>2, <2>3, Immediates DEF TakesImmediate
    <3> QED
      BY <2>0, <3>1, <3>2, OneAccepted
  <2>4. CASE Among(d, s, isFp(d), isFp(s))
    <3>1. MoveRegisters(d, s) = <<Copy(FpMove(s.size), d, s)>>
      BY <1>1, <1>2, <2>4 DEF MoveRegisters, Among
    <3>2. FpMove(s.size) \in {"movss", "movsd"}
      BY FpNames
    <3>3. TakesOperands(FpMove(s.size), d, s)
      BY <1>1, <1>2, <2>4, <3>2 DEF TakesOperands, Agree, Among
    <3> QED
      BY <2>0, <3>1, <3>2, <3>3, <1>1, <1>2, Copies, OneAccepted DEF TwoOperandOps
  <2>5. CASE isFp(d) /\ isConst(s)
    <3> DEFINE x == Insn(FpMove(s.size), <<D, At(0, Frag(s), Imm(Word(0)))>>, <<d>>, <<>>)
    <3>1. MoveRegisters(d, s) = <<x>>
      BY <1>1, <1>2, <2>5 DEF MoveRegisters, Among
    <3>2. Encodable(x)
      BY <1>2, <2>5, FpNames, FragmentLoadTakes
    <3> QED
      BY <2>0, <3>1, <3>2, OneAccepted
  <2> QED
    BY <1>1, <1>2, <1>5, <2>1, <2>2, <2>3, <2>4, <2>5 DEF Among
<1> QED
  BY <1>3, <1>4, <1>5

-----------------------------------------------------------------------------
\* Stores

\* A base and an offset as they are when the address is used.
IsAddress(b, o) == b.kind # "OFFSET" /\ o.kind # "OFFSET"

\* Loading an address first does not change the verdict on what follows.
LEMMA AfterLoad ==
  ASSUME NEW o, NEW n, Sizable(o), NEW t, IsCode(t)
  PROVE  IsCode(Load(o, n) \o t) /\ (Accepted(Load(o, n) \o t) <=> Accepted(t))
BY LoadAccepted, JoinedAccepted

\* Neither does loading both parts of one.
LEMMA AfterLoads ==
  ASSUME NEW b, NEW o, NEW n, NEW m, Sizable(b), Sizable(o), NEW t, IsCode(t)
  PROVE  IsCode(Load(b, n) \o Load(o, m) \o t) /\ (Accepted(Load(b, n) \o Load(o, m) \o t) <=> Accepted(t))
<1> DEFINE s == Load(b, n) \o Load(o, m)
<1>1. IsCode(s) /\ Accepted(s)
  BY LoadAccepted, JoinedAccepted
<1> HIDE DEF s
<1>2. IsCode(s \o t) /\ (Accepted(s \o t) <=> Accepted(t))
  BY <1>1, JoinedAccepted
<1> QED
  BY <1>2 DEF s

\* One store, as code.
LEMMA StoreToAccepted ==
  ASSUME NEW b, NEW o, NEW v, NEW w \in Nat, IsAddress(b, o), v.kind # "OFFSET", v.size \in Nat, w \in {0, v.size}
  PROVE  /\ IsCode(StoreTo("mov", w, b, o, v))
         /\ Accepted(StoreTo("mov", w, b, o, v)) <=>
              /\ Addressing(b) /\ Addressing(o)
              /\ isGp(v) \/ (isConst(v) /\ (w = 8 => FitsImmediate(v.value)))
         /\ \A op \in {"movss", "movsd", "movdqu"} :
              /\ IsCode(StoreTo(op, w, b, o, v))
              /\ Accepted(StoreTo(op, w, b, o, v)) <=> Addressing(b) /\ Addressing(o) /\ isFp(v)
<1>1. ASSUME NEW op
      PROVE  /\ IsCode(StoreTo(op, w, b, o, v))
             /\ Accepted(StoreTo(op, w, b, o, v)) <=> Encodable(StoreTo(op, w, b, o, v)[1])
  <2> DEFINE x == StoreTo(op, w, b, o, v)[1]
  <2>1. StoreTo(op, w, b, o, v) = <<x>>
    BY DEF StoreTo
  <2> HIDE DEF x
  <2>2. IsCode(<<x>>) /\ (Accepted(<<x>>) <=> Encodable(x))
    BY OneAccepted
  <2> QED
    BY <2>1, <2>2 DEF x
<1>2. /\ Encodable(StoreTo("mov", w, b, o, v)[1]) <=>
              /\ Addressing(b) /\ Addressing(o)
              /\ isGp(v) \/ (isConst(v) /\ (w = 8 => FitsImmediate(v.value)))
      /\ \A op \in {"movss", "movsd", "movdqu"} :
              Encodable(StoreTo(op, w, b, o, v)[1]) <=> Addressing(b) /\ Addressing(o) /\ isFp(v)
  BY StoreTakes DEF IsAddress
<1> QED
  BY <1>1, <1>2

\* Storing a register or a number at an address the processor can use.
LEMMA StoreAccepted ==
  ASSUME NEW b, NEW o, NEW v, IsAddress(b, o), Sizable(v)
  PROVE  /\ IsCode(StoreGp(b, o, v))
         /\ isGp(v) \/ isConst(v) =>
              (Accepted(StoreGp(b, o, v)) <=> Addressing(b) /\ Addressing(o) /\ ~TooLong(v))
         /\ IsCode(StoreFp(b, o, v))
         /\ isFp(v) => (Accepted(StoreFp(b, o, v)) <=> Addressing(b) /\ Addressing(o))
<1>1. v.kind # "OFFSET" /\ v.size \in Nat /\ (isGp(v) => ~isConst(v))
  BY OperandFacts DEF Sizable
<1>2. /\ IsCode(StoreTo("mov", v.size, b, o, v))
      /\ Accepted(StoreTo("mov", v.size, b, o, v)) <=>
           /\ Addressing(b) /\ Addressing(o)
           /\ isGp(v) \/ (isConst(v) /\ (v.size = 8 => FitsImmediate(v.value)))
  BY <1>1, StoreToAccepted
<1>3. \A op \in {"movss", "movsd", "movdqu"} :
           /\ IsCode(StoreTo(op, 0, b, o, v))
           /\ Accepted(StoreTo(op, 0, b, o, v)) <=> Addressing(b) /\ Addressing(o) /\ isFp(v)
  BY <1>1, StoreToAccepted
<1>4. FpMove(v.size) \in {"movss", "movsd", "movdqu"}
  BY FpNames
<1> QED
  BY <1>1, <1>2, <1>3, <1>4 DEF StoreGp, StoreFp, TooLong

\* Storing the patch of a value in memory.
LEMMA PatchStored ==
  ASSUME NEW b, NEW o, NEW v, NEW n, IsAddress(b, o), Sizable(v)
  PROVE  LET p == Patch(v, n, "GP")  q == Patch(v, n, "FP") IN
         /\ \A w \in {0, v.size} :
              /\ IsCode(StoreTo("mov", w, b, o, p))
              /\ Accepted(StoreTo("mov", w, b, o, p)) <=> Addressing(b) /\ Addressing(o)
              /\ IsCode(StoreTo("movdqu", w, b, o, q))
              /\ Accepted(StoreTo("movdqu", w, b, o, q)) <=> Addressing(b) /\ Addressing(o)
              /\ IsCode(StoreTo("mov", w, b, o, q))
              /\ ~Accepted(StoreTo("mov", w, b, o, q))
<1> DEFINE p == Patch(v, n, "GP")  q == Patch(v, n, "FP")
<1>1. /\ p.kind # "OFFSET" /\ p.size = v.size /\ isGp(p) /\ ~isConst(p)
      /\ q.kind # "OFFSET" /\ q.size = v.size /\ isFp(q) /\ ~isGp(q) /\ ~isConst(q)
  BY PatchFacts
<1>2. v.size \in Nat
  BY DEF Sizable
<1> HIDE DEF p, q
<1>3. ASSUME NEW w \in {0, v.size}
      PROVE  /\ IsCode(StoreTo("mov", w, b, o, p))
             /\ Accepted(StoreTo("mov", w, b, o, p)) <=> Addressing(b) /\ Addressing(o)
  BY <1>1, <1>2, StoreToAccepted
<1>4. ASSUME NEW w \in {0, v.size}
      PROVE  /\ IsCode(StoreTo("movdqu", w, b, o, q))
             /\ Accepted(StoreTo("movdqu", w, b, o, q)) <=> Addressing(b) /\ Addressing(o)
  BY <1>1, <1>2, StoreToAccepted
<1>5. ASSUME NEW w \in {0, v.size}
      PROVE  IsCode(StoreTo("mov", w, b, o, q)) /\ ~Accepted(StoreTo("mov", w, b, o, q))
  BY <1>1, <1>2, StoreToAccepted
<1> QED
  BY <1>3, <1>4, <1>5 DEF p, q

\* A copy of a large value to or from an address.
LEMMA CopyAccepted ==
  ASSUME NEW b, NEW o, NEW v, NEW defs, NEW uses, IsAddress(b, o), Extent(v) \in Nat
  PROVE  /\ LET c == <<LeaTemp(RSI, v), LeaAt(RDI, b, o)>> \o FinishMemcpy(v.size, defs, uses) IN
            IsCode(c) /\ (Accepted(c) <=> InMemory(v) /\ Addressing(b) /\ Addressing(o))
         /\ LET c == <<LeaFrag(RSI, v), LeaAt(RDI, b, o)>> \o FinishMemcpy(v.size, defs, uses) IN
            IsCode(c) /\ (Accepted(c) <=> Addressing(b) /\ Addressing(o))
         /\ LET c == <<LeaAt(RSI, b, o), LeaTemp(RDI, v)>> \o FinishMemcpy(v.size, defs, uses) IN
            IsCode(c) /\ (Accepted(c) <=> InMemory(v) /\ Addressing(b) /\ Addressing(o))
<1>1. /\ Encodable(LeaTemp(RSI, v)) <=> InMemory(v)
      /\ Encodable(LeaTemp(RDI, v)) <=> InMemory(v)
      /\ Encodable(LeaAt(RDI, b, o)) <=> Addressing(b) /\ Addressing(o)
      /\ Encodable(LeaAt(RSI, b, o)) <=> Addressing(b) /\ Addressing(o)
      /\ Encodable(LeaFrag(RSI, v))
  BY LeaTakes, LeaAtTakes, LeaFragTakes DEF IsAddress
<1> DEFINE s == <<LeaTemp(RSI, v), LeaAt(RDI, b, o)>>  t == <<LeaFrag(RSI, v), LeaAt(RDI, b, o)>>
           u == <<LeaAt(RSI, b, o), LeaTemp(RDI, v)>>  c == FinishMemcpy(v.size, defs, uses)
<1>2. IsCode(c) /\ Accepted(c)
  BY MemcpyAccepted
<1>3. IsCode(s) /\ (Accepted(s) <=> InMemory(v) /\ Addressing(b) /\ Addressing(o))
  BY <1>1, TwoAccepted
<1>4. IsCode(t) /\ (Accepted(t) <=> Addressing(b) /\ Addressing(o))
  BY <1>1, TwoAccepted
<1>5. IsCode(u) /\ (Accepted(u) <=> InMemory(v) /\ Addressing(b) /\ Addressing(o))
  BY <1>1, TwoAccepted
<1> HIDE DEF s, t, u, c
<1>6. IsCode(s \o c) /\ (Accepted(s \o c) <=> InMemory(v) /\ Addressing(b) /\ Addressing(o))
  BY <1>2, <1>3, JoinedAccepted
<1>7. IsCode(t \o c) /\ (Accepted(t \o c) <=> Addressing(b) /\ Addressing(o))
  BY <1>2, <1>4, JoinedAccepted
<1>8. IsCode(u \o c) /\ (Accepted(u \o c) <=> InMemory(v) /\ Addressing(b) /\ Addressing(o))
  BY <1>2, <1>5, JoinedAccepted
<1> QED
  BY <1>6, <1>7, <1>8 DEF s, t, u, c

\* Storing a value that is in memory: by parts, and one of sixteen bytes only with movdqu.
LEMMA StoreMemAccepted ==
  ASSUME NEW b, NEW o, NEW v, NEW n, NEW move16 \in {"mov", "movdqu"},
         IsAddress(b, o), Sizable(v), isMemTemp(v)
  PROVE  /\ IsCode(StoreMem(b, o, v, n, move16))
         /\ Accepted(StoreMem(b, o, v, n, move16)) <=>
              Addressing(b) /\ Addressing(o) /\ (move16 = "mov" => v.size # 16)
<1>1. CASE v.size \in MovableSizes
  <2> DEFINE x == Mov(Patch(v, n, "GP"), v)  t == StoreTo("mov", v.size, b, o, Patch(v, n, "GP"))
  <2>1. Encodable(x)
    BY PatchMoves
  <2>2. IsCode(t) /\ (Accepted(t) <=> Addressing(b) /\ Addressing(o))
    BY PatchStored
  <2>3. StoreMem(b, o, v, n, move16) = <<x>> \o t
    BY <1>1, PatchFacts DEF StoreMem, StoreGp, MovableSizes
  <2> HIDE DEF x, t
  <2>4. IsCode(<<x>>) /\ Accepted(<<x>>)
    BY <2>1, OneAccepted
  <2>5. IsCode(<<x>> \o t) /\ (Accepted(<<x>> \o t) <=> Accepted(<<x>>) /\ Accepted(t))
    BY <2>2, <2>4, JoinedAccepted
  <2> QED
    BY <2>2, <2>3, <2>4, <2>5, <1>1 DEF MovableSizes
<1>2. CASE v.size = 16
  <2> DEFINE x == Copy(move16, Patch(v, n, "FP"), v)  t == StoreTo("movdqu", 0, b, o, Patch(v, n, "FP"))
  <2>1. Encodable(x) <=> move16 = "movdqu"
    <3>1. Encodable(Copy("movdqu", Patch(v, n, "FP"), v))
      BY PatchMoves
    <3>2. ~Encodable(Copy("mov", Patch(v, n, "FP"), v))
      <4>1. Extent(Patch(v, n, "FP")) \in Nat /\ Extent(v) \in Nat /\ ~isGp(Patch(v, n, "FP")) /\ ~InMemory(Patch(v, n, "FP"))
        BY PatchFacts, OperandFacts
      <4> QED
        BY <4>1, Copies DEF TakesOperands, TwoOperandOps
    <3> QED
      BY <3>1, <3>2
  <2>2. IsCode(t) /\ (Accepted(t) <=> Addressing(b) /\ Addressing(o))
    BY PatchStored
  <2>3. StoreMem(b, o, v, n, move16) = <<x>> \o t
    BY <1>2 DEF StoreMem, MovableSizes
  <2> HIDE DEF x, t
  <2>4. IsCode(<<x>>) /\ (Accepted(<<x>>) <=> move16 = "movdqu")
    BY <2>1, OneAccepted
  <2>5. IsCode(<<x>> \o t) /\ (Accepted(<<x>> \o t) <=> Accepted(<<x>>) /\ Accepted(t))
    BY <2>2, <2>4, JoinedAccepted
  <2> QED
    BY <2>2, <2>3, <2>4, <2>5, <1>2
<1>3. CASE v.size \notin MovableSizes \union {16}
  <2>1. StoreMem(b, o, v, n, move16) = <<LeaTemp(RSI, v), LeaAt(RDI, b, o)>> \o FinishMemcpy(v.size, <<>>, <<v>>)
    BY <1>3 DEF StoreMem
  <2>2. Extent(v) \in Nat /\ InMemory(v)
    BY OperandFacts
  <2> DEFINE c == <<LeaTemp(RSI, v), LeaAt(RDI, b, o)>> \o FinishMemcpy(v.size, <<>>, <<v>>)
  <2>3. IsCode(c) /\ (Accepted(c) <=> Addressing(b) /\ Addressing(o))
    BY <2>2, CopyAccepted
  <2> HIDE DEF c
  <2>4. StoreMem(b, o, v, n, move16) = c
    BY <2>1 DEF c
  <2> QED
    BY <2>3, <2>4, <1>3
<1> QED
  BY <1>1, <1>2, <1>3

\* Storing a constant at an address the processor can use.
LEMMA StoreConstAccepted ==
  ASSUME NEW b, NEW o, NEW c, IsAddress(b, o), Sizable(c), isConst(c)
  PROVE  /\ IsCode(StoreConst(b, o, c))
         /\ Accepted(StoreConst(b, o, c)) <=> Addressing(b) /\ Addressing(o) /\ ~TooLong(c)
<1>1. CASE c.size \in MovableSizes
  BY <1>1, StoreAccepted DEF StoreConst
<1>2. CASE c.size \notin MovableSizes
  <2>1. StoreConst(b, o, c) = <<LeaFrag(RSI, c), LeaAt(RDI, b, o)>> \o FinishMemcpy(c.size, <<>>, <<>>)
    BY <1>2 DEF StoreConst
  <2>2. Extent(c) \in Nat /\ ~TooLong(c)
    BY <1>2, OperandFacts DEF TooLong, MovableSizes
  <2> DEFINE t == <<LeaFrag(RSI, c), LeaAt(RDI, b, o)>> \o FinishMemcpy(c.size, <<>>, <<>>)
  <2>3. IsCode(t) /\ (Accepted(t) <=> Addressing(b) /\ Addressing(o))
    BY <2>2, CopyAccepted
  <2> HIDE DEF t
  <2>4. StoreConst(b, o, c) = t
    BY <2>1 DEF t
  <2> QED
    BY <2>2, <2>3, <2>4
<1> QED
  BY <1>1, <1>2

-----------------------------------------------------------------------------
\* An address or an offset as the rest of the compiler gives it.
IsPointer(o) == Sizable(o) /\ ~isFp(o) /\ o.size = 8

\* The two parts of an address before and after loading; a patch for floating point values
\* does not make an address.
LEMMA LoadedAddress ==
  ASSUME NEW b, NEW o, NEW n, NEW m, IsPointer(b), IsPointer(o)
  PROVE  /\ IsAddress(Loaded(b, n), Loaded(o, m)) /\ Addressing(Loaded(b, n)) /\ Addressing(Loaded(o, m))
         /\ IsAddress(b, Loaded(o, m)) /\ (Addressing(b) <=> ~isMemTemp(b))
         /\ IsAddress(FpPatch(b, n), FpPatch(o, m)) /\ (Addressing(FpPatch(b, n)) <=> ~isMemTemp(b))
         /\ ~isMemTemp(o) => Loaded(o, m) = o
BY LoadedFacts DEF IsPointer, IsAddress, Loaded

\* MEM_STORE at a base that is not in memory.
LEMMA StoreNear ==
  ASSUME NEW b, NEW v, NEW o, NEW n, IsPointer(b), IsPointer(o), Sizable(v), ~isMemTemp(b)
  PROVE  /\ isGp(v) => IsCode(StoreGpGp(b, v, o, n)) /\ Accepted(StoreGpGp(b, v, o, n))
         /\ isFp(v) => IsCode(StoreGpFp(b, v, o, n)) /\ Accepted(StoreGpFp(b, v, o, n))
         /\ isMemTemp(v) => IsCode(StoreGpMem(b, v, o, n)) /\ Accepted(StoreGpMem(b, v, o, n))
         /\ isConst(v) => IsCode(StoreGpConst(b, v, o, n)) /\ (Accepted(StoreGpConst(b, v, o, n)) <=> ~TooLong(v))
<1> DEFINE p == Loaded(o, n)
<1>1. IsAddress(b, p) /\ Addressing(b) /\ Addressing(p)
  BY LoadedAddress
<1> HIDE DEF p
<1>2. Sizable(o)
  BY DEF IsPointer
<1>3. ASSUME isGp(v)
      PROVE  IsCode(StoreGpGp(b, v, o, n)) /\ Accepted(StoreGpGp(b, v, o, n))
  <2>1. ~TooLong(v)
    BY <1>3, OperandFacts DEF TooLong
  <2>2. IsCode(StoreGp(b, p, v)) /\ Accepted(StoreGp(b, p, v))
    BY <1>1, <1>3, <2>1, StoreAccepted
  <2> QED
    BY <1>2, <2>2, AfterLoad DEF StoreGpGp, p
<1>4. ASSUME isFp(v)
      PROVE  IsCode(StoreGpFp(b, v, o, n)) /\ Accepted(StoreGpFp(b, v, o, n))
  <2>1. IsCode(StoreFp(b, p, v)) /\ Accepted(StoreFp(b, p, v))
    BY <1>1, <1>4, StoreAccepted
  <2> QED
    BY <1>2, <2>1, AfterLoad DEF StoreGpFp, p
<1>5. ASSUME isMemTemp(v)
      PROVE  IsCode(StoreGpMem(b, v, o, n)) /\ Accepted(StoreGpMem(b, v, o, n))
  <2>1. IsCode(StoreMem(b, p, v, After(o, n), "movdqu")) /\ Accepted(StoreMem(b, p, v, After(o, n), "movdqu"))
    BY <1>1, <1>5, StoreMemAccepted
  <2> QED
    BY <1>2, <2>1, AfterLoad DEF StoreGpMem, p
<1>6. ASSUME isConst(v)
      PROVE  IsCode(StoreGpConst(b, v, o, n)) /\ (Accepted(StoreGpConst(b, v, o, n)) <=> ~TooLong(v))
  <2>1. IsCode(StoreConst(b, p, v)) /\ (Accepted(StoreConst(b, p, v)) <=> ~TooLong(v))
    BY <1>1, <1>6, StoreConstAccepted
  <2> QED
    BY <1>2, <2>1, AfterLoad DEF StoreGpConst, p
<1> QED
  BY <1>3, <1>4, <1>5, <1>6

\* MEM_STORE at a base that is in memory.
LEMMA StoreFar ==
  ASSUME NEW b, NEW v, NEW o, NEW n, IsPointer(b), IsPointer(o), Sizable(v), isMemTemp(b)
  PROVE  /\ isGp(v) => IsCode(StoreMemGp(b, v, o, n)) /\ Accepted(StoreMemGp(b, v, o, n))
         /\ isFp(v) => IsCode(StoreMemFp(b, v, o, n)) /\ ~Accepted(StoreMemFp(b, v, o, n))
         /\ isMemTemp(v) => IsCode(StoreMemMem(b, v, o, n)) /\ (Accepted(StoreMemMem(b, v, o, n)) <=> v.size # 16)
         /\ isConst(v) => /\ IsCode(StoreMemConst(b, v, o, n))
                          /\ Accepted(StoreMemConst(b, v, o, n)) <=> ~TooLong(v) /\ ~isConst(o)
<1> DEFINE p == Loaded(o, n + 1)  q == Loaded(b, n)
<1>1. IsAddress(q, p) /\ Addressing(q) /\ Addressing(p) /\ IsAddress(b, p) /\ ~Addressing(b)
  BY LoadedAddress
<1> HIDE DEF p, q
<1>2. Sizable(o) /\ Sizable(b)
  BY DEF IsPointer
<1>3. ASSUME isGp(v)
      PROVE  IsCode(StoreMemGp(b, v, o, n)) /\ Accepted(StoreMemGp(b, v, o, n))
  <2>1. ~TooLong(v)
    BY <1>3, OperandFacts DEF TooLong
  <2>2. IsCode(StoreGp(q, p, v)) /\ Accepted(StoreGp(q, p, v))
    BY <1>1, <1>3, <2>1, StoreAccepted
  <2> QED
    BY <1>2, <2>2, AfterLoads DEF StoreMemGp, p, q
<1>4. ASSUME isFp(v)
      PROVE  IsCode(StoreMemFp(b, v, o, n)) /\ ~Accepted(StoreMemFp(b, v, o, n))
  <2> DEFINE c == FpLoad(b, n)  e == FpLoad(o, n + 1)  t == StoreFp(FpPatch(b, n), FpPatch(o, n + 1), v)
  <2>1. IsCode(c) /\ ~Accepted(c) /\ IsCode(e)
    BY <1>2, LoadAccepted
  <2>2. IsCode(t)
    BY LoadedAddress, StoreAccepted
  <2> HIDE DEF c, e, t
  <2>3. IsCode(c \o e) /\ ~Accepted(c \o e)
    BY <2>1, JoinedAccepted
  <2>4. IsCode(c \o e \o t) /\ ~Accepted(c \o e \o t)
    BY <2>2, <2>3, JoinedAccepted
  <2> QED
    BY <2>4 DEF StoreMemFp, c, e, t
<1>5. ASSUME isMemTemp(v)
      PROVE  IsCode(StoreMemMem(b, v, o, n)) /\ (Accepted(StoreMemMem(b, v, o, n)) <=> v.size # 16)
  <2> DEFINE t == StoreMem(q, p, v, After(o, n + 1), "mov")
  <2>1. IsCode(t) /\ (Accepted(t) <=> v.size # 16)
    BY <1>1, <1>5, StoreMemAccepted
  <2> HIDE DEF t
  <2>2. IsCode(Load(b, n) \o Load(o, n + 1) \o t) /\ (Accepted(Load(b, n) \o Load(o, n + 1) \o t) <=> v.size # 16)
    BY <1>2, <2>1, AfterLoads
  <2> QED
    BY <2>2 DEF StoreMemMem, p, q, t
<1>6. ASSUME isConst(v)
      PROVE  /\ IsCode(StoreMemConst(b, v, o, n))
             /\ Accepted(StoreMemConst(b, v, o, n)) <=> ~TooLong(v) /\ ~isConst(o)
  <2> DEFINE r == IF isConst(o) THEN b ELSE q  t == StoreConst(r, p, v)
  <2>1. IsAddress(r, p) /\ (Addressing(r) <=> ~isConst(o))
    BY <1>1
  <2>2. IsCode(t) /\ (Accepted(t) <=> ~isConst(o) /\ ~TooLong(v))
    <3> HIDE DEF r
    <3> QED
      BY <1>1, <1>6, <2>1, StoreConstAccepted
  <2>3. StoreMemConst(b, v, o, n) = Load(b, n) \o Load(o, n + 1) \o t
    BY DEF StoreMemConst, p, q
  <2> HIDE DEF t
  <2> QED
    BY <1>2, <2>2, <2>3, AfterLoads
<1> QED
  BY <1>3, <1>4, <1>5, <1>6

\* MEM_STORE: the operands for which the selector gives code the assembler refuses.
LEMMA MemStoreAccepted ==
  ASSUME NEW b, NEW v, NEW o, NEW n, IsPointer(b), IsPointer(o), Sizable(v)
  PROVE  /\ IsCode(SelectMemStore(b, v, o, n))
         /\ Accepted(SelectMemStore(b, v, o, n)) <=>
              /\ ~TooLong(v)
              /\ ~(isMemTemp(b) /\ (isFp(v) \/ (isConst(v) /\ isConst(o)) \/ (isMemTemp(v) /\ v.size = 16)))
              /\ ~(isConst(b) /\ isConst(o) /\ isMemTemp(v) /\ v.size \notin MovableSizes \union {16})
<1>1. /\ isGp(b) \/ isMemTemp(b) \/ isConst(b)
      /\ isGp(b) => ~isMemTemp(b) /\ ~isConst(b)
      /\ isMemTemp(b) => ~isConst(b)
      /\ ~isFp(b) /\ ~isFp(o)
  BY OperandFacts DEF IsPointer
<1>2. /\ isGp(v) \/ isFp(v) \/ isMemTemp(v) \/ isConst(v)
      /\ isGp(v) => ~isFp(v) /\ ~isMemTemp(v) /\ ~isConst(v)
      /\ isFp(v) => ~isMemTemp(v) /\ ~isConst(v)
      /\ isMemTemp(v) => ~isConst(v)
      /\ ~isConst(v) => ~TooLong(v)
  BY OperandFacts DEF TooLong
<1>3. isConst(o) => ~isMemTemp(o)
  BY OperandFacts DEF IsPointer
<1>4. CASE isGp(b)
  <2>1. CASE isGp(v)
    BY <1>1, <1>2, <1>4, <2>1, StoreNear DEF SelectMemStore
  <2>2. CASE isFp(v)
    BY <1>1, <1>2, <1>4, <2>2, StoreNear DEF SelectMemStore
  <2>3. CASE isMemTemp(v)
    BY <1>1, <1>2, <1>4, <2>3, StoreNear DEF SelectMemStore
  <2>4. CASE isConst(v)
    BY <1>1, <1>2, <1>4, <2>4, StoreNear DEF SelectMemStore
  <2> QED
    BY <1>2, <2>1, <2>2, <2>3, <2>4
<1>5. CASE isMemTemp(b)
  <2>1. CASE isGp(v)
    BY <1>1, <1>2, <1>5, <2>1, StoreFar DEF SelectMemStore
  <2>2. CASE isFp(v)
    BY <1>1, <1>2, <1>5, <2>2, StoreFar DEF SelectMemStore
  <2>3. CASE isMemTemp(v)
    BY <1>1, <1>2, <1>5, <2>3, StoreFar DEF SelectMemStore
  <2>4. CASE isConst(v)
    BY <1>1, <1>2, <1>5, <2>4, StoreFar DEF SelectMemStore
  <2> QED
    BY <1>2, <2>1, <2>2, <2>3, <2>4
<1>6. CASE isConst(b)
  <2>1. CASE isGp(v)
    BY <1>1, <1>2, <1>6, <2>1, StoreNear DEF SelectMemStore, StoreConstGp, StoreGpGp
  <2>2. CASE isFp(v)
    BY <1>1, <1>2, <1>6, <2>2, StoreNear DEF SelectMemStore, StoreConstFp, StoreGpFp
  <2>3. CASE isMemTemp(v)
    <3>1. SelectMemStore(b, v, o, n) = StoreConstMem(b, v, o, n)
      BY <1>1, <1>2, <1>6, <2>3 DEF SelectMemStore
    <3>2. CASE isConst(o) /\ v.size \notin MovableSizes \union {16}
      <4>1. StoreConstMem(b, v, o, n) = Unhandled
        BY <3>2 DEF StoreConstMem
      <4> QED
        BY <1>6, <2>3, <3>1, <3>2, <4>1, NeverAccepted
    <3>3. CASE ~(isConst(o) /\ v.size \notin MovableSizes \union {16})
      <4>1. StoreConstMem(b, v, o, n) = StoreGpMem(b, v, o, n)
        BY <3>3 DEF StoreConstMem, StoreGpMem
      <4> QED
        BY <1>1, <1>2, <1>6, <2>3, <3>1, <3>3, <4>1, StoreNear
    <3> QED
      BY <3>2, <3>3
  <2>4. CASE isConst(v)
    BY <1>1, <1>2, <1>6, <2>4, StoreNear DEF SelectMemStore, StoreConstConst, StoreGpConst
  <2> QED
    BY <1>2, <2>1, <2>2, <2>3, <2>4
<1> QED
  BY <1>1, <1>4, <1>5, <1>6

-----------------------------------------------------------------------------
\* Loads

\* One load, as code.
LEMMA LoadFromAccepted ==
  ASSUME NEW b, NEW o, NEW d, NEW w \in Nat, IsAddress(b, o), d.kind # "OFFSET", ~isMemTemp(d),
         d.size \in Nat, w \in {0, d.size}
  PROVE  /\ IsCode(LoadFrom("mov", w, d, b, o))
         /\ Accepted(LoadFrom("mov", w, d, b, o)) <=> Addressing(b) /\ Addressing(o) /\ isGp(d)
         /\ \A op \in {"movss", "movsd", "movdqu"} :
              /\ IsCode(LoadFrom(op, w, d, b, o))
              /\ Accepted(LoadFrom(op, w, d, b, o)) <=> Addressing(b) /\ Addressing(o) /\ isFp(d)
<1>1. ASSUME NEW op
      PROVE  /\ IsCode(LoadFrom(op, w, d, b, o))
             /\ Accepted(LoadFrom(op, w, d, b, o)) <=> Encodable(LoadFrom(op, w, d, b, o)[1])
  <2> DEFINE x == LoadFrom(op, w, d, b, o)[1]
  <2>1. LoadFrom(op, w, d, b, o) = <<x>>
    BY DEF LoadFrom
  <2> HIDE DEF x
  <2>2. IsCode(<<x>>) /\ (Accepted(<<x>>) <=> Encodable(x))
    BY OneAccepted
  <2> QED
    BY <2>1, <2>2 DEF x
<1>2. /\ Encodable(LoadFrom("mov", w, d, b, o)[1]) <=> Addressing(b) /\ Addressing(o) /\ isGp(d)
      /\ \A op \in {"movss", "movsd", "movdqu"} :
              Encodable(LoadFrom(op, w, d, b, o)[1]) <=> Addressing(b) /\ Addressing(o) /\ isFp(d)
  BY LoadTakes DEF IsAddress
<1> QED
  BY <1>1, <1>2

\* Loading a value to each of the places it can be wanted in.
LEMMA LoadsAccepted ==
  ASSUME NEW b, NEW o, NEW d, NEW n, IsAddress(b, o), Sizable(d)
  PROVE  /\ isGp(d) => IsCode(LoadGp(d, b, o)) /\ (Accepted(LoadGp(d, b, o)) <=> Addressing(b) /\ Addressing(o))
         /\ isFp(d) => IsCode(LoadFp(d, b, o)) /\ (Accepted(LoadFp(d, b, o)) <=> Addressing(b) /\ Addressing(o))
         /\ isMemTemp(d) =>
              /\ IsCode(ThroughPatch(d, b, o, n))
              /\ Accepted(ThroughPatch(d, b, o, n)) <=> Addressing(b) /\ Addressing(o)
              /\ IsCode(CopyFrom(d, b, o))
              /\ Accepted(CopyFrom(d, b, o)) <=> Addressing(b) /\ Addressing(o)
<1>1. /\ d.kind # "OFFSET" /\ d.size \in Nat /\ Extent(d) \in Nat
      /\ isGp(d) \/ isFp(d) => ~isMemTemp(d)
      /\ InMemory(d) <=> isMemTemp(d)
  BY OperandFacts DEF Sizable
<1>2. ASSUME isGp(d)
      PROVE  IsCode(LoadGp(d, b, o)) /\ (Accepted(LoadGp(d, b, o)) <=> Addressing(b) /\ Addressing(o))
  BY <1>1, <1>2, LoadFromAccepted DEF LoadGp
<1>3. ASSUME isFp(d)
      PROVE  IsCode(LoadFp(d, b, o)) /\ (Accepted(LoadFp(d, b, o)) <=> Addressing(b) /\ Addressing(o))
  <2>1. FpMove(b.size) \in {"movss", "movsd", "movdqu"}
    BY FpNames
  <2> QED
    BY <1>1, <1>3, <2>1, LoadFromAccepted DEF LoadFp
<1>4. ASSUME isMemTemp(d)
      PROVE  /\ IsCode(ThroughPatch(d, b, o, n))
             /\ Accepted(ThroughPatch(d, b, o, n)) <=> Addressing(b) /\ Addressing(o)
  <2> DEFINE p == Patch(d, n, "GP")  t == LoadGp(p, b, o)  x == Mov(d, p)
  <2>1. p.kind # "OFFSET" /\ ~isMemTemp(p) /\ p.size = d.size /\ isGp(p)
    BY PatchFacts
  <2>2. Encodable(x)
    BY <1>4, PatchMoves
  <2>3. ThroughPatch(d, b, o, n) = t \o <<x>>
    BY DEF ThroughPatch
  <2> HIDE DEF p, x
  <2>4. IsCode(t) /\ (Accepted(t) <=> Addressing(b) /\ Addressing(o))
    BY <1>1, <2>1, LoadFromAccepted DEF LoadGp
  <2> HIDE DEF t
  <2>5. IsCode(<<x>>) /\ Accepted(<<x>>)
    BY <2>2, OneAccepted
  <2>6. IsCode(t \o <<x>>) /\ (Accepted(t \o <<x>>) <=> Accepted(t) /\ Accepted(<<x>>))
    BY <2>4, <2>5, JoinedAccepted
  <2> QED
    BY <2>3, <2>4, <2>5, <2>6
<1>5. ASSUME isMemTemp(d)
      PROVE  IsCode(CopyFrom(d, b, o)) /\ (Accepted(CopyFrom(d, b, o)) <=> Addressing(b) /\ Addressing(o))
  BY <1>1, <1>5, CopyAccepted DEF CopyFrom
<1> QED
  BY <1>2, <1>3, <1>4, <1>5

\* MEM_LOAD to a destination in a register.
LEMMA LoadNear ==
  ASSUME NEW d, NEW b, NEW o, NEW n, IsPointer(b), IsPointer(o), Sizable(d)
  PROVE  /\ isGp(d) /\ isGp(b) => IsCode(LoadGpGp(d, b, o, n)) /\ (Accepted(LoadGpGp(d, b, o, n)) <=> ~isMemTemp(o))
         /\ isGp(d) /\ isMemTemp(b) => IsCode(LoadGpMem(d, b, o, n)) /\ Accepted(LoadGpMem(d, b, o, n))
         /\ isGp(d) /\ isConst(b) => IsCode(LoadGpConst(d, b, o, n)) /\ Accepted(LoadGpConst(d, b, o, n))
         /\ isFp(d) /\ isGp(b) => IsCode(LoadFpGp(d, b, o, n)) /\ Accepted(LoadFpGp(d, b, o, n))
         /\ isFp(d) /\ isMemTemp(b) => IsCode(LoadFpMem(d, b, o, n)) /\ Accepted(LoadFpMem(d, b, o, n))
         /\ isFp(d) /\ isConst(b) => IsCode(LoadFpConst(d, b, o, n)) /\ Accepted(LoadFpConst(d, b, o, n))
<1> DEFINE p == Loaded(o, n)  r == Loaded(o, n + 1)  q == Loaded(b, n)
<1>1. IsAddress(q, r) /\ Addressing(q) /\ Addressing(r)
  BY LoadedAddress
<1>2. IsAddress(b, p) /\ Addressing(p) /\ (Addressing(b) <=> ~isMemTemp(b))
  BY LoadedAddress
<1>3. (isGp(b) \/ isConst(b)) => ~isMemTemp(b)
  BY OperandFacts DEF IsPointer
<1> HIDE DEF p, q, r
<1>4. Sizable(o) /\ Sizable(b)
  BY DEF IsPointer
<1>5. ASSUME isGp(d), isGp(b)
      PROVE  IsCode(LoadGpGp(d, b, o, n)) /\ (Accepted(LoadGpGp(d, b, o, n)) <=> ~isMemTemp(o))
  <2> DEFINE s == Unterminated(Load(o, n))  t == LoadGp(d, b, p)
  <2>1. IsCode(t) /\ Accepted(t)
    BY <1>2, <1>3, <1>5, LoadsAccepted
  <2>2. IsCode(s) /\ (Accepted(s) <=> ~isMemTemp(o))
    BY <1>4, LoadAccepted
  <2> HIDE DEF s, t
  <2>3. IsCode(s \o t) /\ (Accepted(s \o t) <=> ~isMemTemp(o))
    BY <2>1, <2>2, JoinedAccepted
  <2> QED
    BY <2>3 DEF LoadGpGp, s, t, p
<1>6. ASSUME isGp(d), isMemTemp(b)
      PROVE  IsCode(LoadGpMem(d, b, o, n)) /\ Accepted(LoadGpMem(d, b, o, n))
  <2>1. IsCode(LoadGp(d, q, r)) /\ Accepted(LoadGp(d, q, r))
    BY <1>1, <1>6, LoadsAccepted
  <2> QED
    BY <1>4, <2>1, AfterLoads DEF LoadGpMem, q, r
<1>7. ASSUME isGp(d), isConst(b)
      PROVE  IsCode(LoadGpConst(d, b, o, n)) /\ Accepted(LoadGpConst(d, b, o, n))
  <2>1. IsCode(LoadGp(d, b, p)) /\ Accepted(LoadGp(d, b, p))
    BY <1>2, <1>3, <1>7, LoadsAccepted
  <2> QED
    BY <1>4, <2>1, AfterLoad DEF LoadGpConst, p
<1>8. ASSUME isFp(d), isGp(b)
      PROVE  IsCode(LoadFpGp(d, b, o, n)) /\ Accepted(LoadFpGp(d, b, o, n))
  <2>1. IsCode(LoadFp(d, b, p)) /\ Accepted(LoadFp(d, b, p))
    BY <1>2, <1>3, <1>8, LoadsAccepted
  <2> QED
    BY <1>4, <2>1, AfterLoad DEF LoadFpGp, p
<1>9. ASSUME isFp(d), isMemTemp(b)
      PROVE  IsCode(LoadFpMem(d, b, o, n)) /\ Accepted(LoadFpMem(d, b, o, n))
  <2>1. IsCode(LoadFp(d, q, r)) /\ Accepted(LoadFp(d, q, r))
    BY <1>1, <1>9, LoadsAccepted
  <2> QED
    BY <1>4, <2>1, AfterLoads DEF LoadFpMem, q, r
<1>10. ASSUME isFp(d), isConst(b)
       PROVE  IsCode(LoadFpConst(d, b, o, n)) /\ Accepted(LoadFpConst(d, b, o, n))
  <2>1. CASE isGp(o)
    <3>1. IsAddress(o, b) /\ Addressing(o) /\ Addressing(b)
      BY <1>2, <1>3, <1>10, <2>1, LoadedFacts DEF IsAddress, IsPointer, Addressing
    <3>2. IsCode(LoadFp(d, o, b)) /\ Accepted(LoadFp(d, o, b))
      BY <3>1, <1>10, LoadsAccepted
    <3> QED
      BY <2>1, <3>2 DEF LoadFpConst
  <2>2. CASE ~isGp(o)
    <3>1. IsCode(LoadFp(d, b, p)) /\ Accepted(LoadFp(d, b, p))
      BY <1>2, <1>3, <1>10, LoadsAccepted
    <3> QED
      BY <1>4, <2>2, <3>1, AfterLoad DEF LoadFpConst, p
  <2> QED
    BY <2>1, <2>2
<1> QED
  BY <1>5, <1>6, <1>7, <1>8, <1>9, <1>10

\* MEM_LOAD to a destination in memory.
LEMMA LoadFar ==
  ASSUME NEW d, NEW b, NEW o, NEW n, IsPointer(b), IsPointer(o), Sizable(d), isMemTemp(d)
  PROVE  /\ isGp(b) =>
              /\ IsCode(LoadMemGp(d, b, o, n))
              /\ Accepted(LoadMemGp(d, b, o, n)) <=> ~(isMemTemp(o) /\ d.size \notin MovableSizes)
         /\ isMemTemp(b) =>
              /\ IsCode(LoadMemMem(d, b, o, n))
              /\ Accepted(LoadMemMem(d, b, o, n)) <=> ~(isGp(o) /\ d.size \in MovableSizes)
         /\ isConst(b) => IsCode(LoadMemConst(d, b, o, n)) /\ Accepted(LoadMemConst(d, b, o, n))
<1> DEFINE p == Loaded(o, n)  r == Loaded(o, n + 1)  q == Loaded(b, n)
<1>1. IsAddress(q, r) /\ Addressing(q) /\ Addressing(r)
  BY LoadedAddress
<1>2. IsAddress(b, p) /\ Addressing(p) /\ (Addressing(b) <=> ~isMemTemp(b))
  BY LoadedAddress
<1>3. (isGp(b) \/ isConst(b)) => ~isMemTemp(b)
  BY OperandFacts DEF IsPointer
<1>4. Sizable(o) /\ Sizable(b)
  BY DEF IsPointer
<1>5. ~isMemTemp(o) => p = o
  BY LoadedAddress
<1> HIDE DEF p, q, r
<1>6. ASSUME isGp(b)
      PROVE  /\ IsCode(LoadMemGp(d, b, o, n))
             /\ Accepted(LoadMemGp(d, b, o, n)) <=> ~(isMemTemp(o) /\ d.size \notin MovableSizes)
  <2>1. CASE d.size \in MovableSizes
    <3> DEFINE t == ThroughPatch(d, b, p, After(o, n))
    <3>1. IsCode(t) /\ Accepted(t)
      BY <1>2, <1>3, <1>6, LoadsAccepted
    <3>2. LoadMemGp(d, b, o, n) = Load(o, n) \o t
      BY <2>1 DEF LoadMemGp, p
    <3> HIDE DEF t
    <3> QED
      BY <2>1, <3>1, <3>2, <1>4, AfterLoad
  <2>2. CASE d.size \notin MovableSizes /\ isMemTemp(o)
    <3> DEFINE x == LeaAt(RSI, b, p)  y == Insn("lea", <<Lit("rdi"), U>>, <<RDI, d>>, <<>>)
               t == FinishMemcpy(d.size, <<d>>, <<>>)  s == <<x, y>>
    <3>1. LoadMemGp(d, b, o, n) = Load(o, n) \o (s \o t)
      BY <2>2 DEF LoadMemGp, p
    <3>2. ~Encodable(y)
      BY LeaOfNothing
    <3>3. IsCode(t)
      BY MemcpyAccepted
    <3> HIDE DEF x, y, t
    <3>4. IsCode(s) /\ ~Accepted(s)
      BY <3>2, TwoAccepted
    <3> HIDE DEF s
    <3>5. IsCode(s \o t) /\ ~Accepted(s \o t)
      BY <3>3, <3>4, JoinedAccepted
    <3> QED
      BY <2>2, <3>1, <3>5, <1>4, AfterLoad
  <2>3. CASE d.size \notin MovableSizes /\ ~isMemTemp(o)
    <3> DEFINE t == CopyFrom(d, b, o)
    <3>1. IsCode(t) /\ Accepted(t)
      BY <1>2, <1>3, <1>5, <1>6, <2>3, LoadsAccepted
    <3>2. LoadMemGp(d, b, o, n) = Load(o, n) \o t
      BY <2>3 DEF LoadMemGp
    <3> HIDE DEF t
    <3> QED
      BY <2>3, <3>1, <3>2, <1>4, AfterLoad
  <2> QED
    BY <2>1, <2>2, <2>3
<1>7. ASSUME isMemTemp(b)
      PROVE  /\ IsCode(LoadMemMem(d, b, o, n))
             /\ Accepted(LoadMemMem(d, b, o, n)) <=> ~(isGp(o) /\ d.size \in MovableSizes)
  <2>1. CASE d.size \notin MovableSizes
    <3> DEFINE t == CopyFrom(d, q, r)
    <3>1. IsCode(t) /\ Accepted(t)
      BY <1>1, LoadsAccepted
    <3>2. LoadMemMem(d, b, o, n) = Load(b, n) \o Load(o, n + 1) \o t
      BY <2>1 DEF LoadMemMem, q, r
    <3> HIDE DEF t
    <3> QED
      BY <2>1, <3>1, <3>2, <1>4, AfterLoads
  <2>2. CASE d.size \in MovableSizes /\ isGp(o)
    <3> DEFINE x == Insn("mov", <<D, At(d.size, U, U)>>, <<Patch(d, n + 1, "GP")>>, <<q>>)
               y == Mov(d, Patch(d, n + 1, "GP"))
               t == <<x, y>>
    <3>1. ~Encodable(x)
      BY LoadOfNothing
    <3>2. LoadMemMem(d, b, o, n) = Load(b, n) \o Load(o, n + 1) \o t
      BY <2>2 DEF LoadMemMem, q, r
    <3> HIDE DEF x, y
    <3>3. IsCode(t) /\ ~Accepted(t)
      BY <3>1, TwoAccepted
    <3> HIDE DEF t
    <3> QED
      BY <2>2, <3>2, <3>3, <1>4, AfterLoads
  <2>3. CASE d.size \in MovableSizes /\ ~isGp(o)
    <3> DEFINE t == ThroughPatch(d, q, r, After(o, n + 1))
    <3>1. IsCode(t) /\ Accepted(t)
      BY <1>1, LoadsAccepted
    <3>2. LoadMemMem(d, b, o, n) = Load(b, n) \o Load(o, n + 1) \o t
      BY <2>3 DEF LoadMemMem, q, r
    <3> HIDE DEF t
    <3> QED
      BY <2>3, <3>1, <3>2, <1>4, AfterLoads
  <2> QED
    BY <2>1, <2>2, <2>3
<1>8. ASSUME isConst(b)
      PROVE  IsCode(LoadMemConst(d, b, o, n)) /\ Accepted(LoadMemConst(d, b, o, n))
  <2> DEFINE t == IF d.size \in MovableSizes THEN ThroughPatch(d, b, p, After(o, n)) ELSE CopyFrom(d, b, p)
  <2>1. IsCode(t) /\ Accepted(t)
    BY <1>2, <1>3, <1>8, LoadsAccepted
  <2>2. LoadMemConst(d, b, o, n) = Load(o, n) \o t
    BY DEF LoadMemConst, p
  <2> HIDE DEF t
  <2> QED
    BY <2>1, <2>2, <1>4, AfterLoad
<1> QED
  BY <1>6, <1>7, <1>8

\* MEM_LOAD: the operands for which the selector gives code the assembler refuses.
LEMMA MemLoadAccepted ==
  ASSUME NEW d, NEW b, NEW o, NEW n, IsPointer(b), IsPointer(o), Sizable(d), ~isConst(d)
  PROVE  /\ IsCode(SelectMemLoad(d, b, o, n))
         /\ Accepted(SelectMemLoad(d, b, o, n)) <=>
              /\ ~(isGp(d) /\ isGp(b) /\ isMemTemp(o))
              /\ ~(isMemTemp(d) /\ isMemTemp(b) /\ isGp(o) /\ d.size \in MovableSizes)
              /\ ~(isMemTemp(d) /\ isGp(b) /\ isMemTemp(o) /\ d.size \notin MovableSizes)
<1>1. /\ isGp(b) \/ isMemTemp(b) \/ isConst(b)
      /\ isGp(b) => ~isMemTemp(b) /\ ~isConst(b)
      /\ isMemTemp(b) => ~isConst(b)
      /\ ~isFp(b) /\ ~isFp(o)
  BY OperandFacts DEF IsPointer
<1>2. /\ isGp(d) \/ isFp(d) \/ isMemTemp(d)
      /\ isGp(d) => ~isFp(d) /\ ~isMemTemp(d)
      /\ isFp(d) => ~isMemTemp(d)
  BY OperandFacts
<1>3. CASE isGp(d)
  <2>1. CASE isGp(b)
    BY <1>1, <1>2, <1>3, <2>1, LoadNear DEF SelectMemLoad
  <2>2. CASE isMemTemp(b)
    BY <1>1, <1>2, <1>3, <2>2, LoadNear DEF SelectMemLoad
  <2>3. CASE isConst(b)
    BY <1>1, <1>2, <1>3, <2>3, LoadNear DEF SelectMemLoad
  <2> QED
    BY <1>1, <2>1, <2>2, <2>3
<1>4. CASE isFp(d)
  <2>1. CASE isGp(b)
    BY <1>1, <1>2, <1>4, <2>1, LoadNear DEF SelectMemLoad
  <2>2. CASE isMemTemp(b)
    BY <1>1, <1>2, <1>4, <2>2, LoadNear DEF SelectMemLoad
  <2>3. CASE isConst(b)
    BY <1>1, <1>2, <1>4, <2>3, LoadNear DEF SelectMemLoad
  <2> QED
    BY <1>1, <2>1, <2>2, <2>3
<1>5. CASE isMemTemp(d)
  <2>1. CASE isGp(b)
    BY <1>1, <1>2, <1>5, <2>1, LoadFar DEF SelectMemLoad
  <2>2. CASE isMemTemp(b)
    BY <1>1, <1>2, <1>5, <2>2, LoadFar DEF SelectMemLoad
  <2>3. CASE isConst(b)
    BY <1>1, <1>2, <1>5, <2>3, LoadFar DEF SelectMemLoad
  <2> QED
    BY <1>1, <2>1, <2>2, <2>3
<1> QED
  BY <1>2, <1>3, <1>4, <1>5

-----------------------------------------------------------------------------
\* The stack

\* The stack pointer and a loaded offset make an address.
LEMMA StackAddress ==
  ASSUME NEW o, NEW n, IsPointer(o)
  PROVE  /\ IsAddress(RSP, Loaded(o, n)) /\ Addressing(RSP) /\ Addressing(Loaded(o, n))
         /\ ~isMemTemp(o) => IsAddress(RSP, o) /\ Addressing(o)
BY MachineFacts, LoadedFacts DEF IsPointer, IsAddress, Addressing, RSP, Reg

\* Storing a value that is in memory on the stack: sixteen bytes go through a wrong register.
LEMMA StackMemAccepted ==
  ASSUME NEW o, NEW v, NEW n, IsAddress(RSP, o), Addressing(RSP), Addressing(o), Sizable(v), isMemTemp(v)
  PROVE  IsCode(StackMem(o, v, n)) /\ (Accepted(StackMem(o, v, n)) <=> v.size # 16)
<1>1. CASE v.size \in MovableSizes
  <2> DEFINE x == Mov(Patch(v, n, "GP"), v)  t == StoreTo("mov", 0, RSP, o, Patch(v, n, "GP"))
  <2>1. Encodable(x)
    BY PatchMoves
  <2>2. IsCode(t) /\ Accepted(t)
    BY PatchStored
  <2>3. StackMem(o, v, n) = <<x>> \o t
    BY <1>1 DEF StackMem, MovableSizes
  <2> HIDE DEF x, t
  <2>4. IsCode(<<x>>) /\ Accepted(<<x>>)
    BY <2>1, OneAccepted
  <2>5. IsCode(<<x>> \o t) /\ Accepted(<<x>> \o t)
    BY <2>2, <2>4, JoinedAccepted
  <2> QED
    BY <2>3, <2>5, <1>1 DEF MovableSizes
<1>2. CASE v.size = 16
  <2> DEFINE x == Copy("movdqu", Patch(v, n, "FP"), v)  t == StoreTo("mov", 0, RSP, o, Patch(v, n, "FP"))
  <2>1. IsCode(t) /\ ~Accepted(t)
    BY PatchStored
  <2>2. StackMem(o, v, n) = <<x>> \o t
    BY <1>2 DEF StackMem, MovableSizes
  <2> HIDE DEF x, t
  <2>3. IsCode(<<x>>)
    BY OneAccepted
  <2>4. IsCode(<<x>> \o t) /\ ~Accepted(<<x>> \o t)
    BY <2>1, <2>3, JoinedAccepted
  <2> QED
    BY <2>2, <2>4, <1>2
<1>3. CASE v.size \notin MovableSizes \union {16}
  <2> DEFINE c == <<LeaTemp(RSI, v), LeaAt(RDI, RSP, o)>> \o FinishMemcpy(v.size, <<>>, <<v>>)
  <2>1. Extent(v) \in Nat /\ InMemory(v)
    BY OperandFacts
  <2>2. IsCode(c) /\ Accepted(c)
    BY <2>1, CopyAccepted
  <2>3. StackMem(o, v, n) = c
    BY <1>3 DEF StackMem
  <2> HIDE DEF c
  <2> QED
    BY <2>2, <2>3, <1>3
<1> QED
  BY <1>1, <1>2, <1>3

\* A store on the stack at an offset the processor can use.
LEMMA StackStores ==
  ASSUME NEW o, NEW v, NEW n, IsAddress(RSP, o), Addressing(RSP), Addressing(o), Sizable(v)
  PROVE  /\ isGp(v) => IsCode(StoreTo("mov", 0, RSP, o, v)) /\ Accepted(StoreTo("mov", 0, RSP, o, v))
         /\ isFp(v) => IsCode(StoreFp(RSP, o, v)) /\ Accepted(StoreFp(RSP, o, v))
         /\ isMemTemp(v) => IsCode(StackMem(o, v, n)) /\ (Accepted(StackMem(o, v, n)) <=> v.size # 16)
         /\ isConst(v) => IsCode(StoreConst(RSP, o, v)) /\ (Accepted(StoreConst(RSP, o, v)) <=> ~TooLong(v))
<1>1. v.kind # "OFFSET" /\ v.size \in Nat
  BY OperandFacts DEF Sizable
<1>2. isGp(v) => IsCode(StoreTo("mov", 0, RSP, o, v)) /\ Accepted(StoreTo("mov", 0, RSP, o, v))
  BY <1>1, StoreToAccepted
<1>3. isFp(v) => IsCode(StoreFp(RSP, o, v)) /\ Accepted(StoreFp(RSP, o, v))
  BY StoreAccepted
<1>4. isConst(v) => IsCode(StoreConst(RSP, o, v)) /\ (Accepted(StoreConst(RSP, o, v)) <=> ~TooLong(v))
  BY StoreConstAccepted
<1> QED
  BY <1>2, <1>3, <1>4, StackMemAccepted

\* STK_STORE: the operands for which the selector gives code the assembler refuses.
LEMMA StkStoreAccepted ==
  ASSUME NEW o, NEW v, NEW n, IsPointer(o), Sizable(v)
  PROVE  /\ IsCode(SelectStkStore(o, v, n))
         /\ Accepted(SelectStkStore(o, v, n)) <=> ~TooLong(v) /\ ~(isMemTemp(v) /\ v.size = 16)
<1>1. /\ isGp(o) \/ isMemTemp(o) \/ isConst(o)
      /\ isGp(o) => ~isMemTemp(o) /\ ~isConst(o)
      /\ isMemTemp(o) => ~isConst(o)
  BY OperandFacts DEF IsPointer
<1>2. /\ isGp(v) \/ isFp(v) \/ isMemTemp(v) \/ isConst(v)
      /\ isGp(v) => ~isFp(v) /\ ~isMemTemp(v) /\ ~isConst(v)
      /\ isFp(v) => ~isMemTemp(v) /\ ~isConst(v)
      /\ isMemTemp(v) => ~isConst(v)
      /\ ~isConst(v) => ~TooLong(v)
  BY OperandFacts DEF TooLong
<1>3. CASE ~isMemTemp(o)
  <2>1. IsAddress(RSP, o) /\ Addressing(RSP) /\ Addressing(o)
    BY <1>3, StackAddress
  <2>2. CASE isGp(v)
    <3>1. SelectStkStore(o, v, n) = StoreTo("mov", 0, RSP, o, v)
      BY <1>1, <1>2, <1>3, <2>2 DEF SelectStkStore, StkStoreRegister, StkStoreConst
    <3> QED
      BY <1>2, <2>1, <2>2, <3>1, StackStores
  <2>3. CASE isFp(v)
    <3>1. SelectStkStore(o, v, n) = StoreFp(RSP, o, v) \/ SelectStkStore(o, v, n) = <<>>
      BY <1>1, <1>2, <1>3, <2>3 DEF SelectStkStore, StkStoreRegister, StkStoreConst
    <3> QED
      BY <1>2, <2>1, <2>3, <3>1, StackStores, NoneAccepted
  <2>4. CASE isMemTemp(v)
    <3>1. SelectStkStore(o, v, n) = StackMem(o, v, n)
      BY <1>1, <1>2, <1>3, <2>4 DEF SelectStkStore, StkStoreRegister, StkStoreConst
    <3> QED
      BY <1>2, <2>1, <2>4, <3>1, StackStores
  <2>5. CASE isConst(v)
    <3>1. SelectStkStore(o, v, n) = StoreConst(RSP, o, v)
      BY <1>1, <1>2, <1>3, <2>5 DEF SelectStkStore, StkStoreRegister, StkStoreConst
    <3> QED
      BY <1>2, <2>1, <2>5, <3>1, StackStores
  <2> QED
    BY <1>2, <2>2, <2>3, <2>4, <2>5
<1>4. CASE isMemTemp(o)
  <2> DEFINE p == Loaded(o, n)
  <2>1. IsAddress(RSP, p) /\ Addressing(RSP) /\ Addressing(p) /\ Sizable(o)
    BY StackAddress DEF IsPointer
  <2>2. SelectStkStore(o, v, n) = StkStoreMem(o, v, n)
    BY <1>1, <1>4 DEF SelectStkStore
  <2> HIDE DEF p
  <2>3. CASE isGp(v)
    <3> DEFINE t == StoreTo("mov", 0, RSP, p, v)
    <3>1. SelectStkStore(o, v, n) = Load(o, n) \o t
      BY <1>2, <2>2, <2>3 DEF StkStoreMem, p
    <3>2. IsCode(t) /\ Accepted(t)
      BY <2>1, <2>3, StackStores
    <3> HIDE DEF t
    <3> QED
      BY <1>2, <2>1, <2>3, <3>1, <3>2, AfterLoad
  <2>4. CASE isFp(v)
    <3> DEFINE t == StoreFp(RSP, p, v)
    <3>1. SelectStkStore(o, v, n) = Load(o, n) \o t
      BY <1>2, <2>2, <2>4 DEF StkStoreMem, p
    <3>2. IsCode(t) /\ Accepted(t)
      BY <2>1, <2>4, StackStores
    <3> HIDE DEF t
    <3> QED
      BY <1>2, <2>1, <2>4, <3>1, <3>2, AfterLoad
  <2>5. CASE isMemTemp(v)
    <3> DEFINE t == StackMem(p, v, n + 1)
    <3>1. SelectStkStore(o, v, n) = Load(o, n) \o t
      BY <1>2, <2>2, <2>5 DEF StkStoreMem, p
    <3>2. IsCode(t) /\ (Accepted(t) <=> v.size # 16)
      BY <2>1, <2>5, StackMemAccepted
    <3> HIDE DEF t
    <3> QED
      BY <1>2, <2>1, <2>5, <3>1, <3>2, AfterLoad
  <2>6. CASE isConst(v)
    <3> DEFINE t == StoreConst(RSP, p, v)
    <3>1. SelectStkStore(o, v, n) = Load(o, n) \o t
      BY <1>2, <2>2, <2>6 DEF StkStoreMem, p
    <3>2. IsCode(t) /\ (Accepted(t) <=> ~TooLong(v))
      BY <2>1, <2>6, StackStores
    <3> HIDE DEF t
    <3> QED
      BY <1>2, <2>1, <2>6, <3>1, <3>2, AfterLoad
  <2> QED
    BY <1>2, <2>3, <2>4, <2>5, <2>6
<1> QED
  BY <1>3, <1>4

\* STK_LOAD: the operands for which the selector gives code the assembler refuses.
LEMMA StkLoadAccepted ==
  ASSUME NEW d, NEW o, NEW n, IsPointer(o), Sizable(d), ~isConst(d)
  PROVE  /\ IsCode(SelectStkLoad(d, o, n))
         /\ Accepted(SelectStkLoad(d, o, n)) <=> ~(isMemTemp(d) /\ d.size \in MovableSizes \union {16})
<1> DEFINE p == Loaded(o, n)
<1>1. IsAddress(RSP, p) /\ Addressing(RSP) /\ Addressing(p) /\ Sizable(o) /\ ~isFp(o)
  BY StackAddress DEF IsPointer
<1>2. /\ isGp(d) \/ isFp(d) \/ isMemTemp(d)
      /\ isGp(d) => ~isFp(d) /\ ~isMemTemp(d)
      /\ isFp(d) => ~isMemTemp(d)
      /\ d.kind # "OFFSET" /\ d.size \in Nat
  BY OperandFacts DEF Sizable
<1> HIDE DEF p
<1>3. CASE isGp(d)
  <2> DEFINE s == [k \in DOMAIN Load(o, n) |-> Plain("mov", p, o)]  t == LoadFrom("mov", 0, d, RSP, p)
  <2>1. SelectStkLoad(d, o, n) = s \o t
    BY <1>1, <1>2, <1>3 DEF SelectStkLoad, StkLoadGp, p
  <2>2. IsCode(t) /\ Accepted(t)
    BY <1>1, <1>2, <1>3, LoadFromAccepted
  <2>3. IsCode(s) /\ Accepted(s)
    <3>1. CASE isMemTemp(o)
      <4> DEFINE x == Plain("mov", Patch(o, n, "GP"), o)
      <4>1. p = Patch(o, n, "GP") /\ Load(o, n) = <<Mov(Patch(o, n, "GP"), o)>>
        BY <3>1 DEF p, Loaded, Load
      <4>2. Extent(Patch(o, n, "GP")) = o.size /\ isGp(Patch(o, n, "GP")) /\ Extent(o) = o.size /\ o.size \in Nat /\ InMemory(o)
        BY <1>1, <3>1, PatchFacts, OperandFacts
      <4>3. Encodable(x)
        BY <4>2, Copies DEF TakesOperands, Agree, TwoOperandOps
      <4>4. DOMAIN Load(o, n) = 1..1
        BY <4>1
      <4> HIDE DEF x
      <4>5. s = <<x>>
        BY <4>1, <4>4 DEF x
      <4> QED
        BY <4>3, <4>5, OneAccepted
    <3>2. CASE ~isMemTemp(o)
      <4>1. Load(o, n) = <<>>
        BY <3>2 DEF Load
      <4>2. s = <<>>
        BY <4>1
      <4> QED
        BY <4>2, NoneAccepted
    <3> QED
      BY <3>1, <3>2
  <2> HIDE DEF s, t
  <2> QED
    BY <2>1, <2>2, <2>3, <1>2, <1>3, JoinedAccepted
<1>4. CASE isFp(d)
  <2> DEFINE t == LoadFrom(FpMove(d.size), 0, d, RSP, p)
  <2>1. SelectStkLoad(d, o, n) = Load(o, n) \o t
    BY <1>1, <1>2, <1>4 DEF SelectStkLoad, StkLoadFp, p
  <2>2. IsCode(t) /\ Accepted(t)
    BY <1>1, <1>2, <1>4, FpNames, LoadFromAccepted
  <2> HIDE DEF t
  <2> QED
    BY <2>1, <2>2, <1>1, <1>2, <1>4, AfterLoad
<1>5. CASE isMemTemp(d)
  <2> DEFINE next == After(o, n)  g == Patch(d, next, "GP")  f == Patch(d, next, "FP")
             S(x) == {x[c] : c \in {"op", "args", "defs", "uses", "move", "ends"}}
  <2>1. SelectStkLoad(d, o, n) = StkLoadMem(d, o, n)
    BY <1>1, <1>2, <1>5 DEF SelectStkLoad
  <2>2. ASSUME NEW op, NEW from, NEW t, IsCode(t)
        PROVE  LET c == t \o Unterminated(<<Plain(op, d, from)>>) IN IsCode(c) /\ ~Accepted(c)
    <3> DEFINE x == Plain(op, d, from)  w == Unterminated(<<x>>)
    <3>1. x \in [{"op", "args", "defs", "uses", "move", "ends"} -> S(x)]
      BY DEF Plain, Insn
    <3> HIDE DEF x, S
    <3>2. IsCode(w) /\ ~Accepted(w)
      BY <3>1, OpenAccepted
    <3> HIDE DEF w
    <3>3. IsCode(t \o w) /\ ~Accepted(t \o w)
      BY <2>2, <3>2, JoinedAccepted
    <3> QED
      BY <3>3 DEF w, x
  <2>3. /\ g.kind # "OFFSET" /\ g.size = d.size /\ ~isMemTemp(g)
        /\ f.kind # "OFFSET" /\ f.size = d.size /\ ~isMemTemp(f)
    BY PatchFacts
  <2>4. CASE d.size \in MovableSizes
    <3> DEFINE t == LoadFrom("mov", 0, g, RSP, p)  w == t \o Unterminated(<<Plain("mov", d, g)>>)
    <3>1. StkLoadMem(d, o, n) = Load(o, n) \o w
      BY <2>4 DEF StkLoadMem, MovableSizes, p
    <3>2. IsCode(t)
      <4> HIDE DEF g
      <4> QED
        BY <1>1, <1>2, <2>3, LoadFromAccepted
    <3> HIDE DEF t, g
    <3>3. IsCode(w) /\ ~Accepted(w)
      BY <3>2, <2>2
    <3> HIDE DEF w
    <3> QED
      BY <2>1, <2>4, <3>1, <3>3, <1>1, <1>5, AfterLoad
  <2>5. CASE d.size = 16
    <3> DEFINE t == LoadFrom("movdqu", 0, f, RSP, p)  w == t \o Unterminated(<<Plain("movdqu", d, f)>>)
    <3>1. StkLoadMem(d, o, n) = Load(o, n) \o w
      BY <2>5 DEF StkLoadMem, MovableSizes, p
    <3>2. IsCode(t)
      <4> HIDE DEF f
      <4> QED
        BY <1>1, <1>2, <2>3, LoadFromAccepted
    <3> HIDE DEF t, f
    <3>3. IsCode(w) /\ ~Accepted(w)
      BY <3>2, <2>2
    <3> HIDE DEF w
    <3> QED
      BY <2>1, <2>5, <3>1, <3>3, <1>1, <1>5, AfterLoad
  <2>6. CASE d.size \notin MovableSizes \union {16}
    <3> DEFINE t == CopyFrom(d, RSP, p)
    <3>1. StkLoadMem(d, o, n) = Load(o, n) \o t
      BY <2>6 DEF StkLoadMem, p
    <3>2. IsCode(t) /\ Accepted(t)
      BY <1>1, <1>5, LoadsAccepted
    <3> HIDE DEF t
    <3> QED
      BY <2>1, <2>6, <3>1, <3>2, <1>1, AfterLoad
  <2> QED
    BY <2>4, <2>5, <2>6
<1> QED
  BY <1>2, <1>3, <1>4, <1>5

-----------------------------------------------------------------------------
\* Parts of a temporary

\* What moves to and from a part of a temporary in memory.
LEMMA PartMoves ==
  ASSUME NEW b, NEW o, NEW v, NEW n, Sizable(v)
  PROVE  LET p == Inside(b, o) IN
         /\ isGp(v) => Encodable(Plain("mov", p, v)) /\ Encodable(Plain("mov", v, p))
         /\ isFp(v) => /\ Encodable(Plain(FpBits(v.size), p, v))
                       /\ Encodable(Plain(FpBits(v.size), v, p))
         /\ Encodable(Plain("mov", p, Patch(v, n, "GP")))
         /\ Encodable(Plain("movdqu", p, Patch(v, n, "FP")))
         /\ \A r \in {RSI, RDI} : Encodable(LeaTemp(r, p))
<1> DEFINE p == Inside(b, o)  g == Patch(v, n, "GP")  f == Patch(v, n, "FP")
<1>1. InMemory(p) /\ Extent(p) = 0 /\ Extent(p) \in Nat
  BY PartFacts
<1>2. isGp(g) /\ isFp(f) /\ Extent(g) = v.size /\ Extent(f) = v.size
  BY PatchFacts
<1>3. Extent(v) \in Nat /\ v.size \in Nat
  BY OperandFacts DEF Sizable
<1>4. FpBits(v.size) \in {"movd", "movq"}
  BY FpNames
<1> HIDE DEF p, g, f
<1>5. ASSUME isGp(v)
      PROVE  Encodable(Plain("mov", p, v)) /\ Encodable(Plain("mov", v, p))
  <2>1. TakesOperands("mov", p, v) /\ TakesOperands("mov", v, p)
    BY <1>1, <1>5 DEF TakesOperands, Agree
  <2> QED
    BY <1>1, <1>3, <2>1, Copies DEF TwoOperandOps
<1>6. ASSUME isFp(v)
      PROVE  Encodable(Plain(FpBits(v.size), p, v)) /\ Encodable(Plain(FpBits(v.size), v, p))
  <2>1. TakesOperands(FpBits(v.size), p, v) /\ TakesOperands(FpBits(v.size), v, p)
    BY <1>1, <1>4, <1>6 DEF TakesOperands, Agree
  <2> QED
    BY <1>1, <1>3, <1>4, <2>1, Copies DEF TwoOperandOps
<1>7. TakesOperands("mov", p, g)
  BY <1>1, <1>2 DEF TakesOperands, Agree
<1>8. TakesOperands("movdqu", p, f)
  BY <1>1, <1>2 DEF TakesOperands, Agree
<1>9. Encodable(Plain("mov", p, g)) /\ Encodable(Plain("movdqu", p, f))
  BY <1>1, <1>2, <1>3, <1>7, <1>8, Copies DEF TwoOperandOps
<1>10. \A r \in {RSI, RDI} : Encodable(LeaTemp(r, p))
  BY <1>1, LeaTakes
<1> QED
  BY <1>5, <1>6, <1>9, <1>10 DEF p, g, f

\* OFFSET_STORE: refused only for a number of 64 bits.
LEMMA OffsetStoreAccepted ==
  ASSUME NEW d, NEW v, NEW o, NEW n, Sizable(v), IsPointer(o)
  PROVE  /\ IsCode(SelectOffsetStore(d, v, o, n))
         /\ Accepted(SelectOffsetStore(d, v, o, n)) <=> ~TooLong(v)
<1> DEFINE p == Inside(d, Loaded(o, n))  m == After(o, n)
<1>1. Sizable(o) /\ ~isFp(o)
  BY DEF IsPointer
<1>2. /\ isGp(v) \/ isFp(v) \/ isMemTemp(v) \/ isConst(v)
      /\ isGp(v) => ~isFp(v) /\ ~isMemTemp(v) /\ ~isConst(v)
      /\ isFp(v) => ~isMemTemp(v) /\ ~isConst(v)
      /\ isMemTemp(v) => ~isConst(v)
      /\ ~isConst(v) => ~TooLong(v)
      /\ Extent(v) \in Nat /\ v.size \in Nat
      /\ isMemTemp(v) => InMemory(v)
  BY OperandFacts DEF TooLong, Sizable
<1>3. /\ isGp(v) => Encodable(Plain("mov", p, v))
      /\ isFp(v) => Encodable(Plain(FpBits(v.size), p, v))
      /\ Encodable(Plain("mov", p, Patch(v, m, "GP")))
      /\ Encodable(Plain("movdqu", p, Patch(v, m, "FP")))
      /\ \A r \in {RSI, RDI} : Encodable(LeaTemp(r, p))
  BY PartMoves
<1>4. InMemory(p) /\ ~isGp(p)
  BY PartFacts
<1> HIDE DEF p, m
<1>5. CASE isGp(v)
  <2> DEFINE t == <<Plain("mov", p, v)>>
  <2>1. SelectOffsetStore(d, v, o, n) = Load(o, n) \o t
    BY <1>1, <1>2, <1>5 DEF SelectOffsetStore, OffsetStoreGp, p
  <2>2. IsCode(t) /\ Accepted(t)
    BY <1>3, <1>5, OneAccepted
  <2> HIDE DEF t
  <2> QED
    BY <1>1, <1>2, <1>5, <2>1, <2>2, AfterLoad
<1>6. CASE isFp(v)
  <2> DEFINE t == <<Plain(FpBits(v.size), p, v)>>
  <2>1. SelectOffsetStore(d, v, o, n) = Load(o, n) \o t
    BY <1>1, <1>2, <1>6 DEF SelectOffsetStore, OffsetStoreFp, p
  <2>2. IsCode(t) /\ Accepted(t)
    BY <1>3, <1>6, OneAccepted
  <2> HIDE DEF t
  <2> QED
    BY <1>1, <1>2, <1>6, <2>1, <2>2, AfterLoad
<1>7. CASE isMemTemp(v)
  <2>1. SelectOffsetStore(d, v, o, n) = OffsetStoreMem(d, v, o, n)
    BY <1>1, <1>2, <1>7 DEF SelectOffsetStore
  <2>2. CASE v.size \in MovableSizes
    <3> DEFINE t == <<Mov(Patch(v, m, "GP"), v), Plain("mov", p, Patch(v, m, "GP"))>>
    <3>1. OffsetStoreMem(d, v, o, n) = Load(o, n) \o t
      BY <2>2 DEF OffsetStoreMem, MovableSizes, p, m
    <3>2. Encodable(Mov(Patch(v, m, "GP"), v))
      BY <1>7, PatchMoves
    <3>3. IsCode(t) /\ Accepted(t)
      BY <1>3, <3>2, TwoAccepted
    <3> HIDE DEF t
    <3> QED
      BY <1>1, <1>2, <1>7, <2>1, <3>1, <3>3, AfterLoad
  <2>3. CASE v.size = 16
    <3> DEFINE t == <<Copy("movdqu", Patch(v, m, "FP"), v), Plain("movdqu", p, Patch(v, m, "FP"))>>
    <3>1. OffsetStoreMem(d, v, o, n) = Load(o, n) \o t
      BY <2>3 DEF OffsetStoreMem, MovableSizes, p, m
    <3>2. Encodable(Copy("movdqu", Patch(v, m, "FP"), v))
      BY <1>7, PatchMoves
    <3>3. IsCode(t) /\ Accepted(t)
      BY <1>3, <3>2, TwoAccepted
    <3> HIDE DEF t
    <3> QED
      BY <1>1, <1>2, <1>7, <2>1, <3>1, <3>3, AfterLoad
  <2>4. CASE v.size \notin MovableSizes \union {16}
    <3> DEFINE copy == FinishMemcpy(v.size, <<d>>, <<v>>)
               t == <<LeaTemp(RSI, v), LeaTemp(RDI, p), copy[1], Moving(copy[2], 4, 4)>>
    <3>1. OffsetStoreMem(d, v, o, n) = Load(o, n) \o t
      BY <2>4 DEF OffsetStoreMem, p
    <3>2. Encodable(LeaTemp(RSI, v)) /\ Encodable(LeaTemp(RDI, p))
      BY <1>2, <1>3, <1>7, LeaTakes
    <3>3. Encodable(copy[1]) /\ Encodable(Moving(copy[2], 4, 4))
      BY MemcpyTakes
    <3> HIDE DEF copy
    <3>4. IsCode(t) /\ Accepted(t)
      BY <3>2, <3>3, FourAccepted
    <3> HIDE DEF t
    <3> QED
      BY <1>1, <1>2, <1>7, <2>1, <3>1, <3>4, AfterLoad
  <2> QED
    BY <2>2, <2>3, <2>4
<1>8. CASE isConst(v)
  <2>1. SelectOffsetStore(d, v, o, n) = OffsetStoreConst(d, v, o, n)
    BY <1>1, <1>2, <1>8 DEF SelectOffsetStore
  <2>2. CASE v.size \in MovableSizes
    <3> DEFINE x == Insn("mov", <<Sized(v.size), Imm(v.value)>>, <<p>>, <<>>)  t == <<x>>
    <3>1. OffsetStoreConst(d, v, o, n) = Load(o, n) \o t
      BY <2>2 DEF OffsetStoreConst, p
    <3>2. Encodable(x) <=> (v.size = 8 => FitsImmediate(v.value))
      BY <1>2, <1>4, SizedTakes
    <3> HIDE DEF x
    <3>3. IsCode(t) /\ (Accepted(t) <=> ~TooLong(v))
      BY <1>8, <3>2, OneAccepted DEF TooLong
    <3> HIDE DEF t
    <3> QED
      BY <1>1, <2>1, <3>1, <3>3, AfterLoad
  <2>3. CASE v.size \notin MovableSizes
    <3> DEFINE s == <<LeaFrag(RSI, v), LeaTemp(RDI, p)>>  c == FinishMemcpy(v.size, <<d>>, <<>>)  t == s \o c
    <3>1. OffsetStoreConst(d, v, o, n) = Load(o, n) \o s \o c
      BY <2>3 DEF OffsetStoreConst, p
    <3>2. IsCode(s) /\ Accepted(s)
      BY <1>3, LeaFragTakes, TwoAccepted
    <3>3. IsCode(c) /\ Accepted(c)
      BY MemcpyAccepted
    <3>4. ~TooLong(v)
      BY <2>3 DEF TooLong, MovableSizes
    <3> DEFINE l == Load(o, n)
    <3>5. IsCode(l) /\ Accepted(l)
      BY <1>1, LoadAccepted
    <3> HIDE DEF s, c, l
    <3>6. IsCode(l \o s) /\ Accepted(l \o s)
      BY <3>2, <3>5, JoinedAccepted
    <3> DEFINE h == l \o s
    <3> HIDE DEF h
    <3>7. IsCode(h \o c) /\ Accepted(h \o c)
      BY <3>3, <3>6, JoinedAccepted DEF h
    <3> QED
      BY <2>1, <3>1, <3>4, <3>7 DEF h, l
  <2> QED
    BY <2>2, <2>3
<1> QED
  BY <1>2, <1>5, <1>6, <1>7, <1>8

\* OFFSET_LOAD: accepted for everything it is asked of.
LEMMA OffsetLoadAccepted ==
  ASSUME NEW d, NEW s, NEW o, NEW n, Sizable(d), ~isConst(d), IsPointer(o)
  PROVE  IsCode(SelectOffsetLoad(d, s, o, n)) /\ Accepted(SelectOffsetLoad(d, s, o, n))
<1> DEFINE p == Inside(s, Loaded(o, n))
<1>1. Sizable(o) /\ ~isFp(o)
  BY DEF IsPointer
<1>2. /\ isGp(d) \/ isFp(d) \/ isMemTemp(d)
      /\ isGp(d) => ~isFp(d) /\ ~isMemTemp(d)
      /\ isFp(d) => ~isMemTemp(d)
      /\ Extent(d) \in Nat
      /\ isMemTemp(d) => InMemory(d)
  BY OperandFacts
<1>3. /\ isGp(d) => Encodable(Plain("mov", d, p))
      /\ isFp(d) => Encodable(Plain(FpBits(d.size), d, p))
      /\ \A r \in {RSI, RDI} : Encodable(LeaTemp(r, p))
  BY PartMoves
<1> HIDE DEF p
<1>4. CASE isGp(d)
  <2> DEFINE t == <<Plain("mov", d, p)>>
  <2>1. SelectOffsetLoad(d, s, o, n) = Load(o, n) \o t
    BY <1>1, <1>2, <1>4 DEF SelectOffsetLoad, OffsetLoadGp, p
  <2>2. IsCode(t) /\ Accepted(t)
    BY <1>3, <1>4, OneAccepted
  <2> HIDE DEF t
  <2> QED
    BY <1>1, <2>1, <2>2, AfterLoad
<1>5. CASE isFp(d)
  <2> DEFINE t == <<Plain(FpBits(d.size), d, p)>>
  <2>1. SelectOffsetLoad(d, s, o, n) = Load(o, n) \o t
    BY <1>1, <1>2, <1>5 DEF SelectOffsetLoad, OffsetLoadFp, p
  <2>2. IsCode(t) /\ Accepted(t)
    BY <1>3, <1>5, OneAccepted
  <2> HIDE DEF t
  <2> QED
    BY <1>1, <2>1, <2>2, AfterLoad
<1>6. CASE isMemTemp(d)
  <2> DEFINE copy == FinishMemcpy(d.size, <<d>>, <<s>>)
             t == <<LeaTemp(RSI, p), LeaTemp(RDI, d), copy[1], Moving(copy[2], 4, 4)>>
  <2>1. SelectOffsetLoad(d, s, o, n) = Load(o, n) \o t
    BY <1>1, <1>2, <1>6 DEF SelectOffsetLoad, OffsetLoadMem, p
  <2>2. Encodable(LeaTemp(RSI, p)) /\ Encodable(LeaTemp(RDI, d))
    BY <1>2, <1>3, <1>6, LeaTakes
  <2>3. Encodable(copy[1]) /\ Encodable(Moving(copy[2], 4, 4))
    BY MemcpyTakes
  <2> HIDE DEF copy
  <2>4. IsCode(t) /\ Accepted(t)
    BY <2>2, <2>3, FourAccepted
  <2> HIDE DEF t
  <2> QED
    BY <1>1, <2>1, <2>4, AfterLoad
<1> QED
  BY <1>2, <1>4, <1>5, <1>6

-----------------------------------------------------------------------------
\* Arithmetic

\* Operands of w bytes the selector computes with, and the places it computes in.
Integral(o, w) == Sizable(o) /\ ~isFp(o) /\ o.size = w
Holds(o, w)    == Extent(o) = w /\ (isGp(o) \/ InMemory(o))

\* What an operand of a given width can be.
LEMMA IntegralFacts ==
  ASSUME NEW o, NEW w, Integral(o, w)
  PROVE  /\ isGp(o) \/ isMemTemp(o) \/ isConst(o)
         /\ isGp(o) => ~isMemTemp(o) /\ ~isConst(o)
         /\ isMemTemp(o) => ~isConst(o)
         /\ ~isConst(o) => Holds(o, w) /\ ~TooLong(o)
         /\ InMemory(o) <=> isMemTemp(o)
         /\ w \in Nat /\ Sizable(o) /\ ~isFp(o) /\ o.size = w
BY OperandFacts DEF Integral, Holds, TooLong, Sizable

\* A patch for an operand holds as much as the operand, in a register.
LEMMA PatchHolds ==
  ASSUME NEW o, NEW n
  PROVE  LET p == Patch(o, n, "GP") IN
         Holds(p, o.size) /\ isGp(p) /\ Holds(Wide(p), 2) /\ isGp(Wide(p))
BY PatchFacts, WidePatch DEF Holds

\* Two operands that hold the same width can be combined if one is a register.
LEMMA Combining ==
  ASSUME NEW op \in {"mov", "add", "sub", "xor", "imul"}, NEW w \in Nat, NEW t, NEW s,
         Holds(t, w), Holds(s, w), isGp(t) \/ (isGp(s) /\ op # "imul"), op = "imul" => w # 1
  PROVE  Encodable(Plain(op, t, s)) /\ Encodable(Copy(op, t, s)) /\ Encodable(Combine(op, t, s))
<1>1. TakesOperands(op, t, s)
  BY DEF TakesOperands, Agree, Holds
<1>2. op \in TwoOperandOps /\ Extent(t) \in Nat /\ Extent(s) \in Nat
  BY DEF TwoOperandOps, Holds
<1> QED
  BY <1>1, <1>2, Copies

\* A number can be combined into a register or memory unless it needs 64 bits.
LEMMA CombiningImm ==
  ASSUME NEW w \in Nat, NEW t, NEW c, Holds(t, w), isConst(c), c.size = w, NEW uses
  PROVE  /\ \A op \in {"add", "sub", "xor"} :
              Encodable(Insn(op, <<D, Imm(c.value)>>, <<t>>, uses)) <=> ~TooLong(c)
         /\ isGp(t) => Encodable(MovImm(t, c.value))
         /\ ~isGp(t) => (Encodable(MovImm(t, c.value)) <=> ~TooLong(c))
<1>1. Extent(t) = w /\ Extent(t) \in Nat /\ (isGp(t) \/ InMemory(t))
  BY DEF Holds
<1>2. TooLong(c) <=> w = 8 /\ ~FitsImmediate(c.value)
  BY DEF TooLong
<1>3. ASSUME NEW op \in {"add", "sub", "xor"}
      PROVE  Encodable(Insn(op, <<D, Imm(c.value)>>, <<t>>, uses)) <=> ~TooLong(c)
  <2>1. TakesImmediate(op, t, c.value) <=> ~TooLong(c)
    BY <1>1, <1>2 DEF TakesImmediate
  <2> QED
    BY <1>1, <2>1, Immediates
<1>4. Encodable(MovImm(t, c.value)) <=> TakesImmediate("mov", t, c.value)
  BY <1>1, Immediates DEF MovImm
<1>5. /\ isGp(t) => TakesImmediate("mov", t, c.value)
      /\ ~isGp(t) => (TakesImmediate("mov", t, c.value) <=> ~TooLong(c))
  BY <1>1, <1>2 DEF TakesImmediate
<1> QED
  BY <1>3, <1>4, <1>5

\* Computing in the destination.
LEMMA InPlaceAccepted ==
  ASSUME NEW w \in Nat, NEW op \in {"add", "sub", "imul"}, NEW t, NEW x, NEW y,
         Holds(t, w), Holds(x, w), Holds(y, w),
         isGp(t) \/ (isGp(x) /\ isGp(y) /\ op # "imul"), op = "imul" => w # 1
  PROVE  IsCode(InPlace(op, t, x, y)) /\ Accepted(InPlace(op, t, x, y))
<1>1. Encodable(Copy("mov", t, x))
  BY Combining
<1>2. Encodable(Combine(op, t, y))
  BY Combining
<1> QED
  BY <1>1, <1>2, TwoAccepted DEF InPlace, Mov

\* Computing in the destination with a number.
LEMMA InPlaceImmAccepted ==
  ASSUME NEW w \in Nat, NEW op \in {"add", "sub"}, NEW t, NEW x, NEW c,
         Holds(t, w), Holds(x, w), isGp(t) \/ isGp(x), isConst(c), c.size = w
  PROVE  /\ IsCode(InPlaceImm(op, t, x, c))
         /\ Accepted(InPlaceImm(op, t, x, c)) <=> ~TooLong(c)
<1>1. Encodable(Copy("mov", t, x))
  BY Combining
<1>2. Encodable(CombineImm(op, t, c)) <=> ~TooLong(c)
  BY CombiningImm DEF CombineImm
<1> QED
  BY <1>1, <1>2, TwoAccepted DEF InPlaceImm, Mov

\* A result that is computed in a patch is then moved to its place.
LEMMA ThenMoved ==
  ASSUME NEW d, NEW n, Sizable(d), isMemTemp(d), NEW s, IsCode(s)
  PROVE  LET c == s \o <<Mov(d, Patch(d, n, "GP"))>> IN IsCode(c) /\ (Accepted(c) <=> Accepted(s))
<1> DEFINE x == Mov(d, Patch(d, n, "GP"))  t == <<x>>
<1>1. IsCode(t) /\ Accepted(t)
  BY PatchMoves, OneAccepted
<1> HIDE DEF t
<1>2. IsCode(s \o t) /\ (Accepted(s \o t) <=> Accepted(s))
  BY <1>1, JoinedAccepted
<1> QED
  BY <1>2 DEF t

\* Computing in a patch for a destination in memory.
LEMMA InPatchAccepted ==
  ASSUME NEW w, NEW op \in {"add", "sub", "imul"}, NEW d, NEW n, Integral(d, w), isMemTemp(d),
         NEW x, NEW y, Holds(x, w), Holds(y, w), op = "imul" => w # 1
  PROVE  IsCode(InPatch(op, d, x, y, n)) /\ Accepted(InPatch(op, d, x, y, n))
<1> DEFINE p == Patch(d, n, "GP")  s == InPlace(op, p, x, y)
<1>1. w \in Nat /\ Sizable(d) /\ d.size = w
  BY IntegralFacts
<1>2. Holds(p, w) /\ isGp(p)
  BY <1>1, PatchHolds
<1>3. InPatch(op, d, x, y, n) = s \o <<Mov(d, Patch(d, n, "GP"))>>
  BY DEF InPatch
<1> HIDE DEF p
<1>4. IsCode(s) /\ Accepted(s)
  BY <1>1, <1>2, InPlaceAccepted
<1> HIDE DEF s
<1> QED
  BY <1>1, <1>3, <1>4, ThenMoved

\* Computing in such a patch with a number.
LEMMA InPatchImmAccepted ==
  ASSUME NEW w, NEW op \in {"add", "sub"}, NEW d, NEW n, Integral(d, w), isMemTemp(d),
         NEW x, NEW c, Holds(x, w), isConst(c), c.size = w
  PROVE  IsCode(InPatchImm(op, d, x, c, n)) /\ (Accepted(InPatchImm(op, d, x, c, n)) <=> ~TooLong(c))
<1> DEFINE p == Patch(d, n, "GP")  s == InPlaceImm(op, p, x, c)
<1>1. w \in Nat /\ Sizable(d) /\ d.size = w
  BY IntegralFacts
<1>2. Holds(p, w) /\ isGp(p)
  BY <1>1, PatchHolds
<1>3. InPatchImm(op, d, x, c, n) = s \o <<Mov(d, Patch(d, n, "GP"))>>
  BY DEF InPatchImm
<1> HIDE DEF p
<1>4. IsCode(s) /\ (Accepted(s) <=> ~TooLong(c))
  BY <1>1, <1>2, InPlaceImmAccepted
<1> HIDE DEF s
<1> QED
  BY <1>1, <1>3, <1>4, ThenMoved

\* Two constants are added when the code is assembled.
LEMMA FoldedAccepted ==
  ASSUME NEW w, NEW d, NEW n, Integral(d, w), ~isConst(d), NEW f, NEW c, NEW e
  PROVE  /\ IsCode(Folded(f, d, c, e)) /\ Accepted(Folded(f, d, c, e))
         /\ isMemTemp(d) => IsCode(FoldedMem(f, d, c, e, n)) /\ Accepted(FoldedMem(f, d, c, e, n))
<1>1. w \in Nat /\ Sizable(d) /\ d.size = w /\ Holds(d, w)
  BY IntegralFacts
<1>2. ASSUME NEW t, Holds(t, w)
      PROVE  IsCode(Folded(f, t, c, e)) /\ Accepted(Folded(f, t, c, e))
  <2>1. Encodable(Insn("mov", <<D, Infix(f, c.value, e.value)>>, <<t>>, <<>>))
    BY <1>1, <1>2, InfixTakes DEF Holds
  <2> QED
    BY <2>1, OneAccepted DEF Folded
<1>3. ASSUME isMemTemp(d)
      PROVE  IsCode(FoldedMem(f, d, c, e, n)) /\ Accepted(FoldedMem(f, d, c, e, n))
  <2> DEFINE s == Folded(f, Patch(d, n, "GP"), c, e)
  <2>1. IsCode(s) /\ Accepted(s)
    BY <1>1, <1>2, PatchHolds
  <2>2. FoldedMem(f, d, c, e, n) = IF d.size = 8 THEN s \o <<Mov(d, Patch(d, n, "GP"))>> ELSE Folded(f, d, c, e)
    BY DEF FoldedMem
  <2> HIDE DEF s
  <2> QED
    BY <1>1, <1>2, <1>3, <2>1, <2>2, ThenMoved
<1> QED
  BY <1>1, <1>2, <1>3

-----------------------------------------------------------------------------
\* ADD: the operands for which the selector gives code the assembler refuses.
LEMMA AddAccepted ==
  ASSUME NEW w, NEW d, NEW x, NEW y, NEW n, Integral(d, w), Integral(x, w), Integral(y, w), ~isConst(d)
  PROVE  /\ IsCode(SelectAdd(d, x, y, n))
         /\ Accepted(SelectAdd(d, x, y, n)) <=>
              /\ ~(TooLong(y) /\ ~isConst(x))
              /\ ~(TooLong(x) /\ ~isConst(y) /\ isMemTemp(d))
<1>1. /\ isGp(d) \/ isMemTemp(d)
      /\ isGp(d) => ~isMemTemp(d)
      /\ Holds(d, w) /\ w \in Nat /\ ~isFp(d)
  BY IntegralFacts
<1>2. /\ isGp(x) \/ isMemTemp(x) \/ isConst(x)
      /\ isGp(x) => ~isMemTemp(x) /\ ~isConst(x)
      /\ isMemTemp(x) => ~isConst(x)
      /\ ~isConst(x) => Holds(x, w) /\ ~TooLong(x)
      /\ ~isFp(x) /\ x.size = w
  BY IntegralFacts
<1>3. /\ isGp(y) \/ isMemTemp(y) \/ isConst(y)
      /\ isGp(y) => ~isMemTemp(y) /\ ~isConst(y)
      /\ isMemTemp(y) => ~isConst(y)
      /\ ~isConst(y) => Holds(y, w) /\ ~TooLong(y)
      /\ ~isFp(y) /\ y.size = w
  BY IntegralFacts
<1>4. CASE isConst(x) /\ isConst(y)
  <2>1. CASE isGp(d)
    <3>1. SelectAdd(d, x, y, n) = AddConsts(d, x, y)
      BY <1>1, <1>2, <1>3, <1>4, <2>1 DEF SelectAdd
    <3> QED
      BY <1>4, <3>1, FoldedAccepted DEF AddConsts
  <2>2. CASE isMemTemp(d)
    <3>1. SelectAdd(d, x, y, n) = AddConstsMem(d, x, y, n)
      BY <1>1, <1>2, <1>3, <1>4, <2>2 DEF SelectAdd
    <3> QED
      BY <1>4, <2>2, <3>1, FoldedAccepted DEF AddConstsMem
  <2> QED
    BY <1>1, <2>1, <2>2
<1>5. CASE isConst(x) /\ ~isConst(y) /\ (isGp(d) \/ isGp(y))
  <2>1. SelectAdd(d, x, y, n) = <<MovImm(d, x.value), Combine("add", d, y)>>
    BY <1>1, <1>2, <1>3, <1>5 DEF SelectAdd, AddToConst
  <2>2. Encodable(MovImm(d, x.value)) <=> ~(TooLong(x) /\ isMemTemp(d))
    BY <1>1, <1>2, <1>5, CombiningImm
  <2>3. Encodable(Combine("add", d, y))
    BY <1>1, <1>3, <1>5, Combining
  <2> QED
    BY <1>3, <1>5, <2>1, <2>2, <2>3, TwoAccepted
<1>6. CASE isConst(x) /\ ~isConst(y) /\ ~(isGp(d) \/ isGp(y))
  <2>1. SelectAdd(d, x, y, n) = InPatchImm("add", d, y, x, n)
    BY <1>1, <1>2, <1>3, <1>6 DEF SelectAdd, AddConstMem
  <2> QED
    BY <1>1, <1>2, <1>3, <1>6, <2>1, InPatchImmAccepted
<1>7. CASE isConst(y) /\ ~isConst(x) /\ (isGp(d) \/ isGp(x))
  <2>1. SelectAdd(d, x, y, n) = InPlaceImm("add", d, x, y)
    BY <1>1, <1>2, <1>3, <1>7 DEF SelectAdd, AddConst
  <2> QED
    BY <1>1, <1>2, <1>3, <1>7, <2>1, InPlaceImmAccepted
<1>8. CASE isConst(y) /\ ~isConst(x) /\ ~(isGp(d) \/ isGp(x))
  <2>1. SelectAdd(d, x, y, n) = InPatchImm("add", d, x, y, n)
    BY <1>1, <1>2, <1>3, <1>8 DEF SelectAdd, AddMemConst
  <2> QED
    BY <1>1, <1>2, <1>3, <1>8, <2>1, InPatchImmAccepted
<1>9. CASE ~isConst(x) /\ ~isConst(y) /\ (isGp(d) \/ (isGp(x) /\ isGp(y)))
  <2>1. SelectAdd(d, x, y, n) = InPlace("add", d, x, y)
    BY <1>1, <1>2, <1>3, <1>9 DEF SelectAdd, AddOperands
  <2> QED
    BY <1>1, <1>2, <1>3, <1>9, <2>1, InPlaceAccepted
<1>10. CASE ~isConst(x) /\ ~isConst(y) /\ ~(isGp(d) \/ (isGp(x) /\ isGp(y)))
  <2>1. SelectAdd(d, x, y, n) = InPatch("add", d, x, y, n)
    BY <1>1, <1>2, <1>3, <1>10 DEF SelectAdd, AddInMemory
  <2> QED
    BY <1>1, <1>2, <1>3, <1>10, <2>1, InPatchAccepted
<1> QED
  BY <1>4, <1>5, <1>6, <1>7, <1>8, <1>9, <1>10

\* SUB: the operands for which the selector gives code the assembler refuses.
LEMMA SubAccepted ==
  ASSUME NEW w, NEW d, NEW x, NEW y, NEW n, Integral(d, w), Integral(x, w), Integral(y, w), ~isConst(d)
  PROVE  /\ IsCode(SelectSub(d, x, y, n))
         /\ Accepted(SelectSub(d, x, y, n)) <=> ~(TooLong(y) /\ ~isConst(x)) /\ ~(isConst(x) /\ ~isConst(y))
<1>1. /\ isGp(d) \/ isMemTemp(d)
      /\ isGp(d) => ~isMemTemp(d)
      /\ Holds(d, w) /\ w \in Nat /\ ~isFp(d)
  BY IntegralFacts
<1>2. /\ isGp(x) \/ isMemTemp(x) \/ isConst(x)
      /\ isGp(x) => ~isMemTemp(x) /\ ~isConst(x)
      /\ isMemTemp(x) => ~isConst(x)
      /\ ~isConst(x) => Holds(x, w) /\ ~TooLong(x)
      /\ ~isFp(x) /\ x.size = w
  BY IntegralFacts
<1>3. /\ isGp(y) \/ isMemTemp(y) \/ isConst(y)
      /\ isGp(y) => ~isMemTemp(y) /\ ~isConst(y)
      /\ isMemTemp(y) => ~isConst(y)
      /\ ~isConst(y) => Holds(y, w) /\ ~TooLong(y)
      /\ ~isFp(y) /\ y.size = w
  BY IntegralFacts
<1>4. CASE isConst(x) /\ isConst(y)
  <2>1. CASE isGp(d)
    <3>1. SelectSub(d, x, y, n) = SubConsts(d, x, y)
      BY <1>1, <1>2, <1>3, <1>4, <2>1 DEF SelectSub
    <3> QED
      BY <1>4, <3>1, FoldedAccepted DEF SubConsts
  <2>2. CASE isMemTemp(d)
    <3>1. SelectSub(d, x, y, n) = SubConstsMem(d, x, y, n)
      BY <1>1, <1>2, <1>3, <1>4, <2>2 DEF SelectSub
    <3> QED
      BY <1>4, <2>2, <3>1, FoldedAccepted DEF SubConstsMem
  <2> QED
    BY <1>1, <2>1, <2>2
<1>5. CASE isConst(x) /\ ~isConst(y)
  <2>1. SelectSub(d, x, y, n) = SubFromConst(d, x, y)
    BY <1>1, <1>2, <1>3, <1>5 DEF SelectSub
  <2> QED
    BY <1>5, <2>1, NeverAccepted DEF SubFromConst
<1>6. CASE isConst(y) /\ ~isConst(x) /\ isGp(d)
  <2>1. SelectSub(d, x, y, n) = InPlaceImm("sub", d, x, y)
    BY <1>1, <1>2, <1>3, <1>6 DEF SelectSub, SubConst
  <2> QED
    BY <1>1, <1>2, <1>3, <1>6, <2>1, InPlaceImmAccepted
<1>7. CASE isConst(y) /\ ~isConst(x) /\ ~isGp(d)
  <2>1. SelectSub(d, x, y, n) = InPatchImm("sub", d, x, y, n)
    BY <1>1, <1>2, <1>3, <1>7 DEF SelectSub, SubMemConst
  <2> QED
    BY <1>1, <1>2, <1>3, <1>7, <2>1, InPatchImmAccepted
<1>8. CASE ~isConst(x) /\ ~isConst(y) /\ (isGp(d) \/ (isGp(x) /\ isGp(y)))
  <2>1. SelectSub(d, x, y, n) = InPlace("sub", d, x, y)
    BY <1>1, <1>2, <1>3, <1>8 DEF SelectSub, SubOperands
  <2> QED
    BY <1>1, <1>2, <1>3, <1>8, <2>1, InPlaceAccepted
<1>9. CASE ~isConst(x) /\ ~isConst(y) /\ ~(isGp(d) \/ (isGp(x) /\ isGp(y)))
  <2>1. SelectSub(d, x, y, n) = InPatch("sub", d, x, y, n)
    BY <1>1, <1>2, <1>3, <1>9 DEF SelectSub, SubInMemory
  <2> QED
    BY <1>1, <1>2, <1>3, <1>9, <2>1, InPatchAccepted
<1> QED
  BY <1>4, <1>5, <1>6, <1>7, <1>8, <1>9

\* What the second operand is combined into.
LEMMA XorIntoTakes ==
  ASSUME NEW w \in Nat, NEW t, NEW s, Holds(t, w), isGp(t), Integral(s, w)
  PROVE  Encodable(XorInto(t, s)) <=> ~TooLong(s)
<1>1. CASE isConst(s)
  BY <1>1, IntegralFacts, CombiningImm DEF XorInto
<1>2. CASE ~isConst(s)
  BY <1>2, IntegralFacts, Combining DEF XorInto
<1> QED
  BY <1>1, <1>2

\* XOR: the operands for which the selector gives code the assembler refuses.
LEMMA XorAccepted ==
  ASSUME NEW w, NEW d, NEW x, NEW y, Integral(d, w), Integral(x, w), Integral(y, w), ~isConst(d)
  PROVE  /\ IsCode(SelectXor(d, x, y))
         /\ Accepted(SelectXor(d, x, y)) <=>
              /\ ~(TooLong(y) /\ ~(isMemTemp(d) /\ ~isGp(x)))
              /\ ~(TooLong(x) /\ isMemTemp(d) /\ isGp(y))
              /\ ~(isGp(d) /\ isConst(x) /\ isConst(y))
<1>1. /\ isGp(d) \/ isMemTemp(d)
      /\ isGp(d) => ~isMemTemp(d)
      /\ Holds(d, w) /\ w \in Nat /\ ~isFp(d)
  BY IntegralFacts
<1>2. /\ isGp(x) \/ isMemTemp(x) \/ isConst(x)
      /\ isGp(x) => ~isMemTemp(x) /\ ~isConst(x)
      /\ isMemTemp(x) => ~isConst(x)
      /\ ~isConst(x) => Holds(x, w) /\ ~TooLong(x)
      /\ ~isFp(x) /\ x.size = w
  BY IntegralFacts
<1>3. /\ isGp(y) \/ isMemTemp(y) \/ isConst(y)
      /\ isGp(y) => ~isMemTemp(y) /\ ~isConst(y)
      /\ isMemTemp(y) => ~isConst(y)
      /\ ~isConst(y) => Holds(y, w) /\ ~TooLong(y)
      /\ ~isFp(y) /\ y.size = w
  BY IntegralFacts
<1>4. CASE isGp(d) /\ isConst(x) /\ isConst(y)
  <2> DEFINE i == Insn("mov with stray marker", <<D, Imm(x.value)>>, <<d>>, <<>>)  j == XorInto(d, y)
  <2>1. ~Encodable(i)
    BY NeverTaken
  <2>2. SelectXor(d, x, y) = XorConsts(d, x, y)
    BY <1>1, <1>2, <1>3, <1>4 DEF SelectXor
  <2>3. XorConsts(d, x, y) = <<i, j>>
    BY DEF XorConsts
  <2> HIDE DEF i, j
  <2>4. IsCode(<<i, j>>) /\ ~Accepted(<<i, j>>)
    BY <2>1, TwoAccepted
  <2> QED
    BY <1>4, <2>2, <2>3, <2>4
<1>5. CASE isGp(d) /\ ~(isConst(x) /\ isConst(y))
  <2> DEFINE i == IF isConst(x) THEN MovImm(d, x.value) ELSE Mov(d, x)  j == XorInto(d, y)
  <2>1. SelectXor(d, x, y) = <<i>> \o <<j>>
    BY <1>1, <1>2, <1>3, <1>5 DEF SelectXor, XorRegister
  <2>2. Encodable(i)
    <3>1. isConst(x) => Encodable(MovImm(d, x.value))
      BY <1>1, <1>2, <1>5, CombiningImm
    <3>2. ~isConst(x) => Encodable(Mov(d, x))
      BY <1>1, <1>2, <1>5, Combining DEF Mov
    <3> QED
      BY <3>1, <3>2
  <2>3. Encodable(j) <=> ~TooLong(y)
    BY <1>1, <1>5, XorIntoTakes
  <2> HIDE DEF i, j
  <2>4. IsCode(<<i>>) /\ Accepted(<<i>>) /\ IsCode(<<j>>) /\ (Accepted(<<j>>) <=> ~TooLong(y))
    BY <2>2, <2>3, OneAccepted
  <2> DEFINE s == <<i>>  t == <<j>>
  <2> HIDE DEF s, t
  <2>5. IsCode(s) /\ Accepted(s) /\ IsCode(t) /\ (Accepted(t) <=> ~TooLong(y))
    BY <2>4 DEF s, t
  <2>6. IsCode(s \o t) /\ (Accepted(s \o t) <=> ~TooLong(y))
    BY <2>5, JoinedAccepted
  <2>7. SelectXor(d, x, y) = s \o t
    BY <2>1 DEF s, t
  <2> QED
    BY <1>1, <1>5, <2>6, <2>7
<1>6. CASE isMemTemp(d) /\ isGp(x)
  <2>1. SelectXor(d, x, y) = <<XorInto(x, y), Plain("mov", d, x)>>
    BY <1>1, <1>2, <1>3, <1>6 DEF SelectXor, XorMemory
  <2>2. Encodable(XorInto(x, y)) <=> ~TooLong(y)
    BY <1>1, <1>2, <1>6, XorIntoTakes
  <2>3. Encodable(Plain("mov", d, x))
    BY <1>1, <1>2, <1>6, Combining
  <2> QED
    BY <1>1, <1>2, <1>6, <2>1, <2>2, <2>3, TwoAccepted
<1>7. CASE isMemTemp(d) /\ ~isGp(x) /\ isGp(y)
  <2>1. SelectXor(d, x, y) = <<XorInto(y, x), Plain("mov", d, y)>>
    BY <1>1, <1>2, <1>3, <1>7 DEF SelectXor, XorMemory
  <2>2. Encodable(XorInto(y, x)) <=> ~TooLong(x)
    BY <1>1, <1>3, <1>7, XorIntoTakes
  <2>3. Encodable(Plain("mov", d, y))
    BY <1>1, <1>3, <1>7, Combining
  <2> QED
    BY <1>1, <1>3, <1>7, <2>1, <2>2, <2>3, TwoAccepted
<1>8. CASE isMemTemp(d) /\ ~isGp(x) /\ ~isGp(y)
  <2>1. SelectXor(d, x, y) = <<>>
    BY <1>1, <1>2, <1>3, <1>8 DEF SelectXor, XorMemory
  <2> QED
    BY <1>1, <1>8, <2>1, NoneAccepted
<1> QED
  BY <1>1, <1>4, <1>5, <1>6, <1>7, <1>8

-----------------------------------------------------------------------------
\* Products

\* Of an instruction that lists a second used operand only the first is printed.
LEMMA FirstUsed ==
  ASSUME NEW op \in TwoOperandOps, NEW t, NEW s, NEW z, Extent(t) \in Nat, Extent(s) \in Nat
  PROVE  Encodable(Insn(op, <<D, U>>, <<t>>, <<s, z>>)) <=> TakesOperands(op, t, s)
<1> DEFINE i == Insn(op, <<D, U>>, <<t>>, <<s, z>>)
<1>1. Printed(i) = << <<"op", t>>, <<"op", s>> >>
  BY PrintedPair
<1>2. i.ends = TRUE /\ i.op = op
  BY DEF Insn
<1> HIDE DEF i
<1>3. i.op # "rep movs" => (Encodable(i) <=> TakesOperands(op, t, s))
  BY <1>1, <1>2, TwoOperands
<1>4. op # "rep movs"
  BY DEF TwoOperandOps
<1> QED
  BY <1>2, <1>3, <1>4 DEF i

\* A byte can be extended into a widened register.
LEMMA Extending ==
  ASSUME NEW t, NEW s, Holds(Wide(t), 2), isGp(Wide(t)), Holds(s, 1)
  PROVE  Encodable(Movsx(t, s)) /\ Encodable(Moving(Movsx(t, s), 1, 1))
<1>1. Extent(Wide(t)) = 2 /\ Extent(s) = 1
  BY DEF Holds
<1>2. TakesOperands("movsx", Wide(t), s)
  BY <1>1 DEF TakesOperands, Holds
<1>3. Encodable(Movsx(t, s))
  BY <1>1, <1>2, MovsxTakes
<1> QED
  BY <1>3, Moved DEF Movsx

\* A register can be multiplied by a number of two or four bytes.
LEMMA Multiplying ==
  ASSUME NEW w \in Nat \ {1, 8}, NEW t, NEW s, NEW c, Holds(t, w), isGp(t), Holds(s, w)
  PROVE  Encodable(ImulImm(t, s, c))
BY ImulTakes DEF Holds, Agree

\* A register times a constant, for each of the arms by size.
LEMMA ProductOfConst ==
  ASSUME NEW w \in Nat, NEW t, NEW x, NEW c, NEW n, Holds(t, w), isGp(t), t.size = w, isConst(c), c.size = w,
         Holds(x, w), x.size = w, Holds(Wide(t), 2), isGp(Wide(t))
  PROVE  /\ IsCode(SmulConst(t, x, c, n)) /\ Accepted(SmulConst(t, x, c, n))
         /\ IsCode(SmulByConst(t, c, x, n)) /\ Accepted(SmulByConst(t, c, x, n))
<1> DEFINE p == Patch(x, n, "GP")
<1>1. Holds(p, w) /\ isGp(p) /\ Holds(Wide(p), 2) /\ isGp(Wide(p))
  BY PatchHolds
<1>2. CASE w = 8
  <2> DEFINE i == MovImm(t, c.value)  j == Insn("imul", <<D, U>>, <<t>>, <<t, x>>)  k == Combine("imul", t, x)
  <2>0. Encodable(i)
    BY CombiningImm
  <2>1. Encodable(k)
    BY <1>2, Combining
  <2>2. Encodable(j)
    <3>1. TakesOperands("imul", t, t) /\ Extent(t) \in Nat
      BY <1>2 DEF TakesOperands, Agree, Holds
    <3> QED
      BY <3>1, FirstUsed DEF TwoOperandOps
  <2>3. SmulConst(t, x, c, n) = <<i, j>> /\ SmulByConst(t, c, x, n) = <<i, k>>
    BY <1>2 DEF SmulConst, SmulByConst
  <2> HIDE DEF i, j, k
  <2> QED
    BY <2>0, <2>1, <2>2, <2>3, TwoAccepted
<1>3. CASE w = 1
  <2> DEFINE i == Moving(Movsx(p, x), 1, 1)  j == ImulImm(Wide(t), Wide(p), c)  k == Movsx(p, x)
  <2>1. Encodable(i) /\ Encodable(k)
    BY <1>1, <1>3, Extending
  <2>2. Encodable(j)
    BY <1>1, Multiplying
  <2>3. SmulConst(t, x, c, n) = <<i, j>> /\ SmulByConst(t, c, x, n) = <<k, j>>
    BY <1>3 DEF SmulConst, SmulByConst
  <2> HIDE DEF i, j, k
  <2> QED
    BY <2>1, <2>2, <2>3, TwoAccepted
<1>4. CASE w \notin {1, 8}
  <2> DEFINE j == ImulImm(t, x, c)
  <2>1. Encodable(j)
    BY <1>4, Multiplying
  <2>2. SmulConst(t, x, c, n) = <<j>> /\ SmulByConst(t, c, x, n) = <<j>>
    BY <1>4 DEF SmulConst, SmulByConst
  <2> HIDE DEF j
  <2> QED
    BY <2>1, <2>2, OneAccepted
<1> QED
  BY <1>2, <1>3, <1>4

\* A product in a register; bytes have to be widened first.
LEMMA ProductInRegister ==
  ASSUME NEW w \in Nat, NEW d, NEW x, NEW y, NEW n, Integral(d, w), isGp(d), Holds(x, w), Holds(y, w), y.size = w
  PROVE  /\ IsCode(SmulOperands(d, x, y, n)) /\ (Accepted(SmulOperands(d, x, y, n)) <=> w # 1)
         /\ IsCode(SmulToRegister(d, x, y, n)) /\ Accepted(SmulToRegister(d, x, y, n))
<1> DEFINE p == Patch(d, n, "GP")  q == Patch(d, n + 1, "GP")
<1>1. d.size = w /\ Holds(d, w) /\ Sizable(d) /\ ~isConst(d)
  BY IntegralFacts
<1>2. Holds(p, w) /\ isGp(p) /\ Holds(Wide(p), 2) /\ isGp(Wide(p))
  BY <1>1, PatchHolds
<1>3. Holds(Wide(q), 2) /\ isGp(Wide(q))
  BY PatchHolds
<1>4. Holds(Wide(d), 2) /\ isGp(Wide(d))
  BY <1>1, Widened DEF Holds
<1>5. CASE w # 1
  <2>1. IsCode(InPlace("imul", d, x, y)) /\ Accepted(InPlace("imul", d, x, y))
    BY <1>1, <1>5, InPlaceAccepted
  <2> QED
    BY <1>1, <1>5, <2>1 DEF SmulOperands, SmulToRegister
<1>6. CASE w = 1
  <2>1. IsCode(SmulToRegister(d, x, y, n)) /\ Accepted(SmulToRegister(d, x, y, n))
    <3> DEFINE i == Movsx(p, x)  j == Movsx(q, y)  k == Combine("imul", Wide(p), Wide(q))  l == Plain("mov", d, p)
    <3>1. Encodable(i) /\ Encodable(j)
      BY <1>2, <1>3, <1>6, Extending
    <3>2. Encodable(k)
      BY <1>2, <1>3, Combining
    <3>3. Encodable(l)
      BY <1>1, <1>2, Combining
    <3>4. SmulToRegister(d, x, y, n) = <<i, j, k, l>>
      BY <1>1, <1>6 DEF SmulToRegister
    <3> HIDE DEF i, j, k, l
    <3> QED
      BY <3>1, <3>2, <3>3, <3>4, FourAccepted
  <2>2. IsCode(SmulOperands(d, x, y, n)) /\ ~Accepted(SmulOperands(d, x, y, n))
    <3> DEFINE r == Patch(y, n, "GP")
               i == Movsx(d, x)  j == Movsx(r, y)  k == Insn("imul", <<D, U>>, <<Wide(d)>>, <<r, Wide(d)>>)
    <3>1. Extent(r) = 1
      BY PatchFacts, <1>6
    <3>2. ~Encodable(k)
      <4>1. Extent(Wide(d)) = 2
        BY <1>4 DEF Holds
      <4>2. ~TakesOperands("imul", Wide(d), r)
        BY <3>1, <4>1 DEF TakesOperands, Agree
      <4> QED
        BY <3>1, <4>1, <4>2, FirstUsed DEF TwoOperandOps
    <3>3. SmulOperands(d, x, y, n) = <<i, j, k>>
      BY <1>1, <1>6 DEF SmulOperands
    <3> HIDE DEF i, j, k
    <3> QED
      BY <3>2, <3>3, ThreeAccepted
  <2> QED
    BY <1>6, <2>1, <2>2
<1> QED
  BY <1>5, <1>6

\* A product of two operands for a destination in memory, through a patch.
LEMMA ProductInMemory ==
  ASSUME NEW w \in Nat, NEW d, NEW x, NEW y, NEW n, Integral(d, w), isMemTemp(d), Holds(x, w), Holds(y, w)
  PROVE  IsCode(SmulInMemory(d, x, y, n)) /\ Accepted(SmulInMemory(d, x, y, n))
<1> DEFINE p == Patch(d, n, "GP")  q == Patch(d, n + 1, "GP")
<1>1. d.size = w /\ Holds(d, w) /\ Sizable(d)
  BY IntegralFacts
<1>2. Holds(p, w) /\ isGp(p) /\ Holds(Wide(p), 2) /\ isGp(Wide(p))
  BY <1>1, PatchHolds
<1>3. Holds(Wide(q), 2) /\ isGp(Wide(q))
  BY PatchHolds
<1>4. CASE w # 1
  BY <1>1, <1>4, InPatchAccepted DEF SmulInMemory
<1>5. CASE w = 1
  <2> DEFINE i == Movsx(p, x)  j == Movsx(q, y)  k == Combine("imul", Wide(p), Wide(q))  l == Mov(d, p)
  <2>1. Encodable(i) /\ Encodable(j)
    BY <1>2, <1>3, <1>5, Extending
  <2>2. Encodable(k)
    BY <1>2, <1>3, Combining
  <2>3. Encodable(l)
    BY <1>1, PatchMoves
  <2>4. SmulInMemory(d, x, y, n) = <<i, j, k, l>>
    BY <1>1, <1>5 DEF SmulInMemory
  <2> HIDE DEF i, j, k, l
  <2> QED
    BY <2>1, <2>2, <2>3, <2>4, FourAccepted
<1> QED
  BY <1>4, <1>5

\* The same with a constant.
LEMMA ProductOfConstInMemory ==
  ASSUME NEW w \in Nat, NEW d, NEW x, NEW c, NEW n, Integral(d, w), isMemTemp(d), Holds(x, w), isConst(c), c.size = w
  PROVE  IsCode(SmulMemConst(d, x, c, n)) /\ Accepted(SmulMemConst(d, x, c, n))
<1> DEFINE p == Patch(d, n, "GP")  l == Mov(d, p)
<1>1. d.size = w /\ Holds(d, w) /\ Sizable(d)
  BY IntegralFacts
<1>2. Holds(p, w) /\ isGp(p) /\ Holds(Wide(p), 2) /\ isGp(Wide(p))
  BY <1>1, PatchHolds
<1>3. Encodable(l)
  BY <1>1, PatchMoves
<1>4. CASE w = 8
  <2> DEFINE i == MovImm(p, c.value)  k == Combine("imul", p, x)
  <2>0. Encodable(i)
    BY <1>2, CombiningImm
  <2>1. Encodable(k)
    BY <1>2, <1>4, Combining
  <2>2. SmulMemConst(d, x, c, n) = <<i, k, l>>
    BY <1>1, <1>4 DEF SmulMemConst
  <2> HIDE DEF i, k, l
  <2> QED
    BY <1>3, <2>0, <2>1, <2>2, ThreeAccepted
<1>5. CASE w = 1
  <2> DEFINE i == Movsx(p, x)  j == ImulImm(Wide(p), Wide(p), c)
  <2>1. Encodable(i)
    BY <1>2, <1>5, Extending
  <2>2. Encodable(j)
    BY <1>2, Multiplying
  <2>3. SmulMemConst(d, x, c, n) = <<i, j, l>>
    BY <1>1, <1>5 DEF SmulMemConst
  <2> HIDE DEF i, j, l
  <2> QED
    BY <1>3, <2>1, <2>2, <2>3, ThreeAccepted
<1>6. CASE w \notin {1, 8}
  <2> DEFINE j == ImulImm(p, x, c)
  <2>1. Encodable(j)
    BY <1>2, <1>6, Multiplying
  <2>2. SmulMemConst(d, x, c, n) = <<j, l>>
    BY <1>1, <1>6 DEF SmulMemConst
  <2> HIDE DEF j, l
  <2> QED
    BY <1>3, <2>1, <2>2, TwoAccepted
<1> QED
  BY <1>4, <1>5, <1>6

\* SMUL: the operands for which the selector gives code the assembler refuses.
LEMMA SmulAccepted ==
  ASSUME NEW w, NEW d, NEW x, NEW y, NEW n, Integral(d, w), Integral(x, w), Integral(y, w), ~isConst(d)
  PROVE  /\ IsCode(SelectSmul(d, x, y, n))
         /\ Accepted(SelectSmul(d, x, y, n)) <=> ~(isGpTemp(d) /\ d.size = 1 /\ ~isConst(x) /\ ~isConst(y))
<1>1. /\ isGp(d) \/ isMemTemp(d)
      /\ isGp(d) => ~isMemTemp(d)
      /\ Holds(d, w) /\ w \in Nat /\ ~isFp(d) /\ d.size = w /\ Sizable(d)
  BY IntegralFacts
<1>2. /\ isGp(x) \/ isMemTemp(x) \/ isConst(x)
      /\ isGp(x) => ~isMemTemp(x) /\ ~isConst(x)
      /\ isMemTemp(x) => ~isConst(x)
      /\ ~isConst(x) => Holds(x, w)
      /\ ~isFp(x) /\ x.size = w
  BY IntegralFacts
<1>3. /\ isGp(y) \/ isMemTemp(y) \/ isConst(y)
      /\ isGp(y) => ~isMemTemp(y) /\ ~isConst(y)
      /\ isMemTemp(y) => ~isConst(y)
      /\ ~isConst(y) => Holds(y, w)
      /\ ~isFp(y) /\ y.size = w
  BY IntegralFacts
<1>4. /\ isGp(d) <=> isGpReg(d) \/ isGpTemp(d)
      /\ isGpReg(d) => ~isGpTemp(d)
      /\ isMemTemp(d) => ~isGpReg(d) /\ ~isGpTemp(d)
  BY <1>1 DEF isGp, isGpReg, isGpTemp
<1>5. isGp(d) => Holds(Wide(d), 2) /\ isGp(Wide(d))
  BY <1>1, Widened DEF Holds
<1>6. CASE isGp(d) /\ isConst(x) /\ isConst(y)
  <2>1. SelectSmul(d, x, y, n) = SmulConsts(d, x, y)
    BY <1>1, <1>2, <1>3, <1>4, <1>6 DEF SelectSmul
  <2> QED
    BY <1>6, <2>1, FoldedAccepted DEF SmulConsts
<1>7. CASE isGp(d) /\ isConst(x) /\ ~isConst(y)
  <2>1. SelectSmul(d, x, y, n) = SmulByConst(d, x, y, n)
    BY <1>1, <1>2, <1>3, <1>4, <1>7 DEF SelectSmul
  <2> QED
    BY <1>1, <1>2, <1>3, <1>5, <1>7, <2>1, ProductOfConst
<1>8. CASE isGpReg(d) /\ ~isConst(x) /\ isConst(y)
  <2>1. SelectSmul(d, x, y, n) = SmulConstToRegister(d, x, y, n)
    BY <1>1, <1>2, <1>3, <1>4, <1>8 DEF SelectSmul
  <2>2. CASE d.size # 1
    <3>1. SmulConstToRegister(d, x, y, n) = SmulConst(d, x, y, n)
      BY <2>2 DEF SmulConstToRegister
    <3> QED
      BY <1>1, <1>2, <1>3, <1>4, <1>5, <1>8, <2>1, <3>1, ProductOfConst
  <2>3. CASE d.size = 1
    <3> DEFINE p == Patch(x, n, "GP")  q == Patch(x, n + 1, "GP")
               i == Moving(Movsx(p, x), 1, 1)  j == ImulImm(Wide(q), Wide(p), y)  l == Plain("mov", d, q)
    <3>1. Holds(Wide(p), 2) /\ isGp(Wide(p))
      BY PatchHolds
    <3>2. Holds(q, w) /\ Holds(Wide(q), 2) /\ isGp(Wide(q))
      BY <1>2, PatchHolds
    <3>3. SmulConstToRegister(d, x, y, n) = <<i, j, l>>
      BY <2>3 DEF SmulConstToRegister
    <3> HIDE DEF p, q
    <3>4. Encodable(i)
      BY <1>1, <1>2, <1>8, <2>3, <3>1, Extending
    <3>5. Encodable(j)
      BY <3>1, <3>2, Multiplying
    <3>6. Encodable(l)
      BY <1>1, <1>4, <1>8, <3>2, Combining
    <3> HIDE DEF i, j, l
    <3> QED
      BY <1>4, <1>8, <2>1, <3>3, <3>4, <3>5, <3>6, ThreeAccepted
  <2> QED
    BY <2>2, <2>3
<1>9. CASE isGpReg(d) /\ ~isConst(x) /\ ~isConst(y)
  <2>1. SelectSmul(d, x, y, n) = SmulToRegister(d, x, y, n)
    BY <1>1, <1>2, <1>3, <1>4, <1>9 DEF SelectSmul
  <2> QED
    BY <1>1, <1>2, <1>3, <1>4, <1>9, <2>1, ProductInRegister
<1>10. CASE isGpTemp(d) /\ ~isConst(x) /\ isConst(y)
  <2>1. SelectSmul(d, x, y, n) = SmulConst(d, x, y, n)
    BY <1>1, <1>2, <1>3, <1>4, <1>10 DEF SelectSmul
  <2> QED
    BY <1>1, <1>2, <1>3, <1>4, <1>5, <1>10, <2>1, ProductOfConst
<1>11. CASE isGpTemp(d) /\ ~isConst(x) /\ ~isConst(y)
  <2>1. SelectSmul(d, x, y, n) = SmulOperands(d, x, y, n)
    BY <1>1, <1>2, <1>3, <1>4, <1>11 DEF SelectSmul
  <2> QED
    BY <1>1, <1>2, <1>3, <1>4, <1>11, <2>1, ProductInRegister
<1>12. CASE isMemTemp(d) /\ isGp(x) /\ isConst(y)
  <2>1. SelectSmul(d, x, y, n) = SmulMemConst(d, x, y, n)
    BY <1>1, <1>2, <1>3, <1>4, <1>12 DEF SelectSmul
  <2> QED
    BY <1>1, <1>2, <1>3, <1>12, <2>1, ProductOfConstInMemory
<1>13. CASE isMemTemp(d) /\ isGp(x) /\ ~isConst(y)
  <2>1. SelectSmul(d, x, y, n) = SmulInMemory(d, x, y, n)
    BY <1>1, <1>2, <1>3, <1>4, <1>13 DEF SelectSmul
  <2> QED
    BY <1>1, <1>2, <1>3, <1>4, <1>13, <2>1, ProductInMemory
<1>14. CASE isMemTemp(d) /\ ~isGp(x)
  <2>1. SelectSmul(d, x, y, n) = SmulUnfinished(d, x, y, n)
    BY <1>1, <1>2, <1>3, <1>4, <1>14 DEF SelectSmul
  <2>2. IsCode(SmulUnfinished(d, x, y, n)) /\ Accepted(SmulUnfinished(d, x, y, n))
    <3>1. isMemTemp(x) => Encodable(Plain("mov", Patch(d, n, "GP"), x))
      BY <1>1, <1>2, PatchHolds, Combining
    <3> QED
      BY <3>1, OneAccepted, NoneAccepted DEF SmulUnfinished
  <2> QED
    BY <1>4, <1>14, <2>1, <2>2
<1> QED
  BY <1>1, <1>4, <1>6, <1>7, <1>8, <1>9, <1>10, <1>11, <1>12, <1>13, <1>14

-----------------------------------------------------------------------------
\* The operands of the instructions considered

\* The sizes considered are numbers of bytes.
LEMMA Sizes == \A w : w \in GpSizes \/ w \in FpSizes \/ w \in MemSizes => w \in Nat
BY SizesAssumption

\* What a temporary of each allocation is.
LEMMA TempFacts ==
  ASSUME NEW k, NEW w \in Nat, NEW alloc \in {"GP", "FP", "MEM"}
  PROVE  LET t == Temp(k, w, alloc) IN
         /\ Sizable(t) /\ t.size = w /\ ~isConst(t)
         /\ alloc = "GP" => isGp(t)
         /\ alloc = "MEM" => isMemTemp(t)
         /\ alloc # "FP" => ~isFp(t)
<1>1. Alignment(w) \in Nat
  BY DEF Alignment
<1> QED
  BY <1>1 DEF Temp, AlignedTemp, Sizable, IsOperand, isConst, isGp, isGpTemp, isMemTemp, isFp, isFpTemp, isFpReg

\* What the registers among the operands considered are.
LEMMA RegFacts ==
  ASSUME NEW w \in Nat, NEW name \in {"rax", "rbx", "xmm0"}
  PROVE  LET r == Reg(name, w) IN
         Sizable(r) /\ r.size = w /\ ~isConst(r) /\ (name # "xmm0" => ~isFp(r))
BY DEF Reg, Sizable, IsOperand, isConst, isFp, isFpTemp, isFpReg, GpRegisters, FpRegisters

\* What a constant is.
LEMMA ConstFacts ==
  ASSUME NEW w \in Nat, NEW v
  PROVE  LET c == Const(v, w) IN Sizable(c) /\ c.size = w /\ isConst(c) /\ ~isFp(c)
BY DEF Const, Sizable, IsOperand, isConst, isFp, isFpTemp, isFpReg

\* Every destination considered is an operand, and no constant.
LEMMA DestinationFacts ==
  ASSUME NEW k, NEW d \in Destinations(k)
  PROVE  Sizable(d) /\ ~isConst(d)
<1>1. ASSUME NEW w \in Nat, NEW alloc \in {"GP", "FP", "MEM"}, d = Temp(k, w, alloc)
      PROVE  Sizable(d) /\ ~isConst(d)
  BY <1>1, TempFacts
<1>2. ASSUME NEW w \in Nat, NEW name \in {"rax", "xmm0"}, d = Reg(name, w)
      PROVE  Sizable(d) /\ ~isConst(d)
  BY <1>2, RegFacts
<1> QED
  BY <1>1, <1>2, Sizes DEF Destinations, Gp, Fp, Mem

\* Every value considered is an operand.
LEMMA ValueFacts ==
  ASSUME NEW k, NEW v \in Values(k)
  PROVE  Sizable(v)
<1>1. ASSUME NEW w \in Nat, NEW alloc \in {"GP", "FP", "MEM"}, v = Temp(k, w, alloc)
      PROVE  Sizable(v)
  BY <1>1, TempFacts
<1>2. ASSUME NEW w \in Nat, v \in ConstantsOf(w)
      PROVE  Sizable(v)
  <2>1. PICK x : v = Const(x, w)
    BY <1>2 DEF ConstantsOf
  <2> QED
    BY <2>1, ConstFacts
<1>3. v \in Gp(k) \union Fp(k) \union Mem(k) \/ \E w \in GpSizes \union MemSizes : v \in ConstantsOf(w)
  BY DEF Values
<1> QED
  BY <1>1, <1>2, <1>3, Sizes DEF Gp, Fp, Mem

\* Every address considered has eight bytes and is not in a floating point register.
LEMMA PointerFacts ==
  ASSUME NEW k, NEW n, NEW o \in Either(k, n)
  PROVE  IsPointer(o)
BY TempFacts, ConstFacts DEF Either, IsPointer

\* The same for the bases, the offsets and the operands of ADDROF.
LEMMA AddressFacts ==
  ASSUME NEW k
  PROVE  /\ \A o \in Pointers(k) \union Offsets(k) : IsPointer(o)
         /\ \A s \in Mem(k) : Sizable(s) /\ isMemTemp(s)
         /\ \A d \in {Temp(k, 8, "GP"), Temp(k, 8, "MEM")} : Sizable(d) /\ (isGp(d) \/ isMemTemp(d))
<1>1. \A o \in Pointers(k) \union Offsets(k) : IsPointer(o)
  BY PointerFacts DEF Pointers, Offsets
<1>2. ASSUME NEW s \in Mem(k)
      PROVE  Sizable(s) /\ isMemTemp(s)
  BY TempFacts, Sizes DEF Mem
<1>3. ASSUME NEW d \in {Temp(k, 8, "GP"), Temp(k, 8, "MEM")}
      PROVE  Sizable(d) /\ (isGp(d) \/ isMemTemp(d))
  BY TempFacts
<1> QED
  BY <1>1, <1>2, <1>3

\* The three operands of an arithmetic instruction have the same width.
LEMMA IntegersFacts ==
  ASSUME NEW w \in GpSizes, NEW t \in Integers3(w)
  PROVE  /\ Integral(t[1], w) /\ Integral(t[2], w) /\ Integral(t[3], w)
         /\ ~isConst(t[1])
<1>1. w \in Nat
  BY Sizes
<1>2. ASSUME NEW k, NEW o \in Integer(k, w)
      PROVE  Integral(o, w) /\ ~isConst(o)
  BY <1>1, TempFacts DEF Integer, Integral
<1>3. ASSUME NEW o \in ConstantsOf(w)
      PROVE  Integral(o, w)
  <2>1. PICK x : o = Const(x, w)
    BY DEF ConstantsOf
  <2> QED
    BY <1>1, <2>1, ConstFacts DEF Integral
<1>4. Integral(Reg("rbx", w), w) /\ ~isConst(Reg("rbx", w))
  BY <1>1, RegFacts DEF Integral
<1>5. /\ t[1] \in Integer(1, w) \union {Reg("rbx", w)}
      /\ t[2] \in Integer(1, w) \union Integer(2, w) \union ConstantsOf(w)
      /\ t[3] \in Integer(1, w) \union Integer(2, w) \union ConstantsOf(w) \union Integer(3, w)
  BY DEF Integers3
<1> QED
  BY <1>2, <1>3, <1>4, <1>5

-----------------------------------------------------------------------------
\* The operators with an arm in Unencodable or ArgumentsOf.
Considered == {"MOVE", "ADDROF", "MEM_STORE", "MEM_LOAD", "STK_STORE", "STK_LOAD",
               "OFFSET_STORE", "OFFSET_LOAD", "ADD", "SUB", "SMUL", "XOR"}

\* Each operator goes to its own arm of the selector.
LEMMA Arms ==
  ASSUME NEW op \in Considered, NEW a, NEW n
  PROVE  LET s == Select([op |-> op, args |-> a], n) IN
         /\ op = "MOVE"         => s = SelectMove(a[1], a[2], n)
         /\ op = "ADDROF"       => s = SelectAddrof(a[1], a[2], n)
         /\ op = "MEM_STORE"    => s = SelectMemStore(a[1], a[2], a[3], n)
         /\ op = "MEM_LOAD"     => s = SelectMemLoad(a[1], a[2], a[3], n)
         /\ op = "STK_STORE"    => s = SelectStkStore(a[1], a[2], n)
         /\ op = "STK_LOAD"     => s = SelectStkLoad(a[1], a[2], n)
         /\ op = "OFFSET_STORE" => s = SelectOffsetStore(a[1], a[2], a[3], n)
         /\ op = "OFFSET_LOAD"  => s = SelectOffsetLoad(a[1], a[2], a[3], n)
         /\ op = "ADD"          => s = SelectAdd(a[1], a[2], a[3], n)
         /\ op = "SUB"          => s = SelectSub(a[1], a[2], a[3], n)
         /\ op = "SMUL"         => s = SelectSmul(a[1], a[2], a[3], n)
         /\ op = "XOR"          => s = SelectXor(a[1], a[2], a[3])
<1> DEFINE i == [op |-> op, args |-> a]
<1>1. i.op = op /\ i.args = a
  OBVIOUS
<1>2. op \notin UntranslatedArithmetic \union UntranslatedOrders
                   \union UntranslatedTests \union UntranslatedJumps
  BY DEF Considered, UntranslatedArithmetic, UntranslatedOrders, UntranslatedTests, UntranslatedJumps
<1> HIDE DEF i
<1> QED
  BY <1>1, <1>2 DEF Select, Considered, i

\* What Unencodable says of each operator.
LEMMA Exceptions ==
  ASSUME NEW op \in Considered, NEW a
  PROVE  /\ op = "MOVE"   => (Unencodable(op, a) <=> isMemTemp(a[1]) /\ TooLong(a[2]))
         /\ op = "ADDROF" => ~Unencodable(op, a)
         /\ op = "MEM_STORE" => (Unencodable(op, a) <=>
              \/ TooLong(a[2])
              \/ isMemTemp(a[1]) /\ (isFp(a[2]) \/ (isConst(a[2]) /\ isConst(a[3])) \/ (isMemTemp(a[2]) /\ a[2].size = 16))
              \/ isConst(a[1]) /\ isConst(a[3]) /\ isMemTemp(a[2]) /\ a[2].size \notin MovableSizes \union {16})
         /\ op = "MEM_LOAD" => (Unencodable(op, a) <=>
              \/ isGp(a[1]) /\ isGp(a[2]) /\ isMemTemp(a[3])
              \/ isMemTemp(a[1]) /\ isMemTemp(a[2]) /\ isGp(a[3]) /\ a[1].size \in MovableSizes
              \/ isMemTemp(a[1]) /\ isGp(a[2]) /\ isMemTemp(a[3]) /\ a[1].size \notin MovableSizes)
         /\ op = "STK_STORE" => (Unencodable(op, a) <=> TooLong(a[2]) \/ (isMemTemp(a[2]) /\ a[2].size = 16))
         /\ op = "STK_LOAD"  => (Unencodable(op, a) <=> isMemTemp(a[1]) /\ a[1].size \in MovableSizes \union {16})
         /\ op = "OFFSET_STORE" => (Unencodable(op, a) <=> TooLong(a[2]))
         /\ op = "OFFSET_LOAD"  => ~Unencodable(op, a)
         /\ op \in {"ADD", "SUB"} => (Unencodable(op, a) <=>
              \/ TooLong(a[3]) /\ ~isConst(a[2])
              \/ TooLong(a[2]) /\ ~isConst(a[3]) /\ isMemTemp(a[1])
              \/ op = "SUB" /\ isConst(a[2]) /\ ~isConst(a[3]))
         /\ op = "SMUL" => (Unencodable(op, a) <=> isGpTemp(a[1]) /\ a[1].size = 1 /\ ~isConst(a[2]) /\ ~isConst(a[3]))
         /\ op = "XOR" => (Unencodable(op, a) <=>
              \/ TooLong(a[3]) /\ ~(isMemTemp(a[1]) /\ ~isGp(a[2]))
              \/ TooLong(a[2]) /\ isMemTemp(a[1]) /\ isGp(a[3])
              \/ isGp(a[1]) /\ isConst(a[2]) /\ isConst(a[3]))
BY DEF Considered, Unencodable, ImmediateTooWide, AddressNotLoaded, SixteenByMov, MissingNewline,
       MissingOperand, InternalError, FromConstant, StrayMarker, ByteProduct

-----------------------------------------------------------------------------
\* Whatever instruction is considered, the assembler takes the code selected for
\* it unless the instruction is one of those Unencodable names.
LEMMA ConsideredAccepted ==
  ASSUME NEW op \in Considered, NEW a \in ArgumentsOf(op), NEW n
  PROVE  LET s == Select([op |-> op, args |-> a], n) IN
         IsCode(s) /\ (Accepted(s) <=> ~Unencodable(op, a))
<1> DEFINE s == Select([op |-> op, args |-> a], n)
<1> HIDE DEF s
<1>1. CASE op = "MOVE"
  <2>1. a[1] \in Destinations(1) /\ a[2] \in Values(2) /\ a[1].size = a[2].size
    BY <1>1 DEF ArgumentsOf
  <2>2. Sizable(a[1]) /\ ~isConst(a[1]) /\ Sizable(a[2])
    BY <2>1, DestinationFacts, ValueFacts
  <2>3. s = SelectMove(a[1], a[2], n)
    BY <1>1, Arms DEF s
  <2>4. Unencodable(op, a) <=> isMemTemp(a[1]) /\ TooLong(a[2])
    BY <1>1, Exceptions
  <2> QED
    BY <2>1, <2>2, <2>3, <2>4, MoveAccepted DEF s
<1>2. CASE op = "ADDROF"
  <2>1. a[1] \in {Temp(1, 8, "GP"), Temp(1, 8, "MEM")} /\ a[2] \in Mem(2)
    BY <1>2 DEF ArgumentsOf
  <2>2. Sizable(a[1]) /\ (isGp(a[1]) \/ isMemTemp(a[1])) /\ Sizable(a[2]) /\ isMemTemp(a[2])
    BY <2>1, AddressFacts
  <2>3. s = SelectAddrof(a[1], a[2], n)
    BY <1>2, Arms DEF s
  <2>4. ~Unencodable(op, a)
    BY <1>2, Exceptions
  <2> QED
    BY <2>2, <2>3, <2>4, AddrofAccepted DEF s
<1>3. CASE op = "MEM_STORE"
  <2>1. a[1] \in Pointers(1) /\ a[2] \in Values(2) /\ a[3] \in Offsets(3)
    BY <1>3 DEF ArgumentsOf
  <2>2. IsPointer(a[1]) /\ Sizable(a[2]) /\ IsPointer(a[3])
    BY <2>1, ValueFacts, AddressFacts
  <2>3. s = SelectMemStore(a[1], a[2], a[3], n)
    BY <1>3, Arms DEF s
  <2>4. Unencodable(op, a) <=>
              \/ TooLong(a[2])
              \/ isMemTemp(a[1]) /\ (isFp(a[2]) \/ (isConst(a[2]) /\ isConst(a[3])) \/ (isMemTemp(a[2]) /\ a[2].size = 16))
              \/ isConst(a[1]) /\ isConst(a[3]) /\ isMemTemp(a[2]) /\ a[2].size \notin MovableSizes \union {16}
    BY <1>3, Exceptions
  <2> QED
    BY <2>2, <2>3, <2>4, MemStoreAccepted DEF s
<1>4. CASE op = "MEM_LOAD"
  <2>1. a[1] \in Destinations(1) /\ a[2] \in Pointers(2) /\ a[3] \in Offsets(3)
    BY <1>4 DEF ArgumentsOf
  <2>2. Sizable(a[1]) /\ ~isConst(a[1]) /\ IsPointer(a[2]) /\ IsPointer(a[3])
    BY <2>1, DestinationFacts, AddressFacts
  <2>3. s = SelectMemLoad(a[1], a[2], a[3], n)
    BY <1>4, Arms DEF s
  <2>4. Unencodable(op, a) <=>
              \/ isGp(a[1]) /\ isGp(a[2]) /\ isMemTemp(a[3])
              \/ isMemTemp(a[1]) /\ isMemTemp(a[2]) /\ isGp(a[3]) /\ a[1].size \in MovableSizes
              \/ isMemTemp(a[1]) /\ isGp(a[2]) /\ isMemTemp(a[3]) /\ a[1].size \notin MovableSizes
    BY <1>4, Exceptions
  <2> QED
    BY <2>2, <2>3, <2>4, MemLoadAccepted DEF s
<1>5. CASE op = "STK_STORE"
  <2>1. a[1] \in Offsets(1) /\ a[2] \in Values(2)
    BY <1>5 DEF ArgumentsOf
  <2>2. IsPointer(a[1]) /\ Sizable(a[2])
    BY <2>1, ValueFacts, AddressFacts
  <2>3. s = SelectStkStore(a[1], a[2], n)
    BY <1>5, Arms DEF s
  <2>4. Unencodable(op, a) <=> TooLong(a[2]) \/ (isMemTemp(a[2]) /\ a[2].size = 16)
    BY <1>5, Exceptions
  <2> QED
    BY <2>2, <2>3, <2>4, StkStoreAccepted DEF s
<1>6. CASE op = "STK_LOAD"
  <2>1. a[1] \in Destinations(1) /\ a[2] \in Offsets(2)
    BY <1>6 DEF ArgumentsOf
  <2>2. Sizable(a[1]) /\ ~isConst(a[1]) /\ IsPointer(a[2])
    BY <2>1, DestinationFacts, AddressFacts
  <2>3. s = SelectStkLoad(a[1], a[2], n)
    BY <1>6, Arms DEF s
  <2>4. Unencodable(op, a) <=> isMemTemp(a[1]) /\ a[1].size \in MovableSizes \union {16}
    BY <1>6, Exceptions
  <2> QED
    BY <2>2, <2>3, <2>4, StkLoadAccepted DEF s
<1>7. CASE op = "OFFSET_STORE"
  <2>1. a[2] \in Values(2) /\ a[3] \in Offsets(3)
    BY <1>7 DEF ArgumentsOf
  <2>2. Sizable(a[2]) /\ IsPointer(a[3])
    BY <2>1, ValueFacts, AddressFacts
  <2>3. s = SelectOffsetStore(a[1], a[2], a[3], n)
    BY <1>7, Arms DEF s
  <2>4. Unencodable(op, a) <=> TooLong(a[2])
    BY <1>7, Exceptions
  <2> QED
    BY <2>2, <2>3, <2>4, OffsetStoreAccepted DEF s
<1>8. CASE op = "OFFSET_LOAD"
  <2>1. a[1] \in Destinations(1) /\ a[3] \in Offsets(3)
    BY <1>8 DEF ArgumentsOf
  <2>2. Sizable(a[1]) /\ ~isConst(a[1]) /\ IsPointer(a[3])
    BY <2>1, DestinationFacts, AddressFacts
  <2>3. s = SelectOffsetLoad(a[1], a[2], a[3], n)
    BY <1>8, Arms DEF s
  <2>4. ~Unencodable(op, a)
    BY <1>8, Exceptions
  <2> QED
    BY <2>2, <2>3, <2>4, OffsetLoadAccepted DEF s
<1>9. CASE op \in {"ADD", "SUB", "SMUL", "XOR"}
  <2>1. PICK w \in GpSizes : a \in Integers3(w)
    BY <1>9 DEF ArgumentsOf
  <2>2. Integral(a[1], w) /\ Integral(a[2], w) /\ Integral(a[3], w) /\ ~isConst(a[1])
    BY <2>1, IntegersFacts
  <2>3. CASE op = "ADD"
    <3>1. s = SelectAdd(a[1], a[2], a[3], n)
      BY <2>3, Arms DEF s
    <3>2. Unencodable(op, a) <=>
              \/ TooLong(a[3]) /\ ~isConst(a[2])
              \/ TooLong(a[2]) /\ ~isConst(a[3]) /\ isMemTemp(a[1])
      BY <2>3, Exceptions
    <3> QED
      BY <2>2, <3>1, <3>2, AddAccepted DEF s
  <2>4. CASE op = "SUB"
    <3>1. s = SelectSub(a[1], a[2], a[3], n)
      BY <2>4, Arms DEF s
    <3>2. Unencodable(op, a) <=>
              \/ TooLong(a[3]) /\ ~isConst(a[2])
              \/ TooLong(a[2]) /\ ~isConst(a[3]) /\ isMemTemp(a[1])
              \/ isConst(a[2]) /\ ~isConst(a[3])
      BY <2>4, Exceptions
    <3>3. TooLong(a[2]) => isConst(a[2])
      BY DEF TooLong
    <3> QED
      BY <2>2, <3>1, <3>2, <3>3, SubAccepted DEF s
  <2>5. CASE op = "SMUL"
    <3>1. s = SelectSmul(a[1], a[2], a[3], n)
      BY <2>5, Arms DEF s
    <3>2. Unencodable(op, a) <=> isGpTemp(a[1]) /\ a[1].size = 1 /\ ~isConst(a[2]) /\ ~isConst(a[3])
      BY <2>5, Exceptions
    <3> QED
      BY <2>2, <3>1, <3>2, SmulAccepted DEF s
  <2>6. CASE op = "XOR"
    <3>1. s = SelectXor(a[1], a[2], a[3])
      BY <2>6, Arms DEF s
    <3>2. Unencodable(op, a) <=>
              \/ TooLong(a[3]) /\ ~(isMemTemp(a[1]) /\ ~isGp(a[2]))
              \/ TooLong(a[2]) /\ isMemTemp(a[1]) /\ isGp(a[3])
              \/ isGp(a[1]) /\ isConst(a[2]) /\ isConst(a[3])
      BY <2>6, Exceptions
    <3> QED
      BY <2>2, <3>1, <3>2, XorAccepted DEF s
  <2> QED
    BY <1>9, <2>3, <2>4, <2>5, <2>6
<1> QED
  BY <1>1, <1>2, <1>3, <1>4, <1>5, <1>6, <1>7, <1>8, <1>9 DEF Considered

\* No other operator has arguments in the instructions considered.
LEMMA InstructionFacts ==
  ASSUME NEW i \in Instructions
  PROVE  i.op \in Considered /\ i.args \in ArgumentsOf(i.op) /\ i = [op |-> i.op, args |-> i.args]
<1>1. PICK op \in Ops : i \in {[op |-> op, args |-> x] : x \in ArgumentsOf(op)}
  BY DEF Instructions
<1>2. PICK x \in ArgumentsOf(op) : i = [op |-> op, args |-> x]
  BY <1>1
<1>3. op \notin Considered => ArgumentsOf(op) = {}
  BY DEF Considered, ArgumentsOf
<1> QED
  BY <1>2, <1>3

-----------------------------------------------------------------------------
\* Selected code is rejected exactly where Unencodable says, from the moment it is
\* selected: the instruction and its code do not change any more, and only
\* SelectCode makes the phase "rejected" or leaves "ir".
Judged ==
  /\ ir \in Instructions
  /\ phase # "ir" => (phase = "rejected" <=> Unencodable(ir.op, ir.args))

\* Selecting code makes the phase what Unencodable says.
LEMMA SelectionJudged ==
  ASSUME Judged, SelectCode
  PROVE  Judged'
<1>1. /\ ir' = ir /\ ir \in Instructions /\ code' = Select(ir, FirstFresh)
      /\ phase' = IF \A k \in DOMAIN code' : Encodable(code'[k]) THEN "running" ELSE "rejected"
  BY DEF SelectCode, Judged
<1> DEFINE s == Select(ir, FirstFresh)
<1>2. ir.op \in Considered /\ ir.args \in ArgumentsOf(ir.op) /\ ir = [op |-> ir.op, args |-> ir.args]
  BY <1>1, InstructionFacts
<1>3. Accepted(Select([op |-> ir.op, args |-> ir.args], FirstFresh)) <=> ~Unencodable(ir.op, ir.args)
  BY <1>2, ConsideredAccepted
<1>4. Accepted(s) <=> ~Unencodable(ir.op, ir.args)
  BY <1>2, <1>3
<1> HIDE DEF s
<1>5. Accepted(s) <=> \A k \in DOMAIN s : Encodable(s[k])
  BY DEF Accepted, ToSet
<1>6. phase' = IF Accepted(s) THEN "running" ELSE "rejected"
  BY <1>1, <1>5 DEF s
<1> QED
  BY <1>1, <1>4, <1>6 DEF Judged

\* SelSpec => []AssemblerAccepts: whatever the sizes of the operands, the assembler
\* rejects the code selected for an IR instruction exactly in the arms of the
\* selector that Unencodable names.
THEOREM SelectedCodeAssembles == SelSpec => []AssemblerAccepts
<1>1. SelInit => Judged
  BY DEF SelInit, Judged
<1>2. Judged /\ [SelNext]_selVars => Judged'
  <2> SUFFICES ASSUME Judged, [SelNext]_selVars
               PROVE  Judged'
    OBVIOUS
  <2>1. CASE SelectCode
    BY <2>1, SelectionJudged
  <2>2. CASE Execute
    BY <2>2 DEF Execute, Judged
  <2>3. CASE Finish
    BY <2>3 DEF Finish, Judged
  <2>4. CASE UNCHANGED selVars
    BY <2>4 DEF selVars, Judged
  <2> QED
    BY <2>1, <2>2, <2>3, <2>4 DEF SelNext
<1>3. Judged => AssemblerAccepts
  BY DEF Judged, AssemblerAccepts
<1> QED
  BY <1>1, <1>2, <1>3, PTL DEF SelSpec

==============================================================================
