------------------------------ MODULE Validate ------------------------------
(***************************************************************************)
(* IR validation (ir.c, validateIr; arch/x86_64-linux/irValidation.c): the *)
(* checks the driver makes after every pass when it is told to.  Each IR   *)
(* operator has a list of checks, made in order; a check may record the    *)
(* definition of a temporary, which later checks compare its uses with.    *)
(* A function is a sequence of blocks [label, instructions]; in scheduled  *)
(* form its one block has jumps with one target and LABEL instructions.    *)
(***************************************************************************)
EXTENDS Operands, SequencesExt

IntegerBinops == {"ADD", "SUB", "SMUL", "UMUL", "SDIV", "UDIV", "SMOD", "UMOD", "AND", "XOR", "OR"}
FloatBinops   == {"FADD", "FSUB", "FMUL", "FDIV", "FMOD"}
Shifts        == {"SLL", "SLR", "SAR"}
IntegerOrders == {"L", "LE", "E", "NE", "G", "GE", "A", "AE", "B", "BE"}
FloatOrders   == {"FL", "FLE", "FE", "FNE", "FG", "FGE"}
Jumps2        == {"J2L", "J2LE", "J2E", "J2NE", "J2G", "J2GE", "J2A", "J2AE", "J2B", "J2BE"}
FloatJumps2   == {"J2FL", "J2FLE", "J2FE", "J2FNE", "J2FG", "J2FGE"}
Jumps1        == {"J1L", "J1LE", "J1E", "J1NE", "J1G", "J1GE", "J1A", "J1AE", "J1B", "J1BE"}
FloatJumps1   == {"J1FL", "J1FLE", "J1FE", "J1FNE", "J1FG", "J1FGE"}
Terminators   == Jumps2 \union FloatJumps2 \union Jumps1 \union FloatJumps1 \union
                 { "JUMP", "JUMPTABLE", "RETURN", "J2Z", "J2NZ", "J2FZ", "J2FNZ",
                   "J1Z", "J1NZ", "J1FZ", "J1FNZ" }

\* a check is its name, the argument it looks at, and where that may be stored
\* if it is a temporary: in a general purpose register, in one for floating
\* point, or in memory all the same; checks that compare sizes name the arguments
Written(k)    == <<"written", k, "ANY">>
GpWritten     == <<"written", 1, "GP">>
FpWritten     == <<"written", 1, "FP">>
ByteWritten   == <<"byte written", 1, "GP">>
PointerWritten == <<"pointer written", 1, "GP">>
TempWritten(k) == <<"temp written", k, "ANY">>
\* what is said to be a check for memory is the check for floating point
PartWritten(k) == <<"temp written", k, "FP">>
TempRead(k)   == <<"temp read", k, "ANY">>
Addressed(k)  == <<"temp read", k, "FP">>
Read(k)       == <<"read", k, "ANY">>
GpRead(k)     == <<"read", k, "GP">>
FpTest(k)     == <<"read", k, "FP">>
FpRead(k)     == <<"read no label", k, "FP">>
PointerTo(k)  == <<"pointer", k, "GP">>
Offset(k)     == <<"offset", k, "GP">>
Byte(k)       == <<"byte", k, "GP">>
CallTarget(k) == <<"call target", k, "GP">>
Label(k)      == <<"local", k, "ANY">>
Table         == <<"temp", 1, "ANY">>
\* A slip LabelsResolved catches: the label is not looked up.
TargetUnresolved(k) == <<"local", k, "ANY">>

Target(k)     == <<"target", k, "ANY">>
Pair(j, k)    == <<"same size", j, k>>
Smaller(j, k) == <<"smaller", j, k>>
OtherSize(j, k) == <<"other size", j, k>>
Triple        == <<"same sizes", 1, 3>>
Blocked       == <<"blocked", 1, "ANY">>
Scheduled     == <<"scheduled", 1, "ANY">>
Terminal      == <<"last", 1, "ANY">>

PseudoChecks(op) ==
  CASE op = "LABEL"         -> <<Label(1), Scheduled>>
    [] op = "VOLATILE"      -> <<TempRead(1)>>
    [] op = "UNINITIALIZED" -> <<TempWritten(1)>>
    [] op = "ADDROF"        -> <<PointerWritten, Addressed(2)>>
    [] op = "NOP"           -> <<>>

MoveChecks(op) ==
  CASE op = "MOVE"         -> <<Written(1), Read(2), Pair(1, 2)>>
    [] op = "MEM_STORE"    -> <<PointerTo(1), Read(2), Offset(3)>>
    [] op = "MEM_LOAD"     -> <<Written(1), PointerTo(2), Offset(3)>>
    [] op = "STK_STORE"    -> <<Offset(1), Read(2)>>
    [] op = "STK_LOAD"     -> <<Written(1), Offset(2)>>
    [] op = "OFFSET_STORE" -> <<PartWritten(1), Read(2), Offset(3)>>
    \* the temporary that is loaded from is checked as if it were written
    [] op = "OFFSET_LOAD"  -> <<Written(1), PartWritten(2), Offset(3)>>

ArithmeticChecks(op) ==
  CASE op \in IntegerBinops -> <<GpWritten, GpRead(2), GpRead(3), Triple>>
    [] op \in FloatBinops   -> <<FpWritten, FpRead(2), FpRead(3), Triple>>
    [] op \in {"NEG", "NOT"} -> <<GpWritten, GpRead(2), Pair(1, 2)>>
    [] op = "FNEG"          -> <<FpWritten, FpRead(2), Pair(1, 2)>>
    [] op \in Shifts        -> <<GpWritten, GpRead(2), Byte(3), Pair(1, 2)>>

TestChecks(op) ==
  CASE op \in IntegerOrders -> <<ByteWritten, GpRead(2), GpRead(3), Pair(2, 3)>>
    [] op \in FloatOrders   -> <<ByteWritten, FpRead(2), FpRead(3), Pair(2, 3)>>
    [] op \in {"Z", "NZ"}   -> <<ByteWritten, GpRead(2)>>
    [] op \in {"FZ", "FNZ"} -> <<ByteWritten, FpTest(2)>>
    [] op = "LNOT"          -> <<ByteWritten, Byte(2)>>

ConversionChecks(op) ==
  CASE op \in {"SX", "ZX"}   -> <<GpWritten, GpRead(2), Smaller(2, 1)>>
    [] op = "TRUNC"          -> <<GpWritten, GpRead(2), Smaller(1, 2)>>
    [] op \in {"U2F", "S2F"} -> <<FpWritten, GpRead(2)>>
    [] op = "FRESIZE"        -> <<FpWritten, FpRead(2), OtherSize(1, 2)>>
    [] op = "F2I"            -> <<GpWritten, FpRead(2)>>

\* jumps with two targets belong to blocks and end them, those with one to schedules
JumpChecks(op) ==
  CASE op = "JUMP"             -> <<Target(1), Terminal>>
    [] op = "JUMPTABLE"        -> <<Table, Label(2), Terminal>>
    [] op \in Jumps2           -> <<Target(1), Target(2), GpRead(3), GpRead(4), Pair(3, 4), Terminal, Blocked>>
    [] op \in FloatJumps2      -> <<Target(1), Target(2), FpRead(3), FpRead(4), Pair(3, 4), Terminal, Blocked>>
    [] op \in {"J2Z", "J2NZ"}  -> <<Target(1), Target(2), GpRead(3), Terminal, Blocked>>
    [] op \in {"J2FZ", "J2FNZ"} -> <<Target(1), Target(2), FpTest(3), Terminal, Blocked>>
    [] op \in Jumps1           -> <<Target(1), GpRead(2), GpRead(3), Pair(2, 3), Scheduled>>
    [] op \in FloatJumps1      -> <<Target(1), FpRead(2), FpRead(3), Pair(2, 3), Scheduled>>
    [] op \in {"J1Z", "J1NZ"}  -> <<Target(1), GpRead(2), Scheduled>>
    [] op \in {"J1FZ", "J1FNZ"} -> <<Target(1), FpTest(2), Scheduled>>
    [] op = "CALL"             -> <<CallTarget(1)>>
    [] op = "RETURN"           -> <<Terminal>>

TwoTargets == Jumps2 \union FloatJumps2 \union {"J2Z", "J2NZ", "J2FZ", "J2FNZ"}
OneTarget  == Jumps1 \union FloatJumps1 \union {"J1Z", "J1NZ", "J1FZ", "J1FNZ"}

ChecksOf(op) ==
  CASE op \in {"LABEL", "VOLATILE", "UNINITIALIZED", "ADDROF", "NOP"} -> PseudoChecks(op)
    [] op \in { "MOVE", "MEM_STORE", "MEM_LOAD", "STK_STORE", "STK_LOAD", "OFFSET_STORE",
                "OFFSET_LOAD" } -> MoveChecks(op)
    [] op \in IntegerBinops \union FloatBinops \union Shifts \union {"NEG", "NOT", "FNEG"} ->
         ArithmeticChecks(op)
    [] op \in IntegerOrders \union FloatOrders \union {"Z", "NZ", "FZ", "FNZ", "LNOT"} -> TestChecks(op)
    [] op \in {"SX", "ZX", "TRUNC", "U2F", "S2F", "FRESIZE", "F2I"} -> ConversionChecks(op)
    [] OTHER -> JumpChecks(op)

-----------------------------------------------------------------------------
\* One check, of instruction i, given the temporaries defined so far, the labels
\* that exist, the form of the IR and whether i is the last of its block

isTemp(o) == o.kind = "TEMP"
\* larger powers of two are refused by ArchSpecific anyway
AtMostOneBit == {0, 1, 2, 4, 8, 16, 32, 64, 128}

Consistent(definition, o) ==
  definition.size = o.size /\ definition.align = o.align /\ definition.alloc = o.alloc
\* A slip ReadsDefined catches: only a known temporary is compared.
ReadableWhenKnown(temps, o) == o.name \in DOMAIN temps => Consistent(temps[o.name], o)

Readable(temps, o) == o.name \in DOMAIN temps /\ Consistent(temps[o.name], o)
WellDefined(o) ==
  /\ o.alloc = "MEM" \/ o.size \in MovableSizes
  /\ o.align \in AtMostOneBit /\ o.align <= o.size
Writable(temps, o) ==
  IF o.name \in DOMAIN temps THEN Consistent(temps[o.name], o) ELSE WellDefined(o)

Value(o) == o.kind \in {"REG", "TEMP", "CONSTANT"}
Exists(o, labels) == isLocal(o) => o.value[2] \in labels
\* A slip AcceptedSelected catches: the storage is not looked at.
GpOrMemAny(o) == TRUE

GpOrMem(o)  == isTemp(o) => o.alloc \in {"GP", "MEM"}
FpOrMem(o)  == isTemp(o) => o.alloc \in {"FP", "MEM"}
Stored(o, where) == CASE where = "GP" -> GpOrMem(o) [] where = "FP" -> FpOrMem(o) [] OTHER -> TRUE
\* an argument that is read; a label it is the address of exists
ReadOnly(temps, o) == isTemp(o) => Readable(temps, o)
ReadOrNamed(temps, o, labels) == ReadOnly(temps, o) /\ Exists(o, labels)

Passes(c, i, temps, labels, blocked, last) ==
  LET o == i.args[c[2]]
      \* whichever argument is to be writable, the first is the one recorded
      Writes == o.kind \in {"REG", "TEMP"} /\ (isTemp(i.args[1]) => Writable(temps, i.args[1]))
  IN
  CASE c[1] = "local"        -> isLocal(o)
    [] c[1] = "target"       -> isLocal(o) /\ Exists(o, labels)
    [] c[1] = "temp"         -> isTemp(o)
    [] c[1] = "temp read"    -> isTemp(o) /\ Readable(temps, o) /\ Stored(o, c[3])
    [] c[1] = "temp written" -> isTemp(o) /\ Writable(temps, o) /\ Stored(o, c[3])
    [] c[1] = "written"      -> Writes /\ Stored(o, c[3])
    [] c[1] = "byte written" -> Writes /\ o.size = 1 /\ Stored(o, c[3])
    [] c[1] = "pointer written" -> Writes /\ o.size = 8 /\ Stored(o, c[3])
    [] c[1] = "read"         -> Value(o) /\ ReadOrNamed(temps, o, labels) /\ Stored(o, c[3])
    [] c[1] = "read no label" -> Value(o) /\ ReadOnly(temps, o) /\ Stored(o, c[3])
    [] c[1] = "pointer"      -> Value(o) /\ o.size = 8 /\ Stored(o, c[3]) /\ ReadOrNamed(temps, o, labels)
    [] c[1] = "offset"       -> Value(o) /\ o.size = 8 /\ Stored(o, c[3]) /\ ReadOnly(temps, o)
    [] c[1] = "byte"         -> Value(o) /\ o.size = 1 /\ Stored(o, c[3]) /\ ReadOnly(temps, o)
    [] c[1] = "call target"  ->
         /\ isGlobal(o) \/ isLocal(o) \/ o.kind \in {"REG", "TEMP"}
         /\ o.size = 8 /\ Stored(o, c[3]) /\ ReadOrNamed(temps, o, labels)
    [] c[1] = "same size"    -> o.size = i.args[c[3]].size
    [] c[1] = "same sizes"   -> \A j, k \in c[2]..c[3] : i.args[j].size = i.args[k].size
    [] c[1] = "smaller"      -> o.size < i.args[c[3]].size
    [] c[1] = "other size"   -> o.size # i.args[c[3]].size
    [] c[1] = "last"         -> blocked => last
    [] c[1] = "blocked"      -> blocked
    [] c[1] = "scheduled"    -> ~blocked

\* the argument a check records, if it is a temporary; 0 for a check that records none
RecordedArg(c) == CASE c[1] \in {"written", "byte written", "pointer written"} -> 1 [] c[1] = "temp written" -> c[2] [] OTHER -> 0

\* The temporaries defined once some arguments of i are recorded: the first
\* definition of a name stays. (Checks record arguments in their order.)
Known(args, i, temps) ==
  LET new == {k \in args \ {0} : isTemp(i.args[k])} IN
  [n \in DOMAIN temps \union {i.args[k].name : k \in new} |->
     IF n \in DOMAIN temps THEN temps[n]
     ELSE i.args[CHOOSE k \in new : /\ i.args[k].name = n
                                    /\ \A j \in new : i.args[j].name = n => k <= j]]

CheckInstruction(st, i, labels, blocked, last) ==
  LET checks == ChecksOf(i.op)
      RecordedBy(places) == {RecordedArg(checks[m]) : m \in places}
      Before(m) == Known(RecordedBy({n \in DOMAIN checks : n < m}), i, st.temps)
  IN [temps |-> Known(RecordedBy(DOMAIN checks), i, st.temps),
      ok    |-> st.ok /\ \A m \in DOMAIN checks : Passes(checks[m], i, Before(m), labels, blocked, last)]

\* x86_64LinuxValidateIRArchSpecific
ArchSpecific(i) ==
  \A k \in DOMAIN i.args : LET o == i.args[k] IN
    /\ o.kind = "REG" => o.size \in MovableSizes
    /\ isTemp(o) => o.align <= 16

LabelsIn(blocks, blocked) ==
  IF blocked THEN {blocks[b].label : b \in DOMAIN blocks}
  ELSE UNION {{i.args[1].value[2] : i \in {i \in ToSet(blocks[b].instructions) :
                 i.op = "LABEL" /\ isLocal(i.args[1])}} : b \in DOMAIN blocks}

EndsInJump(block) == Last(block.instructions).op \in Terminators

\* fragments: the labels of the file's data.  What is checked after a complaint
\* makes no difference to the outcome.
ValidateIr(blocks, fragments, blocked) ==
  LET labels == LabelsIn(blocks, blocked) \union fragments
      Block(st, b) ==
        FoldLeftDomain(LAMBDA s, k :
            IF s.ok THEN CheckInstruction(s, b.instructions[k], labels, blocked,
                                          k = Len(b.instructions)) ELSE s,
          st, b.instructions)
  IN FoldLeft(Block, [temps |-> <<>>, ok |-> blocked => \A b \in DOMAIN blocks : EndsInJump(blocks[b])], blocks)

Valid(blocks, fragments, blocked) ==
  /\ ValidateIr(blocks, fragments, blocked).ok
  /\ \A b \in DOMAIN blocks : \A i \in ToSet(blocks[b].instructions) : ArchSpecific(i)
=============================================================================
