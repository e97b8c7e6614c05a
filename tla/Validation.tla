----------------------------- MODULE Validation -----------------------------
(***************************************************************************)
(* IR validation as its users rely on it: a list of IR instructions is     *)
(* validated one at a time, and what validation accepts is compared with   *)
(* what ir.h says instructions read and write, and with the instructions   *)
(* the selector has an arm for.  A listing says what may come at each      *)
(* place: the operators, and the operands they may have there.             *)
(***************************************************************************)
EXTENDS Validate, Select, TLC

CONSTANTS
  Listings,             \* each a sequence: the operators a place may have, with their arguments
  Labels                \* the labels that exist, of blocks and of data

VARIABLES given,        \* the listing that is validated
          checked,      \* the instructions validated so far
          state         \* what the validator keeps: [temps, ok]
vars == <<given, checked, state>>

\* the operators with three operands of one size
Triples == IntegerBinops \union FloatBinops

\* the operators IO_LABEL to IO_RETURN
Operators ==
  {"LABEL", "VOLATILE", "UNINITIALIZED", "ADDROF", "NOP", "MOVE", "MEM_STORE", "MEM_LOAD",
   "STK_STORE", "STK_LOAD", "OFFSET_STORE", "OFFSET_LOAD", "Z", "NZ", "FZ", "FNZ", "LNOT", "SX",
   "ZX", "TRUNC", "U2F", "S2F", "FRESIZE", "F2I", "NEG", "NOT", "FNEG", "JUMP", "JUMPTABLE",
   "CALL", "RETURN"}
  \union TwoTargets \union OneTarget \union IntegerBinops \union FloatBinops \union Shifts
  \union IntegerOrders \union FloatOrders

ArityOf(op) ==
  CASE op \in {"NOP", "RETURN"} -> 0
    [] op \in {"LABEL", "VOLATILE", "UNINITIALIZED", "JUMP", "CALL"} -> 1
    [] op \in {"ADDROF", "MOVE", "STK_STORE", "STK_LOAD", "NEG", "NOT", "FNEG", "Z", "NZ", "FZ", "FNZ", "LNOT",
               "SX", "ZX", "TRUNC", "U2F", "S2F", "FRESIZE", "F2I", "J1Z", "J1NZ", "J1FZ", "J1FNZ", "JUMPTABLE"} -> 2
    [] op \in Jumps2 \union FloatJumps2 -> 4
    [] OTHER -> 3

\* how many leading arguments are targets, and the arguments ir.h says are read
TargetsOf(op) == IF op \in TwoTargets THEN 2 ELSE IF op \in OneTarget \union {"JUMP", "LABEL"} THEN 1 ELSE 0
WrittenArgs(op) ==
  IF op \in {"MOVE", "MEM_LOAD", "STK_LOAD", "OFFSET_STORE", "OFFSET_LOAD", "UNINITIALIZED", "ADDROF", "NEG", "NOT",
             "FNEG"} \union Triples \union Shifts \union IntegerOrders \union FloatOrders
             \union {"Z", "NZ", "FZ", "FNZ", "LNOT", "SX", "ZX", "TRUNC", "U2F", "S2F", "FRESIZE", "F2I"}
  THEN {1} ELSE {}
ReadArgs(op) ==
  CASE op = "JUMPTABLE" -> {1}
    [] OTHER -> (1..ArityOf(op)) \ ((1..TargetsOf(op)) \union WrittenArgs(op))

Ins(op, args) == [op |-> op, args |-> args]
InBlock(i) == i.op \notin OneTarget \union {"LABEL"}
Check(s, i) ==
  LET next == CheckInstruction(s, i, Labels, InBlock(i), TRUE) IN [next EXCEPT !.ok = @ /\ ArchSpecific(i)]
Writes(i) == {o \in {i.args[k] : k \in WrittenArgs(i.op)} : isTemp(o)}

\* what the rest of the compiler hands the validator: operands of ir.h's kinds,
\* as many as the operator takes
IsOperand(o) ==
  \/ /\ o.kind = "TEMP" /\ o = AlignedTemp(o.name, o.align, o.size, o.alloc)
     /\ {o.align, o.size} \subseteq Nat /\ o.alloc \in {"GP", "FP", "MEM"}
  \/ o.kind = "REG" /\ o = Reg(o.name, o.size) /\ o.name \in GpRegisters \union FpRegisters
  \/ o.kind = "CONSTANT" /\ o = Const(o.value, o.size)
IsInstruction(i) ==
  /\ i.op \in Operators
  /\ DOMAIN i.args = 1..ArityOf(i.op) /\ \A k \in DOMAIN i.args : IsOperand(i.args[k])
ASSUME ListingsAssumption ==
  \A listing \in ToSet(Listings) : \A place \in ToSet(listing) :
    \A op \in DOMAIN place : \A args \in place[op] : IsInstruction(Ins(op, args))

Init ==
  /\ given \in DOMAIN Listings
  /\ checked = <<>>
  /\ state = [temps |-> <<>>, ok |-> TRUE]

Validated(i) ==
  /\ state.ok
  /\ checked' = Append(checked, i)
  /\ state' = Check(state, i)
  /\ UNCHANGED given

Next ==
  /\ Len(checked) + 1 \in DOMAIN Listings[given]
  /\ LET place == Listings[given][Len(checked) + 1] IN
     \E op \in DOMAIN place : \E args \in place[op] : Validated(Ins(op, args))
Spec == Init /\ [][Next]_vars
-----------------------------------------------------------------------------
Earlier == UNION {Writes(checked[k]) : k \in 1..(Len(checked) - 1)}

\* what counts as defined although nothing gave it a value: the destination of
\* the same instruction, which is recorded before its operands are checked, and
\* a temporary a part is loaded from, which is checked as if it were written
Assumed ==
  Writes(Last(checked)) \union {checked[k].args[2] : k \in {k \in DOMAIN checked : checked[k].op = "OFFSET_LOAD"}}

\* Validation accepts no read of a temporary before one with the same size,
\* alignment and storage was given a value, except for those of Assumed and the
\* table of a JUMPTABLE, which is not looked at. The other way round, a use of a
\* temporary that was given a value is accepted.
ReadsDefined ==
  /\ (checked # <<>> /\ state.ok /\ Last(checked).op # "JUMPTABLE") =>
       LET i == Last(checked) IN
       \A k \in ReadArgs(i.op) : isTemp(i.args[k]) => i.args[k] \in Earlier \union Assumed
  /\ (checked # <<>> /\ Last(checked).op = "VOLATILE" /\ Last(checked).args[1] \in Earlier) => state.ok

\* Every label an accepted instruction names is that of a block or of data, except
\* in floating point operands, in offsets and in tables, where labels are let by.
LabelsResolved ==
  (checked # <<>> /\ state.ok) =>
    LET i == Last(checked)
        free == {"JUMPTABLE"} \union FloatBinops \union FloatOrders \union FloatJumps1 \union FloatJumps2
    IN \A k \in DOMAIN i.args :
         isLocal(i.args[k]) => \/ i.args[k].value[2] \in Labels
                              \/ i.op \in free \union {"FNEG", "F2I", "FRESIZE", "LABEL"}
                              \/ {Offset(k), Byte(k)} \cap ToSet(ChecksOf(i.op)) # {}

\* Operands in places the selector has no arm for, and validation accepts: the
\* address of a temporary in a floating point register, since what is meant to
\* check for memory checks for floating point; a machine register for floating
\* point where an address, an offset or an integer belongs, since only
\* temporaries are looked at; and a copy of a large temporary to a constant
\* address at a constant offset.
Unselected(i) ==
  \/ i.op = "ADDROF" /\ (isFpTemp(i.args[2]) \/ isFpReg(i.args[1]))
  \/ i.op \in {"MEM_STORE", "STK_STORE"} /\ isFpReg(i.args[1])
  \/ i.op = "MEM_LOAD" /\ isFpReg(i.args[2])
  \/ i.op \in {"MEM_LOAD", "MEM_STORE", "OFFSET_LOAD", "OFFSET_STORE"} /\ isFpReg(i.args[3])
  \/ i.op = "STK_LOAD" /\ isFpReg(i.args[2])
  \/ i.op = "CALL" /\ isFpReg(i.args[1])
  \/ /\ i.op = "MEM_STORE" /\ isConst(i.args[1]) /\ isConst(i.args[3])
     /\ isMemTemp(i.args[2]) /\ i.args[2].size \notin MovableSizes \union {16}

Moves == {"ADDROF", "MOVE", "MEM_STORE", "MEM_LOAD", "STK_STORE", "STK_LOAD", "OFFSET_STORE", "OFFSET_LOAD", "CALL"}

\* The selector has an arm for every instruction that validation accepts, and
\* does not stop the compiler with an internal error, except for Unselected.
AcceptedSelected ==
  (checked # <<>> /\ state.ok /\ Last(checked).op \in Moves) =>
    (Unhandled[1] \in ToSet(Select(Last(checked), 90)) <=> Unselected(Last(checked)))
=============================================================================
