--------------------------------- MODULE IR ---------------------------------
(***************************************************************************)
(* The intermediate representation shared by the middle end: operands,     *)
(* instructions and basic blocks of ir/ir.h, built by the constructors of  *)
(* ir/shorthand.c.                                                         *)
(*                                                                         *)
(* An operand keeps its kind and its name; sizes, alignments and           *)
(* allocation hints are left out, because no pass modelled here branches   *)
(* on them.  An instruction is an operator with its operands in the order  *)
(* of ir.h.                                                                *)
(*                                                                         *)
(* An instruction holds its operands by pointer and frees them when it is  *)
(* freed, and the same operand object may be handed to two instructions.   *)
(* "obj" tells the objects apart that could be held more than once; 0 is   *)
(* an object nothing but its one holder can have a pointer to.             *)
(*                                                                         *)
(* A function body is a sequence of blocks, the first one its entry.  The  *)
(* read-only data fragments the passes look at are the jump tables:        *)
(* "tables" maps a fragment's local label to the block labels it lists.    *)
(***************************************************************************)
EXTENDS Integers, Sequences

Operand(kind, name) == [kind |-> kind, name |-> name, obj |-> 0]
Temp(n)   == Operand("TEMP", n)
Const(n)  == Operand("CONST", n)
Local(n)  == Operand("LOCAL", n)
Global(f) == Operand("GLOBAL", f)

\* The register a value is returned in: the only register the model names.
REG == Operand("REG", 0)

\* irOperandCopy: an object of its own.
Copy(operand) == Operand(operand.kind, operand.name)

\* The object of an operand that is about to get a second holder gets a name.
Named(operand, n) == IF operand.obj = 0 THEN [operand EXCEPT !.obj = n] ELSE operand

\* The named objects an operand is, and an instruction and a block hold.
ObjectOf(operand) == {operand.obj} \ {0}
Objects(i) == UNION {ObjectOf(i.args[a]) : a \in DOMAIN i.args}
ObjectsIn(b) == UNION {Objects(b.instructions[k]) : k \in DOMAIN b.instructions}

\* irInstructionCopy
Copied(i) == [op |-> i.op, args |-> [a \in DOMAIN i.args |-> Copy(i.args[a])]]

MOVE(dest, src) == [op |-> "MOVE", args |-> <<dest, src>>]
MEM_LOAD(dest, addr) == [op |-> "MEM_LOAD", args |-> <<dest, addr, Const(0)>>]
MEM_STORE(addr, src) == [op |-> "MEM_STORE", args |-> <<addr, src, Const(0)>>]
BINOP(op, dest, lhs, rhs) == [op |-> op, args |-> <<dest, lhs, rhs>>]
UNOP(op, dest, src) == [op |-> op, args |-> <<dest, src>>]
MARK_TEMP(marker, temp) == [op |-> marker, args |-> <<temp>>]
CALL(who) == [op |-> "CALL", args |-> <<who>>]
NOP == [op |-> "NOP", args |-> << >>]
LABEL(n) == [op |-> "LABEL", args |-> <<Local(n)>>]

JUMP(dest) == [op |-> "JUMP", args |-> <<Local(dest)>>]
JUMPTABLE(dest, table) ==
  [op |-> "JUMPTABLE", args |-> <<dest, Local(table)>>]
CJUMP(op, trueDest, falseDest, lhs, rhs) ==
  [op |-> op, args |-> <<Local(trueDest), Local(falseDest), lhs, rhs>>]
BJUMP(op, trueDest, falseDest, condition) ==
  [op |-> op, args |-> <<Local(trueDest), Local(falseDest), condition>>]
RETURN == [op |-> "RETURN", args |-> << >>]

\* The conditional jumps with two targets: binary and unary comparisons, and
\* the fallthrough version of each, which has a true target only.
CJumps == {"J2L", "J2LE", "J2E", "J2NE", "J2G", "J2GE", "J2A", "J2AE", "J2B",
           "J2BE", "J2FL", "J2FLE", "J2FE", "J2FNE", "J2FG", "J2FGE"}
BJumps == {"J2Z", "J2NZ", "J2FZ", "J2FNZ"}
TwoTarget == CJumps \cup BJumps

FallthroughOp ==
  [J2L |-> "J1L", J2LE |-> "J1LE", J2E |-> "J1E", J2NE |-> "J1NE",
   J2G |-> "J1G", J2GE |-> "J1GE", J2A |-> "J1A", J2AE |-> "J1AE",
   J2B |-> "J1B", J2BE |-> "J1BE", J2FL |-> "J1FL", J2FLE |-> "J1FLE",
   J2FE |-> "J1FE", J2FNE |-> "J1FNE", J2FG |-> "J1FG", J2FGE |-> "J1FGE",
   J2Z |-> "J1Z", J2NZ |-> "J1NZ", J2FZ |-> "J1FZ", J2FNZ |-> "J1FNZ"]
OneTarget == {FallthroughOp[op] : op \in TwoTarget}

\* The instructions that compute their first operand from two others, and from
\* one other.
Binary == {"ADD", "SUB", "SMUL", "UMUL", "SDIV", "UDIV", "SMOD", "UMOD", "FADD",
           "FSUB", "FMUL", "FDIV", "FMOD", "SLL", "SLR", "SAR", "AND", "XOR",
           "OR", "L", "LE", "E", "NE", "G", "GE", "A", "AE", "B", "BE", "FL",
           "FLE", "FE", "FNE", "FG", "FGE"}
Unary == {"NEG", "FNEG", "NOT", "Z", "NZ", "FZ", "FNZ", "LNOT", "SX", "ZX",
          "TRUNC", "U2F", "S2F", "FRESIZE", "F2I"}

IROperator ==
  {"LABEL", "VOLATILE", "UNINITIALIZED", "ADDROF", "NOP", "MOVE", "MEM_STORE",
   "MEM_LOAD", "STK_STORE", "STK_LOAD", "OFFSET_STORE", "OFFSET_LOAD", "JUMP",
   "JUMPTABLE", "CALL", "RETURN"}
    \cup Binary \cup Unary \cup TwoTarget \cup OneTarget

-----------------------------------------------------------------------------
(* Blocks *)

ElementsOf(s) == {s[i] : i \in DOMAIN s}

BLOCK(label, instructions) == [label |-> label, instructions |-> instructions]

\* The instruction at b->instructions.tail->prev.
LastOf(b) == b.instructions[Len(b.instructions)]

\* b->instructions.head->next->next == b->instructions.tail
IsSingle(b) == Len(b.instructions) = 1

LabelsOf(blocks) == {blocks[i].label : i \in DOMAIN blocks}

\* findBlock returns NULL exactly when HasBlock is false; indexOfBlock stops
\* the compiler in that case.
HasBlock(blocks, label) == \E i \in DOMAIN blocks : blocks[i].label = label

IndexOfBlock(blocks, label) ==
  CHOOSE i \in DOMAIN blocks : blocks[i].label = label

FindBlock(blocks, label) == blocks[IndexOfBlock(blocks, label)]

\* The labels a terminator may transfer control to, in the order markReachable
\* and scheduleBlock look at them.
JumpTargets(i, tables) ==
  IF i.op = "JUMP" THEN <<i.args[1].name>>
  ELSE IF i.op = "JUMPTABLE" THEN tables[i.args[2].name]
  ELSE IF i.op \in TwoTarget THEN <<i.args[1].name, i.args[2].name>>
  ELSE << >>

\* Every instruction of the blocks is the one holder of its operands, and none
\* of them is freed: then freeing any instructions of the blocks, each once,
\* leaves the operands of the others alone.
OwnedOnce(blocks, freed) ==
  \A b \in DOMAIN blocks : \A i \in DOMAIN blocks[b].instructions :
    LET held == Objects(blocks[b].instructions[i])
    IN  held # {} =>
          /\ held \cap freed = {}
          /\ \A c \in DOMAIN blocks : \A j \in DOMAIN blocks[c].instructions :
               Objects(blocks[c].instructions[j]) \cap held # {} => c = b /\ j = i

IROperand ==
  [kind : {"TEMP", "REG", "CONST", "LOCAL", "GLOBAL"}, name : Int, obj : Int]
IRInstruction == [op : IROperator, args : Seq(IROperand)]
IRBlock == [label : Int, instructions : Seq(IRInstruction)]

IsTerminator(i) ==
  \/ i.op = "JUMP" /\ Len(i.args) = 1 /\ i.args[1].kind = "LOCAL"
  \/ i.op = "JUMPTABLE" /\ Len(i.args) = 2
  \/ i.op \in TwoTarget /\ Len(i.args) \in {3, 4}
  \/ i.op = "RETURN"

\* What every list of blocks given to the middle end satisfies: at least an
\* entry block, labels used once, and every block ended by a jump or a return
\* (what validateBlockedIr requires of a block).
IsBlockList(blocks) ==
  /\ blocks \in Seq(IRBlock)
  /\ blocks # << >>
  /\ \A i \in DOMAIN blocks :
        /\ blocks[i].instructions # << >>
        /\ IsTerminator(LastOf(blocks[i]))
  /\ \A i, j \in DOMAIN blocks : blocks[i].label = blocks[j].label => i = j

\* A function together with its file's jump tables: every table jump has one.
IsFunction(f) ==
  /\ IsBlockList(f.blocks)
  /\ f.tables \in [DOMAIN f.tables -> Seq(Int)]
  /\ \A i \in DOMAIN f.blocks :
       LET last == LastOf(f.blocks[i])
       IN  last.op = "JUMPTABLE" => last.args[2].name \in DOMAIN f.tables
=============================================================================
