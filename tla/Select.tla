------------------------------- MODULE Select -------------------------------
(***************************************************************************)
(* Instruction selection (arch/x86_64-linux/asm.c,                         *)
(* x86_64LinuxGenerateTextAsm): which machine instructions one IR          *)
(* instruction becomes.  The selector is a cascade of arms, one per        *)
(* combination of operand classes and sizes; every arm is a definition     *)
(* here, and the arms that the source writes alike share an operator.      *)
(*                                                                         *)
(* A machine instruction is a mnemonic and the arguments its skeleton      *)
(* prints, in which D and U stand for the next operand of its lists of     *)
(* defined and used operands; move is the pair the source gives to MOVES.   *)
(* The second parameter of every arm, n, is the name fresh() returns next. *)
(***************************************************************************)
EXTENDS Operands

D == <<"d">>
U == <<"u">>
Sized(w)      == <<"d", w>>                 \* D behind a printed size of w bytes
Imm(value)    == <<"imm", value>>
Lit(register) == <<"reg", register>>
At(w, p, q)   == <<"mem", w, p, q>>         \* w bytes at p + q; w = 0: no size is printed
Frag(c)       == <<"frag", c.value>>        \* the address of a fresh read-only copy of c
Width(w)      == <<"width", w>>             \* the letter of a string move
Infix(f, c, d) == <<"infix", f, c, d>>      \* arithmetic left to the assembler

Insn(op, args, defs, uses) ==
  [op |-> op, args |-> args, defs |-> defs, uses |-> uses, move |-> <<>>, ends |-> TRUE]
\* MOVES: the instruction only copies a used operand to a defined one
Moving(i, dest, src) == [i EXCEPT !.move = <<i.defs[dest], i.uses[src]>>]

\* the arms that stop the compiler with an internal error
Unhandled == <<Insn("error", <<>>, <<>>, <<>>)>>

\* arms that read an operand as something it is not
Undefined == <<Insn("undefined", <<>>, <<>>, <<>>)>>

RDI == Reg("rdi", 8)
RSI == Reg("rsi", 8)
RCX == Reg("rcx", 8)
RSP == Reg("rsp", 8)

\* how an operand is printed, and what it adds to the uses
Slot(o) == CASE isConst(o) -> Imm(o.value) [] o = RSP -> Lit("rsp") [] OTHER -> U
Used(o) == IF isConst(o) \/ o = RSP THEN <<>> ELSE <<o>>

Copy(op, to, from) == Moving(Insn(op, <<D, U>>, <<to>>, <<from>>), 1, 1)
Mov(to, from)      == Copy("mov", to, from)
Plain(op, to, from) == Insn(op, <<D, U>>, <<to>>, <<from>>)     \* the same without MOVES

\* A slip AssemblerAccepts catches: the address is used where it lies.
LoadedNowhere(o, n) == o

\* a memory temporary that is to be an address is first moved to a register
Loaded(o, n)  == IF isMemTemp(o) THEN Patch(o, n, "GP") ELSE o
Load(o, n)    == IF isMemTemp(o) THEN <<Mov(Patch(o, n, "GP"), o)>> ELSE <<>>
After(o, n)   == IF isMemTemp(o) THEN n + 1 ELSE n

\* x86_64LinuxFinishMemcpy: the widest unit that divides the size, then the count
Unit(size) == CASE size % 8 = 0 -> 8 [] size % 8 = 4 -> 4 [] size % 4 = 2 -> 2 [] OTHER -> 1
\* Slips CodeMeansInstruction and AllocatorTold catch: the count is one of bytes;
\* a string move lists where it writes twice, and not where it reads.
FinishMemcpyBytes(size, defs, uses) ==
  << Insn("mov", <<D, Imm(Word(size))>>, <<RCX>>, <<>>),
     Insn("rep movs", <<Width(Unit(size))>>, <<RSI, RDI, RCX>> \o defs, <<RSI, RDI, RCX>> \o uses) >>
FinishMemcpyUsesDest(size, defs, uses) ==
  << Insn("mov", <<D, Imm(Word(size \div Unit(size)))>>, <<RCX>>, <<>>),
     Insn("rep movs", <<Width(Unit(size))>>, <<RSI, RDI, RCX>> \o defs, <<RDI, RDI, RCX>> \o uses) >>

FinishMemcpy(size, defs, uses) ==
  << Insn("mov", <<D, Imm(Word(size \div Unit(size)))>>, <<RCX>>, <<>>),
     Insn("rep movs", <<Width(Unit(size))>>, <<RSI, RDI, RCX>> \o defs, <<RSI, RDI, RCX>> \o uses) >>

LeaTemp(r, o)       == Insn("lea", <<Lit(r.name), U>>, <<r>>, <<o>>)
LeaAt(r, b, o)      == Insn("lea", <<Lit(r.name), At(0, Slot(b), Slot(o))>>, <<r>>, Used(b) \o Used(o))
LeaFrag(r, c)       == Insn("lea", <<Lit(r.name), Frag(c)>>, <<r>>, <<>>)

\* a skeleton that ends without a newline: the next instruction joins its line
Unterminated(moves) == [k \in DOMAIN moves |-> [moves[k] EXCEPT !.ends = FALSE]]

FpMove(size) == IF size = 8 THEN "movsd" ELSE "movss"
FpBits(size) == IF size = 8 THEN "movq" ELSE "movd"

-----------------------------------------------------------------------------
\* Pseudo-operations

SelectVolatile(a) == IF isConst(a) THEN Unhandled ELSE <<Insn("", <<>>, <<>>, <<a>>)>>

SelectAddrof(d, s, n) ==
  CASE isGp(d) /\ isMemTemp(s) -> <<Plain("lea", d, s)>>
    [] isMemTemp(d) /\ isMemTemp(s) ->
         <<Plain("lea", Patch(d, n, "GP"), s), Mov(d, Patch(d, n, "GP"))>>
    [] OTHER -> Unhandled

-----------------------------------------------------------------------------
\* MOVE

\* both in registers of one class, or one of them in memory
Among(d, s, dIn, sIn) == (dIn /\ (sIn \/ isMemTemp(s))) \/ (isMemTemp(d) /\ sIn)

MoveRegisters(d, s) ==
  CASE Among(d, s, isGp(d), isGp(s)) -> <<Mov(d, s)>>
    [] (isGp(d) /\ isFp(s)) \/ (isFp(d) /\ isGp(s)) ->
         <<Copy(FpBits(s.size), d, s)>>
    [] isGp(d) /\ isConst(s) -> <<Insn("mov", <<D, Imm(s.value)>>, <<d>>, <<>>)>>
    [] Among(d, s, isFp(d), isFp(s)) ->
         <<Copy(FpMove(s.size), d, s)>>
    [] isFp(d) /\ isConst(s) -> <<Insn(FpMove(s.size), <<D, At(0, Frag(s), Imm(Word(0)))>>, <<d>>, <<>>)>>
    [] OTHER -> Unhandled

MoveMemory(d, s, n) ==
  CASE s.size \in MovableSizes -> <<Mov(Patch(s, n, "GP"), s), Mov(d, Patch(s, n, "GP"))>>
    [] s.size = 16 -> <<Copy("movdqu", Patch(s, n, "FP"), s), Copy("movdqu", d, Patch(s, n, "FP"))>>
    [] OTHER -> LET copy == FinishMemcpy(s.size, <<d>>, <<s>>) IN
                <<LeaTemp(RSI, s), LeaTemp(RDI, d), copy[1], Moving(copy[2], 4, 4)>>

MoveConstToMemory(d, c) ==
  IF c.size \in MovableSizes THEN <<Insn("mov", <<D, Imm(c.value)>>, <<d>>, <<>>)>>
  ELSE <<LeaFrag(RSI, c), LeaTemp(RDI, d)>> \o FinishMemcpy(c.size, <<d>>, <<>>)

SelectMove(d, s, n) ==
  CASE isMemTemp(d) /\ isMemTemp(s) -> MoveMemory(d, s, n)
    [] isMemTemp(d) /\ isConst(s)   -> MoveConstToMemory(d, s)
    [] OTHER                        -> MoveRegisters(d, s)

-----------------------------------------------------------------------------
\* MEM_STORE: the value v to the address b + o.  The arms differ in how b and
\* v are brought into registers; the offset is loaded alike in all of them.

StoreTo(op, w, b, o, v) ==
  <<Insn(op, <<At(w, Slot(b), Slot(o)), Slot(v)>>, <<>>, Used(b) \o Used(o) \o Used(v))>>

StoreGp(b, o, v) == StoreTo("mov", v.size, b, o, v)
StoreFp(b, o, v) == StoreTo(FpMove(v.size), 0, b, o, v)

\* sixteen bytes are moved through a register by move16, others copied
StoreMem(b, o, v, n, move16) ==
  CASE v.size \in MovableSizes -> <<Mov(Patch(v, n, "GP"), v)>> \o StoreGp(b, o, Patch(v, n, "GP"))
    [] v.size = 16 -> <<Copy(move16, Patch(v, n, "FP"), v)>>
                        \o StoreTo("movdqu", 0, b, o, Patch(v, n, "FP"))
    [] OTHER -> <<LeaTemp(RSI, v), LeaAt(RDI, b, o)>> \o FinishMemcpy(v.size, <<>>, <<v>>)

StoreConst(b, o, c) ==
  IF c.size \in MovableSizes THEN StoreGp(b, o, c)
  ELSE <<LeaFrag(RSI, c), LeaAt(RDI, b, o)>> \o FinishMemcpy(c.size, <<>>, <<>>)

StoreGpGp(b, v, o, n)    == Load(o, n) \o StoreGp(b, Loaded(o, n), v)
StoreGpFp(b, v, o, n)    == Load(o, n) \o StoreFp(b, Loaded(o, n), v)
StoreGpMem(b, v, o, n)   == Load(o, n) \o StoreMem(b, Loaded(o, n), v, After(o, n), "movdqu")
StoreGpConst(b, v, o, n) == Load(o, n) \o StoreConst(b, Loaded(o, n), v)

StoreMemGp(b, v, o, n) ==
  Load(b, n) \o Load(o, n + 1) \o StoreGp(Loaded(b, n), Loaded(o, n + 1), v)

\* the address goes through patches hinted as floating point registers
FpPatch(o, n) == IF isMemTemp(o) THEN Patch(o, n, "FP") ELSE o
FpLoad(o, n)  == IF isMemTemp(o) THEN <<Mov(Patch(o, n, "FP"), o)>> ELSE <<>>
StoreMemFp(b, v, o, n) ==
  FpLoad(b, n) \o FpLoad(o, n + 1) \o StoreFp(FpPatch(b, n), FpPatch(o, n + 1), v)

StoreMemMem(b, v, o, n) ==
  Load(b, n) \o Load(o, n + 1)
    \o StoreMem(Loaded(b, n), Loaded(o, n + 1), v, After(o, n + 1), "mov")

\* with a constant offset the store names the temporary, not the loaded patch
StoreMemConst(b, v, o, n) ==
  Load(b, n) \o Load(o, n + 1)
    \o StoreConst(IF isConst(o) THEN b ELSE Loaded(b, n), Loaded(o, n + 1), v)

StoreConstGp(b, v, o, n)    == Load(o, n) \o StoreGp(b, Loaded(o, n), v)
StoreConstFp(b, v, o, n)    == Load(o, n) \o StoreFp(b, Loaded(o, n), v)
\* the copy to a constant address lists the constant offset as a used operand
StoreConstMem(b, v, o, n)   ==
  IF isConst(o) /\ v.size \notin MovableSizes \union {16} THEN Unhandled
  ELSE Load(o, n) \o StoreMem(b, Loaded(o, n), v, After(o, n), "movdqu")
StoreConstConst(b, v, o, n) == Load(o, n) \o StoreConst(b, Loaded(o, n), v)

SelectMemStore(b, v, o, n) ==
  IF isFp(b) \/ isFp(o) THEN Unhandled ELSE
  CASE isGp(b) /\ isGp(v)             -> StoreGpGp(b, v, o, n)
    [] isGp(b) /\ isFp(v)             -> StoreGpFp(b, v, o, n)
    [] isGp(b) /\ isMemTemp(v)        -> StoreGpMem(b, v, o, n)
    [] isGp(b) /\ isConst(v)          -> StoreGpConst(b, v, o, n)
    [] isMemTemp(b) /\ isGp(v)        -> StoreMemGp(b, v, o, n)
    [] isMemTemp(b) /\ isFp(v)        -> StoreMemFp(b, v, o, n)
    [] isMemTemp(b) /\ isMemTemp(v)   -> StoreMemMem(b, v, o, n)
    [] isMemTemp(b) /\ isConst(v)     -> StoreMemConst(b, v, o, n)
    [] isConst(b) /\ isGp(v)          -> StoreConstGp(b, v, o, n)
    [] isConst(b) /\ isFp(v)          -> StoreConstFp(b, v, o, n)
    [] isConst(b) /\ isMemTemp(v)     -> StoreConstMem(b, v, o, n)
    [] isConst(b) /\ isConst(v)       -> StoreConstConst(b, v, o, n)
-----------------------------------------------------------------------------
\* MEM_LOAD: from the address b + o to d

LoadFrom(op, w, d, b, o) ==
  <<Insn(op, <<D, At(w, Slot(b), Slot(o))>>, <<d>>, Used(b) \o Used(o))>>

LoadGp(d, b, o) == LoadFrom("mov", d.size, d, b, o)
\* the width of the move comes from the size of the address
LoadFp(d, b, o) == LoadFrom(FpMove(b.size), 0, d, b, o)

\* the move of the offset ends without a newline
LoadGpGp(d, b, o, n)    == Unterminated(Load(o, n)) \o LoadGp(d, b, Loaded(o, n))
LoadGpMem(d, b, o, n)   == Load(b, n) \o Load(o, n + 1) \o LoadGp(d, Loaded(b, n), Loaded(o, n + 1))
LoadGpConst(d, b, o, n) == Load(o, n) \o LoadGp(d, b, Loaded(o, n))

LoadFpGp(d, b, o, n)    == Load(o, n) \o LoadFp(d, b, Loaded(o, n))
LoadFpMem(d, b, o, n)   == Load(b, n) \o Load(o, n + 1) \o LoadFp(d, Loaded(b, n), Loaded(o, n + 1))
LoadFpConst(d, b, o, n) ==
  IF isGp(o) THEN LoadFp(d, o, b) ELSE Load(o, n) \o LoadFp(d, b, Loaded(o, n))

\* through a register when it fits one; the arms for 16 bytes test the size of the
\* address, which is 8, so 16 bytes are copied like every larger size
ThroughPatch(d, b, o, n) == LoadGp(Patch(d, n, "GP"), b, o) \o <<Mov(d, Patch(d, n, "GP"))>>
CopyFrom(d, b, o) == <<LeaAt(RSI, b, o), LeaTemp(RDI, d)>> \o FinishMemcpy(d.size, <<d>>, <<>>)

\* the destination's address is taken by an instruction that lists it as defined
LoadMemGp(d, b, o, n) ==
  Load(o, n) \o
    CASE d.size \in MovableSizes -> ThroughPatch(d, b, Loaded(o, n), After(o, n))
      [] d.size \notin MovableSizes /\ isMemTemp(o) ->
           << LeaAt(RSI, b, Loaded(o, n)), Insn("lea", <<Lit("rdi"), U>>, <<RDI, d>>, <<>>) >>
             \o FinishMemcpy(d.size, <<d>>, <<>>)
      [] OTHER -> CopyFrom(d, b, o)

\* a register offset is printed, but not listed as used
LoadMemMem(d, b, o, n) ==
  LET base == Loaded(b, n) offset == Loaded(o, n + 1) IN
  Load(b, n) \o Load(o, n + 1) \o
    CASE d.size \notin MovableSizes -> CopyFrom(d, base, offset)
      [] d.size \in MovableSizes /\ isGp(o) ->
           << Insn("mov", <<D, At(d.size, U, U)>>, <<Patch(d, n + 1, "GP")>>, <<base>>),
              Mov(d, Patch(d, n + 1, "GP")) >>
      [] OTHER -> ThroughPatch(d, base, offset, After(o, n + 1))

LoadMemConst(d, b, o, n) ==
  Load(o, n) \o IF d.size \in MovableSizes THEN ThroughPatch(d, b, Loaded(o, n), After(o, n))
                ELSE CopyFrom(d, b, Loaded(o, n))

SelectMemLoad(d, b, o, n) ==
  IF isFp(b) \/ isFp(o) \/ isConst(d) THEN Unhandled ELSE
  CASE isGp(d) /\ isGp(b)           -> LoadGpGp(d, b, o, n)
    [] isGp(d) /\ isMemTemp(b)      -> LoadGpMem(d, b, o, n)
    [] isGp(d) /\ isConst(b)        -> LoadGpConst(d, b, o, n)
    [] isFp(d) /\ isGp(b)           -> LoadFpGp(d, b, o, n)
    [] isFp(d) /\ isMemTemp(b)      -> LoadFpMem(d, b, o, n)
    [] isFp(d) /\ isConst(b)        -> LoadFpConst(d, b, o, n)
    [] isMemTemp(d) /\ isGp(b)      -> LoadMemGp(d, b, o, n)
    [] isMemTemp(d) /\ isMemTemp(b) -> LoadMemMem(d, b, o, n)
    [] isMemTemp(d) /\ isConst(b)   -> LoadMemConst(d, b, o, n)

-----------------------------------------------------------------------------
\* STK_STORE and STK_LOAD: the same at an offset from the stack pointer

\* sixteen bytes are stored by mov, from a floating point register
StackMem(o, v, n) ==
  CASE v.size \in MovableSizes -> <<Mov(Patch(v, n, "GP"), v)>> \o StoreTo("mov", 0, RSP, o, Patch(v, n, "GP"))
    [] v.size = 16 -> <<Copy("movdqu", Patch(v, n, "FP"), v)>>
                        \o StoreTo("mov", 0, RSP, o, Patch(v, n, "FP"))
    [] OTHER -> <<LeaTemp(RSI, v), LeaAt(RDI, RSP, o)>> \o FinishMemcpy(v.size, <<>>, <<v>>)

StkStoreRegister(o, v, n) ==
  CASE isGp(v)      -> StoreTo("mov", 0, RSP, o, v)
    [] isFp(v)      -> StoreFp(RSP, o, v)
    [] isMemTemp(v) -> StackMem(o, v, n)
    [] isConst(v)   -> StoreConst(RSP, o, v)

StkStoreMem(o, v, n) == Load(o, n) \o
  CASE isGp(v)      -> StoreTo("mov", 0, RSP, Loaded(o, n), v)
    [] isFp(v)      -> StoreFp(RSP, Loaded(o, n), v)
    [] isMemTemp(v) -> StackMem(Loaded(o, n), v, n + 1)
    [] isConst(v)   -> StoreConst(RSP, Loaded(o, n), v)

\* the store of a floating point register is built and never appended
StkStoreConst(o, v, n) ==
  CASE isGp(v)      -> StoreTo("mov", 0, RSP, o, v)
    [] isFp(v)      -> <<>>
    [] isMemTemp(v) -> StackMem(o, v, n)
    [] isConst(v)   -> StoreConst(RSP, o, v)

SelectStkStore(o, v, n) ==
  CASE isGp(o)      -> StkStoreRegister(o, v, n)
    [] isMemTemp(o) -> StkStoreMem(o, v, n)
    [] isConst(o)   -> StkStoreConst(o, v, n)
    [] OTHER        -> Unhandled

StkLoadGp(d, o, n) ==
  [k \in DOMAIN Load(o, n) |-> Plain("mov", Loaded(o, n), o)]
    \o LoadFrom("mov", 0, d, RSP, Loaded(o, n))
StkLoadFp(d, o, n) == Load(o, n) \o LoadFrom(FpMove(d.size), 0, d, RSP, Loaded(o, n))

\* the moves to the destination end without a newline
StkLoadMem(d, o, n) == Load(o, n) \o
  LET offset == Loaded(o, n)  next == After(o, n) IN
  CASE d.size \in MovableSizes -> LoadFrom("mov", 0, Patch(d, next, "GP"), RSP, offset)
                                    \o Unterminated(<<Plain("mov", d, Patch(d, next, "GP"))>>)
    [] d.size = 16 -> LoadFrom("movdqu", 0, Patch(d, next, "FP"), RSP, offset)
                        \o Unterminated(<<Plain("movdqu", d, Patch(d, next, "FP"))>>)
    [] OTHER -> CopyFrom(d, RSP, offset)

SelectStkLoad(d, o, n) ==
  IF isFp(o) \/ isConst(d) THEN Unhandled ELSE
  CASE isGp(d)      -> StkLoadGp(d, o, n)
    [] isFp(d)      -> StkLoadFp(d, o, n)
    [] isMemTemp(d) -> StkLoadMem(d, o, n)

-----------------------------------------------------------------------------
\* OFFSET_STORE and OFFSET_LOAD: a part of a temporary

OffsetStoreGp(d, v, o, n) == Load(o, n) \o <<Plain("mov", Inside(d, Loaded(o, n)), v)>>
OffsetStoreFp(d, v, o, n) == Load(o, n) \o <<Plain(FpBits(v.size), Inside(d, Loaded(o, n)), v)>>

OffsetStoreMem(d, v, o, n) == Load(o, n) \o
  LET part == Inside(d, Loaded(o, n))  next == After(o, n) IN
  CASE v.size \in MovableSizes -> <<Mov(Patch(v, next, "GP"), v), Plain("mov", part, Patch(v, next, "GP"))>>
    [] v.size = 16 -> << Copy("movdqu", Patch(v, next, "FP"), v),
                         Plain("movdqu", part, Patch(v, next, "FP")) >>
    [] OTHER -> LET copy == FinishMemcpy(v.size, <<d>>, <<v>>) IN
                <<LeaTemp(RSI, v), LeaTemp(RDI, part), copy[1], Moving(copy[2], 4, 4)>>

OffsetStoreConst(d, c, o, n) == Load(o, n) \o
  IF c.size \in MovableSizes THEN <<Insn("mov", <<Sized(c.size), Imm(c.value)>>, <<Inside(d, Loaded(o, n))>>, <<>>)>>
  ELSE <<LeaFrag(RSI, c), LeaTemp(RDI, Inside(d, Loaded(o, n)))>> \o FinishMemcpy(c.size, <<d>>, <<>>)

SelectOffsetStore(d, v, o, n) ==
  IF isFp(o) THEN Unhandled ELSE
  CASE isGp(v)      -> OffsetStoreGp(d, v, o, n)
    [] isFp(v)      -> OffsetStoreFp(d, v, o, n)
    [] isMemTemp(v) -> OffsetStoreMem(d, v, o, n)
    [] isConst(v)   -> OffsetStoreConst(d, v, o, n)

OffsetLoadGp(d, s, o, n) == Load(o, n) \o <<Plain("mov", d, Inside(s, Loaded(o, n)))>>
OffsetLoadFp(d, s, o, n) == Load(o, n) \o <<Plain(FpBits(d.size), d, Inside(s, Loaded(o, n)))>>
OffsetLoadMem(d, s, o, n) ==
  LET copy == FinishMemcpy(d.size, <<d>>, <<s>>) IN
  Load(o, n) \o <<LeaTemp(RSI, Inside(s, Loaded(o, n))), LeaTemp(RDI, d), copy[1], Moving(copy[2], 4, 4)>>

SelectOffsetLoad(d, s, o, n) ==
  IF isFp(o) \/ isConst(d) THEN Unhandled ELSE
  CASE isGp(d)      -> OffsetLoadGp(d, s, o, n)
    [] isFp(d)      -> OffsetLoadFp(d, s, o, n)
    [] isMemTemp(d) -> OffsetLoadMem(d, s, o, n)

-----------------------------------------------------------------------------
\* Integer arithmetic in two-operand form: move the first operand to the
\* destination, then combine the second into it.

Combine(op, d, s)    == Insn(op, <<D, U>>, <<d>>, <<s, d>>)
CombineImm(op, d, c) == Insn(op, <<D, Imm(c.value)>>, <<d>>, <<d>>)
MovImm(d, value)     == Insn("mov", <<D, Imm(value)>>, <<d>>, <<>>)

InPlace(op, d, x, y)    == <<Mov(d, x), Combine(op, d, y)>>
InPlaceImm(op, d, x, c) == <<Mov(d, x), CombineImm(op, d, c)>>
\* the same in a patch, which is then moved to a destination in memory
InPatch(op, d, x, y, n) ==
  InPlace(op, Patch(d, n, "GP"), x, y) \o <<Mov(d, Patch(d, n, "GP"))>>
InPatchImm(op, d, x, c, n) ==
  InPlaceImm(op, Patch(d, n, "GP"), x, c) \o <<Mov(d, Patch(d, n, "GP"))>>
\* two constants are left to the assembler
Folded(f, d, c, e) == <<Insn("mov", <<D, Infix(f, c.value, e.value)>>, <<d>>, <<>>)>>
\* eight bytes do not fit the immediate of a store
FoldedMem(f, d, c, e, n) ==
  IF d.size = 8 THEN Folded(f, Patch(d, n, "GP"), c, e) \o <<Mov(d, Patch(d, n, "GP"))>>
  ELSE Folded(f, d, c, e)

AddOperands(d, x, y)    == InPlace("add", d, x, y)
AddConst(d, x, c)       == InPlaceImm("add", d, x, c)
AddToConst(d, c, y)     == <<MovImm(d, c.value), Combine("add", d, y)>>
AddConsts(d, c, e)      == Folded("add", d, c, e)
AddInMemory(d, x, y, n) == InPatch("add", d, x, y, n)
AddMemConst(d, x, c, n) == InPatchImm("add", d, x, c, n)
AddConstMem(d, c, y, n) == InPatchImm("add", d, y, c, n)
AddConstsMem(d, c, e, n) == FoldedMem("add", d, c, e, n)

SelectAdd(d, x, y, n) ==
  IF isFp(d) \/ isConst(d) \/ isFp(x) \/ isFp(y) THEN Unhandled ELSE
  CASE isGp(d) /\ isConst(x) /\ isConst(y)      -> AddConsts(d, x, y)
    [] isMemTemp(d) /\ isConst(x) /\ isConst(y) -> AddConstsMem(d, x, y, n)
    [] isConst(x) /\ ~isConst(y) /\ (isGp(d) \/ isGp(y)) -> AddToConst(d, x, y)
    [] isMemTemp(d) /\ isConst(x) /\ isMemTemp(y) -> AddConstMem(d, x, y, n)
    [] ~isConst(x) /\ isConst(y) /\ (isGp(d) \/ isGp(x)) -> AddConst(d, x, y)
    [] isMemTemp(d) /\ isMemTemp(x) /\ isConst(y) -> AddMemConst(d, x, y, n)
    [] ~isConst(x) /\ ~isConst(y) /\ (isGp(d) \/ (isGp(x) /\ isGp(y))) -> AddOperands(d, x, y)
    [] OTHER -> AddInMemory(d, x, y, n)

SubOperands(d, x, y)    == InPlace("sub", d, x, y)
SubConst(d, x, c)       == InPlaceImm("sub", d, x, c)
\* the constant is formatted from the third argument, which is a temporary: the
\* name of the temporary is read as a pointer
SubFromConst(d, c, y)   == Undefined
SubConsts(d, c, e)      == Folded("sub", d, c, e)
SubInMemory(d, x, y, n) == InPatch("sub", d, x, y, n)
SubMemConst(d, x, c, n) == InPatchImm("sub", d, x, c, n)
SubConstsMem(d, c, e, n) == FoldedMem("sub", d, c, e, n)

SelectSub(d, x, y, n) ==
  IF isFp(d) \/ isConst(d) \/ isFp(x) \/ isFp(y) THEN Unhandled ELSE
  CASE isGp(d) /\ isConst(x) /\ isConst(y)      -> SubConsts(d, x, y)
    [] isMemTemp(d) /\ isConst(x) /\ isConst(y) -> SubConstsMem(d, x, y, n)
    [] isConst(x) /\ ~isConst(y)                -> SubFromConst(d, x, y)
    [] isGp(d) /\ ~isConst(x) /\ isConst(y)     -> SubConst(d, x, y)
    [] isMemTemp(d) /\ ~isConst(x) /\ isConst(y) -> SubMemConst(d, x, y, n)
    [] ~isConst(x) /\ ~isConst(y) /\ (isGp(d) \/ (isGp(x) /\ isGp(y))) -> SubOperands(d, x, y)
    [] OTHER -> SubInMemory(d, x, y, n)

-----------------------------------------------------------------------------
\* SMUL: bytes are multiplied as sign-extended words; an eight byte constant
\* does not fit the immediate of imul and is moved first.

Wide(o)           == [o EXCEPT !.size = 2]
Movsx(to, from)   == Insn("movsx", <<D, U>>, <<Wide(to)>>, <<from>>)
ImulImm(d, x, c)  == Insn("imul", <<D, U, Imm(c.value)>>, <<d>>, <<x>>)

\* a register temporary; the widened second byte is read back as a byte
SmulOperands(d, x, y, n) ==
  IF d.size = 1
  THEN << Movsx(d, x), Movsx(Patch(y, n, "GP"), y),
          Insn("imul", <<D, U>>, <<Wide(d)>>, <<Patch(y, n, "GP"), Wide(d)>>) >>
  ELSE InPlace("imul", d, x, y)

\* the product of eight bytes lists the destination, not x, as the operand printed
SmulConst(d, x, c, n) ==
  CASE d.size = 8 -> <<MovImm(d, c.value), Insn("imul", <<D, U>>, <<d>>, <<d, x>>)>>
    [] d.size = 1 -> << Moving(Movsx(Patch(x, n, "GP"), x), 1, 1),
                        ImulImm(Wide(d), Wide(Patch(x, n, "GP")), c) >>
    [] OTHER -> <<ImulImm(d, x, c)>>

SmulByConst(d, c, y, n) ==
  CASE d.size = 8 -> <<MovImm(d, c.value), Combine("imul", d, y)>>
    [] d.size = 1 -> <<Movsx(Patch(y, n, "GP"), y), ImulImm(Wide(d), Wide(Patch(y, n, "GP")), c)>>
    [] OTHER -> <<ImulImm(d, y, c)>>

\* a machine register as destination: bytes are multiplied in a patch
SmulToRegister(d, x, y, n) ==
  LET p == Patch(d, n, "GP")  q == Patch(d, n + 1, "GP") IN
  IF d.size = 1
  THEN <<Movsx(p, x), Movsx(q, y), Combine("imul", Wide(p), Wide(q)), Plain("mov", d, p)>>
  ELSE InPlace("imul", d, x, y)

SmulConstToRegister(d, x, c, n) ==
  LET p == Patch(x, n, "GP")  q == Patch(x, n + 1, "GP") IN
  IF d.size = 1
  THEN <<Moving(Movsx(p, x), 1, 1), ImulImm(Wide(q), Wide(p), c), Plain("mov", d, q)>>
  ELSE SmulConst(d, x, c, n)

SmulConsts(d, c, e) == Folded("imul", d, c, e)

SmulInMemory(d, x, y, n) ==
  LET p == Patch(d, n, "GP")  q == Patch(d, n + 1, "GP") IN
  IF d.size = 1
  THEN <<Movsx(p, x), Movsx(q, y), Combine("imul", Wide(p), Wide(q)), Mov(d, p)>>
  ELSE InPatch("imul", d, x, y, n)

SmulMemConst(d, x, c, n) ==
  LET p == Patch(d, n, "GP") IN
  CASE d.size = 8 -> <<MovImm(p, c.value), Combine("imul", p, x), Mov(d, p)>>
    [] d.size = 1 -> <<Movsx(p, x), ImulImm(Wide(p), Wide(p), c), Mov(d, p)>>
    [] OTHER -> <<ImulImm(p, x, c), Mov(d, p)>>

\* products to memory of a first operand in memory or a constant: hardly begun
SmulUnfinished(d, x, y, n) ==
  IF isMemTemp(x) /\ isGp(y) /\ d.size # 1 THEN <<Plain("mov", Patch(d, n, "GP"), x)>> ELSE <<>>

SelectSmul(d, x, y, n) ==
  IF isFp(d) \/ isConst(d) \/ isFp(x) \/ isFp(y) THEN Unhandled ELSE
  CASE isGp(d) /\ isConst(x) /\ isConst(y)        -> SmulConsts(d, x, y)
    [] isGp(d) /\ isConst(x) /\ ~isConst(y)       -> SmulByConst(d, x, y, n)
    [] isGpReg(d) /\ ~isConst(x) /\ isConst(y)    -> SmulConstToRegister(d, x, y, n)
    [] isGpReg(d) /\ ~isConst(x) /\ ~isConst(y)   -> SmulToRegister(d, x, y, n)
    [] isGpTemp(d) /\ ~isConst(x) /\ isConst(y)   -> SmulConst(d, x, y, n)
    [] isGpTemp(d) /\ ~isConst(x) /\ ~isConst(y)  -> SmulOperands(d, x, y, n)
    [] isMemTemp(d) /\ isGp(x) /\ isConst(y)      -> SmulMemConst(d, x, y, n)
    [] isMemTemp(d) /\ isGp(x) /\ ~isConst(y)     -> SmulInMemory(d, x, y, n)
    [] OTHER -> SmulUnfinished(d, x, y, n)

-----------------------------------------------------------------------------
\* XOR lists only the second operand as used; with a destination in memory it is
\* computed in one of the source operands

XorInto(d, s) == IF isConst(s) THEN Insn("xor", <<D, Imm(s.value)>>, <<d>>, <<>>) ELSE Plain("xor", d, s)

XorRegister(d, x, y) ==
  <<IF isConst(x) THEN MovImm(d, x.value) ELSE Mov(d, x)>> \o <<XorInto(d, y)>>
\* the skeleton that moves the first of two constants holds a stray marker
XorConsts(d, c, e) ==
  <<Insn("mov with stray marker", <<D, Imm(c.value)>>, <<d>>, <<>>), XorInto(d, e)>>

XorMemory(d, x, y) ==
  CASE isGp(x)             -> <<XorInto(x, y), Plain("mov", d, x)>>
    [] ~isGp(x) /\ isGp(y) -> <<XorInto(y, x), Plain("mov", d, y)>>
    [] OTHER               -> <<>>

SelectXor(d, x, y) ==
  IF isFp(d) \/ isConst(d) \/ isFp(x) \/ isFp(y) THEN Unhandled ELSE
  CASE isGp(d) /\ isConst(x) /\ isConst(y) -> XorConsts(d, x, y)
    [] isGp(d) /\ ~(isConst(x) /\ isConst(y)) -> XorRegister(d, x, y)
    [] OTHER -> XorMemory(d, x, y)

-----------------------------------------------------------------------------
\* Calls and returns

\* the registers the System V convention lets a function change, and the flags
CallerSaved == <<"rax", "rdi", "rsi", "rdx", "rcx", "r8", "r9", "r10", "r11", "xmm0", "xmm1",
                 "xmm2", "xmm3", "xmm4", "xmm5", "xmm6", "xmm7", "xmm8", "xmm9", "xmm10",
                 "xmm11", "xmm12", "xmm13", "xmm14", "xmm15", "rflags">>
SelectCall(f) ==
  IF isFp(f) THEN Unhandled ELSE
  <<Insn("call", <<Slot(f)>>, [k \in DOMAIN CallerSaved |-> Reg(CallerSaved[k], 8)], Used(f))>>
SelectReturn == <<Insn("ret", <<>>, <<>>, <<>>)>>

\* instructions whose case is a TODO: they are selected to nothing
UntranslatedArithmetic ==
  { "UMUL", "SDIV", "UDIV", "SMOD", "UMOD", "FADD", "FSUB", "FMUL", "FDIV", "FMOD", "NEG",
    "FNEG", "SLL", "SLR", "SAR", "AND" }
UntranslatedOrders ==
  { "OR", "NOT", "L", "LE", "E", "NE", "G", "GE", "A", "AE", "B", "BE" }
UntranslatedTests ==
  { "FL", "FLE", "FE", "FNE", "FG", "FGE", "Z", "NZ", "FZ", "FNZ", "LNOT", "SX", "ZX", "TRUNC",
    "U2F", "S2F", "FRESIZE", "F2I", "JUMP", "JUMPTABLE" }
UntranslatedJumps ==
  { "J1L", "J1LE", "J1E", "J1NE", "J1G", "J1GE", "J1A", "J1AE", "J1B", "J1BE", "J1FL", "J1FLE",
    "J1FE", "J1FNE", "J1FG", "J1FGE", "J1Z", "J1NZ", "J1FZ", "J1FNZ" }

Select(ir, n) ==
  LET a == ir.args IN
  CASE ir.op = "LABEL"        -> <<Insn("label", <<a[1].value>>, <<>>, <<>>)>>
    [] ir.op = "VOLATILE"     -> SelectVolatile(a[1])
    [] ir.op \in {"UNINITIALIZED", "NOP"} -> <<>>
    [] ir.op = "ADDROF"       -> SelectAddrof(a[1], a[2], n)
    [] ir.op = "MOVE"         -> SelectMove(a[1], a[2], n)
    [] ir.op = "MEM_STORE"    -> SelectMemStore(a[1], a[2], a[3], n)
    [] ir.op = "MEM_LOAD"     -> SelectMemLoad(a[1], a[2], a[3], n)
    [] ir.op = "STK_STORE"    -> SelectStkStore(a[1], a[2], n)
    [] ir.op = "STK_LOAD"     -> SelectStkLoad(a[1], a[2], n)
    [] ir.op = "OFFSET_STORE" -> SelectOffsetStore(a[1], a[2], a[3], n)
    [] ir.op = "OFFSET_LOAD"  -> SelectOffsetLoad(a[1], a[2], a[3], n)
    [] ir.op = "ADD"          -> SelectAdd(a[1], a[2], a[3], n)
    [] ir.op = "SUB"          -> SelectSub(a[1], a[2], a[3], n)
    [] ir.op = "SMUL"         -> SelectSmul(a[1], a[2], a[3], n)
    [] ir.op = "XOR"          -> SelectXor(a[1], a[2], a[3])
    [] ir.op = "CALL"         -> SelectCall(a[1])
    [] ir.op = "RETURN"       -> SelectReturn
    [] ir.op \in UntranslatedArithmetic \union UntranslatedOrders
                   \union UntranslatedTests \union UntranslatedJumps -> <<>>

=============================================================================
