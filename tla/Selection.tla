------------------------------ MODULE Selection ------------------------------
(***************************************************************************)
(* One IR instruction through instruction selection and the processor: the *)
(* code the selector emits for it is run, one machine instruction a step,  *)
(* and compared with what the IR instruction means (ir.h).                 *)
(***************************************************************************)
EXTENDS Machine

CONSTANTS Ops,          \* the IR operators considered
          GpSizes, FpSizes, MemSizes       \* sizes of operands of each class
ASSUME SizesAssumption == GpSizes \union FpSizes \union MemSizes \subseteq Nat

VARIABLES ir,           \* the instruction, chosen at the start
          code,         \* what it was selected to
          pc,           \* the next instruction of code
          start, now,   \* the machine before the code, and as it runs
          phase         \* "ir" | "running" | "done" | "rejected" | "stuck"
selVars == <<ir, code, pc, start, now, phase>>

-----------------------------------------------------------------------------
\* Instructions: every class of operand in every place, and, in arithmetic,
\* every way operands can be the same temporary

FirstFresh == 5

Small == <<5, 0, 0, 0, 0, 0, 0, 0>>
Minus == <<253, 255, 255, 255, 255, 255, 255, 255>>
Broad == [k \in 1..32 |-> 10 + 7 * k]
ConstantsOf(w) == {Const(v, w) : v \in IF w \in MovableSizes THEN {Small, Minus, Broad} ELSE {Broad}}

Gp(k)  == {Temp(k, w, "GP") : w \in GpSizes}
Fp(k)  == {Temp(k, w, "FP") : w \in FpSizes}
Mem(k) == {Temp(k, w, "MEM") : w \in MemSizes}
Destinations(k) == Gp(k) \union Fp(k) \union Mem(k)
                \union {Reg("rax", w) : w \in GpSizes} \union {Reg("xmm0", w) : w \in FpSizes}
Values(k)  == Gp(k) \union Fp(k) \union Mem(k) \union UNION {ConstantsOf(w) : w \in GpSizes \union MemSizes}
Either(k, n) == {Temp(k, 8, "GP"), Temp(k, 8, "MEM"), Const(Word(n), 8)}
Pointers(k)  == Either(k, HeapBase)
Offsets(k)   == Either(k, 8)

\* operands of w bytes of integer arithmetic; a name stands for one of them only
Integer(k, w) == {Temp(k, w, "GP"), Temp(k, w, "MEM")}
Integers3(w) ==
  LET results == Integer(1, w) \union {Reg("rbx", w)}
      first   == Integer(1, w) \union Integer(2, w) \union ConstantsOf(w)
      second  == first \union Integer(3, w)
  IN {t \in results \X first \X second :
        \A j, k \in 1..3 : t[j].kind = "TEMP" /\ t[k].kind = "TEMP" /\ t[j].name = t[k].name => t[j] = t[k]}

ArgumentsOf(op) ==
  CASE op = "MOVE"         -> {t \in Destinations(1) \X Values(2) : t[1].size = t[2].size}
    [] op = "ADDROF"       -> {Temp(1, 8, "GP"), Temp(1, 8, "MEM")} \X Mem(2)
    [] op = "MEM_STORE"    -> Pointers(1) \X Values(2) \X Offsets(3)
    [] op = "MEM_LOAD"     -> Destinations(1) \X Pointers(2) \X Offsets(3)
    [] op = "STK_STORE"    -> Offsets(1) \X Values(2)
    [] op = "STK_LOAD"     -> Destinations(1) \X Offsets(2)
    [] op = "OFFSET_STORE" -> {Temp(1, 32, "MEM")} \X Values(2) \X Offsets(3)
    [] op = "OFFSET_LOAD"  -> Destinations(1) \X {Temp(2, 32, "MEM")} \X Offsets(3)
    [] op \in {"ADD", "SUB", "SMUL", "XOR"} -> UNION {Integers3(w) : w \in GpSizes}
    [] OTHER -> {}

Instructions == UNION {{[op |-> op, args |-> a] : a \in ArgumentsOf(op)} : op \in Ops}

\* which arguments are an address to go through, and an offset
PointerArgument(op) == CASE op = "MEM_STORE" -> {1} [] op = "MEM_LOAD" -> {2} [] OTHER -> {}
OffsetArgument(op)  == CASE op \in {"MEM_STORE", "MEM_LOAD", "OFFSET_STORE", "OFFSET_LOAD"} -> {3}
                         [] op = "STK_STORE" -> {1} [] op = "STK_LOAD" -> {2} [] OTHER -> {}

\* a machine in which every operand has a value of its own
InitialValue(i, k, o) ==
  IF k \in PointerArgument(i.op) THEN Word(HeapBase)
  ELSE IF k \in OffsetArgument(i.op) THEN Word(8)
  ELSE [j \in 1..RegisterBytes(o) |-> (23 * j + 71 * (IF o.kind = "TEMP" THEN o.name ELSE 9)) % 256]

WithOperand(m, i, k) ==
  LET o == i.args[k] IN
  CASE isConst(o)    -> m
    [] InRegister(o) -> Put(m, o, InitialValue(i, k, o))
    [] OTHER -> IF k \in PointerArgument(i.op) \union OffsetArgument(i.op)
                THEN WriteAt(m, TempBase(o.name), InitialValue(i, k, o)) ELSE m
Initially(i) ==
  LET with(m, k) == IF k \in DOMAIN i.args THEN WithOperand(m, i, k) ELSE m
      bare == [regs |-> [r \in {<<"rsp">>, <<"rbp">>} |-> IF r = <<"rsp">> THEN Word(StackBase) ELSE Word(77)],
               mem  |-> <<>>]
  IN with(with(with(bare, 1), 2), 3)

-----------------------------------------------------------------------------
\* What an IR instruction means (ir.h)

ValueOf(m, o) == IF isConst(o) THEN Low(o.value, o.size) ELSE Get(m, <<"op", o>>, o.size)
Meaning(i, m) ==
  LET a == i.args
      Assign(o, v) == Set(m, <<"op", o>>, v)
      Plus(o, p)   == Number(AddWords(ValueOf(m, o), ValueOf(m, p)))
  IN CASE i.op = "MOVE"      -> Assign(a[1], ValueOf(m, a[2]))
       [] i.op = "ADDROF"    -> Assign(a[1], Word(TempBase(a[2].name)))
       [] i.op = "MEM_STORE" -> WriteAt(m, Plus(a[1], a[3]), ValueOf(m, a[2]))
       [] i.op = "MEM_LOAD"  -> Assign(a[1], Bytes(m, Plus(a[2], a[3]), a[1].size))
       [] i.op = "STK_STORE" -> WriteAt(m, Plus(RSP, a[1]), ValueOf(m, a[2]))
       [] i.op = "STK_LOAD"  -> Assign(a[1], Bytes(m, Plus(RSP, a[2]), a[1].size))
       [] i.op = "OFFSET_STORE" -> WriteAt(m, TempBase(a[1].name) + Number(ValueOf(m, a[3])), ValueOf(m, a[2]))
       [] i.op = "OFFSET_LOAD" ->
            Assign(a[1], Bytes(m, TempBase(a[2].name) + Number(ValueOf(m, a[3])), a[1].size))
       [] OTHER ->
            Assign(a[1], Apply([ADD |-> "add", SUB |-> "sub", SMUL |-> "imul", XOR |-> "xor"][i.op],
                               ValueOf(m, a[2]), ValueOf(m, a[3])))

\* the registers the code says it changes
Clobbered(c) == UNION {{KeyOf(o) : o \in {o \in {c[k].defs[j] : j \in DOMAIN c[k].defs} :
                                            o.kind # "OFFSET" /\ InRegister(o)}} : k \in DOMAIN c}
Result(i) == IF i.op \in {"MEM_STORE", "STK_STORE", "OFFSET_STORE"} THEN {} ELSE {i.args[1]}
\* m is what i makes of m0, except for scratch registers
Means(i, m0, m, scratch) ==
  LET right == Meaning(i, m0) IN
  /\ \A a \in DOMAIN right.mem \union DOMAIN m.mem : ByteAt(m, a) = ByteAt(right, a)
  /\ \A o \in Result(i) : InRegister(o) => Low(Held(m, o), o.size) = Low(Held(right, o), o.size)
  /\ \A r \in DOMAIN m0.regs \ (scratch \union {KeyOf(o) : o \in {o \in Result(i) : InRegister(o)}}) :
       m.regs[r] = right.regs[r]
  /\ \A k \in DOMAIN i.args : LET o == i.args[k] IN
       (~isConst(o) /\ InRegister(o) /\ (Result(i) # {} => KeyOf(o) # KeyOf(i.args[1]))) => Held(m, o) = Held(m0, o)
-----------------------------------------------------------------------------
SelInit ==
  /\ ir \in Instructions
  /\ code = <<>> /\ pc = 1 /\ phase = "ir"
  /\ start = Initially(ir) /\ now = Initially(ir)

\* the backend selects the instruction; only code the assembler accepts goes on
SelectCode ==
  /\ phase = "ir"
  /\ code' = Select(ir, FirstFresh)
  /\ phase' = IF \A k \in DOMAIN code' : Encodable(code'[k]) THEN "running" ELSE "rejected"
  /\ start' = WithFragments(start, code') /\ now' = start'
  /\ UNCHANGED <<ir, pc>>

Execute ==
  /\ phase = "running" /\ pc <= Len(code)
  /\ IF \A o \in ReadBy(code[pc]) : Defined(now, o)
     THEN now' = Exec(now, code[pc]) /\ pc' = pc + 1 /\ phase' = phase
     ELSE phase' = "stuck" /\ UNCHANGED <<now, pc>>
  /\ UNCHANGED <<ir, code, start>>

Finish ==
  /\ phase = "running" /\ pc > Len(code)
  /\ phase' = "done" /\ UNCHANGED <<ir, code, pc, start, now>>

SelNext == SelectCode \/ Execute \/ Finish
SelSpec == SelInit /\ [][SelNext]_selVars /\ WF_selVars(SelNext)

-----------------------------------------------------------------------------
\* Where the code is known not to do what the IR instruction means.  Each name
\* is an arm of the selector; the properties say there are no others.

TooLong(o)     == isConst(o) /\ o.size = 8 /\ ~FitsImmediate(o.value)
\* a constant of eight bytes is printed where the processor takes four
ImmediateTooWide(op, a) ==
  CASE op = "MOVE"      -> isMemTemp(a[1]) /\ TooLong(a[2])
    [] op \in {"MEM_STORE", "STK_STORE", "OFFSET_STORE"} -> TooLong(a[2])
    [] op \in {"ADD", "SUB"} ->
         \/ (TooLong(a[3]) /\ ~isConst(a[2]))
         \/ (TooLong(a[2]) /\ ~isConst(a[3]) /\ isMemTemp(a[1]))
    [] op = "XOR" ->
         \/ (TooLong(a[3]) /\ ~(isMemTemp(a[1]) /\ ~isGp(a[2])))
         \/ (TooLong(a[2]) /\ isMemTemp(a[1]) /\ isGp(a[3]))
    [] OTHER -> FALSE
\* the address goes through floating point patches, or is used where it lies
AddressNotLoaded(op, a) ==
  op = "MEM_STORE" /\ isMemTemp(a[1]) /\ (isFp(a[2]) \/ (isConst(a[2]) /\ isConst(a[3])))
\* sixteen bytes are moved by mov
SixteenByMov(op, a) ==
  /\ (op = "MEM_STORE" /\ isMemTemp(a[1])) \/ op = "STK_STORE"
  /\ isMemTemp(a[2]) /\ a[2].size = 16
\* two instructions on one line
MissingNewline(op, a) ==
  \/ op = "MEM_LOAD" /\ isGp(a[1]) /\ isGp(a[2]) /\ isMemTemp(a[3])
  \/ op = "STK_LOAD" /\ isMemTemp(a[1]) /\ a[1].size \in MovableSizes \union {16}
\* a skeleton prints an operand its lists do not hold
MissingOperand(op, a) ==
  /\ op = "MEM_LOAD" /\ isMemTemp(a[1])
  /\ \/ isMemTemp(a[2]) /\ isGp(a[3]) /\ a[1].size \in MovableSizes
     \/ isGp(a[2]) /\ isMemTemp(a[3]) /\ a[1].size \notin MovableSizes
InternalError(op, a) ==
  op = "MEM_STORE" /\ isConst(a[1]) /\ isConst(a[3]) /\ isMemTemp(a[2]) /\ a[2].size \notin MovableSizes \union {16}
FromConstant(op, a)  == op = "SUB" /\ isConst(a[2]) /\ ~isConst(a[3])
StrayMarker(op, a)   == op = "XOR" /\ isGp(a[1]) /\ isConst(a[2]) /\ isConst(a[3])
ByteProduct(op, a)   == op = "SMUL" /\ isGpTemp(a[1]) /\ a[1].size = 1 /\ ~isConst(a[2]) /\ ~isConst(a[3])

Unencodable(op, a) ==
  \/ ImmediateTooWide(op, a) \/ AddressNotLoaded(op, a) \/ SixteenByMov(op, a)
  \/ MissingNewline(op, a) \/ MissingOperand(op, a) \/ InternalError(op, a)
  \/ FromConstant(op, a) \/ StrayMarker(op, a) \/ ByteProduct(op, a)

Arithmetic == {"ADD", "SUB", "SMUL", "XOR"}
\* the first operand is moved to the destination before the second is read
SecondOverwritten(op, a) ==
  /\ op \in Arithmetic /\ isGpTemp(a[1]) /\ a[3] = a[1] /\ a[2] # a[1]
  /\ (op = "SMUL" /\ isConst(a[2])) => a[1].size = 8
\* eight bytes times a constant: the constant is squared
ConstantSquared(op, a) ==
  op = "SMUL" /\ isGp(a[1]) /\ a[1].size = 8 /\ ~isConst(a[2]) /\ isConst(a[3])
\* products and exclusive ors to memory that are not computed, or computed in a source
Unfinished(op, a) ==
  \/ op = "SMUL" /\ isMemTemp(a[1]) /\ ~isGp(a[2])
  \/ op = "XOR" /\ isMemTemp(a[1])
DroppedStore(op, a) == op = "STK_STORE" /\ isConst(a[1]) /\ isFp(a[2])

Wrong(op, a) ==
  SecondOverwritten(op, a) \/ ConstantSquared(op, a) \/ Unfinished(op, a) \/ DroppedStore(op, a)

-----------------------------------------------------------------------------
\* Selected code does what the IR instruction means, all of it and nothing else:
\* the right bytes reach the destination, and no operand, register or byte of
\* memory besides it and the registers the code lists as defined is changed.
\* This fails in the arms named by Wrong, and only there.
CodeMeansInstruction ==
  phase = "done" => (Means(ir, start, now, Clobbered(code)) <=> ~Wrong(ir.op, ir.args))

\* Every selected instruction exists on the processor, with operands it can take
\* and no more of them than its lists hold, except in the arms of Unencodable.
AssemblerAccepts ==
  phase # "ir" => (phase = "rejected" <=> Unencodable(ir.op, ir.args))

\* the operands instruction i lists as used, and those its offsets are made of
Listed(i) ==
  LET uses == {i.uses[j] : j \in DOMAIN i.uses}
      inside == {o \in uses \union {i.defs[j] : j \in DOMAIN i.defs} : o.kind = "OFFSET"}
  IN uses \union UNION {{o.base, o.offset} : o \in inside}

\* An instruction lists every register it reads as used, so that a register
\* allocator would not give away a value that is still needed; it is only XOR
\* whose two-operand form does not list the operand it changes. Nothing reads a
\* patch temporary before it was given a value, and what is read and written is
\* as wide as the operand, except where a four byte floating point load reads
\* eight.
ReadsListed ==
  /\ phase = "running" =>
       \A k \in DOMAIN code :
         ReadBy(code[k]) \subseteq Listed(code[k]) \union {RSP} \/ code[k].op = "xor"
  /\ phase # "stuck"
  /\ phase = "done" =>
       ((\A k \in DOMAIN code : WidthAgrees(code[k])) <=>
          ~(ir.op = "MEM_LOAD" /\ isFp(ir.args[1]) /\ ir.args[1].size = 4))

\* An instruction changes no register that it does not list as defined.
WritesListed ==
  pc' # pc => \A r \in DOMAIN now'.regs :
    (r \in DOMAIN now.regs => now'.regs[r] # now.regs[r]) => r \in Clobbered(<<code[pc]>>)

\* An instruction marked as a move only copies: afterwards the operands of its
\* move pair hold the same bytes, so that they may share a place. Two kinds are
\* marked and do not: the sign extension of a byte before it is multiplied, and
\* the copy of a value in memory to or from a part of a larger one.
Mismarked(i) == i.op = "movsx" \/ (i.op = "rep movs" /\ ir.op \in {"OFFSET_STORE", "OFFSET_LOAD"})
MovesCopy ==
  (pc' # pc /\ code[pc].move # <<>> /\ ~Mismarked(code[pc])) =>
    LET to == code[pc].move[1]  from == code[pc].move[2] IN
    Get(now', <<"op", to>>, to.size) = Get(now', <<"op", from>>, to.size)

\* What the lists of an instruction tell a register allocator is true: it may go by
\* them when it gives registers away and when it leaves out moves (asm.c:491).
AllocatorTold == [][ReadsListed /\ ReadsListed' /\ WritesListed /\ MovesCopy]_selVars
=============================================================================
