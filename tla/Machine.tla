------------------------------- MODULE Machine -------------------------------
(***************************************************************************)
(* The part of an x86-64 processor and its assembler that the selected     *)
(* instructions rely on, as the Intel manual describes it: which forms of  *)
(* an instruction exist, and what each does to registers and memory.  A    *)
(* temporary in a register is a register of its own, one in memory has a   *)
(* place of its own.  A state is [regs, mem]: mem holds the bytes written  *)
(* so far, every other byte has an arbitrary, fixed value.                 *)
(***************************************************************************)
EXTENDS Select, Integers

-----------------------------------------------------------------------------
\* Words as sequences of bytes, the lowest first, with the arithmetic of the
\* target: modulo 2^(8 w) for words of w bytes.

Low(x, w) == [k \in 1..w |-> x[k]]
Zeros(w)  == [k \in 1..w |-> 0]
\* the low bytes of x replaced by y
Over(x, y) == [k \in DOMAIN x \union DOMAIN y |-> IF k \in DOMAIN y THEN y[k] ELSE x[k]]

SignExtend(x, w) ==
  x \o [k \in 1..(w - Len(x)) |-> IF x[Len(x)] >= 128 THEN 255 ELSE 0]

\* columns[k] summed with the carry of the columns below it
Carried(columns, carryIn) ==
  LET carry[k \in 0..Len(columns)] ==
        IF k = 0 THEN carryIn ELSE (columns[k] + carry[k - 1]) \div 256
  IN [k \in DOMAIN columns |-> (columns[k] + carry[k - 1]) % 256]

AddWords(x, y) == Carried([k \in DOMAIN x |-> x[k] + y[k]], 0)
SubWords(x, y) == Carried([k \in DOMAIN x |-> x[k] + (255 - y[k])], 1)
XorWords(x, y) ==
  LET bit(k, j) == IF (x[k] \div j) % 2 = (y[k] \div j) % 2 THEN 0 ELSE j
  IN [k \in DOMAIN x |-> bit(k, 1) + bit(k, 2) + bit(k, 4) + bit(k, 8)
                          + bit(k, 16) + bit(k, 32) + bit(k, 64) + bit(k, 128)]
MulWords(x, y) ==
  LET column[k \in DOMAIN x] ==
        LET sum[i \in 0..k] == IF i = 0 THEN 0 ELSE sum[i - 1] + x[i] * y[k + 1 - i] IN sum[k]
  IN Carried(column, 0)

Apply(f, x, y) ==
  CASE f = "add"  -> AddWords(x, y)
    [] f = "sub"  -> SubWords(x, y)
    [] f = "imul" -> MulWords(x, y)
    [] f = "xor"  -> XorWords(x, y)

\* an eight byte word that a sign-extended 32-bit immediate can hold
FitsImmediate(x) == SignExtend(Low(x, 4), 8) = Low(x, 8)

\* a word as a small natural number, for addresses and counts
Number(x) == x[1] + 256 * x[2]

-----------------------------------------------------------------------------
\* Memory, registers and instructions

StackBase == 8192
HeapBase  == 9216
FragBase  == 10240
TempBase(name) == 32 * name

Arbitrary(a) == (89 * a + 47) % 256
ByteAt(m, a) == IF a \in DOMAIN m.mem THEN m.mem[a] ELSE Arbitrary(a)
Bytes(m, a, w) == [k \in 1..w |-> ByteAt(m, a + k - 1)]
WriteAt(m, a, bytes) ==
  [m EXCEPT !.mem = [x \in DOMAIN m.mem \union a..(a + Len(bytes) - 1) |->
     IF x \in a..(a + Len(bytes) - 1) THEN bytes[x - a + 1] ELSE m.mem[x]]]

\* registers by name; a register temporary is told from a machine register
KeyOf(o) == IF o.kind = "REG" THEN <<o.name>> ELSE <<"temp", o.name>>
InRegister(o) == o.kind = "REG" \/ isGpTemp(o) \/ isFpTemp(o)
Defined(m, o) == ~InRegister(o) \/ KeyOf(o) \in DOMAIN m.regs

RegisterBytes(o) == IF isFp(o) THEN 16 ELSE 8
Held(m, o) == IF Defined(m, o) THEN m.regs[KeyOf(o)]
              ELSE [k \in 1..RegisterBytes(o) |-> Arbitrary(k + 300)]
\* four bytes clear the upper half of a general register, the others keep it
Put(m, o, bytes) ==
  LET new == IF isGp(o) /\ Len(bytes) = 4 THEN Over(Zeros(8), bytes) ELSE Over(Held(m, o), bytes) IN
  [m EXCEPT !.regs = [k \in DOMAIN m.regs \union {KeyOf(o)} |->
     IF k = KeyOf(o) THEN new ELSE m.regs[k]]]

-----------------------------------------------------------------------------
\* Printing: D and U take the operands of the lists in order.  A skeleton prints
\* at most one of its defined operands, and has at most three arguments.

\* how many of the used operands an argument takes
Takes(a) ==
  LET place(x) == IF x = U THEN 1 ELSE 0 IN
  IF a[1] = "mem" THEN place(a[3]) + place(a[4]) ELSE place(a)
\* how many the arguments before the k-th take
TakenBefore(i, k) ==
  LET taken(j) == IF j < k THEN Takes(i.args[j]) ELSE 0 IN taken(1) + taken(2)

Operand(list, k) == IF k \in DOMAIN list THEN <<"op", list[k]>> ELSE <<"missing">>

\* the arguments of i, with every mark replaced by its operand
Printed(i) == [k \in DOMAIN i.args |->
  LET a == i.args[k]
      u == TakenBefore(i, k) + 1
      part(x, j) == IF x = U THEN Operand(i.uses, j) ELSE x
  IN CASE a[1] = "d"   -> IF Len(a) = 2 THEN <<"op", i.defs[1], a[2]>> ELSE <<"op", i.defs[1]>>
       [] a[1] = "u"   -> Operand(i.uses, u)
       [] a[1] = "mem" -> <<"mem", a[2], part(a[3], u), part(a[4], IF a[3] = U THEN u + 1 ELSE u)>>
       [] OTHER        -> a]

-----------------------------------------------------------------------------
\* Encodable: the processor has the instruction

GpArg(a)  == a[1] = "reg" \/ (a[1] = "op" /\ isGp(a[2]))
FpArg(a)  == a[1] = "op" /\ isFp(a[2])
ImmArg(a) == a[1] \in {"imm", "infix"}
Part(a)   == \/ a[1] \in {"imm", "frag"}
             \/ GpArg(a) /\ (a[1] = "op" => a[2].size = 8)
MemArg(a) == \/ a[1] = "op" /\ (a[2].kind = "OFFSET" \/ isMemTemp(a[2]))
             \/ a[1] = "mem" /\ Part(a[3]) /\ Part(a[4])

\* 0: not known from this argument
SizeOf(a) == CASE a[1] = "op" /\ Len(a) = 3 -> a[3]
               [] a[1] = "op" /\ Len(a) = 2 /\ a[2].kind # "OFFSET" -> a[2].size
               [] a[1] = "reg" -> 8
               [] a[1] = "mem" -> a[2]
               [] OTHER -> 0
WidthOf(p) == LET sizes == {SizeOf(p[k]) : k \in DOMAIN p} \ {0} IN
              IF sizes = {} THEN 0 ELSE CHOOSE w \in sizes : \A v \in sizes : w >= v
OneSize(p) == \A j, k \in DOMAIN p : 0 \in {SizeOf(p[j]), SizeOf(p[k])} \/ SizeOf(p[j]) = SizeOf(p[k])

Narrow(a) == a[1] = "imm" => FitsImmediate(a[2])

Forms(op, p) ==
  CASE op = "mov" ->
         \/ GpArg(p[1]) /\ (GpArg(p[2]) \/ MemArg(p[2]) \/ ImmArg(p[2]))
         \/ MemArg(p[1]) /\ (GpArg(p[2]) \/ (ImmArg(p[2]) /\ (WidthOf(p) = 8 => Narrow(p[2]))))
    [] op = "lea" -> GpArg(p[1]) /\ (MemArg(p[2]) \/ p[2][1] = "frag")
    [] op \in {"add", "sub", "xor"} ->
         \/ GpArg(p[1]) /\ (GpArg(p[2]) \/ MemArg(p[2]) \/ (ImmArg(p[2]) /\ (WidthOf(p) = 8 => Narrow(p[2]))))
         \/ MemArg(p[1]) /\ (GpArg(p[2]) \/ (ImmArg(p[2]) /\ (WidthOf(p) = 8 => Narrow(p[2]))))
    [] op = "imul" ->
         /\ GpArg(p[1]) /\ (GpArg(p[2]) \/ MemArg(p[2])) /\ WidthOf(p) # 1
         /\ Len(p) = 3 => (ImmArg(p[3]) /\ (WidthOf(p) = 8 => Narrow(p[3])))
    [] op = "movsx" -> GpArg(p[1]) /\ (GpArg(p[2]) \/ MemArg(p[2])) /\ SizeOf(p[1]) = 2 /\ SizeOf(p[2]) = 1
    [] op \in {"movss", "movsd", "movdqu"} ->
         (FpArg(p[1]) /\ (FpArg(p[2]) \/ MemArg(p[2]))) \/ (MemArg(p[1]) /\ FpArg(p[2]))
    [] op \in {"movd", "movq"} ->
         (FpArg(p[1]) /\ (GpArg(p[2]) \/ MemArg(p[2]))) \/ ((GpArg(p[1]) \/ MemArg(p[1])) /\ FpArg(p[2]))
    [] op = "rep movs" -> TRUE
    [] OTHER -> FALSE

Encodable(i) ==
  /\ i.ends
  /\ Forms(i.op, Printed(i))
  /\ i.op \notin {"lea", "movsx"} => OneSize(Printed(i))

\* the floating point moves carry their width in their name; one of another width
\* than its operand reads or writes bytes that are not the operand's
Carries == [movss |-> 4, movd |-> 4, movsd |-> 8, movq |-> 8, movdqu |-> 16]
WidthAgrees(i) ==
  i.op \in DOMAIN Carries => \A k \in DOMAIN i.args : SizeOf(Printed(i)[k]) \in {0, Carries[i.op]}

-----------------------------------------------------------------------------
\* Execution

RegOf(a) == IF a[1] = "reg" THEN Reg(a[2], 8) ELSE a[2]

\* the value of what an address is made of
PartValue(m, a) ==
  CASE a[1] = "imm"  -> Low(a[2], 8)
    [] a[1] = "frag" -> Word(FragBase)
    [] OTHER         -> Held(m, RegOf(a))
AddressOf(m, a) ==
  CASE a[1] = "frag" -> FragBase
    [] a[1] = "mem"  -> Number(AddWords(PartValue(m, a[3]), PartValue(m, a[4])))
    [] a[1] = "op" /\ a[2].kind = "OFFSET" ->
         TempBase(a[2].base.name)
           + Number(IF isConst(a[2].offset) THEN a[2].offset.value ELSE Held(m, a[2].offset))
    [] OTHER -> TempBase(a[2].name)
Get(m, a, w) ==
  CASE a[1] = "imm"   -> Low(a[2], w)
    [] a[1] = "infix" -> Apply(a[2], Low(a[3], w), Low(a[4], w))
    [] a[1] = "frag"  -> Word(FragBase)
    [] GpArg(a) \/ FpArg(a) -> Low(Held(m, RegOf(a)), w)
    [] OTHER -> Bytes(m, AddressOf(m, a), w)

Set(m, a, bytes) ==
  IF GpArg(a) \/ FpArg(a) THEN Put(m, RegOf(a), bytes) ELSE WriteAt(m, AddressOf(m, a), bytes)

\* the operands an instruction reads, besides those its skeleton prints
Implicit(i) ==
  CASE i.op \in {"add", "sub", "xor"} \/ (i.op = "imul" /\ Len(i.args) = 2) -> {Printed(i)[1]}
    [] i.op = "rep movs" -> {<<"op", r>> : r \in {RSI, RDI, RCX}}
    [] OTHER -> {}
\* the register operands of one argument that are read to find an address or a value
InArgument(a) ==
  CASE a[1] = "mem" -> {a[k][2] : k \in {j \in {3, 4} : a[j][1] = "op"}}
    [] a[1] = "op" -> {IF a[2].kind = "OFFSET" THEN a[2].offset ELSE a[2]}
    [] OTHER -> {}
ReadBy(i) ==
  LET p == Printed(i) IN
  UNION ({InArgument(p[k]) : k \in DOMAIN p \ {1}} \union {InArgument(a) : a \in Implicit(i)}
           \union {IF p # <<>> /\ p[1][1] \in {"mem", "op"} /\ MemArg(p[1])
                   THEN {o \in InArgument(p[1]) : ~isMemTemp(o)} ELSE {}})

CopyString(m, w) ==
  LET source == Number(Held(m, RSI))  dest == Number(Held(m, RDI))
      count == w * Number(Held(m, RCX))
      copied == WriteAt(m, dest, Bytes(m, source, count))
  IN Put(Put(Put(copied, RSI, Word(source + count)), RDI, Word(dest + count)), RCX, Word(0))

Exec(m, i) ==
  LET p == Printed(i)  w == WidthOf(p) IN
  CASE i.op = "mov" -> Set(m, p[1], Get(m, p[2], w))
    [] i.op = "lea" -> Set(m, p[1], Word(AddressOf(m, p[2])))
    [] i.op \in {"add", "sub", "xor"} \/ (i.op = "imul" /\ Len(p) = 2) ->
         Set(m, p[1], Apply(i.op, Get(m, p[1], w), Get(m, p[2], w)))
    [] i.op = "imul" /\ Len(p) = 3 -> Set(m, p[1], MulWords(Get(m, p[2], w), Get(m, p[3], w)))
    [] i.op = "movsx" -> Set(m, p[1], SignExtend(Get(m, p[2], 1), 2))
    [] i.op \in {"movss", "movsd"} ->
         LET v == Get(m, p[2], IF i.op = "movsd" THEN 8 ELSE 4) IN
         Set(m, p[1], IF FpArg(p[1]) /\ MemArg(p[2]) THEN Over(Zeros(16), v) ELSE v)
    [] i.op \in {"movd", "movq"} ->
         LET v == Get(m, p[2], IF i.op = "movq" THEN 8 ELSE 4) IN
         Set(m, p[1], IF FpArg(p[1]) THEN Over(Zeros(16), v) ELSE v)
    [] i.op = "movdqu" -> Set(m, p[1], Get(m, p[2], 16))
    [] i.op = "rep movs" -> CopyString(m, p[1][2])

\* the fragments a sequence of instructions refers to are in memory when it runs
FragmentsOf(code) ==
  UNION {UNION {IF a[1] = "frag" THEN {a[2]}
                ELSE IF a[1] = "mem" /\ a[3][1] = "frag" THEN {a[3][2]} ELSE {}
                : a \in {code[k].args[j] : j \in DOMAIN code[k].args}} : k \in DOMAIN code}
WithFragments(m, code) ==
  IF FragmentsOf(code) = {} THEN m
  ELSE WriteAt(m, FragBase, CHOOSE v \in FragmentsOf(code) : TRUE)
=============================================================================
