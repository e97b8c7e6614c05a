--------------------------- MODULE AllocatorProofs ---------------------------
(***************************************************************************)
(* Selected code tells a register allocator the truth: AllocatorTold for   *)
(* operands of every size.                                                 *)
(***************************************************************************)
EXTENDS BackendProofs

-----------------------------------------------------------------------------
\* What one selected instruction tells the register allocator

\* a register operand is among those that have a value
HasValue(o, keys) == InRegister(o) => KeyOf(o) \in keys
\* the registers an instruction lists as defined
Gives(x) == {KeyOf(o) : o \in {o \in ToSet(x.defs) : InRegister(o)}}

\* an argument that is a mark of a used operand, or no mark at all
Reading(a) == a[1] \notin {"op", "d"} /\ (a[1] = "mem" => a[3][1] # "op" /\ a[4][1] # "op")
\* what the first argument is, and that the list of defined operands is about it
Defining(x) ==
  \/ x.args[1][1] = "d" /\ 1 \in DOMAIN x.defs /\ (\A j \in DOMAIN x.defs : j # 1 => ~InRegister(x.defs[j]))
  \/ \E r : r.kind = "REG" /\ x.args[1] = Lit(r.name) /\ Gives(x) = {KeyOf(r)}
  \/ x.args[1][1] = "mem" /\ Reading(x.args[1]) /\ x.defs = <<>>
\* the operand that two-operand arithmetic changes is listed as used, except by xor
Updating(x) ==
  x.op \in {"add", "sub", "xor", "imul"} =>
    /\ x.args[1][1] = "d"
    /\ x.op = "xor" \/ (x.op = "imul" /\ DOMAIN x.args = 1..3) \/ x.defs[1] \in ToSet(x.uses)
Shaped(x) ==
  \/ x.op \in {"error", "undefined", "mov with stray marker"}
  \/ /\ x.op = "rep movs" /\ DOMAIN x.args = 1..1 /\ x.args[1][1] = "width"
     /\ {RSI, RDI, RCX} \subseteq ToSet(x.uses)
     /\ Gives(x) = {KeyOf(RSI), KeyOf(RDI), KeyOf(RCX)}
  \/ /\ x.op # "rep movs" /\ DOMAIN x.args \in {1..2, 1..3}
     /\ \A k \in DOMAIN x.args : k # 1 => Reading(x.args[k])
     /\ Defining(x) /\ Updating(x)

\* an instruction marked as a move that only copies one operand to another
Twins(to, from) ==
  /\ to.kind # "OFFSET" /\ from.kind # "OFFSET" /\ to.size = from.size /\ to.size \in Nat
  /\ isMemTemp(to) => to.name \in Nat
Copying(x) ==
  \E to, from : /\ x = Copy(x.op, to, from) /\ Twins(to, from)
                /\ x.op = "mov" \/ (x.op \in DOMAIN Carries /\ to.size = Carries[x.op])

\* what holds of an instruction that runs when the registers in keys have a value; the
\* promises: "width", it has the width of its operands; "copies", all it is marked for is a copy
Runs(x, keys, promises) ==
  /\ Shaped(x)
  /\ \A o \in Listed(x) : HasValue(o, keys)
  /\ x.op = "xor" => HasValue(x.defs[1], keys)
  /\ "width" \in promises => WidthAgrees(x)
Fine(x, keys, promises) ==
  /\ Runs(x, keys, promises)
  /\ x.move = <<>> \/ x.op = "movsx" \/ ("copies" \notin promises /\ x.op = "rep movs") \/ Copying(x)

\* What runs when more registers have a value runs too.
LEMMA FineMore ==
  ASSUME NEW x, NEW K, NEW L, NEW P, Fine(x, K, P), K \subseteq L
  PROVE  Fine(x, L, P)
BY DEF Fine, Runs, HasValue

\* An operand that an instruction lists as defined has a value behind it.
LEMMA Given ==
  ASSUME NEW x, NEW K, NEW o \in ToSet(x.defs)
  PROVE  HasValue(o, K \union Gives(x))
BY DEF HasValue, Gives

\* An operand that is printed as it is: its register, or the one in its offset.
LEMMA InOperand ==
  ASSUME NEW a, a[1] = "op"
  PROVE  InArgument(a) = IF a[2].kind = "OFFSET" THEN {a[2].offset} ELSE {a[2]}
BY DEF InArgument

\* What an instruction reads it lists as used, but for what xor changes.
LEMMA ReadsFacts ==
  ASSUME NEW x, Shaped(x), Encodable(x)
  PROVE  \A o \in ReadBy(x) : \/ o \in Listed(x)
                              \/ x.op = "xor" /\ o = x.defs[1]
<1> DEFINE p == Printed(x)
           listed == Listed(x)
<1>1. x.op \notin {"error", "undefined", "mov with stray marker"}
  BY DEF Encodable, Forms
<1>2. CASE x.op = "rep movs"
  <2>1. DOMAIN x.args = 1..1 /\ x.args[1][1] = "width" /\ {RSI, RDI, RCX} \subseteq ToSet(x.uses)
    BY <1>2 DEF Shaped
  <2>2. DOMAIN p = 1..1
    BY <2>1 DEF Printed
  <2>3. \A r : InArgument(<<"op", r>>) = IF r.kind = "OFFSET" THEN {r.offset} ELSE {r}
    BY InOperand
  <2>4. RSI.kind # "OFFSET" /\ RDI.kind # "OFFSET" /\ RCX.kind # "OFFSET"
    BY DEF RSI, RDI, RCX, Reg
  <2>5. Implicit(x) = {<<"op", RSI>>, <<"op", RDI>>, <<"op", RCX>>}
    BY <1>2 DEF Implicit
  <2>6. \A a \in Implicit(x) : InArgument(a) \subseteq {RSI, RDI, RCX}
    <3>1. InArgument(<<"op", RSI>>) = {RSI} /\ InArgument(<<"op", RDI>>) = {RDI} /\ InArgument(<<"op", RCX>>) = {RCX}
      BY <2>3, <2>4
    <3> QED
      BY <2>5, <3>1
  <2>a. p[1][1] = "width"
    BY <2>1 DEF Printed
  <2>b. ReadBy(x) = UNION ({InArgument(p[k]) : k \in DOMAIN p \ {1}} \union {InArgument(a) : a \in Implicit(x)}
                              \union {IF p # <<>> /\ p[1][1] \in {"mem", "op"} /\ MemArg(p[1])
                                      THEN {o \in InArgument(p[1]) : ~isMemTemp(o)} ELSE {}})
    BY DEF ReadBy
  <2> HIDE DEF p
  <2>7. \A o \in ReadBy(x) : o \in {RSI, RDI, RCX}
    BY <2>2, <2>6, <2>a, <2>b
  <2> QED
    BY <2>1, <2>7 DEF Listed, ToSet
<1>3. CASE x.op # "rep movs"
  <2>1. /\ DOMAIN x.args \in {1..2, 1..3} /\ Defining(x) /\ Updating(x)
        /\ \A k \in DOMAIN x.args : k # 1 => Reading(x.args[k])
    BY <1>1, <1>3 DEF Shaped
  <2>2. DOMAIN p = DOMAIN x.args
    BY DEF Printed
  <2>3. \A o : o \in ToSet(x.uses) => o \in listed /\ (o.kind = "OFFSET" => o.offset \in listed)
    BY DEF Listed, ToSet
  <2>4. \A o : o \in ToSet(x.defs) /\ o.kind = "OFFSET" => o.offset \in listed
    BY DEF Listed, ToSet
  <2>5. \A j : LET a == Operand(x.uses, j) IN
               (a[1] = "op" => a[2] \in listed) /\ InArgument(a) \subseteq listed
    <3> SUFFICES ASSUME NEW j
                 PROVE  LET a == Operand(x.uses, j) IN
                        (a[1] = "op" => a[2] \in listed) /\ InArgument(a) \subseteq listed
      OBVIOUS
    <3>1. CASE j \in DOMAIN x.uses
      <4>1. x.uses[j] \in ToSet(x.uses)
        BY <3>1 DEF ToSet
      <4>2. Operand(x.uses, j) = <<"op", x.uses[j]>>
        BY <3>1 DEF Operand
      <4> QED
        BY <4>1, <4>2, <2>3 DEF InArgument
    <3>2. CASE j \notin DOMAIN x.uses
      <4>1. Operand(x.uses, j) = <<"missing">>
        BY <3>2 DEF Operand
      <4> QED
        BY <4>1 DEF InArgument
    <3> QED
      BY <3>1, <3>2
  <2> HIDE DEF listed
  <2>6. \A k \in DOMAIN x.args : Reading(x.args[k]) => InArgument(p[k]) \subseteq listed
    <3> SUFFICES ASSUME NEW k \in DOMAIN x.args, Reading(x.args[k])
                 PROVE  InArgument(p[k]) \subseteq listed
      OBVIOUS
    <3> DEFINE a == x.args[k]  u == TakenBefore(x, k) + 1  part(y, j) == IF y = U THEN Operand(x.uses, j) ELSE y
    <3>1. a[1] \notin {"op", "d"} /\ (a[1] = "mem" => a[3][1] # "op" /\ a[4][1] # "op")
      BY DEF Reading
    <3>2. p[k] = CASE a[1] = "d"   -> IF Len(a) = 2 THEN <<"op", x.defs[1], a[2]>> ELSE <<"op", x.defs[1]>>
                   [] a[1] = "u"   -> Operand(x.uses, u)
                   [] a[1] = "mem" -> <<"mem", a[2], part(a[3], u), part(a[4], IF a[3] = U THEN u + 1 ELSE u)>>
                   [] OTHER        -> a
      BY DEF Printed
    <3> HIDE DEF u
    <3>3. CASE a[1] = "u"
      <4>1. p[k] = Operand(x.uses, u)
        BY <3>2, <3>3
      <4> QED
        BY <4>1, <2>5
    <3>4. CASE a[1] = "mem"
      <4> DEFINE v == part(a[3], u)  z == part(a[4], IF a[3] = U THEN u + 1 ELSE u)
      <4>1. p[k] = <<"mem", a[2], v, z>>
        BY <3>2, <3>4
      <4>2. (v[1] = "op" => v[2] \in listed) /\ (z[1] = "op" => z[2] \in listed)
        BY <3>1, <3>4, <2>5
      <4> HIDE DEF v, z
      <4>3. InArgument(p[k]) = {p[k][j][2] : j \in {j \in {3, 4} : p[k][j][1] = "op"}}
        BY <4>1 DEF InArgument
      <4>4. p[k][3] = v /\ p[k][4] = z
        BY <4>1
      <4> QED
        BY <4>2, <4>3, <4>4
    <3>5. CASE a[1] \notin {"u", "mem"}
      <4>1. p[k] = a
        BY <3>1, <3>2, <3>5
      <4> QED
        BY <3>1, <3>5, <4>1 DEF InArgument
    <3> QED
      BY <3>3, <3>4, <3>5
  <2>7. x.args[1][1] = "d" =>
          /\ InArgument(p[1]) = IF x.defs[1].kind = "OFFSET" THEN {x.defs[1].offset} ELSE {x.defs[1]}
          /\ p[1][1] = "op" /\ p[1][2] = x.defs[1]
    <3> SUFFICES ASSUME x.args[1][1] = "d"
                 PROVE  /\ InArgument(p[1]) = IF x.defs[1].kind = "OFFSET" THEN {x.defs[1].offset} ELSE {x.defs[1]}
                        /\ p[1][1] = "op" /\ p[1][2] = x.defs[1]
      OBVIOUS
    <3>1. 1 \in DOMAIN x.args
      BY <2>1
    <3>2. p[1] \in {<<"op", x.defs[1], x.args[1][2]>>, <<"op", x.defs[1]>>}
      BY <3>1 DEF Printed
    <3> HIDE DEF p
    <3>3. p[1][1] = "op" /\ p[1][2] = x.defs[1]
      BY <3>2
    <3> QED
      BY <3>3, InOperand
  <2>8. p # <<>> /\ 1 \in DOMAIN x.args
    BY <2>1, <2>2
  <2>9. x.args[1][1] = "d" => x.defs[1] \in ToSet(x.defs)
    BY <2>1, Skeletons DEF Defining, ToSet
  <2>10. ASSUME NEW o \in InArgument(p[1]), MemArg(p[1]), ~isMemTemp(o), p[1][1] \in {"mem", "op"}
         PROVE  o \in listed
    <3>1. CASE x.args[1][1] = "d"
      <4>1. x.defs[1].kind = "OFFSET" \/ isMemTemp(x.defs[1])
        BY <3>1, <2>7, <2>10 DEF MemArg
      <4> QED
        BY <4>1, <3>1, <2>4, <2>7, <2>9, <2>10
    <3>2. CASE x.args[1][1] = "mem"
      <4>1. Reading(x.args[1])
        BY <3>2, <2>1, Skeletons DEF Defining
      <4> QED
        BY <4>1, <2>6, <2>8, <2>10
    <3>3. CASE x.args[1][1] \notin {"d", "mem"}
      <4>1. x.args[1][1] = "reg"
        BY <3>3, <2>1, Skeletons DEF Defining
      <4>2. p[1] = x.args[1]
        BY <4>1, <2>8 DEF Printed
      <4> QED
        BY <4>1, <4>2, <2>10
    <3> QED
      BY <3>1, <3>2, <3>3
  <2>11. ASSUME NEW a \in Implicit(x), NEW o \in InArgument(a)
         PROVE  o \in listed \/ (x.op = "xor" /\ o = x.defs[1])
    <3>1. a = p[1] /\ x.op \in {"add", "sub", "xor", "imul"} /\ (x.op = "imul" => Len(x.args) = 2)
      BY <1>3, <2>11 DEF Implicit
    <3>2. x.args[1][1] = "d"
      BY <3>1, <2>1 DEF Updating
    <3>3. DOMAIN x.args = 1..3 => Len(x.args) = 3
      OBVIOUS
    <3>4. x.op = "xor" \/ x.defs[1] \in ToSet(x.uses)
      BY <3>1, <3>3, <2>1 DEF Updating
    <3>5. o = x.defs[1] \/ (x.defs[1].kind = "OFFSET" /\ o = x.defs[1].offset)
      BY <3>1, <3>2, <2>7, <2>11
    <3> QED
      BY <3>2, <3>4, <3>5, <2>3, <2>4, <2>9
  <2>12. ReadBy(x) = UNION ({InArgument(p[k]) : k \in DOMAIN p \ {1}} \union {InArgument(a) : a \in Implicit(x)}
                              \union {IF p # <<>> /\ p[1][1] \in {"mem", "op"} /\ MemArg(p[1])
                                      THEN {o \in InArgument(p[1]) : ~isMemTemp(o)} ELSE {}})
    BY DEF ReadBy
  <2> HIDE DEF p
  <2>13. ASSUME NEW o \in ReadBy(x)
         PROVE  o \in listed \/ (x.op = "xor" /\ o = x.defs[1])
    <3>1. \/ \E k \in DOMAIN p \ {1} : o \in InArgument(p[k])
          \/ \E a \in Implicit(x) : o \in InArgument(a)
          \/ p[1][1] \in {"mem", "op"} /\ MemArg(p[1]) /\ o \in InArgument(p[1]) /\ ~isMemTemp(o)
      BY <2>12, <2>13
    <3>2. CASE \E k \in DOMAIN p \ {1} : o \in InArgument(p[k])
      BY <3>2, <2>1, <2>2, <2>6
    <3> QED
      BY <3>1, <3>2, <2>10, <2>11
  <2> QED
    BY <2>13 DEF listed
<1> QED
  BY <1>2, <1>3
-----------------------------------------------------------------------------
\* What one instruction does to the registers

IsMachine(m) == m = [regs |-> m.regs, mem |-> m.mem]

\* Writing a register gives it a value and leaves the others and memory alone.
LEMMA PutFacts ==
  ASSUME NEW m, IsMachine(m), NEW o, NEW bytes
  PROVE  LET q == Put(m, o, bytes) IN
         /\ IsMachine(q) /\ q.mem = m.mem
         /\ DOMAIN q.regs = DOMAIN m.regs \union {KeyOf(o)}
         /\ \A r \in DOMAIN m.regs : r # KeyOf(o) => q.regs[r] = m.regs[r]
         /\ q.regs[KeyOf(o)] = IF isGp(o) /\ Len(bytes) = 4 THEN Over(Zeros(8), bytes) ELSE Over(Held(m, o), bytes)
<1> DEFINE new == IF isGp(o) /\ Len(bytes) = 4 THEN Over(Zeros(8), bytes) ELSE Over(Held(m, o), bytes)
           regs == [k \in DOMAIN m.regs \union {KeyOf(o)} |-> IF k = KeyOf(o) THEN new ELSE m.regs[k]]
<1>1. Put(m, o, bytes) = [m EXCEPT !.regs = regs]
  BY DEF Put
<1>2. \A k \in DOMAIN m.regs \union {KeyOf(o)} : regs[k] = IF k = KeyOf(o) THEN new ELSE m.regs[k]
  OBVIOUS
<1>3. DOMAIN regs = DOMAIN m.regs \union {KeyOf(o)}
  OBVIOUS
<1> HIDE DEF new, regs
<1>4. Put(m, o, bytes) = [regs |-> regs, mem |-> m.mem]
  BY <1>1 DEF IsMachine
<1> QED
  BY <1>2, <1>3, <1>4 DEF IsMachine, new

\* Writing memory leaves the registers alone.
LEMMA WriteKeeps ==
  ASSUME NEW m, IsMachine(m), NEW a, NEW bytes
  PROVE  IsMachine(WriteAt(m, a, bytes)) /\ WriteAt(m, a, bytes).regs = m.regs
<1> DEFINE mem == [x \in DOMAIN m.mem \union a..(a + Len(bytes) - 1) |->
                       IF x \in a..(a + Len(bytes) - 1) THEN bytes[x - a + 1] ELSE m.mem[x]]
<1>1. WriteAt(m, a, bytes) = [m EXCEPT !.mem = mem]
  BY DEF WriteAt
<1> HIDE DEF mem
<1>2. WriteAt(m, a, bytes) = [regs |-> m.regs, mem |-> mem]
  BY <1>1 DEF IsMachine
<1> QED
  BY <1>2 DEF IsMachine

\* q is m but for the registers in keys, which have a value in q, and for memory
Changes(m, q, keys) ==
  /\ IsMachine(q) /\ DOMAIN q.regs = DOMAIN m.regs \union keys
  /\ \A r \in DOMAIN m.regs \ keys : q.regs[r] = m.regs[r]

\* The two ways to write, as changes.
LEMMA WriteChanges ==
  ASSUME NEW m, IsMachine(m), NEW o, NEW a, NEW bytes
  PROVE  Changes(m, Put(m, o, bytes), {KeyOf(o)}) /\ Changes(m, WriteAt(m, a, bytes), {})
<1>1. Changes(m, Put(m, o, bytes), {KeyOf(o)})
  BY PutFacts DEF Changes
<1> DEFINE q == WriteAt(m, a, bytes)
<1>2. IsMachine(q) /\ q.regs = m.regs
  BY WriteKeeps
<1> HIDE DEF q
<1>3. Changes(m, q, {})
  BY <1>2 DEF Changes
<1> QED
  BY <1>1, <1>3 DEF q

\* The length of a list is its last place.
LEMMA Lengths ==
  ASSUME NEW s, NEW n \in Nat, DOMAIN s = 1..n
  PROVE  Len(s) = n
OBVIOUS

\* Every instruction that can be encoded writes to its first argument, except the string move.
LEMMA ExecSets ==
  ASSUME NEW m, NEW x, Encodable(x), x.op # "rep movs", Shaped(x)
  PROVE  \E bytes : Exec(m, x) = Set(m, Printed(x)[1], bytes)
<1> DEFINE p == Printed(x)
<1>1. DOMAIN x.args \in {1..2, 1..3}
  BY DEF Shaped, Encodable, Forms
<1>2. DOMAIN p = DOMAIN x.args
  BY DEF Printed
<1> HIDE DEF p
<1>3. DOMAIN p = 1..2 => Len(p) = 2
  BY Lengths
<1>4. DOMAIN p = 1..3 => Len(p) = 3
  BY Lengths
<1>5. Len(p) \in {2, 3}
  BY <1>1, <1>2, <1>3, <1>4
<1>6. x.op \in {"mov", "lea", "add", "sub", "xor", "imul", "movsx", "movss", "movsd", "movdqu", "movd", "movq"}
  BY DEF Encodable, Forms
<1>7. CASE x.op \in {"mov", "lea", "add", "sub", "xor"}
  <2>1. x.op = "mov" => Exec(m, x) = Set(m, p[1], Get(m, p[2], WidthOf(p)))
    BY DEF Exec, p
  <2>2. x.op = "lea" => Exec(m, x) = Set(m, p[1], Word(AddressOf(m, p[2])))
    BY DEF Exec, p
  <2>3. x.op \in {"add", "sub", "xor"} =>
          Exec(m, x) = Set(m, p[1], Apply(x.op, Get(m, p[1], WidthOf(p)), Get(m, p[2], WidthOf(p))))
    BY DEF Exec, p
  <2> QED
    BY <1>7, <2>1, <2>2, <2>3 DEF p
<1>8. CASE x.op = "imul"
  <2>1. Len(p) = 2 => Exec(m, x) = Set(m, p[1], Apply(x.op, Get(m, p[1], WidthOf(p)), Get(m, p[2], WidthOf(p))))
    BY <1>8 DEF Exec, p
  <2>2. Len(p) = 3 => Exec(m, x) = Set(m, p[1], MulWords(Get(m, p[2], WidthOf(p)), Get(m, p[3], WidthOf(p))))
    BY <1>8 DEF Exec, p
  <2> QED
    BY <1>5, <2>1, <2>2 DEF p
<1>9. CASE x.op = "movsx"
  BY <1>9 DEF Exec, p
<1>10. CASE x.op \in {"movss", "movsd"}
  BY <1>10 DEF Exec, p
<1>11. CASE x.op \in {"movd", "movq"}
  BY <1>11 DEF Exec, p
<1>12. CASE x.op = "movdqu"
  BY <1>12 DEF Exec, p
<1> QED
  BY <1>6, <1>7, <1>8, <1>9, <1>10, <1>11, <1>12

\* An instruction changes no register it does not list as defined, and gives those a value.
LEMMA ExecFacts ==
  ASSUME NEW m, IsMachine(m), NEW x, Encodable(x), Shaped(x)
  PROVE  Changes(m, Exec(m, x), Gives(x))
<1>1. CASE x.op = "rep movs"
  <2>1. Gives(x) = {KeyOf(RSI), KeyOf(RDI), KeyOf(RCX)}
    BY <1>1 DEF Shaped
  <2> DEFINE w == Printed(x)[1][2]
             source == Number(Held(m, RSI))  a == Number(Held(m, RDI))  count == w * Number(Held(m, RCX))
             bytes == Bytes(m, source, count)  s == Word(source + count)  d == Word(a + count)
  <2>2. Exec(m, x) = Put(Put(Put(WriteAt(m, a, bytes), RSI, s), RDI, d), RCX, Word(0))
    BY <1>1 DEF Exec, CopyString
  <2> HIDE DEF a, bytes, s, d
  <2> DEFINE m1 == WriteAt(m, a, bytes)  m2 == Put(m1, RSI, s)  m3 == Put(m2, RDI, d)  m4 == Put(m3, RCX, Word(0))
  <2>3. IsMachine(m1) /\ m1.regs = m.regs
    BY WriteKeeps
  <2> HIDE DEF m1
  <2>4. Changes(m1, m2, {KeyOf(RSI)})
    BY <2>3, WriteChanges
  <2> HIDE DEF m2
  <2>5. Changes(m2, m3, {KeyOf(RDI)})
    BY <2>4, WriteChanges DEF Changes
  <2> HIDE DEF m3
  <2>6. Changes(m3, m4, {KeyOf(RCX)})
    BY <2>5, WriteChanges DEF Changes
  <2> HIDE DEF m4
  <2>7. Exec(m, x) = m4
    BY <2>2 DEF m1, m2, m3, m4
  <2> QED
    BY <2>1, <2>3, <2>4, <2>5, <2>6, <2>7 DEF Changes
<1>2. CASE x.op # "rep movs"
  <2> DEFINE p == Printed(x)
  <2>1. /\ DOMAIN x.args \in {1..2, 1..3} /\ Defining(x)
    BY <1>2 DEF Shaped, Encodable, Forms
  <2>2. PICK bytes : Exec(m, x) = Set(m, p[1], bytes)
    BY <1>2, ExecSets
  <2>3. 1 \in DOMAIN x.args
    BY <2>1
  <2>4. CASE x.args[1][1] = "d"
    <3>1. 1 \in DOMAIN x.defs /\ \A j \in DOMAIN x.defs : j # 1 => ~InRegister(x.defs[j])
      BY <2>1, <2>4, Skeletons DEF Defining
    <3>2. p[1] \in {<<"op", x.defs[1], x.args[1][2]>>, <<"op", x.defs[1]>>}
      BY <2>3, <2>4 DEF Printed
    <3> DEFINE d == x.defs[1]
    <3>3. Gives(x) = IF InRegister(d) THEN {KeyOf(d)} ELSE {}
      BY <3>1 DEF Gives, ToSet
    <3>4. /\ GpArg(p[1]) <=> isGp(d)
          /\ FpArg(p[1]) <=> isFp(d)
          /\ MemArg(p[1]) <=> d.kind = "OFFSET" \/ isMemTemp(d)
      BY <3>2, OperandArgument, SizedArgument
    <3>5. GpArg(p[1]) \/ FpArg(p[1]) \/ MemArg(p[1])
      BY <1>2 DEF Encodable, Forms
    <3>6. isGp(d) \/ isFp(d) <=> InRegister(d)
      <4>1. InRegister(d) => d.kind = "REG" \/ isGpTemp(d) \/ isFpTemp(d)
        BY DEF InRegister
      <4>2. d.kind = "REG" => d.kind # "OFFSET" /\ ~isMemTemp(d)
        BY DEF isMemTemp
      <4> QED
        BY <3>4, <3>5, <4>1, <4>2 DEF InRegister, isGp, isFp, isGpReg, isFpReg, isGpTemp, isFpTemp, isMemTemp
    <3>7. RegOf(p[1]) = d
      BY <3>2 DEF RegOf
    <3> HIDE DEF p, d
    <3>8. CASE InRegister(d)
      <4>1. Exec(m, x) = Put(m, d, bytes)
        BY <2>2, <3>4, <3>6, <3>7, <3>8 DEF Set
      <4> QED
        BY <3>3, <3>8, <4>1, WriteChanges
    <3>9. CASE ~InRegister(d)
      <4>1. Exec(m, x) = WriteAt(m, AddressOf(m, p[1]), bytes)
        BY <2>2, <3>4, <3>6, <3>9 DEF Set
      <4> QED
        BY <3>3, <3>9, <4>1, WriteChanges
    <3> QED
      BY <3>8, <3>9
  <2>5. CASE x.args[1][1] = "mem"
    <3>1. x.defs = <<>>
      BY <2>1, <2>5, Skeletons DEF Defining
    <3>2. Gives(x) = {}
      BY <3>1 DEF Gives, ToSet
    <3>3. p[1][1] = "mem"
      BY <2>3, <2>5 DEF Printed
    <3>4. ~GpArg(p[1]) /\ ~FpArg(p[1])
      BY <3>3 DEF GpArg, FpArg
    <3>5. Exec(m, x) = WriteAt(m, AddressOf(m, p[1]), bytes)
      BY <2>2, <3>4 DEF Set
    <3> QED
      BY <3>2, <3>5, WriteChanges
  <2>6. CASE x.args[1][1] \notin {"d", "mem"}
    <3>1. PICK r : r.kind = "REG" /\ x.args[1] = Lit(r.name) /\ Gives(x) = {KeyOf(r)}
      BY <2>1, <2>6 DEF Defining
    <3>2. p[1] = <<"reg", r.name>>
      BY <2>3, <3>1, Skeletons DEF Printed, Lit
    <3>3. GpArg(p[1]) /\ RegOf(p[1]) = Reg(r.name, 8)
      BY <3>2 DEF GpArg, RegOf
    <3>4. Exec(m, x) = Put(m, Reg(r.name, 8), bytes)
      BY <2>2, <3>3 DEF Set
    <3>5. KeyOf(Reg(r.name, 8)) = KeyOf(r)
      BY <3>1 DEF KeyOf, Reg
    <3> QED
      BY <3>1, <3>4, <3>5, WriteChanges
  <2> QED
    BY <2>4, <2>5, <2>6
<1> QED
  BY <1>1, <1>2

-----------------------------------------------------------------------------
\* The machine instructions the selector builds, one at a time

\* an operand whose registers have a value, and one that may be written
Inner(o, keys) == o.kind = "OFFSET" => HasValue(o.base, keys) /\ HasValue(o.offset, keys)
Ready(o, keys) == HasValue(o, keys) /\ Inner(o, keys)

\* What has a value has one later.
LEMMA ReadyMore ==
  ASSUME NEW o, NEW K, NEW L
  PROVE  /\ HasValue(o, K) => HasValue(o, K \union L)
         /\ Inner(o, K) => Inner(o, K \union L)
         /\ Ready(o, K) => Ready(o, K \union L)
BY DEF HasValue, Inner, Ready

\* What an instruction lists has a value if its operands have one.
LEMMA ListedFacts ==
  ASSUME NEW x, NEW K,
         \A o \in ToSet(x.uses) : Ready(o, K),
         \A o \in ToSet(x.defs) : Inner(o, K)
  PROVE  \A o \in Listed(x) : HasValue(o, K)
<1>1. Listed(x) = ToSet(x.uses) \union UNION {{o.base, o.offset} :
                     o \in {o \in ToSet(x.uses) \union ToSet(x.defs) : o.kind = "OFFSET"}}
  BY DEF Listed, ToSet
<1> QED
  BY <1>1 DEF Ready, Inner

\* The parts of an instruction as it is built.
LEMMA InsnFields ==
  ASSUME NEW op, NEW args, NEW defs, NEW uses
  PROVE  LET x == Insn(op, args, defs, uses) IN
         x.op = op /\ x.args = args /\ x.defs = defs /\ x.uses = uses /\ x.move = <<>>
BY DEF Insn

\* Marking a move changes neither what runs nor what is written.
LEMMA RunsAlike ==
  ASSUME NEW x, NEW y, x.op = y.op, x.args = y.args, x.defs = y.defs, x.uses = y.uses, NEW K, NEW P
  PROVE  (Runs(x, K, P) <=> Runs(y, K, P)) /\ Gives(x) = Gives(y)
<1>1. Printed(x) = Printed(y)
  BY DEF Printed, TakenBefore
<1>2. Gives(x) = Gives(y) /\ Listed(x) = Listed(y) /\ (WidthAgrees(x) <=> WidthAgrees(y))
  BY <1>1 DEF Gives, Listed, WidthAgrees
<1>3. Shaped(x) <=> Shaped(y)
  BY <1>2 DEF Shaped, Defining, Updating
<1> QED
  BY <1>2, <1>3 DEF Runs

\* the widths of two operands that are printed next to each other
Fits(op, o) == op \in DOMAIN Carries => o.kind = "OFFSET" \/ o.size = Carries[op]

\* what an instruction of two operands may be
PairOps == TwoOperandOps \union {"movsx"}

\* No such instruction is the string move.
LEMMA NoString == \A op \in PairOps : op # "rep movs"
BY DEF PairOps, TwoOperandOps

\* An instruction of two operands.
LEMMA PairRuns ==
  ASSUME NEW op \in PairOps, NEW d, NEW s, NEW uses, 1 \in DOMAIN uses, uses[1] = s, NEW K, NEW P,
         \A o \in ToSet(uses) : Ready(o, K), Inner(d, K),
         op = "xor" => HasValue(d, K),
         op \in {"add", "sub", "imul"} => d \in ToSet(uses),
         "width" \in P => Fits(op, d) /\ Fits(op, s)
  PROVE  Runs(Insn(op, <<D, U>>, <<d>>, uses), K, P)
<1> DEFINE x == Insn(op, <<D, U>>, <<d>>, uses)
<1>1. x.op = op /\ x.args = <<D, U>> /\ x.defs = <<d>> /\ x.uses = uses
  BY InsnFields
<1>2. Printed(x) = << <<"op", d>>, <<"op", s>> >>
  BY PrintedPair
<1> HIDE DEF x
<1>3. DOMAIN x.args = 1..2 /\ x.args[1] = D /\ x.args[2] = U /\ DOMAIN x.defs = 1..1 /\ x.defs[1] = d
  BY <1>1
<1>4. ToSet(x.defs) = {d}
  BY <1>3 DEF ToSet
<1>5. \A o \in Listed(x) : HasValue(o, K)
  BY <1>1, <1>4, ListedFacts
<1>6. Shaped(x)
  <2>1. DOMAIN x.args \in {1..2, 1..3} /\ \A k \in DOMAIN x.args : k # 1 => Reading(x.args[k])
    BY <1>3, Skeletons DEF Reading
  <2>2. Defining(x)
    BY <1>3, Skeletons DEF Defining
  <2>3. Updating(x)
    BY <1>1, <1>3, Skeletons DEF Updating
  <2>4. x.op # "rep movs"
    BY <1>1, NoString
  <2> QED
    BY <2>1, <2>2, <2>3, <2>4 DEF Shaped
<1>7. "width" \in P => WidthAgrees(x)
  <2>1. SizeOf(<<"op", d>>) = IF d.kind = "OFFSET" THEN 0 ELSE d.size
    BY OperandArgument
  <2>2. SizeOf(<<"op", s>>) = IF s.kind = "OFFSET" THEN 0 ELSE s.size
    BY OperandArgument
  <2>3. Printed(x)[1] = <<"op", d>> /\ Printed(x)[2] = <<"op", s>>
    BY <1>2
  <2>4. \A k \in DOMAIN x.args : k = 1 \/ k = 2
    BY <1>3
  <2> QED
    BY <1>1, <2>1, <2>2, <2>3, <2>4 DEF WidthAgrees, Fits
<1> QED
  BY <1>1, <1>3, <1>5, <1>6, <1>7 DEF Runs, x

\* The parts of the instructions of two operands.
LEMMA PairFields ==
  ASSUME NEW op, NEW d, NEW s
  PROVE  /\ Plain(op, d, s).op = op /\ Plain(op, d, s).args = <<D, U>> /\ Plain(op, d, s).defs = <<d>>
         /\ Plain(op, d, s).uses = <<s>> /\ Plain(op, d, s).move = <<>>
         /\ Copy(op, d, s).op = op /\ Copy(op, d, s).args = <<D, U>> /\ Copy(op, d, s).defs = <<d>>
         /\ Copy(op, d, s).uses = <<s>>
         /\ Combine(op, d, s).defs = <<d>> /\ Combine(op, d, s).move = <<>>
BY DEF Plain, Copy, Combine, Moving, Insn

\* The three ways the selector builds one, and what it gives a value.
LEMMA PairFine ==
  ASSUME NEW op \in PairOps, NEW d, NEW s, NEW K, NEW P, Ready(s, K), Inner(d, K),
         "width" \in P => Fits(op, d) /\ Fits(op, s)
  PROVE  /\ op \notin {"add", "sub", "imul"} /\ (op = "xor" => HasValue(d, K)) => Fine(Plain(op, d, s), K, P)
         /\ op = "mov" \/ (op \in DOMAIN Carries /\ d.size = Carries[op]) =>
              (Twins(d, s) => Fine(Copy(op, d, s), K, P))
         /\ op # "xor" /\ HasValue(d, K) => Fine(Combine(op, d, s), K, P)
<1>1. HasValue(d, K) => Ready(d, K)
  BY DEF Ready
<1>2. 1 \in DOMAIN <<s>> /\ <<s>>[1] = s /\ ToSet(<<s>>) = {s}
  BY DEF ToSet
<1>3. 1 \in DOMAIN <<s, d>> /\ <<s, d>>[1] = s /\ ToSet(<<s, d>>) = {s, d}
  BY Two
<1>4. op \notin {"add", "sub", "imul"} /\ (op = "xor" => HasValue(d, K)) => Runs(Plain(op, d, s), K, P)
  BY <1>2, PairRuns DEF Plain
<1>5. op # "xor" /\ HasValue(d, K) => Runs(Combine(op, d, s), K, P)
  BY <1>1, <1>3, PairRuns DEF Combine
<1> DEFINE x == Copy(op, d, s)
<1>6. x.op = op /\ x.args = <<D, U>> /\ x.defs = <<d>> /\ x.uses = <<s>>
  BY PairFields
<1>7. Plain(op, d, s).op = op /\ Plain(op, d, s).args = <<D, U>> /\ Plain(op, d, s).defs = <<d>>
        /\ Plain(op, d, s).uses = <<s>> /\ Plain(op, d, s).move = <<>>
  BY PairFields
<1>8. Combine(op, d, s).move = <<>>
  BY PairFields
<1>9. Runs(x, K, P) <=> Runs(Plain(op, d, s), K, P)
  BY <1>6, <1>7, RunsAlike
<1>10. op \in DOMAIN Carries => op \notin {"add", "sub", "imul", "xor", "mov"}
  BY DEF Carries
<1> HIDE DEF x
<1>11. op = "mov" \/ (op \in DOMAIN Carries /\ d.size = Carries[op]) =>
              (Twins(d, s) => Copying(x) /\ Runs(x, K, P))
  BY <1>4, <1>6, <1>9, <1>10 DEF Copying, x
<1> QED
  BY <1>4, <1>5, <1>7, <1>8, <1>11 DEF Fine, x

\* An instruction without used operands in its skeleton.
LEMMA ImmediateFine ==
  ASSUME NEW op \in {"mov", "add", "sub", "xor"}, NEW a, a[1] = "d", NEW b, b[1] \in {"imm", "infix"},
         NEW d, NEW uses \in {<<>>, <<d>>}, NEW K, NEW P, Inner(d, K), uses = <<d>> => HasValue(d, K),
         op = "xor" => HasValue(d, K), op \in {"add", "sub"} => uses = <<d>>
  PROVE  Fine(Insn(op, <<a, b>>, <<d>>, uses), K, P)
<1> DEFINE x == Insn(op, <<a, b>>, <<d>>, uses)
<1>1. x.op = op /\ x.args = <<a, b>> /\ x.defs = <<d>> /\ x.uses = uses /\ x.move = <<>>
  BY InsnFields
<1> HIDE DEF x
<1>2. DOMAIN x.args = 1..2 /\ x.args[1] = a /\ x.args[2] = b /\ DOMAIN x.defs = 1..1 /\ x.defs[1] = d
  BY <1>1
<1>3. ToSet(x.defs) = {d}
  BY <1>2 DEF ToSet
<1>4. \A o \in ToSet(x.uses) : o = d /\ uses = <<d>>
  BY <1>1 DEF ToSet
<1>a. uses = <<d>> => d \in ToSet(uses)
  BY DEF ToSet
<1>5. \A o \in Listed(x) : HasValue(o, K)
  BY <1>3, <1>4, ListedFacts DEF Ready
<1>6. Shaped(x)
  <2>1. DOMAIN x.args \in {1..2, 1..3} /\ \A k \in DOMAIN x.args : k # 1 => Reading(x.args[k])
    BY <1>2 DEF Reading
  <2>2. Defining(x)
    BY <1>2 DEF Defining
  <2>3. Updating(x)
    BY <1>1, <1>2, <1>a DEF Updating
  <2>4. x.op # "rep movs"
    BY <1>1
  <2> QED
    BY <2>1, <2>2, <2>3, <2>4 DEF Shaped
<1>7. WidthAgrees(x)
  BY <1>1 DEF WidthAgrees, Carries
<1> QED
  BY <1>1, <1>2, <1>5, <1>6, <1>7 DEF Fine, Runs, x

\* Its uses in the selector.
LEMMA ImmediatesFine ==
  ASSUME NEW d, NEW K, NEW P, Inner(d, K)
  PROVE  /\ \A v : Fine(MovImm(d, v), K, P)
         /\ \A v : Fine(Insn("mov", <<D, Imm(v)>>, <<d>>, <<>>), K, P)
         /\ \A z, v : Fine(Insn("mov", <<Sized(z), Imm(v)>>, <<d>>, <<>>), K, P)
         /\ \A f, y, z : Fine(Insn("mov", <<D, Infix(f, y, z)>>, <<d>>, <<>>), K, P)
         /\ \A v : HasValue(d, K) => Fine(Insn("xor", <<D, Imm(v)>>, <<d>>, <<>>), K, P)
         /\ \A c : \A op \in {"add", "sub"} : HasValue(d, K) => Fine(CombineImm(op, d, c), K, P)
<1>1. \A v : Fine(Insn("mov", <<D, Imm(v)>>, <<d>>, <<>>), K, P)
  BY ImmediateFine, Skeletons
<1>2. \A z, v : Fine(Insn("mov", <<Sized(z), Imm(v)>>, <<d>>, <<>>), K, P)
  BY ImmediateFine, Skeletons
<1>3. \A f, y, z : Fine(Insn("mov", <<D, Infix(f, y, z)>>, <<d>>, <<>>), K, P)
  BY ImmediateFine, Skeletons
<1>4. \A v : HasValue(d, K) => Fine(Insn("xor", <<D, Imm(v)>>, <<d>>, <<>>), K, P)
  BY ImmediateFine, Skeletons
<1>5. \A c : \A op \in {"add", "sub"} : HasValue(d, K) => Fine(CombineImm(op, d, c), K, P)
  BY ImmediateFine, Skeletons DEF CombineImm
<1> QED
  BY <1>1, <1>2, <1>3, <1>4, <1>5 DEF MovImm

\* The operands listed for the slots of an address, and of a value, are those of the slots.
LEMMA UsedOnly ==
  ASSUME NEW b, NEW o, NEW v
  PROVE  /\ ToSet(Used(b) \o Used(o)) \subseteq {b, o}
         /\ ToSet(Used(b) \o Used(o) \o Used(v)) \subseteq {b, o, v}
<1> DEFINE S == {b, o}  R == {b, o, v}
<1>1. Used(b) \in Seq(S) /\ Used(o) \in Seq(S)
  BY UsedFacts
<1>2. Used(b) \in Seq(R) /\ Used(o) \in Seq(R) /\ Used(v) \in Seq(R)
  BY UsedFacts
<1>3. \A T : \A s \in Seq(T) : ToSet(s) \subseteq T
  BY DEF ToSet
<1> HIDE DEF S, R
<1>4. Used(b) \o Used(o) \in Seq(S)
  BY <1>1
<1>5. Used(b) \o Used(o) \in Seq(R)
  BY <1>2
<1>6. Used(b) \o Used(o) \o Used(v) \in Seq(R)
  BY <1>2, <1>5
<1> QED
  BY <1>3, <1>4, <1>6 DEF S, R

\* A slot is open or holds a number or a register.
LEMMA SlotReading ==
  ASSUME NEW w, NEW b, NEW o
  PROVE  Reading(Slot(b)) /\ Reading(At(w, Slot(b), Slot(o))) /\ At(w, Slot(b), Slot(o))[1] = "mem"
<1>1. Slot(b)[1] \in {"u", "imm", "reg"} /\ Slot(o)[1] \in {"u", "imm", "reg"}
  BY Slots, Skeletons
<1> QED
  BY <1>1, Skeletons DEF Reading

\* An instruction with two arguments of which the second is read.
LEMMA TwoShaped ==
  ASSUME NEW x, DOMAIN x.args = 1..2, Reading(x.args[2]), Defining(x),
         x.op \in {"mov", "lea", "movss", "movsd", "movdqu"}
  PROVE  Shaped(x)
<1>1. Updating(x)
  BY DEF Updating
<1>2. DOMAIN x.args \in {1..2, 1..3} /\ \A k \in DOMAIN x.args : k # 1 => Reading(x.args[k])
  OBVIOUS
<1>3. x.op # "rep movs"
  OBVIOUS
<1> QED
  BY <1>1, <1>2, <1>3 DEF Shaped

\* A store.
LEMMA StoreFine ==
  ASSUME NEW op \in {"mov", "movss", "movsd", "movdqu"}, NEW z, NEW b, NEW o, NEW v, NEW K, NEW P,
         Ready(b, K), Ready(o, K), Ready(v, K), v.kind # "OFFSET",
         "width" \in P => (op \in DOMAIN Carries => z = 0 /\ v.size = Carries[op])
  PROVE  Fine(StoreTo(op, z, b, o, v)[1], K, P)
<1> DEFINE x == StoreTo(op, z, b, o, v)[1]
<1>1. /\ x.op = op /\ x.args = <<At(z, Slot(b), Slot(o)), Slot(v)>> /\ x.defs = <<>>
      /\ x.uses = Used(b) \o Used(o) \o Used(v) /\ x.move = <<>>
  BY DEF StoreTo, Insn
<1>2. Printed(x) = << <<"mem", z, Shown(b), Shown(o)>>, Shown(v) >>
  BY PrintedStore
<1> HIDE DEF x
<1>3. DOMAIN x.args = 1..2 /\ x.args[1] = At(z, Slot(b), Slot(o)) /\ x.args[2] = Slot(v)
  BY <1>1
<1>4. ToSet(x.uses) \subseteq {b, o, v}
  BY <1>1, UsedOnly
<1>5. ToSet(x.defs) = {}
  BY <1>1 DEF ToSet
<1>6. \A y \in Listed(x) : HasValue(y, K)
  BY <1>4, <1>5, ListedFacts
<1>7. Reading(x.args[1]) /\ x.args[1][1] = "mem" /\ Reading(x.args[2])
  BY <1>3, SlotReading
<1>8. Shaped(x)
  BY <1>1, <1>3, <1>7, TwoShaped DEF Defining
<1>9. "width" \in P => WidthAgrees(x)
  <2> SUFFICES ASSUME "width" \in P, op \in DOMAIN Carries
               PROVE  \A k \in DOMAIN x.args : SizeOf(Printed(x)[k]) \in {0, Carries[op]}
    BY <1>1 DEF WidthAgrees
  <2>1. z = 0 /\ v.size = Carries[op]
    OBVIOUS
  <2>2. SizeOf(<<"mem", z, Shown(b), Shown(o)>>) = z
    BY AddressArgument
  <2>3. SizeOf(Shown(v)) \in {0, v.size}
    <3>1. SizeOf(Imm(v.value)) = 0 /\ SizeOf(Lit("rsp")) = 8 /\ SizeOf(<<"op", v>>) = v.size
      BY ImmediateArgument, RegisterArgument, OperandArgument
    <3>2. RSP.size = 8
      BY MachineFacts
    <3> QED
      BY <3>1, <3>2 DEF Shown
  <2> QED
    BY <1>2, <1>3, <2>1, <2>2, <2>3
<1> QED
  BY <1>1, <1>6, <1>8, <1>9 DEF Fine, Runs, x

\* A load.
LEMMA LoadFine ==
  ASSUME NEW op \in {"mov", "movss", "movsd", "movdqu"}, NEW z, NEW d, NEW b, NEW o, NEW K, NEW P,
         Ready(b, K), Ready(o, K), d.kind # "OFFSET",
         "width" \in P => (op \in DOMAIN Carries => z = 0 /\ d.size = Carries[op])
  PROVE  Fine(LoadFrom(op, z, d, b, o)[1], K, P)
<1> DEFINE x == LoadFrom(op, z, d, b, o)[1]
<1>1. /\ x.op = op /\ x.args = <<D, At(z, Slot(b), Slot(o))>> /\ x.defs = <<d>>
      /\ x.uses = Used(b) \o Used(o) /\ x.move = <<>>
  BY DEF LoadFrom, Insn
<1>2. Printed(x) = << <<"op", d>>, <<"mem", z, Shown(b), Shown(o)>> >>
  BY PrintedLoad
<1> HIDE DEF x
<1>3. DOMAIN x.args = 1..2 /\ x.args[1] = D /\ x.args[2] = At(z, Slot(b), Slot(o)) /\ DOMAIN x.defs = 1..1
  BY <1>1
<1>4. ToSet(x.uses) \subseteq {b, o}
  BY <1>1, UsedOnly
<1>5. ToSet(x.defs) = {d}
  BY <1>1 DEF ToSet
<1>6. \A y \in Listed(x) : HasValue(y, K)
  BY <1>4, <1>5, ListedFacts DEF Inner
<1>7. x.args[1][1] = "d" /\ Reading(x.args[2])
  BY <1>3, SlotReading, Skeletons
<1>8. Shaped(x)
  <2>1. Defining(x)
    BY <1>3, <1>7 DEF Defining
  <2> QED
    BY <1>1, <1>3, <1>7, <2>1, TwoShaped
<1>9. "width" \in P => WidthAgrees(x)
  <2> SUFFICES ASSUME "width" \in P, op \in DOMAIN Carries
               PROVE  \A k \in DOMAIN x.args : SizeOf(Printed(x)[k]) \in {0, Carries[op]}
    BY <1>1 DEF WidthAgrees
  <2>1. z = 0 /\ d.size = Carries[op]
    OBVIOUS
  <2>2. SizeOf(<<"mem", z, Shown(b), Shown(o)>>) = z
    BY AddressArgument
  <2>3. SizeOf(<<"op", d>>) = d.size
    BY OperandArgument
  <2> QED
    BY <1>2, <1>3, <2>1, <2>2, <2>3
<1> QED
  BY <1>1, <1>6, <1>8, <1>9 DEF Fine, Runs, x

\* A load by two bytes' width from the read-only copy of a constant.
LEMMA FragmentFine ==
  ASSUME NEW op \in {"movss", "movsd"}, NEW d, NEW c, NEW K, NEW P, d.kind # "OFFSET", d.size = Carries[op]
  PROVE  Fine(Insn(op, <<D, At(0, Frag(c), Imm(Word(0)))>>, <<d>>, <<>>), K, P)
<1> DEFINE f == Frag(c)  v == Imm(Word(0))  m == At(0, f, v)  x == Insn(op, <<D, m>>, <<d>>, <<>>)
<1>1. x.op = op /\ x.args = <<D, m>> /\ x.defs = <<d>> /\ x.uses = <<>> /\ x.move = <<>>
  BY InsnFields
<1>2. f[1] = "frag" /\ v[1] = "imm" /\ m[1] = "mem" /\ m[2] = 0 /\ m[3] = f /\ m[4] = v
  BY Skeletons
<1> HIDE DEF x, m, f, v
<1>3. DOMAIN x.args = 1..2 /\ x.args[1] = D /\ x.args[2] = m /\ DOMAIN x.defs = 1..1 /\ x.defs[1] = d
  BY <1>1
<1>4. ToSet(x.uses) = {} /\ ToSet(x.defs) = {d}
  BY <1>1 DEF ToSet
<1>5. \A y \in Listed(x) : HasValue(y, K)
  BY <1>4, ListedFacts DEF Inner
<1>6. x.args[1][1] = "d" /\ Reading(x.args[2])
  BY <1>2, <1>3, Skeletons DEF Reading
<1>7. Shaped(x)
  <2>1. Defining(x)
    BY <1>3, <1>6 DEF Defining
  <2> QED
    BY <1>1, <1>3, <1>6, <2>1, TwoShaped
<1>8. Printed(x)[1] = <<"op", d>> /\ Printed(x)[2][1] = "mem" /\ Printed(x)[2][2] = 0
  BY <1>2, <1>3, Skeletons DEF Printed
<1>9. WidthAgrees(x)
  <2>1. SizeOf(<<"op", d>>) = d.size
    BY OperandArgument
  <2>2. SizeOf(Printed(x)[2]) = 0
    BY <1>8 DEF SizeOf
  <2> QED
    BY <1>1, <1>3, <1>8, <2>1, <2>2 DEF WidthAgrees
<1> QED
  BY <1>1, <1>5, <1>7, <1>9 DEF Fine, Runs, x, m, f, v

\* The registers the selector names by itself when it copies.
LEMMA CopyRegisters ==
  /\ \A r \in {RSI, RDI, RCX} : r.kind = "REG" /\ InRegister(r) /\ r.kind # "OFFSET"
  /\ KeyOf(RSI) # KeyOf(RDI) /\ KeyOf(RSI) # KeyOf(RCX) /\ KeyOf(RDI) # KeyOf(RCX)
BY DEF RSI, RDI, RCX, Reg, InRegister, KeyOf

\* An instruction that takes an address into a register it names.
LEMMA LeaShaped ==
  ASSUME NEW x, x.op = "lea", NEW r \in {RSI, RDI}, x.defs = <<r>>, DOMAIN x.args = 1..2,
         x.args[1] = Lit(r.name), Reading(x.args[2])
  PROVE  Shaped(x) /\ Gives(x) = {KeyOf(r)} /\ WidthAgrees(x)
<1>1. r.kind = "REG" /\ InRegister(r)
  BY CopyRegisters
<1>2. ToSet(x.defs) = {r}
  BY DEF ToSet
<1>3. Gives(x) = {KeyOf(r)}
  BY <1>1, <1>2 DEF Gives
<1>4. Defining(x)
  BY <1>1, <1>3 DEF Defining
<1>5. WidthAgrees(x)
  BY DEF WidthAgrees, Carries
<1> QED
  BY <1>3, <1>4, <1>5, TwoShaped

\* The three ways the selector does that.
LEMMA LeaFine ==
  ASSUME NEW r \in {RSI, RDI}, NEW K, NEW P
  PROVE  /\ \A o : Ready(o, K) => Fine(LeaTemp(r, o), K, P) /\ Gives(LeaTemp(r, o)) = {KeyOf(r)}
         /\ \A b, o : Ready(b, K) /\ Ready(o, K) => Fine(LeaAt(r, b, o), K, P) /\ Gives(LeaAt(r, b, o)) = {KeyOf(r)}
         /\ \A c : Fine(LeaFrag(r, c), K, P) /\ Gives(LeaFrag(r, c)) = {KeyOf(r)}
<1>1. r.kind # "OFFSET"
  BY CopyRegisters
<1>2. ASSUME NEW o, Ready(o, K)
      PROVE  Fine(LeaTemp(r, o), K, P) /\ Gives(LeaTemp(r, o)) = {KeyOf(r)}
  <2> DEFINE x == LeaTemp(r, o)
  <2>1. x.op = "lea" /\ x.args = <<Lit(r.name), U>> /\ x.defs = <<r>> /\ x.uses = <<o>> /\ x.move = <<>>
    BY DEF LeaTemp, Insn
  <2> HIDE DEF x
  <2>2. DOMAIN x.args = 1..2 /\ x.args[1] = Lit(r.name) /\ x.args[2] = U
    BY <2>1
  <2>3. Shaped(x) /\ Gives(x) = {KeyOf(r)} /\ WidthAgrees(x)
    BY <2>1, <2>2, LeaShaped, Skeletons DEF Reading
  <2>4. ToSet(x.uses) = {o} /\ ToSet(x.defs) = {r}
    BY <2>1 DEF ToSet
  <2>5. \A y \in Listed(x) : HasValue(y, K)
    BY <1>1, <1>2, <2>4, ListedFacts DEF Inner
  <2> QED
    BY <2>1, <2>3, <2>5 DEF Fine, Runs, x
<1>3. ASSUME NEW b, NEW o, Ready(b, K), Ready(o, K)
      PROVE  Fine(LeaAt(r, b, o), K, P) /\ Gives(LeaAt(r, b, o)) = {KeyOf(r)}
  <2> DEFINE x == LeaAt(r, b, o)
  <2>1. /\ x.op = "lea" /\ x.args = <<Lit(r.name), At(0, Slot(b), Slot(o))>> /\ x.defs = <<r>>
        /\ x.uses = Used(b) \o Used(o) /\ x.move = <<>>
    BY DEF LeaAt, Insn
  <2> HIDE DEF x
  <2>2. DOMAIN x.args = 1..2 /\ x.args[1] = Lit(r.name) /\ x.args[2] = At(0, Slot(b), Slot(o))
    BY <2>1
  <2>3. Shaped(x) /\ Gives(x) = {KeyOf(r)} /\ WidthAgrees(x)
    BY <2>1, <2>2, LeaShaped, SlotReading
  <2>4. ToSet(x.uses) \subseteq {b, o} /\ ToSet(x.defs) = {r}
    BY <2>1, UsedOnly DEF ToSet
  <2>5. \A y \in Listed(x) : HasValue(y, K)
    BY <1>1, <1>3, <2>4, ListedFacts DEF Inner
  <2> QED
    BY <2>1, <2>3, <2>5 DEF Fine, Runs, x
<1>4. ASSUME NEW c
      PROVE  Fine(LeaFrag(r, c), K, P) /\ Gives(LeaFrag(r, c)) = {KeyOf(r)}
  <2> DEFINE x == LeaFrag(r, c)
  <2>1. x.op = "lea" /\ x.args = <<Lit(r.name), Frag(c)>> /\ x.defs = <<r>> /\ x.uses = <<>> /\ x.move = <<>>
    BY DEF LeaFrag, Insn
  <2> HIDE DEF x
  <2>2. DOMAIN x.args = 1..2 /\ x.args[1] = Lit(r.name) /\ x.args[2] = Frag(c)
    BY <2>1
  <2>3. Shaped(x) /\ Gives(x) = {KeyOf(r)} /\ WidthAgrees(x)
    BY <2>1, <2>2, LeaShaped, Skeletons DEF Reading
  <2>4. ToSet(x.uses) = {} /\ ToSet(x.defs) = {r}
    BY <2>1 DEF ToSet
  <2>5. \A y \in Listed(x) : HasValue(y, K)
    BY <1>1, <2>4, ListedFacts DEF Inner
  <2> QED
    BY <2>1, <2>3, <2>5 DEF Fine, Runs, x
<1> QED
  BY <1>2, <1>3, <1>4

-----------------------------------------------------------------------------
\* Code, one instruction after the other

\* what the instructions before the k-th, and all of them, give a value
Before(c, k) == UNION {Gives(c[j]) : j \in {j \in DOMAIN c : j < k}}
AllGiven(c)    == UNION {Gives(x) : x \in ToSet(c)}
\* every instruction is fine where it stands
Told(c, K, P) == IsCode(c) /\ \A k \in DOMAIN c : Fine(c[k], K \union Before(c, k), P)

\* No code.
LEMMA ToldNone ==
  ASSUME NEW K, NEW P
  PROVE  Told(<<>>, K, P) /\ AllGiven(<<>>) = {}
<1>1. DOMAIN <<>> = {}
  OBVIOUS
<1>2. ToSet(<<>>) = {}
  BY <1>1 DEF ToSet
<1> QED
  BY <1>1, <1>2, NoneAccepted DEF Told, AllGiven

\* One instruction.
LEMMA ToldOne ==
  ASSUME NEW x, NEW K, NEW P
  PROVE  (Fine(x, K, P) => Told(<<x>>, K, P)) /\ AllGiven(<<x>>) = Gives(x)
<1>1. DOMAIN <<x>> = 1..1 /\ <<x>>[1] = x /\ ToSet(<<x>>) = {x}
  BY DEF ToSet
<1>2. Before(<<x>>, 1) = {}
  BY <1>1 DEF Before
<1>3. AllGiven(<<x>>) = Gives(x)
  BY <1>1 DEF AllGiven
<1>4. IsCode(<<x>>)
  BY OneAccepted
<1>5. \A k \in DOMAIN <<x>> : k = 1
  BY <1>1
<1> QED
  BY <1>1, <1>2, <1>3, <1>4, <1>5 DEF Told

\* The members of a list in two parts.
LEMMA JoinedMembers ==
  ASSUME NEW s, NEW t, IsCode(s), IsCode(t)
  PROVE  ToSet(s \o t) = ToSet(s) \union ToSet(t)
<1> DEFINE both == s \o t  S == ToSet(s) \union ToSet(t)
<1>1. s \in Seq(S) /\ t \in Seq(S)
  BY DEF IsCode
<1> HIDE DEF S
<1>2. /\ DOMAIN both = 1..(Len(s) + Len(t))
      /\ \A k \in 1..Len(s) : both[k] = s[k]
      /\ \A k \in 1..Len(t) : both[Len(s) + k] = t[k]
  BY <1>1, Chained
<1>3. /\ DOMAIN s = 1..Len(s) /\ DOMAIN t = 1..Len(t)
      /\ Len(s) \in Nat /\ Len(t) \in Nat
  BY <1>1
<1> HIDE DEF both
<1>5. \A k \in DOMAIN both : k \in DOMAIN s \/ (k - Len(s) \in DOMAIN t /\ k = Len(s) + (k - Len(s)))
  BY <1>2, <1>3
<1>6. ToSet(both) = ToSet(s) \union ToSet(t)
  <2>1. ASSUME NEW x \in ToSet(both)
        PROVE  x \in ToSet(s) \union ToSet(t)
    <3>1. PICK k \in DOMAIN both : both[k] = x
      BY DEF ToSet
    <3> QED
      BY <3>1, <1>2, <1>3, <1>5 DEF ToSet
  <2>2. ASSUME NEW x \in ToSet(s)
        PROVE  x \in ToSet(both)
    <3>1. PICK k \in 1..Len(s) : s[k] = x
      BY <1>3 DEF ToSet
    <3>2. k \in DOMAIN both /\ both[k] = x
      BY <3>1, <1>2, <1>3
    <3> QED
      BY <3>2 DEF ToSet
  <2>3. ASSUME NEW x \in ToSet(t)
        PROVE  x \in ToSet(both)
    <3>1. PICK k \in 1..Len(t) : t[k] = x
      BY <1>3 DEF ToSet
    <3>2. Len(s) + k \in DOMAIN both /\ both[Len(s) + k] = x
      BY <3>1, <1>2, <1>3
    <3> QED
      BY <3>2 DEF ToSet
  <2> QED
    BY <2>1, <2>2, <2>3
<1> QED
  BY <1>6 DEF both

\* Code in two parts.
LEMMA ToldJoined ==
  ASSUME NEW s, NEW t, NEW K, NEW P, Told(s, K, P), Told(t, K \union AllGiven(s), P)
  PROVE  Told(s \o t, K, P) /\ AllGiven(s \o t) = AllGiven(s) \union AllGiven(t)
<1> DEFINE both == s \o t  S == ToSet(s) \union ToSet(t)
<1>1. s \in Seq(S) /\ t \in Seq(S)
  BY DEF Told, IsCode
<1> HIDE DEF S
<1>2. /\ DOMAIN both = 1..(Len(s) + Len(t))
      /\ \A k \in 1..Len(s) : both[k] = s[k]
      /\ \A k \in 1..Len(t) : both[Len(s) + k] = t[k]
  BY <1>1, Chained
<1>3. /\ DOMAIN s = 1..Len(s) /\ DOMAIN t = 1..Len(t)
      /\ Len(s) \in Nat /\ Len(t) \in Nat
  BY <1>1
<1>4. IsCode(both) /\ IsCode(s) /\ IsCode(t)
  BY JoinedAccepted DEF Told
<1>6. ToSet(both) = ToSet(s) \union ToSet(t)
  BY <1>4, JoinedMembers
<1> HIDE DEF both
<1>5. \A k \in DOMAIN both : k \in DOMAIN s \/ (k - Len(s) \in DOMAIN t /\ k = Len(s) + (k - Len(s)))
  BY <1>2, <1>3
<1>7. AllGiven(both) = AllGiven(s) \union AllGiven(t)
  BY <1>6 DEF AllGiven
<1>8. ASSUME NEW k \in DOMAIN both
      PROVE  Fine(both[k], K \union Before(both, k), P)
  <2>1. CASE k \in DOMAIN s
    <3>1. Fine(s[k], K \union Before(s, k), P) /\ both[k] = s[k]
      BY <2>1, <1>2, <1>3 DEF Told
    <3>2. \A j \in DOMAIN s : j \in DOMAIN both /\ both[j] = s[j]
      BY <1>2, <1>3
    <3>3. Before(s, k) \subseteq Before(both, k)
      BY <3>2 DEF Before
    <3> QED
      BY <3>1, <3>3, FineMore
  <2>2. CASE k - Len(s) \in DOMAIN t /\ k = Len(s) + (k - Len(s))
    <3> DEFINE m == k - Len(s)
    <3>1. Fine(t[m], (K \union AllGiven(s)) \union Before(t, m), P) /\ both[k] = t[m]
      BY <2>2, <1>2, <1>3 DEF Told
    <3>2. \A j \in DOMAIN s : j \in DOMAIN both /\ both[j] = s[j] /\ j < k
      BY <2>2, <1>2, <1>3
    <3>3. \A j \in DOMAIN t : j < m => Len(s) + j \in DOMAIN both /\ both[Len(s) + j] = t[j] /\ Len(s) + j < k
      BY <2>2, <1>2, <1>3
    <3> HIDE DEF m
    <3>4. AllGiven(s) \subseteq Before(both, k)
      BY <3>2 DEF AllGiven, Before, ToSet
    <3>5. Before(t, m) \subseteq Before(both, k)
      BY <3>3 DEF Before
    <3> QED
      BY <3>1, <3>4, <3>5, FineMore
  <2> QED
    BY <1>5, <2>1, <2>2
<1> QED
  BY <1>4, <1>7, <1>8 DEF Told, both

\* Two instructions.
LEMMA ToldTwo ==
  ASSUME NEW x, NEW y, NEW K, NEW P, Fine(x, K, P), Fine(y, K \union Gives(x), P)
  PROVE  Told(<<x, y>>, K, P) /\ AllGiven(<<x, y>>) = Gives(x) \union Gives(y)
<1> DEFINE c == <<x, y>>
<1>1. DOMAIN c = 1..2 /\ c[1] = x /\ c[2] = y /\ ToSet(c) = {x, y}
  BY Two
<1>2. IsCode(c)
  BY TwoAccepted
<1> HIDE DEF c
<1>3. 1 \in DOMAIN c /\ \A k \in DOMAIN c : k = 1 \/ k = 2
  BY <1>1
<1>4. Gives(x) \subseteq Before(c, 2)
  BY <1>1, <1>3 DEF Before
<1>5. Fine(x, K \union Before(c, 1), P) /\ Fine(y, K \union Before(c, 2), P)
  BY <1>4, FineMore
<1>6. Told(c, K, P)
  BY <1>1, <1>2, <1>3, <1>5 DEF Told
<1>7. AllGiven(c) = Gives(x) \union Gives(y)
  BY <1>1 DEF AllGiven
<1> QED
  BY <1>6, <1>7 DEF c

\* Three instructions.
LEMMA ToldThree ==
  ASSUME NEW x, NEW y, NEW z, NEW K, NEW P,
         Fine(x, K, P), Fine(y, K \union Gives(x), P), Fine(z, (K \union Gives(x)) \union Gives(y), P)
  PROVE  Told(<<x, y, z>>, K, P)
<1> DEFINE c == <<x, y, z>>
<1>1. DOMAIN c = 1..3 /\ c[1] = x /\ c[2] = y /\ c[3] = z
  OBVIOUS
<1>2. IsCode(c)
  BY ThreeAccepted
<1> HIDE DEF c
<1>3. 1 \in DOMAIN c /\ 2 \in DOMAIN c /\ \A k \in DOMAIN c : k = 1 \/ k = 2 \/ k = 3
  BY <1>1
<1>4. Gives(x) \subseteq Before(c, 2) /\ Gives(x) \subseteq Before(c, 3) /\ Gives(y) \subseteq Before(c, 3)
  BY <1>1, <1>3 DEF Before
<1>5. Fine(x, K \union Before(c, 1), P)
  BY FineMore
<1>6. Fine(y, K \union Before(c, 2), P)
  BY <1>4, FineMore
<1>7. Fine(z, K \union Before(c, 3), P)
  BY <1>4, FineMore
<1> QED
  BY <1>1, <1>2, <1>3, <1>5, <1>6, <1>7 DEF Told, c

\* Four instructions.
LEMMA ToldFour ==
  ASSUME NEW x, NEW y, NEW z, NEW w, NEW K, NEW P,
         Fine(x, K, P), Fine(y, K \union Gives(x), P), Fine(z, (K \union Gives(x)) \union Gives(y), P),
         Fine(w, ((K \union Gives(x)) \union Gives(y)) \union Gives(z), P)
  PROVE  Told(<<x, y, z, w>>, K, P)
<1> DEFINE c == <<x, y, z, w>>
<1>1. DOMAIN c = 1..4 /\ c[1] = x /\ c[2] = y /\ c[3] = z /\ c[4] = w
  OBVIOUS
<1>2. IsCode(c)
  BY FourAccepted
<1> HIDE DEF c
<1>3. 1 \in DOMAIN c /\ 2 \in DOMAIN c /\ 3 \in DOMAIN c /\ \A k \in DOMAIN c : k = 1 \/ k = 2 \/ k = 3 \/ k = 4
  BY <1>1
<1>4. /\ Gives(x) \subseteq Before(c, 2) /\ Gives(x) \subseteq Before(c, 3) /\ Gives(y) \subseteq Before(c, 3)
      /\ Gives(x) \subseteq Before(c, 4) /\ Gives(y) \subseteq Before(c, 4) /\ Gives(z) \subseteq Before(c, 4)
  BY <1>1, <1>3 DEF Before
<1>5. Fine(x, K \union Before(c, 1), P)
  BY FineMore
<1>6. Fine(y, K \union Before(c, 2), P)
  BY <1>4, FineMore
<1>7. Fine(z, K \union Before(c, 3), P)
  BY <1>4, FineMore
<1>8. Fine(w, K \union Before(c, 4), P)
  BY <1>4, FineMore
<1> QED
  BY <1>1, <1>2, <1>3, <1>5, <1>6, <1>7, <1>8 DEF Told, c

-----------------------------------------------------------------------------
\* An operand of an instruction that has a value: one in memory has its place there, and
\* one for floating point values is of single or of double precision.
Proper(o, K) ==
  /\ Sizable(o) /\ HasValue(o, K)
  /\ isFp(o) => o.size \in {4, 8}
  /\ isMemTemp(o) => o.name \in Nat

\* Such an operand may be read and written, now and later.
LEMMA ProperFacts ==
  ASSUME NEW o, NEW K, Proper(o, K)
  PROVE  /\ Ready(o, K) /\ Inner(o, K) /\ o.kind # "OFFSET" /\ o.size \in Nat /\ Sizable(o)
         /\ \A L : K \subseteq L => Proper(o, L) /\ Ready(o, L)
<1>1. o.kind # "OFFSET"
  BY OperandFacts DEF Proper
<1> QED
  BY <1>1 DEF Proper, Ready, HasValue, Inner, Sizable

\* What is not in a register needs no value, and a constant is read as it is.
LEMMA Valueless ==
  ASSUME NEW o, NEW K, isMemTemp(o) \/ isConst(o)
  PROVE  HasValue(o, K) /\ ~InRegister(o)
BY DEF HasValue, InRegister, isMemTemp, isConst, isGpTemp, isFpTemp

\* The widths in the names of the floating point moves.
LEMMA Precisions ==
  /\ \A w \in {4, 8} : Carries[FpMove(w)] = w /\ Carries[FpBits(w)] = w
  /\ \A w : FpMove(w) \in DOMAIN Carries /\ FpBits(w) \in DOMAIN Carries
  /\ "movdqu" \in DOMAIN Carries /\ Carries["movdqu"] = 16
  /\ \A op \in {"mov", "add", "sub", "xor", "imul", "lea", "movsx"} : op \notin DOMAIN Carries
BY DEF Carries, FpMove, FpBits

\* A move between operands of one size.
LEMMA MovFine ==
  ASSUME NEW d, NEW s, NEW K, NEW P, Ready(s, K), Inner(d, K), Twins(d, s)
  PROVE  Fine(Mov(d, s), K, P)
<1>1. "mov" \in PairOps
  BY DEF PairOps, TwoOperandOps
<1>2. Fits("mov", d) /\ Fits("mov", s)
  BY Precisions DEF Fits
<1> QED
  BY <1>1, <1>2, PairFine DEF Mov

\* An instruction gives its destination a value.
LEMMA MovGives ==
  ASSUME NEW op, NEW d, NEW s, NEW K
  PROVE  /\ HasValue(d, K \union Gives(Copy(op, d, s)))
         /\ HasValue(d, K \union Gives(Plain(op, d, s)))
         /\ HasValue(d, K \union Gives(Mov(d, s)))
         /\ \A args, uses : HasValue(d, K \union Gives(Insn(op, args, <<d>>, uses)))
<1>1. d \in ToSet(<<d>>)
  BY DEF ToSet
<1>2. Copy(op, d, s).defs = <<d>> /\ Plain(op, d, s).defs = <<d>> /\ Mov(d, s).defs = <<d>>
  BY PairFields DEF Mov
<1>3. \A args, uses : Insn(op, args, <<d>>, uses).defs = <<d>>
  BY InsnFields
<1> QED
  BY <1>1, <1>2, <1>3, Given

\* A value in memory goes through its patch.
LEMMA PatchFine ==
  ASSUME NEW o, NEW n, NEW t, NEW K, NEW P, Proper(t, K), isMemTemp(t), t.size = o.size
  PROVE  LET g == Patch(o, n, "GP")  f == Patch(o, n, "FP") IN
         /\ Fine(Mov(g, t), K, P) /\ Ready(g, K \union Gives(Mov(g, t)))
         /\ \A L : K \subseteq L /\ Ready(g, L) => Fine(Mov(t, g), L, P) /\ Fine(Plain("mov", t, g), L, P)
         /\ o.size = 16 =>
              /\ Fine(Copy("movdqu", f, t), K, P) /\ Ready(f, K \union Gives(Copy("movdqu", f, t)))
              /\ \A L : K \subseteq L /\ Ready(f, L) =>
                   Fine(Copy("movdqu", t, f), L, P) /\ Fine(Plain("movdqu", t, f), L, P)
<1> DEFINE g == Patch(o, n, "GP")  f == Patch(o, n, "FP")
<1>1. /\ g.kind # "OFFSET" /\ g.size = o.size /\ ~isMemTemp(g)
      /\ f.kind # "OFFSET" /\ f.size = o.size /\ ~isMemTemp(f)
  BY PatchFacts
<1>2. /\ Ready(t, K) /\ Inner(t, K) /\ t.kind # "OFFSET" /\ t.size \in Nat
      /\ \A L : K \subseteq L => Ready(t, L) /\ Inner(t, L)
  BY ProperFacts DEF Ready
<1> HIDE DEF g, f
<1>3. Twins(g, t) /\ Twins(f, t) /\ Twins(t, g) /\ Twins(t, f)
  BY <1>1, <1>2 DEF Twins, Proper
<1>4. \A L : Inner(g, L) /\ Inner(f, L)
  BY <1>1 DEF Inner
<1>5. Fine(Mov(g, t), K, P)
  BY <1>2, <1>3, <1>4, MovFine
<1>6. HasValue(g, K \union Gives(Mov(g, t)))
  BY MovGives
<1>7. ASSUME NEW L, K \subseteq L, Ready(g, L)
      PROVE  Fine(Mov(t, g), L, P) /\ Fine(Plain("mov", t, g), L, P)
  <2>1. Inner(t, L)
    BY <1>2, <1>7
  <2>2. "mov" \in PairOps /\ "mov" \notin {"add", "sub", "imul"} /\ "mov" # "xor"
    BY DEF PairOps, TwoOperandOps
  <2>3. Fits("mov", t) /\ Fits("mov", g)
    BY Precisions DEF Fits
  <2>4. Fine(Plain("mov", t, g), L, P)
    BY <1>7, <2>1, <2>2, <2>3, PairFine
  <2> QED
    BY <1>3, <1>7, <2>1, <2>4, MovFine
<1>8. ASSUME o.size = 16
      PROVE  /\ Fine(Copy("movdqu", f, t), K, P) /\ HasValue(f, K \union Gives(Copy("movdqu", f, t)))
             /\ \A L : K \subseteq L /\ Ready(f, L) =>
                   Fine(Copy("movdqu", t, f), L, P) /\ Fine(Plain("movdqu", t, f), L, P)
  <2>1. "movdqu" \in PairOps /\ "movdqu" \notin {"add", "sub", "imul", "xor"}
    BY DEF PairOps, TwoOperandOps
  <2>2. Fits("movdqu", f) /\ Fits("movdqu", t) /\ "movdqu" \in DOMAIN Carries
          /\ f.size = Carries["movdqu"] /\ t.size = Carries["movdqu"]
    BY <1>1, <1>8, Precisions DEF Fits
  <2>3. Fine(Copy("movdqu", f, t), K, P)
    BY <1>2, <1>3, <1>4, <2>1, <2>2, PairFine
  <2>4. ASSUME NEW L, K \subseteq L, Ready(f, L)
        PROVE  Fine(Copy("movdqu", t, f), L, P) /\ Fine(Plain("movdqu", t, f), L, P)
    <3>1. Inner(t, L)
      BY <1>2, <2>4
    <3> QED
      BY <1>3, <2>1, <2>2, <2>4, <3>1, PairFine
  <2> QED
    BY <2>3, <2>4, MovGives
<1> QED
  BY <1>4, <1>5, <1>6, <1>7, <1>8 DEF Ready, g, f

-----------------------------------------------------------------------------
\* Loading an address: afterwards what is to be used as one has a value.
LEMMA ToldLoad ==
  ASSUME NEW o, NEW n, NEW K, NEW P, Proper(o, K)
  PROVE  Told(Load(o, n), K, P) /\ Ready(Loaded(o, n), K \union AllGiven(Load(o, n)))
<1>1. CASE isMemTemp(o)
  <2> DEFINE x == Mov(Patch(o, n, "GP"), o)
  <2>1. Load(o, n) = <<x>> /\ Loaded(o, n) = Patch(o, n, "GP")
    BY <1>1 DEF Load, Loaded
  <2>2. Fine(x, K, P) /\ Ready(Patch(o, n, "GP"), K \union Gives(x))
    BY <1>1, PatchFine
  <2> HIDE DEF x
  <2>3. Told(<<x>>, K, P) /\ AllGiven(<<x>>) = Gives(x)
    BY <2>2, ToldOne
  <2> QED
    BY <2>1, <2>2, <2>3
<1>2. CASE ~isMemTemp(o)
  <2>1. Load(o, n) = <<>> /\ Loaded(o, n) = o
    BY <1>2 DEF Load, Loaded
  <2>2. Ready(o, K)
    BY ProperFacts
  <2> QED
    BY <2>1, <2>2, ToldNone
<1> QED
  BY <1>1, <1>2

\* Code after an address was loaded, and after two were.
LEMMA ToldAfterLoad ==
  ASSUME NEW o, NEW n, NEW K, NEW P, Proper(o, K), NEW t,
         \A L : K \subseteq L /\ Ready(Loaded(o, n), L) => Told(t, L, P)
  PROVE  Told(Load(o, n) \o t, K, P)
BY ToldLoad, ToldJoined

\* Code is fine after two operands were loaded.
LEMMA ToldAfterLoads ==
  ASSUME NEW b, NEW o, NEW n, NEW m, NEW K, NEW P, Proper(b, K), Proper(o, K), NEW t,
         \A L : K \subseteq L /\ Ready(Loaded(b, n), L) /\ Ready(Loaded(o, m), L) => Told(t, L, P)
  PROVE  Told(Load(b, n) \o Load(o, m) \o t, K, P)
<1> DEFINE s == Load(b, n)  u == Load(o, m)
<1>1. Told(s, K, P) /\ Ready(Loaded(b, n), K \union AllGiven(s))
  BY ToldLoad
<1>2. Proper(o, K \union AllGiven(s))
  BY ProperFacts
<1>3. Told(u, K \union AllGiven(s), P) /\ Ready(Loaded(o, m), (K \union AllGiven(s)) \union AllGiven(u))
  BY <1>2, ToldLoad
<1> HIDE DEF s, u
<1>4. Told(s \o u, K, P) /\ AllGiven(s \o u) = AllGiven(s) \union AllGiven(u)
  BY <1>1, <1>3, ToldJoined
<1>5. Ready(Loaded(b, n), (K \union AllGiven(s)) \union AllGiven(u))
  BY <1>1, ReadyMore
<1>6. Told(t, K \union AllGiven(s \o u), P)
  <2>1. (K \union AllGiven(s)) \union AllGiven(u) = K \union AllGiven(s \o u)
    BY <1>4
  <2> QED
    BY <1>3, <1>5, <2>1
<1>7. Told((s \o u) \o t, K, P)
  BY <1>4, <1>6, ToldJoined
<1> QED
  BY <1>7 DEF s, u

-----------------------------------------------------------------------------
\* Copies of large values

\* the operands in memory that a string move lists besides its registers
InMemoryOnly(list) == list = <<>> \/ \E o : list = <<o>> /\ isMemTemp(o)

\* The three registers of a string move, and operands in memory after them.
LEMMA RegistersFirst ==
  ASSUME NEW list, InMemoryOnly(list)
  PROVE  LET all == <<RSI, RDI, RCX>> \o list IN
         /\ {RSI, RDI, RCX} \subseteq ToSet(all)
         /\ \A o \in ToSet(all) : o \in {RSI, RDI, RCX} \/ isMemTemp(o)
<1> DEFINE r == <<RSI, RDI, RCX>>
<1>1. IsCode(r) /\ ToSet(r) = {RSI, RDI, RCX}
  <2>1. DOMAIN r = 1..3 /\ r[1] = RSI /\ r[2] = RDI /\ r[3] = RCX
    OBVIOUS
  <2>2. IsCode(r)
    BY ThreeAccepted
  <2> HIDE DEF r
  <2>3. \A k : k \in DOMAIN r <=> k = 1 \/ k = 2 \/ k = 3
    BY <2>1
  <2> QED
    BY <2>1, <2>2, <2>3 DEF ToSet
<1>2. IsCode(list) /\ \A o \in ToSet(list) : isMemTemp(o)
  <2>1. CASE list = <<>>
    <3>1. IsCode(list)
      BY <2>1, NoneAccepted
    <3>2. DOMAIN list = {}
      BY <2>1
    <3> QED
      BY <3>1, <3>2 DEF ToSet
  <2>2. CASE \E o : list = <<o>> /\ isMemTemp(o)
    <3>1. PICK o : list = <<o>> /\ isMemTemp(o)
      BY <2>2
    <3>2. IsCode(<<o>>)
      BY OneAccepted
    <3>3. ToSet(<<o>>) = {o}
      BY DEF ToSet
    <3> QED
      BY <3>1, <3>2, <3>3
  <2> QED
    BY <2>1, <2>2 DEF InMemoryOnly
<1> HIDE DEF r
<1>3. ToSet(r \o list) = ToSet(r) \union ToSet(list)
  BY <1>1, <1>2, JoinedMembers
<1> QED
  BY <1>1, <1>2, <1>3 DEF r

\* What is in memory may be listed anywhere.
LEMMA MemoryReady ==
  ASSUME NEW o, NEW K, isMemTemp(o)
  PROVE  Ready(o, K) /\ Inner(o, K)
<1>1. o.kind # "OFFSET"
  BY DEF isMemTemp
<1> QED
  BY <1>1, Valueless DEF Ready, Inner

\* A list of one.
LEMMA OneArgument ==
  ASSUME NEW a
  PROVE  DOMAIN <<a>> = 1..1 /\ <<a>>[1] = a
OBVIOUS

\* What an instruction with the string move's skeleton is.
LEMMA StringShaped ==
  ASSUME NEW x, x.op = "rep movs", NEW w, x.args = <<Width(w)>>,
         {RSI, RDI, RCX} \subseteq ToSet(x.uses), Gives(x) = {KeyOf(RSI), KeyOf(RDI), KeyOf(RCX)}
  PROVE  Shaped(x) /\ WidthAgrees(x)
<1>1. DOMAIN x.args = 1..1 /\ x.args[1] = Width(w)
  BY OneArgument, Zenon
<1>2. Width(w)[1] = "width"
  BY DEF Width
<1>3. x.args[1][1] = "width"
  BY <1>1, <1>2
<1>4. WidthAgrees(x)
  BY DEF WidthAgrees, Carries
<1> QED
  BY <1>1, <1>3, <1>4 DEF Shaped

\* The end of a copy runs when its two addresses are in the registers it takes them from.
LEMMA MemcpyFine ==
  ASSUME NEW size, NEW defs, NEW uses, NEW K, NEW P, InMemoryOnly(defs), InMemoryOnly(uses),
         KeyOf(RSI) \in K, KeyOf(RDI) \in K
  PROVE  LET c == FinishMemcpy(size, defs, uses) IN
         /\ Fine(c[1], K, P) /\ Fine(c[2], K \union Gives(c[1]), P)
         /\ "copies" \notin P => Fine(Moving(c[2], 4, 4), K \union Gives(c[1]), P)
<1> DEFINE c == FinishMemcpy(size, defs, uses)  x == c[1]  y == c[2]  m == Moving(y, 4, 4)
           L == K \union Gives(x)
<1>1. /\ x = Insn("mov", <<D, Imm(Word(size \div Unit(size)))>>, <<RCX>>, <<>>)
      /\ y.op = "rep movs" /\ y.args = <<Width(Unit(size))>> /\ y.move = <<>>
      /\ y.defs = <<RSI, RDI, RCX>> \o defs /\ y.uses = <<RSI, RDI, RCX>> \o uses
      /\ m.op = y.op /\ m.args = y.args /\ m.defs = y.defs /\ m.uses = y.uses
  BY DEF FinishMemcpy, Insn, Moving
<1>2. RCX.kind # "OFFSET"
  BY CopyRegisters
<1>3. Inner(RCX, K)
  BY <1>2 DEF Inner
<1>4. Fine(x, K, P)
  BY <1>1, <1>3, ImmediatesFine
<1>5. HasValue(RCX, K \union Gives(Insn("mov", <<D, Imm(Word(size \div Unit(size)))>>, <<RCX>>, <<>>)))
  BY MovGives
<1>6. KeyOf(RCX) \in L
  BY <1>1, <1>5, CopyRegisters DEF HasValue
<1> HIDE DEF m, c, x, y, L
<1>7. {RSI, RDI, RCX} \subseteq ToSet(y.uses) /\ \A o \in ToSet(y.uses) : o \in {RSI, RDI, RCX} \/ isMemTemp(o)
  BY <1>1, RegistersFirst
<1>8. {RSI, RDI, RCX} \subseteq ToSet(y.defs) /\ \A o \in ToSet(y.defs) : o \in {RSI, RDI, RCX} \/ isMemTemp(o)
  BY <1>1, RegistersFirst
<1>9. \A o : isMemTemp(o) => ~InRegister(o)
  BY Valueless
<1>10. Gives(y) = {KeyOf(RSI), KeyOf(RDI), KeyOf(RCX)}
  BY <1>8, <1>9, CopyRegisters DEF Gives
<1>11. Shaped(y) /\ WidthAgrees(y)
  BY <1>1, <1>7, <1>10, StringShaped
<1>12. \A o \in {RSI, RDI, RCX} : Ready(o, L) /\ Inner(o, L)
  BY <1>6, CopyRegisters DEF Ready, HasValue, Inner, L
<1>13. \A o \in Listed(y) : HasValue(o, L)
  <2>1. \A o \in ToSet(y.uses) : Ready(o, L)
    BY <1>7, <1>12, MemoryReady
  <2>2. \A o \in ToSet(y.defs) : Inner(o, L)
    BY <1>8, <1>12, MemoryReady
  <2> QED
    BY <2>1, <2>2, ListedFacts
<1>14. Runs(y, L, P)
  BY <1>1, <1>11, <1>13 DEF Runs
<1>15. Fine(y, L, P)
  BY <1>1, <1>14 DEF Fine
<1>16. Runs(m, L, P)
  BY <1>1, <1>14, RunsAlike
<1>17. "copies" \notin P => Fine(m, L, P)
  BY <1>1, <1>16 DEF Fine
<1> QED
  BY <1>4, <1>15, <1>17 DEF c, x, y, m, L

\* The same as code, after the two instructions that fetch the addresses.
LEMMA ToldCopy ==
  ASSUME NEW x, NEW y, NEW size, NEW defs, NEW uses, NEW K, NEW P, InMemoryOnly(defs), InMemoryOnly(uses),
         Fine(x, K, P), Fine(y, K \union Gives(x), P),
         KeyOf(RSI) \in Gives(x) \union Gives(y), KeyOf(RDI) \in Gives(x) \union Gives(y)
  PROVE  LET c == FinishMemcpy(size, defs, uses) IN
         /\ Told(<<x, y>> \o c, K, P)
         /\ "copies" \notin P => Told(<<x, y, c[1], Moving(c[2], 4, 4)>>, K, P)
<1> DEFINE c == FinishMemcpy(size, defs, uses)  p == c[1]  q == c[2]  m == Moving(q, 4, 4)
           L == (K \union Gives(x)) \union Gives(y)
<1>1. Told(<<x, y>>, K, P) /\ AllGiven(<<x, y>>) = Gives(x) \union Gives(y)
  BY ToldTwo
<1>2. KeyOf(RSI) \in L /\ KeyOf(RDI) \in L
  OBVIOUS
<1>3. Fine(p, L, P) /\ Fine(q, L \union Gives(p), P) /\ ("copies" \notin P => Fine(m, L \union Gives(p), P))
  BY <1>2, MemcpyFine
<1>4. c = <<p, q>>
  BY DEF FinishMemcpy
<1> HIDE DEF m, p, q, L, c
<1>5. Told(c, L, P)
  BY <1>3, <1>4, ToldTwo
<1>6. L = K \union AllGiven(<<x, y>>)
  BY <1>1 DEF L
<1>7. Told(<<x, y>> \o c, K, P)
  BY <1>1, <1>5, <1>6, ToldJoined
<1>8. "copies" \notin P => Told(<<x, y, p, m>>, K, P)
  BY <1>3, ToldFour DEF L
<1> QED
  BY <1>7, <1>8 DEF c, p, q, m

-----------------------------------------------------------------------------
\* ADDROF and the stores

\* One store.
LEMMA ToldStore ==
  ASSUME NEW op \in {"mov", "movss", "movsd", "movdqu"}, NEW z, NEW b, NEW o, NEW v, NEW K, NEW P,
         Ready(b, K), Ready(o, K), Ready(v, K), v.kind # "OFFSET",
         op \in DOMAIN Carries => z = 0 /\ v.size = Carries[op]
  PROVE  Told(StoreTo(op, z, b, o, v), K, P)
<1> DEFINE x == StoreTo(op, z, b, o, v)[1]
<1>1. Fine(x, K, P)
  BY StoreFine
<1>2. StoreTo(op, z, b, o, v) = <<x>>
  BY DEF StoreTo
<1> HIDE DEF x
<1> QED
  BY <1>1, <1>2, ToldOne

\* Its uses for values in registers.
LEMMA ToldStores ==
  ASSUME NEW b, NEW o, NEW v, NEW K, NEW P, Ready(b, K), Ready(o, K), Ready(v, K), v.kind # "OFFSET"
  PROVE  /\ \A z : Told(StoreTo("mov", z, b, o, v), K, P)
         /\ Told(StoreGp(b, o, v), K, P)
         /\ v.size \in {4, 8} => Told(StoreFp(b, o, v), K, P)
<1>1. \A z : Told(StoreTo("mov", z, b, o, v), K, P)
  BY ToldStore, Precisions
<1>2. ASSUME v.size \in {4, 8}
      PROVE  Told(StoreFp(b, o, v), K, P)
  <2>1. FpMove(v.size) \in {"movss", "movsd"} /\ Carries[FpMove(v.size)] = v.size
    BY <1>2, FpNames, Precisions
  <2> QED
    BY <2>1, ToldStore DEF StoreFp
<1> QED
  BY <1>1, <1>2 DEF StoreGp

\* A store of a patch, after the move to it.
LEMMA ToldPatchStored ==
  ASSUME NEW v, NEW n, NEW b, NEW o, NEW K, NEW P, Proper(v, K), isMemTemp(v), Ready(b, K), Ready(o, K)
  PROVE  LET g == Patch(v, n, "GP")  f == Patch(v, n, "FP") IN
         /\ \A z : Told(<<Mov(g, v)>> \o StoreTo("mov", z, b, o, g), K, P)
         /\ v.size = 16 => Told(<<Copy("movdqu", f, v)>> \o StoreTo("movdqu", 0, b, o, f), K, P)
<1> DEFINE g == Patch(v, n, "GP")  f == Patch(v, n, "FP")  x == Mov(g, v)  y == Copy("movdqu", f, v)
<1>1. Fine(x, K, P) /\ Ready(g, K \union Gives(x)) /\ g.kind # "OFFSET"
  BY PatchFine, PatchFacts
<1>2. v.size = 16 => Fine(y, K, P) /\ Ready(f, K \union Gives(y)) /\ f.kind # "OFFSET" /\ f.size = 16
  BY PatchFine, PatchFacts
<1> HIDE DEF g, f, x, y
<1>3. ASSUME NEW z
      PROVE  Told(<<x>> \o StoreTo("mov", z, b, o, g), K, P)
  <2>1. Told(<<x>>, K, P) /\ AllGiven(<<x>>) = Gives(x)
    BY <1>1, ToldOne
  <2>2. Ready(b, K \union Gives(x)) /\ Ready(o, K \union Gives(x))
    BY ReadyMore
  <2>3. Told(StoreTo("mov", z, b, o, g), K \union AllGiven(<<x>>), P)
    BY <1>1, <2>1, <2>2, ToldStores
  <2> QED
    BY <2>1, <2>3, ToldJoined
<1>4. ASSUME v.size = 16
      PROVE  Told(<<y>> \o StoreTo("movdqu", 0, b, o, f), K, P)
  <2>1. Told(<<y>>, K, P) /\ AllGiven(<<y>>) = Gives(y)
    BY <1>2, <1>4, ToldOne
  <2>2. Ready(b, K \union Gives(y)) /\ Ready(o, K \union Gives(y))
    BY ReadyMore
  <2>3. Told(StoreTo("movdqu", 0, b, o, f), K \union AllGiven(<<y>>), P)
    BY <1>2, <1>4, <2>1, <2>2, ToldStore, Precisions
  <2> QED
    BY <2>1, <2>3, ToldJoined
<1> QED
  BY <1>3, <1>4 DEF g, f, x, y

\* The copies of large values to and from an address.
LEMMA ToldCopies ==
  ASSUME NEW b, NEW o, NEW v, NEW size, NEW defs, NEW uses, NEW K, NEW P, Ready(b, K), Ready(o, K),
         InMemoryOnly(defs), InMemoryOnly(uses)
  PROVE  /\ Ready(v, K) =>
              /\ Told(<<LeaTemp(RSI, v), LeaAt(RDI, b, o)>> \o FinishMemcpy(size, defs, uses), K, P)
              /\ Told(<<LeaAt(RSI, b, o), LeaTemp(RDI, v)>> \o FinishMemcpy(size, defs, uses), K, P)
         /\ Told(<<LeaFrag(RSI, v), LeaAt(RDI, b, o)>> \o FinishMemcpy(size, defs, uses), K, P)
<1>1. \A L : Ready(b, K \union L) /\ Ready(o, K \union L) /\ (Ready(v, K) => Ready(v, K \union L))
  BY ReadyMore
<1>2. ASSUME NEW r \in {RSI, RDI}, NEW L
      PROVE  /\ Fine(LeaAt(r, b, o), K \union L, P) /\ Gives(LeaAt(r, b, o)) = {KeyOf(r)}
             /\ Fine(LeaFrag(r, v), K, P) /\ Gives(LeaFrag(r, v)) = {KeyOf(r)}
             /\ Ready(v, K) => Fine(LeaTemp(r, v), K \union L, P) /\ Gives(LeaTemp(r, v)) = {KeyOf(r)}
  <2>1. Fine(LeaAt(r, b, o), K \union L, P) /\ Gives(LeaAt(r, b, o)) = {KeyOf(r)}
    <3> DEFINE M == K \union L
    <3>1. Ready(b, M) /\ Ready(o, M)
      BY <1>1
    <3> HIDE DEF M
    <3>2. Fine(LeaAt(r, b, o), M, P) /\ Gives(LeaAt(r, b, o)) = {KeyOf(r)}
      BY <3>1, LeaFine
    <3> QED
      BY <3>2 DEF M
  <2>2. Fine(LeaFrag(r, v), K, P) /\ Gives(LeaFrag(r, v)) = {KeyOf(r)}
    BY LeaFine
  <2>3. Ready(v, K) => Fine(LeaTemp(r, v), K \union L, P) /\ Gives(LeaTemp(r, v)) = {KeyOf(r)}
    BY <1>1, LeaFine
  <2> QED
    BY <2>1, <2>2, <2>3
<1>a. K = K \union {}
  OBVIOUS
<1>3. ASSUME Ready(v, K)
      PROVE  Told(<<LeaTemp(RSI, v), LeaAt(RDI, b, o)>> \o FinishMemcpy(size, defs, uses), K, P)
  <2> DEFINE x == LeaTemp(RSI, v)  y == LeaAt(RDI, b, o)
  <2>1. Fine(x, K, P) /\ Gives(x) = {KeyOf(RSI)} /\ Fine(y, K \union Gives(x), P) /\ Gives(y) = {KeyOf(RDI)}
    BY <1>2, <1>3, <1>a
  <2> HIDE DEF x, y
  <2> QED
    BY <2>1, ToldCopy DEF x, y
<1>4. ASSUME Ready(v, K)
      PROVE  Told(<<LeaAt(RSI, b, o), LeaTemp(RDI, v)>> \o FinishMemcpy(size, defs, uses), K, P)
  <2> DEFINE x == LeaAt(RSI, b, o)  y == LeaTemp(RDI, v)
  <2>1. Fine(x, K, P) /\ Gives(x) = {KeyOf(RSI)} /\ Fine(y, K \union Gives(x), P) /\ Gives(y) = {KeyOf(RDI)}
    BY <1>2, <1>4, <1>a
  <2> HIDE DEF x, y
  <2> QED
    BY <2>1, ToldCopy DEF x, y
<1>5. Told(<<LeaFrag(RSI, v), LeaAt(RDI, b, o)>> \o FinishMemcpy(size, defs, uses), K, P)
  <2> DEFINE x == LeaFrag(RSI, v)  y == LeaAt(RDI, b, o)
  <2>1. Fine(x, K, P) /\ Gives(x) = {KeyOf(RSI)} /\ Fine(y, K \union Gives(x), P) /\ Gives(y) = {KeyOf(RDI)}
    BY <1>2
  <2> HIDE DEF x, y
  <2> QED
    BY <2>1, ToldCopy DEF x, y
<1> QED
  BY <1>3, <1>4, <1>5

\* Values in memory, stored by parts.
LEMMA ToldStoreMem ==
  ASSUME NEW b, NEW o, NEW v, NEW n, NEW move16 \in {"mov", "movdqu"}, NEW K, NEW P,
         Ready(b, K), Ready(o, K), Proper(v, K), isMemTemp(v), move16 = "mov" => v.size # 16
  PROVE  Told(StoreMem(b, o, v, n, move16), K, P)
<1> DEFINE g == Patch(v, n, "GP")
<1>1. CASE v.size \in MovableSizes
  <2>1. StoreMem(b, o, v, n, move16) = <<Mov(g, v)>> \o StoreTo("mov", g.size, b, o, g)
    BY <1>1 DEF StoreMem, StoreGp, MovableSizes
  <2> HIDE DEF g
  <2> QED
    BY <2>1, ToldPatchStored DEF g
<1>2. CASE v.size = 16
  <2>1. StoreMem(b, o, v, n, move16)
          = <<Copy("movdqu", Patch(v, n, "FP"), v)>> \o StoreTo("movdqu", 0, b, o, Patch(v, n, "FP"))
    BY <1>2 DEF StoreMem, MovableSizes
  <2> QED
    BY <1>2, <2>1, ToldPatchStored
<1>3. CASE v.size \notin MovableSizes \union {16}
  <2>1. StoreMem(b, o, v, n, move16) = <<LeaTemp(RSI, v), LeaAt(RDI, b, o)>> \o FinishMemcpy(v.size, <<>>, <<v>>)
    BY <1>3 DEF StoreMem
  <2>2. InMemoryOnly(<<>>) /\ InMemoryOnly(<<v>>)
    BY DEF InMemoryOnly
  <2>3. Ready(v, K)
    BY ProperFacts
  <2> QED
    BY <2>1, <2>2, <2>3, ToldCopies
<1> QED
  BY <1>1, <1>2, <1>3

\* Constants, stored as they are or copied.
LEMMA ToldStoreConst ==
  ASSUME NEW b, NEW o, NEW c, NEW K, NEW P, Ready(b, K), Ready(o, K), Proper(c, K)
  PROVE  Told(StoreConst(b, o, c), K, P)
<1>1. Ready(c, K) /\ c.kind # "OFFSET"
  BY ProperFacts
<1>2. InMemoryOnly(<<>>)
  BY DEF InMemoryOnly
<1>3. CASE c.size \in MovableSizes
  <2>1. StoreConst(b, o, c) = StoreGp(b, o, c)
    BY <1>3 DEF StoreConst
  <2> QED
    BY <1>1, <2>1, ToldStores
<1>4. CASE c.size \notin MovableSizes
  <2>1. StoreConst(b, o, c) = <<LeaFrag(RSI, c), LeaAt(RDI, b, o)>> \o FinishMemcpy(c.size, <<>>, <<>>)
    BY <1>4 DEF StoreConst
  <2> QED
    BY <1>2, <2>1, ToldCopies
<1> QED
  BY <1>3, <1>4

\* MEM_STORE at a base that is not in memory.
LEMMA ToldStoreNear ==
  ASSUME NEW b, NEW v, NEW o, NEW n, NEW K, NEW P, Proper(b, K), Proper(o, K), Proper(v, K)
  PROVE  /\ isGp(v) => Told(StoreGpGp(b, v, o, n), K, P)
         /\ isFp(v) => Told(StoreGpFp(b, v, o, n), K, P)
         /\ isMemTemp(v) => Told(StoreGpMem(b, v, o, n), K, P)
         /\ isConst(v) => Told(StoreGpConst(b, v, o, n), K, P)
<1>1. ASSUME NEW L, K \subseteq L
      PROVE  Ready(b, L) /\ Proper(v, L) /\ Ready(v, L) /\ v.kind # "OFFSET"
  BY <1>1, ProperFacts
<1> DEFINE p == Loaded(o, n)
<1>2. ASSUME isGp(v)
      PROVE  Told(StoreGpGp(b, v, o, n), K, P)
  <2>1. \A L : K \subseteq L /\ Ready(p, L) => Told(StoreGp(b, p, v), L, P)
    <3> HIDE DEF p
    <3> QED
      BY <1>1, ToldStores
  <2> QED
    BY <2>1, ToldAfterLoad DEF StoreGpGp
<1>3. ASSUME isFp(v)
      PROVE  Told(StoreGpFp(b, v, o, n), K, P)
  <2>1. v.size \in {4, 8}
    BY <1>3 DEF Proper
  <2>2. \A L : K \subseteq L /\ Ready(p, L) => Told(StoreFp(b, p, v), L, P)
    <3> HIDE DEF p
    <3> QED
      BY <1>1, <2>1, ToldStores
  <2> QED
    BY <2>2, ToldAfterLoad DEF StoreGpFp
<1>4. ASSUME isMemTemp(v)
      PROVE  Told(StoreGpMem(b, v, o, n), K, P)
  <2>1. \A L : K \subseteq L /\ Ready(p, L) => Told(StoreMem(b, p, v, After(o, n), "movdqu"), L, P)
    <3> HIDE DEF p
    <3> QED
      BY <1>1, <1>4, ToldStoreMem
  <2> QED
    BY <2>1, ToldAfterLoad DEF StoreGpMem
<1>5. ASSUME isConst(v)
      PROVE  Told(StoreGpConst(b, v, o, n), K, P)
  <2>1. \A L : K \subseteq L /\ Ready(p, L) => Told(StoreConst(b, p, v), L, P)
    <3> HIDE DEF p
    <3> QED
      BY <1>1, ToldStoreConst
  <2> QED
    BY <2>1, ToldAfterLoad DEF StoreGpConst
<1> QED
  BY <1>2, <1>3, <1>4, <1>5

\* MEM_STORE at a base that is in memory, in the arms the assembler takes.
LEMMA ToldStoreFar ==
  ASSUME NEW b, NEW v, NEW o, NEW n, NEW K, NEW P, Proper(b, K), Proper(o, K), Proper(v, K)
  PROVE  /\ isGp(v) => Told(StoreMemGp(b, v, o, n), K, P)
         /\ isMemTemp(v) /\ v.size # 16 => Told(StoreMemMem(b, v, o, n), K, P)
         /\ isConst(v) /\ ~isConst(o) => Told(StoreMemConst(b, v, o, n), K, P)
<1>1. ASSUME NEW L, K \subseteq L
      PROVE  Proper(v, L) /\ Ready(v, L) /\ v.kind # "OFFSET"
  BY <1>1, ProperFacts
<1> DEFINE q == Loaded(b, n)  p == Loaded(o, n + 1)
<1>2. ASSUME isGp(v)
      PROVE  Told(StoreMemGp(b, v, o, n), K, P)
  <2>1. \A L : K \subseteq L /\ Ready(q, L) /\ Ready(p, L) => Told(StoreGp(q, p, v), L, P)
    <3> HIDE DEF p, q
    <3> QED
      BY <1>1, ToldStores
  <2> QED
    BY <2>1, ToldAfterLoads DEF StoreMemGp
<1>3. ASSUME isMemTemp(v), v.size # 16
      PROVE  Told(StoreMemMem(b, v, o, n), K, P)
  <2>1. \A L : K \subseteq L /\ Ready(q, L) /\ Ready(p, L) => Told(StoreMem(q, p, v, After(o, n + 1), "mov"), L, P)
    <3> HIDE DEF p, q
    <3> QED
      BY <1>1, <1>3, ToldStoreMem
  <2> QED
    BY <2>1, ToldAfterLoads DEF StoreMemMem
<1>4. ASSUME isConst(v), ~isConst(o)
      PROVE  Told(StoreMemConst(b, v, o, n), K, P)
  <2>1. \A L : K \subseteq L /\ Ready(q, L) /\ Ready(p, L) => Told(StoreConst(q, p, v), L, P)
    <3> HIDE DEF p, q
    <3> QED
      BY <1>1, ToldStoreConst
  <2> QED
    BY <1>4, <2>1, ToldAfterLoads DEF StoreMemConst
<1> QED
  BY <1>2, <1>3, <1>4

\* MEM_STORE, in all arms whose code the assembler takes.
LEMMA ToldMemStore ==
  ASSUME NEW b, NEW v, NEW o, NEW n, NEW K, NEW P, Proper(b, K), Proper(o, K), Proper(v, K),
         ~isFp(b), ~isFp(o), Accepted(SelectMemStore(b, v, o, n)),
         isMemTemp(b) => ~(isFp(v) \/ (isConst(v) /\ isConst(o)) \/ (isMemTemp(v) /\ v.size = 16))
  PROVE  Told(SelectMemStore(b, v, o, n), K, P)
<1>1. /\ isGp(b) \/ isMemTemp(b) \/ isConst(b)
      /\ isGp(b) => ~isMemTemp(b) /\ ~isConst(b)
      /\ isMemTemp(b) => ~isConst(b)
  BY OperandFacts DEF Proper
<1>2. /\ isGp(v) \/ isFp(v) \/ isMemTemp(v) \/ isConst(v)
      /\ isGp(v) => ~isFp(v) /\ ~isMemTemp(v) /\ ~isConst(v)
      /\ isFp(v) => ~isMemTemp(v) /\ ~isConst(v)
      /\ isMemTemp(v) => ~isConst(v)
  BY OperandFacts DEF Proper
<1>3. CASE isMemTemp(b)
  BY <1>1, <1>2, <1>3, ToldStoreFar DEF SelectMemStore
<1>4. CASE ~isMemTemp(b)
  <2>1. SelectMemStore(b, v, o, n) # Unhandled
    BY NeverAccepted
  <2>2. CASE isGp(b)
    BY <1>1, <1>2, <2>2, ToldStoreNear DEF SelectMemStore
  <2>3. CASE isConst(b)
    <3>1. isGp(v) => SelectMemStore(b, v, o, n) = StoreGpGp(b, v, o, n)
      BY <1>1, <1>2, <2>3 DEF SelectMemStore, StoreConstGp, StoreGpGp
    <3>2. isFp(v) => SelectMemStore(b, v, o, n) = StoreGpFp(b, v, o, n)
      BY <1>1, <1>2, <2>3 DEF SelectMemStore, StoreConstFp, StoreGpFp
    <3>3. isMemTemp(v) => SelectMemStore(b, v, o, n) = StoreGpMem(b, v, o, n)
      <4>1. isMemTemp(v) => SelectMemStore(b, v, o, n) = StoreConstMem(b, v, o, n)
        BY <1>1, <1>2, <2>3 DEF SelectMemStore
      <4>2. StoreConstMem(b, v, o, n) = Unhandled \/ StoreConstMem(b, v, o, n) = StoreGpMem(b, v, o, n)
        BY DEF StoreConstMem, StoreGpMem
      <4> QED
        BY <2>1, <4>1, <4>2
    <3>4. isConst(v) => SelectMemStore(b, v, o, n) = StoreGpConst(b, v, o, n)
      BY <1>1, <1>2, <2>3 DEF SelectMemStore, StoreConstConst, StoreGpConst
    <3> QED
      BY <1>2, <3>1, <3>2, <3>3, <3>4, ToldStoreNear
  <2> QED
    BY <1>1, <1>4, <2>2, <2>3
<1> QED
  BY <1>3, <1>4

-----------------------------------------------------------------------------
\* ADDROF and MOVE

\* An instruction of two operands that is not marked as a move.
LEMMA PlainFine ==
  ASSUME NEW op \in {"mov", "lea", "movss", "movsd", "movdqu", "movd", "movq"}, NEW d, NEW s, NEW K, NEW P,
         Ready(s, K), Inner(d, K), "width" \in P => Fits(op, d) /\ Fits(op, s)
  PROVE  Fine(Plain(op, d, s), K, P)
<1>1. op \in PairOps /\ op \notin {"add", "sub", "imul", "xor"}
  BY DEF PairOps, TwoOperandOps
<1> QED
  BY <1>1, PairFine

\* What is not about floating point values fits every width.
LEMMA AnyWidth ==
  ASSUME NEW o
  PROVE  /\ \A op \in {"mov", "add", "sub", "xor", "imul", "lea", "movsx"} : Fits(op, o)
         /\ o.size \in {4, 8} => Fits(FpMove(o.size), o) /\ Fits(FpBits(o.size), o)
BY Precisions DEF Fits

\* ADDROF.
LEMMA ToldAddrof ==
  ASSUME NEW d, NEW s, NEW n, NEW K, NEW P, Proper(d, K), Proper(s, K), isGp(d) \/ isMemTemp(d), isMemTemp(s)
  PROVE  Told(SelectAddrof(d, s, n), K, P)
<1>1. isGp(d) => ~isMemTemp(d)
  BY OperandFacts DEF Proper
<1>2. Ready(s, K) /\ Inner(d, K)
  BY ProperFacts
<1>3. CASE isGp(d)
  <2>1. SelectAddrof(d, s, n) = <<Plain("lea", d, s)>>
    BY <1>1, <1>3 DEF SelectAddrof
  <2>2. Fine(Plain("lea", d, s), K, P)
    BY <1>2, PlainFine, AnyWidth
  <2> QED
    BY <2>1, <2>2, ToldOne
<1>4. CASE isMemTemp(d)
  <2> DEFINE g == Patch(d, n, "GP")  x == Plain("lea", g, s)  y == Mov(d, g)
  <2>1. SelectAddrof(d, s, n) = <<x, y>>
    BY <1>1, <1>4 DEF SelectAddrof
  <2>2. g.kind # "OFFSET"
    BY PatchFacts
  <2>3. \A L : K \subseteq L /\ Ready(g, L) => Fine(y, L, P)
    BY <1>4, PatchFine
  <2>4. HasValue(g, K \union Gives(x))
    BY MovGives
  <2> HIDE DEF g, y
  <2>5. Fine(x, K, P)
    BY <1>2, <2>2, PlainFine, AnyWidth DEF Inner
  <2> HIDE DEF x
  <2>6. Fine(y, K \union Gives(x), P)
    BY <2>2, <2>3, <2>4 DEF Ready, Inner
  <2> QED
    BY <2>1, <2>5, <2>6, ToldTwo
<1> QED
  BY <1>3, <1>4

\* Two operands of one size are alike.
LEMMA ProperTwins ==
  ASSUME NEW d, NEW s, NEW K, Proper(d, K), Proper(s, K), d.size = s.size
  PROVE  Twins(d, s)
BY ProperFacts DEF Twins, Proper

\* MOVE between places of which one is a register.
LEMMA ToldMoveRegisters ==
  ASSUME NEW d, NEW s, NEW K, NEW P, Proper(d, K), Proper(s, K), ~isConst(d), d.size = s.size,
         ~(isMemTemp(d) /\ (isMemTemp(s) \/ isConst(s)))
  PROVE  Told(MoveRegisters(d, s), K, P)
<1>1. /\ isConst(s) \/ isGp(s) \/ isFp(s) \/ isMemTemp(s)
      /\ isGp(s) => ~isFp(s) /\ ~isMemTemp(s) /\ ~isConst(s)
      /\ isFp(s) => ~isMemTemp(s) /\ ~isConst(s)
      /\ isMemTemp(s) => ~isConst(s)
  BY OperandFacts DEF Proper
<1>2. /\ isGp(d) \/ isFp(d) \/ isMemTemp(d)
      /\ isGp(d) => ~isFp(d) /\ ~isMemTemp(d)
      /\ isFp(d) => ~isMemTemp(d)
  BY OperandFacts DEF Proper
<1>3. Ready(s, K) /\ Inner(d, K) /\ d.kind # "OFFSET" /\ Twins(d, s)
  BY ProperFacts, ProperTwins
<1>4. ASSUME NEW op \in {"movss", "movsd", "movd", "movq"}, Carries[op] = s.size
      PROVE  Told(<<Copy(op, d, s)>>, K, P)
  <2>1. op \in PairOps /\ op \in DOMAIN Carries
    BY DEF PairOps, TwoOperandOps, Carries
  <2>2. Fits(op, d) /\ Fits(op, s) /\ d.size = Carries[op]
    BY <1>4 DEF Fits
  <2>3. Fine(Copy(op, d, s), K, P)
    BY <1>3, <2>1, <2>2, PairFine
  <2> QED
    BY <2>3, ToldOne
<1>5. isFp(d) \/ isFp(s) => s.size \in {4, 8}
  BY DEF Proper
<1>6. CASE Among(d, s, isGp(d), isGp(s))
  <2>1. MoveRegisters(d, s) = <<Mov(d, s)>>
    BY <1>1, <1>2, <1>6 DEF MoveRegisters, Among
  <2>2. Fine(Mov(d, s), K, P)
    BY <1>3, MovFine
  <2> QED
    BY <2>1, <2>2, ToldOne
<1>7. CASE (isGp(d) /\ isFp(s)) \/ (isFp(d) /\ isGp(s))
  <2>1. MoveRegisters(d, s) = <<Copy(FpBits(s.size), d, s)>>
    BY <1>1, <1>2, <1>7 DEF MoveRegisters, Among
  <2>2. FpBits(s.size) \in {"movd", "movq"} /\ Carries[FpBits(s.size)] = s.size
    BY <1>5, <1>7, FpNames, Precisions
  <2> QED
    BY <1>4, <2>1, <2>2
<1>8. CASE isGp(d) /\ isConst(s)
  <2>1. MoveRegisters(d, s) = <<Insn("mov", <<D, Imm(s.value)>>, <<d>>, <<>>)>>
    BY <1>1, <1>2, <1>8 DEF MoveRegisters, Among
  <2>2. Fine(Insn("mov", <<D, Imm(s.value)>>, <<d>>, <<>>), K, P)
    BY <1>3, ImmediatesFine
  <2> QED
    BY <2>1, <2>2, ToldOne
<1>9. CASE Among(d, s, isFp(d), isFp(s))
  <2>1. MoveRegisters(d, s) = <<Copy(FpMove(s.size), d, s)>>
    BY <1>1, <1>2, <1>9 DEF MoveRegisters, Among
  <2>2. FpMove(s.size) \in {"movss", "movsd"} /\ Carries[FpMove(s.size)] = s.size
    BY <1>5, <1>9, FpNames, Precisions DEF Among
  <2> QED
    BY <1>4, <2>1, <2>2
<1>10. CASE isFp(d) /\ isConst(s)
  <2> DEFINE x == Insn(FpMove(s.size), <<D, At(0, Frag(s), Imm(Word(0)))>>, <<d>>, <<>>)
  <2>1. MoveRegisters(d, s) = <<x>>
    BY <1>1, <1>2, <1>10 DEF MoveRegisters, Among
  <2>2. FpMove(s.size) \in {"movss", "movsd"} /\ Carries[FpMove(s.size)] = d.size
    BY <1>5, <1>10, FpNames, Precisions
  <2>3. Fine(x, K, P)
    BY <1>3, <2>2, FragmentFine
  <2> HIDE DEF x
  <2> QED
    BY <2>1, <2>3, ToldOne
<1> QED
  BY <1>1, <1>2, <1>6, <1>7, <1>8, <1>9, <1>10 DEF Among

\* The addresses of two operands, fetched for a copy.
LEMMA ToldAddresses ==
  ASSUME NEW s, NEW d, NEW size, NEW defs, NEW uses, NEW K, NEW P, InMemoryOnly(defs), InMemoryOnly(uses),
         Ready(d, K)
  PROVE  /\ Told(<<LeaFrag(RSI, s), LeaTemp(RDI, d)>> \o FinishMemcpy(size, defs, uses), K, P)
         /\ Ready(s, K) /\ "copies" \notin P =>
              LET c == FinishMemcpy(size, defs, uses) IN
              Told(<<LeaTemp(RSI, s), LeaTemp(RDI, d), c[1], Moving(c[2], 4, 4)>>, K, P)
<1> DEFINE f == LeaFrag(RSI, s)  x == LeaTemp(RSI, s)  y == LeaTemp(RDI, d)
<1>1. Fine(f, K, P) /\ Gives(f) = {KeyOf(RSI)}
  BY LeaFine
<1>2. \A L : Fine(y, K \union L, P) /\ Gives(y) = {KeyOf(RDI)}
  BY ReadyMore, LeaFine
<1>3. Ready(s, K) => Fine(x, K, P) /\ Gives(x) = {KeyOf(RSI)}
  BY LeaFine
<1> HIDE DEF f, x, y
<1>4. Told(<<f, y>> \o FinishMemcpy(size, defs, uses), K, P)
  BY <1>1, <1>2, ToldCopy
<1>5. ASSUME Ready(s, K), "copies" \notin P
      PROVE  LET c == FinishMemcpy(size, defs, uses) IN
             Told(<<x, y, c[1], Moving(c[2], 4, 4)>>, K, P)
  BY <1>2, <1>3, <1>5, ToldCopy
<1> QED
  BY <1>4, <1>5 DEF f, x, y

\* MOVE from memory to memory: only the copy of a large value is marked for more than a copy.
LEMMA ToldMoveMemory ==
  ASSUME NEW d, NEW s, NEW n, NEW K, NEW P, Proper(d, K), Proper(s, K), d.size = s.size,
         isMemTemp(d), isMemTemp(s), "copies" \in P => s.size \in MovableSizes \union {16}
  PROVE  Told(MoveMemory(d, s, n), K, P)
<1> DEFINE g == Patch(s, n, "GP")  f == Patch(s, n, "FP")  z == Mov(g, s)  y == Mov(d, g)
           u == Copy("movdqu", f, s)  v == Copy("movdqu", d, f)
<1>1. Fine(z, K, P) /\ Ready(g, K \union Gives(z))
  BY PatchFine
<1>2. \A L : K \subseteq L /\ Ready(g, L) => Fine(y, L, P)
  BY PatchFine
<1>3. s.size = 16 => Fine(u, K, P) /\ Ready(f, K \union Gives(u))
  BY PatchFine
<1>4. s.size = 16 => \A L : K \subseteq L /\ Ready(f, L) => Fine(v, L, P)
  BY PatchFine
<1>5. CASE s.size \in MovableSizes
  <2>1. MoveMemory(d, s, n) = <<z, y>>
    BY <1>5 DEF MoveMemory, MovableSizes
  <2> HIDE DEF g, z, y
  <2>2. Fine(y, K \union Gives(z), P)
    BY <1>1, <1>2
  <2> QED
    BY <1>1, <2>1, <2>2, ToldTwo
<1>6. CASE s.size = 16
  <2>1. MoveMemory(d, s, n) = <<u, v>>
    BY <1>6 DEF MoveMemory, MovableSizes
  <2> HIDE DEF f, u, v
  <2>2. Fine(u, K, P) /\ Fine(v, K \union Gives(u), P)
    BY <1>3, <1>4, <1>6
  <2> QED
    BY <2>1, <2>2, ToldTwo
<1>7. CASE s.size \notin MovableSizes \union {16}
  <2> DEFINE c == FinishMemcpy(s.size, <<d>>, <<s>>)
  <2>1. MoveMemory(d, s, n) = <<LeaTemp(RSI, s), LeaTemp(RDI, d), c[1], Moving(c[2], 4, 4)>>
    BY <1>7 DEF MoveMemory
  <2>2. InMemoryOnly(<<d>>) /\ InMemoryOnly(<<s>>)
    BY DEF InMemoryOnly
  <2>3. Ready(d, K) /\ Ready(s, K)
    BY ProperFacts
  <2>4. "copies" \notin P
    BY <1>7
  <2> QED
    BY <2>1, <2>2, <2>3, <2>4, ToldAddresses
<1> QED
  BY <1>5, <1>6, <1>7

\* MOVE.
LEMMA ToldMove ==
  ASSUME NEW d, NEW s, NEW n, NEW K, NEW P, Proper(d, K), Proper(s, K), ~isConst(d), d.size = s.size,
         "copies" \in P => ~(isMemTemp(d) /\ isMemTemp(s) /\ s.size \notin MovableSizes \union {16})
  PROVE  Told(SelectMove(d, s, n), K, P)
<1>1. isMemTemp(s) => ~isConst(s)
  BY OperandFacts DEF Proper
<1>2. CASE isMemTemp(d) /\ isMemTemp(s)
  <2>1. SelectMove(d, s, n) = MoveMemory(d, s, n)
    BY <1>1, <1>2 DEF SelectMove
  <2>2. "copies" \in P => s.size \in MovableSizes \union {16}
    BY <1>2
  <2>3. Told(MoveMemory(d, s, n), K, P)
    BY <1>2, <2>2, ToldMoveMemory
  <2> QED
    BY <2>1, <2>3
<1>3. CASE isMemTemp(d) /\ isConst(s)
  <2>1. SelectMove(d, s, n) = MoveConstToMemory(d, s)
    BY <1>1, <1>3 DEF SelectMove
  <2>2. CASE s.size \in MovableSizes
    <3>1. MoveConstToMemory(d, s) = <<Insn("mov", <<D, Imm(s.value)>>, <<d>>, <<>>)>>
      BY <2>2 DEF MoveConstToMemory
    <3>2. Fine(Insn("mov", <<D, Imm(s.value)>>, <<d>>, <<>>), K, P)
      BY ProperFacts, ImmediatesFine
    <3> QED
      BY <2>1, <3>1, <3>2, ToldOne
  <2>3. CASE s.size \notin MovableSizes
    <3>1. MoveConstToMemory(d, s) = <<LeaFrag(RSI, s), LeaTemp(RDI, d)>> \o FinishMemcpy(s.size, <<d>>, <<>>)
      BY <2>3 DEF MoveConstToMemory
    <3>2. InMemoryOnly(<<d>>) /\ InMemoryOnly(<<>>)
      BY <1>3 DEF InMemoryOnly
    <3>3. Ready(d, K)
      BY ProperFacts
    <3> QED
      BY <2>1, <3>1, <3>2, <3>3, ToldAddresses
  <2> QED
    BY <2>2, <2>3
<1>4. CASE ~(isMemTemp(d) /\ (isMemTemp(s) \/ isConst(s)))
  <2>1. SelectMove(d, s, n) = MoveRegisters(d, s)
    BY <1>4 DEF SelectMove
  <2> QED
    BY <1>4, <2>1, ToldMoveRegisters
<1> QED
  BY <1>2, <1>3, <1>4

-----------------------------------------------------------------------------
\* Loads

\* One load.
LEMMA ToldLoadFrom ==
  ASSUME NEW op \in {"mov", "movss", "movsd", "movdqu"}, NEW z, NEW d, NEW b, NEW o, NEW K, NEW P,
         Ready(b, K), Ready(o, K), d.kind # "OFFSET",
         "width" \in P => (op \in DOMAIN Carries => z = 0 /\ d.size = Carries[op])
  PROVE  Told(LoadFrom(op, z, d, b, o), K, P) /\ Ready(d, K \union AllGiven(LoadFrom(op, z, d, b, o)))
<1> DEFINE x == LoadFrom(op, z, d, b, o)[1]
<1>1. Fine(x, K, P)
  BY LoadFine
<1>2. LoadFrom(op, z, d, b, o) = <<x>>
  BY DEF LoadFrom
<1>3. x = Insn(op, <<D, At(z, Slot(b), Slot(o))>>, <<d>>, Used(b) \o Used(o))
  BY DEF LoadFrom
<1>4. HasValue(d, K \union Gives(Insn(op, <<D, At(z, Slot(b), Slot(o))>>, <<d>>, Used(b) \o Used(o))))
  BY MovGives
<1>5. HasValue(d, K \union Gives(x))
  BY <1>3, <1>4
<1> HIDE DEF x
<1>6. Told(<<x>>, K, P) /\ AllGiven(<<x>>) = Gives(x)
  BY <1>1, ToldOne
<1> QED
  BY <1>2, <1>5, <1>6 DEF Ready, Inner

\* A load to a register of the width of the destination.
LEMMA ToldLoadGp ==
  ASSUME NEW d, NEW b, NEW o, NEW K, NEW P, Ready(b, K), Ready(o, K), d.kind # "OFFSET"
  PROVE  Told(LoadGp(d, b, o), K, P) /\ \A z : Told(LoadFrom("mov", z, d, b, o), K, P)
BY ToldLoadFrom, Precisions DEF LoadGp

\* A load whose width is that of the address.
LEMMA ToldLoadFp ==
  ASSUME NEW d, NEW b, NEW o, NEW K, NEW P, Ready(b, K), Ready(o, K), d.kind # "OFFSET",
         b.size = 8, "width" \in P => d.size = 8
  PROVE  Told(LoadFp(d, b, o), K, P)
<1>1. FpMove(b.size) \in {"movss", "movsd"} /\ Carries[FpMove(b.size)] = 8
  BY FpNames, Precisions
<1> QED
  BY <1>1, ToldLoadFrom DEF LoadFp

\* A load to memory through a register.
LEMMA ToldThrough ==
  ASSUME NEW d, NEW b, NEW o, NEW n, NEW K, NEW P, Ready(b, K), Ready(o, K), Proper(d, K), isMemTemp(d)
  PROVE  Told(ThroughPatch(d, b, o, n), K, P)
<1> DEFINE g == Patch(d, n, "GP")  s == LoadFrom("mov", g.size, g, b, o)  y == Mov(d, g)
<1>1. g.kind # "OFFSET"
  BY PatchFacts
<1>2. \A L : K \subseteq L /\ Ready(g, L) => Fine(y, L, P)
  BY PatchFine
<1>3. ThroughPatch(d, b, o, n) = s \o <<y>>
  BY DEF ThroughPatch, LoadGp
<1> HIDE DEF y, g
<1>4. Told(s, K, P) /\ Ready(g, K \union AllGiven(s))
  BY <1>1, ToldLoadFrom, Precisions
<1> HIDE DEF s
<1>5. Told(<<y>>, K \union AllGiven(s), P)
  BY <1>2, <1>4, ToldOne
<1> QED
  BY <1>3, <1>4, <1>5, ToldJoined

\* A load to memory by a copy.
LEMMA ToldCopyFrom ==
  ASSUME NEW d, NEW b, NEW o, NEW K, NEW P, Ready(b, K), Ready(o, K), Proper(d, K), isMemTemp(d)
  PROVE  Told(CopyFrom(d, b, o), K, P)
<1>1. InMemoryOnly(<<d>>) /\ InMemoryOnly(<<>>)
  BY DEF InMemoryOnly
<1>2. Ready(d, K)
  BY ProperFacts
<1> QED
  BY <1>1, <1>2, ToldCopies DEF CopyFrom

\* MEM_LOAD to a register.
LEMMA ToldLoadNear ==
  ASSUME NEW d, NEW b, NEW o, NEW n, NEW K, NEW P, IsPointer(b), IsPointer(o),
         Proper(b, K), Proper(o, K), Proper(d, K), "width" \in P => ~(isFp(d) /\ d.size = 4)
  PROVE  /\ isGp(b) /\ ~isMemTemp(o) => Told(LoadGpGp(d, b, o, n), K, P)
         /\ isMemTemp(b) => Told(LoadGpMem(d, b, o, n), K, P)
         /\ isConst(b) => Told(LoadGpConst(d, b, o, n), K, P)
         /\ isFp(d) /\ isGp(b) => Told(LoadFpGp(d, b, o, n), K, P)
         /\ isFp(d) /\ isMemTemp(b) => Told(LoadFpMem(d, b, o, n), K, P)
         /\ isFp(d) /\ isConst(b) => Told(LoadFpConst(d, b, o, n), K, P)
<1> DEFINE p == Loaded(o, n)  r == Loaded(o, n + 1)  q == Loaded(b, n)
<1>1. b.size = 8 /\ o.size = 8 /\ q.size = 8
  BY LoadedFacts DEF IsPointer
<1>2. \A L : K \subseteq L => Ready(b, L) /\ Ready(o, L)
  BY ProperFacts
<1>3. d.kind # "OFFSET"
  BY ProperFacts
<1>4. isFp(d) => ("width" \in P => d.size = 8)
  BY DEF Proper
<1> HIDE DEF p, q, r
<1>5. ASSUME isGp(b), ~isMemTemp(o)
      PROVE  Told(LoadGpGp(d, b, o, n), K, P)
  <2>1. Load(o, n) = <<>> /\ Loaded(o, n) = o
    BY <1>5 DEF Load, Loaded
  <2>2. DOMAIN <<>> = {}
    OBVIOUS
  <2>3. Unterminated(<<>>) = <<>>
    BY <2>2 DEF Unterminated
  <2> DEFINE s == <<>>  t == LoadGp(d, b, o)
  <2>4. LoadGpGp(d, b, o, n) = s \o t
    BY <2>1, <2>3 DEF LoadGpGp
  <2>5. Told(t, K \union AllGiven(s), P)
    BY <1>2, <1>3, ToldLoadGp
  <2>6. Told(s, K, P)
    BY ToldNone
  <2> HIDE DEF s, t
  <2> QED
    BY <2>4, <2>5, <2>6, ToldJoined
<1>6. ASSUME isMemTemp(b)
      PROVE  Told(LoadGpMem(d, b, o, n), K, P)
  <2>1. \A L : K \subseteq L /\ Ready(q, L) /\ Ready(r, L) => Told(LoadGp(d, q, r), L, P)
    BY <1>3, ToldLoadGp
  <2> QED
    BY <2>1, ToldAfterLoads DEF LoadGpMem, q, r
<1>7. ASSUME isConst(b)
      PROVE  Told(LoadGpConst(d, b, o, n), K, P)
  <2>1. \A L : K \subseteq L /\ Ready(p, L) => Told(LoadGp(d, b, p), L, P)
    BY <1>2, <1>3, ToldLoadGp
  <2> QED
    BY <2>1, ToldAfterLoad DEF LoadGpConst, p
<1>8. ASSUME isFp(d)
      PROVE  Told(Load(o, n) \o LoadFp(d, b, Loaded(o, n)), K, P)
  <2>1. \A L : K \subseteq L /\ Ready(p, L) => Told(LoadFp(d, b, p), L, P)
    BY <1>1, <1>2, <1>3, <1>4, <1>8, ToldLoadFp
  <2> QED
    BY <2>1, ToldAfterLoad DEF p
<1>9. ASSUME isFp(d), isMemTemp(b)
      PROVE  Told(LoadFpMem(d, b, o, n), K, P)
  <2>1. \A L : K \subseteq L /\ Ready(q, L) /\ Ready(r, L) => Told(LoadFp(d, q, r), L, P)
    BY <1>1, <1>3, <1>4, <1>9, ToldLoadFp
  <2> QED
    BY <2>1, ToldAfterLoads DEF LoadFpMem, q, r
<1>10. ASSUME isFp(d), isConst(b)
       PROVE  Told(LoadFpConst(d, b, o, n), K, P)
  <2>1. Told(LoadFp(d, o, b), K, P)
    BY <1>1, <1>2, <1>3, <1>4, <1>10, ToldLoadFp
  <2> QED
    BY <1>8, <1>10, <2>1 DEF LoadFpConst
<1> QED
  BY <1>5, <1>6, <1>7, <1>8, <1>9, <1>10 DEF LoadFpGp

\* MEM_LOAD to a destination in memory, in the arms the assembler takes.
LEMMA ToldLoadFar ==
  ASSUME NEW d, NEW b, NEW o, NEW n, NEW K, NEW P, Proper(b, K), Proper(o, K), Proper(d, K), isMemTemp(d)
  PROVE  /\ ~(isMemTemp(o) /\ d.size \notin MovableSizes) => Told(LoadMemGp(d, b, o, n), K, P)
         /\ ~(isGp(o) /\ d.size \in MovableSizes) => Told(LoadMemMem(d, b, o, n), K, P)
         /\ Told(LoadMemConst(d, b, o, n), K, P)
<1> DEFINE p == Loaded(o, n)  r == Loaded(o, n + 1)  q == Loaded(b, n)
<1>1. \A L : K \subseteq L => Ready(b, L) /\ Ready(o, L) /\ Proper(d, L)
  BY ProperFacts
<1>2. ~isMemTemp(o) => p = o
  BY DEF Loaded
<1> HIDE DEF p, q, r
<1>3. ASSUME NEW m
      PROVE  /\ \A L : K \subseteq L /\ Ready(p, L) => Told(ThroughPatch(d, b, p, m), L, P) /\ Told(CopyFrom(d, b, p), L, P)
             /\ \A L : K \subseteq L /\ Ready(q, L) /\ Ready(r, L) => Told(ThroughPatch(d, q, r, m), L, P) /\ Told(CopyFrom(d, q, r), L, P)
  BY <1>1, ToldThrough, ToldCopyFrom
<1>4. ASSUME ~(isMemTemp(o) /\ d.size \notin MovableSizes)
      PROVE  Told(LoadMemGp(d, b, o, n), K, P)
  <2>1. CASE d.size \in MovableSizes
    <3> DEFINE t == ThroughPatch(d, b, p, After(o, n))
    <3>1. LoadMemGp(d, b, o, n) = Load(o, n) \o t
      BY <2>1 DEF LoadMemGp, p
    <3>2. \A L : K \subseteq L /\ Ready(p, L) => Told(t, L, P)
      BY <1>3
    <3> HIDE DEF t
    <3> QED
      BY <3>1, <3>2, ToldAfterLoad DEF p
  <2>2. CASE d.size \notin MovableSizes /\ ~isMemTemp(o)
    <3> DEFINE t == CopyFrom(d, b, o)
    <3>1. LoadMemGp(d, b, o, n) = Load(o, n) \o t
      BY <2>2 DEF LoadMemGp
    <3>2. \A L : K \subseteq L /\ Ready(p, L) => Told(t, L, P)
      BY <1>2, <1>3, <2>2
    <3> HIDE DEF t
    <3> QED
      BY <3>1, <3>2, ToldAfterLoad DEF p
  <2> QED
    BY <1>4, <2>1, <2>2
<1>5. ASSUME ~(isGp(o) /\ d.size \in MovableSizes)
      PROVE  Told(LoadMemMem(d, b, o, n), K, P)
  <2>1. CASE d.size \notin MovableSizes
    <3> DEFINE t == CopyFrom(d, q, r)
    <3>1. LoadMemMem(d, b, o, n) = Load(b, n) \o Load(o, n + 1) \o t
      BY <2>1 DEF LoadMemMem, q, r
    <3>2. \A L : K \subseteq L /\ Ready(q, L) /\ Ready(r, L) => Told(t, L, P)
      BY <1>3
    <3> HIDE DEF t
    <3> QED
      BY <3>1, <3>2, ToldAfterLoads DEF q, r
  <2>2. CASE d.size \in MovableSizes
    <3> DEFINE t == ThroughPatch(d, q, r, After(o, n + 1))
    <3>1. LoadMemMem(d, b, o, n) = Load(b, n) \o Load(o, n + 1) \o t
      BY <1>5, <2>2 DEF LoadMemMem, q, r
    <3>2. \A L : K \subseteq L /\ Ready(q, L) /\ Ready(r, L) => Told(t, L, P)
      BY <1>3
    <3> HIDE DEF t
    <3> QED
      BY <3>1, <3>2, ToldAfterLoads DEF q, r
  <2> QED
    BY <2>1, <2>2
<1>6. Told(LoadMemConst(d, b, o, n), K, P)
  <2> DEFINE t == IF d.size \in MovableSizes THEN ThroughPatch(d, b, p, After(o, n)) ELSE CopyFrom(d, b, p)
  <2>1. LoadMemConst(d, b, o, n) = Load(o, n) \o t
    BY DEF LoadMemConst, p
  <2>2. \A L : K \subseteq L /\ Ready(p, L) => Told(t, L, P)
    BY <1>3
  <2> HIDE DEF t
  <2> QED
    BY <2>1, <2>2, ToldAfterLoad DEF p
<1> QED
  BY <1>4, <1>5, <1>6

\* MEM_LOAD, in all arms whose code the assembler takes.
LEMMA ToldMemLoad ==
  ASSUME NEW d, NEW b, NEW o, NEW n, NEW K, NEW P, IsPointer(b), IsPointer(o),
         Proper(b, K), Proper(o, K), Proper(d, K), ~isConst(d), "width" \in P => ~(isFp(d) /\ d.size = 4),
         Accepted(SelectMemLoad(d, b, o, n))
  PROVE  Told(SelectMemLoad(d, b, o, n), K, P)
<1>1. /\ isGp(b) \/ isMemTemp(b) \/ isConst(b)
      /\ isGp(b) => ~isMemTemp(b) /\ ~isConst(b)
      /\ isMemTemp(b) => ~isConst(b)
      /\ ~isFp(b) /\ ~isFp(o)
  BY OperandFacts DEF IsPointer
<1>2. /\ isGp(d) \/ isFp(d) \/ isMemTemp(d)
      /\ isGp(d) => ~isFp(d) /\ ~isMemTemp(d)
      /\ isFp(d) => ~isMemTemp(d)
  BY OperandFacts DEF Proper
<1>3. /\ ~(isGp(d) /\ isGp(b) /\ isMemTemp(o))
      /\ ~(isMemTemp(d) /\ isMemTemp(b) /\ isGp(o) /\ d.size \in MovableSizes)
      /\ ~(isMemTemp(d) /\ isGp(b) /\ isMemTemp(o) /\ d.size \notin MovableSizes)
  BY MemLoadAccepted DEF Proper
<1>4. CASE isGp(d)
  <2>1. CASE isGp(b)
    BY <1>1, <1>2, <1>3, <1>4, <2>1, ToldLoadNear DEF SelectMemLoad
  <2>2. CASE isMemTemp(b)
    BY <1>1, <1>2, <1>4, <2>2, ToldLoadNear DEF SelectMemLoad
  <2>3. CASE isConst(b)
    BY <1>1, <1>2, <1>4, <2>3, ToldLoadNear DEF SelectMemLoad
  <2> QED
    BY <1>1, <2>1, <2>2, <2>3
<1>5. CASE isFp(d)
  <2>1. CASE isGp(b)
    BY <1>1, <1>2, <1>5, <2>1, ToldLoadNear DEF SelectMemLoad
  <2>2. CASE isMemTemp(b)
    BY <1>1, <1>2, <1>5, <2>2, ToldLoadNear DEF SelectMemLoad
  <2>3. CASE isConst(b)
    BY <1>1, <1>2, <1>5, <2>3, ToldLoadNear DEF SelectMemLoad
  <2> QED
    BY <1>1, <2>1, <2>2, <2>3
<1>6. CASE isMemTemp(d)
  <2>1. CASE isGp(b)
    BY <1>1, <1>2, <1>3, <1>6, <2>1, ToldLoadFar DEF SelectMemLoad
  <2>2. CASE isMemTemp(b)
    BY <1>1, <1>2, <1>3, <1>6, <2>2, ToldLoadFar DEF SelectMemLoad
  <2>3. CASE isConst(b)
    BY <1>1, <1>2, <1>6, <2>3, ToldLoadFar DEF SelectMemLoad
  <2> QED
    BY <1>1, <2>1, <2>2, <2>3
<1> QED
  BY <1>2, <1>4, <1>5, <1>6

-----------------------------------------------------------------------------
\* The stack

\* The stack pointer has a value as long as its key is among those that have one.
LEMMA StackReady ==
  ASSUME NEW K, <<"rsp">> \in K
  PROVE  Ready(RSP, K)
BY DEF RSP, Reg, Ready, HasValue, Inner, KeyOf

\* Values stored on the stack.
LEMMA ToldStackStores ==
  ASSUME NEW o, NEW v, NEW n, NEW K, NEW P, Ready(RSP, K), Ready(o, K), Proper(v, K)
  PROVE  /\ isGp(v) => Told(StoreTo("mov", 0, RSP, o, v), K, P)
         /\ isFp(v) => Told(StoreFp(RSP, o, v), K, P)
         /\ isMemTemp(v) /\ v.size # 16 => Told(StackMem(o, v, n), K, P)
         /\ isConst(v) => Told(StoreConst(RSP, o, v), K, P)
<1>1. Ready(v, K) /\ v.kind # "OFFSET"
  BY ProperFacts
<1>2. Told(StoreTo("mov", 0, RSP, o, v), K, P)
  BY <1>1, ToldStores
<1>3. isFp(v) => Told(StoreFp(RSP, o, v), K, P)
  BY <1>1, ToldStores DEF Proper
<1>4. ASSUME isMemTemp(v), v.size # 16
      PROVE  Told(StackMem(o, v, n), K, P)
  <2>1. CASE v.size \in MovableSizes
    <3> DEFINE g == Patch(v, n, "GP")
    <3>1. StackMem(o, v, n) = <<Mov(g, v)>> \o StoreTo("mov", 0, RSP, o, g)
      BY <2>1 DEF StackMem, MovableSizes
    <3> HIDE DEF g
    <3> QED
      BY <1>4, <3>1, ToldPatchStored DEF g
  <2>2. CASE v.size \notin MovableSizes
    <3>1. StackMem(o, v, n) = <<LeaTemp(RSI, v), LeaAt(RDI, RSP, o)>> \o FinishMemcpy(v.size, <<>>, <<v>>)
      BY <1>4, <2>2 DEF StackMem
    <3>2. InMemoryOnly(<<>>) /\ InMemoryOnly(<<v>>)
      BY <1>4 DEF InMemoryOnly
    <3> QED
      BY <1>1, <3>1, <3>2, ToldCopies
  <2> QED
    BY <2>1, <2>2
<1>5. isConst(v) => Told(StoreConst(RSP, o, v), K, P)
  BY ToldStoreConst
<1> QED
  BY <1>2, <1>3, <1>4, <1>5

\* STK_STORE, in all arms whose code the assembler takes.
LEMMA ToldStkStore ==
  ASSUME NEW o, NEW v, NEW n, NEW K, NEW P, IsPointer(o), Proper(o, K), Proper(v, K), <<"rsp">> \in K,
         Accepted(SelectStkStore(o, v, n))
  PROVE  Told(SelectStkStore(o, v, n), K, P)
<1>1. /\ isGp(o) \/ isMemTemp(o) \/ isConst(o)
      /\ isGp(o) => ~isMemTemp(o) /\ ~isConst(o)
      /\ isMemTemp(o) => ~isConst(o)
  BY OperandFacts DEF IsPointer
<1>2. /\ isGp(v) \/ isFp(v) \/ isMemTemp(v) \/ isConst(v)
      /\ isGp(v) => ~isFp(v) /\ ~isMemTemp(v) /\ ~isConst(v)
      /\ isFp(v) => ~isMemTemp(v) /\ ~isConst(v)
      /\ isMemTemp(v) => ~isConst(v)
  BY OperandFacts DEF Proper
<1>3. isMemTemp(v) => v.size # 16
  BY StkStoreAccepted DEF Proper
<1>4. \A L : K \subseteq L => Ready(RSP, L) /\ Ready(o, L) /\ Proper(v, L)
  BY StackReady, ProperFacts
<1>5. CASE ~isMemTemp(o)
  <2>0. Ready(RSP, K) /\ Ready(o, K)
    BY <1>4
  <2>1. CASE isGp(v)
    <3>1. SelectStkStore(o, v, n) = StoreTo("mov", 0, RSP, o, v)
      BY <1>1, <1>2, <1>5, <2>1 DEF SelectStkStore, StkStoreRegister, StkStoreConst
    <3> QED
      BY <2>0, <2>1, <3>1, ToldStackStores
  <2>2. CASE isFp(v)
    <3>1. SelectStkStore(o, v, n) = StoreFp(RSP, o, v) \/ SelectStkStore(o, v, n) = <<>>
      BY <1>1, <1>2, <1>5, <2>2 DEF SelectStkStore, StkStoreRegister, StkStoreConst
    <3> QED
      BY <2>0, <2>2, <3>1, ToldStackStores, ToldNone
  <2>3. CASE isMemTemp(v)
    <3>1. SelectStkStore(o, v, n) = StackMem(o, v, n)
      BY <1>1, <1>2, <1>5, <2>3 DEF SelectStkStore, StkStoreRegister, StkStoreConst
    <3> QED
      BY <1>3, <2>0, <2>3, <3>1, ToldStackStores
  <2>4. CASE isConst(v)
    <3>1. SelectStkStore(o, v, n) = StoreConst(RSP, o, v)
      BY <1>1, <1>2, <1>5, <2>4 DEF SelectStkStore, StkStoreRegister, StkStoreConst
    <3> QED
      BY <2>0, <2>4, <3>1, ToldStackStores
  <2> QED
    BY <1>2, <2>1, <2>2, <2>3, <2>4
<1>6. CASE isMemTemp(o)
  <2> DEFINE p == Loaded(o, n)
  <2>2. SelectStkStore(o, v, n) = StkStoreMem(o, v, n)
    BY <1>1, <1>6 DEF SelectStkStore
  <2> HIDE DEF p
  <2>a. ASSUME NEW t, SelectStkStore(o, v, n) = Load(o, n) \o t,
               \A L : K \subseteq L /\ Ready(p, L) => Told(t, L, P)
        PROVE  Told(SelectStkStore(o, v, n), K, P)
    BY <2>a, ToldAfterLoad DEF p
  <2>3. CASE isGp(v)
    <3> DEFINE t == StoreTo("mov", 0, RSP, p, v)
    <3>1. SelectStkStore(o, v, n) = Load(o, n) \o t
      BY <1>2, <2>2, <2>3 DEF StkStoreMem, p
    <3>2. \A L : K \subseteq L /\ Ready(p, L) => Told(t, L, P)
      BY <1>4, <2>3, ToldStackStores
    <3> HIDE DEF t
    <3> QED
      BY <2>a, <3>1, <3>2
  <2>4. CASE isFp(v)
    <3> DEFINE t == StoreFp(RSP, p, v)
    <3>1. SelectStkStore(o, v, n) = Load(o, n) \o t
      BY <1>2, <2>2, <2>4 DEF StkStoreMem, p
    <3>2. \A L : K \subseteq L /\ Ready(p, L) => Told(t, L, P)
      BY <1>4, <2>4, ToldStackStores
    <3> HIDE DEF t
    <3> QED
      BY <2>a, <3>1, <3>2
  <2>5. CASE isMemTemp(v)
    <3> DEFINE t == StackMem(p, v, n + 1)
    <3>1. SelectStkStore(o, v, n) = Load(o, n) \o t
      BY <1>2, <2>2, <2>5 DEF StkStoreMem, p
    <3>2. \A L : K \subseteq L /\ Ready(p, L) => Told(t, L, P)
      BY <1>3, <1>4, <2>5, ToldStackStores
    <3> HIDE DEF t
    <3> QED
      BY <2>a, <3>1, <3>2
  <2>6. CASE isConst(v)
    <3> DEFINE t == StoreConst(RSP, p, v)
    <3>1. SelectStkStore(o, v, n) = Load(o, n) \o t
      BY <1>2, <2>2, <2>6 DEF StkStoreMem, p
    <3>2. \A L : K \subseteq L /\ Ready(p, L) => Told(t, L, P)
      BY <1>4, <2>6, ToldStackStores
    <3> HIDE DEF t
    <3> QED
      BY <2>a, <3>1, <3>2
  <2> QED
    BY <1>2, <2>3, <2>4, <2>5, <2>6
<1> QED
  BY <1>5, <1>6

\* STK_LOAD, in all arms whose code the assembler takes.
LEMMA ToldStkLoad ==
  ASSUME NEW d, NEW o, NEW n, NEW K, NEW P, IsPointer(o), Proper(o, K), Proper(d, K), ~isConst(d), <<"rsp">> \in K,
         Accepted(SelectStkLoad(d, o, n))
  PROVE  Told(SelectStkLoad(d, o, n), K, P)
<1> DEFINE p == Loaded(o, n)
<1>1. /\ isGp(d) \/ isFp(d) \/ isMemTemp(d)
      /\ isGp(d) => ~isFp(d) /\ ~isMemTemp(d)
      /\ isFp(d) => ~isMemTemp(d)
      /\ ~isFp(o)
  BY OperandFacts DEF Proper, IsPointer
<1>2. isMemTemp(d) => d.size \notin MovableSizes \union {16}
  BY StkLoadAccepted DEF Proper
<1>3. \A L : K \subseteq L => Ready(RSP, L) /\ Ready(o, L) /\ Proper(d, L)
  BY StackReady, ProperFacts
<1>4. d.kind # "OFFSET"
  BY ProperFacts
<1> HIDE DEF p
<1>5. CASE isGp(d)
  <2> DEFINE s == [k \in DOMAIN Load(o, n) |-> Plain("mov", p, o)]  t == LoadFrom("mov", 0, d, RSP, p)
  <2>1. SelectStkLoad(d, o, n) = s \o t
    BY <1>1, <1>5 DEF SelectStkLoad, StkLoadGp, p
  <2>2. \A L : K \subseteq L /\ Ready(p, L) => Told(t, L, P)
    BY <1>3, <1>4, ToldLoadGp
  <2>3. Told(s, K, P) /\ Ready(p, K \union AllGiven(s))
    <3>1. CASE isMemTemp(o)
      <4> DEFINE g == Patch(o, n, "GP")  x == Plain("mov", p, o)
      <4>1. p = g /\ Load(o, n) = <<Mov(g, o)>>
        BY <3>1 DEF p, Loaded, Load
      <4>2. g.kind # "OFFSET"
        BY PatchFacts
      <4>3. DOMAIN Load(o, n) = 1..1
        BY <4>1
      <4> HIDE DEF g
      <4>4. Fine(x, K, P)
        BY <1>3, <4>1, <4>2, PlainFine, AnyWidth DEF Inner
      <4>5. HasValue(p, K \union Gives(x))
        BY MovGives
      <4> HIDE DEF x
      <4>6. s = <<x>>
        BY <4>3 DEF x
      <4>7. Told(<<x>>, K, P) /\ AllGiven(<<x>>) = Gives(x)
        BY <4>4, ToldOne
      <4> QED
        BY <4>1, <4>2, <4>5, <4>6, <4>7 DEF Ready, Inner
    <3>2. CASE ~isMemTemp(o)
      <4>1. Load(o, n) = <<>> /\ p = o
        BY <3>2 DEF Load, Loaded, p
      <4>2. s = <<>>
        BY <4>1
      <4> QED
        BY <1>3, <4>1, <4>2, ToldNone
    <3> QED
      BY <3>1, <3>2
  <2> HIDE DEF s, t
  <2>4. Told(t, K \union AllGiven(s), P)
    BY <2>2, <2>3
  <2>5. Told(s, K, P)
    BY <2>3
  <2>6. Told(s \o t, K, P)
    BY <2>4, <2>5, ToldJoined
  <2> QED
    BY <2>1, <2>6
<1>6. CASE isFp(d)
  <2> DEFINE op == FpMove(d.size)  t == LoadFrom(op, 0, d, RSP, p)
  <2>1. SelectStkLoad(d, o, n) = Load(o, n) \o t
    BY <1>1, <1>6 DEF SelectStkLoad, StkLoadFp, p
  <2>2. op \in {"movss", "movsd"} /\ d.size = Carries[op]
    BY <1>6, FpNames, Precisions DEF Proper
  <2> HIDE DEF op
  <2>3. \A L : K \subseteq L /\ Ready(p, L) => Told(t, L, P)
    BY <1>3, <1>4, <2>2, ToldLoadFrom
  <2> HIDE DEF t
  <2> QED
    BY <2>1, <2>3, ToldAfterLoad DEF p
<1>7. CASE isMemTemp(d)
  <2> DEFINE t == CopyFrom(d, RSP, p)
  <2>1. SelectStkLoad(d, o, n) = Load(o, n) \o t
    BY <1>1, <1>2, <1>7 DEF SelectStkLoad, StkLoadMem, p
  <2>2. \A L : K \subseteq L /\ Ready(p, L) => Told(t, L, P)
    BY <1>3, <1>7, ToldCopyFrom
  <2> HIDE DEF t
  <2> QED
    BY <2>1, <2>2, ToldAfterLoad DEF p
<1> QED
  BY <1>1, <1>5, <1>6, <1>7

-----------------------------------------------------------------------------
\* Parts of a temporary

\* A part of a temporary in memory may be used when its offset has a value.
LEMMA PartReady ==
  ASSUME NEW b, isMemTemp(b), NEW q, NEW K, Ready(q, K)
  PROVE  Ready(Inside(b, q), K) /\ Inner(Inside(b, q), K) /\ \A op : Fits(op, Inside(b, q))
<1>1. HasValue(b, K)
  BY Valueless
<1>2. Inside(b, q).kind = "OFFSET" /\ Inside(b, q).base = b /\ Inside(b, q).offset = q
  BY DEF Inside
<1>3. HasValue(Inside(b, q), K)
  BY <1>2 DEF HasValue, InRegister, isGpTemp, isFpTemp
<1> QED
  BY <1>1, <1>2, <1>3 DEF Ready, Inner, Fits

\* The code after the offset was loaded, for a part that may be used.
LEMMA ToldPartStored ==
  ASSUME NEW v, NEW p, NEW n, NEW K, NEW P, Proper(v, K), Ready(p, K), Inner(p, K), \A op : Fits(op, p),
         NEW d, isMemTemp(d), "copies" \notin P
  PROVE  /\ isGp(v) => Told(<<Plain("mov", p, v)>>, K, P)
         /\ isFp(v) => Told(<<Plain(FpBits(v.size), p, v)>>, K, P)
         /\ isMemTemp(v) => Told(<<Mov(Patch(v, n, "GP"), v), Plain("mov", p, Patch(v, n, "GP"))>>, K, P)
         /\ isMemTemp(v) /\ v.size = 16 =>
              Told(<<Copy("movdqu", Patch(v, n, "FP"), v), Plain("movdqu", p, Patch(v, n, "FP"))>>, K, P)
         /\ isMemTemp(v) => LET c == FinishMemcpy(v.size, <<d>>, <<v>>) IN
              Told(<<LeaTemp(RSI, v), LeaTemp(RDI, p), c[1], Moving(c[2], 4, 4)>>, K, P)
         /\ Told(<<Insn("mov", <<Sized(v.size), Imm(v.value)>>, <<p>>, <<>>)>>, K, P)
         /\ Told(<<LeaFrag(RSI, v), LeaTemp(RDI, p)>> \o FinishMemcpy(v.size, <<d>>, <<>>), K, P)
<1>1. Ready(v, K) /\ v.kind # "OFFSET" /\ \A L : Inner(p, K \union L)
  BY ProperFacts, ReadyMore
<1>2. Told(<<Plain("mov", p, v)>>, K, P)
  <2>1. Fine(Plain("mov", p, v), K, P)
    BY <1>1, PlainFine, AnyWidth
  <2> QED
    BY <2>1, ToldOne
<1>3. ASSUME isFp(v)
      PROVE  Told(<<Plain(FpBits(v.size), p, v)>>, K, P)
  <2>1. FpBits(v.size) \in {"movd", "movq"} /\ Fits(FpBits(v.size), v)
    BY <1>3, FpNames, AnyWidth DEF Proper
  <2>2. Fine(Plain(FpBits(v.size), p, v), K, P)
    BY <1>1, <2>1, PlainFine
  <2> QED
    BY <2>2, ToldOne
<1>4. ASSUME isMemTemp(v)
      PROVE  Told(<<Mov(Patch(v, n, "GP"), v), Plain("mov", p, Patch(v, n, "GP"))>>, K, P)
  <2> DEFINE g == Patch(v, n, "GP")  x == Mov(g, v)  y == Plain("mov", p, g)
  <2>1. Fine(x, K, P) /\ Ready(g, K \union Gives(x))
    BY <1>4, PatchFine
  <2> HIDE DEF g, x
  <2>2. Fine(y, K \union Gives(x), P)
    BY <1>1, <2>1, PlainFine, AnyWidth
  <2> HIDE DEF y
  <2>3. Told(<<x, y>>, K, P)
    BY <2>1, <2>2, ToldTwo
  <2> QED
    BY <2>3 DEF g, x, y
<1>5. ASSUME isMemTemp(v), v.size = 16
      PROVE  Told(<<Copy("movdqu", Patch(v, n, "FP"), v), Plain("movdqu", p, Patch(v, n, "FP"))>>, K, P)
  <2> DEFINE f == Patch(v, n, "FP")  x == Copy("movdqu", f, v)  y == Plain("movdqu", p, f)
  <2>1. Fine(x, K, P) /\ Ready(f, K \union Gives(x))
    BY <1>5, PatchFine
  <2>2. Fits("movdqu", f)
    BY <1>5, PatchFacts, Precisions DEF Fits
  <2> HIDE DEF f, x
  <2>3. Fine(y, K \union Gives(x), P)
    BY <1>1, <2>1, <2>2, PlainFine
  <2> HIDE DEF y
  <2>4. Told(<<x, y>>, K, P)
    BY <2>1, <2>3, ToldTwo
  <2> QED
    BY <2>4 DEF f, x, y
<1>6. InMemoryOnly(<<d>>) /\ InMemoryOnly(<<>>) /\ (isMemTemp(v) => InMemoryOnly(<<v>>))
  BY DEF InMemoryOnly
<1>7. isMemTemp(v) => LET c == FinishMemcpy(v.size, <<d>>, <<v>>) IN
              Told(<<LeaTemp(RSI, v), LeaTemp(RDI, p), c[1], Moving(c[2], 4, 4)>>, K, P)
  BY <1>1, <1>6, ToldAddresses
<1>8. Told(<<Insn("mov", <<Sized(v.size), Imm(v.value)>>, <<p>>, <<>>)>>, K, P)
  <2>1. Fine(Insn("mov", <<Sized(v.size), Imm(v.value)>>, <<p>>, <<>>), K, P)
    BY ImmediatesFine
  <2> QED
    BY <2>1, ToldOne
<1>9. Told(<<LeaFrag(RSI, v), LeaTemp(RDI, p)>> \o FinishMemcpy(v.size, <<d>>, <<>>), K, P)
  BY <1>6, ToldAddresses
<1> QED
  BY <1>2, <1>3, <1>4, <1>5, <1>7, <1>8, <1>9

\* Three pieces of code in a row.
LEMMA JoinedThrice ==
  ASSUME NEW a, NEW b, NEW c, IsCode(a), IsCode(b), IsCode(c)
  PROVE  a \o b \o c = a \o (b \o c)
<1> DEFINE S == ToSet(a) \union ToSet(b) \union ToSet(c)
<1>1. a \in Seq(S) /\ b \in Seq(S) /\ c \in Seq(S)
  BY DEF IsCode
<1> HIDE DEF S
<1> QED
  BY <1>1

\* OFFSET_STORE.
LEMMA ToldOffsetStore ==
  ASSUME NEW d, NEW v, NEW o, NEW n, NEW K, NEW P, isMemTemp(d), IsPointer(o), Proper(o, K), Proper(v, K),
         "copies" \notin P
  PROVE  Told(SelectOffsetStore(d, v, o, n), K, P)
<1> DEFINE p == Inside(d, Loaded(o, n))  m == After(o, n)
<1>1. ~isFp(o)
  BY DEF IsPointer
<1>2. /\ isGp(v) \/ isFp(v) \/ isMemTemp(v) \/ isConst(v)
      /\ isGp(v) => ~isFp(v) /\ ~isMemTemp(v) /\ ~isConst(v)
      /\ isFp(v) => ~isMemTemp(v) /\ ~isConst(v)
      /\ isMemTemp(v) => ~isConst(v)
  BY OperandFacts DEF Proper
<1>3. \A L : K \subseteq L /\ Ready(Loaded(o, n), L) =>
             Proper(v, L) /\ Ready(p, L) /\ Inner(p, L) /\ \A op : Fits(op, p)
  BY ProperFacts, PartReady
<1> HIDE DEF p, m
<1>4. CASE isGp(v)
  <2> DEFINE t == <<Plain("mov", p, v)>>
  <2>1. SelectOffsetStore(d, v, o, n) = Load(o, n) \o t
    BY <1>1, <1>2, <1>4 DEF SelectOffsetStore, OffsetStoreGp, p
  <2>2. \A L : K \subseteq L /\ Ready(Loaded(o, n), L) => Told(t, L, P)
    BY <1>3, <1>4, ToldPartStored
  <2> HIDE DEF t
  <2> QED
    BY <2>1, <2>2, ToldAfterLoad
<1>5. CASE isFp(v)
  <2> DEFINE t == <<Plain(FpBits(v.size), p, v)>>
  <2>1. SelectOffsetStore(d, v, o, n) = Load(o, n) \o t
    BY <1>1, <1>2, <1>5 DEF SelectOffsetStore, OffsetStoreFp, p
  <2>2. \A L : K \subseteq L /\ Ready(Loaded(o, n), L) => Told(t, L, P)
    BY <1>3, <1>5, ToldPartStored
  <2> HIDE DEF t
  <2> QED
    BY <2>1, <2>2, ToldAfterLoad
<1>6. CASE isMemTemp(v)
  <2>1. SelectOffsetStore(d, v, o, n) = OffsetStoreMem(d, v, o, n)
    BY <1>1, <1>2, <1>6 DEF SelectOffsetStore
  <2>2. CASE v.size \in MovableSizes
    <3> DEFINE t == <<Mov(Patch(v, m, "GP"), v), Plain("mov", p, Patch(v, m, "GP"))>>
    <3>1. OffsetStoreMem(d, v, o, n) = Load(o, n) \o t
      BY <2>2 DEF OffsetStoreMem, MovableSizes, p, m
    <3>2. \A L : K \subseteq L /\ Ready(Loaded(o, n), L) => Told(t, L, P)
      BY <1>3, <1>6, ToldPartStored
    <3> HIDE DEF t
    <3> QED
      BY <2>1, <3>1, <3>2, ToldAfterLoad
  <2>3. CASE v.size = 16
    <3> DEFINE t == <<Copy("movdqu", Patch(v, m, "FP"), v), Plain("movdqu", p, Patch(v, m, "FP"))>>
    <3>1. OffsetStoreMem(d, v, o, n) = Load(o, n) \o t
      BY <2>3 DEF OffsetStoreMem, MovableSizes, p, m
    <3>2. \A L : K \subseteq L /\ Ready(Loaded(o, n), L) => Told(t, L, P)
      BY <1>3, <1>6, <2>3, ToldPartStored
    <3> HIDE DEF t
    <3> QED
      BY <2>1, <3>1, <3>2, ToldAfterLoad
  <2>4. CASE v.size \notin MovableSizes \union {16}
    <3> DEFINE c == FinishMemcpy(v.size, <<d>>, <<v>>)
               t == <<LeaTemp(RSI, v), LeaTemp(RDI, p), c[1], Moving(c[2], 4, 4)>>
    <3>1. OffsetStoreMem(d, v, o, n) = Load(o, n) \o t
      BY <2>4 DEF OffsetStoreMem, p
    <3>2. \A L : K \subseteq L /\ Ready(Loaded(o, n), L) => Told(t, L, P)
      BY <1>3, <1>6, ToldPartStored
    <3> HIDE DEF t
    <3> QED
      BY <2>1, <3>1, <3>2, ToldAfterLoad
  <2> QED
    BY <2>2, <2>3, <2>4
<1>7. CASE isConst(v)
  <2>1. SelectOffsetStore(d, v, o, n) = OffsetStoreConst(d, v, o, n)
    BY <1>1, <1>2, <1>7 DEF SelectOffsetStore
  <2>2. CASE v.size \in MovableSizes
    <3> DEFINE t == <<Insn("mov", <<Sized(v.size), Imm(v.value)>>, <<p>>, <<>>)>>
    <3>1. OffsetStoreConst(d, v, o, n) = Load(o, n) \o t
      BY <2>2 DEF OffsetStoreConst, p
    <3>2. \A L : K \subseteq L /\ Ready(Loaded(o, n), L) => Told(t, L, P)
      BY <1>3, ToldPartStored
    <3> HIDE DEF t
    <3> QED
      BY <2>1, <3>1, <3>2, ToldAfterLoad
  <2>3. CASE v.size \notin MovableSizes
    <3> DEFINE l == Load(o, n)  s == <<LeaFrag(RSI, v), LeaTemp(RDI, p)>>  c == FinishMemcpy(v.size, <<d>>, <<>>)
    <3>1. OffsetStoreConst(d, v, o, n) = l \o s \o c
      BY <2>3 DEF OffsetStoreConst, p
    <3>2. \A L : K \subseteq L /\ Ready(Loaded(o, n), L) => Told(s \o c, L, P)
      BY <1>3, ToldPartStored
    <3>3. IsCode(l) /\ IsCode(s) /\ IsCode(c)
      BY LoadAccepted, TwoAccepted, MemcpyAccepted DEF IsPointer
    <3> HIDE DEF s, c
    <3>4. Told(l \o (s \o c), K, P)
      BY <3>2, ToldAfterLoad
    <3> HIDE DEF l
    <3>5. l \o s \o c = l \o (s \o c)
      BY <3>3, JoinedThrice
    <3> QED
      BY <2>1, <3>1, <3>4, <3>5
  <2> QED
    BY <2>2, <2>3
<1> QED
  BY <1>2, <1>4, <1>5, <1>6, <1>7

\* OFFSET_LOAD.
LEMMA ToldOffsetLoad ==
  ASSUME NEW d, NEW s, NEW o, NEW n, NEW K, NEW P, isMemTemp(s), IsPointer(o), Proper(o, K), Proper(d, K),
         ~isConst(d), "copies" \notin P
  PROVE  Told(SelectOffsetLoad(d, s, o, n), K, P)
<1> DEFINE p == Inside(s, Loaded(o, n))
<1>1. ~isFp(o)
  BY DEF IsPointer
<1>2. /\ isGp(d) \/ isFp(d) \/ isMemTemp(d)
      /\ isGp(d) => ~isFp(d) /\ ~isMemTemp(d)
      /\ isFp(d) => ~isMemTemp(d)
  BY OperandFacts DEF Proper
<1>3. \A L : K \subseteq L /\ Ready(Loaded(o, n), L) =>
             Proper(d, L) /\ Inner(d, L) /\ Ready(d, L) /\ Ready(p, L) /\ Inner(p, L) /\ \A op : Fits(op, p)
  BY ProperFacts, PartReady
<1> HIDE DEF p
<1>4. CASE isGp(d)
  <2> DEFINE x == Plain("mov", d, p)  t == <<x>>
  <2>1. SelectOffsetLoad(d, s, o, n) = Load(o, n) \o t
    BY <1>1, <1>2, <1>4 DEF SelectOffsetLoad, OffsetLoadGp, p
  <2>2. \A L : K \subseteq L /\ Ready(Loaded(o, n), L) => Fine(x, L, P)
    BY <1>3, PlainFine, AnyWidth
  <2> HIDE DEF x
  <2>3. \A L : K \subseteq L /\ Ready(Loaded(o, n), L) => Told(t, L, P)
    BY <2>2, ToldOne
  <2> HIDE DEF t
  <2> QED
    BY <2>1, <2>3, ToldAfterLoad
<1>5. CASE isFp(d)
  <2> DEFINE x == Plain(FpBits(d.size), d, p)  t == <<x>>
  <2>1. SelectOffsetLoad(d, s, o, n) = Load(o, n) \o t
    BY <1>1, <1>2, <1>5 DEF SelectOffsetLoad, OffsetLoadFp, p
  <2>2. FpBits(d.size) \in {"movd", "movq"} /\ Fits(FpBits(d.size), d)
    BY <1>5, FpNames, AnyWidth DEF Proper
  <2>3. \A L : K \subseteq L /\ Ready(Loaded(o, n), L) => Fine(x, L, P)
    BY <1>3, <2>2, PlainFine
  <2> HIDE DEF x
  <2>4. \A L : K \subseteq L /\ Ready(Loaded(o, n), L) => Told(t, L, P)
    BY <2>3, ToldOne
  <2> HIDE DEF t
  <2> QED
    BY <2>1, <2>4, ToldAfterLoad
<1>6. CASE isMemTemp(d)
  <2> DEFINE c == FinishMemcpy(d.size, <<d>>, <<s>>)
             t == <<LeaTemp(RSI, p), LeaTemp(RDI, d), c[1], Moving(c[2], 4, 4)>>
  <2>1. SelectOffsetLoad(d, s, o, n) = Load(o, n) \o t
    BY <1>1, <1>2, <1>6 DEF SelectOffsetLoad, OffsetLoadMem, p
  <2>2. InMemoryOnly(<<d>>) /\ InMemoryOnly(<<s>>)
    BY <1>6 DEF InMemoryOnly
  <2>3. \A L : K \subseteq L /\ Ready(Loaded(o, n), L) => Told(t, L, P)
    BY <1>3, <2>2, ToldAddresses
  <2> HIDE DEF t
  <2> QED
    BY <2>1, <2>3, ToldAfterLoad
<1> QED
  BY <1>2, <1>4, <1>5, <1>6

-----------------------------------------------------------------------------
\* Arithmetic

\* Where a widened operand is.
LEMMA WideKept ==
  ASSUME NEW o, Sizable(o), ~isConst(o)
  PROVE  KeyOf(Wide(o)) = KeyOf(o) /\ (InRegister(Wide(o)) <=> InRegister(o)) /\ Wide(o).kind # "OFFSET"
BY DEF Sizable, IsOperand, AlignedTemp, Reg, Const, isConst, isGpTemp, isFpTemp, Wide, KeyOf, InRegister

\* So is a patch.
LEMMA WidePatchKept ==
  ASSUME NEW o, NEW n
  PROVE  LET p == Patch(o, n, "GP") IN
         KeyOf(Wide(p)) = KeyOf(p) /\ (InRegister(Wide(p)) <=> InRegister(p)) /\ Wide(p).kind # "OFFSET"
BY DEF Patch, Temp, AlignedTemp, isGpTemp, isFpTemp, Wide, KeyOf, InRegister

\* A second operand is combined into a first that has a value.
LEMMA CombineFine ==
  ASSUME NEW op \in {"add", "sub", "imul"}, NEW d, NEW s, NEW K, NEW P, Ready(s, K), Ready(d, K)
  PROVE  Fine(Combine(op, d, s), K, P)
<1>1. op \in PairOps /\ op # "xor" /\ Fits(op, d) /\ Fits(op, s)
  BY AnyWidth DEF PairOps, TwoOperandOps
<1> QED
  BY <1>1, PairFine DEF Ready

\* The product of the destination and an operand, in the arm that lists another as used.
LEMMA SquareFine ==
  ASSUME NEW d, NEW s, NEW K, NEW P, Ready(s, K), Ready(d, K)
  PROVE  Fine(Insn("imul", <<D, U>>, <<d>>, <<d, s>>), K, P)
<1> DEFINE uses == <<d, s>>
<1>1. 1 \in DOMAIN uses /\ uses[1] = d /\ ToSet(uses) = {d, s}
  BY Two
<1> HIDE DEF uses
<1>2. "imul" \in PairOps /\ Fits("imul", d) /\ Fits("imul", s)
  BY AnyWidth DEF PairOps, TwoOperandOps
<1>3. Inner(d, K)
  BY DEF Ready
<1>4. Runs(Insn("imul", <<D, U>>, <<d>>, uses), K, P)
  BY <1>1, <1>2, <1>3, PairRuns
<1>5. Insn("imul", <<D, U>>, <<d>>, uses).move = <<>>
  BY InsnFields
<1> QED
  BY <1>4, <1>5 DEF Fine, uses

\* The product of an operand and a constant.
LEMMA ImulFine ==
  ASSUME NEW d, NEW s, NEW c, NEW K, NEW P, Ready(s, K), Inner(d, K)
  PROVE  Fine(ImulImm(d, s, c), K, P)
<1> DEFINE b == Imm(c.value)  args == <<D, U, b>>  defs == <<d>>  uses == <<s>>
           x == Insn("imul", args, defs, uses)
<1>a. b[1] = "imm"
  BY Skeletons
<1> HIDE DEF b
<1>b. DOMAIN args = 1..3 /\ args[1] = D /\ args[2] = U /\ args[3] = b
  OBVIOUS
<1>c. DOMAIN defs = 1..1 /\ defs[1] = d /\ DOMAIN uses = 1..1 /\ uses[1] = s
  OBVIOUS
<1> HIDE DEF args, defs, uses
<1>1. x.op = "imul" /\ x.args = args /\ x.defs = defs /\ x.uses = uses /\ x.move = <<>>
  BY InsnFields
<1>2. b[1] = "imm"
  BY <1>a
<1> HIDE DEF x
<1>3. /\ DOMAIN x.args = 1..3 /\ x.args[1] = D /\ x.args[2] = U /\ x.args[3] = b
      /\ DOMAIN x.defs = 1..1 /\ x.defs[1] = d
  BY <1>1, <1>b, <1>c
<1>4. ToSet(x.defs) = {d} /\ ToSet(x.uses) = {s}
  BY <1>1, <1>c DEF ToSet
<1>5. \A o \in Listed(x) : HasValue(o, K)
  BY <1>4, ListedFacts
<1>6. Shaped(x)
  <2>1. \A k \in DOMAIN x.args : k # 1 => Reading(x.args[k])
    BY <1>2, <1>3, Skeletons DEF Reading
  <2>2. Defining(x)
    BY <1>3, Skeletons DEF Defining
  <2>3. Updating(x)
    BY <1>1, <1>3, Skeletons DEF Updating
  <2>4. x.op # "rep movs"
    BY <1>1
  <2> QED
    BY <1>3, <2>1, <2>2, <2>3, <2>4 DEF Shaped
<1>7. WidthAgrees(x)
  BY <1>1 DEF WidthAgrees, Carries
<1>8. x.op # "xor"
  BY <1>1
<1>9. Fine(x, K, P)
  BY <1>1, <1>5, <1>6, <1>7, <1>8 DEF Fine, Runs
<1> QED
  BY <1>9 DEF ImulImm, x, b, args, defs, uses

\* The extension of a byte, marked as a move or not.
LEMMA ExtendFine ==
  ASSUME NEW t, NEW s, NEW K, NEW P, Ready(s, K), Wide(t).kind # "OFFSET"
  PROVE  /\ Fine(Movsx(t, s), K, P) /\ HasValue(Wide(t), K \union Gives(Movsx(t, s)))
         /\ Fine(Moving(Movsx(t, s), 1, 1), K, P) /\ HasValue(Wide(t), K \union Gives(Moving(Movsx(t, s), 1, 1)))
<1> DEFINE d == Wide(t)  x == Movsx(t, s)  y == Moving(x, 1, 1)
<1>1. x = Plain("movsx", d, s)
  BY DEF Movsx, Plain
<1>2. "movsx" \in PairOps /\ Fits("movsx", d) /\ Fits("movsx", s)
  BY AnyWidth DEF PairOps
<1>3. Inner(d, K)
  BY DEF Inner
<1> HIDE DEF d
<1>4. Fine(Plain("movsx", d, s), K, P)
  BY <1>2, <1>3, PairFine
<1>5. HasValue(d, K \union Gives(Plain("movsx", d, s)))
  BY MovGives
<1>6. y = Copy("movsx", d, s)
  BY DEF Copy, Movsx, d
<1>7. Runs(x, K, P) /\ Fine(x, K, P)
  BY <1>1, <1>4 DEF Fine
<1>8. Copy("movsx", d, s).op = "movsx" /\ (Runs(Copy("movsx", d, s), K, P) <=> Runs(Plain("movsx", d, s), K, P))
  BY PairFields, RunsAlike
<1>9. HasValue(d, K \union Gives(Copy("movsx", d, s)))
  BY MovGives
<1> HIDE DEF x, y
<1>10. Fine(y, K, P)
  BY <1>1, <1>6, <1>7, <1>8 DEF Fine
<1> QED
  BY <1>1, <1>5, <1>6, <1>7, <1>9, <1>10 DEF d, x, y

-----------------------------------------------------------------------------
\* Moving a first operand to the destination and combining a second into it.
LEMMA ToldInPlace ==
  ASSUME NEW op \in {"add", "sub", "imul"}, NEW d, NEW x, NEW y, NEW K, NEW P,
         Inner(d, K), Ready(x, K), Ready(y, K), Twins(d, x)
  PROVE  Told(InPlace(op, d, x, y), K, P) /\ Ready(d, K \union AllGiven(InPlace(op, d, x, y)))
<1> DEFINE i == Mov(d, x)  j == Combine(op, d, y)
<1>1. Fine(i, K, P)
  BY MovFine
<1>2. HasValue(d, K \union Gives(i))
  BY MovGives
<1> HIDE DEF i
<1>3. Ready(d, K \union Gives(i)) /\ Ready(y, K \union Gives(i))
  BY <1>2, ReadyMore DEF Ready
<1>4. Fine(j, K \union Gives(i), P)
  BY <1>3, CombineFine
<1> HIDE DEF j
<1>5. Told(<<i, j>>, K, P) /\ AllGiven(<<i, j>>) = Gives(i) \union Gives(j)
  BY <1>1, <1>4, ToldTwo
<1>6. Ready(d, (K \union Gives(i)) \union Gives(j))
  BY <1>3, ReadyMore
<1>7. InPlace(op, d, x, y) = <<i, j>>
  BY DEF InPlace, i, j
<1>8. (K \union Gives(i)) \union Gives(j) = K \union (Gives(i) \union Gives(j))
  OBVIOUS
<1> QED
  BY <1>5, <1>6, <1>7, <1>8

\* The same with a constant.
LEMMA ToldInPlaceImm ==
  ASSUME NEW op \in {"add", "sub"}, NEW d, NEW x, NEW c, NEW K, NEW P,
         Inner(d, K), Ready(x, K), Twins(d, x)
  PROVE  Told(InPlaceImm(op, d, x, c), K, P) /\ Ready(d, K \union AllGiven(InPlaceImm(op, d, x, c)))
<1> DEFINE i == Mov(d, x)  j == CombineImm(op, d, c)
<1>1. Fine(i, K, P)
  BY MovFine
<1>2. HasValue(d, K \union Gives(i))
  BY MovGives
<1> HIDE DEF i
<1>3. Ready(d, K \union Gives(i)) /\ Inner(d, K \union Gives(i))
  BY <1>2, ReadyMore DEF Ready
<1>4. Fine(j, K \union Gives(i), P)
  BY <1>3, ImmediatesFine DEF Ready
<1> HIDE DEF j
<1>5. Told(<<i, j>>, K, P) /\ AllGiven(<<i, j>>) = Gives(i) \union Gives(j)
  BY <1>1, <1>4, ToldTwo
<1>6. Ready(d, (K \union Gives(i)) \union Gives(j))
  BY <1>3, ReadyMore
<1>7. InPlaceImm(op, d, x, c) = <<i, j>>
  BY DEF InPlaceImm, i, j
<1>8. (K \union Gives(i)) \union Gives(j) = K \union (Gives(i) \union Gives(j))
  OBVIOUS
<1> QED
  BY <1>5, <1>6, <1>7, <1>8

\* An arithmetic result left in a patch is moved to its place in memory.
LEMMA ToldPatchMoved ==
  ASSUME NEW d, NEW n, NEW s, NEW K, NEW P, Proper(d, K), isMemTemp(d), Told(s, K, P),
         Ready(Patch(d, n, "GP"), K \union AllGiven(s))
  PROVE  Told(s \o <<Mov(d, Patch(d, n, "GP"))>>, K, P)
<1> DEFINE l == Mov(d, Patch(d, n, "GP"))  t == <<l>>
<1>1. Fine(l, K \union AllGiven(s), P)
  BY PatchFine
<1> HIDE DEF l
<1>2. Told(t, K \union AllGiven(s), P)
  BY <1>1, ToldOne
<1> HIDE DEF t
<1> QED
  BY <1>2, ToldJoined DEF t, l

\* What a patch and the operands it stands for have in common.
LEMMA PatchTwins ==
  ASSUME NEW d, NEW n, NEW x, NEW K, Proper(x, K), x.size = d.size
  PROVE  Twins(Patch(d, n, "GP"), x) /\ \A L : Inner(Patch(d, n, "GP"), L)
<1> DEFINE p == Patch(d, n, "GP")
<1>1. p.kind # "OFFSET" /\ p.size = d.size /\ ~isMemTemp(p)
  BY PatchFacts
<1>2. x.kind # "OFFSET" /\ x.size \in Nat
  BY ProperFacts
<1> HIDE DEF p
<1> QED
  BY <1>1, <1>2 DEF Twins, Inner, p

\* A result in memory is computed in a patch, and moved.
LEMMA ToldInPatch ==
  ASSUME NEW op \in {"add", "sub", "imul"}, NEW d, NEW x, NEW y, NEW n, NEW K, NEW P,
         Proper(d, K), isMemTemp(d), Proper(x, K), Proper(y, K), x.size = d.size
  PROVE  Told(InPatch(op, d, x, y, n), K, P)
<1> DEFINE s == InPlace(op, Patch(d, n, "GP"), x, y)
<1>1. Ready(x, K) /\ Ready(y, K)
  BY ProperFacts
<1>2. Told(s, K, P) /\ Ready(Patch(d, n, "GP"), K \union AllGiven(s))
  BY <1>1, PatchTwins, ToldInPlace
<1> HIDE DEF s
<1>3. Told(s \o <<Mov(d, Patch(d, n, "GP"))>>, K, P)
  BY <1>2, ToldPatchMoved
<1> QED
  BY <1>3 DEF InPatch, s

\* The same with a constant.
LEMMA ToldInPatchImm ==
  ASSUME NEW op \in {"add", "sub"}, NEW d, NEW x, NEW c, NEW n, NEW K, NEW P,
         Proper(d, K), isMemTemp(d), Proper(x, K), x.size = d.size
  PROVE  Told(InPatchImm(op, d, x, c, n), K, P)
<1> DEFINE s == InPlaceImm(op, Patch(d, n, "GP"), x, c)
<1>1. Ready(x, K)
  BY ProperFacts
<1>2. Told(s, K, P) /\ Ready(Patch(d, n, "GP"), K \union AllGiven(s))
  BY <1>1, PatchTwins, ToldInPlaceImm
<1> HIDE DEF s
<1>3. Told(s \o <<Mov(d, Patch(d, n, "GP"))>>, K, P)
  BY <1>2, ToldPatchMoved
<1> QED
  BY <1>3 DEF InPatchImm, s

\* Two constants.
LEMMA ToldFolded ==
  ASSUME NEW f, NEW d, NEW c, NEW e, NEW n, NEW K, NEW P, Proper(d, K)
  PROVE  Told(Folded(f, d, c, e), K, P) /\ (isMemTemp(d) => Told(FoldedMem(f, d, c, e, n), K, P))
<1> DEFINE p == Patch(d, n, "GP")
           i == Insn("mov", <<D, Infix(f, c.value, e.value)>>, <<d>>, <<>>)
           j == Insn("mov", <<D, Infix(f, c.value, e.value)>>, <<p>>, <<>>)
<1>1. Inner(d, K)
  BY ProperFacts
<1>2. Fine(i, K, P)
  BY <1>1, ImmediatesFine
<1>3. p.kind # "OFFSET"
  BY PatchFacts
<1>4. Inner(p, K) /\ \A L : Inner(p, L)
  BY <1>3 DEF Inner
<1>5. HasValue(p, K \union Gives(j))
  BY MovGives
<1>6. Folded(f, d, c, e) = <<i>> /\ Folded(f, p, c, e) = <<j>>
  BY DEF Folded
<1> HIDE DEF p, i
<1>7. Fine(j, K, P)
  BY <1>4, ImmediatesFine
<1> HIDE DEF j
<1>8. Told(<<i>>, K, P)
  BY <1>2, ToldOne
<1>9. Told(<<j>>, K, P) /\ AllGiven(<<j>>) = Gives(j)
  BY <1>7, ToldOne
<1> DEFINE s == <<j>>
<1>10. Told(s, K, P) /\ Ready(p, K \union AllGiven(s))
  BY <1>4, <1>5, <1>9 DEF Ready
<1> HIDE DEF s
<1>11. isMemTemp(d) => Told(s \o <<Mov(d, p)>>, K, P)
  BY <1>10, ToldPatchMoved DEF p
<1>12. FoldedMem(f, d, c, e, n) = IF d.size = 8 THEN s \o <<Mov(d, p)>> ELSE <<i>>
  BY <1>6 DEF FoldedMem, s, p
<1> QED
  BY <1>6, <1>8, <1>11, <1>12

\* What arithmetic is about: operands of one width, in a register or in memory.
LEMMA ArithmeticFacts ==
  ASSUME NEW o, NEW w, NEW K, Integral(o, w), Proper(o, K)
  PROVE  /\ isGp(o) \/ isMemTemp(o) \/ isConst(o)
         /\ isGp(o) => ~isMemTemp(o) /\ ~isConst(o)
         /\ isMemTemp(o) => ~isConst(o)
         /\ ~isFp(o) /\ o.size = w /\ Ready(o, K) /\ Inner(o, K)
         /\ \A s : Ready(o, K \union s) /\ Inner(o, K \union s)
BY IntegralFacts, ProperFacts DEF Ready

\* A constant is moved to the destination, and an operand combined into it.
LEMMA ToldConstFirst ==
  ASSUME NEW op \in {"add", "imul"}, NEW d, NEW v, NEW y, NEW K, NEW P, Inner(d, K), Ready(y, K)
  PROVE  Told(<<MovImm(d, v), Combine(op, d, y)>>, K, P)
<1> DEFINE i == MovImm(d, v)  j == Combine(op, d, y)
<1>1. Fine(i, K, P)
  BY ImmediatesFine
<1>2. HasValue(d, K \union Gives(i))
  BY MovGives DEF MovImm
<1> HIDE DEF i
<1>3. Ready(d, K \union Gives(i)) /\ Ready(y, K \union Gives(i))
  BY <1>2, ReadyMore DEF Ready
<1>4. Fine(j, K \union Gives(i), P)
  BY <1>3, CombineFine
<1> HIDE DEF j
<1>5. Told(<<i, j>>, K, P)
  BY <1>1, <1>4, ToldTwo
<1> QED
  BY <1>5 DEF i, j

\* ADD.
LEMMA ToldAdd ==
  ASSUME NEW w, NEW d, NEW x, NEW y, NEW n, NEW K, NEW P,
         Integral(d, w), Integral(x, w), Integral(y, w), ~isConst(d), Proper(d, K), Proper(x, K), Proper(y, K)
  PROVE  Told(SelectAdd(d, x, y, n), K, P)
<1>1. /\ isGp(d) \/ isMemTemp(d)
      /\ isGp(d) => ~isMemTemp(d)
      /\ ~isFp(d) /\ d.size = w /\ Inner(d, K)
  BY ArithmeticFacts
<1>2. /\ isGp(x) \/ isMemTemp(x) \/ isConst(x)
      /\ isGp(x) => ~isMemTemp(x) /\ ~isConst(x)
      /\ isMemTemp(x) => ~isConst(x)
      /\ ~isFp(x) /\ x.size = w /\ Ready(x, K) /\ Twins(d, x)
  BY <1>1, ArithmeticFacts, ProperTwins
<1>3. /\ isGp(y) \/ isMemTemp(y) \/ isConst(y)
      /\ isGp(y) => ~isMemTemp(y) /\ ~isConst(y)
      /\ isMemTemp(y) => ~isConst(y)
      /\ ~isFp(y) /\ y.size = w /\ Ready(y, K)
  BY ArithmeticFacts
<1>4. CASE isConst(x) /\ isConst(y)
  <2>1. isGp(d) => SelectAdd(d, x, y, n) = Folded("add", d, x, y)
    BY <1>1, <1>2, <1>3, <1>4 DEF SelectAdd, AddConsts
  <2>2. isMemTemp(d) => SelectAdd(d, x, y, n) = FoldedMem("add", d, x, y, n)
    BY <1>1, <1>2, <1>3, <1>4 DEF SelectAdd, AddConstsMem
  <2> QED
    BY <1>1, <2>1, <2>2, ToldFolded
<1>5. CASE isConst(x) /\ ~isConst(y) /\ (isGp(d) \/ isGp(y))
  <2>1. SelectAdd(d, x, y, n) = <<MovImm(d, x.value), Combine("add", d, y)>>
    BY <1>1, <1>2, <1>3, <1>5 DEF SelectAdd, AddToConst
  <2> QED
    BY <1>1, <1>3, <2>1, ToldConstFirst
<1>6. CASE isConst(x) /\ ~isConst(y) /\ ~(isGp(d) \/ isGp(y))
  <2>1. SelectAdd(d, x, y, n) = InPatchImm("add", d, y, x, n)
    BY <1>1, <1>2, <1>3, <1>6 DEF SelectAdd, AddConstMem
  <2> QED
    BY <1>1, <1>3, <1>6, <2>1, ToldInPatchImm
<1>7. CASE isConst(y) /\ ~isConst(x) /\ (isGp(d) \/ isGp(x))
  <2>1. SelectAdd(d, x, y, n) = InPlaceImm("add", d, x, y)
    BY <1>1, <1>2, <1>3, <1>7 DEF SelectAdd, AddConst
  <2> QED
    BY <1>1, <1>2, <2>1, ToldInPlaceImm
<1>8. CASE isConst(y) /\ ~isConst(x) /\ ~(isGp(d) \/ isGp(x))
  <2>1. SelectAdd(d, x, y, n) = InPatchImm("add", d, x, y, n)
    BY <1>1, <1>2, <1>3, <1>8 DEF SelectAdd, AddMemConst
  <2> QED
    BY <1>1, <1>2, <1>8, <2>1, ToldInPatchImm
<1>9. CASE ~isConst(x) /\ ~isConst(y) /\ (isGp(d) \/ (isGp(x) /\ isGp(y)))
  <2>1. SelectAdd(d, x, y, n) = InPlace("add", d, x, y)
    BY <1>1, <1>2, <1>3, <1>9 DEF SelectAdd, AddOperands
  <2> QED
    BY <1>1, <1>2, <1>3, <2>1, ToldInPlace
<1>10. CASE ~isConst(x) /\ ~isConst(y) /\ ~(isGp(d) \/ (isGp(x) /\ isGp(y)))
  <2>1. SelectAdd(d, x, y, n) = InPatch("add", d, x, y, n)
    BY <1>1, <1>2, <1>3, <1>10 DEF SelectAdd, AddInMemory
  <2> QED
    BY <1>1, <1>2, <1>10, <2>1, ToldInPatch
<1> QED
  BY <1>4, <1>5, <1>6, <1>7, <1>8, <1>9, <1>10

\* SUB, but for the arm that reads a temporary as a constant.
LEMMA ToldSub ==
  ASSUME NEW w, NEW d, NEW x, NEW y, NEW n, NEW K, NEW P,
         Integral(d, w), Integral(x, w), Integral(y, w), ~isConst(d), Proper(d, K), Proper(x, K), Proper(y, K),
         ~(isConst(x) /\ ~isConst(y))
  PROVE  Told(SelectSub(d, x, y, n), K, P)
<1>1. /\ isGp(d) \/ isMemTemp(d)
      /\ isGp(d) => ~isMemTemp(d)
      /\ ~isFp(d) /\ d.size = w /\ Inner(d, K)
  BY ArithmeticFacts
<1>2. /\ isGp(x) \/ isMemTemp(x) \/ isConst(x)
      /\ isGp(x) => ~isMemTemp(x) /\ ~isConst(x)
      /\ isMemTemp(x) => ~isConst(x)
      /\ ~isFp(x) /\ x.size = w /\ Ready(x, K) /\ Twins(d, x)
  BY <1>1, ArithmeticFacts, ProperTwins
<1>3. /\ isGp(y) \/ isMemTemp(y) \/ isConst(y)
      /\ isGp(y) => ~isMemTemp(y) /\ ~isConst(y)
      /\ isMemTemp(y) => ~isConst(y)
      /\ ~isFp(y) /\ y.size = w /\ Ready(y, K)
  BY ArithmeticFacts
<1>4. CASE isConst(x) /\ isConst(y)
  <2>1. isGp(d) => SelectSub(d, x, y, n) = Folded("sub", d, x, y)
    BY <1>1, <1>2, <1>3, <1>4 DEF SelectSub, SubConsts
  <2>2. isMemTemp(d) => SelectSub(d, x, y, n) = FoldedMem("sub", d, x, y, n)
    BY <1>1, <1>2, <1>3, <1>4 DEF SelectSub, SubConstsMem
  <2> QED
    BY <1>1, <2>1, <2>2, ToldFolded
<1>5. CASE isConst(y) /\ ~isConst(x) /\ isGp(d)
  <2>1. SelectSub(d, x, y, n) = InPlaceImm("sub", d, x, y)
    BY <1>1, <1>2, <1>3, <1>5 DEF SelectSub, SubConst
  <2> QED
    BY <1>1, <1>2, <2>1, ToldInPlaceImm
<1>6. CASE isConst(y) /\ ~isConst(x) /\ ~isGp(d)
  <2>1. SelectSub(d, x, y, n) = InPatchImm("sub", d, x, y, n)
    BY <1>1, <1>2, <1>3, <1>6 DEF SelectSub, SubMemConst
  <2> QED
    BY <1>1, <1>2, <1>6, <2>1, ToldInPatchImm
<1>7. CASE ~isConst(x) /\ ~isConst(y) /\ (isGp(d) \/ (isGp(x) /\ isGp(y)))
  <2>1. SelectSub(d, x, y, n) = InPlace("sub", d, x, y)
    BY <1>1, <1>2, <1>3, <1>7 DEF SelectSub, SubOperands
  <2> QED
    BY <1>1, <1>2, <1>3, <2>1, ToldInPlace
<1>8. CASE ~isConst(x) /\ ~isConst(y) /\ ~(isGp(d) \/ (isGp(x) /\ isGp(y)))
  <2>1. SelectSub(d, x, y, n) = InPatch("sub", d, x, y, n)
    BY <1>1, <1>2, <1>3, <1>8 DEF SelectSub, SubInMemory
  <2> QED
    BY <1>1, <1>2, <1>8, <2>1, ToldInPatch
<1> QED
  BY <1>4, <1>5, <1>6, <1>7, <1>8

\* The second operand of an exclusive or.
LEMMA XorIntoFine ==
  ASSUME NEW t, NEW s, NEW K, NEW P, Ready(t, K), Ready(s, K)
  PROVE  Fine(XorInto(t, s), K, P)
<1>1. "xor" \in PairOps /\ "xor" \notin {"add", "sub", "imul"} /\ Fits("xor", t) /\ Fits("xor", s)
  BY AnyWidth DEF PairOps, TwoOperandOps
<1>2. Fine(Plain("xor", t, s), K, P)
  BY <1>1, PairFine DEF Ready
<1>3. Fine(Insn("xor", <<D, Imm(s.value)>>, <<t>>, <<>>), K, P)
  BY ImmediatesFine DEF Ready
<1> QED
  BY <1>2, <1>3 DEF XorInto

\* XOR, but for the arm that moves the first of two constants.
LEMMA ToldXor ==
  ASSUME NEW w, NEW d, NEW x, NEW y, NEW K, NEW P,
         Integral(d, w), Integral(x, w), Integral(y, w), ~isConst(d), Proper(d, K), Proper(x, K), Proper(y, K),
         ~(isGp(d) /\ isConst(x) /\ isConst(y))
  PROVE  Told(SelectXor(d, x, y), K, P)
<1>1. /\ isGp(d) \/ isMemTemp(d)
      /\ isGp(d) => ~isMemTemp(d)
      /\ ~isFp(d) /\ d.size = w /\ Ready(d, K) /\ Inner(d, K) /\ \A s : Ready(d, K \union s) /\ Inner(d, K \union s)
  BY ArithmeticFacts
<1>2. /\ isGp(x) \/ isMemTemp(x) \/ isConst(x)
      /\ isGp(x) => ~isMemTemp(x) /\ ~isConst(x)
      /\ isMemTemp(x) => ~isConst(x)
      /\ ~isFp(x) /\ x.size = w /\ Ready(x, K) /\ Twins(d, x) /\ \A s : Ready(x, K \union s)
  BY <1>1, ArithmeticFacts, ProperTwins
<1>3. /\ isGp(y) \/ isMemTemp(y) \/ isConst(y)
      /\ isGp(y) => ~isMemTemp(y) /\ ~isConst(y)
      /\ isMemTemp(y) => ~isConst(y)
      /\ ~isFp(y) /\ y.size = w /\ Ready(y, K) /\ \A s : Ready(y, K \union s)
  BY ArithmeticFacts
<1>4. ASSUME NEW t, NEW s, Ready(t, K), Ready(s, K), \A g : Ready(t, K \union g)
      PROVE  Told(<<XorInto(t, s), Plain("mov", d, t)>>, K, P)
  <2> DEFINE i == XorInto(t, s)  j == Plain("mov", d, t)
  <2>1. Fine(i, K, P)
    BY <1>4, XorIntoFine
  <2> HIDE DEF i
  <2>2. Fine(j, K \union Gives(i), P)
    BY <1>1, <1>4, PlainFine, AnyWidth
  <2> HIDE DEF j
  <2>3. Told(<<i, j>>, K, P)
    BY <2>1, <2>2, ToldTwo
  <2> QED
    BY <2>3 DEF i, j
<1>5. CASE isGp(d)
  <2> DEFINE i == IF isConst(x) THEN MovImm(d, x.value) ELSE Mov(d, x)  j == XorInto(d, y)
  <2>1. SelectXor(d, x, y) = <<i>> \o <<j>>
    BY <1>1, <1>2, <1>3, <1>5 DEF SelectXor, XorRegister
  <2>2. Fine(i, K, P)
    <3>1. Fine(MovImm(d, x.value), K, P)
      BY <1>1, ImmediatesFine
    <3>2. Fine(Mov(d, x), K, P)
      BY <1>1, <1>2, MovFine
    <3> QED
      BY <3>1, <3>2
  <2> HIDE DEF i
  <2>3. Fine(j, K \union Gives(i), P)
    BY <1>1, <1>3, XorIntoFine
  <2> HIDE DEF j
  <2>4. Told(<<i>>, K, P) /\ AllGiven(<<i>>) = Gives(i) /\ Told(<<j>>, K \union Gives(i), P)
    BY <2>2, <2>3, ToldOne
  <2> DEFINE s == <<i>>  t == <<j>>
  <2>5. Told(s, K, P) /\ Told(t, K \union AllGiven(s), P)
    BY <2>4
  <2> HIDE DEF s, t
  <2>6. Told(s \o t, K, P)
    BY <2>5, ToldJoined
  <2> QED
    BY <2>1, <2>6 DEF s, t
<1>6. CASE isMemTemp(d) /\ isGp(x)
  <2>1. SelectXor(d, x, y) = <<XorInto(x, y), Plain("mov", d, x)>>
    BY <1>1, <1>2, <1>3, <1>6 DEF SelectXor, XorMemory
  <2> QED
    BY <1>2, <1>3, <1>4, <2>1
<1>7. CASE isMemTemp(d) /\ ~isGp(x) /\ isGp(y)
  <2>1. SelectXor(d, x, y) = <<XorInto(y, x), Plain("mov", d, y)>>
    BY <1>1, <1>2, <1>3, <1>7 DEF SelectXor, XorMemory
  <2> QED
    BY <1>2, <1>3, <1>4, <2>1
<1>8. CASE isMemTemp(d) /\ ~isGp(x) /\ ~isGp(y)
  <2>1. SelectXor(d, x, y) = <<>>
    BY <1>1, <1>2, <1>3, <1>8 DEF SelectXor, XorMemory
  <2> QED
    BY <2>1, ToldNone
<1> QED
  BY <1>1, <1>5, <1>6, <1>7, <1>8

\* Products
\* A widened patch has a value when the patch has.
LEMMA WideReady ==
  ASSUME NEW o, NEW n, NEW K
  PROVE  LET p == Patch(o, n, "GP") IN
         /\ Wide(p).kind # "OFFSET" /\ Inner(p, K) /\ Inner(Wide(p), K)
         /\ Ready(p, K) <=> HasValue(p, K)
         /\ Ready(Wide(p), K) <=> HasValue(p, K)
         /\ HasValue(Wide(p), K) <=> HasValue(p, K)
<1> DEFINE p == Patch(o, n, "GP")
<1>1. KeyOf(Wide(p)) = KeyOf(p) /\ (InRegister(Wide(p)) <=> InRegister(p)) /\ Wide(p).kind # "OFFSET"
  BY WidePatchKept
<1>2. p.kind # "OFFSET"
  BY PatchFacts
<1> HIDE DEF p
<1> QED
  BY <1>1, <1>2 DEF Ready, HasValue, Inner, p

\* A byte is widened in a patch and multiplied by a constant.
LEMMA ToldByteByConst ==
  ASSUME NEW o, NEW n, NEW x, NEW e, NEW c, NEW K, NEW P, Ready(x, K), e.kind # "OFFSET"
  PROVE  LET p == Patch(o, n, "GP") IN
         /\ Told(<<Moving(Movsx(p, x), 1, 1), ImulImm(e, Wide(p), c)>>, K, P)
         /\ Told(<<Movsx(p, x), ImulImm(e, Wide(p), c)>>, K, P)
         /\ \A l : (\A L : K \subseteq L /\ HasValue(e, L) => Fine(l, L, P)) =>
              /\ Told(<<Moving(Movsx(p, x), 1, 1), ImulImm(e, Wide(p), c), l>>, K, P)
              /\ Told(<<Movsx(p, x), ImulImm(e, Wide(p), c), l>>, K, P)
<1> DEFINE p == Patch(o, n, "GP")  i == Moving(Movsx(p, x), 1, 1)  k == Movsx(p, x)  j == ImulImm(e, Wide(p), c)
<1>1. Wide(p).kind # "OFFSET" /\ \A L : Ready(Wide(p), L) <=> HasValue(Wide(p), L)
  BY WideReady
<1>2. /\ Fine(k, K, P) /\ HasValue(Wide(p), K \union Gives(k))
      /\ Fine(i, K, P) /\ HasValue(Wide(p), K \union Gives(i))
  BY <1>1, ExtendFine
<1> HIDE DEF i, k
<1>3. \A L : Inner(e, L)
  BY DEF Inner
<1>4. Fine(j, K \union Gives(k), P) /\ Fine(j, K \union Gives(i), P)
  BY <1>1, <1>2, <1>3, ImulFine
<1>5. \A L : HasValue(e, L \union Gives(j))
  BY MovGives DEF ImulImm
<1> HIDE DEF j, p
<1>6. Told(<<i, j>>, K, P) /\ Told(<<k, j>>, K, P)
  BY <1>2, <1>4, ToldTwo
<1>7. ASSUME NEW l, \A L : K \subseteq L /\ HasValue(e, L) => Fine(l, L, P)
      PROVE  Told(<<i, j, l>>, K, P) /\ Told(<<k, j, l>>, K, P)
  <2>1. \A g : Fine(l, (K \union g) \union Gives(j), P)
    BY <1>5, <1>7
  <2> QED
    BY <1>2, <1>4, <2>1, ToldThree
<1> QED
  BY <1>6, <1>7 DEF i, j, k, p

\* A register times a constant, in all arms by size.
LEMMA ToldProductOfConst ==
  ASSUME NEW w, NEW d, NEW x, NEW c, NEW n, NEW K, NEW P, d.size = w, d.kind # "OFFSET", Wide(d).kind # "OFFSET",
         Ready(d, K), Ready(x, K)
  PROVE  Told(SmulConst(d, x, c, n), K, P) /\ Told(SmulByConst(d, c, x, n), K, P)
<1>1. \A L : Inner(d, L)
  BY DEF Inner
<1>2. CASE w = 8
  <2> DEFINE i == MovImm(d, c.value)  j == Insn("imul", <<D, U>>, <<d>>, <<d, x>>)
  <2>1. SmulConst(d, x, c, n) = <<i, j>> /\ SmulByConst(d, c, x, n) = <<i, Combine("imul", d, x)>>
    BY <1>2 DEF SmulConst, SmulByConst
  <2>2. Told(<<i, Combine("imul", d, x)>>, K, P)
    BY <1>1, ToldConstFirst
  <2>3. Fine(i, K, P)
    BY <1>1, ImmediatesFine
  <2> HIDE DEF i
  <2>4. Ready(d, K \union Gives(i)) /\ Ready(x, K \union Gives(i))
    BY ReadyMore
  <2>5. Fine(j, K \union Gives(i), P)
    BY <2>4, SquareFine
  <2> HIDE DEF j
  <2>6. Told(<<i, j>>, K, P)
    BY <2>3, <2>5, ToldTwo
  <2> QED
    BY <2>1, <2>2, <2>6
<1>3. CASE w = 1
  <2>1. /\ SmulConst(d, x, c, n) =
             <<Moving(Movsx(Patch(x, n, "GP"), x), 1, 1), ImulImm(Wide(d), Wide(Patch(x, n, "GP")), c)>>
        /\ SmulByConst(d, c, x, n) = <<Movsx(Patch(x, n, "GP"), x), ImulImm(Wide(d), Wide(Patch(x, n, "GP")), c)>>
    BY <1>3 DEF SmulConst, SmulByConst
  <2> DEFINE e == Wide(d)
  <2>2. e.kind # "OFFSET"
    OBVIOUS
  <2> HIDE DEF e
  <2>3. /\ Told(<<Moving(Movsx(Patch(x, n, "GP"), x), 1, 1), ImulImm(e, Wide(Patch(x, n, "GP")), c)>>, K, P)
        /\ Told(<<Movsx(Patch(x, n, "GP"), x), ImulImm(e, Wide(Patch(x, n, "GP")), c)>>, K, P)
    BY <2>2, ToldByteByConst
  <2> QED
    BY <2>1, <2>3 DEF e
<1>4. CASE w \notin {1, 8}
  <2> DEFINE j == ImulImm(d, x, c)
  <2>1. SmulConst(d, x, c, n) = <<j>> /\ SmulByConst(d, c, x, n) = <<j>>
    BY <1>4 DEF SmulConst, SmulByConst
  <2>2. Fine(j, K, P)
    BY <1>1, ImulFine
  <2> HIDE DEF j
  <2> QED
    BY <2>1, <2>2, ToldOne
<1> QED
  BY <1>2, <1>3, <1>4

\* Two bytes are widened in patches and multiplied, and the product is moved.
LEMMA ToldBytes ==
  ASSUME NEW d, NEW x, NEW y, NEW n, NEW m, NEW l, NEW K, NEW P, Ready(x, K), Ready(y, K),
         \A L : K \subseteq L /\ HasValue(Patch(d, n, "GP"), L) => Fine(l, L, P)
  PROVE  LET p == Patch(d, n, "GP")  q == Patch(d, m, "GP") IN
         Told(<<Movsx(p, x), Movsx(q, y), Combine("imul", Wide(p), Wide(q)), l>>, K, P)
<1> DEFINE p == Patch(d, n, "GP")  q == Patch(d, m, "GP")
           i == Movsx(p, x)  j == Movsx(q, y)  k == Combine("imul", Wide(p), Wide(q))
<1>1. /\ Wide(p).kind # "OFFSET" /\ Wide(q).kind # "OFFSET"
      /\ \A L : (Ready(Wide(p), L) <=> HasValue(p, L)) /\ (HasValue(Wide(p), L) <=> HasValue(p, L))
      /\ \A L : (Ready(Wide(q), L) <=> HasValue(q, L)) /\ (HasValue(Wide(q), L) <=> HasValue(q, L))
  BY WideReady
<1>2. Fine(i, K, P) /\ HasValue(Wide(p), K \union Gives(i))
  BY <1>1, ExtendFine
<1> HIDE DEF i
<1> DEFINE A == K \union Gives(i)
<1>3. Ready(y, A) /\ HasValue(p, A) /\ K \subseteq A
  BY <1>1, <1>2, ReadyMore
<1> HIDE DEF A
<1>4. Fine(j, A, P) /\ HasValue(Wide(q), A \union Gives(j))
  BY <1>1, <1>3, ExtendFine
<1> HIDE DEF j
<1> DEFINE B == A \union Gives(j)
<1>5. HasValue(q, B) /\ HasValue(p, B) /\ A \subseteq B
  BY <1>1, <1>3, <1>4, ReadyMore
<1> HIDE DEF B
<1>6. Fine(k, B, P)
  BY <1>1, <1>5, CombineFine
<1> HIDE DEF k, p, q
<1>7. Fine(l, B \union Gives(k), P)
  <2>1. HasValue(p, B \union Gives(k)) /\ K \subseteq B \union Gives(k)
    BY <1>3, <1>5, ReadyMore
  <2> QED
    BY <2>1 DEF p
<1>8. Told(<<i, j, k, l>>, K, P)
  BY <1>2, <1>4, <1>6, <1>7, ToldFour DEF A, B
<1> QED
  BY <1>8 DEF i, j, k, p, q

\* SMUL, but for bytes in a register temporary.
LEMMA ToldSmul ==
  ASSUME NEW w, NEW d, NEW x, NEW y, NEW n, NEW K, NEW P,
         Integral(d, w), Integral(x, w), Integral(y, w), ~isConst(d), Proper(d, K), Proper(x, K), Proper(y, K),
         ~(isGpTemp(d) /\ d.size = 1 /\ ~isConst(x) /\ ~isConst(y))
  PROVE  Told(SelectSmul(d, x, y, n), K, P)
<1>1. /\ isGp(d) \/ isMemTemp(d)
      /\ isGp(d) => ~isMemTemp(d)
      /\ ~isFp(d) /\ d.size = w /\ d.kind # "OFFSET"
      /\ Ready(d, K) /\ Inner(d, K) /\ \A s : Ready(d, K \union s) /\ Inner(d, K \union s)
  BY ArithmeticFacts, ProperFacts
<1>2. /\ isGp(x) \/ isMemTemp(x) \/ isConst(x)
      /\ isGp(x) => ~isMemTemp(x) /\ ~isConst(x)
      /\ isMemTemp(x) => ~isConst(x)
      /\ ~isFp(x) /\ x.size = w /\ Ready(x, K) /\ Twins(d, x)
  BY <1>1, ArithmeticFacts, ProperTwins
<1>3. /\ isGp(y) \/ isMemTemp(y) \/ isConst(y)
      /\ isGp(y) => ~isMemTemp(y) /\ ~isConst(y)
      /\ isMemTemp(y) => ~isConst(y)
      /\ ~isFp(y) /\ y.size = w /\ Ready(y, K)
  BY ArithmeticFacts
<1>4. /\ isGp(d) <=> isGpReg(d) \/ isGpTemp(d)
      /\ isGpReg(d) => ~isGpTemp(d)
      /\ isMemTemp(d) => ~isGpReg(d) /\ ~isGpTemp(d)
  BY <1>1 DEF isGp, isGpReg, isGpTemp
<1>5. Wide(d).kind # "OFFSET"
  BY WideKept DEF Proper
<1>6. \A L : K \subseteq L => Inner(d, L)
  BY ProperFacts
<1>7. Told(InPlace("imul", d, x, y), K, P)
  BY <1>1, <1>2, <1>3, ToldInPlace
<1>8. Told(SmulConst(d, x, y, n), K, P) /\ Told(SmulByConst(d, x, y, n), K, P)
  BY <1>1, <1>2, <1>3, <1>5, ToldProductOfConst
<1>9. ASSUME NEW p, isMemTemp(d) => p = Patch(d, n, "GP"), NEW L, K \subseteq L, HasValue(p, L), p.kind # "OFFSET",
             p.size = w
      PROVE  Fine(Plain("mov", d, p), L, P) /\ (isMemTemp(d) => Fine(Mov(d, p), L, P))
  <2>1. Ready(p, L) /\ Inner(d, L)
    BY <1>6, <1>9 DEF Ready, Inner
  <2>2. Fine(Plain("mov", d, p), L, P)
    BY <2>1, PlainFine, AnyWidth
  <2> QED
    BY <1>9, <2>1, <2>2, PatchFine
<1>10. \A m : Patch(d, m, "GP").kind # "OFFSET" /\ Patch(d, m, "GP").size = w
          /\ Patch(x, m, "GP").kind # "OFFSET" /\ Patch(x, m, "GP").size = w
  BY <1>1, <1>2, PatchFacts
<1>11. CASE isGp(d) /\ isConst(x) /\ isConst(y)
  <2>1. SelectSmul(d, x, y, n) = Folded("imul", d, x, y)
    BY <1>1, <1>2, <1>3, <1>4, <1>11 DEF SelectSmul, SmulConsts
  <2> QED
    BY <2>1, ToldFolded
<1>12. CASE isGp(d) /\ isConst(x) /\ ~isConst(y)
  <2>1. SelectSmul(d, x, y, n) = SmulByConst(d, x, y, n)
    BY <1>1, <1>2, <1>3, <1>4, <1>12 DEF SelectSmul
  <2> QED
    BY <1>8, <2>1
<1>13. CASE isGpReg(d) /\ ~isConst(x) /\ isConst(y)
  <2>1. SelectSmul(d, x, y, n) = SmulConstToRegister(d, x, y, n)
    BY <1>1, <1>2, <1>3, <1>4, <1>13 DEF SelectSmul
  <2>2. CASE d.size # 1
    BY <1>8, <2>1, <2>2 DEF SmulConstToRegister
  <2>3. CASE d.size = 1
    <3> DEFINE p == Patch(x, n, "GP")  q == Patch(x, n + 1, "GP")  e == Wide(q)  l == Plain("mov", d, q)
    <3>1. SmulConstToRegister(d, x, y, n) = <<Moving(Movsx(p, x), 1, 1), ImulImm(e, Wide(p), y), l>>
      BY <2>3 DEF SmulConstToRegister
    <3>2. e.kind # "OFFSET" /\ \A L : HasValue(e, L) <=> HasValue(q, L)
      BY WideReady
    <3>3. q.kind # "OFFSET" /\ q.size = w /\ ~isMemTemp(d)
      BY <1>4, <1>10, <1>13
    <3> HIDE DEF e, q
    <3>4. \A L : K \subseteq L /\ HasValue(e, L) => Fine(l, L, P)
      BY <1>9, <3>2, <3>3
    <3> HIDE DEF l
    <3>5. Told(<<Moving(Movsx(p, x), 1, 1), ImulImm(e, Wide(p), y), l>>, K, P)
      BY <1>2, <3>2, <3>4, ToldByteByConst
    <3> QED
      BY <2>1, <3>1, <3>5
  <2> QED
    BY <2>2, <2>3
<1>14. CASE isGpReg(d) /\ ~isConst(x) /\ ~isConst(y)
  <2>1. SelectSmul(d, x, y, n) = SmulToRegister(d, x, y, n)
    BY <1>1, <1>2, <1>3, <1>4, <1>14 DEF SelectSmul
  <2>2. CASE d.size # 1
    BY <1>7, <2>1, <2>2 DEF SmulToRegister
  <2>3. CASE d.size = 1
    <3> DEFINE p == Patch(d, n, "GP")  q == Patch(d, n + 1, "GP")  l == Plain("mov", d, p)
    <3>1. SmulToRegister(d, x, y, n) = <<Movsx(p, x), Movsx(q, y), Combine("imul", Wide(p), Wide(q)), l>>
      BY <2>3 DEF SmulToRegister
    <3>2. \A L : K \subseteq L /\ HasValue(p, L) => Fine(l, L, P)
      BY <1>9, <1>10
    <3> HIDE DEF l
    <3>3. Told(<<Movsx(p, x), Movsx(q, y), Combine("imul", Wide(p), Wide(q)), l>>, K, P)
      BY <1>2, <1>3, <3>2, ToldBytes
    <3> QED
      BY <2>1, <3>1, <3>3
  <2> QED
    BY <2>2, <2>3
<1>15. CASE isGpTemp(d) /\ ~isConst(x) /\ isConst(y)
  <2>1. SelectSmul(d, x, y, n) = SmulConst(d, x, y, n)
    BY <1>1, <1>2, <1>3, <1>4, <1>15 DEF SelectSmul
  <2> QED
    BY <1>8, <2>1
<1>16. CASE isGpTemp(d) /\ ~isConst(x) /\ ~isConst(y)
  <2>1. SelectSmul(d, x, y, n) = SmulOperands(d, x, y, n)
    BY <1>1, <1>2, <1>3, <1>4, <1>16 DEF SelectSmul
  <2> QED
    BY <1>7, <1>16, <2>1 DEF SmulOperands
<1>17. CASE isMemTemp(d) /\ isGp(x) /\ isConst(y)
  <2> DEFINE p == Patch(d, n, "GP")  l == Mov(d, p)
  <2>1. SelectSmul(d, x, y, n) = SmulMemConst(d, x, y, n)
    BY <1>1, <1>2, <1>3, <1>4, <1>17 DEF SelectSmul
  <2>2. /\ Wide(p).kind # "OFFSET" /\ p.kind # "OFFSET"
        /\ \A L : Inner(p, L) /\ (HasValue(Wide(p), L) <=> HasValue(p, L)) /\ (Ready(p, L) <=> HasValue(p, L))
    BY <1>10, WideReady
  <2>3. \A L : K \subseteq L /\ HasValue(p, L) => Fine(l, L, P)
    BY <1>9, <1>10, <1>17
  <2>4. CASE d.size = 8
    <3> DEFINE i == MovImm(p, y.value)  k == Combine("imul", p, x)
    <3>1. SmulMemConst(d, x, y, n) = <<i, k, l>>
      BY <2>4 DEF SmulMemConst
    <3>2. Fine(i, K, P)
      BY <2>2, ImmediatesFine
    <3>3. HasValue(p, K \union Gives(i))
      BY MovGives DEF MovImm
    <3> HIDE DEF i
    <3>4. Ready(x, K \union Gives(i))
      BY <1>2, ReadyMore
    <3>5. Fine(k, K \union Gives(i), P)
      BY <2>2, <3>3, <3>4, CombineFine
    <3> HIDE DEF k, l, p
    <3>6. Fine(l, (K \union Gives(i)) \union Gives(k), P)
      BY <2>3, <3>3, ReadyMore
    <3>7. Told(<<i, k, l>>, K, P)
      BY <3>2, <3>5, <3>6, ToldThree
    <3> QED
      BY <2>1, <3>1, <3>7
  <2>5. CASE d.size = 1
    <3> DEFINE e == Wide(p)
    <3>1. SmulMemConst(d, x, y, n) = <<Movsx(p, x), ImulImm(e, Wide(p), y), l>>
      BY <2>5 DEF SmulMemConst
    <3>2. e.kind # "OFFSET" /\ \A L : K \subseteq L /\ HasValue(e, L) => Fine(l, L, P)
      BY <2>2, <2>3
    <3> HIDE DEF e, l
    <3>3. Told(<<Movsx(p, x), ImulImm(e, Wide(p), y), l>>, K, P)
      BY <1>2, <3>2, ToldByteByConst
    <3> QED
      BY <2>1, <3>1, <3>3
  <2>6. CASE d.size \notin {1, 8}
    <3> DEFINE j == ImulImm(p, x, y)
    <3>1. SmulMemConst(d, x, y, n) = <<j, l>>
      BY <2>6 DEF SmulMemConst
    <3>2. Fine(j, K, P)
      BY <1>2, <2>2, ImulFine
    <3>3. HasValue(p, K \union Gives(j))
      BY MovGives DEF ImulImm
    <3> HIDE DEF j, l, p
    <3>4. Fine(l, K \union Gives(j), P)
      BY <2>3, <3>3
    <3>5. Told(<<j, l>>, K, P)
      BY <3>2, <3>4, ToldTwo
    <3> QED
      BY <2>1, <3>1, <3>5
  <2> QED
    BY <2>4, <2>5, <2>6
<1>18. CASE isMemTemp(d) /\ isGp(x) /\ ~isConst(y)
  <2>1. SelectSmul(d, x, y, n) = SmulInMemory(d, x, y, n)
    BY <1>1, <1>2, <1>3, <1>4, <1>18 DEF SelectSmul
  <2>2. CASE d.size # 1
    <3>1. Told(InPatch("imul", d, x, y, n), K, P)
      BY <1>1, <1>2, <1>18, ToldInPatch
    <3> QED
      BY <2>1, <2>2, <3>1 DEF SmulInMemory
  <2>3. CASE d.size = 1
    <3> DEFINE p == Patch(d, n, "GP")  q == Patch(d, n + 1, "GP")  l == Mov(d, p)
    <3>1. SmulInMemory(d, x, y, n) = <<Movsx(p, x), Movsx(q, y), Combine("imul", Wide(p), Wide(q)), l>>
      BY <2>3 DEF SmulInMemory
    <3>2. \A L : K \subseteq L /\ HasValue(p, L) => Fine(l, L, P)
      BY <1>9, <1>10, <1>18
    <3> HIDE DEF l
    <3>3. Told(<<Movsx(p, x), Movsx(q, y), Combine("imul", Wide(p), Wide(q)), l>>, K, P)
      BY <1>2, <1>3, <3>2, ToldBytes
    <3> QED
      BY <2>1, <3>1, <3>3
  <2> QED
    BY <2>2, <2>3
<1>19. CASE isMemTemp(d) /\ ~isGp(x)
  <2>1. SelectSmul(d, x, y, n) = SmulUnfinished(d, x, y, n)
    BY <1>1, <1>2, <1>3, <1>4, <1>19 DEF SelectSmul
  <2> DEFINE p == Patch(d, n, "GP")  x1 == Plain("mov", p, x)
  <2>2. Inner(p, K)
    BY WideReady
  <2> HIDE DEF p
  <2>3. Fine(x1, K, P)
    BY <1>2, <2>2, PlainFine, AnyWidth
  <2> HIDE DEF x1
  <2>4. Told(<<x1>>, K, P) /\ Told(<<>>, K, P)
    BY <2>3, ToldOne, ToldNone
  <2>5. SmulUnfinished(d, x, y, n) \in {<<x1>>, <<>>}
    BY DEF SmulUnfinished, x1, p
  <2> QED
    BY <2>1, <2>4, <2>5
<1> QED
  BY <1>1, <1>4, <1>11, <1>12, <1>13, <1>14, <1>15, <1>16, <1>17, <1>18, <1>19

-----------------------------------------------------------------------------
\* What the code of every instruction considered tells the allocator

\* the sizes for which the model of memory and of floating point registers is made: a
\* place in memory has 32 bytes, a floating point value is of single or double precision
SizesFit == FpSizes \subseteq {4, 8} /\ MemSizes \subseteq 0..32

\* the registers that have a value when the code begins
Keys(a) == {KeyOf(o) : o \in {o \in ToSet(a) : InRegister(o)}} \union {<<"rsp">>}
\* a value in memory that is moved by a string move
LargeMove(op, a) ==
  op = "MOVE" /\ isMemTemp(a[1]) /\ isMemTemp(a[2]) /\ a[2].size \notin MovableSizes \union {16}
SingleLoad(op, a) == op = "MEM_LOAD" /\ isFp(a[1]) /\ a[1].size = 4
\* the promises that the code of an instruction keeps
Promised(op, a) ==
  {p \in {"width", "copies"} :
     /\ p = "width" => ~SingleLoad(op, a)
     /\ p = "copies" => ~(op \in {"OFFSET_STORE", "OFFSET_LOAD"} \/ LargeMove(op, a))}

\* Temporaries, registers and constants as operands that have a value.
LEMMA ProperOperands ==
  ASSUME NEW K
  PROVE  /\ \A k \in Nat, w \in Nat, alloc \in {"GP", "MEM"} :
              HasValue(Temp(k, w, alloc), K) => Proper(Temp(k, w, alloc), K)
         /\ \A k \in Nat, w \in {4, 8} : HasValue(Temp(k, w, "FP"), K) => Proper(Temp(k, w, "FP"), K)
         /\ \A w \in Nat, name \in {"rax", "rbx"} : HasValue(Reg(name, w), K) => Proper(Reg(name, w), K)
         /\ \A w \in {4, 8} : HasValue(Reg("xmm0", w), K) => Proper(Reg("xmm0", w), K)
         /\ \A v : \A w \in Nat : HasValue(Const(v, w), K) => Proper(Const(v, w), K)
<1>1. ASSUME NEW k \in Nat, NEW w \in Nat, NEW alloc \in {"GP", "MEM"}
      PROVE  HasValue(Temp(k, w, alloc), K) => Proper(Temp(k, w, alloc), K)
  <2> DEFINE t == Temp(k, w, alloc)
  <2>1. Sizable(t) /\ ~isFp(t)
    BY TempFacts
  <2>2. t.name = k
    BY DEF Temp, AlignedTemp
  <2> HIDE DEF t
  <2> QED
    BY <2>1, <2>2 DEF Proper, t
<1>2. ASSUME NEW k \in Nat, NEW w \in {4, 8}
      PROVE  HasValue(Temp(k, w, "FP"), K) => Proper(Temp(k, w, "FP"), K)
  <2> DEFINE t == Temp(k, w, "FP")
  <2>1. Sizable(t) /\ t.size = w
    BY TempFacts
  <2>2. t.name = k
    BY DEF Temp, AlignedTemp
  <2> HIDE DEF t
  <2> QED
    BY <2>1, <2>2 DEF Proper, t
<1>3. ASSUME NEW w \in Nat, NEW name \in {"rax", "rbx", "xmm0"}, name = "xmm0" => w \in {4, 8}
      PROVE  HasValue(Reg(name, w), K) => Proper(Reg(name, w), K)
  <2> DEFINE r == Reg(name, w)
  <2>1. Sizable(r) /\ r.size = w /\ (name # "xmm0" => ~isFp(r))
    BY RegFacts
  <2>2. ~isMemTemp(r)
    BY DEF Reg, isMemTemp
  <2> HIDE DEF r
  <2>3. HasValue(r, K) => Proper(r, K)
    BY <1>3, <2>1, <2>2 DEF Proper
  <2> QED
    BY <2>3 DEF r
<1>4. ASSUME NEW v, NEW w \in Nat
      PROVE  HasValue(Const(v, w), K) => Proper(Const(v, w), K)
  <2> DEFINE c == Const(v, w)
  <2>1. Sizable(c) /\ ~isFp(c)
    BY ConstFacts
  <2>2. ~isMemTemp(c)
    BY DEF Const, isMemTemp
  <2> HIDE DEF c
  <2> QED
    BY <2>1, <2>2 DEF Proper, c
<1>5. \A w \in Nat, name \in {"rax", "rbx"} : HasValue(Reg(name, w), K) => Proper(Reg(name, w), K)
  BY <1>3
<1>6. \A w \in {4, 8} : HasValue(Reg("xmm0", w), K) => Proper(Reg("xmm0", w), K)
  BY <1>3
<1>7. \A v : \A w \in Nat : HasValue(Const(v, w), K) => Proper(Const(v, w), K)
  BY <1>4
<1> QED
  BY <1>1, <1>2, <1>5, <1>6, <1>7

\* The operands of the instructions considered.
LEMMA ProperArguments ==
  ASSUME SizesFit, NEW K, NEW k \in Nat
  PROVE  /\ \A d \in Destinations(k) : HasValue(d, K) => Proper(d, K)
         /\ \A v \in Values(k) : HasValue(v, K) => Proper(v, K)
         /\ \A o \in Pointers(k) \union Offsets(k) : HasValue(o, K) => Proper(o, K)
         /\ \A w \in GpSizes : \A o \in Integer(k, w) \union ConstantsOf(w) \union {Reg("rbx", w)} :
              HasValue(o, K) => Proper(o, K)
<1>1. /\ \A w \in GpSizes : w \in Nat
      /\ \A w \in FpSizes : w \in {4, 8}
      /\ \A w \in MemSizes : w \in Nat
  BY Sizes DEF SizesFit
<1>2. ASSUME NEW d \in Gp(k) \union Fp(k) \union Mem(k)
      PROVE  HasValue(d, K) => Proper(d, K)
  BY <1>1, ProperOperands DEF Gp, Fp, Mem
<1>3. ASSUME NEW d \in Destinations(k)
      PROVE  HasValue(d, K) => Proper(d, K)
  BY <1>1, <1>2, ProperOperands DEF Destinations
<1>4. ASSUME NEW w \in GpSizes \union MemSizes, NEW o \in ConstantsOf(w)
      PROVE  HasValue(o, K) => Proper(o, K)
  <2>1. PICK x : o = Const(x, w)
    BY DEF ConstantsOf
  <2> QED
    BY <1>1, <2>1, ProperOperands
<1>5. ASSUME NEW v \in Values(k)
      PROVE  HasValue(v, K) => Proper(v, K)
  BY <1>2, <1>4 DEF Values
<1>6. ASSUME NEW o \in Pointers(k) \union Offsets(k)
      PROVE  HasValue(o, K) => Proper(o, K)
  BY ProperOperands DEF Pointers, Offsets, Either
<1>7. ASSUME NEW w \in GpSizes, NEW o \in Integer(k, w) \union ConstantsOf(w) \union {Reg("rbx", w)}
      PROVE  HasValue(o, K) => Proper(o, K)
  <2>1. CASE o \in Integer(k, w)
    BY <1>1, <2>1, ProperOperands DEF Integer
  <2>2. CASE o \in ConstantsOf(w)
    BY <1>4, <2>2
  <2>3. CASE o = Reg("rbx", w)
    BY <1>1, <2>3, ProperOperands
  <2> QED
    BY <1>7, <2>1, <2>2, <2>3
<1>8. \A w \in GpSizes : \A o \in Integer(k, w) \union ConstantsOf(w) \union {Reg("rbx", w)} :
        HasValue(o, K) => Proper(o, K)
  BY <1>7
<1> QED
  BY <1>3, <1>5, <1>6, <1>8

\* The registers among the arguments have a value.
LEMMA KeysKnown ==
  ASSUME NEW a, NEW K, Keys(a) \subseteq K
  PROVE  (\A k \in DOMAIN a : HasValue(a[k], K)) /\ <<"rsp">> \in K
BY DEF Keys, HasValue, ToSet

\* Pairs and triples of arguments.
LEMMA Tuples ==
  ASSUME NEW A, NEW B
  PROVE  /\ \A a \in A \X B : 1 \in DOMAIN a /\ 2 \in DOMAIN a /\ a[1] \in A /\ a[2] \in B
         /\ \A C : \A a \in A \X B \X C :
              /\ 1 \in DOMAIN a /\ 2 \in DOMAIN a /\ 3 \in DOMAIN a
              /\ a[1] \in A /\ a[2] \in B /\ a[3] \in C
OBVIOUS

\* What the promises leave out, for each operator.
LEMMA PromisedFacts ==
  ASSUME NEW op, NEW a
  PROVE  /\ "width" \in Promised(op, a) => ~(op = "MEM_LOAD" /\ isFp(a[1]) /\ a[1].size = 4)
         /\ "copies" \in Promised(op, a) =>
              op \notin {"OFFSET_STORE", "OFFSET_LOAD"} /\ ~LargeMove(op, a)
BY DEF Promised, SingleLoad

\* The code of every instruction that the assembler takes tells the allocator the truth.
LEMMA ConsideredTold ==
  ASSUME SizesFit, NEW op \in Considered, NEW a \in ArgumentsOf(op), NEW n, ~Unencodable(op, a),
         NEW K, Keys(a) \subseteq K
  PROVE  Told(Select([op |-> op, args |-> a], n), K, Promised(op, a))
<1> DEFINE s == Select([op |-> op, args |-> a], n)
           P == Promised(op, a)
<1>a. IsCode(s) /\ Accepted(s)
  BY ConsideredAccepted
<1>b. (\A k \in DOMAIN a : HasValue(a[k], K)) /\ <<"rsp">> \in K
  BY KeysKnown
<1>c. /\ "width" \in P => ~(op = "MEM_LOAD" /\ isFp(a[1]) /\ a[1].size = 4)
      /\ "copies" \in P => op \notin {"OFFSET_STORE", "OFFSET_LOAD"} /\ ~LargeMove(op, a)
  BY PromisedFacts
<1> HIDE DEF s, P
<1>1. CASE op = "MOVE"
  <2>1. a \in Destinations(1) \X Values(2) /\ a[1].size = a[2].size
    BY <1>1 DEF ArgumentsOf
  <2>2. a[1] \in Destinations(1) /\ a[2] \in Values(2) /\ HasValue(a[1], K) /\ HasValue(a[2], K)
    BY <1>b, <2>1, Tuples
  <2>3. s = SelectMove(a[1], a[2], n)
    BY <1>1, Arms DEF s
  <2>4. Proper(a[1], K) /\ Proper(a[2], K) /\ ~isConst(a[1])
    BY <2>2, ProperArguments, DestinationFacts
  <2>5. "copies" \in P => ~(isMemTemp(a[1]) /\ isMemTemp(a[2]) /\ a[2].size \notin MovableSizes \union {16})
    BY <1>1, <1>c DEF LargeMove
  <2>6. Told(SelectMove(a[1], a[2], n), K, P)
    BY <2>1, <2>4, <2>5, ToldMove
  <2> QED
    BY <2>3, <2>6 DEF s, P
<1>2. CASE op = "ADDROF"
  <2>1. a \in {Temp(1, 8, "GP"), Temp(1, 8, "MEM")} \X Mem(2)
    BY <1>2 DEF ArgumentsOf
  <2>2. a[1] \in {Temp(1, 8, "GP"), Temp(1, 8, "MEM")} /\ a[2] \in Mem(2) /\ HasValue(a[1], K) /\ HasValue(a[2], K)
    BY <1>b, <2>1, Tuples
  <2>3. s = SelectAddrof(a[1], a[2], n)
    BY <1>2, Arms DEF s
  <2>4. (isGp(a[1]) \/ isMemTemp(a[1])) /\ isMemTemp(a[2])
    BY <2>2, AddressFacts
  <2>5. Proper(a[1], K)
    BY <2>2, ProperOperands
  <2>6. Proper(a[2], K)
    BY <2>2, ProperArguments DEF Values
  <2>7. Told(SelectAddrof(a[1], a[2], n), K, P)
    BY <2>4, <2>5, <2>6, ToldAddrof
  <2> QED
    BY <2>3, <2>7 DEF s, P
<1>3. CASE op = "MEM_STORE"
  <2>1. a \in Pointers(1) \X Values(2) \X Offsets(3)
    BY <1>3 DEF ArgumentsOf
  <2>2. /\ a[1] \in Pointers(1) /\ a[2] \in Values(2) /\ a[3] \in Offsets(3)
        /\ HasValue(a[1], K) /\ HasValue(a[2], K) /\ HasValue(a[3], K)
    BY <1>b, <2>1, Tuples
  <2>3. s = SelectMemStore(a[1], a[2], a[3], n)
    BY <1>3, Arms DEF s
  <2>4. Proper(a[1], K) /\ Proper(a[2], K) /\ Proper(a[3], K)
    BY <2>2, ProperArguments
  <2>5. IsPointer(a[1]) /\ IsPointer(a[3])
    BY <2>2, AddressFacts
  <2>6. ~isFp(a[1]) /\ ~isFp(a[3])
    BY <2>5 DEF IsPointer
  <2>7. isMemTemp(a[1]) => ~(isFp(a[2]) \/ (isConst(a[2]) /\ isConst(a[3])) \/ (isMemTemp(a[2]) /\ a[2].size = 16))
    BY <1>3, Exceptions
  <2>8. Told(SelectMemStore(a[1], a[2], a[3], n), K, P)
    BY <1>a, <2>3, <2>4, <2>6, <2>7, ToldMemStore
  <2> QED
    BY <2>3, <2>8 DEF s, P
<1>4. CASE op = "MEM_LOAD"
  <2>1. a \in Destinations(1) \X Pointers(2) \X Offsets(3)
    BY <1>4 DEF ArgumentsOf
  <2>2. /\ a[1] \in Destinations(1) /\ a[2] \in Pointers(2) /\ a[3] \in Offsets(3)
        /\ HasValue(a[1], K) /\ HasValue(a[2], K) /\ HasValue(a[3], K)
    BY <1>b, <2>1, Tuples
  <2>3. s = SelectMemLoad(a[1], a[2], a[3], n)
    BY <1>4, Arms DEF s
  <2>4. Proper(a[1], K) /\ Proper(a[2], K) /\ Proper(a[3], K) /\ ~isConst(a[1])
    BY <2>2, ProperArguments, DestinationFacts
  <2>5. IsPointer(a[2]) /\ IsPointer(a[3])
    BY <2>2, AddressFacts
  <2>6. "width" \in P => ~(isFp(a[1]) /\ a[1].size = 4)
    BY <1>4, <1>c
  <2>7. Told(SelectMemLoad(a[1], a[2], a[3], n), K, P)
    BY <1>a, <2>3, <2>4, <2>5, <2>6, ToldMemLoad
  <2> QED
    BY <2>3, <2>7 DEF s, P
<1>5. CASE op = "STK_STORE"
  <2>1. a \in Offsets(1) \X Values(2)
    BY <1>5 DEF ArgumentsOf
  <2>2. a[1] \in Offsets(1) /\ a[2] \in Values(2) /\ HasValue(a[1], K) /\ HasValue(a[2], K)
    BY <1>b, <2>1, Tuples
  <2>3. s = SelectStkStore(a[1], a[2], n)
    BY <1>5, Arms DEF s
  <2>4. Proper(a[1], K) /\ Proper(a[2], K) /\ IsPointer(a[1])
    BY <2>2, ProperArguments, AddressFacts
  <2>5. Told(SelectStkStore(a[1], a[2], n), K, P)
    BY <1>a, <1>b, <2>3, <2>4, ToldStkStore
  <2> QED
    BY <2>3, <2>5 DEF s, P
<1>6. CASE op = "STK_LOAD"
  <2>1. a \in Destinations(1) \X Offsets(2)
    BY <1>6 DEF ArgumentsOf
  <2>2. a[1] \in Destinations(1) /\ a[2] \in Offsets(2) /\ HasValue(a[1], K) /\ HasValue(a[2], K)
    BY <1>b, <2>1, Tuples
  <2>3. s = SelectStkLoad(a[1], a[2], n)
    BY <1>6, Arms DEF s
  <2>4. Proper(a[1], K) /\ Proper(a[2], K) /\ IsPointer(a[2]) /\ ~isConst(a[1])
    BY <2>2, ProperArguments, AddressFacts, DestinationFacts
  <2>5. Told(SelectStkLoad(a[1], a[2], n), K, P)
    BY <1>a, <1>b, <2>3, <2>4, ToldStkLoad
  <2> QED
    BY <2>3, <2>5 DEF s, P
<1>7. CASE op = "OFFSET_STORE"
  <2>1. a \in {Temp(1, 32, "MEM")} \X Values(2) \X Offsets(3)
    BY <1>7 DEF ArgumentsOf
  <2>2. /\ a[1] = Temp(1, 32, "MEM") /\ a[2] \in Values(2) /\ a[3] \in Offsets(3)
        /\ HasValue(a[2], K) /\ HasValue(a[3], K)
    BY <1>b, <2>1, Tuples
  <2>3. s = SelectOffsetStore(a[1], a[2], a[3], n)
    BY <1>7, Arms DEF s
  <2>4. Proper(a[2], K) /\ Proper(a[3], K) /\ IsPointer(a[3])
    BY <2>2, ProperArguments, AddressFacts
  <2>5. isMemTemp(a[1]) /\ "copies" \notin P
    BY <1>7, <1>c, <2>2, TempFacts
  <2>6. Told(SelectOffsetStore(a[1], a[2], a[3], n), K, P)
    BY <2>4, <2>5, ToldOffsetStore
  <2> QED
    BY <2>3, <2>6 DEF s, P
<1>8. CASE op = "OFFSET_LOAD"
  <2>1. a \in Destinations(1) \X {Temp(2, 32, "MEM")} \X Offsets(3)
    BY <1>8 DEF ArgumentsOf
  <2>2. /\ a[1] \in Destinations(1) /\ a[2] = Temp(2, 32, "MEM") /\ a[3] \in Offsets(3)
        /\ HasValue(a[1], K) /\ HasValue(a[3], K)
    BY <1>b, <2>1, Tuples
  <2>3. s = SelectOffsetLoad(a[1], a[2], a[3], n)
    BY <1>8, Arms DEF s
  <2>4. Proper(a[1], K) /\ Proper(a[3], K) /\ IsPointer(a[3]) /\ ~isConst(a[1])
    BY <2>2, ProperArguments, AddressFacts, DestinationFacts
  <2>5. isMemTemp(a[2]) /\ "copies" \notin P
    BY <1>8, <1>c, <2>2, TempFacts
  <2>6. Told(SelectOffsetLoad(a[1], a[2], a[3], n), K, P)
    BY <2>4, <2>5, ToldOffsetLoad
  <2> QED
    BY <2>3, <2>6 DEF s, P
<1>9. CASE op \in {"ADD", "SUB", "SMUL", "XOR"}
  <2>1. PICK w \in GpSizes : a \in Integers3(w)
    BY <1>9 DEF ArgumentsOf
  <2>2. Integral(a[1], w) /\ Integral(a[2], w) /\ Integral(a[3], w) /\ ~isConst(a[1])
    BY <2>1, IntegersFacts
  <2>3. a \in (Integer(1, w) \union {Reg("rbx", w)})
             \X (Integer(1, w) \union Integer(2, w) \union ConstantsOf(w))
             \X (Integer(1, w) \union Integer(2, w) \union ConstantsOf(w) \union Integer(3, w))
    BY <2>1 DEF Integers3
  <2>4. /\ a[1] \in Integer(1, w) \union {Reg("rbx", w)}
        /\ a[2] \in Integer(1, w) \union Integer(2, w) \union ConstantsOf(w)
        /\ a[3] \in Integer(1, w) \union Integer(2, w) \union ConstantsOf(w) \union Integer(3, w)
        /\ HasValue(a[1], K) /\ HasValue(a[2], K) /\ HasValue(a[3], K)
    BY <1>b, <2>3, Tuples
  <2>5. \A k \in 1..3 : \A o \in Integer(k, w) \union ConstantsOf(w) \union {Reg("rbx", w)} :
          HasValue(o, K) => Proper(o, K)
    BY ProperArguments
  <2>6. Proper(a[1], K) /\ Proper(a[2], K) /\ Proper(a[3], K)
    BY <2>4, <2>5
  <2>7. CASE op = "ADD"
    <3>1. s = SelectAdd(a[1], a[2], a[3], n)
      BY <2>7, Arms DEF s
    <3>2. Told(SelectAdd(a[1], a[2], a[3], n), K, P)
      BY <2>2, <2>6, ToldAdd
    <3> QED
      BY <3>1, <3>2 DEF s, P
  <2>8. CASE op = "SUB"
    <3>1. s = SelectSub(a[1], a[2], a[3], n)
      BY <2>8, Arms DEF s
    <3>2. ~(isConst(a[2]) /\ ~isConst(a[3]))
      BY <2>8, Exceptions
    <3>3. Told(SelectSub(a[1], a[2], a[3], n), K, P)
      BY <2>2, <2>6, <3>2, ToldSub
    <3> QED
      BY <3>1, <3>3 DEF s, P
  <2>9. CASE op = "SMUL"
    <3>1. s = SelectSmul(a[1], a[2], a[3], n)
      BY <2>9, Arms DEF s
    <3>2. ~(isGpTemp(a[1]) /\ a[1].size = 1 /\ ~isConst(a[2]) /\ ~isConst(a[3]))
      BY <2>9, Exceptions
    <3>3. Told(SelectSmul(a[1], a[2], a[3], n), K, P)
      BY <2>2, <2>6, <3>2, ToldSmul
    <3> QED
      BY <3>1, <3>3 DEF s, P
  <2>10. CASE op = "XOR"
    <3>1. s = SelectXor(a[1], a[2], a[3])
      BY <2>10, Arms DEF s
    <3>2. ~(isGp(a[1]) /\ isConst(a[2]) /\ isConst(a[3]))
      BY <2>10, Exceptions
    <3>3. Told(SelectXor(a[1], a[2], a[3]), K, P)
      BY <2>2, <2>6, <3>2, ToldXor
    <3> QED
      BY <3>1, <3>3 DEF s, P
  <2> QED
    BY <1>9, <2>7, <2>8, <2>9, <2>10
<1> QED
  BY <1>1, <1>2, <1>3, <1>4, <1>5, <1>6, <1>7, <1>8, <1>9 DEF Considered

-----------------------------------------------------------------------------
\* The load that reads more than its destination holds

\* an instruction of the code is not as wide as its operands
Disagrees(c) == \E x \in ToSet(c) : ~WidthAgrees(x)

\* Code that ends with such an instruction.
LEMMA DisagreesJoined ==
  ASSUME NEW s, NEW t, IsCode(s), IsCode(t), Disagrees(t)
  PROVE  Disagrees(s \o t)
BY JoinedMembers DEF Disagrees

\* The width of a floating point load comes from its address.
LEMMA Misloaded ==
  ASSUME NEW d, NEW b, NEW o, d.kind # "OFFSET", d.size = 4, b.size = 8
  PROVE  IsCode(LoadFp(d, b, o)) /\ Disagrees(LoadFp(d, b, o))
<1> DEFINE x == LoadFrom("movsd", 0, d, b, o)[1]
<1>1. LoadFp(d, b, o) = LoadFrom("movsd", 0, d, b, o)
  BY DEF LoadFp, FpMove
<1>2. LoadFrom("movsd", 0, d, b, o) = <<x>>
  BY DEF LoadFrom
<1>3. x.op = "movsd" /\ x.args = <<D, At(0, Slot(b), Slot(o))>>
  BY DEF LoadFrom, Insn
<1>4. Printed(x) = << <<"op", d>>, <<"mem", 0, Shown(b), Shown(o)>> >>
  BY PrintedLoad
<1> HIDE DEF x
<1>5. 1 \in DOMAIN x.args /\ Printed(x)[1] = <<"op", d>>
  BY <1>3, <1>4
<1>6. SizeOf(Printed(x)[1]) = 4
  BY <1>5, OperandArgument
<1>7. "movsd" \in DOMAIN Carries /\ Carries["movsd"] = 8
  BY DEF Carries
<1>8. ~WidthAgrees(x)
  BY <1>3, <1>5, <1>6, <1>7 DEF WidthAgrees
<1>9. IsCode(<<x>>) /\ ToSet(<<x>>) = {x}
  BY OneAccepted DEF ToSet
<1> QED
  BY <1>1, <1>2, <1>8, <1>9 DEF Disagrees

\* A load of a value of single precision reads eight bytes, in every arm.
LEMMA SingleLoadsDisagree ==
  ASSUME NEW d, NEW b, NEW o, NEW n, IsPointer(b), IsPointer(o), Sizable(d), isFp(d), d.size = 4
  PROVE  Disagrees(SelectMemLoad(d, b, o, n))
<1>1. Sizable(b) /\ Sizable(o) /\ ~isFp(b) /\ ~isFp(o) /\ b.size = 8 /\ o.size = 8
  BY DEF IsPointer
<1>2. ~isConst(d) /\ ~isGp(d) /\ ~isMemTemp(d) /\ d.kind # "OFFSET"
  BY OperandFacts
<1>3. /\ isConst(b) \/ isGp(b) \/ isMemTemp(b)
      /\ isGp(b) => ~isMemTemp(b) /\ ~isConst(b)
      /\ isMemTemp(b) => ~isConst(b)
  BY <1>1, OperandFacts
<1>4. \A k : IsCode(Load(b, k)) /\ IsCode(Load(o, k)) /\ Loaded(b, k).size = 8 /\ Loaded(o, k).size = 8
  BY <1>1, LoadAccepted, LoadedFacts
<1>5. \A k : IsCode(LoadFp(d, b, Loaded(o, k))) /\ Disagrees(LoadFp(d, b, Loaded(o, k)))
  BY <1>1, <1>2, Misloaded
<1>6. \A k : Disagrees(Load(o, k) \o LoadFp(d, b, Loaded(o, k)))
  BY <1>4, <1>5, DisagreesJoined
<1>7. CASE isGp(b)
  <2>1. SelectMemLoad(d, b, o, n) = LoadFpGp(d, b, o, n)
    BY <1>1, <1>2, <1>3, <1>7 DEF SelectMemLoad
  <2> QED
    BY <2>1, <1>6 DEF LoadFpGp
<1>8. CASE isConst(b)
  <2>1. SelectMemLoad(d, b, o, n) = LoadFpConst(d, b, o, n)
    BY <1>1, <1>2, <1>3, <1>8 DEF SelectMemLoad
  <2>2. CASE isGp(o)
    BY <1>1, <1>2, <2>1, <2>2, Misloaded DEF LoadFpConst
  <2>3. CASE ~isGp(o)
    BY <1>6, <2>1, <2>3 DEF LoadFpConst
  <2> QED
    BY <2>2, <2>3
<1>9. CASE isMemTemp(b)
  <2> DEFINE s == Load(b, n) \o Load(o, n + 1)  t == LoadFp(d, Loaded(b, n), Loaded(o, n + 1))
  <2>1. SelectMemLoad(d, b, o, n) = LoadFpMem(d, b, o, n)
    BY <1>1, <1>2, <1>3, <1>9 DEF SelectMemLoad
  <2>2. IsCode(s)
    BY <1>4, JoinedAccepted
  <2>3. IsCode(t) /\ Disagrees(t)
    BY <1>2, <1>4, Misloaded
  <2>4. LoadFpMem(d, b, o, n) = s \o t
    BY DEF LoadFpMem
  <2> HIDE DEF s, t
  <2> QED
    BY <2>1, <2>2, <2>3, <2>4, DisagreesJoined
<1> QED
  BY <1>3, <1>7, <1>8, <1>9

\* The same for the instructions considered.
LEMMA ConsideredWidths ==
  ASSUME SizesFit, NEW op \in Considered, NEW a \in ArgumentsOf(op), NEW n, ~Unencodable(op, a)
  PROVE  Disagrees(Select([op |-> op, args |-> a], n) ) <=> SingleLoad(op, a)
<1> DEFINE s == Select([op |-> op, args |-> a], n)
<1>1. CASE SingleLoad(op, a)
  <2>1. op = "MEM_LOAD" /\ isFp(a[1]) /\ a[1].size = 4
    BY <1>1 DEF SingleLoad
  <2>2. a \in Destinations(1) \X Pointers(2) \X Offsets(3)
    BY <2>1 DEF ArgumentsOf
  <2>3. a[1] \in Destinations(1) /\ a[2] \in Pointers(2) /\ a[3] \in Offsets(3)
    BY <2>2, Tuples
  <2>4. Sizable(a[1]) /\ IsPointer(a[2]) /\ IsPointer(a[3])
    BY <2>3, DestinationFacts, AddressFacts
  <2>5. s = SelectMemLoad(a[1], a[2], a[3], n)
    BY <2>1, Arms
  <2>6. Disagrees(SelectMemLoad(a[1], a[2], a[3], n))
    BY <2>1, <2>4, SingleLoadsDisagree
  <2> HIDE DEF s
  <2>7. Disagrees(s)
    BY <2>5, <2>6
  <2> QED
    BY <1>1, <2>7 DEF s
<1>2. CASE ~SingleLoad(op, a)
  <2>1. Told(s, Keys(a), Promised(op, a))
    BY ConsideredTold
  <2>2. "width" \in Promised(op, a)
    BY <1>2 DEF Promised
  <2> HIDE DEF s
  <2>3. \A x \in ToSet(s) : WidthAgrees(x)
    BY <2>1, <2>2 DEF Told, Fine, Runs, ToSet
  <2>4. ~Disagrees(s)
    BY <2>3 DEF Disagrees
  <2> QED
    BY <1>2, <2>4 DEF s
<1> QED
  BY <1>1, <1>2

-----------------------------------------------------------------------------
\* An instruction that copies one operand to another

\* The mark of a move.
LEMMA CopyMarks ==
  ASSUME NEW op, NEW to, NEW from
  PROVE  LET x == Copy(op, to, from) IN
         /\ x.move = <<to, from>> /\ x.op = op
         /\ Printed(x) = << <<"op", to>>, <<"op", from>> >>
<1> DEFINE i == Insn(op, <<D, U>>, <<to>>, <<from>>)
<1>1. i.defs[1] = to /\ i.uses[1] = from
  BY DEF Insn
<1>2. i = [op |-> op, args |-> <<D, U>>, defs |-> <<to>>, uses |-> <<from>>, move |-> <<>>, ends |-> TRUE]
  BY DEF Insn
<1>3. Copy(op, to, from) = [i EXCEPT !.move = <<to, from>>]
  BY <1>1 DEF Copy, Moving
<1>4. Copy(op, to, from).move = <<to, from>>
  BY <1>2, <1>3
<1>5. Printed(i) = << <<"op", to>>, <<"op", from>> >>
  BY PrintedPair
<1>6. /\ Copy(op, to, from).args = i.args /\ Copy(op, to, from).defs = i.defs
      /\ Copy(op, to, from).uses = i.uses /\ Copy(op, to, from).op = op
  BY <1>2, <1>3
<1>7. Printed(Copy(op, to, from)) = Printed(i)
  BY <1>6 DEF Printed, TakenBefore
<1> QED
  BY <1>4, <1>5, <1>6, <1>7

\* The width of two operands of one size.
LEMMA TwinsWidth ==
  ASSUME NEW to, NEW from, Twins(to, from)
  PROVE  WidthOf(<< <<"op", to>>, <<"op", from>> >>) = to.size
<1> DEFINE p == << <<"op", to>>, <<"op", from>> >>
<1>1. SizeOf(<<"op", to>>) = to.size /\ SizeOf(<<"op", from>>) = to.size /\ to.size \in Nat
  BY OperandArgument DEF Twins
<1>2. DOMAIN p = 1..2 /\ p[1] = <<"op", to>> /\ p[2] = <<"op", from>>
  OBVIOUS
<1> HIDE DEF p
<1>3. {SizeOf(p[k]) : k \in DOMAIN p} = {to.size}
  BY <1>1, <1>2
<1>4. CASE to.size = 0
  BY <1>3, <1>4 DEF WidthOf, p
<1>5. CASE to.size # 0
  <2>1. {SizeOf(p[k]) : k \in DOMAIN p} \ {0} = {to.size}
    BY <1>3, <1>5
  <2>2. \A v \in {to.size} : to.size >= v
    BY <1>1
  <2> QED
    BY <1>1, <2>1, <2>2 DEF WidthOf, p
<1> QED
  BY <1>4, <1>5

\* What is read as a register or a place in memory.
LEMMA GotOperand ==
  ASSUME NEW m, NEW o, NEW w, o.kind # "OFFSET"
  PROVE  Get(m, <<"op", o>>, w) = IF isGp(o) \/ isFp(o) THEN Low(Held(m, o), w) ELSE Bytes(m, TempBase(o.name), w)
<1> DEFINE a == <<"op", o>>
<1>1. a[1] = "op" /\ a[2] = o
  OBVIOUS
<1>2. GpArg(a) \/ FpArg(a) <=> isGp(o) \/ isFp(o)
  BY OperandArgument
<1> HIDE DEF a
<1>3. RegOf(a) = o
  BY <1>1 DEF RegOf
<1>4. AddressOf(m, a) = TempBase(o.name)
  BY <1>1 DEF AddressOf
<1>5. Get(m, a, w) = IF isGp(o) \/ isFp(o) THEN Low(Held(m, o), w) ELSE Bytes(m, TempBase(o.name), w)
  BY <1>1, <1>2, <1>3, <1>4 DEF Get
<1> QED
  BY <1>5 DEF a

\* What is read has the width asked for.
LEMMA GotWidth ==
  ASSUME NEW m, NEW o, NEW w \in Nat, o.kind # "OFFSET"
  PROVE  LET v == Get(m, <<"op", o>>, w) IN v = [k \in 1..w |-> v[k]] /\ DOMAIN v = 1..w /\ Len(v) = w
<1> DEFINE v == Get(m, <<"op", o>>, w)
<1>1. v = IF isGp(o) \/ isFp(o) THEN Low(Held(m, o), w) ELSE Bytes(m, TempBase(o.name), w)
  BY GotOperand
<1> HIDE DEF v
<1>2. DOMAIN v = 1..w /\ v = [k \in 1..w |-> v[k]]
  BY <1>1 DEF Low, Bytes
<1>3. Len(v) = w
  BY <1>2, Lengths
<1> QED
  BY <1>2, <1>3 DEF v

\* What the moves write: what they read, with zeros above it in a floating point register.
LEMMA CopyExecutes ==
  ASSUME NEW m, NEW op, NEW to, NEW from, Twins(to, from),
         op = "mov" \/ (op \in DOMAIN Carries /\ to.size = Carries[op]),
         Encodable(Copy(op, to, from))
  PROVE  LET v == Get(m, <<"op", from>>, to.size) IN
         \/ Exec(m, Copy(op, to, from)) = Set(m, <<"op", to>>, v)
         \/ isFp(to) /\ Exec(m, Copy(op, to, from)) = Set(m, <<"op", to>>, Over(Zeros(16), v))
<1> DEFINE x == Copy(op, to, from)  p == Printed(x)  v == Get(m, <<"op", from>>, to.size)
<1>1. x.op = op /\ p = << <<"op", to>>, <<"op", from>> >>
  BY CopyMarks
<1>2. WidthOf(p) = to.size
  BY <1>1, TwinsWidth
<1>3. FpArg(<<"op", to>>) <=> isFp(to)
  BY OperandArgument
<1>4. DOMAIN Carries = {"movss", "movd", "movsd", "movq", "movdqu"}
  BY DEF Carries
<1>5. Carries["movss"] = 4 /\ Carries["movd"] = 4 /\ Carries["movsd"] = 8 /\ Carries["movq"] = 8 /\ Carries["movdqu"] = 16
  BY DEF Carries
<1> HIDE DEF x
<1>6. p[1] = <<"op", to>> /\ p[2] = <<"op", from>>
  BY <1>1
<1> HIDE DEF p
<1>7. CASE op = "mov"
  <2>1. Exec(m, x) = Set(m, p[1], Get(m, p[2], WidthOf(p)))
    BY <1>1, <1>7 DEF Exec, p
  <2> QED
    BY <2>1, <1>2, <1>6 DEF x
<1>8. CASE op \in {"movss", "movsd"}
  <2> DEFINE u == Get(m, p[2], IF op = "movsd" THEN 8 ELSE 4)
  <2>1. Exec(m, x) = Set(m, p[1], IF FpArg(p[1]) /\ MemArg(p[2]) THEN Over(Zeros(16), u) ELSE u)
    BY <1>1, <1>8 DEF Exec, p
  <2>2. u = v
    BY <1>4, <1>5, <1>6, <1>8
  <2> HIDE DEF u, v
  <2> QED
    BY <2>1, <2>2, <1>3, <1>6 DEF x, v
<1>9. CASE op \in {"movd", "movq"}
  <2> DEFINE u == Get(m, p[2], IF op = "movq" THEN 8 ELSE 4)
  <2>1. Exec(m, x) = Set(m, p[1], IF FpArg(p[1]) THEN Over(Zeros(16), u) ELSE u)
    BY <1>1, <1>9 DEF Exec, p
  <2>2. u = v
    BY <1>4, <1>5, <1>6, <1>9
  <2> HIDE DEF u, v
  <2> QED
    BY <2>1, <2>2, <1>3, <1>6 DEF x, v
<1>10. CASE op = "movdqu"
  <2>1. Exec(m, x) = Set(m, p[1], Get(m, p[2], 16))
    BY <1>1, <1>10 DEF Exec, p
  <2> QED
    BY <2>1, <1>4, <1>5, <1>6, <1>10 DEF x
<1> QED
  BY <1>4, <1>7, <1>8, <1>9, <1>10

\* Writing to a register, and then reading it.
LEMMA PutGot ==
  ASSUME NEW m, IsMachine(m), NEW o, NEW w \in Nat, NEW v, DOMAIN v = 1..w, NEW bytes,
         bytes = v \/ (isFp(o) /\ bytes = Over(Zeros(16), v)), isGp(o) \/ isFp(o)
  PROVE  LET q == Put(m, o, bytes) IN \A k \in 1..w : q.regs[KeyOf(o)][k] = v[k]
<1> DEFINE q == Put(m, o, bytes)
<1>1. q.regs[KeyOf(o)] = IF isGp(o) /\ Len(bytes) = 4 THEN Over(Zeros(8), bytes) ELSE Over(Held(m, o), bytes)
  BY PutFacts
<1>2. \A y, z : \A k \in DOMAIN z : k \in DOMAIN Over(y, z) /\ Over(y, z)[k] = z[k]
  BY DEF Over
<1> HIDE DEF q
<1>3. \A k \in 1..w : k \in DOMAIN bytes /\ bytes[k] = v[k]
  BY <1>2
<1>4. \A k \in 1..w : q.regs[KeyOf(o)][k] = bytes[k]
  BY <1>1, <1>2, <1>3
<1> QED
  BY <1>3, <1>4 DEF q

\* Writing to memory, and then reading it.
LEMMA WriteGot ==
  ASSUME NEW m, IsMachine(m), NEW a \in Nat, NEW w \in Nat, NEW v, DOMAIN v = 1..w
  PROVE  /\ \A k \in 1..w : ByteAt(WriteAt(m, a, v), a + k - 1) = v[k]
         /\ \A b \in Int : b \notin a..(a + w - 1) => ByteAt(WriteAt(m, a, v), b) = ByteAt(m, b)
<1> DEFINE q == WriteAt(m, a, v)
           mem == [x \in DOMAIN m.mem \union a..(a + w - 1) |-> IF x \in a..(a + w - 1) THEN v[x - a + 1] ELSE m.mem[x]]
<1>1. Len(v) = w
  BY Lengths
<1>2. q = [m EXCEPT !.mem = mem]
  BY <1>1 DEF WriteAt
<1>3. \A x \in DOMAIN m.mem \union a..(a + w - 1) : mem[x] = IF x \in a..(a + w - 1) THEN v[x - a + 1] ELSE m.mem[x]
  OBVIOUS
<1>4. DOMAIN mem = DOMAIN m.mem \union a..(a + w - 1)
  OBVIOUS
<1> HIDE DEF q, mem
<1>5. q.mem = mem
  BY <1>2 DEF IsMachine
<1>6. ASSUME NEW k \in 1..w
      PROVE  ByteAt(q, a + k - 1) = v[k]
  <2>1. a + k - 1 \in a..(a + w - 1) /\ (a + k - 1) - a + 1 = k
    OBVIOUS
  <2> QED
    BY <2>1, <1>3, <1>4, <1>5 DEF ByteAt
<1>7. ASSUME NEW b \in Int, b \notin a..(a + w - 1)
      PROVE  ByteAt(q, b) = ByteAt(m, b)
  BY <1>3, <1>4, <1>5, <1>7 DEF ByteAt
<1> QED
  BY <1>6, <1>7 DEF q

\* What a register operand holds when it has a value.
LEMMA HeldRegister ==
  ASSUME NEW m, NEW o, isGp(o) \/ isFp(o), KeyOf(o) \in DOMAIN m.regs
  PROVE  Held(m, o) = m.regs[KeyOf(o)]
BY DEF Held, Defined

\* Registers and register temporaries are in registers.
LEMMA Registers ==
  ASSUME NEW o
  PROVE  isGp(o) \/ isFp(o) => InRegister(o)
BY DEF isGp, isFp, isGpReg, isFpReg, InRegister

\* A copy leaves the same bytes in both operands: to a register.
LEMMA CopiedToRegister ==
  ASSUME NEW m, IsMachine(m), NEW to, NEW from, Twins(to, from), isGp(to) \/ isFp(to),
         HasValue(from, DOMAIN m.regs), NEW bytes,
         LET v == Get(m, <<"op", from>>, to.size) IN
         bytes = v \/ (isFp(to) /\ bytes = Over(Zeros(16), v))
  PROVE  LET q == Put(m, to, bytes) IN Get(q, <<"op", to>>, to.size) = Get(q, <<"op", from>>, to.size)
<1> DEFINE v == Get(m, <<"op", from>>, to.size)  q == Put(m, to, bytes)  w == to.size
<1>1. to.kind # "OFFSET" /\ from.kind # "OFFSET" /\ w \in Nat
  BY DEF Twins
<1>2. v = [k \in 1..w |-> v[k]] /\ DOMAIN v = 1..w
  BY <1>1, GotWidth
<1>3. v = IF isGp(from) \/ isFp(from) THEN Low(Held(m, from), w) ELSE Bytes(m, TempBase(from.name), w)
  BY <1>1, GotOperand
<1>4. bytes = v \/ (isFp(to) /\ bytes = Over(Zeros(16), v))
  OBVIOUS
<1> HIDE DEF v, w
<1>5. \A k \in 1..w : q.regs[KeyOf(to)][k] = v[k]
  BY <1>1, <1>2, <1>4, PutGot
<1>6. /\ q.mem = m.mem /\ DOMAIN q.regs = DOMAIN m.regs \union {KeyOf(to)}
      /\ \A r \in DOMAIN m.regs : r # KeyOf(to) => q.regs[r] = m.regs[r]
  BY PutFacts
<1> HIDE DEF q
<1>7. Get(q, <<"op", to>>, w) = Low(q.regs[KeyOf(to)], w)
  BY <1>1, <1>6, GotOperand, HeldRegister
<1>8. Low(q.regs[KeyOf(to)], w) = v
  <2>1. Low(q.regs[KeyOf(to)], w) = [k \in 1..w |-> q.regs[KeyOf(to)][k]]
    BY DEF Low
  <2> QED
    BY <1>2, <1>5, <2>1
<1>9. CASE (isGp(from) \/ isFp(from)) /\ KeyOf(from) = KeyOf(to)
  <2>1. Get(q, <<"op", from>>, w) = Low(q.regs[KeyOf(from)], w)
    BY <1>1, <1>6, <1>9, GotOperand, HeldRegister
  <2> QED
    BY <1>7, <1>9, <2>1 DEF q, w
<1>10. CASE (isGp(from) \/ isFp(from)) /\ KeyOf(from) # KeyOf(to)
  <2>1. KeyOf(from) \in DOMAIN m.regs
    BY <1>10, Registers DEF HasValue
  <2>2. Get(q, <<"op", from>>, w) = Low(q.regs[KeyOf(from)], w)
    BY <1>1, <1>6, <1>10, <2>1, GotOperand, HeldRegister
  <2>3. v = Low(m.regs[KeyOf(from)], w)
    BY <1>3, <1>10, <2>1, HeldRegister
  <2>4. q.regs[KeyOf(from)] = m.regs[KeyOf(from)]
    BY <1>6, <1>10, <2>1
  <2> QED
    BY <1>7, <1>8, <2>2, <2>3, <2>4 DEF q, w
<1>11. CASE ~(isGp(from) \/ isFp(from))
  <2>1. Get(q, <<"op", from>>, w) = Bytes(q, TempBase(from.name), w)
    BY <1>1, <1>11, GotOperand
  <2>2. Bytes(q, TempBase(from.name), w) = Bytes(m, TempBase(from.name), w)
    BY <1>6 DEF Bytes, ByteAt
  <2> QED
    BY <1>3, <1>7, <1>8, <1>11, <2>1, <2>2 DEF q, w
<1> QED
  BY <1>9, <1>10, <1>11

\* The same to memory, from a register.
LEMMA CopiedToMemory ==
  ASSUME NEW m, IsMachine(m), NEW to, NEW from, Twins(to, from), isMemTemp(to), isGp(from) \/ isFp(from)
  PROVE  LET q == WriteAt(m, TempBase(to.name), Get(m, <<"op", from>>, to.size)) IN
         Get(q, <<"op", to>>, to.size) = Get(q, <<"op", from>>, to.size)
<1> DEFINE v == Get(m, <<"op", from>>, to.size)  w == to.size  a == TempBase(to.name)  q == WriteAt(m, a, v)
<1>1. to.kind # "OFFSET" /\ from.kind # "OFFSET" /\ w \in Nat /\ a \in Nat
  BY DEF Twins, TempBase
<1>2. v = [k \in 1..w |-> v[k]] /\ DOMAIN v = 1..w
  BY <1>1, GotWidth
<1>3. v = Low(Held(m, from), w)
  BY <1>1, GotOperand
<1>4. ~(isGp(to) \/ isFp(to))
  BY DEF isMemTemp, isGp, isFp, isGpReg, isFpReg, isGpTemp, isFpTemp
<1> HIDE DEF v, w, a
<1>5. \A k \in 1..w : ByteAt(q, a + k - 1) = v[k]
  BY <1>1, <1>2, WriteGot
<1>6. q.regs = m.regs
  BY WriteKeeps
<1> HIDE DEF q
<1>7. Get(q, <<"op", to>>, w) = Bytes(q, a, w)
  BY <1>1, <1>4, GotOperand DEF a
<1>8. Bytes(q, a, w) = v
  <2>1. Bytes(q, a, w) = [k \in 1..w |-> ByteAt(q, a + k - 1)]
    BY DEF Bytes
  <2> QED
    BY <1>2, <1>5, <2>1
<1>9. Get(q, <<"op", from>>, w) = Low(Held(q, from), w)
  BY <1>1, GotOperand
<1>10. Held(q, from) = Held(m, from)
  BY <1>6 DEF Held, Defined
<1> QED
  BY <1>3, <1>7, <1>8, <1>9, <1>10 DEF q, v, w, a

\* An instruction that only copies leaves the same bytes in both operands.
LEMMA CopyCopies ==
  ASSUME NEW m, IsMachine(m), NEW x, Encodable(x), Copying(x),
         \A o \in ToSet(x.uses) : HasValue(o, DOMAIN m.regs)
  PROVE  LET q == Exec(m, x)  to == x.move[1]  from == x.move[2] IN
         Get(q, <<"op", to>>, to.size) = Get(q, <<"op", from>>, to.size)
<1>1. PICK to, from : /\ x = Copy(x.op, to, from) /\ Twins(to, from)
                      /\ x.op = "mov" \/ (x.op \in DOMAIN Carries /\ to.size = Carries[x.op])
  BY DEF Copying
<1>2. x.move = <<to, from>> /\ Printed(x) = << <<"op", to>>, <<"op", from>> >>
  BY <1>1, CopyMarks
<1>3. HasValue(from, DOMAIN m.regs)
  <2>1. x.uses = <<from>>
    BY <1>1, PairFields
  <2> QED
    BY <2>1 DEF ToSet
<1> DEFINE v == Get(m, <<"op", from>>, to.size)  a == <<"op", to>>
<1>4. Exec(m, x) = Set(m, a, v) \/ (isFp(to) /\ Exec(m, x) = Set(m, a, Over(Zeros(16), v)))
  BY <1>1, CopyExecutes
<1>5. /\ GpArg(a) <=> isGp(to)
      /\ FpArg(a) <=> isFp(to)
      /\ MemArg(a) <=> to.kind = "OFFSET" \/ isMemTemp(to)
      /\ RegOf(a) = to /\ (to.kind # "OFFSET" => AddressOf(m, a) = TempBase(to.name))
  BY OperandArgument DEF RegOf, AddressOf
<1>6. to.kind # "OFFSET" /\ from.kind # "OFFSET"
  BY <1>1 DEF Twins
<1> HIDE DEF v
<1>7. \A b : Set(m, a, b) = IF isGp(to) \/ isFp(to) THEN Put(m, to, b) ELSE WriteAt(m, TempBase(to.name), b)
  BY <1>5, <1>6 DEF Set
<1>8. Forms(x.op, Printed(x)) /\ Printed(x)[1] = a /\ Printed(x)[2] = <<"op", from>>
  BY <1>2 DEF Encodable
<1>9. /\ GpArg(<<"op", from>>) <=> isGp(from)
      /\ FpArg(<<"op", from>>) <=> isFp(from)
      /\ ~ImmArg(<<"op", from>>)
  BY OperandArgument
<1>10. x.op \in {"mov", "movss", "movd", "movsd", "movq", "movdqu"}
  BY <1>1 DEF Carries
<1> HIDE DEF a
<1>11. isGp(to) \/ isFp(to) \/ (isMemTemp(to) /\ (isGp(from) \/ isFp(from)))
  <2>1. CASE x.op = "mov"
    <3>1. GpArg(a) \/ (MemArg(a) /\ GpArg(<<"op", from>>))
      BY <1>8, <1>9, <2>1 DEF Forms
    <3> QED
      BY <3>1, <1>5, <1>6, <1>9
  <2>2. CASE x.op # "mov"
    <3>1. FpArg(a) \/ GpArg(a) \/ (MemArg(a) /\ FpArg(<<"op", from>>))
      BY <1>8, <1>10, <2>2 DEF Forms
    <3> QED
      BY <3>1, <1>5, <1>6, <1>9
  <2> QED
    BY <2>1, <2>2
<1> DEFINE q == Exec(m, x)
<1>12. CASE isGp(to) \/ isFp(to)
  <2>1. PICK b : /\ q = Put(m, to, b)
                 /\ b = v \/ (isFp(to) /\ b = Over(Zeros(16), v))
    BY <1>4, <1>7, <1>12
  <2>2. Get(Put(m, to, b), <<"op", to>>, to.size) = Get(Put(m, to, b), <<"op", from>>, to.size)
    BY <1>1, <1>3, <1>12, <2>1, CopiedToRegister DEF v
  <2> QED
    BY <1>2, <2>1, <2>2
<1>13. CASE ~(isGp(to) \/ isFp(to))
  <2>1. q = WriteAt(m, TempBase(to.name), v)
    BY <1>4, <1>7, <1>13
  <2>2. LET p == WriteAt(m, TempBase(to.name), v) IN Get(p, <<"op", to>>, to.size) = Get(p, <<"op", from>>, to.size)
    BY <1>1, <1>11, <1>13, CopiedToMemory DEF v
  <2> QED
    BY <1>2, <2>1, <2>2
<1> QED
  BY <1>12, <1>13

-----------------------------------------------------------------------------
\* A value in memory that is moved by a string move

\* A small number as a word, written to a register that string moves use.
LEMMA WordHeld ==
  ASSUME NEW m, IsMachine(m), NEW r \in {RSI, RDI, RCX}, NEW n \in Nat, NEW w, w[1] = n % 256, w[2] = n \div 256,
         DOMAIN w = 1..8
  PROVE  LET q == Put(m, r, w) IN
         /\ Number(Held(q, r)) = n
         /\ \A s \in {RSI, RDI, RCX} : s # r => Held(q, s) = Held(m, s)
<1> DEFINE q == Put(m, r, w)
<1>1. isGp(r) /\ ~isFp(r)
  BY DEF RSI, RDI, RCX, Reg, isGp, isFp, isGpReg, isFpReg, isGpTemp, isFpTemp, GpRegisters, FpRegisters
<1>2. \A k \in 1..8 : q.regs[KeyOf(r)][k] = w[k]
  <2>1. Len(w) = 8
    BY Lengths
  <2>2. q.regs[KeyOf(r)] = Over(Held(m, r), w)
    BY <2>1, PutFacts
  <2> QED
    BY <2>2 DEF Over
<1>3. /\ DOMAIN q.regs = DOMAIN m.regs \union {KeyOf(r)}
      /\ \A k \in DOMAIN m.regs : k # KeyOf(r) => q.regs[k] = m.regs[k]
  BY PutFacts
<1> HIDE DEF q
<1>4. Held(q, r) = q.regs[KeyOf(r)]
  BY <1>1, <1>3, HeldRegister
<1>5. Number(Held(q, r)) = n
  <2>1. Number(Held(q, r)) = (n % 256) + 256 * (n \div 256)
    BY <1>2, <1>4 DEF Number
  <2> QED
    BY <2>1
<1>6. ASSUME NEW s \in {RSI, RDI, RCX}, s # r
      PROVE  Held(q, s) = Held(m, s)
  <2>1. KeyOf(s) # KeyOf(r)
    BY <1>6, CopyRegisters
  <2>2. KeyOf(s) \in DOMAIN q.regs <=> KeyOf(s) \in DOMAIN m.regs
    BY <1>3, <2>1
  <2> QED
    BY <1>3, <2>1, <2>2, CopyRegisters DEF Held, Defined
<1> QED
  BY <1>5, <1>6 DEF q

\* An address taken into a register.
LEMMA LeaExecutes ==
  ASSUME NEW m, NEW r \in {RSI, RDI, RCX}, NEW o, isMemTemp(o)
  PROVE  Exec(m, LeaTemp(r, o)) = Put(m, r, Word(TempBase(o.name)))
<1> DEFINE x == LeaTemp(r, o)
<1>1. x.op = "lea" /\ Printed(x) = << Lit(r.name), <<"op", o>> >>
  BY PrintedLea DEF LeaTemp, Insn
<1> HIDE DEF x
<1>2. Printed(x)[1] = <<"reg", r.name>> /\ Printed(x)[2] = <<"op", o>>
  BY <1>1 DEF Lit
<1>3. Exec(m, x) = Set(m, <<"reg", r.name>>, Word(AddressOf(m, <<"op", o>>)))
  BY <1>1, <1>2 DEF Exec
<1>4. AddressOf(m, <<"op", o>>) = TempBase(o.name)
  BY DEF AddressOf, isMemTemp
<1>5. GpArg(<<"reg", r.name>>) /\ RegOf(<<"reg", r.name>>) = Reg(r.name, 8)
  BY DEF GpArg, RegOf
<1>6. Reg(r.name, 8) = r
  BY DEF RSI, RDI, RCX, Reg
<1> QED
  BY <1>3, <1>4, <1>5, <1>6 DEF Set, x

\* A count put into a register.
LEMMA CountExecutes ==
  ASSUME NEW m, NEW n
  PROVE  \E w : /\ Exec(m, Insn("mov", <<D, Imm(Word(n))>>, <<RCX>>, <<>>)) = Put(m, RCX, w)
                /\ DOMAIN w = 1..8 /\ w[1] = n % 256 /\ w[2] = n \div 256
<1> DEFINE x == Insn("mov", <<D, Imm(Word(n))>>, <<RCX>>, <<>>)  a == <<"op", RCX>>  i == Imm(Word(n))
<1>1. i[1] = "imm" /\ i[2] = Word(n) /\ Len(i) = 2
  BY DEF Imm
<1>2. x.op = "mov" /\ Printed(x) = << a, i >>
  BY <1>1, PrintedBeside DEF Insn
<1>3. SizeOf(a) = 8 /\ isGp(RCX) /\ RCX.kind # "OFFSET"
  BY DEF SizeOf, RCX, Reg, isGp, isGpReg, GpRegisters
<1>4. SizeOf(i) = 0
  BY <1>1 DEF SizeOf
<1>5. GpArg(a) /\ RegOf(a) = RCX
  BY <1>3, OperandArgument DEF RegOf
<1> HIDE DEF x, a, i
<1>6. DOMAIN Printed(x) = 1..2 /\ Printed(x)[1] = a /\ Printed(x)[2] = i
  BY <1>2
<1>7. {SizeOf(Printed(x)[k]) : k \in DOMAIN Printed(x)} \ {0} = {8}
  BY <1>3, <1>4, <1>6
<1>8. WidthOf(Printed(x)) = 8
  BY <1>7 DEF WidthOf
<1>9. Exec(m, x) = Set(m, a, Get(m, i, 8))
  BY <1>2, <1>6, <1>8 DEF Exec
<1>10. Get(m, i, 8) = Low(Word(n), 8)
  BY <1>1 DEF Get, GpArg, FpArg
<1>11. Exec(m, x) = Put(m, RCX, Low(Word(n), 8))
  BY <1>5, <1>9, <1>10 DEF Set
<1>12. DOMAIN Low(Word(n), 8) = 1..8 /\ Low(Word(n), 8)[1] = n % 256 /\ Low(Word(n), 8)[2] = n \div 256
  BY DEF Low, Word
<1> QED
  BY <1>11, <1>12 DEF x

\* The units of a string move make up what it moves.
LEMMA Units ==
  ASSUME NEW size \in Nat
  PROVE  Unit(size) * (size \div Unit(size)) = size /\ size \div Unit(size) \in Nat
<1>1. CASE size % 8 = 0
  BY <1>1 DEF Unit
<1>2. CASE size % 8 = 4
  BY <1>2 DEF Unit
<1>3. CASE size % 8 \notin {0, 4} /\ size % 4 = 2
  BY <1>3 DEF Unit
<1>4. CASE size % 8 \notin {0, 4} /\ size % 4 # 2
  BY <1>4 DEF Unit
<1> QED
  BY <1>1, <1>2, <1>3, <1>4

\* A string move between places that do not overlap copies one to the other.
LEMMA StringCopies ==
  ASSUME NEW m, IsMachine(m), NEW unit \in Nat, NEW count \in Nat, NEW a \in Nat, NEW b \in Nat,
         Number(Held(m, RSI)) = a, Number(Held(m, RDI)) = b, Number(Held(m, RCX)) = count,
         NEW w \in Nat, unit * count = w, a + w <= b \/ b + w <= a
  PROVE  Bytes(CopyString(m, unit), b, w) = Bytes(CopyString(m, unit), a, w)
<1> DEFINE v == Bytes(m, a, w)  m1 == WriteAt(m, b, v)
           m2 == Put(m1, RSI, Word(a + w))  m3 == Put(m2, RDI, Word(b + w))  m4 == Put(m3, RCX, Word(0))
<1>1. CopyString(m, unit) = m4
  BY DEF CopyString
<1>2. DOMAIN v = 1..w /\ \A k \in 1..w : v[k] = ByteAt(m, a + k - 1)
  BY DEF Bytes
<1> HIDE DEF v
<1>3. IsMachine(m1)
  BY WriteKeeps
<1>4. /\ \A k \in 1..w : ByteAt(m1, b + k - 1) = v[k]
      /\ \A x \in Int : x \notin b..(b + w - 1) => ByteAt(m1, x) = ByteAt(m, x)
  BY <1>2, WriteGot
<1> HIDE DEF m1
<1>5. IsMachine(m2) /\ m2.mem = m1.mem
  BY <1>3, PutFacts
<1> HIDE DEF m2
<1>6. IsMachine(m3) /\ m3.mem = m1.mem
  BY <1>5, PutFacts
<1> HIDE DEF m3
<1>7. m4.mem = m1.mem
  BY <1>6, PutFacts
<1> HIDE DEF m4
<1>8. ASSUME NEW k \in 1..w
      PROVE  ByteAt(m4, b + k - 1) = ByteAt(m4, a + k - 1)
  <2>1. ByteAt(m4, b + k - 1) = ByteAt(m1, b + k - 1) /\ ByteAt(m4, a + k - 1) = ByteAt(m1, a + k - 1)
    BY <1>7 DEF ByteAt
  <2>2. a + k - 1 \in Int /\ a + k - 1 \notin b..(b + w - 1)
    OBVIOUS
  <2> QED
    BY <1>2, <1>4, <2>1, <2>2
<1> QED
  BY <1>1, <1>8 DEF Bytes

\* The operands of such a move, and its code.
LEMMA LargeOperands ==
  ASSUME SizesFit, NEW op, NEW a \in ArgumentsOf(op), LargeMove(op, a)
  PROVE  /\ isMemTemp(a[1]) /\ a[1].name = 1 /\ isMemTemp(a[2]) /\ a[2].name = 2
         /\ a[1].size = a[2].size /\ a[2].size \in 0..32
<1>1. op = "MOVE" /\ isMemTemp(a[1]) /\ isMemTemp(a[2])
  BY DEF LargeMove
<1>2. a \in Destinations(1) \X Values(2) /\ a[1].size = a[2].size
  BY <1>1 DEF ArgumentsOf
<1>3. a[1] \in Destinations(1) /\ a[2] \in Values(2)
  BY <1>2, Tuples
<1>4. \A k, w, alloc : Temp(k, w, alloc).name = k /\ Temp(k, w, alloc).size = w /\ Temp(k, w, alloc).alloc = alloc
  BY DEF Temp, AlignedTemp
<1>5. ASSUME NEW k, NEW o \in Gp(k) \union Fp(k) \union Mem(k), isMemTemp(o)
      PROVE  o.name = k /\ o.size \in 0..32
  <2>1. o \in Mem(k)
    BY <1>4, <1>5 DEF Gp, Fp, Mem, isMemTemp
  <2>2. PICK w \in MemSizes : o = Temp(k, w, "MEM")
    BY <2>1 DEF Mem
  <2>3. w \in 0..32
    BY DEF SizesFit
  <2> QED
    BY <1>4, <2>2, <2>3
<1>6. \A name, w : ~isMemTemp(Reg(name, w))
  BY DEF isMemTemp, Reg
<1>7. \A w : \A c \in ConstantsOf(w) : ~isMemTemp(c)
  BY DEF isMemTemp, ConstantsOf, Const
<1>8. a[1] \in Gp(1) \union Fp(1) \union Mem(1)
  BY <1>1, <1>3, <1>6 DEF Destinations
<1>9. a[2] \in Gp(2) \union Fp(2) \union Mem(2)
  BY <1>1, <1>3, <1>7 DEF Values
<1> QED
  BY <1>1, <1>2, <1>5, <1>8, <1>9

\* The name of the string move.
StringMove == "rep movs"

\* The last operand of a list of four.
LEMMA Fourth ==
  ASSUME NEW o
  PROVE  (<<RSI, RDI, RCX>> \o <<o>>)[4] = o
<1> DEFINE r == <<RSI, RDI, RCX>>  t == <<o>>  S == {RSI, RDI, RCX, o}
<1>1. r \in Seq(S) /\ t \in Seq(S)
  OBVIOUS
<1>2. Len(r) = 3 /\ Len(t) = 1 /\ t[1] = o
  OBVIOUS
<1> HIDE DEF r, t, S
<1>3. \A k \in 1..Len(t) : (r \o t)[Len(r) + k] = t[k]
  BY <1>1, Chained
<1>4. 1 \in 1..Len(t) /\ Len(r) + 1 = 4
  BY <1>2
<1>5. (r \o t)[Len(r) + 1] = t[1]
  BY <1>3, <1>4
<1>6. (r \o t)[4] = o
  BY <1>2, <1>4, <1>5
<1> QED
  BY <1>6 DEF r, t

\* An instruction marked as a move from its fourth operand to its fourth.
LEMMA FourthMoved ==
  ASSUME NEW op, NEW args, NEW defs, NEW uses
  PROVE  LET x == Moving(Insn(op, args, defs, uses), 4, 4) IN
         x.op = op /\ x.args = args /\ x.move = <<defs[4], uses[4]>>
BY DEF Moving, Insn

\* The two instructions of a string move, the second marked as a move.
CountOf(size, d, s)  == FinishMemcpy(size, <<d>>, <<s>>)[1]
StringOf(size, d, s) == Moving(FinishMemcpy(size, <<d>>, <<s>>)[2], 4, 4)

\* The count and the move itself.
LEMMA StringMarks ==
  ASSUME NEW size, NEW d, NEW s
  PROVE  /\ CountOf(size, d, s) = Insn("mov", <<D, Imm(Word(size \div Unit(size)))>>, <<RCX>>, <<>>)
         /\ StringOf(size, d, s).op = StringMove /\ StringOf(size, d, s).move = <<d, s>>
         /\ Printed(StringOf(size, d, s))[1][2] = Unit(size)
<1> DEFINE defs == <<RSI, RDI, RCX>> \o <<d>>  uses == <<RSI, RDI, RCX>> \o <<s>>  args == <<Width(Unit(size))>>
           y == Insn("mov", <<D, Imm(Word(size \div Unit(size)))>>, <<RCX>>, <<>>)
           z == Insn(StringMove, args, defs, uses)
           x == Moving(z, 4, 4)
<1>1. FinishMemcpy(size, <<d>>, <<s>>) = <<y, z>>
  BY DEF FinishMemcpy, StringMove
<1>2. defs[4] = d /\ uses[4] = s
  BY Fourth
<1>3. DOMAIN args = 1..1 /\ args[1] = <<"width", Unit(size)>>
  BY DEF Width
<1> HIDE DEF defs, uses, args, y
<1>4. x.op = StringMove /\ x.args = args /\ x.move = <<defs[4], uses[4]>>
  BY FourthMoved
<1> HIDE DEF z
<1>5. FinishMemcpy(size, <<d>>, <<s>>)[1] = y /\ FinishMemcpy(size, <<d>>, <<s>>)[2] = z
  BY <1>1
<1> HIDE DEF x
<1>6. Printed(x)[1] = <<"width", Unit(size)>>
  BY <1>3, <1>4 DEF Printed
<1>7. Printed(x)[1][2] = Unit(size)
  BY <1>6
<1>8. x.move = <<d, s>>
  BY <1>2, <1>4
<1>9. x = Moving(FinishMemcpy(size, <<d>>, <<s>>)[2], 4, 4)
  BY <1>5 DEF x
<1> QED
  BY <1>4, <1>5, <1>7, <1>8, <1>9 DEF y, CountOf, StringOf

\* The code of the move.
LEMMA LargeCode ==
  ASSUME SizesFit, NEW op, NEW a \in ArgumentsOf(op), LargeMove(op, a), NEW n
  PROVE  LET c == Select([op |-> op, args |-> a], n) IN
         /\ DOMAIN c = 1..4 /\ c[1] = LeaTemp(RSI, a[2]) /\ c[2] = LeaTemp(RDI, a[1])
         /\ c[3] = Insn("mov", <<D, Imm(Word(a[2].size \div Unit(a[2].size)))>>, <<RCX>>, <<>>)
         /\ c[4].op = StringMove /\ c[4].move = <<a[1], a[2]>>
         /\ Printed(c[4])[1][2] = Unit(a[2].size)
<1> DEFINE c == Select([op |-> op, args |-> a], n)
           x == LeaTemp(RSI, a[2])  y == LeaTemp(RDI, a[1])
           z == CountOf(a[2].size, a[1], a[2])  u == StringOf(a[2].size, a[1], a[2])
<1>1. op = "MOVE" /\ isMemTemp(a[1]) /\ isMemTemp(a[2]) /\ a[2].size \notin MovableSizes \union {16}
  BY DEF LargeMove
<1>2. c = SelectMove(a[1], a[2], n)
  BY <1>1, Arms DEF Considered
<1> HIDE DEF c
<1>3. c = MoveMemory(a[1], a[2], n)
  BY <1>1, <1>2 DEF SelectMove, isMemTemp, isConst
<1>4. MoveMemory(a[1], a[2], n) = <<x, y, z, u>>
  BY <1>1 DEF MoveMemory, CountOf, StringOf
<1>5. /\ z = Insn("mov", <<D, Imm(Word(a[2].size \div Unit(a[2].size)))>>, <<RCX>>, <<>>)
      /\ u.op = StringMove /\ u.move = <<a[1], a[2]>> /\ Printed(u)[1][2] = Unit(a[2].size)
  BY StringMarks
<1> HIDE DEF x, y, z, u
<1>6. DOMAIN c = 1..4 /\ c[1] = x /\ c[2] = y /\ c[3] = z /\ c[4] = u
  BY <1>3, <1>4
<1> QED
  BY <1>5, <1>6 DEF c, x, y

\* what the registers of the string move hold before its k-th instruction
Pointed(a, m, k) ==
  /\ k \in 2..4 => Number(Held(m, RSI)) = TempBase(a[2].name)
  /\ k \in 3..4 => Number(Held(m, RDI)) = TempBase(a[1].name)
  /\ k = 4      => Number(Held(m, RCX)) = a[2].size \div Unit(a[2].size)

\* Every instruction of the code brings the registers nearer to it.
LEMMA LargeStep ==
  ASSUME SizesFit, NEW op, NEW a \in ArgumentsOf(op), LargeMove(op, a), NEW n, NEW m, IsMachine(m),
         NEW k \in 1..4, Pointed(a, m, k)
  PROVE  Pointed(a, Exec(m, Select([op |-> op, args |-> a], n)[k]), k + 1)
<1> DEFINE c == Select([op |-> op, args |-> a], n)
           from == TempBase(a[2].name)  to == TempBase(a[1].name)  count == a[2].size \div Unit(a[2].size)
<1>1. isMemTemp(a[1]) /\ isMemTemp(a[2]) /\ from \in Nat /\ to \in Nat /\ count \in Nat
  <2>1. /\ isMemTemp(a[1]) /\ a[1].name = 1 /\ isMemTemp(a[2]) /\ a[2].name = 2
        /\ a[2].size \in 0..32
    BY LargeOperands
  <2>2. count \in Nat
    BY <2>1, Units
  <2> QED
    BY <2>1, <2>2 DEF TempBase
<1>2. /\ c[1] = LeaTemp(RSI, a[2]) /\ c[2] = LeaTemp(RDI, a[1])
      /\ c[3] = Insn("mov", <<D, Imm(Word(count))>>, <<RCX>>, <<>>)
  BY LargeCode
<1> HIDE DEF c, from, to, count
<1>3. RSI # RDI /\ RSI # RCX /\ RDI # RCX
  BY CopyRegisters
<1>4. \A x : DOMAIN Word(x) = 1..8 /\ Word(x)[1] = x % 256 /\ Word(x)[2] = x \div 256
  BY DEF Word
<1>5. CASE k = 1
  <2>1. Exec(m, c[1]) = Put(m, RSI, Word(from))
    BY <1>1, <1>2, LeaExecutes DEF from
  <2>2. Number(Held(Put(m, RSI, Word(from)), RSI)) = from
    BY <1>1, <1>4, WordHeld
  <2> QED
    BY <1>5, <2>1, <2>2 DEF Pointed, c, from
<1>6. CASE k = 2
  <2>1. Exec(m, c[2]) = Put(m, RDI, Word(to))
    BY <1>1, <1>2, LeaExecutes DEF to
  <2> DEFINE q == Put(m, RDI, Word(to))
  <2>2. Number(Held(q, RDI)) = to /\ Held(q, RSI) = Held(m, RSI)
    BY <1>1, <1>3, <1>4, WordHeld
  <2>3. Number(Held(m, RSI)) = from
    BY <1>6 DEF Pointed, from
  <2> HIDE DEF q
  <2>4. Pointed(a, q, 3)
    BY <2>2, <2>3 DEF Pointed, from, to
  <2> QED
    BY <1>6, <2>1, <2>4 DEF c, q
<1>7. CASE k = 3
  <2>1. PICK w : /\ Exec(m, c[3]) = Put(m, RCX, w)
                 /\ DOMAIN w = 1..8 /\ w[1] = count % 256 /\ w[2] = count \div 256
    BY <1>2, CountExecutes
  <2> DEFINE q == Put(m, RCX, w)
  <2>2. Number(Held(q, RCX)) = count /\ Held(q, RSI) = Held(m, RSI) /\ Held(q, RDI) = Held(m, RDI)
    BY <1>1, <1>3, <2>1, WordHeld
  <2>3. Number(Held(m, RSI)) = from /\ Number(Held(m, RDI)) = to
    BY <1>7 DEF Pointed, from, to
  <2> HIDE DEF q
  <2>4. Pointed(a, q, 4)
    BY <2>2, <2>3 DEF Pointed, from, to, count
  <2> QED
    BY <1>7, <2>1, <2>4 DEF c, q
<1>8. CASE k = 4
  BY <1>8 DEF Pointed
<1> QED
  BY <1>5, <1>6, <1>7, <1>8

\* The move itself copies its operand.
LEMMA LargeCopies ==
  ASSUME SizesFit, NEW op, NEW a \in ArgumentsOf(op), LargeMove(op, a), NEW n, NEW m, IsMachine(m),
         Pointed(a, m, 4)
  PROVE  LET x == Select([op |-> op, args |-> a], n)[4]  q == Exec(m, x)  to == x.move[1]  from == x.move[2] IN
         Get(q, <<"op", to>>, to.size) = Get(q, <<"op", from>>, to.size)
<1> DEFINE c == Select([op |-> op, args |-> a], n)
<1>a. /\ DOMAIN c = 1..4 /\ c[1] = LeaTemp(RSI, a[2]) /\ c[2] = LeaTemp(RDI, a[1])
      /\ c[3] = Insn("mov", <<D, Imm(Word(a[2].size \div Unit(a[2].size)))>>, <<RCX>>, <<>>)
      /\ c[4].op = StringMove /\ c[4].move = <<a[1], a[2]>>
      /\ Printed(c[4])[1][2] = Unit(a[2].size)
  BY LargeCode
<1> HIDE DEF c
<1> DEFINE x == c[4]  w == a[2].size  unit == Unit(w)  count == w \div unit
           from == TempBase(a[2].name)  to == TempBase(a[1].name)
<1>1. /\ isMemTemp(a[1]) /\ a[1].name = 1 /\ isMemTemp(a[2]) /\ a[2].name = 2
      /\ a[1].size = w /\ w \in 0..32
  BY LargeOperands
<1>2. x.op = StringMove /\ x.move = <<a[1], a[2]>> /\ Printed(x)[1][2] = unit
  BY <1>a
<1>3. unit * count = w /\ count \in Nat /\ unit \in Nat
  BY <1>1, Units DEF Unit
<1>4. from = 64 /\ to = 32
  BY <1>1 DEF TempBase
<1>5. Number(Held(m, RSI)) = from /\ Number(Held(m, RDI)) = to /\ Number(Held(m, RCX)) = count
  BY DEF Pointed
<1> HIDE DEF x, w, unit, count
<1>6. Exec(m, x) = CopyString(m, unit)
  BY <1>2 DEF Exec, StringMove
<1> DEFINE q == CopyString(m, unit)
<1>7. Bytes(q, to, w) = Bytes(q, from, w)
  <2>1. from \in Nat /\ to \in Nat /\ w \in Nat /\ to + w <= from
    BY <1>1, <1>4
  <2> HIDE DEF from, to
  <2> QED
    BY <1>3, <1>5, <2>1, StringCopies
<1> HIDE DEF q, from, to
<1>8. ASSUME NEW o, isMemTemp(o)
      PROVE  Get(q, <<"op", o>>, w) = Bytes(q, TempBase(o.name), w)
  <2>1. o.kind # "OFFSET" /\ ~isGp(o) /\ ~isFp(o)
    BY <1>8 DEF isMemTemp, isGp, isFp, isGpReg, isFpReg, isGpTemp, isFpTemp
  <2> QED
    BY <2>1, GotOperand
<1>9. Get(q, <<"op", a[1]>>, w) = Get(q, <<"op", a[2]>>, w)
  BY <1>1, <1>7, <1>8 DEF from, to
<1>10. x.move[1] = a[1] /\ x.move[2] = a[2]
  BY <1>2
<1> QED
  BY <1>1, <1>6, <1>9, <1>10 DEF x, q, c

-----------------------------------------------------------------------------
\* The machine before the code

\* An instruction has at most three arguments.
LEMMA ArgumentPlaces ==
  ASSUME NEW op, NEW a \in ArgumentsOf(op)
  PROVE  DOMAIN a \subseteq {1, 2, 3}
<1>1. \A A, B : \A t \in A \X B : DOMAIN t = {1, 2}
  OBVIOUS
<1>2. \A A, B, C : \A t \in A \X B \X C : DOMAIN t = {1, 2, 3}
  OBVIOUS
<1>3. CASE op \in {"MOVE", "ADDROF", "STK_STORE", "STK_LOAD"}
  <2>1. \E A, B : a \in A \X B
    BY <1>3 DEF ArgumentsOf
  <2> QED
    BY <1>1, <2>1
<1>4. CASE op \in {"MEM_STORE", "MEM_LOAD", "OFFSET_STORE", "OFFSET_LOAD"}
  <2>1. \E A, B, C : a \in A \X B \X C
    BY <1>4 DEF ArgumentsOf
  <2> QED
    BY <1>2, <2>1
<1>5. CASE op \in {"ADD", "SUB", "SMUL", "XOR"}
  <2>1. PICK w \in GpSizes : a \in Integers3(w)
    BY <1>5 DEF ArgumentsOf
  <2>2. \E A, B, C : a \in A \X B \X C
    BY <2>1 DEF Integers3
  <2> QED
    BY <1>2, <2>2
<1> QED
  BY <1>3, <1>4, <1>5 DEF ArgumentsOf

\* An operand is given its value.
LEMMA OperandStarts ==
  ASSUME NEW m, IsMachine(m), NEW i, NEW k
  PROVE  LET q == WithOperand(m, i, k) IN
         /\ IsMachine(q) /\ DOMAIN m.regs \subseteq DOMAIN q.regs
         /\ InRegister(i.args[k]) => KeyOf(i.args[k]) \in DOMAIN q.regs
<1> DEFINE o == i.args[k]  q == WithOperand(m, i, k)  bytes == InitialValue(i, k, o)
           put == Put(m, o, bytes)  write == WriteAt(m, TempBase(o.name), bytes)
<1>1. isConst(o) => ~InRegister(o)
  BY Valueless
<1>2. IsMachine(put) /\ DOMAIN put.regs = DOMAIN m.regs \union {KeyOf(o)}
  BY PutFacts
<1>3. IsMachine(write) /\ write.regs = m.regs
  BY WriteKeeps
<1>4. q \in {m, put, write} /\ (InRegister(o) => q = put)
  BY <1>1 DEF WithOperand
<1> HIDE DEF q, put, write, bytes
<1> QED
  BY <1>2, <1>3, <1>4 DEF q

\* The registers of every operand, and the stack pointer, have a value at the start.
LEMMA StartsReady ==
  ASSUME NEW i \in Instructions
  PROVE  IsMachine(Initially(i)) /\ Keys(i.args) \subseteq DOMAIN Initially(i).regs
<1> DEFINE with(m, k) == IF k \in DOMAIN i.args THEN WithOperand(m, i, k) ELSE m
           bare == [regs |-> [r \in {<<"rsp">>, <<"rbp">>} |-> IF r = <<"rsp">> THEN Word(StackBase) ELSE Word(77)],
                    mem  |-> <<>>]
           m1 == with(bare, 1)  m2 == with(m1, 2)  m3 == with(m2, 3)
           o(k) == i.args[k]
<1>1. Initially(i) = m3
  BY DEF Initially
<1>2. IsMachine(bare) /\ <<"rsp">> \in DOMAIN bare.regs
  BY DEF IsMachine
<1>3. ASSUME NEW m, IsMachine(m), NEW k
      PROVE  /\ IsMachine(with(m, k)) /\ DOMAIN m.regs \subseteq DOMAIN with(m, k).regs
             /\ k \in DOMAIN i.args /\ InRegister(o(k)) => KeyOf(o(k)) \in DOMAIN with(m, k).regs
  BY <1>3, OperandStarts
<1> HIDE DEF bare, with, o
<1>4. IsMachine(m1) /\ IsMachine(m2) /\ IsMachine(m3)
  BY <1>2, <1>3
<1>5. /\ DOMAIN bare.regs \subseteq DOMAIN m1.regs /\ DOMAIN m1.regs \subseteq DOMAIN m2.regs
      /\ DOMAIN m2.regs \subseteq DOMAIN m3.regs
  BY <1>2, <1>3, <1>4
<1>6. /\ 1 \in DOMAIN i.args /\ InRegister(o(1)) => KeyOf(o(1)) \in DOMAIN m1.regs
      /\ 2 \in DOMAIN i.args /\ InRegister(o(2)) => KeyOf(o(2)) \in DOMAIN m2.regs
      /\ 3 \in DOMAIN i.args /\ InRegister(o(3)) => KeyOf(o(3)) \in DOMAIN m3.regs
  BY <1>2, <1>3, <1>4
<1> HIDE DEF m1, m2, m3
<1>7. DOMAIN i.args \subseteq {1, 2, 3}
  BY InstructionFacts, ArgumentPlaces
<1>8. \A k \in DOMAIN i.args : InRegister(o(k)) => KeyOf(o(k)) \in DOMAIN m3.regs
  BY <1>5, <1>6, <1>7
<1>9. Keys(i.args) \subseteq DOMAIN m3.regs
  BY <1>2, <1>5, <1>8 DEF Keys, ToSet, o
<1> QED
  BY <1>1, <1>4, <1>9

\* Fragments are in memory.
LEMMA FragmentsKeep ==
  ASSUME NEW m, IsMachine(m), NEW c
  PROVE  IsMachine(WithFragments(m, c)) /\ WithFragments(m, c).regs = m.regs
<1> DEFINE bytes == CHOOSE v \in FragmentsOf(c) : TRUE
<1>1. WithFragments(m, c) \in {m, WriteAt(m, FragBase, bytes)}
  BY DEF WithFragments
<1> HIDE DEF bytes
<1>2. LET q == WriteAt(m, FragBase, bytes) IN IsMachine(q) /\ q.regs = m.regs
  BY WriteKeeps
<1> QED
  BY <1>1, <1>2

-----------------------------------------------------------------------------
\* The code as it runs

\* Where the code is: the operands and what its instructions defined so far have a
\* value, and before the last instruction of a string move its registers point at
\* the operands.
Traced ==
  /\ SizesFit /\ Judged
  /\ phase \in {"ir", "running", "done", "rejected"}
  /\ phase = "ir" => code = <<>> /\ pc = 1 /\ start = now
  /\ phase # "ir" => code = Select(ir, FirstFresh) /\ pc \in Nat \ {0}
  /\ IsMachine(now) /\ Keys(ir.args) \union Before(code, pc) \subseteq DOMAIN now.regs
  /\ LargeMove(ir.op, ir.args) => Pointed(ir.args, now, pc)

\* Before the first instruction nothing is defined.
LEMMA FirstBefore ==
  ASSUME NEW c, IsCode(c)
  PROVE  Before(c, 1) = {}
<1>1. \A k \in DOMAIN c : k \in Nat \ {0}
  BY DEF IsCode
<1>2. \A k \in DOMAIN c : ~(k < 1)
  BY <1>1
<1> QED
  BY <1>2 DEF Before

\* One instruction later.
LEMMA NextBefore ==
  ASSUME NEW c, IsCode(c), NEW k \in DOMAIN c
  PROVE  Before(c, k + 1) = Before(c, k) \union Gives(c[k])
<1>1. \A j \in DOMAIN c : j \in Nat
  BY DEF IsCode
<1>2. {j \in DOMAIN c : j < k + 1} = {j \in DOMAIN c : j < k} \union {k}
  BY <1>1
<1> QED
  BY <1>2 DEF Before

\* Before the first instruction nothing is asked of the registers.
LEMMA FirstPointed ==
  ASSUME NEW a, NEW m
  PROVE  Pointed(a, m, 1)
BY DEF Pointed

\* The code has not been selected.
LEMMA InitTraced ==
  ASSUME SizesFit, SelInit
  PROVE  Traced
<1>1. /\ ir \in Instructions /\ code = <<>> /\ pc = 1 /\ phase = "ir"
      /\ start = Initially(ir) /\ now = Initially(ir)
  BY DEF SelInit
<1>2. IsMachine(now) /\ Keys(ir.args) \subseteq DOMAIN now.regs
  BY <1>1, StartsReady
<1>3. Before(code, pc) = {}
  BY <1>1, NoneAccepted, FirstBefore
<1>4. Pointed(ir.args, now, pc)
  BY <1>1, FirstPointed
<1>5. Judged
  BY <1>1 DEF Judged
<1> QED
  BY <1>1, <1>2, <1>3, <1>4, <1>5 DEF Traced

\* The code is selected.
LEMMA SelectTraced ==
  ASSUME Traced, SelectCode
  PROVE  Traced'
<1>1. /\ phase = "ir" /\ code' = Select(ir, FirstFresh) /\ ir' = ir /\ pc' = pc
      /\ phase' \in {"running", "rejected"} /\ now' = WithFragments(start, code')
  BY DEF SelectCode
<1>2. /\ pc = 1 /\ start = now /\ IsMachine(now) /\ Keys(ir.args) \subseteq DOMAIN now.regs /\ ir \in Instructions
      /\ SizesFit /\ Judged
  BY <1>1 DEF Traced, Judged
<1>3. IsMachine(now') /\ now'.regs = now.regs
  BY <1>1, <1>2, FragmentsKeep
<1>4. IsCode(Select(ir, FirstFresh))
  <2>1. ir.op \in Considered /\ ir.args \in ArgumentsOf(ir.op) /\ ir = [op |-> ir.op, args |-> ir.args]
    BY <1>2, InstructionFacts
  <2>2. IsCode(Select([op |-> ir.op, args |-> ir.args], FirstFresh))
    BY <2>1, ConsideredAccepted
  <2> QED
    BY <2>1, <2>2
<1>5. Before(code', 1) = {}
  BY <1>1, <1>4, FirstBefore
<1>6. Pointed(ir.args, now', 1)
  BY FirstPointed
<1>7. Judged'
  BY <1>2, SelectionJudged
<1> QED
  BY <1>1, <1>2, <1>3, <1>5, <1>6, <1>7 DEF Traced

\* Code that runs is what the assembler takes, and tells the allocator the truth.
LEMMA RunningFacts ==
  ASSUME Traced, phase \in {"running", "done"}
  PROVE  /\ SizesFit /\ ir.op \in Considered /\ ir.args \in ArgumentsOf(ir.op) /\ ~Unencodable(ir.op, ir.args)
         /\ code = Select([op |-> ir.op, args |-> ir.args], FirstFresh)
         /\ Accepted(code) /\ Told(code, Keys(ir.args), Promised(ir.op, ir.args))
<1>1. SizesFit /\ ir \in Instructions /\ code = Select(ir, FirstFresh) /\ ~Unencodable(ir.op, ir.args)
  BY DEF Traced, Judged
<1>2. ir.op \in Considered /\ ir.args \in ArgumentsOf(ir.op) /\ ir = [op |-> ir.op, args |-> ir.args]
  BY <1>1, InstructionFacts
<1>3. code = Select([op |-> ir.op, args |-> ir.args], FirstFresh)
  BY <1>1, <1>2
<1>4. Accepted(Select([op |-> ir.op, args |-> ir.args], FirstFresh))
  BY <1>1, <1>2, ConsideredAccepted
<1>5. Told(Select([op |-> ir.op, args |-> ir.args], FirstFresh), Keys(ir.args), Promised(ir.op, ir.args))
  BY <1>1, <1>2, ConsideredTold
<1> QED
  BY <1>1, <1>2, <1>3, <1>4, <1>5

\* What an instruction of it reads is listed, and has a value when it runs.
LEMMA StepFacts ==
  ASSUME Traced, phase = "running", pc <= Len(code)
  PROVE  /\ pc \in DOMAIN code /\ IsCode(code) /\ IsMachine(now) /\ Encodable(code[pc])
         /\ Fine(code[pc], DOMAIN now.regs, Promised(ir.op, ir.args))
         /\ \A o \in ReadBy(code[pc]) : Defined(now, o)
<1> DEFINE x == code[pc]  K == Keys(ir.args)  P == Promised(ir.op, ir.args)
<1>1. Accepted(code) /\ Told(code, K, P)
  BY RunningFacts
<1>2. IsCode(code)
  BY <1>1 DEF Told
<1>3. pc \in Nat \ {0} /\ IsMachine(now) /\ K \union Before(code, pc) \subseteq DOMAIN now.regs
  BY DEF Traced
<1>4. pc \in DOMAIN code
  BY <1>2, <1>3 DEF IsCode
<1>5. Encodable(x)
  BY <1>1, <1>4 DEF Accepted, ToSet
<1>6. Fine(x, K \union Before(code, pc), P)
  BY <1>1, <1>4 DEF Told
<1> HIDE DEF x, K, P
<1>7. Fine(x, DOMAIN now.regs, P)
  BY <1>3, <1>6, FineMore
<1>8. /\ Shaped(x) /\ \A o \in Listed(x) : HasValue(o, DOMAIN now.regs)
      /\ x.op = "xor" => HasValue(x.defs[1], DOMAIN now.regs)
  BY <1>7 DEF Fine, Runs
<1>9. \A o \in ReadBy(x) : HasValue(o, DOMAIN now.regs)
  BY <1>5, <1>8, ReadsFacts
<1>10. \A o \in ReadBy(x) : Defined(now, o)
  BY <1>9 DEF HasValue, Defined
<1> QED
  BY <1>2, <1>3, <1>4, <1>5, <1>7, <1>10 DEF x, P

\* An instruction runs: none of what it reads is without a value.
LEMMA ExecuteTraced ==
  ASSUME Traced, Execute
  PROVE  /\ Traced' /\ phase = "running" /\ pc <= Len(code) /\ pc' = pc + 1
         /\ now' = Exec(now, code[pc]) /\ UNCHANGED <<ir, code>>
<1>1. phase = "running" /\ pc <= Len(code) /\ UNCHANGED <<ir, code, start>>
  BY DEF Execute
<1> DEFINE x == code[pc]
<1>2. /\ pc \in DOMAIN code /\ IsCode(code) /\ IsMachine(now) /\ Encodable(x)
      /\ Fine(x, DOMAIN now.regs, Promised(ir.op, ir.args))
      /\ \A o \in ReadBy(x) : Defined(now, o)
  BY <1>1, StepFacts
<1>3. now' = Exec(now, x) /\ pc' = pc + 1 /\ phase' = phase
  BY <1>2 DEF Execute
<1>4. Shaped(x)
  BY <1>2 DEF Fine, Runs
<1>5. Before(code, pc + 1) = Before(code, pc) \union Gives(x)
  BY <1>2, NextBefore
<1>6. pc \in Nat \ {0} /\ Keys(ir.args) \union Before(code, pc) \subseteq DOMAIN now.regs /\ SizesFit /\ Judged
  BY DEF Traced
<1> HIDE DEF x
<1>7. Changes(now, Exec(now, x), Gives(x))
  BY <1>2, <1>4, ExecFacts
<1>8. IsMachine(now') /\ DOMAIN now'.regs = DOMAIN now.regs \union Gives(x)
  BY <1>3, <1>7 DEF Changes
<1>9. Keys(ir.args) \union Before(code, pc + 1) \subseteq DOMAIN now'.regs
  BY <1>5, <1>6, <1>8
<1>10. ASSUME LargeMove(ir.op, ir.args)
       PROVE  Pointed(ir.args, now', pc + 1)
  <2> DEFINE a == ir.args  c == Select([op |-> ir.op, args |-> a], FirstFresh)
  <2>1. a \in ArgumentsOf(ir.op) /\ code = c /\ SizesFit /\ LargeMove(ir.op, a) /\ Pointed(a, now, pc)
    BY <1>1, <1>10, RunningFacts DEF Traced
  <2>2. /\ DOMAIN c = 1..4 /\ c[1] = LeaTemp(RSI, a[2]) /\ c[2] = LeaTemp(RDI, a[1])
        /\ c[3] = Insn("mov", <<D, Imm(Word(a[2].size \div Unit(a[2].size)))>>, <<RCX>>, <<>>)
        /\ c[4].op = StringMove /\ c[4].move = <<a[1], a[2]>>
        /\ Printed(c[4])[1][2] = Unit(a[2].size)
    BY <2>1, LargeCode
  <2>3. pc \in 1..4
    BY <1>2, <2>1, <2>2
  <2>4. Pointed(a, Exec(now, c[pc]), pc + 1)
    BY <1>2, <2>1, <2>3, LargeStep
  <2> HIDE DEF a, c
  <2> QED
    BY <1>3, <2>1, <2>4 DEF x, a
<1>11. Judged'
  BY <1>1, <1>3, <1>6 DEF Judged
<1>12. phase # "ir" => code = Select(ir, FirstFresh)
  BY DEF Traced
<1>13. Traced'
  BY <1>1, <1>3, <1>6, <1>8, <1>9, <1>10, <1>11, <1>12 DEF Traced
<1> QED
  BY <1>1, <1>3, <1>13 DEF x

-----------------------------------------------------------------------------
\* What the allocator is told

\* Every instruction lists what it reads.
LEMMA TracedReads ==
  ASSUME Traced
  PROVE  ReadsListed
<1>1. phase # "stuck"
  BY DEF Traced
<1>2. ASSUME phase = "running", NEW k \in DOMAIN code
      PROVE  ReadBy(code[k]) \subseteq Listed(code[k]) \union {RSP} \/ code[k].op = "xor"
  <2> DEFINE x == code[k]
  <2>1. Accepted(code) /\ Told(code, Keys(ir.args), Promised(ir.op, ir.args))
    BY <1>2, RunningFacts
  <2>2. Encodable(x)
    BY <1>2, <2>1 DEF Accepted, ToSet
  <2>3. Shaped(x)
    BY <1>2, <2>1 DEF Told, Fine, Runs
  <2> HIDE DEF x
  <2>4. \A o \in ReadBy(x) : o \in Listed(x) \/ x.op = "xor"
    BY <2>2, <2>3, ReadsFacts
  <2> QED
    BY <2>4 DEF x
<1>3. ASSUME phase = "done"
      PROVE  (\A k \in DOMAIN code : WidthAgrees(code[k])) <=>
                ~(ir.op = "MEM_LOAD" /\ isFp(ir.args[1]) /\ ir.args[1].size = 4)
  <2>1. Disagrees(code) <=> SingleLoad(ir.op, ir.args)
    BY <1>3, RunningFacts, ConsideredWidths
  <2>2. Disagrees(code) <=> \E k \in DOMAIN code : ~WidthAgrees(code[k])
    BY DEF Disagrees, ToSet
  <2> QED
    BY <2>1, <2>2 DEF SingleLoad
<1> QED
  BY <1>1, <1>2, <1>3 DEF ReadsListed

\* Only Execute moves on in the code.
LEMMA OnlyExecute ==
  ASSUME SelNext, pc' # pc
  PROVE  Execute
BY DEF SelNext, SelectCode, Finish

\* Every register that changes is listed as defined.
LEMMA TracedWrites ==
  ASSUME Traced, SelNext
  PROVE  WritesListed
<1> SUFFICES ASSUME pc' # pc, NEW r \in DOMAIN now'.regs,
                    r \in DOMAIN now.regs => now'.regs[r] # now.regs[r]
             PROVE  r \in Clobbered(<<code[pc]>>)
  BY DEF WritesListed
<1> DEFINE x == code[pc]
<1>1. phase = "running" /\ pc <= Len(code) /\ now' = Exec(now, x)
  BY OnlyExecute, ExecuteTraced
<1>2. IsMachine(now) /\ Encodable(x) /\ Shaped(x)
  BY <1>1, StepFacts DEF Fine, Runs
<1> HIDE DEF x
<1>3. Changes(now, now', Gives(x))
  BY <1>1, <1>2, ExecFacts
<1>4. r \in Gives(x)
  BY <1>3 DEF Changes
<1>5. PICK o \in ToSet(x.defs) : InRegister(o) /\ r = KeyOf(o)
  BY <1>4 DEF Gives
<1>6. o.kind # "OFFSET"
  BY <1>5 DEF InRegister, isGpTemp, isFpTemp
<1>7. DOMAIN <<x>> = {1} /\ <<x>>[1] = x
  OBVIOUS
<1> DEFINE c == <<x>>
<1> HIDE DEF c
<1>8. o \in {c[1].defs[j] : j \in DOMAIN c[1].defs}
  BY <1>5, <1>7 DEF ToSet, c
<1>9. KeyOf(o) \in Clobbered(c)
  BY <1>5, <1>6, <1>7, <1>8 DEF Clobbered, c
<1> QED
  BY <1>5, <1>9 DEF c, x

\* What is marked as a move and does not only copy.
LEMMA Marks ==
  ASSUME NEW x, NEW K, NEW P, Fine(x, K, P)
  PROVE  x.move = <<>> \/ x.op = "movsx" \/ ("copies" \notin P /\ x.op = StringMove) \/ Copying(x)
BY DEF Fine, StringMove

\* What Mismarked leaves.
LEMMA Mismarks ==
  ASSUME NEW x, ~Mismarked(x)
  PROVE  x.op # "movsx" /\ (x.op = StringMove => ir.op \notin {"OFFSET_STORE", "OFFSET_LOAD"})
BY DEF Mismarked, StringMove

\* The only string move of a large move is its last instruction.
LEMMA LargeLast ==
  ASSUME SizesFit, NEW op, NEW a \in ArgumentsOf(op), LargeMove(op, a), NEW n,
         NEW k \in DOMAIN Select([op |-> op, args |-> a], n),
         Select([op |-> op, args |-> a], n)[k].op = StringMove
  PROVE  k = 4
<1> DEFINE c == Select([op |-> op, args |-> a], n)
<1>1. /\ DOMAIN c = 1..4 /\ c[1] = LeaTemp(RSI, a[2]) /\ c[2] = LeaTemp(RDI, a[1])
      /\ c[3] = Insn("mov", <<D, Imm(Word(a[2].size \div Unit(a[2].size)))>>, <<RCX>>, <<>>)
      /\ c[4].op = StringMove /\ c[4].move = <<a[1], a[2]>>
      /\ Printed(c[4])[1][2] = Unit(a[2].size)
  BY LargeCode
<1>2. c[1].op = "lea" /\ c[2].op = "lea" /\ c[3].op = "mov"
  BY <1>1 DEF LeaTemp, Insn
<1>3. StringMove \notin {"lea", "mov"}
  BY DEF StringMove
<1> HIDE DEF c
<1>4. c[k].op = StringMove /\ k \in DOMAIN c
  BY DEF c
<1> QED
  BY <1>1, <1>2, <1>3, <1>4

\* Every other move copies.
LEMMA TracedMoves ==
  ASSUME Traced, SelNext
  PROVE  MovesCopy
<1> DEFINE x == code[pc]  to == x.move[1]  from == x.move[2]
<1> SUFFICES ASSUME pc' # pc, x.move # <<>>, ~Mismarked(x)
             PROVE  Get(now', <<"op", to>>, to.size) = Get(now', <<"op", from>>, to.size)
  BY DEF MovesCopy
<1> DEFINE a == ir.args  P == Promised(ir.op, a)  c == Select([op |-> ir.op, args |-> a], FirstFresh)
<1>1. phase = "running" /\ pc <= Len(code) /\ now' = Exec(now, x)
  BY OnlyExecute, ExecuteTraced
<1>2. pc \in DOMAIN code /\ IsMachine(now) /\ Encodable(x) /\ Fine(x, DOMAIN now.regs, P)
  BY <1>1, StepFacts
<1>3. SizesFit /\ a \in ArgumentsOf(ir.op) /\ code = c
  BY <1>1, RunningFacts
<1>4. Copying(x) \/ ("copies" \notin P /\ x.op = StringMove /\ ir.op \notin {"OFFSET_STORE", "OFFSET_LOAD"})
  BY <1>2, Marks, Mismarks
<1>5. CASE Copying(x)
  <2>1. \A o \in ToSet(x.uses) : HasValue(o, DOMAIN now.regs)
    BY <1>2 DEF Fine, Runs, Listed, ToSet
  <2> HIDE DEF x
  <2>2. LET q == Exec(now, x) IN
        Get(q, <<"op", x.move[1]>>, x.move[1].size) = Get(q, <<"op", x.move[2]>>, x.move[1].size)
    BY <1>2, <1>5, <2>1, CopyCopies
  <2> QED
    BY <1>1, <2>2
<1>6. CASE "copies" \notin P /\ x.op = StringMove /\ ir.op \notin {"OFFSET_STORE", "OFFSET_LOAD"}
  <2>1. LargeMove(ir.op, a)
    BY <1>6 DEF Promised
  <2>2. pc = 4
    BY <1>2, <1>3, <1>6, <2>1, LargeLast
  <2>3. Pointed(a, now, 4)
    BY <2>1, <2>2 DEF Traced
  <2>4. LET y == c[4]  q == Exec(now, y) IN
        Get(q, <<"op", y.move[1]>>, y.move[1].size) = Get(q, <<"op", y.move[2]>>, y.move[1].size)
    BY <1>2, <1>3, <2>1, <2>3, LargeCopies
  <2> HIDE DEF c
  <2> QED
    BY <1>1, <1>3, <2>2, <2>4
<1> QED
  BY <1>4, <1>5, <1>6

\* The selector tells the register allocator the truth, whatever the sizes of the
\* integer operands are and however large a value in memory is that fits its place:
\* every step of the code selected for any of the IR instructions reads and changes
\* only registers that its lists name, no patch temporary is read before it has a
\* value, and after a step that is marked as a move both operands hold the same
\* bytes, except in the arms that the properties name.
THEOREM AllocatorNotMisled == SizesFit /\ SelSpec => AllocatorTold
<1>1. SizesFit /\ SelInit => Traced
  BY InitTraced
<1>2. Traced /\ [SelNext]_selVars => Traced'
  <2> SUFFICES ASSUME Traced, [SelNext]_selVars
               PROVE  Traced'
    OBVIOUS
  <2>1. CASE SelectCode
    BY <2>1, SelectTraced
  <2>2. CASE Execute
    BY <2>2, ExecuteTraced
  <2>3. CASE Finish
    BY <2>3 DEF Finish, Traced, Judged
  <2>4. CASE UNCHANGED selVars
    BY <2>4 DEF selVars, Traced, Judged
  <2> QED
    BY <2>1, <2>2, <2>3, <2>4 DEF SelNext
<1>3. Traced => ReadsListed
  BY TracedReads
<1>4. Traced /\ ReadsListed /\ ReadsListed' /\ [SelNext]_selVars =>
        [ReadsListed /\ ReadsListed' /\ WritesListed /\ MovesCopy]_selVars
  BY TracedWrites, TracedMoves
<1> QED
  BY <1>1, <1>2, <1>3, <1>4, PTL DEF SelSpec, AllocatorTold
=============================================================================
