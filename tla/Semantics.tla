------------------------------ MODULE Semantics ------------------------------
(***************************************************************************)
(* What a function does, twice: as the T Language Standard says of its     *)
(* source, and as the instructions say that it was compiled to.  The       *)
(* properties of MiddleEnd compare the two.                                *)
(*                                                                         *)
(* A function is observed through the calls it makes and the value it      *)
(* returns.  An oracle is what the calls return, one after the other; when *)
(* it is used up the observation ends ("more").  A loop that makes no call *)
(* and never ends is "diverge".  Booleans are 1 and 0; the address of a    *)
(* variable or temp is its number plus Addresses, out of the range of ints.*)
(***************************************************************************)
EXTENDS IR, SequencesExt, Bitwise

Addresses == 10000
TableAddresses == 1000
Junk == 7777  \* what an uninitialized temp holds

\* The bounds of an observation.
LoopFuel == 10   \* iterations of loops in the source
StepFuel == 400  \* instructions

Observation(events, end, value) ==
  [events |-> events, end |-> end, value |-> value]
-----------------------------------------------------------------------------
(* Numbers: an int has IntWidth bits, two's complement. *)

IntWidth == 8
Modulus == 2 ^ IntWidth
Unsigned(v) == v % Modulus
Signed(v) == LET u == v % Modulus IN IF u < Modulus \div 2 THEN u ELSE u - Modulus
Magnitude(v) == IF v < 0 THEN -v ELSE v
Truth(b) == IF b THEN 1 ELSE 0

\* Division rounds towards zero and the remainder has the sign of the left
\* hand side; dividing by zero gives anything at all, here 0.
Quotient(a, b) ==
  IF b = 0 THEN 0
  ELSE (IF (a < 0) = (b < 0) THEN 1 ELSE -1) * (Magnitude(a) \div Magnitude(b))
Remainder(a, b) == IF b = 0 THEN 0 ELSE a - b * Quotient(a, b)

\* The operators of the language on two ints.
Operators == {"mul", "div", "mod", "add", "sub", "lshift", "arshift", "lrshift",
              "bitand", "bitor", "bitxor", "eq", "neq", "lt", "gt", "lteq", "gteq"}
Operate(op, a, b) ==
  CASE op = "mul" -> Signed(a * b)
    [] op = "div" -> Signed(Quotient(a, b))
    [] op = "mod" -> Signed(Remainder(a, b))
    [] op = "add" -> Signed(a + b)
    [] op = "sub" -> Signed(a - b)
    [] op = "lshift" -> Signed(a * 2 ^ b)
    [] op = "arshift" -> a \div 2 ^ b
    [] op = "lrshift" -> Signed(Unsigned(a) \div 2 ^ b)
    [] op = "bitand" -> Signed(Unsigned(a) & Unsigned(b))
    [] op = "bitor" -> Signed(Unsigned(a) | Unsigned(b))
    [] op = "bitxor" -> Signed(Unsigned(a) ^^ Unsigned(b))
    [] op = "eq" -> Truth(a = b)
    [] op = "neq" -> Truth(a # b)
    [] op = "lt" -> Truth(a < b)
    [] op = "gt" -> Truth(a > b)
    [] op = "lteq" -> Truth(a <= b)
    [] op = "gteq" -> Truth(a >= b)

OperateUnary(op, a) ==
  CASE op \in {"preinc", "postinc"} -> Signed(a + 1)
    [] op \in {"predec", "postdec"} -> Signed(a - 1)
    [] op \in {"neg", "negassign"} -> Signed(-a)
    [] op \in {"lnot", "lnotassign"} -> 1 - a
    [] op \in {"bitnot", "bitnotassign"} -> -a - 1
-----------------------------------------------------------------------------
(* The source: s is [env, events, oracle, go, value, fuel], where go tells how *)
(* control goes on: "next", "break", "continue", "return", "more", "diverge". *)

Leave(s, how) == [s EXCEPT !.go = how]
Is(s, b) == s.go = "next" /\ (s.value # 0) = b

RECURSIVE Eval(_, _), EvalPlace(_, _)

EvalCall(f, s) ==
  IF s.oracle = << >>
  THEN [s EXCEPT !.events = Append(@, f), !.go = "more"]
  ELSE [s EXCEPT !.events = Append(@, f), !.value = Head(s.oracle),
                 !.oracle = Tail(@)]

\* What a place holds, and a value put there, unless control left before.
At(s, place) == s.env[place - Addresses]
Put(s, place, v) ==
  IF s.go = "next" THEN [s EXCEPT !.env[place - Addresses] = v, !.value = v] ELSE s
Giving(s, v) == IF s.go = "next" THEN [s EXCEPT !.value = v] ELSE s

\* The left hand side is a place, then the right hand side is evaluated; a
\* compound assignment uses what the place held before that.
EvalAssign(e, s) ==
  LET l == EvalPlace(e.lhs, s)
      r == Eval(e.rhs, l)
  IN  IF r.go # "next" THEN r
      ELSE Put(r, l.value, IF e.t = "assign" THEN r.value
                           ELSE Operate(e.op, At(l, l.value), r.value))

EvalLogicalAssign(e, s) ==
  LET l == EvalPlace(e.lhs, s)
      r == Eval(e.rhs, l)
  IN  IF l.go # "next" THEN l
      ELSE IF (At(l, l.value) # 0) # (e.t = "landassign")
      THEN Giving(l, At(l, l.value)) ELSE Put(r, l.value, r.value)

\* The place is modified; the value is the one after that for ++x and --x and
\* the one before for the others.
EvalModify(e, s) ==
  LET l == EvalPlace(e.target, s)
      old == At(l, l.value)
      new == OperateUnary(e.t, old)
  IN  IF l.go # "next" THEN l
      ELSE Giving(Put(l, l.value, new),
                  IF e.t \in {"preinc", "predec"} THEN new ELSE old)

\* An l-value as a place: the address of a variable.
EvalPlace(e, s) ==
  IF s.go # "next" THEN s ELSE
  CASE e.t = "id" -> [s EXCEPT !.value = Addresses + e.x]
    [] e.t = "deref" -> Eval(e.target, s)
    [] e.t = "parens" -> EvalPlace(e.target, s)
    [] e.t = "seq" -> EvalPlace(e.rhs, Eval(e.lhs, s))
    [] e.t \in {"assign", "opassign", "landassign", "lorassign"} ->
         Giving(Eval(e, s), EvalPlace(e.lhs, s).value)
    [] e.t \in {"preinc", "predec"} ->
         Giving(Eval(e, s), EvalPlace(e.target, s).value)

Eval(e, s) ==
  IF s.go # "next" THEN s ELSE
  CASE e.t \in {"bool", "int", "enum", "sizeof"} -> [s EXCEPT !.value = e.v]
    [] e.t = "id" -> [s EXCEPT !.value = s.env[e.x]]
    [] e.t = "call" -> EvalCall(e.f, s)
    [] e.t \in {"parens", "cast"} -> Eval(e.target, s)
    [] e.t = "seq" -> Eval(e.rhs, Eval(e.lhs, s))
    [] e.t \in {"land", "lor"} ->
         LET l == Eval(e.lhs, s)
         IN  IF Is(l, e.t = "land") THEN Eval(e.rhs, l) ELSE l
    [] e.t \in {"assign", "opassign"} -> EvalAssign(e, s)
    [] e.t \in {"landassign", "lorassign"} -> EvalLogicalAssign(e, s)
    [] e.t \in Operators ->
         LET l == Eval(e.lhs, s)
             r == Eval(e.rhs, l)
         IN  Giving(r, Operate(e.t, l.value, r.value))
    [] e.t = "ternary" ->
         LET p == Eval(e.p, s)
         IN  IF p.go # "next" THEN p ELSE Eval(IF p.value # 0 THEN e.c ELSE e.a, p)
    [] e.t \in {"neg", "lnot", "bitnot"} ->
         LET v == Eval(e.target, s) IN Giving(v, OperateUnary(e.t, v.value))
    [] e.t \in {"preinc", "predec", "postinc", "postdec", "negassign",
                "lnotassign", "bitnotassign"} -> EvalModify(e, s)
    [] e.t = "addrof" -> EvalPlace(e.target, s)
    [] e.t = "deref" ->
         LET v == Eval(e.target, s)
         IN  IF v.go = "next" THEN [v EXCEPT !.value = At(v, @)] ELSE v

RECURSIVE Exec(_, _), Loop(_, _)

\* Round after round: the condition, the body, the increment.
LoopAgain(l, n) ==
  IF n.go = "break" THEN Leave(n, "next")
  ELSE IF n.go # "next" THEN n
  ELSE IF n.fuel = 0 THEN Leave(n, "diverge")
  ELSE Loop(l, [n EXCEPT !.fuel = @ - 1])
LoopIncrement(l, b) ==
  IF b.go \notin {"next", "continue"} THEN b
  ELSE IF "increment" \in DOMAIN l THEN Eval(l.increment, Leave(b, "next"))
  ELSE Leave(b, "next")
LoopBody(l, c) ==
  IF Is(c, TRUE) THEN LoopAgain(l, LoopIncrement(l, Exec(l.body, c))) ELSE c
Loop(l, s) == LoopBody(l, Eval(l.condition, s))

DoWhileBody(l, b) ==
  IF b.go = "break" THEN Leave(b, "next")
  ELSE IF b.go \in {"next", "continue"} THEN Loop(l, Leave(b, "next"))
  ELSE b
ExecDoWhile(l, s) == DoWhileBody(l, Exec(l.body, s))

\* Control enters at the case that has the value, else at the default, and
\* falls through to the cases after it.
SwitchLeft(r) == IF r.go = "break" THEN Leave(r, "next") ELSE r
SwitchOn(t, v) ==
  LET matching == {k \in DOMAIN t.cases : v.value \in t.cases[k].values}
      defaults == {k \in DOMAIN t.cases : "default" \in DOMAIN t.cases[k]}
      entry == IF matching # {} THEN CHOOSE k \in matching : TRUE
               ELSE IF defaults # {} THEN CHOOSE k \in defaults : TRUE
               ELSE Len(t.cases) + 1
  IN  IF v.go # "next" THEN v
      ELSE SwitchLeft(FoldLeft(LAMBDA a, c : Exec(c.body, a), v,
                               SubSeq(t.cases, entry, Len(t.cases))))
ExecSwitch(t, s) == SwitchOn(t, Eval(t.condition, s))

\* One variable of a definition.
Initialize(x, v) == IF v.go = "next" THEN [v EXCEPT !.env[x] = v.value] ELSE v
ExecDefinition(name, s) ==
  Initialize(name.x, IF "initializer" \in DOMAIN name THEN Eval(name.initializer, s)
                     ELSE [s EXCEPT !.value = Junk])

Exec(t, s) ==
  IF s.go # "next" THEN s ELSE
  CASE t.t = "compound" -> FoldLeft(LAMBDA a, u : Exec(u, a), s, t.stmts)
    [] t.t = "if" ->
         LET p == Eval(t.predicate, s)
         IN  IF Is(p, TRUE) THEN Exec(t.consequent, p)
             ELSE IF Is(p, FALSE) /\ "alternative" \in DOMAIN t
             THEN Exec(t.alternative, p) ELSE p
    [] t.t = "while" -> Loop(t, s)
    [] t.t = "dowhile" -> ExecDoWhile(t, s)
    [] t.t = "for" -> Loop(t, Exec(t.initializer, s))
    [] t.t = "switch" -> ExecSwitch(t, s)
    [] t.t \in {"break", "continue"} -> Leave(s, t.t)
    [] t.t = "return" ->
         LET v == IF "value" \in DOMAIN t THEN Eval(t.value, s) ELSE s
         IN  IF v.go = "next" THEN Leave(v, "return") ELSE v
    [] t.t = "vardefn" ->
         FoldLeft(LAMBDA a, name : ExecDefinition(name, a), s, t.names)
    [] t.t = "expr" -> Eval(t.e, s)
    [] t.t = "null" -> s

\* f is [body, returnsValue].
SourceEnd(f, s) ==
  LET end == IF s.go = "next" THEN "return" ELSE s.go
  IN  Observation(s.events, end,
                  IF end = "return" /\ f.returnsValue THEN s.value ELSE 0)
SourceObservation(f, vars, oracle) ==
  SourceEnd(f, Exec(f.body, [env |-> [x \in vars |-> Junk], events |-> << >>,
                             oracle |-> oracle, go |-> "next", value |-> 0,
                             fuel |-> LoopFuel]))
-----------------------------------------------------------------------------
(* The instructions: m is [pc, temps, reg, events, oracle, end]. *)

Flatten(blocks) ==
  FoldLeft(LAMBDA c, b : c \o <<LABEL(b.label)>> \o b.instructions, << >>, blocks)

Read(m, o) ==
  CASE o.kind = "TEMP" -> m.temps[o.name]
    [] o.kind = "REG" -> m.reg
    [] o.kind = "LOCAL" -> TableAddresses * o.name
    [] o.kind \in {"CONST", "GLOBAL"} -> o.name

Next1(m) == [m EXCEPT !.pc = @ + 1]
Write(m, o, v) ==
  Next1(IF o.kind = "REG" THEN [m EXCEPT !.reg = v] ELSE [m EXCEPT !.temps[o.name] = v])
Stop(m, how) == [m EXCEPT !.end = how]

\* A jump to a label the code does not have goes nowhere.
Goto(code, m, l) ==
  LET at == {p \in DOMAIN code : code[p] = LABEL(l)}
  IN  IF at = {} THEN Stop(m, "no label")
      ELSE [m EXCEPT !.pc = CHOOSE p \in at : TRUE]

\* Comparing, for a jump with one or two targets and for a value.
Compare(op, l, r) ==
  CASE op \in {"J2E", "J1E", "E"} -> l = r
    [] op \in {"J2NE", "J1NE", "NE"} -> l # r
    [] op \in {"J2L", "J1L"} -> l < r
    [] op \in {"J2LE", "J1LE"} -> l <= r
    [] op \in {"J2G", "J1G"} -> l > r
    [] op \in {"J2GE", "J1GE"} -> l >= r
    [] op \in {"J2B", "J1B", "B"} -> Unsigned(l) < Unsigned(r)
    [] op \in {"J2A", "J1A", "A"} -> Unsigned(l) > Unsigned(r)
    [] op = "BE" -> Unsigned(l) <= Unsigned(r)
    [] op = "AE" -> Unsigned(l) >= Unsigned(r)
    [] op \in {"J2Z", "J1Z"} -> l = 0
    [] op \in {"J2NZ", "J1NZ"} -> l # 0

Comparisons == {"E", "NE", "B", "A", "BE", "AE"}
Arithmetic == [SMUL |-> "mul", SDIV |-> "div", SMOD |-> "mod", SLL |-> "lshift",
               SAR |-> "arshift", SLR |-> "lrshift", AND |-> "bitand",
               OR |-> "bitor", XOR |-> "bitxor"]
Unaries == [NEG |-> "neg", LNOT |-> "lnot", NOT |-> "bitnot"]

\* Addresses are numbers too, and have more bits than an int.
Compute(op, l, r) ==
  CASE op = "ADD" -> IF l + r < TableAddresses THEN Signed(l + r) ELSE l + r
    [] op = "SUB" -> IF l - r < TableAddresses THEN Signed(l - r) ELSE l - r
    [] op = "UMUL" -> l * r
    [] op \in {"SX", "ZX", "MOVE"} -> l
    [] op \in Comparisons -> Truth(Compare(op, l, r))
    [] op \in DOMAIN Arithmetic -> Operate(Arithmetic[op], l, r)
    [] op \in DOMAIN Unaries -> OperateUnary(Unaries[op], l)

IsAddress(m, a) == a - Addresses \in DOMAIN m.temps

\* The case of the table a jump to address a gets to.
TableJump(code, tables, m, a, table) ==
  LET i == (a - TableAddresses * table) \div 8 + 1
  IN  IF i \in DOMAIN tables[table] THEN Goto(code, m, tables[table][i])
                                    ELSE Stop(m, "wild jump")

\* One step of instruction i in state m.
Step(code, tables, m, i) ==
  CASE i.op \in {"LABEL", "NOP", "UNINITIALIZED", "VOLATILE"} -> Next1(m)
    [] i.op \in {"MOVE", "SX", "ZX"} \cup DOMAIN Unaries ->
         Write(m, i.args[1], Compute(i.op, Read(m, i.args[2]), 0))
    [] i.op \in {"ADD", "SUB", "UMUL"} \cup Comparisons \cup DOMAIN Arithmetic ->
         Write(m, i.args[1],
               Compute(i.op, Read(m, i.args[2]), Read(m, i.args[3])))
    [] i.op = "ADDROF" -> Write(m, i.args[1], Addresses + i.args[2].name)
    [] i.op = "MEM_LOAD" ->
         LET a == Read(m, i.args[2])
         IN  IF IsAddress(m, a) THEN Write(m, i.args[1], m.temps[a - Addresses])
                                ELSE Stop(m, "wild load")
    [] i.op = "MEM_STORE" ->
         LET a == Read(m, i.args[1])
         IN  IF IsAddress(m, a)
             THEN Next1([m EXCEPT !.temps[a - Addresses] = Read(m, i.args[2])])
             ELSE Stop(m, "wild store")
    [] i.op = "CALL" ->
         LET c == [m EXCEPT !.events = Append(@, Read(m, i.args[1]))]
         IN  IF m.oracle = << >> THEN Stop(c, "more")
             ELSE Next1([c EXCEPT !.reg = Head(m.oracle), !.oracle = Tail(@)])
    [] i.op = "RETURN" -> Stop(m, "return")
    [] i.op = "JUMP" -> Goto(code, m, i.args[1].name)
    [] i.op = "JUMPTABLE" ->
         TableJump(code, tables, m, Read(m, i.args[1]), i.args[2].name)
    [] i.op \in TwoTarget ->
         Goto(code, m,
              i.args[IF Compare(i.op, Read(m, i.args[3]),
                                Read(m, i.args[Len(i.args)]))
                     THEN 1 ELSE 2].name)
    [] i.op \in OneTarget ->
         IF Compare(i.op, Read(m, i.args[2]), Read(m, i.args[Len(i.args)]))
         THEN Goto(code, m, i.args[1].name) ELSE Next1(m)

\* At most n steps; halves, because a run is long and each half is short.
RECURSIVE Run(_, _, _, _)
Run(code, tables, m, n) ==
  IF m.end # "" THEN m
  ELSE IF m.pc \notin DOMAIN code THEN Stop(m, "fell off")
  ELSE IF n = 1 THEN Step(code, tables, m, code[m.pc])
  ELSE Run(code, tables, Run(code, tables, m, n \div 2), n - n \div 2)

\* Execution starts with the first instruction.
CodeEnd(f, m) ==
  Observation(m.events, IF m.end = "" THEN "diverge" ELSE m.end,
              IF m.end = "return" /\ f.returnsValue THEN m.reg ELSE 0)
CodeObservation(f, code, tables, nextId, oracle) ==
  CodeEnd(f, Run(code, tables,
               [pc |-> 1, temps |-> [t \in 0 .. nextId |-> Junk], reg |-> Junk,
                events |-> << >>, oracle |-> oracle, end |-> ""], StepFuel))

\* The code does what the source does, whatever the calls return.
Means(f, vars, code, tables, nextId, oracles) ==
  \A oracle \in oracles :
    CodeObservation(f, code, tables, nextId, oracle)
      = SourceObservation(f, vars, oracle)
=============================================================================
