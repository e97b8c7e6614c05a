------------------------------ MODULE Programs ------------------------------
(***************************************************************************)
(* Small T functions, as abstract syntax: the inputs of the model-checked  *)
(* instances.                                                              *)
(***************************************************************************)
EXTENDS Integers, Sequences

\* Expressions
Bool(b) == [t |-> "bool", v |-> b]
IntLit(n) == [t |-> "int", v |-> n]
Id(x) == [t |-> "id", x |-> x]
Call(f) == [t |-> "call", f |-> f]
Seq2(a, b) == [t |-> "seq", lhs |-> a, rhs |-> b]
And(a, b) == [t |-> "land", lhs |-> a, rhs |-> b]
Or(a, b) == [t |-> "lor", lhs |-> a, rhs |-> b]
Not(a) == [t |-> "lnot", target |-> a]
Cond(p, c, a) == [t |-> "ternary", p |-> p, c |-> c, a |-> a]
Assign(a, b) == [t |-> "assign", lhs |-> a, rhs |-> b]
AddrOf(x) == [t |-> "addrof", target |-> Id(x)]
Deref(e) == [t |-> "deref", target |-> e]
Unary(op, e) == [t |-> op, target |-> e]
Binary(op, a, b) == [t |-> op, lhs |-> a, rhs |-> b]
OpAssign(op, a, b) == [t |-> "opassign", op |-> op, lhs |-> a, rhs |-> b]
EnumConst(n) == [t |-> "enum", v |-> n]
SizeOf(e) == [t |-> "sizeof", v |-> 4, target |-> e]
Volatile(x) == [t |-> "id", x |-> x, volatile |-> TRUE]

\* Statements
Null == [t |-> "null"]
Do(e) == [t |-> "expr", e |-> e]
Compound(ss) == [t |-> "compound", stmts |-> ss]
If(p, s) == [t |-> "if", predicate |-> p, consequent |-> s]
IfElse(p, s, r) ==
  [t |-> "if", predicate |-> p, consequent |-> s, alternative |-> r]
While(p, s) == [t |-> "while", condition |-> p, body |-> s]
DoWhile(s, p) == [t |-> "dowhile", condition |-> p, body |-> s]
For(i, p, n, s) == [t |-> "for", initializer |-> i, condition |-> p,
                    increment |-> n, body |-> s]
ForEver(i, p, s) ==
  [t |-> "for", initializer |-> i, condition |-> p, body |-> s]
Break == [t |-> "break"]
Continue == [t |-> "continue"]
Return == [t |-> "return"]
ReturnValue(e) == [t |-> "return", value |-> e]
Initialized(x, e) == [x |-> x, initializer |-> e]
Uninitialized(x) == [x |-> x]
Escaping(x, e) == [x |-> x, initializer |-> e, escapes |-> TRUE]
DefineAll(names) == [t |-> "vardefn", names |-> names]
Define(x, e) == DefineAll(<<Initialized(x, e)>>)
Declare(x) == DefineAll(<<Uninitialized(x)>>)
Case(vs, s) == [values |-> vs, body |-> s]
Default(s) == [values |-> {}, default |-> TRUE, body |-> s]
Switch(signed, e, cs) ==
  [t |-> "switch", signed |-> signed, condition |-> e, cases |-> cs]
-----------------------------------------------------------------------------
(* Families of functions *)

Predicates == {Bool(1), Bool(0), Call(1), Not(Call(1)), And(Call(1), Call(2)),
               Or(Call(1), Bool(0)), Cond(Call(1), Bool(0), Call(2)),
               Seq2(Call(1), Bool(1))}
Steps == {Null, Do(Call(3))}
LoopSteps == Steps \cup {Break, Continue, Return, If(Call(4), Break),
                         IfElse(Call(4), Continue, Do(Call(5)))}

Ifs == {If(p, s) : p \in Predicates, s \in Steps \cup {Return}}
IfElses == {IfElse(p, s, r) : p \in {Call(1), Bool(0)},
                              s \in Steps, r \in Steps \cup {Return}}
Whiles == {While(p, s) : p \in Predicates, s \in LoopSteps}
DoWhiles == {DoWhile(s, p) : p \in Predicates, s \in LoopSteps}
Fors == {For(Null, p, Call(6), s) : p \in {Bool(1), Call(1)}, s \in LoopSteps}
        \cup {ForEver(Do(Call(6)), p, s) : p \in {Bool(1), Call(1)},
                                           s \in LoopSteps}
Nested == {While(Call(1), While(p, s)) : p \in {Bool(1), Call(2)},
                                         s \in {Null, Break, Do(Call(3))}}
Dead == {Compound(<<s, Do(Call(7)), While(Call(1), Do(Call(8)))>>) :
           s \in {Return, IfElse(Call(1), Return, Return)}}

\* Switches without a default: values on their own and runs of consecutive
\* values, in one case or several.
CaseBodies == {<<Do(Call(3)), Do(Call(4))>>, <<Break, Break>>,
               <<Compound(<<Do(Call(3)), Break>>), Return>>}
CaseValues == {<<{0}, {2}>>, <<{0}, {1}>>, <<{0, 2}, {1}>>}
Switches ==
  {Switch(signed, Call(1), <<Case(vs[1], b[1]), Case(vs[2], b[2])>>) :
     signed \in BOOLEAN, vs \in CaseValues, b \in CaseBodies}

\* The default as the first case.
DefaultFirst ==
  Switch(TRUE, Call(1), <<Default(Do(Call(5))), Case({0}, Do(Call(3))),
                          Case({2}, Break)>>)
\* The default as the second case of the first function of a file.
DefaultSecond ==
  Switch(TRUE, Call(1), <<Case({0}, Do(Call(3))), Default(Do(Call(4)))>>)

\* Functions that return a value and use variables.  1 is always defined.
Values == {Bool(1), Id(1), Call(2), Cond(Id(1), Id(1), Call(2)),
           Assign(Id(1), Call(2)), Not(Id(1)), Seq2(Call(2), Id(1))}
Uses == {Null, Do(Assign(Id(1), Bool(0))), Do(Assign(Id(2), Call(3))),
         If(Id(1), Do(Assign(Id(2), Id(1)))),
         IfElse(Id(1), Do(Assign(Id(2), Bool(1))), ReturnValue(Id(1))),
         While(Id(1), Do(Assign(Id(1), Call(3)))),
         DoWhile(Do(Assign(Id(2), Call(3))), Not(Id(2)))}
WithVariables ==
  {Compound(<<Define(1, Call(1)), Define(2, v), u, ReturnValue(Id(r))>>) :
     v \in Values, u \in Uses, r \in {1, 2}}
  \cup {Compound(<<Declare(2), Define(1, Call(1)), u, ReturnValue(v)>>) :
          v \in Values, u \in Uses}

\* int x = call(); int *p = &x; then through the pointer.
WithPointers ==
  {Compound(<<DefineAll(<<Escaping(1, Call(1)), Initialized(2, AddrOf(1))>>),
              u, ReturnValue(v)>>) :
     u \in {Null, Do(Assign(Deref(Id(2)), Call(3))),
            Do(OpAssign("add", Deref(Id(2)), Call(3))),
            Do(Assign(Id(2), Unary("addrof", Deref(Id(2))))),
            If(Call(3), Do(Assign(Id(1), Bool(1))))},
     v \in {Deref(Id(2)), Id(1), Unary("postinc", Deref(Id(2)))}}

\* Operators on two ints that calls return: for their value, in a condition,
\* for their effect, and as the place another operator stores to.  The
\* orderings are used for their value only in BadOperators, | and ^ too.
GoodBinaries == {"mul", "div", "mod", "add", "sub", "bitand", "eq", "neq"}
Orderings == {"lt", "gt", "lteq", "gteq"}
Shifts == {"lshift", "arshift", "lrshift"}
InPlace == {"preinc", "predec", "postinc", "postdec", "negassign", "bitnotassign"}
OnInts ==
  {Binary(op, Id(1), Id(2)) : op \in GoodBinaries}
  \cup {Binary(op, Id(1), IntLit(2)) : op \in Shifts}
  \cup {Unary(op, Id(1)) : op \in InPlace \cup {"neg", "bitnot", "cast", "parens"}}
  \cup {OpAssign(op, Id(1), Id(2)) : op \in {"add", "sub", "mul"}}
  \cup {Cond(Binary(op, Id(1), Id(2)), Unary("preinc", Id(1)), EnumConst(3)) :
           op \in Orderings \cup {"eq", "neq"}}
  \cup {Unary("predec", OpAssign("add", Unary("preinc", Id(1)), Id(2))),
        OpAssign("sub", Assign(Id(1), Id(2)), IntLit(5)),
        Binary("add", Unary("postinc", Id(1)), Unary("preinc", Id(1))),
        Binary("sub", SizeOf(Unary("preinc", Id(1))), Id(1))}
Effects ==
  {Unary(op, Id(1)) : op \in InPlace \cup {"parens"}}
  \cup {OpAssign("add", Id(1), Unary("postdec", Id(2))),
        Seq2(Volatile(1), Unary("preinc", Unary("parens", Id(1)))),
        Binary("add", Unary("preinc", Id(1)), Unary("predec", Id(2))),
        SizeOf(Unary("preinc", Id(1)))}
OperatorUses ==
  {Compound(<<Define(1, Call(1)), Define(2, Call(2)), Define(3, e),
              ReturnValue(Binary("add", Id(1), Binary("add", Id(2), Id(3))))>>) :
     e \in OnInts}
  \cup {Compound(<<Define(1, Call(1)), Define(2, Call(2)), Do(e),
                   ReturnValue(Binary("add", Id(1), Id(2)))>>) : e \in Effects}

\* &&= and ||= in every context, on booleans.
LogicalAssigns ==
  {Compound(<<Define(1, Call(1)), s, ReturnValue(Id(1))>>) :
     s \in UNION {{Do(e), Define(2, e), If(e, Do(Call(3))), Do(Assign(e, Bool(1)))} :
                    e \in {Binary("landassign", Id(1), Call(2)),
                           Binary("lorassign", Id(1), Call(2))}}}

\* A compound assignment whose right hand side modifies the left hand side.
SelfModifying ==
  {Compound(<<Define(1, Call(1)), ReturnValue(OpAssign("add", Id(1),
                                                      Unary("preinc", Id(1))))>>)}

\* Operators for which the compiler has another operator in its table: | and ^,
\* and the orderings, for which it has those of unsigned integers.
BadOperators ==
  {Compound(<<Define(1, Call(1)), Define(2, Call(2)),
              ReturnValue(Binary(op, Id(1), Id(2)))>>) : op \in {"bitor", "bitxor"} \cup Orderings}

\* && and || for their value.
LogicalValue(e) == Compound(<<Define(1, e), ReturnValue(Id(1))>>)
AndValue == LogicalValue(And(Call(1), Call(2)))
OrValue == LogicalValue(Or(Call(1), Call(2)))

\* Functions in which the value of an assignment is used, or a definition with an
\* initializer is followed by another one: one operand, two instructions.
AssignValues ==
  {Compound(<<Define(1, Call(1)), Declare(2),
              Do(Assign(Id(2), Assign(Id(1), Call(2)))), ReturnValue(v)>>) :
     v \in {Bool(1), Id(1), Id(2), Cond(Id(1), Id(2), Id(1))}}
  \cup {Compound(<<Declare(1), If(Unary(u, Assign(Id(1), Call(1))), Do(Call(2))),
                   ReturnValue(v)>>) :
          u \in {"parens", "cast"}, v \in {Bool(1), Id(1)}}
  \cup {Compound(<<DefineAll(<<Escaping(1, Call(1)), Uninitialized(3),
                              Initialized(2, AddrOf(1))>>),
                   Do(Assign(Deref(Assign(Id(3), Id(2))), Call(3))),
                   ReturnValue(Id(1))>>),
        Compound(<<DefineAll(<<Initialized(1, Call(1)), Uninitialized(2),
                               Initialized(3, Id(1))>>), ReturnValue(Id(3))>>)}

\* The same in blocks control does not reach; the functions with a jump table
\* keep some of them until scheduling.
DeadAssignValues ==
  LET assigning == <<If(Assign(Id(1), Call(1)), Null), If(Id(1), Do(Call(2)))>>
  IN  {Compound(<<Declare(1), Return>> \o assigning)}
      \cup {Compound(<<Declare(1), Return,
                       Switch(TRUE, e, <<Case({0, 1}, Compound(assigning))>>)>>) :
               e \in {Call(3), Assign(Id(1), Call(3))}}

EmptySwitch == Switch(TRUE, Call(1), <<Default(Do(Call(2)))>>)

Body(s) == Compound(<<s, Do(Call(9))>>)
=============================================================================
