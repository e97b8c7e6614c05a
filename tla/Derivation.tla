----------------------------- MODULE Derivation -----------------------------
(***************************************************************************)
(* What a tree stands for: the tokens it is written with, by the grammar   *)
(* of "standard/Appendix B - Syntax.ebnf", and how tightly its operators   *)
(* bind, by the table of standard/Standard.tex (525-640).                  *)
(***************************************************************************)
EXTENDS Statements

\* The lists of the grammar: each member's tokens, with commas between.
RECURSIVE Written(_), WrittenAll(_), WrittenList(_), Elements(_)

WrittenAll(ns) == IF ns = <<>> THEN <<>> ELSE Written(Head(ns)) \o WrittenAll(Tail(ns))
WrittenList(ns) ==
  IF Len(ns) < 2 THEN WrittenAll(ns) ELSE Written(ns[1]) \o <<",">> \o WrittenList(Tail(ns))

\* A name's identifiers, with "::" between.
Elements(ns) ==
  IF Len(ns) = 1 THEN <<ns[1].op>> ELSE <<ns[1].op, "::">> \o Elements(Tail(ns))

PrefixNodes == {"prefix " \o t : t \in PrefixOperators}
PostfixNodes == {"postfix " \o t : t \in PostfixOperators}
ModifiedTypes == {"type const", "type volatile", "type *"}
BinaryOperators ==
  UNION {Operators[i] : i \in DOMAIN Operators} \cup LogicalOperators \cup AssignmentOperators

\* The token of a node named for one.
OperatorOf(op) ==
  CHOOSE t \in PrefixOperators \cup PostfixOperators \cup {"const", "volatile"} :
    op \in {"prefix " \o t, "postfix " \o t, "type " \o t}

WrittenType(n) ==
  CASE n.op \in ModifiedTypes -> Written(n.kids[1]) \o <<OperatorOf(n.op)>>
    [] n.op = "array type" -> Written(n.kids[1]) \o <<"[">> \o Written(n.kids[2]) \o <<"]">>
    [] n.op = "function type" ->
         Written(n.kids[1]) \o <<"(">> \o WrittenList(Tail(n.kids)) \o <<")">>
    [] n.op = "named type" -> WrittenAll(n.kids)

WrittenExpression(n) ==
  CASE n.op \in BinaryOperators \cup {",", ".", "->"} ->
         Written(n.kids[1]) \o <<n.op>> \o Written(n.kids[2])
    [] n.op = "?" ->
         Written(n.kids[1]) \o <<"?">> \o Written(n.kids[2]) \o <<":">> \o Written(n.kids[3])
    [] n.op \in PrefixNodes -> <<OperatorOf(n.op)>> \o Written(n.kids[1])
    [] n.op \in PostfixNodes -> Written(n.kids[1]) \o <<OperatorOf(n.op)>>
    [] n.op = "call" -> Written(n.kids[1]) \o <<"(">> \o WrittenList(Tail(n.kids)) \o <<")">>
    [] n.op = "index" -> Written(n.kids[1]) \o <<"[">> \o Written(n.kids[2]) \o <<"]">>
    [] n.op = "aggregate" -> <<"[">> \o WrittenList(n.kids) \o <<"]">>
    [] n.op = "cast" ->
         <<"cast", "<">> \o Written(n.kids[1]) \o <<">", "(">> \o Written(n.kids[2]) \o <<")">>
    [] n.op = "sizeof" -> <<"sizeof", "(">> \o Written(n.kids[1]) \o <<")">>
    [] n.op = "parens" -> <<"(">> \o Written(n.kids[1]) \o <<")">>

Guarded(keyword, n) == <<keyword, "(">> \o Written(n) \o <<")">>

WrittenStatement(n) ==
  LET last == n.kids[Len(n.kids)] IN
  CASE n.op = "block" -> <<"{">> \o WrittenAll(n.kids) \o <<"}">>
    [] n.op = "if" ->
         Guarded("if", n.kids[1]) \o Written(n.kids[2])
           \o (IF Len(n.kids) = 3 THEN <<"else">> \o Written(n.kids[3]) ELSE <<>>)
    [] n.op = "while" -> Guarded("while", n.kids[1]) \o Written(n.kids[2])
    [] n.op = "do" -> <<"do">> \o Written(n.kids[1]) \o Guarded("while", n.kids[2])
    [] n.op = "for" ->
         <<"for", "(">> \o WrittenAll(SubSeq(n.kids, 1, 2)) \o <<";">>
           \o WrittenAll(SubSeq(n.kids, 3, Len(n.kids) - 1)) \o <<")">> \o Written(last)
    [] n.op = "switch" ->
         Guarded("switch", n.kids[1]) \o <<"{">> \o WrittenAll(Tail(n.kids)) \o <<"}">>
    [] n.op \in {"break", "continue"} -> <<n.op, ";">>
    [] n.op = "return" -> <<"return">> \o WrittenAll(n.kids) \o <<";">>
    [] n.op = "expression" -> WrittenAll(n.kids) \o <<";">>
    [] n.op = "empty" -> <<";">>

RECURSIVE WrittenValues(_)
WrittenValues(ns) ==
  IF Len(ns) = 1 THEN Written(ns[1])
  ELSE <<"case">> \o Written(ns[1]) \o <<":">> \o WrittenValues(Tail(ns))

WrittenDeclaration(n) ==
  CASE n.op = "case" -> WrittenValues(n.kids)
    [] n.op = "default" -> <<"default", ":">> \o Written(n.kids[1])
    [] n.op \in {"variables", "field"} ->
         Written(n.kids[1]) \o WrittenList(Tail(n.kids)) \o <<";">>
    [] n.op \in {"variable", "constant"} ->
         <<n.kids[1].op>>
           \o (IF Len(n.kids) = 2 THEN <<"=">> \o Written(n.kids[2]) ELSE <<>>)
    [] n.op = "opaque" -> <<"opaque", n.kids[1].op, ";">>
    [] n.op \in {"struct", "union"} ->
         <<n.op, n.kids[1].op, "{">> \o WrittenAll(Tail(n.kids)) \o <<"}", ";">>
    [] n.op = "enum" ->
         <<n.op, n.kids[1].op, "{">> \o WrittenList(Tail(n.kids)) \o <<"}", ";">>
    [] n.op = "typedef" -> <<"typedef">> \o Written(n.kids[1]) \o <<n.kids[2].op, ";">>

Written(n) ==
  CASE n.op = "name" -> Elements(n.kids)
    [] n.op \in ModifiedTypes \cup {"array type", "function type", "named type"} ->
         WrittenType(n)
    [] n.op \in BinaryOperators \cup PrefixNodes \cup PostfixNodes \cup
         {",", ".", "->", "?", "call", "index", "aggregate", "cast", "sizeof", "parens"} ->
         WrittenExpression(n)
    [] n.op \in {"block", "if", "while", "do", "for", "switch", "break", "continue",
                 "return", "expression", "empty"} -> WrittenStatement(n)
    [] n.op \in {"case", "default", "variables", "field", "variable", "constant", "opaque",
                 "struct", "union", "enum", "typedef"} -> WrittenDeclaration(n)
    [] OTHER -> <<n.op>>

\* The tokens a tree keeps: a comma before a closing bracket is optional.
RECURSIVE Significant(_)
Significant(ts) ==
  IF ts = <<>> THEN <<>>
  ELSE IF Len(ts) > 1 /\ ts[1] = "," /\ ts[2] \in {"]", "}"} THEN Significant(Tail(ts))
  ELSE <<ts[1]>> \o Significant(Tail(ts))

-----------------------------------------------------------------------------
\* The table's rows of operators with two operands, from those that bind tightest.
Table ==
  << {"*", "/", "%"}, {"+", "-"}, {"<<", ">>", ">>>"}, {"<", ">", "<=", ">="}, {"==", "!="},
     {"&", "|", "^"}, {"&&", "||"}, {"?"},
     {"=", "*=", "/=", "%=", "+=", "-=", "<<=", ">>=", ">>>=", "&=", "^=", "|=", "&&=", "||="},
     {","} >>

\* How loosely a node binds: 0 for what is written with brackets or after its operand.
Looseness(n) ==
  CASE n.op \in PrefixNodes -> 1
    [] Len(n.kids) >= 2 /\ n.op \in UNION {Table[i] : i \in DOMAIN Table} ->
         1 + CHOOSE i \in DOMAIN Table : n.op \in Table[i]
    [] OTHER -> 0

\* How loose the operands may be.  An operator that groups from left to right takes
\* another of its level on the left only.  A comma may group either way: the order of
\* evaluation and the value are the same.
OperandLimits(n) ==
  LET l == Looseness(n) IN
  CASE l = 1 -> <<1>>
    [] l \in 2 .. 7 -> <<l, l - 1>>
    [] l = 8 -> <<8, 8>>
    [] l = 9 -> <<8, 11, 9>>
    [] l = 10 -> <<9, 10>>
    [] l = 11 -> <<11, 11>>
    [] n.op \in PostfixNodes \cup {"index", ".", "->"} -> <<0>>
    [] n.op = "call" -> [i \in DOMAIN n.kids |-> IF i = 1 THEN 0 ELSE 10]
    [] n.op = "variable" -> <<0, 10>>
    [] OTHER -> <<>>

RECURSIVE Everywhere(_)
Grouped(n) ==
  \A i \in DOMAIN OperandLimits(n) :
    i \in DOMAIN n.kids => Looseness(n.kids[i]) <= OperandLimits(n)[i]

\* Every node of a tree is grouped as the table has it.
Everywhere(n) ==
  /\ Grouped(n)
  /\ \A i \in DOMAIN n.kids : Everywhere(n.kids[i])
=============================================================================
