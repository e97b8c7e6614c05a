---------------------------- MODULE Expressions ----------------------------
(***************************************************************************)
(* The unparsed body of a function and the parser's state while it reads   *)
(* it: what next, prev and the four panic functions of                     *)
(* parser/functionBody.c do, the scopes of ast/environment.c, and the      *)
(* nodes the parsers build; then the parsers of names, literals, types and *)
(* expressions of functionBody.c, and nodeToType (ast/ast.c), which the    *)
(* parsers call to turn a type they have read into a type.                 *)
(*                                                                         *)
(* A token is its spelling.  Tokens that every parser treats alike share   *)
(* one: "int" stands for the keyword types at which recovery stops, "1"    *)
(* for the integer and character literals, "s" for the other literals,     *)
(* "9" for an integer too large.  A file with what the lexer takes for no  *)
(* token is given up before its bodies are read (parser.c:84-96).          *)
(*                                                                         *)
(* Reading through a null pointer, using what was freed, or reading        *)
(* outside a vector ends the run of the model in a state that says so, and *)
(* so does error() of util/internalError.c.                                *)
(***************************************************************************)
EXTENDS Integers, Sequences

CONSTANT Identifiers \* the tokens of type TT_ID

KeywordTypes == {"int", "byte"}
IntLiterals == {"1", "9"}
OtherLiterals == {"s", "true", "null"}

\* What may begin an expression, other than an identifier (functionBody.c lists it
\* in parseStmt, parseForInitStmt and, for sizeof, in parsePrimaryExpression).
PrefixOperators == {"*", "&", "++", "--", "-", "!", "~"}
LiteralStarts == IntLiterals \cup OtherLiterals \cup {"["}
ExpressionStarts == PrefixOperators \cup LiteralStarts \cup {"cast", "sizeof", "("}

(***************************************************************************)
(* A node: its kind and its children.                                      *)
(***************************************************************************)
Node(op, kids) == [op |-> op, kids |-> kids]
Leaf(op) == Node(op, <<>>)
NoValue == Leaf("none")
Name(names) == Node("name", [i \in DOMAIN names |-> Leaf(names[i])])

(***************************************************************************)
(* The parser: the tokens, the next one (curr), the node the last parser   *)
(* returned, whether it returned one ("node"), NULL, or did something      *)
(* undefined, whether the file is marked as erroneous and whether anything *)
(* was complained about, and the scopes, innermost last.  given says that  *)
(* the node is an identifier the caller has read for the parser it calls.  *)
(***************************************************************************)
Parser(tokens, scopes) ==
  [tokens |-> tokens, curr |-> 1, node |-> Leaf("start"), at |-> "node",
   errored |-> FALSE, said |-> FALSE, given |-> FALSE, scopes |-> scopes]

Undefined == {"past", "null", "freed", "bounds"}
\* Nothing comes after one of these, or after the compiler has given up ("abort").
Over(p) == p.at \notin {"node", "NULL"}

\* A parser continues only after the one before it returned a node, and may
\* look at a token only if there is one.
Looking(p) == p.at = "node" /\ p.curr \in DOMAIN p.tokens
Overrun(p) == IF p.at = "node" THEN [p EXCEPT !.at = "past"] ELSE p
Token(p) == p.tokens[p.curr]
Sees(p, ts) == Looking(p) /\ Token(p) \in ts

\* next: the token is the caller's and the parser is past it.  A token put back by
\* prev leaves the parser where it was.
Next1(p) == [p EXCEPT !.curr = @ + 1]
Build(p, op, kids) == IF p.at = "node" THEN [p EXCEPT !.node = Node(op, kids)] ELSE p

\* errorExpectedToken and its siblings, then return NULL.
Fail(p) == [p EXCEPT !.errored = TRUE, !.said = TRUE, !.at = "NULL"]
\* Parsing goes on after a parser that returned NULL.
Resumed(p) == IF p.at = "NULL" THEN [p EXCEPT !.at = "node"] ELSE p
Complain(p) == [p EXCEPT !.errored = TRUE, !.said = TRUE]
Breaks(p, how) == [p EXCEPT !.at = how]

\* The usual way to read an expected token: put back the wrong one and fail.
Expect(p, t) ==
  IF ~Looking(p) THEN Overrun(p)
  ELSE IF Token(p) = t THEN Next1(p) ELSE Fail(p)

\* The unusual way: the wrong token is not put back.
ExpectEaten(p, t) ==
  IF ~Looking(p) THEN Overrun(p)
  ELSE IF Token(p) = t THEN Next1(p) ELSE Fail(Next1(p))

(***************************************************************************)
(* Recovery.  Each panic function skips to the first of its stop tokens,   *)
(* or past the first of those it consumes.                                 *)
(***************************************************************************)
StatementKeywords ==
  {"if", "while", "do", "for", "switch", "break", "continue", "return"}
DeclarationKeywords == {"opaque", "struct", "union", "enum", "typedef"}

Skip(p, stops, eats) ==
  LET ends == {i \in p.curr .. Len(p.tokens) : p.tokens[i] \in stops \cup eats}
      first == CHOOSE i \in ends : \A j \in ends : i <= j
  IN IF Over(p) THEN p
     ELSE IF ends = {} THEN [p EXCEPT !.at = "past"]
     ELSE [p EXCEPT !.curr = IF p.tokens[first] \in eats THEN first + 1 ELSE first]

\* A slip GetsOn catches: recovery stops at the cases of a switch as well.
panicStmtAtCase(p) ==
  Skip(p, {"{", "}", "int", "case", "default", "eof"} \cup StatementKeywords \cup DeclarationKeywords, {";"})

\* byte is missing from the keyword types at which a statement's recovery stops.
panicStmt(p) ==
  Skip(p, {"{", "}", "int", "eof"} \cup StatementKeywords \cup DeclarationKeywords, {";"})

panicSwitch(p) ==
  Skip(p, {"case", "default", "eof"} \cup StatementKeywords \cup DeclarationKeywords, {})

panicStructOrUnion(p) ==
  Skip(p, KeywordTypes \cup Identifiers \cup {"}", "eof"}, {";"})

panicEnum(p) == Skip(p, {"}", "eof"}, {","})

\* After a parser returned NULL: recover and return NULL in turn.
OrPanic(p) == IF p.at = "NULL" THEN panicStmt(p) ELSE p

(***************************************************************************)
(* Environments.  A scope maps names to kinds; the names of an enumeration *)
(* are found through its own name.  No module is imported.                 *)
(***************************************************************************)
Entry(kind, names) == [kind |-> kind, names |-> names]
NoEntry == Entry("none", {})

environmentPush(p) == [p EXCEPT !.scopes = Append(@, [n \in {} |-> NoEntry])]
environmentPop(p) == [p EXCEPT !.scopes = SubSeq(@, 1, Len(@) - 1)]

LookupUnscoped(p, name) ==
  LET within == {i \in DOMAIN p.scopes : name \in DOMAIN p.scopes[i]}
  IN IF within = {} THEN NoEntry
     ELSE p.scopes[CHOOSE i \in within : \A j \in within : j <= i][name]

\* environmentLookup of a name node, as the kind of what it finds.
KindOf(p, node) ==
  LET parent == LookupUnscoped(p, node.kids[1].op) IN
  IF Len(node.kids) = 1 THEN parent.kind
  ELSE IF /\ Len(node.kids) = 2
          /\ parent.kind = "enum"
          /\ node.kids[2].op \in parent.names
  THEN "enumconst" ELSE "none"

\* A slip ReadAsWritten catches: a name that is not found goes unsaid.
LookupSilently(p, node) ==
  IF KindOf(p, node) = "none" THEN Breaks(p, "NULL") ELSE p

\* A name that is not found is complained about.
Lookup(p, node) ==
  IF KindOf(p, node) = "none" THEN Fail(p) ELSE p

\* hashMapPut in the innermost scope, and errorRedeclaration for a name already there.
Declare(p, name, entry) ==
  LET top == p.scopes[Len(p.scopes)] IN
  IF name \in DOMAIN top
  THEN Complain(p)
  ELSE [p EXCEPT !.scopes[Len(p.scopes)] =
          [n \in DOMAIN top \cup {name} |-> IF n = name THEN entry ELSE top[n]]]

-----------------------------------------------------------------------------
(* Names. *)

RECURSIVE Components(_, _)

\* An identifier and the identifiers after each "::" that follows.
Components(p, before) ==
  IF ~Looking(p) THEN Overrun(p)
  ELSE IF Token(p) \notin Identifiers THEN Fail(p)
  ELSE LET names == Append(before, Token(p))
           after == Next1(p)
       IN IF ~Looking(after) THEN Overrun(after)
          ELSE IF Token(after) = "::" THEN Components(Next1(after), names)
          ELSE [after EXCEPT !.node = Name(names)]

parseAnyId(p) == Components(p, <<>>)

ScopedOnly(named) == IF named.at = "node" /\ Len(named.node.kids) < 2 THEN Fail(named) ELSE named

parseScopedId(p) == ScopedOnly(Components(p, <<>>))

\* What environmentLookup finds for a name that was read.
Found(named) == IF named.at = "node" THEN Lookup(named, named.node) ELSE named

parseId(p) ==
  IF ~Looking(p) THEN Overrun(p)
  ELSE IF Token(p) \notin Identifiers THEN Fail(p)
  ELSE [Next1(p) EXCEPT !.node = Name(<<Token(p)>>)]

-----------------------------------------------------------------------------
(* Literals. *)

ConstantOnly(found) ==
  IF found.at = "node" /\ KindOf(found, found.node) # "enumconst" THEN Fail(found) ELSE found

\* A literal, or the scoped name of an enumeration constant.
parseExtendedIntLiteral(p) ==
  IF ~Looking(p) THEN Overrun(p)
  ELSE CASE Token(p) = "1" -> [Next1(p) EXCEPT !.node = Leaf("1")]
         [] Token(p) = "9" -> Fail(Next1(p))
         [] Token(p) \in Identifiers -> ConstantOnly(Found(parseScopedId(p)))
         [] OTHER -> Fail(p)

RECURSIVE parseLiteral(_), parseAggregateInitializer(_, _)

parseLiteral(p) ==
  IF ~Looking(p) THEN Overrun(p)
  ELSE CASE Token(p) \in IntLiterals \cup Identifiers -> parseExtendedIntLiteral(p)
         [] Token(p) \in OtherLiterals -> [Next1(p) EXCEPT !.node = Leaf(Token(p))]
         [] Token(p) = "[" -> parseAggregateInitializer(Next1(p), <<>>)
         [] OTHER -> Fail(p)

AggregateRest(one, literals) ==
  IF ~Looking(one) THEN Overrun(one)
  ELSE CASE Token(one) = "]" -> Build(Next1(one), "aggregate", Append(literals, one.node))
         [] Token(one) = "," ->
              parseAggregateInitializer(Next1(one), Append(literals, one.node))
         [] OTHER -> Fail(one)

\* After "[" or a comma; a comma may precede the "]".
parseAggregateInitializer(p, literals) ==
  IF ~Looking(p) THEN Overrun(p)
  ELSE IF Token(p) = "]" THEN Build(Next1(p), "aggregate", literals)
  ELSE IF Token(p) \notin LiteralStarts \cup Identifiers THEN Fail(p)
  ELSE AggregateRest(parseLiteral(p), literals)

-----------------------------------------------------------------------------
(* Types. *)

RECURSIVE parseType(_), TypeModifiers(_), ArgumentTypes(_, _, _)

parseType(p) ==
  IF ~Looking(p) THEN Overrun(p)
  ELSE CASE Token(p) \in KeywordTypes ->
              TypeModifiers([Next1(p) EXCEPT !.node = Leaf(Token(p))])
         [] Token(p) \in Identifiers -> TypeModifiers(parseAnyId(p))
         [] OTHER -> Fail(p)

ArrayType(p, size) == Build(Expect(size, "]"), "array type", <<p.node, size.node>>)
FunctionType(p, inside) ==
  IF Sees(inside, {")"}) THEN Build(Next1(inside), "function type", <<p.node>>)
  ELSE ArgumentTypes(inside, p.node, <<>>)

\* What may follow a base type, any number of times.
TypeModifiers(p) ==
  IF ~Looking(p) THEN Overrun(p)
  ELSE CASE Token(p) \in {"const", "volatile", "*"} ->
              TypeModifiers(Build(Next1(p), "type " \o Token(p), <<p.node>>))
         [] Token(p) = "[" -> TypeModifiers(ArrayType(p, parseExtendedIntLiteral(Next1(p))))
         [] Token(p) = "(" -> TypeModifiers(FunctionType(p, Next1(p)))
         [] OTHER -> p

ArgumentTypesRest(after, returns, types) ==
  IF ~Looking(after) THEN Overrun(after)
  ELSE CASE Token(after) = "," -> ArgumentTypes(Next1(after), returns, types)
         [] Token(after) = ")" -> Build(Next1(after), "function type", <<returns>> \o types)
         [] OTHER -> Fail(after)

\* The argument names are optional.  The code reads and drops them; they are kept in the
\* node so that it can be written back.
ArgumentName(type, returns, types) ==
  IF Sees(type, Identifiers)
  THEN ArgumentTypesRest(Next1(type), returns,
         Append(types, Node("named type", <<type.node, Leaf(Token(type))>>)))
  ELSE ArgumentTypesRest(type, returns, Append(types, type.node))

\* The argument types of a function pointer.
ArgumentTypes(p, returns, types) ==
  IF ~Looking(p) THEN Overrun(p)
  ELSE IF Token(p) \notin KeywordTypes \cup Identifiers THEN Fail(p)
  ELSE ArgumentName(parseType(p), returns, types)

RECURSIVE nodeToType(_, _), nodesToTypes(_, _)

\* The parser after turning the type node n into a type: "node" if there is one.  A
\* name that is no type is complained about without marking the file as erroneous;
\* an undeclared scoped name and a qualifier on no type are read through null.
nodeToType(p, n) ==
  IF p.at # "node" THEN p
  ELSE CASE n.op = "name" ->
              LET kind == KindOf(p, n) IN
              CASE kind = "none" ->
                     IF Len(n.kids) > 1 THEN Breaks(Fail(p), "null") ELSE Fail(p)
                [] kind \in {"type", "enum", "opaque"} -> p
                [] OTHER -> [p EXCEPT !.said = TRUE, !.at = "NULL"]
         [] n.op = "type *" ->
              Resumed(nodeToType(p, n.kids[1]))
         [] n.op \in {"type const", "type volatile"} ->
              LET inner == nodeToType(p, n.kids[1]) IN
              IF inner.at = "NULL" THEN Breaks(inner, "null") ELSE inner
         [] n.op \in {"array type", "named type"} -> nodeToType(p, n.kids[1])
         [] n.op = "function type" -> nodesToTypes(p, n.kids)
         [] OTHER -> p

nodesToTypes(p, ns) ==
  IF ns = <<>> THEN p ELSE nodesToTypes(nodeToType(p, Head(ns)), Tail(ns))

\* The type of sizeof is stored whether there is one or not.
StoredType(p, n) ==
  IF p.at = "node" THEN Resumed(nodeToType(p, n)) ELSE p

-----------------------------------------------------------------------------
(* Expressions, from the comma to the names. *)

AssignmentOperators ==
  {"=", "*=", "/=", "%=", "+=", "-=", "<<=", ">>=", ">>>=", "&=", "^=", "|=", "&&=", "||="}

\* The operators of each level of binary expressions, tightest first.
Operators == << {"*", "/", "%"}, {"+", "-"}, {"<<", ">>", ">>>"}, {"<", ">", "<=", ">="},
                {"==", "!="}, {"&", "|", "^"} >>
LogicalOperators == {"&&", "||"}

\* A node from the parts before, and the last, which has been read by the parser given.
Join(op, before, last) == Build(last, op, Append(before, last.node))

RECURSIVE parseExpression(_), parseAssignmentExpression(_), parseTernaryExpression(_),
          parseLogicalExpression(_), LogicalRest(_), parseBinaryExpression(_, _),
          BinaryRest(_, _), parsePrefixExpression(_), PostfixRest(_),
          Arguments(_, _, _), parsePrimaryExpression(_)

\* After the left operand.
CommaRest(lhs) ==
  IF ~Looking(lhs) THEN Overrun(lhs)
  ELSE IF Token(lhs) = "," THEN Join(",", <<lhs.node>>, parseExpression(Next1(lhs))) ELSE lhs

parseExpression(p) == CommaRest(parseAssignmentExpression(p))

AssignmentRest(lhs) ==
  IF ~Looking(lhs) THEN Overrun(lhs)
  ELSE IF Token(lhs) \in AssignmentOperators
  THEN Join(Token(lhs), <<lhs.node>>, parseAssignmentExpression(Next1(lhs))) ELSE lhs

parseAssignmentExpression(p) == AssignmentRest(parseTernaryExpression(p))

Alternative(predicate, consequent) ==
  Join("?", <<predicate.node, consequent.node>>,
       parseTernaryExpression(Expect(consequent, ":")))

TernaryRest(predicate) ==
  IF ~Looking(predicate) THEN Overrun(predicate)
  ELSE IF Token(predicate) = "?"
  THEN Alternative(predicate, parseExpression(Next1(predicate))) ELSE predicate

parseTernaryExpression(p) == TernaryRest(parseLogicalExpression(p))

\* The right operand is again a whole logical expression.
LogicalRest(p) ==
  IF ~Looking(p) THEN Overrun(p)
  ELSE IF Token(p) \in LogicalOperators
  THEN LogicalRest(Join(Token(p), <<p.node>>, parseLogicalExpression(Next1(p))))
  ELSE p

parseLogicalExpression(p) == LogicalRest(parseBinaryExpression(6, p))

BinaryRest(level, p) ==
  IF ~Looking(p) THEN Overrun(p)
  ELSE IF Token(p) \in Operators[level]
  THEN BinaryRest(level, Join(Token(p), <<p.node>>, parseBinaryExpression(level - 1, Next1(p))))
  ELSE p

\* parseMultiplicationExpression (level 1) to parseBitwiseExpression (level 6).
parseBinaryExpression(level, p) ==
  IF level = 0 THEN parsePrefixExpression(p)
  ELSE BinaryRest(level, parseBinaryExpression(level - 1, p))

parsePrefixExpression(p) ==
  IF ~Looking(p) THEN Overrun(p)
  ELSE IF ~p.given /\ Token(p) \in PrefixOperators
  THEN Join("prefix " \o Token(p), <<>>, parsePrefixExpression(Next1(p)))
  ELSE PostfixRest(parsePrimaryExpression(p))

PostfixOperators == {"++", "--", "=-", "=!", "=~"}

\* After the subscript of p, or the arguments of a call of it.
Indexed(p, index) == Build(ExpectEaten(index, "]"), "index", <<p.node, index.node>>)
Called(p, inside) ==
  IF Sees(inside, {")"}) THEN Build(Next1(inside), "call", <<p.node>>)
  ELSE Arguments(inside, p.node, <<>>)

PostfixRest(p) ==
  IF ~Looking(p) THEN Overrun(p)
  ELSE CASE Token(p) \in {".", "->"} ->
              PostfixRest(Join(Token(p), <<p.node>>, parseId(Next1(p))))
         [] Token(p) = "(" -> PostfixRest(Called(p, Next1(p)))
         [] Token(p) = "[" -> PostfixRest(Indexed(p, parseExpression(Next1(p))))
         [] Token(p) \in PostfixOperators ->
              PostfixRest(Build(Next1(p), "postfix " \o Token(p), <<p.node>>))
         [] OTHER -> p

\* The arguments of a call, from the first.
ArgumentsRest(one, function, arguments) ==
  IF ~Looking(one) THEN Overrun(one)
  ELSE CASE Token(one) = ")" -> Build(Next1(one), "call", <<function>> \o arguments)
         [] Token(one) = "," -> Arguments(Next1(one), function, arguments)
         [] OTHER -> Fail(one)
ArgumentRead(one, function, arguments) ==
  ArgumentsRest(one, function, Append(arguments, one.node))

Arguments(p, function, arguments) ==
  ArgumentRead(parseAssignmentExpression(p), function, arguments)

\* A name used as a value: a type is complained about, and used all the same.
ValueOnly(found) ==
  IF found.at # "node" \/ KindOf(found, found.node) \in {"variable", "enumconst"} THEN found
  ELSE Complain(found)
NamedBy(named) ==
  IF named.at = "NULL" THEN Breaks(named, "null") \* looked up without a name
  ELSE ValueOnly(Found(named))

NamedValue(p) == NamedBy(parseAnyId(p))

CastTo(type, target) ==
  Build(nodeToType(Expect(target, ")"), type.node), "cast", <<type.node, target.node>>)
CastRest(type) == CastTo(type, parseExpression(Expect(Expect(type, ">"), "(")))

parseCast(p) == CastRest(parseType(Expect(p, "<")))

\* The operand of sizeof.  For a name, the token put back is sizeof itself: the name is
\* then missing, and looked up through a null pointer.
SizeofType(type) == Build(StoredType(Expect(type, ")"), type.node), "sizeof", <<type.node>>)
SizeofValue(target) == Build(Expect(target, ")"), "sizeof", <<target.node>>)
SizeofRest(inside) ==
  IF ~Looking(inside) THEN Overrun(inside)
  ELSE CASE Token(inside) \in KeywordTypes -> SizeofType(parseType(inside))
         [] Token(inside) \in Identifiers -> Breaks(Fail(inside), "null")
         [] Token(inside) \in ExpressionStarts -> SizeofValue(parseExpression(inside))
         [] OTHER -> Fail(inside)

parseSizeof(p) == SizeofRest(ExpectEaten(p, "("))

Parenthesized(inside) == Build(ExpectEaten(inside, ")"), "parens", <<inside.node>>)

parsePrimaryExpression(p) ==
  IF p.at # "node" THEN p
  ELSE IF p.given THEN [p EXCEPT !.given = FALSE]
  ELSE IF ~Looking(p) THEN Overrun(p)
  ELSE CASE Token(p) \in Identifiers -> NamedValue(p)
         [] Token(p) \in LiteralStarts -> parseLiteral(p)
         [] Token(p) = "cast" -> parseCast(Next1(p))
         [] Token(p) = "sizeof" -> parseSizeof(Next1(p))
         [] Token(p) = "(" -> Parenthesized(parseExpression(Next1(p)))
         [] OTHER -> Fail(p)
=============================================================================
