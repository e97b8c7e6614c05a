----------------------------- MODULE Statements -----------------------------
(***************************************************************************)
(* The parsers of statements and local declarations of                     *)
(* parser/functionBody.c.  Each is given the parser after the keyword that *)
(* chose it (start, in the code), recovers from its own errors, and        *)
(* returns a node or NULL.                                                 *)
(***************************************************************************)
EXTENDS Expressions, SequencesExt

\* The scope a parser has just left is kept in the node it builds, and dropped with it.
Condition(p) == Expect(parseExpression(Expect(p, "(")), ")")

RECURSIVE parseStmt(_), CompoundRest(_, _), SwitchCases(_, _), CaseValues(_, _),
          Definitions(_, _), Fields(_, _), FieldNames(_, _, _), EnumConstants(_, _, _)

\* A slip ScopesRestored catches: the way out through an error leaves the scope.
LeaveScopeIfRead(body) == IF body.at # "node" THEN body ELSE environmentPop(body)

LeaveScope(body) == IF Over(body) THEN body ELSE environmentPop(body)

\* A statement in a scope of its own.
Scoped(p) == IF p.at # "node" THEN p ELSE LeaveScope(parseStmt(environmentPush(p)))

-----------------------------------------------------------------------------
(* Blocks, branches and loops. *)

\* A statement that could not be read leaves nothing in the block.
CompoundNext(stmt, stmts) ==
  IF stmt.at = "NULL" THEN CompoundRest(Resumed(stmt), stmts)
  ELSE CompoundRest(stmt, Append(stmts, stmt.node))

CompoundRest(p, stmts) ==
  IF ~Looking(p) THEN Overrun(p)
  ELSE CASE Token(p) = "}" -> Build(environmentPop(Next1(p)), "block", stmts)
         [] Token(p) = "eof" -> Build(Complain(environmentPop(p)), "block", stmts)
         [] OTHER -> CompoundNext(parseStmt(p), stmts)

parseCompoundStmt(p) == CompoundRest(environmentPush(Next1(p)), <<>>)

\* The bodies recover for themselves, the parts before them do not.
ElseRest(predicate, consequent) ==
  IF ~Looking(consequent) THEN Overrun(consequent)
  ELSE IF Token(consequent) = "else"
  THEN Join("if", <<predicate.node, consequent.node>>, Scoped(Next1(consequent)))
  ELSE Build(consequent, "if", <<predicate.node, consequent.node>>)
IfRest(predicate) == ElseRest(predicate, Scoped(predicate))

parseIfStmt(p) == IfRest(OrPanic(Condition(p)))

WhileRest(condition) == Join("while", <<condition.node>>, Scoped(condition))

parseWhileStmt(p) == WhileRest(OrPanic(Condition(p)))

DoRest(body) ==
  IF body.at = "NULL" THEN body
  ELSE Join("do", <<body.node>>, OrPanic(Condition(Expect(body, "while"))))

parseDoWhileStmt(p) == DoRest(OrPanic(Scoped(p)))

parseForInitStmt(p) ==
  IF ~Looking(p) THEN Overrun(p)
  ELSE IF Token(p) \in KeywordTypes \cup Identifiers \cup ExpressionStarts \cup {";"}
  THEN parseStmt(p)
  ELSE panicStmt(Fail(p))

\* The parts of parseForStmt, from the last.
ForEnd(parts, body) == IF Over(body) THEN body ELSE environmentPop(Join("for", parts, body))
ForBody(parts, closed) == ForEnd(parts, Scoped(closed))
ForIncrement(parts, increment) ==
  ForBody(Append(parts, increment.node), OrPanic(Expect(increment, ")")))

\* After a bad condition, or no semicolon after it, what was read is freed and parsing
\* goes on with it.
ForCondition(initializer, condition) ==
  CASE condition.at = "NULL" -> Breaks(condition, "freed")
    [] Over(condition) -> condition
    [] Sees(condition, {")"}) -> ForBody(<<initializer, condition.node>>, Next1(condition))
    [] OTHER -> ForIncrement(<<initializer, condition.node>>, parseExpression(condition))

\* A bad initialiser is recovered from twice.
ForInitializer(initializer) ==
  CASE initializer.at = "NULL" -> environmentPop(panicStmt(initializer))
    [] Over(initializer) -> initializer
    [] OTHER -> ForCondition(initializer.node, Expect(parseExpression(initializer), ";"))
ForRest(header) ==
  IF header.at # "node" THEN header
  ELSE ForInitializer(parseForInitStmt(environmentPush(header)))

parseForStmt(p) == ForRest(OrPanic(Expect(p, "(")))

-----------------------------------------------------------------------------
(* Switches. *)

\* One that could not be read is left out, after recovering a second time.
CaseRest(kind, values, body, cases) ==
  IF body.at = "NULL" THEN SwitchCases(Resumed(panicSwitch(panicSwitch(body))), cases)
  ELSE SwitchCases(body, Append(cases, Node(kind, Append(values, body.node))))
CaseBody(values, cases) ==
  IF values.at = "NULL" THEN SwitchCases(Resumed(panicSwitch(values)), cases)
  ELSE CaseRest("case", values.node.kids, Scoped(values), cases)

\* The cases up to the right brace.  Anything else gives the whole switch up.
SwitchCases(p, cases) ==
  IF ~Looking(p) THEN Overrun(p)
  ELSE CASE Token(p) = "case" -> CaseBody(CaseValues(Next1(p), <<>>), cases)
         [] Token(p) = "default" ->
              CaseRest("default", <<>>, Scoped(Expect(Next1(p), ":")), cases)
         [] Token(p) = "}" ->
              IF cases = <<>> THEN Fail(Next1(p)) ELSE Build(Next1(p), "cases", cases)
         [] OTHER -> panicStmt(Fail(p))

\* Without its left brace, the condition is freed and parsing goes on with it.
SwitchEnd(condition, cases) == Build(cases, "switch", <<condition>> \o cases.node.kids)
SwitchOpened(condition, opened) ==
  IF opened.at = "NULL" THEN Breaks(opened, "freed")
  ELSE SwitchEnd(condition, SwitchCases(opened, <<>>))
SwitchRest(condition) ==
  IF condition.at # "node" THEN condition
  ELSE SwitchOpened(condition.node, Expect(condition, "{"))

parseSwitchStmt(p) == SwitchRest(OrPanic(Condition(p)))

\* The values of a case, and of the cases that directly follow it.
CaseNext(colon, values) ==
  IF Sees(colon, {"case"}) THEN CaseValues(Next1(colon), values)
  ELSE Build(IF Looking(colon) THEN colon ELSE Overrun(colon), "values", values)
CaseColon(value, before) == CaseNext(Expect(value, ":"), Append(before, value.node))

CaseValues(p, before) == CaseColon(parseExtendedIntLiteral(p), before)

-----------------------------------------------------------------------------
(* Jumps and expressions. *)

parseBreakStmt(p) == Build(OrPanic(Expect(p, ";")), "break", <<>>)
parseContinueStmt(p) == Build(OrPanic(Expect(p, ";")), "continue", <<>>)

ReturnValue(value) ==
  Build(OrPanic(Expect(Resumed(value), ";")), "return",
        IF value.at = "NULL" THEN <<>> ELSE <<value.node>>)

\* A slip GrammarAccepted catches: every return has a value.
parseReturnStmtValued(p) == ReturnValue(parseExpression(p))

\* A value that could not be read does not matter when a semicolon follows.
parseReturnStmt(p) ==
  IF Sees(p, {";"}) THEN Build(Next1(p), "return", <<>>)
  ELSE ReturnValue(parseExpression(p))

ExpressionEnd(expression) ==
  Build(OrPanic(Expect(expression, ";")), "expression", <<expression.node>>)

parseExpressionStmt(p) == ExpressionEnd(parseExpression(p))

-----------------------------------------------------------------------------
(* Declarations. *)

DeclareVariable(p, variable) == Declare(p, variable.kids[1].op, Entry("variable", {}))
VariablesTyped(type, variables, typed) ==
  IF typed.at # "node" THEN typed
  ELSE Build(FoldLeft(DeclareVariable, typed, variables), "variables", <<type>> \o variables)
VariablesNamed(type, names) == VariablesTyped(type, names.node.kids, nodeToType(names, type))
VariablesRest(type) ==
  IF type.at # "node" THEN type
  ELSE VariablesNamed(type.node, OrPanic(Definitions(type, <<>>)))

\* The rest of a type that may have been started, the names with their initialisers, and
\* the variables, declared only if the type is one.  No type here means NULL, at once.
parseVarDefnStmt(p) ==
  VariablesRest(OrPanic(IF p.given THEN TypeModifiers([p EXCEPT !.given = FALSE])
                        ELSE parseType(p)))

DefinitionsRest(after, names) ==
  IF ~Looking(after) THEN Overrun(after)
  ELSE CASE Token(after) = "," -> Definitions(Next1(after), names)
         [] Token(after) = ";" -> Build(Next1(after), "names", names)
         [] OTHER -> Fail(after)
DefinitionValue(id, value, names) ==
  DefinitionsRest(value, Append(names, Node("variable", <<id, value.node>>)))
DefinitionName(id, names) ==
  IF Sees(id, {"="})
  THEN DefinitionValue(id.node.kids[1], parseAssignmentExpression(Next1(id)), names)
  ELSE DefinitionsRest(id, Append(names, Node("variable", <<id.node.kids[1]>>)))

\* The names of a variable definition, up to the semicolon.
Definitions(p, names) == DefinitionName(parseId(p), names)

\* A name already declared in this scope, other than as an opaque type.
Redeclares(p, name) ==
  LET top == p.scopes[Len(p.scopes)]
  IN name \in DOMAIN top /\ top[name].kind # "opaque"

\* Declare a type, or complete the opaque one of that name.
DeclareType(p, name, entry) ==
  IF name \in DOMAIN p.scopes[Len(p.scopes)] /\ ~Redeclares(p, name)
  THEN [p EXCEPT !.scopes[Len(p.scopes)][name] = entry]
  ELSE Declare(p, name, entry)

parseOpaqueDecl(p) ==
  LET name == parseId(p)
      ended == OrPanic(Expect(name, ";"))
  IN IF ended.at # "node" THEN ended
     ELSE Build(Declare(ended, name.node.kids[1].op, Entry("opaque", {})),
                "opaque", name.node.kids)

FieldsNext(field, fields) ==
  IF field.at = "NULL" THEN Fields(Resumed(panicStructOrUnion(field)), fields)
  ELSE Fields(field, Append(fields, field.node))
FieldOf(type) == FieldNames(type, type.node, <<>>)

\* The fields or options, up to the right brace.
Fields(p, fields) ==
  IF ~Looking(p) THEN Overrun(p)
  ELSE CASE Token(p) \in KeywordTypes \cup Identifiers ->
              FieldsNext(FieldOf(parseType(p)), fields)
         [] Token(p) = "}" ->
              IF fields = <<>> THEN Fail(Next1(p)) ELSE Build(Next1(p), "fields", fields)
         [] OTHER -> panicStmt(Fail(p))

\* The names of parseFieldOrOptionDecl.
FieldNames(p, type, names) ==
  LET id == parseId(p)
      all == Append(names, id.node.kids[1])
  IN IF ~Looking(id) THEN Overrun(id)
     ELSE CASE Token(id) = "," -> FieldNames(Next1(id), type, all)
            [] Token(id) = ";" -> Build(Next1(id), "field", <<type>> \o all)
            [] OTHER -> Fail(id)

\* An error in the type marks the file as erroneous.
Marked(typed) == IF typed.at = "NULL" THEN Complain(Resumed(typed)) ELSE typed
FinishField(p, field) == Marked(nodeToType(p, field.kids[1]))

\* finishStructStab and finishUnionStab: a field whose type is none, or whose name is taken,
\* marks the file as erroneous.
FinishFields(p, fields) ==
  LET names == UNION {{<<i, j>> : j \in 2 .. Len(fields[i].kids)} : i \in DOMAIN fields}
      distinct == \A x, y \in names : fields[x[1]].kids[x[2]] = fields[y[1]].kids[y[2]] => x = y
  IN FoldLeft(FinishField, IF distinct THEN p ELSE Complain(p), fields)

FieldsDeclared(ended, id, fields) ==
  IF Redeclares(ended, id.op) THEN DeclareType(ended, id.op, Entry("type", {}))
  ELSE FinishFields(DeclareType(ended, id.op, Entry("type", {})), fields)
FieldsEnded(kind, id, fields, ended) ==
  CASE ended.at = "NULL" -> Breaks(ended, "freed")
    [] Over(ended) -> ended
    [] OTHER -> Build(FieldsDeclared(ended, id, fields), kind, <<id>> \o fields)
FieldsRead(kind, id, fields) ==
  IF fields.at # "node" THEN fields
  ELSE FieldsEnded(kind, id, fields.node.kids, Expect(fields, ";"))
FieldsOpened(kind, id, opened) ==
  IF opened.at # "node" THEN opened ELSE FieldsRead(kind, id, Fields(opened, <<>>))
FieldsNamed(kind, name) ==
  FieldsOpened(kind, name.node.kids[1], OrPanic(Expect(name, "{")))

\* parseStructDecl and parseUnionDecl.  Without its semicolon, the declaration is freed and
\* then used.  The type is declared before its fields are finished.
parseFieldsDecl(p, kind) == FieldsNamed(kind, parseId(p))

\* The constants up to the right brace: their names, and the values read for them.  A name
\* followed by a wrong token is kept without a value, not even an empty one.
EnumConstants(p, names, values) ==
  LET named == Next1(p)
      again == Append(names, Leaf(Token(p)))
      assigned == parseExtendedIntLiteral(Next1(named))
      Done(q, ns, vs) ==
        Build(Next1(q), "constants", <<Node("names", ns), Node("values", vs)>>)
      Resume(q, vs) == EnumConstants(Resumed(panicEnum(q)), again, vs)
      After(q, vs) ==
        CASE ~Looking(q) -> Overrun(q)
          [] Sees(q, {","}) -> EnumConstants(Next1(q), again, vs)
          [] Sees(q, {"}"}) -> Done(q, again, vs)
          [] OTHER -> Resume(Fail(q), vs)
  IN IF ~Looking(p) THEN Overrun(p)
     ELSE CASE Token(p) \in Identifiers ->
                 IF Sees(named, {"="})
                 THEN IF assigned.at = "NULL" THEN Resume(assigned, Append(values, NoValue))
                      ELSE After(assigned, Append(values, assigned.node))
                 ELSE After(named, IF Sees(named, {",", "}"}) THEN Append(values, NoValue)
                                   ELSE values)
            [] Token(p) = "}" -> Done(p, names, values)
            [] OTHER -> panicStmt(Fail(p))

\* The node of an enumeration, from as many values as there are.
EnumNode(name, names, values) ==
  Node("enum", <<name>> \o
    [i \in DOMAIN names |->
       Node("constant", <<names[i]>> \o
         (IF i \in DOMAIN values /\ values[i] # NoValue THEN <<values[i]>> ELSE <<>>))])

\* finishEnumStab reads as many values as there are names, unless a name occurs twice, and
\* looks for a constant another depends on in this enumeration only.
FinishEnum(declared, names, values) ==
  IF ~IsInjective(names) THEN Complain(declared)
  ELSE IF Len(values) < Len(names) THEN Breaks(declared, "bounds")
  ELSE IF \E i \in DOMAIN values : values[i].op = "name" THEN Breaks(declared, "abort")
  ELSE declared
EnumDeclared(declared, known, names, values) ==
  IF known THEN declared ELSE FinishEnum(declared, names, values)
EnumEnded(id, names, values, ended) ==
  IF ended.at # "node" THEN ended
  ELSE EnumDeclared([DeclareType(ended, id.op, Entry("enum", {names[i].op : i \in DOMAIN names}))
                       EXCEPT !.node = EnumNode(id, names, values)],
                    Redeclares(ended, id.op), names, values)
EnumRead(id, constants) ==
  CASE constants.at # "node" -> constants
    [] constants.at = "node" /\ constants.node.kids[1].kids = <<>> -> panicStmt(Fail(constants))
    [] OTHER -> EnumEnded(id, constants.node.kids[1].kids, constants.node.kids[2].kids,
                          OrPanic(Expect(constants, ";")))
EnumOpened(id, opened) ==
  IF opened.at # "node" THEN opened ELSE EnumRead(id, EnumConstants(opened, <<>>, <<>>))
EnumNamed(name) == EnumOpened(name.node.kids[1], OrPanic(Expect(name, "{")))

parseEnumDecl(p) == EnumNamed(parseId(p))

TypedefDeclared(ended, id, type) ==
  IF Redeclares(ended, id.op) THEN DeclareType(ended, id.op, Entry("type", {}))
  ELSE Marked(nodeToType(DeclareType(ended, id.op, Entry("type", {})), type))
TypedefEnded(ended, id, type) ==
  IF ended.at # "node" THEN ended
  ELSE Build(TypedefDeclared(ended, id, type), "typedef", <<type, id>>)
TypedefNamed(type, name) ==
  TypedefEnded(OrPanic(Expect(name, ";")), name.node.kids[1], type)
TypedefTyped(type) == TypedefNamed(type.node, parseId(type))

parseTypedefDecl(p) == TypedefTyped(parseType(p))

-----------------------------------------------------------------------------
\* A statement beginning with a name is an expression or a definition by what the name is.
StatementOf(found) ==
  CASE found.at = "NULL" -> panicStmt(found)
    [] Over(found) -> found
    [] OTHER -> IF KindOf(found, found.node) \in {"variable", "enumconst"}
                THEN parseExpressionStmt([found EXCEPT !.given = TRUE])
                ELSE parseVarDefnStmt([found EXCEPT !.given = TRUE])
StatementNamed(named) ==
  IF named.at = "NULL" THEN Breaks(named, "null") ELSE StatementOf(Found(named))

NamedStmt(p) == StatementNamed(parseAnyId(p))

parseStmt(p) ==
  IF ~Looking(p) THEN Overrun(p)
  ELSE CASE Token(p) = "{" -> parseCompoundStmt(p)
         [] Token(p) = "if" -> parseIfStmt(Next1(p))
         [] Token(p) = "while" -> parseWhileStmt(Next1(p))
         [] Token(p) = "do" -> parseDoWhileStmt(Next1(p))
         [] Token(p) = "for" -> parseForStmt(Next1(p))
         [] Token(p) = "switch" -> parseSwitchStmt(Next1(p))
         [] Token(p) = "break" -> parseBreakStmt(Next1(p))
         [] Token(p) = "continue" -> parseContinueStmt(Next1(p))
         [] Token(p) = "return" -> parseReturnStmt(Next1(p))
         [] Token(p) \in KeywordTypes -> parseVarDefnStmt(p)
         [] Token(p) \in Identifiers -> NamedStmt(p)
         [] Token(p) \in ExpressionStarts -> parseExpressionStmt(p)
         [] Token(p) = "opaque" -> parseOpaqueDecl(Next1(p))
         [] Token(p) \in {"struct", "union"} -> parseFieldsDecl(Next1(p), Token(p))
         [] Token(p) = "enum" -> parseEnumDecl(Next1(p))
         [] Token(p) = "typedef" -> parseTypedefDecl(Next1(p))
         [] Token(p) = ";" -> Build(Next1(p), "empty", <<>>)
         [] OTHER -> panicStmt(Fail(p))
=============================================================================
