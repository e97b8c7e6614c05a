------------------------------ MODULE Translate ------------------------------
(***************************************************************************)
(* translation/translation.c: statements and expressions into basic blocks.*)
(*                                                                         *)
(* Abstract syntax is a tree of records tagged by "t".  Expressions: every *)
(* operator but . -> and [], local variables, calls without arguments, and *)
(* literals of scalar types.  Every value is a signed int or a bool, so    *)
(* the casts of the code are the identity here, and an operator is         *)
(* translated as for two ints.  Statements: all of translateStmt's.        *)
(*                                                                         *)
(* The file being translated is a record st: the blocks built so far for   *)
(* the function, the read-only jump tables of the file, nextId, env, the   *)
(* temp each variable's symbol table entry holds, and freed, the operand   *)
(* objects that were freed while an instruction may hold them.  The        *)
(* operators thread st in the order the code calls fresh() and BLOCK(), so *)
(* labels and temps get the numbers the compiler gives them.               *)
(***************************************************************************)
EXTENDS IR, SequencesExt

PutBlock(st, label, instructions) ==
  [st EXCEPT !.blocks = Append(@, BLOCK(label, instructions))]

\* A block appended while still empty, and filled when later blocks exist.
FillBlock(st, k, instructions) ==
  [st EXCEPT !.blocks[k].instructions = instructions]

\* n calls of fresh: the identifiers are st.nextId .. st.nextId + n - 1.
Fresh(st, n) == [st EXCEPT !.nextId = @ + n]

\* irOperandFree
FreeOperand(st, operand) == [st EXCEPT !.freed = @ \cup ObjectOf(operand)]

Value(st, operand) == [st |-> st, val |-> operand]
-----------------------------------------------------------------------------
(* Operators *)

\* BINOP_TRANSLATORS for two ints.  The table has the bitwise operators in
\* another order than BinOpType, and the translators of the orderings hand
\* translateComparison the signed operator for unsigned types and the unsigned
\* one for signed types.
BinopOp ==
  [mul |-> "SMUL", div |-> "SDIV", mod |-> "SMOD", add |-> "ADD", sub |-> "SUB",
   lshift |-> "SLL", arshift |-> "SAR", lrshift |-> "SLR",
   bitand |-> "AND", bitor |-> "XOR", bitxor |-> "OR",
   eq |-> "E", neq |-> "NE", lt |-> "B", gt |-> "A", lteq |-> "BE", gteq |-> "AE"]

\* The entries of BINOP_TRANSLATORS for the compound assignments.
AssignOp ==
  [mul |-> "SMUL", div |-> "SDIV", mod |-> "SMOD", add |-> "ADD", sub |-> "SUB",
   lshift |-> "SLL", arshift |-> "SAR", lrshift |-> "SLR",
   bitand |-> "AND", bitxor |-> "XOR", bitor |-> "OR"]

\* binopToCjump for two ints.
BinopToCjump ==
  [eq |-> "J2E", neq |-> "J2NE", lt |-> "J2L", gt |-> "J2G", lteq |-> "J2LE",
   gteq |-> "J2GE"]

\* UNOP_TRANSLATORS for an int or a bool.
TranslateUnop(op, out, target) ==
  CASE op \in {"preinc", "postinc"} -> BINOP("ADD", out, target, Const(1))
    [] op \in {"predec", "postdec"} -> BINOP("SUB", out, target, Const(1))
    [] op \in {"neg", "negassign"} -> UNOP("NEG", out, target)
    [] op \in {"lnot", "lnotassign"} -> UNOP("LNOT", out, target)
    [] op \in {"bitnot", "bitnotassign"} -> UNOP("NOT", out, target)

PreModify == {"preinc", "predec"}
PostModify == {"postinc", "postdec", "negassign", "lnotassign", "bitnotassign"}
-----------------------------------------------------------------------------
(* Expressions *)

\* The four contexts an expression is translated in: for its value, for its
\* effects only, to choose between two labels, or for the place it names.
\* They are one recursive operator; exits are the labels control leaves
\* through.
RECURSIVE TranslateExpression(_, _, _, _, _)

TranslateExpressionValue(e, label, next, st) ==
  TranslateExpression("value", e, label, <<next>>, st)
TranslateExpressionVoid(e, label, next, st) ==
  TranslateExpression("void", e, label, <<next>>, st).st
TranslateExpressionPredicate(e, label, trueLabel, falseLabel, st) ==
  TranslateExpression("predicate", e, label, <<trueLabel, falseLabel>>, st).st
TranslateExpressionLValue(e, label, next, st) ==
  TranslateExpression("lvalue", e, label, <<next>>, st)

\* An l-value is the temp of a variable, or the address in a temp.
LValue(st, mem, operand) == [st |-> st, mem |-> mem, operand |-> operand]

TranslateLValueLoad(lvalue, dest) ==
  IF lvalue.mem THEN MEM_LOAD(dest, Copy(lvalue.operand))
                ELSE MOVE(dest, Copy(lvalue.operand))
TranslateLValueStore(lvalue, src) ==
  IF lvalue.mem THEN MEM_STORE(Copy(lvalue.operand), src)
                ELSE MOVE(Copy(lvalue.operand), src)

\* lvalueFree, everywhere but where the l-value is what was asked for.
FreeLValue(assigned) == FreeOperand(assigned.st, assigned.operand)
ValueFreeingLValue(assigned) == Value(FreeLValue(assigned), assigned.val)

\* What an assignment leaves: the state, the value assigned, the l-value.
Assigned(st, val, lv) ==
  [st |-> st, val |-> val, mem |-> lv.mem, operand |-> lv.operand]

\* Where control goes after the block that uses a value: on, or by the value.
LeaveWith(exits, value) ==
  IF Len(exits) = 1 THEN JUMP(exits[1]) ELSE BJUMP("J2NZ", exits[1], exits[2], value)

\* The assignment shared by the contexts an expression is translated in:
\* l-value, then right hand side, then a block that stores and ends with a
\* jump.  A compound assignment loads the old value in that block and operates
\* on it into a copy of the result.  The store gets the operand itself, and so
\* does whoever asked for the value.
TranslateAssign(e, label, exits, st) ==
  LET lv == TranslateExpressionLValue(e.lhs, label, st.nextId, Fresh(st, 1))
      assignmentLabel == lv.st.nextId
      rhs == TranslateExpressionValue(e.rhs, st.nextId, assignmentLabel,
                                      Fresh(lv.st, 1))
      value == Named(rhs.val, assignmentLabel)
      rawLhs == Temp(rhs.st.nextId)
      out == Temp(rhs.st.nextId + 1)
      result == Named(out, assignmentLabel)
  IN  IF e.t = "assign"
      THEN Assigned(PutBlock(rhs.st, assignmentLabel,
                       <<TranslateLValueStore(lv, value), LeaveWith(exits, value)>>),
                    value, lv)
      ELSE Assigned(PutBlock(Fresh(rhs.st, 2), assignmentLabel,
                       <<TranslateLValueLoad(lv, rawLhs),
                         BINOP(AssignOp[e.op], Copy(out), rawLhs, rhs.val),
                         TranslateLValueStore(lv, result), LeaveWith(exits, result)>>),
                    result, lv)

\* ++, --, and the in-place unary operators: load, operate, store.
TranslateModify(e, label, next, st) ==
  LET lv == TranslateExpressionLValue(e.target, label, st.nextId, Fresh(st, 1))
      value == Temp(lv.st.nextId)
      modified == Temp(lv.st.nextId + 1)
  IN  Assigned(PutBlock(Fresh(lv.st, 2), st.nextId,
                 <<TranslateLValueLoad(lv, value),
                   TranslateUnop(e.t, modified, value),
                   TranslateLValueStore(lv, modified), JUMP(next)>>),
               IF e.t \in PreModify THEN modified ELSE value, lv)

\* &&= and ||= where their value is not needed: the right hand side is
\* evaluated and stored unless the left hand side decides, and then control
\* leaves through shortExit.
TranslateLogicalAssign(e, label, shortExit, exits, st) ==
  LET lv == TranslateExpressionLValue(e.lhs, label, st.nextId, Fresh(st, 1))
      rhsLabel == lv.st.nextId
      lhsVal == Temp(lv.st.nextId + 1)
      assignmentLabel == lv.st.nextId + 2
      s1 == PutBlock(Fresh(lv.st, 3), st.nextId,
              <<TranslateLValueLoad(lv, lhsVal),
                BJUMP(IF e.t = "landassign" THEN "J2Z" ELSE "J2NZ",
                      shortExit, rhsLabel, lhsVal)>>)
      rhs == TranslateExpressionValue(e.rhs, rhsLabel, assignmentLabel, s1)
      value == Named(rhs.val, assignmentLabel)
  IN  LValue(PutBlock(rhs.st, assignmentLabel,
                      <<TranslateLValueStore(lv, value), LeaveWith(exits, value)>>),
             lv.mem, lv.operand)

\* &&= and ||= for their value.
TranslateLogicalAssignValue(e, label, next, st) ==
  LET out == Temp(st.nextId)
      shortCircuitLabel == st.nextId + 1
      lv == TranslateExpressionLValue(e.lhs, label, shortCircuitLabel,
                                      Fresh(st, 2))
      lhsLabel == lv.st.nextId
      rhsLabel == lhsLabel + 1
      lhsVal == Temp(lhsLabel + 2)
      assignmentLabel == lhsLabel + 3
      s1 == PutBlock(PutBlock(Fresh(lv.st, 4), shortCircuitLabel,
               <<TranslateLValueLoad(lv, lhsVal),
                 BJUMP(IF e.t = "landassign" THEN "J2Z" ELSE "J2NZ",
                       lhsLabel, rhsLabel, lhsVal)>>),
               lhsLabel, <<MOVE(out, lhsVal), JUMP(next)>>)
      rhs == TranslateExpressionValue(e.rhs, rhsLabel, assignmentLabel, s1)
  IN  Value(PutBlock(FreeOperand(rhs.st, lv.operand), assignmentLabel,
                     <<TranslateLValueStore(lv, Copy(rhs.val)),
                       MOVE(out, rhs.val), JUMP(next)>>), out)

\* && and || for their value.  The comparison of the code is with
\* BO_LANDASSIGN, an operator that never reaches this arm.
ShortCircuitJump(op) == IF op = "landassign" THEN "J2Z" ELSE "J2NZ"

TranslateShortCircuitValue(e, label, next, st) ==
  LET out == Temp(st.nextId)
      shortCircuitLabel == st.nextId + 1
      lhs == TranslateExpressionValue(e.lhs, label, shortCircuitLabel,
                                      Fresh(st, 2))
      lhsLabel == lhs.st.nextId
      rhsLabel == lhsLabel + 1
      assignmentLabel == lhsLabel + 2
      s1 == PutBlock(PutBlock(Fresh(lhs.st, 3), shortCircuitLabel,
               <<BJUMP(ShortCircuitJump(e.t), lhsLabel, rhsLabel,
                       Copy(lhs.val))>>),
               lhsLabel, <<MOVE(out, lhs.val), JUMP(next)>>)
      rhs == TranslateExpressionValue(e.rhs, rhsLabel, assignmentLabel, s1)
  IN  Value(PutBlock(rhs.st, assignmentLabel,
                     <<MOVE(out, rhs.val), JUMP(next)>>), out)

\* Both operands from left to right; what is done with them comes in the block
\* labelled label.
TranslateOperands(e, label, st) ==
  LET lhs == TranslateExpressionValue(e.lhs, label, st.nextId, Fresh(st, 1))
      rhs == TranslateExpressionValue(e.rhs, st.nextId, lhs.st.nextId,
                                      Fresh(lhs.st, 1))
  IN  [st |-> rhs.st, label |-> lhs.st.nextId, lhs |-> lhs.val, rhs |-> rhs.val]

BinopOn(o, op, next) ==
  Value(PutBlock(Fresh(o.st, 1), o.label,
                 <<BINOP(op, Temp(o.st.nextId), o.lhs, o.rhs), JUMP(next)>>),
        Temp(o.st.nextId))
CjumpOn(o, op, trueLabel, falseLabel) ==
  PutBlock(o.st, o.label, <<CJUMP(op, trueLabel, falseLabel, o.lhs, o.rhs)>>)

TranslateTernaryValue(e, label, next, st) ==
  LET out == Temp(st.nextId)
      consequentLabel == st.nextId + 1
      alternativeLabel == st.nextId + 2
      s1 == TranslateExpressionPredicate(e.p, label, consequentLabel,
                                         alternativeLabel, Fresh(st, 3))
      c == TranslateExpressionValue(e.c, consequentLabel, s1.nextId,
                                    Fresh(s1, 1))
      s2 == PutBlock(c.st, s1.nextId, <<MOVE(out, c.val), JUMP(next)>>)
      a == TranslateExpressionValue(e.a, alternativeLabel, s2.nextId,
                                    Fresh(s2, 1))
  IN  Value(PutBlock(a.st, s2.nextId, <<MOVE(out, a.val), JUMP(next)>>), out)

\* A call loads the function's address in a block of its own; the call block
\* starts with the stack allocation, a NOP when nothing is passed on the stack.
TranslateCall(e, label, next, st) ==
  LET callLabel == st.nextId + 1
      fun == Temp(st.nextId + 2)
      ret == Temp(st.nextId + 3)
      s1 == PutBlock(Fresh(st, 4), label,
                     <<MOVE(fun, Global(e.f)), JUMP(callLabel)>>)
  IN  Value(PutBlock(s1, callLabel,
                     <<NOP, CALL(fun), MOVE(ret, REG), JUMP(next)>>), ret)

\* A block that moves what was asked for to a temp.
TranslateLoaded(src, label, next, st) ==
  Value(PutBlock(Fresh(st, 1), label, <<MOVE(Temp(st.nextId), src), JUMP(next)>>),
        Temp(st.nextId))

ExpressionValue(e, label, next, st) ==
  CASE e.t \in {"bool", "int", "sizeof"} ->
         Value(PutBlock(st, label, <<JUMP(next)>>), Const(e.v))
    [] e.t = "enum" -> TranslateLoaded(Const(e.v), label, next, st)
    [] e.t = "id" -> TranslateLoaded(Temp(st.env[e.x]), label, next, st)
    [] e.t = "call" -> TranslateCall(e, label, next, st)
    [] e.t = "parens" -> TranslateExpressionValue(e.target, label, next, st)
    [] e.t = "seq" ->
         TranslateExpressionValue(e.rhs, st.nextId, next,
           TranslateExpressionVoid(e.lhs, label, st.nextId, Fresh(st, 1)))
    [] e.t \in {"land", "lor"} -> TranslateShortCircuitValue(e, label, next, st)
    [] e.t \in {"landassign", "lorassign"} ->
         TranslateLogicalAssignValue(e, label, next, st)
    [] e.t \in {"assign", "opassign"} ->
         ValueFreeingLValue(TranslateAssign(e, label, <<next>>, st))
    [] e.t \in DOMAIN BinopOp ->
         BinopOn(TranslateOperands(e, label, st), BinopOp[e.t], next)
    [] e.t = "cast" ->
         LET v == TranslateExpressionValue(e.target, label, st.nextId, Fresh(st, 1))
         IN  Value(PutBlock(v.st, st.nextId, <<JUMP(next)>>), v.val)
    [] e.t = "ternary" -> TranslateTernaryValue(e, label, next, st)
    [] e.t \in {"neg", "lnot", "bitnot"} ->
         LET v == TranslateExpressionValue(e.target, label, st.nextId,
                                           Fresh(st, 1))
             out == Temp(v.st.nextId)
         IN  Value(PutBlock(Fresh(v.st, 1), st.nextId,
                            <<TranslateUnop(e.t, out, v.val), JUMP(next)>>), out)
    [] e.t \in PreModify \cup PostModify ->
         ValueFreeingLValue(TranslateModify(e, label, next, st))
    [] e.t = "addrof" ->
         LET lv == TranslateExpressionLValue(e.target, label, st.nextId,
                                             Fresh(st, 1))
             result == Temp(lv.st.nextId)
         IN  Value(PutBlock(Fresh(FreeLValue(lv), 1), st.nextId,
                     <<IF lv.mem
                       THEN BINOP("ADD", result, Copy(lv.operand), Const(0))
                       ELSE UNOP("ADDROF", result, Copy(lv.operand)), JUMP(next)>>),
                   result)
    [] e.t = "deref" ->
         LET derefLabel == st.nextId
             result == Temp(st.nextId + 1)
             s1 == PutBlock(Fresh(st, 2), derefLabel, << >>)
             v == TranslateExpressionValue(e.target, label, derefLabel, s1)
         IN  Value(FillBlock(v.st, Len(s1.blocks),
                             <<MEM_LOAD(result, v.val), JUMP(next)>>), result)

ExpressionLValue(e, label, next, st) ==
  CASE e.t = "id" ->
         LValue(PutBlock(st, label, <<JUMP(next)>>), FALSE, Temp(st.env[e.x]))
    [] e.t = "deref" ->
         LET v == TranslateExpressionValue(e.target, label, next, st)
         IN  LValue(v.st, TRUE, v.val)
    [] e.t = "parens" -> TranslateExpressionLValue(e.target, label, next, st)
    [] e.t = "seq" ->
         TranslateExpressionLValue(e.rhs, st.nextId, next,
           TranslateExpressionVoid(e.lhs, label, st.nextId, Fresh(st, 1)))
    [] e.t \in {"assign", "opassign"} ->
         TranslateAssign(e, label, <<next>>, st)
    [] e.t \in {"landassign", "lorassign"} ->
         TranslateLogicalAssign(e, label, next, <<next>>, st)
    [] e.t \in PreModify -> TranslateModify(e, label, next, st)

\* A predicate with no shorter form: its value, tested in a block that is put
\* in the list before the blocks that compute the value.
TranslateVariablePredicate(e, label, trueLabel, falseLabel, st) ==
  LET s1 == PutBlock(Fresh(st, 1), st.nextId, << >>)
      v == TranslateExpressionValue(e, label, st.nextId, s1)
  IN  FillBlock(v.st, Len(s1.blocks),
                <<BJUMP("J2NZ", trueLabel, falseLabel, v.val)>>)

ExpressionPredicate(e, label, trueLabel, falseLabel, st) ==
  CASE e.t = "bool" ->
         PutBlock(st, label, <<JUMP(IF e.v = 1 THEN trueLabel ELSE falseLabel)>>)
    [] e.t = "parens" ->
         TranslateExpressionPredicate(e.target, label, trueLabel, falseLabel, st)
    [] e.t = "seq" ->
         TranslateExpressionPredicate(e.rhs, st.nextId, trueLabel, falseLabel,
           TranslateExpressionVoid(e.lhs, label, st.nextId, Fresh(st, 1)))
    [] e.t \in {"land", "lor"} ->
         TranslateExpressionPredicate(e.rhs, st.nextId, trueLabel, falseLabel,
           TranslateExpressionPredicate(e.lhs, label,
             IF e.t = "land" THEN st.nextId ELSE trueLabel,
             IF e.t = "land" THEN falseLabel ELSE st.nextId, Fresh(st, 1)))
    [] e.t = "lnot" ->
         TranslateExpressionPredicate(e.target, label, falseLabel, trueLabel, st)
    [] e.t = "ternary" ->
         TranslateExpressionPredicate(e.a, st.nextId + 1, trueLabel, falseLabel,
           TranslateExpressionPredicate(e.c, st.nextId, trueLabel, falseLabel,
             TranslateExpressionPredicate(e.p, label, st.nextId, st.nextId + 1,
                                          Fresh(st, 2))))
    [] e.t = "assign" ->
         FreeLValue(TranslateAssign(e, label, <<trueLabel, falseLabel>>, st))
    [] e.t \in {"landassign", "lorassign"} ->
         FreeLValue(TranslateLogicalAssign(e, label,
           IF e.t = "landassign" THEN falseLabel ELSE trueLabel,
           <<trueLabel, falseLabel>>, st))
    [] e.t \in DOMAIN BinopToCjump ->
         CjumpOn(TranslateOperands(e, label, st), BinopToCjump[e.t],
                 trueLabel, falseLabel)
    [] e.t \in {"call", "id", "deref", "cast", "lnotassign"} ->
         TranslateVariablePredicate(e, label, trueLabel, falseLabel, st)

\* A volatile variable is read though its value is not used.
TranslateVolatile(e, label, next, st) ==
  LET s1 == PutBlock(Fresh(st, 1), st.nextId, << >>)
      v == TranslateExpressionValue(e, label, st.nextId, s1)
  IN  FillBlock(v.st, Len(s1.blocks), <<MARK_TEMP("VOLATILE", v.val), JUMP(next)>>)

ExpressionVoid(e, label, next, st) ==
  CASE e.t = "id" /\ "volatile" \in DOMAIN e ->
         TranslateVolatile(e, label, next, st)
    [] \/ e.t \in {"bool", "int", "sizeof", "enum"}
       \/ e.t = "id" /\ "volatile" \notin DOMAIN e ->
         PutBlock(st, label, <<JUMP(next)>>)
    [] e.t = "call" -> TranslateCall(e, label, next, st).st
    [] e.t \in {"seq"} \cup DOMAIN BinopOp ->
         TranslateExpressionVoid(e.rhs, st.nextId, next,
           TranslateExpressionVoid(e.lhs, label, st.nextId, Fresh(st, 1)))
    [] e.t \in {"land", "lor"} ->
         TranslateExpressionVoid(e.rhs, st.nextId, next,
           TranslateExpressionPredicate(e.lhs, label,
             IF e.t = "land" THEN st.nextId ELSE next,
             IF e.t = "land" THEN next ELSE st.nextId, Fresh(st, 1)))
    [] e.t \in {"landassign", "lorassign"} ->
         FreeLValue(TranslateLogicalAssign(e, label, next, <<next>>, st))
    [] e.t \in {"addrof", "deref", "neg", "lnot", "bitnot", "parens", "cast"} ->
         TranslateExpressionVoid(e.target, label, next, st)
    [] e.t \in PreModify \cup PostModify ->
         FreeLValue(TranslateModify(e, label, next, st))
    [] e.t = "ternary" ->
         TranslateExpressionVoid(e.a, st.nextId + 1, next,
           TranslateExpressionVoid(e.c, st.nextId, next,
             TranslateExpressionPredicate(e.p, label, st.nextId, st.nextId + 1,
                                          Fresh(st, 2))))
    [] e.t \in {"assign", "opassign"} ->
         FreeLValue(TranslateAssign(e, label, <<next>>, st))

TranslateExpression(context, e, label, exits, st) ==
  CASE context = "value" -> ExpressionValue(e, label, exits[1], st)
    [] context = "lvalue" -> ExpressionLValue(e, label, exits[1], st)
    [] context = "void" -> Value(ExpressionVoid(e, label, exits[1], st), Const(0))
    [] context = "predicate" ->
         Value(ExpressionPredicate(e, label, exits[1], exits[2], st), Const(0))
=============================================================================
