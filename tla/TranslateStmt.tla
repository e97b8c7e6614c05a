---------------------------- MODULE TranslateStmt ----------------------------
(***************************************************************************)
(* translateStmt and translateFile of translation/translation.c: control   *)
(* flow into blocks, switches into comparisons and jump tables, and the    *)
(* entry and exit blocks of a function.                                    *)
(*                                                                         *)
(* A case is [values, body]; the default is [values |-> {}, default |->    *)
(* TRUE, body].  break and continue never occur outside a statement that   *)
(* takes them (parser/miscCheck.c rejects them), so their label is never   *)
(* the 0 translateFile starts with.                                        *)
(***************************************************************************)
EXTENDS Translate

\* where: the labels a statement may leave through, and the temp that holds
\* the function's return value.
Inside(where, breakLabel, continueLabel) ==
  [where EXCEPT !.break = breakLabel, !.continue = continueLabel]

RECURSIVE TranslateStmt(_, _, _, _, _)

TranslateIf(s, label, next, where, st) ==
  IF "alternative" \notin DOMAIN s
  THEN TranslateStmt(s.consequent, st.nextId, next, where,
         TranslateExpressionPredicate(s.predicate, label, st.nextId, next,
                                      Fresh(st, 1)))
  ELSE TranslateStmt(s.alternative, st.nextId + 1, next, where,
         TranslateStmt(s.consequent, st.nextId, next, where,
           TranslateExpressionPredicate(s.predicate, label, st.nextId,
                                        st.nextId + 1, Fresh(st, 2))))

TranslateWhile(s, label, next, where, st) ==
  TranslateStmt(s.body, st.nextId, label, Inside(where, next, label),
    TranslateExpressionPredicate(s.condition, label, st.nextId, next,
                                 Fresh(st, 1)))

\* A slip BlockedMeaningKept catches: continue skips the condition.
DoWhileContinueToBody(s, label, next, where, st) ==
  TranslateExpressionPredicate(s.condition, st.nextId, label, next,
    TranslateStmt(s.body, label, st.nextId, Inside(where, next, label),
                  Fresh(st, 1)))

TranslateDoWhile(s, label, next, where, st) ==
  TranslateExpressionPredicate(s.condition, st.nextId, label, next,
    TranslateStmt(s.body, label, st.nextId, Inside(where, next, st.nextId),
                  Fresh(st, 1)))

\* A slip TargetsExist catches: without an increment expression the body still
\* leads to the increment's block.
ForAlwaysIncrementing(s, label, next, where, st) ==
  LET conditionLabel == st.nextId
      s1 == TranslateStmt(s.initializer, label, conditionLabel, where,
                          Fresh(st, 1))
      bodyLabel == s1.nextId
      s2 == TranslateExpressionPredicate(s.condition, conditionLabel, bodyLabel,
                                         next, Fresh(s1, 1))
      s3 == TranslateStmt(s.body, bodyLabel, s2.nextId,
                          Inside(where, next, s2.nextId), Fresh(s2, 1))
  IN  IF "increment" \in DOMAIN s
      THEN TranslateExpressionVoid(s.increment, s2.nextId, conditionLabel, s3)
      ELSE s3

TranslateFor(s, label, next, where, st) ==
  LET conditionLabel == st.nextId
      s1 == TranslateStmt(s.initializer, label, conditionLabel,
                          [where EXCEPT !.return = 0, !.break = 0,
                                        !.continue = 0], Fresh(st, 1))
      bodyLabel == s1.nextId
      s2 == TranslateExpressionPredicate(s.condition, conditionLabel, bodyLabel,
                                         next, Fresh(s1, 1))
      incrementLabel == s2.nextId
  IN  IF "increment" \in DOMAIN s
      THEN TranslateExpressionVoid(s.increment, incrementLabel, conditionLabel,
             TranslateStmt(s.body, bodyLabel, incrementLabel,
                           Inside(where, next, incrementLabel), Fresh(s2, 1)))
      ELSE TranslateStmt(s.body, bodyLabel, conditionLabel,
                         Inside(where, next, conditionLabel), s2)
-----------------------------------------------------------------------------
(* switch *)

IsDefault(c) == "default" \in DOMAIN c

\* The cases' bodies in order, each falling through to the one after it.
TranslateCases(cases, caseLabels, next, where, st) ==
  FoldLeft(LAMBDA s, i :
             TranslateStmt(cases[i].body, caseLabels[i],
                           IF i = Len(cases) THEN next ELSE caseLabels[i + 1],
                           Inside(where, next, where.continue), s),
           st, [i \in 1 .. Len(cases) |-> i])

\* The label values outside every case go to.  The code stores the index of
\* the default case, counted from 0, and takes 0 to mean there is none.
DefaultLabel(cases, caseLabels, next) ==
  LET d == {i \in DOMAIN cases : IsDefault(cases[i])}
      defaultLabel == IF d = {} THEN 0 ELSE (CHOOSE i \in d : TRUE) - 1
  IN  IF defaultLabel = 0 THEN next ELSE defaultLabel

\* The (value, label) pairs of all cases, sorted by value.
JumpTableOf(cases, caseLabels) ==
  SetToSortSeq({[value |-> v, label |-> caseLabels[i]] :
                  <<i, v>> \in {p \in (DOMAIN cases) \X
                                  UNION {cases[j].values : j \in DOMAIN cases} :
                                  p[2] \in cases[p[1]].values}},
               LAMBDA a, b : a.value < b.value)

\* The last entry of the run of consecutive values that starts at entry i.
RunEnd(table, i) ==
  CHOOSE e \in i .. Len(table) :
    /\ \A j \in i .. e - 1 : table[j + 1].value = table[j].value + 1
    /\ e = Len(table) \/ table[e + 1].value # table[e].value + 1

\* Dispatch on the entries from i on, starting in a block labelled curr: one
\* comparison for a value on its own, a range check and an indexed jump for a
\* run of consecutive values.
RECURSIVE TranslateEntries(_, _, _, _, _, _, _)
TranslateEntries(o, signed, table, i, curr, default, st) ==
  LET end == RunEnd(table, i)
      isLast == end = Len(table)
      next == IF isLast THEN default ELSE st.nextId
      n == IF isLast THEN st.nextId ELSE st.nextId + 1
      tableLabel == n
      gtFallthroughLabel == n + 1
      tableDerefLabel == n + 2
      offset == Temp(n + 3)
      multipliedOffset == Temp(n + 4)
      target == Temp(n + 5)
      castOffset == Temp(n + 6)
      singleton ==
        PutBlock(Fresh(st, n - st.nextId), curr,
                 <<CJUMP("J2E", table[i].label, next, o,
                         Const(table[i].value))>>)
      indexed ==
        PutBlock(PutBlock(PutBlock(
          [Fresh(st, n + 7 - st.nextId) EXCEPT
             !.tables = @ @@ (tableLabel :>
                          [k \in 1 .. end - i + 1 |-> table[i + k - 1].label])],
          curr, <<CJUMP(IF signed THEN "J2L" ELSE "J2B", default,
                        gtFallthroughLabel, o, Const(table[i].value))>>),
          gtFallthroughLabel,
          <<CJUMP(IF signed THEN "J2G" ELSE "J2A", next, tableDerefLabel, o,
                  Const(table[end].value))>>),
          tableDerefLabel,
          <<BINOP("SUB", offset, o, Const(table[i].value)),
            UNOP(IF signed THEN "SX" ELSE "ZX", castOffset, offset),
            BINOP(IF signed THEN "SMUL" ELSE "UMUL", multipliedOffset,
                  castOffset, Const(8)),
            BINOP("ADD", target, multipliedOffset, Local(tableLabel)),
            JUMPTABLE(target, tableLabel)>>)
  IN  IF i > Len(table) THEN st
      ELSE TranslateEntries(o, signed, table, end + 1, next, default,
                            IF end = i THEN singleton ELSE indexed)

TranslateSwitch(s, label, next, where, st) ==
  LET jumpSectionLabel == st.nextId
      v == TranslateExpressionValue(s.condition, label, jumpSectionLabel,
                                    Fresh(st, 1))
      caseLabels == [i \in DOMAIN s.cases |-> v.st.nextId + i - 1]
      s1 == TranslateCases(s.cases, caseLabels, next, where,
                           Fresh(v.st, Len(s.cases)))
      s2 == TranslateEntries(Copy(v.val), s.signed,
                             JumpTableOf(s.cases, caseLabels), 1,
                             jumpSectionLabel,
                             DefaultLabel(s.cases, caseLabels, next), s1)
  IN  FreeOperand(s2, v.val)
-----------------------------------------------------------------------------
\* A compound statement's statements, each leading to the one after it; every
\* label but the first and the last is taken when its statement is reached.
TranslateCompound(stmts, label, next, where, st) ==
  IF stmts = << >> THEN PutBlock(st, label, <<JUMP(next)>>)
  ELSE FoldLeft(LAMBDA acc, i :
                  IF i = Len(stmts)
                  THEN [acc EXCEPT !.st =
                          TranslateStmt(stmts[i], acc.curr, next, where, @)]
                  ELSE [curr |-> acc.st.nextId,
                        st |-> TranslateStmt(stmts[i], acc.curr, acc.st.nextId,
                                             where, Fresh(acc.st, 1))],
                [curr |-> label, st |-> st],
                [i \in 1 .. Len(stmts) |-> i]).st

\* A returned value is moved to the return value's temp in a block of its own.
TranslateReturn(s, label, where, st) ==
  IF "value" \notin DOMAIN s THEN PutBlock(st, label, <<JUMP(where.return)>>)
  ELSE LET v == TranslateExpressionValue(s.value, label, st.nextId, Fresh(st, 1))
       IN  PutBlock(v.st, st.nextId,
                    <<MOVE(Temp(where.value), v.val), JUMP(where.return)>>)

\* One variable of a definition: it gets its temp when that is translated.  The
\* last one leads to next; any other takes a label for the one after it, and
\* frees the operand it has just moved to a variable that does not escape.
TranslateName(name, isLast, next, acc) ==
  LET before == IF isLast THEN acc.st ELSE Fresh(acc.st, 1)
      after == IF isLast THEN next ELSE acc.st.nextId
      moveLabel == before.nextId
      v == TranslateExpressionValue(name.initializer, acc.curr, moveLabel,
                                    Fresh(before, 1))
      o == Named(v.val, moveLabel)
      moved == PutBlock(Fresh(v.st, 1), moveLabel,
                        <<MOVE(Temp(v.st.nextId), o), JUMP(after)>>)
      frees == ~isLast /\ "escapes" \notin DOMAIN name
  IN  [curr |-> after,
       st |-> IF "initializer" \notin DOMAIN name
              THEN [PutBlock(Fresh(before, 1), acc.curr,
                             <<MARK_TEMP("UNINITIALIZED", Temp(before.nextId)),
                               JUMP(after)>>)
                      EXCEPT !.env[name.x] = before.nextId]
              ELSE [IF frees THEN FreeOperand(moved, o) ELSE moved
                      EXCEPT !.env[name.x] = v.st.nextId]]

TranslateVarDefn(names, label, next, st) ==
  FoldLeft(LAMBDA acc, i : TranslateName(names[i], i = Len(names), next, acc),
           [curr |-> label, st |-> st], [i \in 1 .. Len(names) |-> i]).st

TranslateStmt(s, label, next, where, st) ==
  CASE s.t = "compound" ->
         TranslateCompound(s.stmts, label, next, where, st)
    [] s.t = "if" -> TranslateIf(s, label, next, where, st)
    [] s.t = "while" -> TranslateWhile(s, label, next, where, st)
    [] s.t = "dowhile" -> TranslateDoWhile(s, label, next, where, st)
    [] s.t = "for" -> TranslateFor(s, label, next, where, st)
    [] s.t = "switch" -> TranslateSwitch(s, label, next, where, st)
    [] s.t = "break" -> PutBlock(st, label, <<JUMP(where.break)>>)
    [] s.t = "continue" -> PutBlock(st, label, <<JUMP(where.continue)>>)
    [] s.t = "return" -> TranslateReturn(s, label, where, st)
    [] s.t = "vardefn" -> TranslateVarDefn(s.names, label, next, st)
    [] s.t = "expr" -> TranslateExpressionVoid(s.e, label, next, st)
    [] s.t = "null" -> PutBlock(st, label, <<JUMP(next)>>)

\* generateFunctionEntry and generateFunctionExit for a function without
\* parameters, that returns a value in a register or nothing at all.
FunctionEntry(label, next, st) == PutBlock(st, label, <<JUMP(next)>>)

FunctionExit(label, returnsValue, returnValueTemp, st) ==
  PutBlock(st, label,
    IF returnsValue THEN <<MOVE(REG, Temp(returnValueTemp)), RETURN>>
                    ELSE <<RETURN>>)

\* One function definition of a file that has these tables already and whose
\* next free identifier is nextId; vars are the local variables of the body.
TranslateFunction(body, returnsValue, tables, nextId, vars) ==
  LET returnValueTemp == nextId + 1
      bodyLabel == nextId + 2
      exitLabel == nextId + 3
      empty == [blocks |-> << >>, tables |-> tables, nextId |-> nextId,
                env |-> [x \in vars |-> 0], freed |-> {}]
      entered == FunctionEntry(nextId + 4, bodyLabel, Fresh(empty, 5))
      where == [return |-> exitLabel, value |-> returnValueTemp,
                break |-> 0, continue |-> 0]
  IN  FunctionExit(exitLabel, returnsValue, returnValueTemp,
                   TranslateStmt(body, bodyLabel, exitLabel, where, entered))

\* translateFile, function by function: what each is translated to, with the
\* file's tables and nextId after it.
TranslateFile(f, vars) ==
  FoldLeft(LAMBDA done, g :
             LET before == IF done = << >> THEN [tables |-> << >>, nextId |-> 1]
                           ELSE Last(done)
             IN  Append(done, TranslateFunction(g.body, g.returnsValue,
                                before.tables, before.nextId, vars)),
           << >>, f)
=============================================================================
