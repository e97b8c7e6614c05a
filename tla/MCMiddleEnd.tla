----------------------------- MODULE MCMiddleEnd -----------------------------
(* MiddleEnd on files of one and two small functions. *)
EXTENDS MiddleEnd

P == INSTANCE Programs

Procedure(s) ==
  [body |-> P!Body(s), returnsValue |-> FALSE,
   calls |-> IF s.t = "switch" THEN "number" ELSE "boolean"]
Valued(s) == [body |-> s, returnsValue |-> TRUE, calls |-> "boolean"]

OnNumbers(s) == [body |-> s, returnsValue |-> TRUE, calls |-> "signed"]
Procedures ==
  {Procedure(s) : s \in P!Ifs \cup P!IfElses \cup P!Whiles \cup P!DoWhiles
                        \cup P!Fors \cup P!Nested \cup P!Dead \cup P!Switches
                        \cup P!DeadAssignValues}
Valueds == {Valued(s) : s \in P!WithVariables \cup P!WithPointers
                                   \cup P!LogicalAssigns \cup P!AssignValues}
           \cup {OnNumbers(s) : s \in P!OperatorUses}

SwitchFile(s1, s2) == <<Procedure(s1), Procedure(s2)>>
Pairs ==
  {SwitchFile(s1, s2) : s1 \in P!Switches,
     s2 \in {s \in P!Switches : s.cases[1].body = P!Break}}

LogicalFiles == {<<Valued(s)>> : s \in {P!AndValue, P!OrValue}}

\* The functions that do something else than their source: a default that is
\* not the last of its switch, an && whose value is used, the bitwise operators
\* but &, orderings whose value is used, and compound assignments whose right hand
\* side changes the left one.
MCDeviating ==
  {Procedure(P!DefaultFirst), Procedure(P!DefaultSecond)}
  \cup {Valued(P!AndValue)}
  \cup {OnNumbers(s) : s \in P!BadOperators \cup P!SelfModifying}

\* if (x = f()) g(); return x;
AssignedCondition ==
  Valued(P!Compound(<<P!Declare(1), P!If(P!Assign(P!Id(1), P!Call(1)), P!Do(P!Call(2))),
                      P!ReturnValue(P!Id(1))>>))

MCFiles ==
  {<<f>> : f \in Procedures \cup Valueds \cup MCDeviating
             \cup {AssignedCondition, Valued(P!OrValue)}} \cup Pairs

TranslatedFiles == [f \in MCFiles |-> TranslateFile(f, Variables)]
\* (By another name, or TLC translates at every use.)
MCTranslations == TranslatedFiles

\* What the calls may return: booleans, the values a switch tells apart, or
\* ints near zero and near the largest one.
MCOracles == [boolean |-> [1 .. 3 -> 0 .. 1], number |-> [1 .. 2 -> 0 .. 3],
              signed |-> [1 .. 2 -> {-2, 0, 1, 3, 127}]]

\* What the theorem about jump targets assumes of translation is so of these files
\* (LogicalValue has others).
ASSUME MCTranslationsResolved == Files = MCFiles => TranslationsResolved
=============================================================================
