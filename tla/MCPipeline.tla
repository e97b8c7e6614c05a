----------------------------- MODULE MCPipeline -----------------------------
(* Pipeline on files of small functions. *)
EXTENDS Pipeline, TranslateStmt

MCVariables == {1, 2, 3}

\* The reference for the passes.  The meaning of the functions is the business
\* of MiddleEnd's own run.
Reference == INSTANCE MiddleEnd WITH
  Variables <- MCVariables, Oracles <- << >>

P == INSTANCE Programs

Procedure(s) == [body |-> P!Body(s), returnsValue |-> FALSE]
Valued(s) == [body |-> s, returnsValue |-> TRUE]

\* Functions whose default jumps to a label they do not have, and functions
\* with a switch control does not reach.
Odd == {P!EmptySwitch, P!DefaultFirst, P!DefaultSecond}
       \cup {P!Compound(<<P!Return, s>>) : s \in P!Switches}

MCFiles ==
  {<<Procedure(s)>> : s \in P!Ifs \cup P!IfElses \cup P!Whiles \cup P!DoWhiles
       \cup P!Fors \cup P!Nested \cup P!Dead \cup P!Switches \cup Odd}
  \cup {<<Valued(s)>> : s \in P!WithVariables \cup P!AssignValues}
  \cup {<<Procedure(s)>> : s \in P!DeadAssignValues}
  \cup {<<Procedure(s), Procedure(s)>> :
          s \in {t \in P!Switches : t.cases[1].body = P!Break}}

\* The functions whose switch jumps to a default they have no block for.
MCDeviating == {Procedure(s) : s \in {P!EmptySwitch, P!DefaultFirst, P!DefaultSecond}}

TranslatedFiles == [f \in MCFiles |-> TranslateFile(f, MCVariables)]
\* (By another name, or TLC translates at every use.)
MCTranslations == TranslatedFiles

\* Every pass computes its reference definition, and a pass stops the compiler
\* exactly where MiddleEnd says it does.
Implements == Reference!Init /\ [][Reference!Next]_vars
=============================================================================
