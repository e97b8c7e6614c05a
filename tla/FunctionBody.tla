---------------------------- MODULE FunctionBody ----------------------------
(***************************************************************************)
(* parseFunctionBody of parser/functionBody.c reading the body of one      *)
(* function: a step for each statement of the outermost block, whatever is *)
(* in it, and one for its end.                                             *)
(*                                                                         *)
(* Bodies are the texts considered, each with whether it is as the grammar *)
(* wants it or has been edited.  The end of the file follows the text.     *)
(***************************************************************************)
EXTENDS Derivation

CONSTANTS Globals, \* the scope of the file: names to entries
          Parameters, \* the scope of the parameters
          Bodies \* records of a text, from its left brace on, and of whether it was edited

VARIABLES p, \* the parser
          stmts, \* the nodes of the statements so far
          tried, \* how many statements have been tried
          done, \* the body has been read to its end
          edited \* the text is not as the grammar wants it

vars == <<p, stmts, tried, done, edited>>

-----------------------------------------------------------------------------
\* A slip UndefinedOnlyInRecovery catches: the list of tokens has no end.
parseFuncBodyEndless(text) ==
  LET levels[i \in 0 .. Len(text)] ==
        IF i = 0 THEN 0
        ELSE levels[i - 1] + CASE text[i] = "{" -> 1 [] text[i] = "}" -> -1 [] OTHER -> 0
      ends == {i \in DOMAIN text : levels[i] = 0}
  IN IF ends = {} THEN text
     ELSE SubSeq(text, 1, CHOOSE i \in ends : \A j \in ends : i <= j)

\* The tokens up to the brace that closes the first, or to the end of the file.
parseFuncBody(text) ==
  LET levels[i \in 0 .. Len(text)] ==
        IF i = 0 THEN 0
        ELSE levels[i - 1] + CASE text[i] = "{" -> 1 [] text[i] = "}" -> -1 [] OTHER -> 0
      ends == {i \in DOMAIN text : levels[i] = 0}
  IN IF ends = {} THEN Append(text, "eof")
     ELSE SubSeq(text, 1, CHOOSE i \in ends : \A j \in ends : i <= j)

Init ==
  \E b \in Bodies :
    /\ p = environmentPush(Next1(Parser(parseFuncBody(b.text), <<Globals, Parameters>>)))
    /\ stmts = <<>>
    /\ tried = 0
    /\ done = FALSE
    /\ edited = b.edited

\* parseCompoundStmt, for one statement of the body: one that is NULL is left out.
Statement ==
  /\ ~done
  /\ Looking(p)
  /\ Token(p) \notin {"}", "eof"}
  /\ \E stmt \in {parseStmt(p)} :
        /\ p' = Resumed(stmt)
        /\ stmts' = IF stmt.at = "node" THEN Append(stmts, stmt.node) ELSE stmts
  /\ tried' = tried + 1
  /\ UNCHANGED <<done, edited>>

EndOfBody ==
  /\ ~done
  /\ Sees(p, {"}"})
  /\ p' = Build(environmentPop(Next1(p)), "block", stmts)
  /\ done' = TRUE
  /\ UNCHANGED <<stmts, tried, edited>>

EndOfFile ==
  /\ ~done
  /\ Sees(p, {"eof"})
  /\ p' = Build(Complain(environmentPop(p)), "block", stmts)
  /\ done' = TRUE
  /\ UNCHANGED <<stmts, tried, edited>>

PastTheEnd ==
  /\ ~done
  /\ p.at = "node"
  /\ ~Looking(p)
  /\ p' = Overrun(p)
  /\ UNCHANGED <<stmts, tried, done, edited>>

Next == Statement \/ EndOfBody \/ EndOfFile \/ PastTheEnd

Spec == Init /\ [][Next]_vars

-----------------------------------------------------------------------------
(***************************************************************************)
(* A body the grammar allows, whose names are declared and used as what    *)
(* they are, is read without a complaint (functionBody.c, every parser).   *)
(***************************************************************************)
GrammarAccepted ==
  ~edited => ~p.said /\ p.at = "node"

(***************************************************************************)
(* A body read without a complaint is read whole and as it is written: the *)
(* tree prints back as the text, and its operators are grouped as the      *)
(* standard's table has it, but for the logical ones.  So nothing is       *)
(* skipped, dropped or regrouped in silence.                               *)
(***************************************************************************)
ReadAsWritten ==
  done /\ ~p.said =>
    /\ Written(p.node) = Significant(p.tokens)
    /\ Everywhere(p.node)

(***************************************************************************)
(* Nothing undefined happens to a body nothing was complained about: the   *)
(* tokens run out, something freed is used, a null pointer is read through *)
(* or a vector is overrun only in the recovery from an error, or at the    *)
(* name in a sizeof.                                                       *)
(***************************************************************************)
UndefinedOnlyInRecovery ==
  p.at \in Undefined => p.said

(***************************************************************************)
(* Between two statements of a body exactly its own scopes are open, and   *)
(* what is declared around it is as it was: every parser, on its way out   *)
(* through an error too, closes the scopes it opened.                      *)
(***************************************************************************)
ScopesRestored ==
  p.at \notin Undefined =>
    /\ Len(p.scopes) = IF done THEN 2 ELSE 3
    /\ SubSeq(p.scopes, 1, 2) = <<Globals, Parameters>>

(***************************************************************************)
(* Recovery always gets on: a statement that is tried, read or not, takes  *)
(* a token at least, so that whatever the text its end is reached: no      *)
(* panic function stops at a token that no statement begins with.          *)
(***************************************************************************)
GetsOn == p.at = "node" /\ ~done => tried + 2 <= p.curr

(***************************************************************************)
(* A statement is given up on an error only (parseStmt returns a "node or  *)
(* null on an error", functionBody.c:3293), so a file of which a body has  *)
(* been read without one of its statements is one an error has been        *)
(* signaled for (errored, fileList.h:37), and goes no further.             *)
(***************************************************************************)
DropsRecorded == done /\ Len(stmts) < tried => p.errored
=============================================================================
