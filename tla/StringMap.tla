----------------------------- MODULE StringMap -----------------------------
(***************************************************************************)
(* What hashMap.h promises: a map from strings to pointers with three      *)
(* operations, each of which is answered.                                  *)
(***************************************************************************)
CONSTANTS Keys, Values, NULL

VARIABLES contents, call, result
vars == <<contents, call, result>>

Calls ==
  [name : {"put", "set"}, key : Keys, data : Values] \cup [name : {"get"}, key : Keys, data : {NULL}]

\* "get" of a key that is not there gives NULL, "put" 0 or -1, "set" nothing.
Results == Values \cup {NULL, "inserted", "exists", "void"}

Init ==
  /\ contents = [k \in Keys |-> NULL]
  /\ call = NULL
  /\ result = "void"

Ask == call = NULL /\ call' \in Calls /\ result' = "void" /\ UNCHANGED contents

Get ==
  /\ call.name = "get"
  /\ result' = contents[call.key]
  /\ UNCHANGED contents

PutNew ==
  /\ call.name = "put" /\ contents[call.key] = NULL
  /\ contents' = [contents EXCEPT ![call.key] = call.data]
  /\ result' = "inserted"

PutAgain ==
  /\ call.name = "put" /\ contents[call.key] # NULL
  /\ result' = "exists"
  /\ UNCHANGED contents

Set ==
  /\ call.name = "set"
  /\ contents' = [contents EXCEPT ![call.key] = call.data]
  /\ result' = "void"

Answer == call # NULL /\ call' = NULL /\ (Get \/ PutNew \/ PutAgain \/ Set)

Next == Ask \/ Answer

Safety == Init /\ [][Next]_vars
Spec == Safety /\ WF_vars(Answer)
=============================================================================
