----------------------------- MODULE MCEnumStab -----------------------------
(***************************************************************************)
(* Every list of at most three constants in enumerations of any sizes,     *)
(* with initializers around each limit of small integer types.             *)
(***************************************************************************)
EXTENDS EnumStab

CONSTANT Sizes

Literals == {-16, -9, -3, -2, -1, 0, 2, 3, 4, 8, 15, 16, 30, 31}

\* The enumerations of a list, numbered in their order.
Splits(size) ==
  {enum \in [1..size -> 1..size] :
     /\ enum[1] = 1
     /\ \A i \in 2..size : enum[i] \in {enum[i - 1], enum[i - 1] + 1}}

Initial(size) ==
  [kind : {"none", "unknown"}] \cup [kind : {"literal"}, value : Literals]
    \cup [kind : {"name"}, of : 1..size]

MCDeclarations ==
  UNION {[size : {size}, enum : Splits(size), init : [1..size -> Initial(size)]] : size \in Sizes}
=============================================================================
