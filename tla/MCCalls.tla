------------------------------ MODULE MCCalls ------------------------------
(***************************************************************************)
(* Calls with two arguments of every pair of types a register class, a     *)
(* split between two registers, the stack and a copy give rise to, alone   *)
(* and behind arguments that fill the registers of either kind.            *)
(***************************************************************************)
EXTENDS Calls

Long == Keyword("long")
Integer == Keyword("int")
Char == Keyword("char")
Double == Keyword("double")
Float == Keyword("float")
Three == Struct(<<Char, Char, Char>>)
Longs(n) == Struct([k \in 1..n |-> Long])

Simple(t) == [type |-> t, escapes |-> FALSE, constant |-> FALSE]
Escaping(t) == [Simple(t) EXCEPT !.escapes = TRUE]
Literal(t) == [Simple(t) EXCEPT !.constant = TRUE]

Types2 == {Long, Char, Float, Three, Longs(2), Longs(3), Struct(<<Double, Long>>),
           Struct(<<Integer, Integer, Integer>>), Struct(<<Double, Float>>)}
Pairs ==
  [args : {<<Simple(x), Simple(y)>> : x, y \in Types2},
   returns : {Keyword("void"), Long, Float, Three, Longs(3), Struct(<<Double, Long>>)}]

\* More arguments than one kind of registers holds, in the last one two words.
Many ==
  { [args |-> [k \in 1..7 |-> Simple(Long)], returns |-> Long],
    [args |-> [k \in 1..9 |-> Simple(Double)], returns |-> Long],
    [args |-> [k \in 1..5 |-> Simple(Long)] \o <<Simple(Longs(2)), Simple(Char)>>,
     returns |-> Longs(3)] }

Last2 ==
  {Simple(Long), Escaping(Long), Literal(Integer), Literal(Char), Literal(Double), Escaping(Double),
   Simple(Struct(<<Char>>)), Escaping(Char), Simple(Pointer), Simple(Three), Simple(Longs(2)),
   Simple(Union(<<Integer, Double>>))}
Behind ==
  [args : {first \o <<x, y>> : first \in {<<>>, [k \in 1..6 |-> Simple(Long)],
                                           [k \in 1..8 |-> Simple(Double)]},
                               x, y \in Last2},
   returns : {Long, Longs(3), Three}]

MCSignatures == Pairs \cup Many \cup Behind
=============================================================================
