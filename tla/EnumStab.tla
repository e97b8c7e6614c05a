------------------------------ MODULE EnumStab ------------------------------
(***************************************************************************)
(* Pass five of the parser: the values and the backing types of the        *)
(* enumerations of all files (buildTopLevelEnumStab,                       *)
(* src/main/parser/buildStab.c).  The constants of all enumerations stand  *)
(* in one list, in the order of their declarations; a constant takes its   *)
(* value from a literal, from a named constant of any enumeration, or from *)
(* the constant before it.                                                 *)
(*                                                                         *)
(* ByteMax, ShortMax, IntMax and LongMax are the limits of the signed      *)
(* integer types; those of the unsigned types follow from them as they do  *)
(* in numericSizing.c.                                                     *)
(***************************************************************************)
EXTENDS Integers, FiniteSetsExt

CONSTANTS Declarations, ByteMax, ShortMax, IntMax, LongMax

Least(max) == -(max + 1)
UnsignedMax(max) == 2 * max + 1

Integral == Least(LongMax) .. UnsignedMax(LongMax)

\* What may stand after a constant's name: nothing, a literal, the name of a
\* constant (its place in the list), or a name that stands for none.
Initializers(size) ==
  [kind : {"none", "unknown"}] \cup [kind : {"literal"}, value : Integral]
    \cup [kind : {"name"}, of : 1..size]

\* A list of constants, each with its enumeration and its initializer.
WellDeclared(d) ==
  /\ d.size \in Nat
  /\ d.enum \in [1..d.size -> Nat]
  /\ \A i, j \in 1..d.size : i <= j => d.enum[i] <= d.enum[j]
  /\ d.init \in [1..d.size -> Initializers(d.size)]

ASSUME LimitsAssumption ==
  /\ {ByteMax, ShortMax, IntMax, LongMax} \subseteq Nat
  /\ ByteMax < ShortMax /\ ShortMax < IntMax /\ IntMax < LongMax

ASSUME DeclarationsAssumption == \A d \in Declarations : WellDeclared(d)

VARIABLES decl,        \* the enumerations of all files
          dependency,  \* dependencies: the constant each depends on, 0 for NULL
          phase, at,   \* the loop that runs and the index it has reached
          processed, value, signedness,
          backing,     \* the backing type of each enumeration
          errored

vars == <<decl, dependency, phase, at, processed, value, signedness, backing, errored>>

Constants == 1..decl.size
Enums == {decl.enum[i] : i \in Constants}
Of(e) == {i \in Constants : decl.enum[i] = e}

Init ==
  /\ decl \in Declarations
  /\ dependency = [i \in Constants |-> 0]
  /\ phase = "dependencies"
  /\ at = 1
  /\ processed = [i \in Constants |-> FALSE]
  /\ value = [i \in Constants |-> 0]
  /\ signedness = [i \in Constants |-> FALSE]
  /\ backing = [e \in Enums |-> "NULL"]
  /\ errored = FALSE

\* The constant that constant i takes its value from; a name without a
\* constant leaves NULL.
First(i) == i = 1 \/ decl.enum[i - 1] # decl.enum[i]
DependencyOf(i) ==
  CASE decl.init[i].kind = "none" /\ ~First(i) -> i - 1
    [] decl.init[i].kind = "name" -> decl.init[i].of
    [] OTHER -> 0

FindDependencies ==
  /\ phase = "dependencies"
  /\ dependency' = [i \in Constants |-> DependencyOf(i)]
  /\ errored' = \E i \in Constants : decl.init[i].kind = "unknown"
  /\ phase' = IF errored' THEN "failed" ELSE "cycles"
  /\ UNCHANGED <<decl, at, processed, value, signedness, backing>>

\* The search for a cycle from constant at.  It follows the dependency of the
\* constant it started from over and over, never that of the constant it has
\* reached, so that it sees a cycle of one constant only; listing that cycle
\* walks past the end of the path and stops the compiler.
CheckCycle ==
  /\ phase = "cycles" /\ at <= decl.size
  /\ phase' = IF dependency[at] = at THEN "crashed" ELSE phase
  /\ at' = at + 1
  /\ UNCHANGED <<decl, dependency, processed, value, signedness, backing, errored>>

StartValues ==
  /\ phase = "cycles" /\ at > decl.size
  /\ phase' = "values"
  /\ at' = 1
  /\ UNCHANGED <<decl, dependency, processed, value, signedness, backing, errored>>

\* Constant at gets value v.
Give(v) ==
  /\ value' = [value EXCEPT ![at] = v]
  /\ signedness' = [signedness EXCEPT ![at] = v < 0]
  /\ processed' = [processed EXCEPT ![at] = TRUE]
  /\ at' = at + 1
  /\ UNCHANGED <<phase, errored>>

\* A constant without a dependency has its literal's value, or zero.
FillGround ==
  /\ phase = "values" /\ at <= decl.size /\ ~processed[at] /\ dependency[at] = 0
  /\ Give(IF decl.init[at].kind = "literal" THEN decl.init[at].value ELSE 0)
  /\ UNCHANGED <<decl, dependency, backing>>

\* A constant without an initializer is one more than the constant before it,
\* when that has its value.
FillSuccessor ==
  /\ phase = "values" /\ at <= decl.size /\ ~processed[at]
  /\ dependency[at] # 0 /\ processed[dependency[at]] /\ decl.init[at].kind = "none"
  /\ IF value[dependency[at]] = UnsignedMax(LongMax)
     THEN /\ errored' = TRUE
          /\ phase' = "failed"
          /\ UNCHANGED <<at, processed, value, signedness>>
     ELSE Give(value[dependency[at]] + 1)
  /\ UNCHANGED <<decl, dependency, backing>>

\* A slip ValuesDeclared catches: the constant named may have no value yet.
FillEqualAtOnce ==
  /\ phase = "values" /\ at <= decl.size /\ ~processed[at]
  /\ dependency[at] # 0 /\ decl.init[at].kind # "none"
  /\ Give(value[dependency[at]])
  /\ UNCHANGED <<decl, dependency, backing>>

\* A constant with another's name has the value of that constant.
FillEqual ==
  /\ phase = "values" /\ at <= decl.size /\ ~processed[at]
  /\ dependency[at] # 0 /\ processed[dependency[at]] /\ decl.init[at].kind # "none"
  /\ Give(value[dependency[at]])
  /\ UNCHANGED <<decl, dependency, backing>>

\* A constant that has its value, or whose dependency has none yet.
FillLater ==
  /\ phase = "values" /\ at <= decl.size
  /\ processed[at] \/ (dependency[at] # 0 /\ ~processed[dependency[at]])
  /\ at' = at + 1
  /\ UNCHANGED <<decl, dependency, phase, processed, value, signedness, backing, errored>>

\* A slip Ends catches: the next round starts where the last one ended.
EndOfRoundNoReset ==
  /\ phase = "values" /\ at > decl.size
  /\ phase' = IF \A i \in Constants : processed[i] THEN "signs" ELSE phase
  /\ UNCHANGED <<decl, dependency, at, processed, value, signedness, backing, errored>>

\* The end of a round: another one while a constant has no value.
EndOfRound ==
  /\ phase = "values" /\ at > decl.size
  /\ phase' = IF \A i \in Constants : processed[i] THEN "signs" ELSE phase
  /\ at' = 1
  /\ UNCHANGED <<decl, dependency, processed, value, signedness, backing, errored>>

\* requiredSign: an enumeration with a negative constant is signed, one with a
\* constant that overflows a long is unsigned, and one with both is refused.
NeedsSigned(e) == \E i \in Of(e) : signedness[i]
\* A slip RefusedForReason catches: the largest long is taken for an overflow.
NeedsUnsignedEarly(e) == \E i \in Of(e) : ~signedness[i] /\ value[i] >= LongMax

NeedsUnsigned(e) == \E i \in Of(e) : ~signedness[i] /\ value[i] > LongMax
Converted(v) == IF v > LongMax THEN v - UnsignedMax(LongMax) - 1 ELSE v

\* The enumeration of constant at, at its first constant.
UnifySign ==
  /\ phase = "signs" /\ at <= decl.size
  /\ LET e == decl.enum[at]
         signed == First(at) /\ NeedsSigned(e) /\ ~NeedsUnsigned(e)
     IN  /\ errored' = (errored \/ (First(at) /\ NeedsSigned(e) /\ NeedsUnsigned(e)))
         /\ signedness' = [i \in Constants |-> (signed /\ i \in Of(e)) \/ signedness[i]]
         /\ value' = [i \in Constants |->
              IF signed /\ i \in Of(e) /\ ~signedness[i] THEN Converted(value[i]) ELSE value[i]]
  /\ at' = at + 1
  /\ UNCHANGED <<decl, dependency, phase, processed, backing>>

StartBacking ==
  /\ phase = "signs" /\ at > decl.size
  /\ phase' = IF errored THEN "failed" ELSE "backing"
  /\ at' = 1
  /\ UNCHANGED <<decl, dependency, processed, value, signedness, backing, errored>>

\* The smallest type for values from min to max; the widest when none fits.
Limits == <<ByteMax, ShortMax, IntMax, LongMax>>
UnsignedTypes == <<"ubyte", "ushort", "uint", "ulong">>
SignedTypes == <<"byte", "short", "int", "long">>
\* A slip BackingHolds catches: signed values are held to the unsigned limits.
BackingTypeUnsigned(min, max) ==
  LET fits == {k \in 1..3 : max <= UnsignedMax(Limits[k]) /\ (min = 0 \/ min >= Least(Limits[k]))}
      k == Min(fits \cup {4})
  IN  IF min = 0 THEN UnsignedTypes[k] ELSE SignedTypes[k]

BackingType(min, max) ==
  LET fits == {k \in 1..3 : IF min = 0 THEN max <= UnsignedMax(Limits[k])
                                       ELSE max <= Limits[k] /\ min >= Least(Limits[k])}
      k == Min(fits \cup {4})
  IN  IF min = 0 THEN UnsignedTypes[k] ELSE SignedTypes[k]

FindBacking ==
  /\ phase = "backing" /\ at <= decl.size
  /\ LET values == {value[i] : i \in Of(decl.enum[at])} \cup {0}
     IN  backing' = [backing EXCEPT ![decl.enum[at]] = BackingType(Min(values), Max(values))]
  /\ at' = at + 1
  /\ UNCHANGED <<decl, dependency, phase, processed, value, signedness, errored>>

Finish ==
  /\ phase = "backing" /\ at > decl.size
  /\ phase' = "done"
  /\ UNCHANGED <<decl, dependency, at, processed, value, signedness, backing, errored>>

Next ==
  \/ FindDependencies \/ CheckCycle \/ StartValues
  \/ FillGround \/ FillSuccessor \/ FillEqual \/ FillLater \/ EndOfRound
  \/ UnifySign \/ StartBacking \/ FindBacking \/ Finish

Spec == Init /\ [][Next]_vars

\* One thread runs the pass and nothing in it waits.
FairSpec == Spec /\ WF_vars(Next)
-----------------------------------------------------------------------------
Types == {UnsignedTypes[k] : k \in 1..4} \cup {SignedTypes[k] : k \in 1..4}

TypeOK ==
  /\ WellDeclared(decl)
  /\ dependency \in [Constants -> 0..decl.size]
  /\ phase \in {"dependencies", "cycles", "values", "signs", "backing", "done", "failed", "crashed"}
  /\ at \in Nat \ {0}
  /\ processed \in [Constants -> BOOLEAN]
  /\ value \in [Constants -> Integral]
  /\ signedness \in [Constants -> BOOLEAN]
  /\ backing \in [Enums -> Types \cup {"NULL"}]
  /\ errored \in BOOLEAN

\* The constants in C depend on one another, round and round.
Circular(C) == C \subseteq Constants /\ \A i \in C : DependencyOf(i) \in C

\* The constants whose chain of dependencies ends: the value of each can be told.
Grounded == {i \in Constants : \A C \in SUBSET Constants : Circular(C) => i \notin C}

\* Constant i and those its value depends on: the fewest with each one's dependency.
Chain(i) ==
  {j \in Constants : \A C \in SUBSET Constants :
     i \in C /\ (\A k \in C : DependencyOf(k) \in C \cup {0}) => j \in C}

\* The value the declarations give a grounded constant, whatever its size: that
\* where its chain ends, and one for each step to a successor.
Roots(i) == {j \in Chain(i) : DependencyOf(j) = 0}
Steps(i) == {j \in Chain(i) : DependencyOf(j) # 0 /\ decl.init[j].kind = "none"}
Stated(j) == IF decl.init[j].kind = "literal" THEN decl.init[j].value ELSE 0
Declared(i) == Stated(CHOOSE j \in Roots(i) : TRUE) + Cardinality(Steps(i))

(***************************************************************************)
(* A constant with a value took it from its declaration: the literal's,    *)
(* that of the constant named, or one more than that of the constant       *)
(* before, which has its value by then (buildStab.c:722).                  *)
(***************************************************************************)
ValuesFollow ==
  \A i \in Constants : processed[i] =>
    IF DependencyOf(i) = 0
    THEN value[i] = IF decl.init[i].kind = "literal" THEN decl.init[i].value ELSE 0
    ELSE /\ processed[DependencyOf(i)]
         /\ value[i] = value[DependencyOf(i)] + (IF decl.init[i].kind = "none" THEN 1 ELSE 0)

(***************************************************************************)
(* No round of the loop, and no change of sign after it, gives a constant  *)
(* another value than the one its chain of declarations comes to, and a    *)
(* constant on a cycle never has one (buildStab.c:722, 938).               *)
(***************************************************************************)
ValuesDeclared ==
  \A i \in Constants : processed[i] => i \in Grounded /\ value[i] = Declared(i)

(***************************************************************************)
(* An enumeration is refused for a reason, and never accepted in spite of  *)
(* one: a name that is no constant, a value past the largest ulong, or a   *)
(* negative constant beside one that overflows a long (buildStab.c:612,    *)
(* 831, 896).                                                              *)
(***************************************************************************)
Unrepresentable ==
  \/ \E i \in Constants : decl.init[i].kind = "unknown"
  \/ \E i \in Constants : i \in Grounded /\ Declared(i) > UnsignedMax(LongMax)
  \/ \E i, j \in Constants : /\ decl.enum[i] = decl.enum[j] /\ {i, j} \subseteq Grounded
                             /\ Declared(i) < 0 /\ Declared(j) > LongMax
RefusedForReason ==
  /\ phase = "failed" => Unrepresentable
  /\ phase = "done" => ~Unrepresentable

(***************************************************************************)
(* The backing type of an enumeration has room for each of its constants,  *)
(* no type of less width has, and all its constants are read with its      *)
(* sign (buildStab.c:933, 984).                                            *)
(***************************************************************************)
RoomOf(k, signed) ==
  IF signed THEN Least(Limits[k]) .. Limits[k] ELSE 0 .. UnsignedMax(Limits[k])
BackingHolds ==
  phase = "done" => \A e \in Enums :
    \E k \in 1..4, signed \in BOOLEAN :
      /\ backing[e] = IF signed THEN SignedTypes[k] ELSE UnsignedTypes[k]
      /\ \A i \in Of(e) : value[i] \in RoomOf(k, signed) /\ signedness[i] = signed
      /\ \A m \in 1..(k - 1), s \in BOOLEAN :
           \E i \in Of(e) : value[i] \notin RoomOf(m, s)

(***************************************************************************)
(* A constant keeps the value it is given: others take theirs from it, and *)
(* neither a later round nor the change to one sign alters it              *)
(* (buildStab.c:857, 938).                                                 *)
(***************************************************************************)
ValuesFinal ==
  [][\A i \in 1..decl.size : processed[i] => processed'[i] /\ value'[i] = value[i]]_vars

(***************************************************************************)
(* The pass ends when no constant depends on itself: each round gives at   *)
(* least one constant its value (buildStab.c:722).  Of constants that do,  *)
(* the search for "circular dependencies among enum entries"               *)
(* (parser.c:48-49) finds only those that depend on themselves directly:   *)
(* it follows the dependency of the constant it started from instead of    *)
(* the one it has reached (buildStab.c:697).                               *)
(***************************************************************************)
Ends == (Grounded = Constants) ~> (phase \in {"done", "failed"})
=============================================================================
