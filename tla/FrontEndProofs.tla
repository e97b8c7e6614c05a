---------------------------- MODULE FrontEndProofs ----------------------------
(***************************************************************************)
(* What pass five keeps for all lists of enumerations and all limits of    *)
(* the integer types, and what hashMap.c, on which the symbol tables rest, *)
(* keeps for any strings, any hashes of them and any first capacity,       *)
(* growth inside growth included.                                          *)
(***************************************************************************)
EXTENDS EnumStab, HashMap, TLAPS, FiniteSetTheorems

-----------------------------------------------------------------------------
\* Enumerations

\* The initializer of each constant is one of those that may stand there.
LEMMA DeclFacts ==
  ASSUME TypeOK
  PROVE  /\ decl.size \in Nat
         /\ decl.init \in [Constants -> Initializers(decl.size)]
         /\ \A i \in Constants : DependencyOf(i) \in 0..decl.size
<1>1. decl.size \in Nat /\ decl.init \in [Constants -> Initializers(decl.size)]
  BY DEF TypeOK, WellDeclared, Constants
<1>2. ASSUME NEW i \in Constants
      PROVE  DependencyOf(i) \in 0..decl.size
  <2>1. CASE decl.init[i].kind = "none" /\ ~First(i)
    <3>1. DependencyOf(i) = i - 1
      BY <2>1 DEF DependencyOf
    <3> QED
      BY <1>1, <3>1 DEF Constants
  <2>2. CASE decl.init[i].kind = "name"
    <3>1. DependencyOf(i) = decl.init[i].of
      BY <2>2 DEF DependencyOf
    <3>2. decl.init[i].of \in 1..decl.size
      BY <1>1, <2>2 DEF Initializers
    <3> QED
      BY <1>1, <3>1, <3>2
  <2>3. CASE ~(decl.init[i].kind = "none" /\ ~First(i)) /\ decl.init[i].kind # "name"
    <3>1. DependencyOf(i) = 0
      BY <2>3 DEF DependencyOf
    <3> QED
      BY <1>1, <3>1
  <2> QED
    BY <2>1, <2>2, <2>3
<1> QED
  BY <1>1, <1>2

\* The least of some numbers up to three, or four when there are none.
LEMMA LeastOfThree ==
  ASSUME NEW S \in SUBSET (1..3)
  PROVE  Min(S \cup {4}) \in 1..4
<1>1. \E x \in S \cup {4} : \A y \in S \cup {4} : x <= y
  <2>1. CASE 1 \in S
    BY <2>1
  <2>2. CASE 1 \notin S /\ 2 \in S
    BY <2>2
  <2>3. CASE 1 \notin S /\ 2 \notin S /\ 3 \in S
    BY <2>3
  <2>4. CASE S = {}
    BY <2>4
  <2> QED
    BY <2>1, <2>2, <2>3, <2>4
<1>2. Min(S \cup {4}) \in S \cup {4}
  BY <1>1 DEF Min
<1>3. S \cup {4} \subseteq 1..4
  OBVIOUS
<1> QED
  BY <1>2, <1>3

LEMMA BackingTyped ==
  ASSUME NEW min, NEW max
  PROVE  BackingType(min, max) \in Types
<1> DEFINE fits == {k \in 1..3 : IF min = 0 THEN max <= UnsignedMax(Limits[k])
                                 ELSE max <= Limits[k] /\ min >= Least(Limits[k])}
           k == Min(fits \cup {4})
<1>1. fits \in SUBSET (1..3)
  OBVIOUS
<1>2. k \in 1..4
  BY <1>1, LeastOfThree
<1>3. BackingType(min, max) = IF min = 0 THEN UnsignedTypes[k] ELSE SignedTypes[k]
  BY DEF BackingType
<1> HIDE DEF k, fits
<1> QED
  BY <1>2, <1>3 DEF Types

\* An enumeration with one sign keeps its values: those converted fit a long.
LEMMA UnifyValue == TypeOK /\ UnifySign => value' = value
<1> SUFFICES ASSUME TypeOK, UnifySign
             PROVE  value' = value
  OBVIOUS
<1> DEFINE e == decl.enum[at]
           signed == First(at) /\ NeedsSigned(e) /\ ~NeedsUnsigned(e)
           after(i) == IF signed /\ i \in Of(e) /\ ~signedness[i] THEN Converted(value[i]) ELSE value[i]
<1>1. value' = [i \in Constants |-> after(i)]
  BY DEF UnifySign
<1>2. ASSUME NEW i \in Constants
      PROVE  after(i) = value[i]
  <2>1. CASE signed /\ i \in Of(e) /\ ~signedness[i]
    <3>1. ~(value[i] > LongMax)
      BY <2>1 DEF NeedsUnsigned
    <3> QED
      BY <3>1 DEF Converted
  <2>2. CASE ~(signed /\ i \in Of(e) /\ ~signedness[i])
    BY <2>2
  <2> QED
    BY <2>1, <2>2
<1> HIDE DEF after
<1> QED
  BY <1>1, <1>2 DEF TypeOK
-----------------------------------------------------------------------------
(***************************************************************************)
(* The inductive invariant: the dependencies found are those declared, and *)
(* no constant has a value before its dependency has.                      *)
(***************************************************************************)
DependenciesFound ==
  /\ phase = "dependencies" => \A i \in Constants : ~processed[i]
  /\ phase # "dependencies" => \A i \in Constants : dependency[i] = DependencyOf(i)

IInv == TypeOK /\ DependenciesFound /\ ValuesFollow

LEMMA InitIInv == Init => IInv
<1> SUFFICES ASSUME Init
             PROVE  IInv
  OBVIOUS
<1>1. WellDeclared(decl)
  BY DeclarationsAssumption DEF Init
<1>2. decl.size \in Nat /\ 0 \in Integral
  BY <1>1, LimitsAssumption DEF WellDeclared, Integral, Least, UnsignedMax
<1>3. TypeOK
  <2>1. dependency \in [Constants -> 0..decl.size]
    BY <1>2 DEF Init
  <2>2. value \in [Constants -> Integral]
    BY <1>2 DEF Init
  <2>3. /\ processed \in [Constants -> BOOLEAN]
        /\ signedness \in [Constants -> BOOLEAN]
        /\ backing \in [Enums -> Types \cup {"NULL"}]
    BY DEF Init
  <2>4. errored \in BOOLEAN
    BY DEF Init
  <2>5. at \in Nat \ {0} /\ phase = "dependencies"
    BY DEF Init
  <2> QED
    BY <1>1, <2>1, <2>2, <2>3, <2>4, <2>5 DEF TypeOK
<1>4. DependenciesFound /\ ValuesFollow
  BY DEF Init, DependenciesFound, ValuesFollow
<1> QED
  BY <1>3, <1>4 DEF IInv

\* A constant that gets a value v of its type keeps the types.
LEMMA GiveTyped ==
  ASSUME TypeOK, at <= decl.size, NEW v \in Integral, Give(v),
         UNCHANGED <<decl, dependency, backing>>
  PROVE  TypeOK'
<1>1. Constants' = Constants /\ Enums' = Enums
  BY DEF Constants, Enums
<1>2. processed' \in [Constants -> BOOLEAN] /\ signedness' \in [Constants -> BOOLEAN]
  <2> DEFINE negative == v < 0
  <2>1. negative \in BOOLEAN /\ signedness' = [signedness EXCEPT ![at] = negative]
    BY DEF Give
  <2> HIDE DEF negative
  <2>2. signedness' \in [Constants -> BOOLEAN]
    BY <2>1 DEF TypeOK
  <2>3. processed' \in [Constants -> BOOLEAN]
    BY DEF TypeOK, Give
  <2> QED
    BY <2>2, <2>3
<1>3. value' \in [Constants -> Integral]
  BY DEF TypeOK, Give
<1>4. at' \in Nat \ {0}
  BY DEF TypeOK, Give
<1>5. /\ WellDeclared(decl') /\ errored' \in BOOLEAN
      /\ dependency' \in [Constants -> 0..decl'.size]
      /\ backing' \in [Enums -> Types \cup {"NULL"}]
  BY DEF TypeOK, Give
<1> QED
  BY <1>1, <1>2, <1>3, <1>4, <1>5 DEF TypeOK, Give

\* So does a step that gives no value and moves on.
LEMMA OthersTyped ==
  ASSUME TypeOK,
         UNCHANGED <<decl, dependency, processed, value, signedness, backing, errored>>,
         at' \in Nat \ {0},
         phase' \in {"cycles", "values", "signs", "backing", "done", "failed", "crashed"}
  PROVE  TypeOK'
<1>1. Constants' = Constants /\ Enums' = Enums
  BY DEF Constants, Enums
<1> QED
  BY <1>1 DEF TypeOK

LEMMA StepTypeOK == TypeOK /\ [Next]_vars => TypeOK'
<1> SUFFICES ASSUME TypeOK, [Next]_vars
             PROVE  TypeOK'
  OBVIOUS
<1>a. at + 1 \in Nat \ {0} /\ 1 \in Nat \ {0}
  BY DEF TypeOK
<1>b. \A i \in Constants : value[i] \in Integral /\ dependency[i] \in 0..decl.size
  BY DEF TypeOK
<1>c. at <= decl.size => at \in Constants
  BY DeclFacts DEF TypeOK, Constants
<1>d. \A i \in Constants : dependency[i] # 0 => dependency[i] \in Constants
  BY <1>b, DeclFacts DEF Constants
<1>1. CASE FindDependencies
  <2>1. Constants' = Constants /\ Enums' = Enums
    BY <1>1 DEF FindDependencies, Constants, Enums
  <2>2. dependency' \in [Constants -> 0..decl.size]
    BY <1>1, DeclFacts DEF FindDependencies
  <2>3. errored' \in BOOLEAN /\ phase' \in {"failed", "cycles"}
    BY <1>1 DEF FindDependencies
  <2> QED
    BY <1>1, <2>1, <2>2, <2>3 DEF FindDependencies, TypeOK
<1>2. CASE CheckCycle
  BY <1>2, <1>a, OthersTyped DEF CheckCycle
<1>3. CASE StartValues
  BY <1>3, <1>a, OthersTyped DEF StartValues
<1>4. CASE FillGround
  <2> DEFINE v == IF decl.init[at].kind = "literal" THEN decl.init[at].value ELSE 0
  <2>1. at \in Constants
    BY <1>4, <1>c DEF FillGround
  <2>2. decl.init[at] \in Initializers(decl.size)
    BY <2>1, DeclFacts
  <2>3. v \in Integral
    <3>1. 0 \in Integral
      BY LimitsAssumption DEF Integral, Least, UnsignedMax
    <3> QED
      BY <2>2, <3>1 DEF Initializers
  <2>4. Give(v) /\ at <= decl.size /\ UNCHANGED <<decl, dependency, backing>>
    BY <1>4 DEF FillGround
  <2> HIDE DEF v
  <2> QED
    BY <2>3, <2>4, GiveTyped
<1>5. CASE FillSuccessor
  <2> DEFINE d == value[dependency[at]]
  <2>1. at \in Constants
    BY <1>5, <1>c DEF FillSuccessor
  <2>2. dependency[at] \in Constants
    BY <1>5, <2>1, <1>d DEF FillSuccessor
  <2>3. d \in Integral
    BY <2>2, <1>b
  <2>4. CASE d = UnsignedMax(LongMax)
    <3>1. /\ errored' = TRUE /\ phase' = "failed"
          /\ UNCHANGED <<at, processed, value, signedness, decl, dependency, backing>>
      BY <1>5, <2>4 DEF FillSuccessor
    <3>2. Constants' = Constants /\ Enums' = Enums
      BY <3>1 DEF Constants, Enums
    <3> QED
      BY <3>1, <3>2 DEF TypeOK
  <2>5. CASE d # UnsignedMax(LongMax)
    <3>1. d + 1 \in Integral
      BY <2>3, <2>5, LimitsAssumption DEF Integral, Least, UnsignedMax
    <3>2. Give(d + 1) /\ at <= decl.size /\ UNCHANGED <<decl, dependency, backing>>
      BY <1>5, <2>5 DEF FillSuccessor
    <3> HIDE DEF d
    <3> QED
      BY <3>1, <3>2, GiveTyped
  <2> QED
    BY <2>4, <2>5
<1>6. CASE FillEqual
  <2>1. at \in Constants
    BY <1>6, <1>c DEF FillEqual
  <2>2. dependency[at] \in Constants
    BY <1>6, <2>1, <1>d DEF FillEqual
  <2>3. value[dependency[at]] \in Integral
    BY <2>2, <1>b
  <2> QED
    BY <1>6, <2>3, GiveTyped DEF FillEqual
<1>7. CASE FillLater
  <2>1. phase' = "values"
    BY <1>7 DEF FillLater
  <2> QED
    BY <1>7, <1>a, <2>1, OthersTyped DEF FillLater
<1>8. CASE EndOfRound
  BY <1>8, <1>a, OthersTyped DEF EndOfRound
<1>9. CASE UnifySign
  <2>1. Constants' = Constants /\ Enums' = Enums
    BY <1>9 DEF UnifySign, Constants, Enums
  <2>2. value' \in [Constants -> Integral]
    BY <1>9, <1>b, UnifyValue DEF UnifySign
  <2>3. signedness' \in [Constants -> BOOLEAN] /\ errored' \in BOOLEAN
    BY <1>9 DEF UnifySign, TypeOK, NeedsSigned
  <2> QED
    BY <1>9, <1>a, <2>1, <2>2, <2>3 DEF UnifySign, TypeOK
<1>10. CASE StartBacking
  BY <1>10, <1>a, OthersTyped DEF StartBacking
<1>11. CASE FindBacking
  <2>1. Constants' = Constants /\ Enums' = Enums
    BY <1>11 DEF FindBacking, Constants, Enums
  <2>2. backing' \in [Enums -> Types \cup {"NULL"}]
    <3>1. PICK b : /\ b \in Types
                   /\ backing' = [backing EXCEPT ![decl.enum[at]] = b]
      BY <1>11, BackingTyped DEF FindBacking
    <3> QED
      BY <3>1 DEF TypeOK
  <2> QED
    BY <1>11, <1>a, <2>1, <2>2 DEF FindBacking, TypeOK
<1>12. CASE Finish
  BY <1>12, OthersTyped DEF Finish, TypeOK
<1>13. CASE UNCHANGED vars
  <2>1. Constants' = Constants /\ Enums' = Enums
    BY <1>13 DEF vars, Constants, Enums
  <2> QED
    BY <1>13, <2>1 DEF vars, TypeOK
<1> QED
  BY <1>1, <1>2, <1>3, <1>4, <1>5, <1>6, <1>7, <1>8, <1>9, <1>10, <1>11, <1>12, <1>13 DEF Next

\* The constant that gets a value is none that others took theirs from.
LEMMA GiveFollows ==
  ASSUME IInv, at \in Constants, ~processed[at], NEW v \in Integral, Give(v),
         UNCHANGED <<decl, dependency, backing>>,
         IF DependencyOf(at) = 0
         THEN v = IF decl.init[at].kind = "literal" THEN decl.init[at].value ELSE 0
         ELSE /\ processed[DependencyOf(at)]
              /\ v = value[DependencyOf(at)] + (IF decl.init[at].kind = "none" THEN 1 ELSE 0)
  PROVE  ValuesFollow'
<1>1. Constants' = Constants /\ (\A i : DependencyOf(i)' = DependencyOf(i)) /\ decl' = decl
  BY DEF Constants, DependencyOf, First
<1>2. /\ processed' = [processed EXCEPT ![at] = TRUE]
      /\ value' = [value EXCEPT ![at] = v]
      /\ processed \in [Constants -> BOOLEAN] /\ value \in [Constants -> Integral]
  BY DEF Give, IInv, TypeOK
<1>3. SUFFICES ASSUME NEW i \in Constants, processed'[i]
               PROVE  IF DependencyOf(i) = 0
                      THEN value'[i] = IF decl.init[i].kind = "literal" THEN decl.init[i].value ELSE 0
                      ELSE /\ processed'[DependencyOf(i)]
                           /\ value'[i] = value'[DependencyOf(i)] + (IF decl.init[i].kind = "none" THEN 1 ELSE 0)
  BY <1>1 DEF ValuesFollow
<1>4. DependencyOf(i) \in 0..decl.size /\ decl.size \in Nat
  BY DeclFacts DEF IInv
<1>5. DependencyOf(i) # 0 => DependencyOf(i) \in Constants
  BY <1>4 DEF Constants
<1>6. CASE i = at
  <2>1. value'[i] = v
    BY <1>2, <1>6
  <2>2. CASE DependencyOf(i) = 0
    BY <1>6, <2>1, <2>2
  <2>3. CASE DependencyOf(i) # 0
    <3>1. DependencyOf(i) # at /\ processed[DependencyOf(i)]
      BY <1>6, <2>3
    <3>2. processed'[DependencyOf(i)] /\ value'[DependencyOf(i)] = value[DependencyOf(i)]
      BY <1>2, <1>5, <2>3, <3>1
    <3> QED
      BY <1>6, <2>1, <2>3, <3>2
  <2> QED
    BY <2>2, <2>3
<1>7. CASE i # at
  <2>1. processed[i] /\ value'[i] = value[i]
    BY <1>2, <1>3, <1>7
  <2>2. CASE DependencyOf(i) = 0
    BY <2>1, <2>2 DEF IInv, ValuesFollow
  <2>3. CASE DependencyOf(i) # 0
    <3>1. /\ processed[DependencyOf(i)]
          /\ value[i] = value[DependencyOf(i)] + (IF decl.init[i].kind = "none" THEN 1 ELSE 0)
      BY <2>1, <2>3 DEF IInv, ValuesFollow
    <3>2. processed'[DependencyOf(i)] /\ value'[DependencyOf(i)] = value[DependencyOf(i)]
      BY <1>2, <1>5, <2>3, <3>1
    <3> QED
      BY <2>1, <2>3, <3>1, <3>2
  <2> QED
    BY <2>2, <2>3
<1> QED
  BY <1>6, <1>7

LEMMA GiveFound ==
  ASSUME DependenciesFound, phase = "values", NEW v, Give(v),
         UNCHANGED <<decl, dependency, backing>>
  PROVE  DependenciesFound'
<1>1. Constants' = Constants /\ (\A i : DependencyOf(i)' = DependencyOf(i)) /\ phase' = phase
  BY DEF Constants, DependencyOf, First, Give
<1> QED
  BY <1>1 DEF DependenciesFound

\* A step that changes no value and no dependency keeps what follows from them.
LEMMA OthersFollow ==
  ASSUME DependenciesFound, ValuesFollow, phase # "dependencies", phase' # "dependencies",
         UNCHANGED <<decl, dependency, processed, value>>
  PROVE  DependenciesFound' /\ ValuesFollow'
<1>1. Constants' = Constants /\ (\A i : DependencyOf(i)' = DependencyOf(i))
  BY DEF Constants, DependencyOf, First
<1> QED
  BY <1>1 DEF DependenciesFound, ValuesFollow

LEMMA StepIInv == IInv /\ [Next]_vars => IInv'
<1> SUFFICES ASSUME IInv, [Next]_vars
             PROVE  IInv'
  OBVIOUS
<1>a. TypeOK /\ DependenciesFound /\ ValuesFollow
  BY DEF IInv
<1>b. TypeOK'
  BY <1>a, StepTypeOK
<1> SUFFICES DependenciesFound' /\ ValuesFollow'
  BY <1>b DEF IInv
<1>c. /\ \A i \in Constants : value[i] \in Integral
      /\ at <= decl.size => at \in Constants
      /\ \A i \in Constants : DependencyOf(i) # 0 => DependencyOf(i) \in Constants
      /\ \A i \in Constants : decl.init[i] \in Initializers(decl.size)
  <2>1. \A i \in Constants : value[i] \in Integral
    BY <1>a DEF TypeOK
  <2>2. at <= decl.size => at \in Constants
    BY <1>a, DeclFacts DEF TypeOK, Constants
  <2>3. \A i \in Constants : DependencyOf(i) # 0 => DependencyOf(i) \in Constants
    BY <1>a, DeclFacts DEF Constants
  <2>4. \A i \in Constants : decl.init[i] \in Initializers(decl.size)
    BY <1>a, DeclFacts
  <2> QED
    BY <2>1, <2>2, <2>3, <2>4
<1>d. \A i : DependencyOf(i)' = IF decl' = decl THEN DependencyOf(i) ELSE DependencyOf(i)'
  BY DEF DependencyOf, First
<1>1. CASE FindDependencies
  <2>1. Constants' = Constants /\ decl' = decl /\ processed' = processed
    BY <1>1 DEF FindDependencies, Constants
  <2>2. \A i \in Constants : ~processed[i]
    BY <1>1, <1>a DEF FindDependencies, DependenciesFound
  <2>3. ValuesFollow'
    BY <2>1, <2>2 DEF ValuesFollow
  <2>4. phase' # "dependencies" /\ \A i \in Constants : dependency'[i] = DependencyOf(i)
    BY <1>1 DEF FindDependencies
  <2> QED
    BY <1>d, <2>1, <2>3, <2>4 DEF DependenciesFound
<1>4. CASE FillGround
  <2> DEFINE v == IF decl.init[at].kind = "literal" THEN decl.init[at].value ELSE 0
  <2>1. at \in Constants /\ ~processed[at] /\ DependencyOf(at) = 0
    BY <1>4, <1>a, <1>c DEF FillGround, DependenciesFound
  <2>2. v \in Integral
    <3>1. 0 \in Integral
      BY LimitsAssumption DEF Integral, Least, UnsignedMax
    <3> QED
      BY <2>1, <1>c, <3>1 DEF Initializers
  <2>3. Give(v) /\ UNCHANGED <<decl, dependency, backing>>
    BY <1>4 DEF FillGround
  <2>4. ValuesFollow'
    BY <2>1, <2>2, <2>3, GiveFollows
  <2> QED
    BY <1>4, <1>a, <2>3, <2>4, GiveFound DEF FillGround
<1>5. CASE FillSuccessor
  <2> DEFINE d == value[dependency[at]]
  <2>1. at \in Constants /\ ~processed[at] /\ dependency[at] = DependencyOf(at)
    BY <1>5, <1>a, <1>c DEF FillSuccessor, DependenciesFound
  <2>2. CASE d = UnsignedMax(LongMax)
    BY <1>5, <1>a, <2>2, OthersFollow DEF FillSuccessor
  <2>3. CASE d # UnsignedMax(LongMax)
    <3>1. d \in Integral
      BY <1>5, <2>1, <1>c DEF FillSuccessor
    <3>2. d + 1 \in Integral
      BY <3>1, <2>3, LimitsAssumption DEF Integral, Least, UnsignedMax
    <3>3. Give(d + 1) /\ UNCHANGED <<decl, dependency, backing>>
      BY <1>5, <2>3 DEF FillSuccessor
    <3>4. DependencyOf(at) # 0 /\ processed[DependencyOf(at)] /\ decl.init[at].kind = "none"
      BY <1>5, <2>1 DEF FillSuccessor
    <3>5. d = value[DependencyOf(at)]
      BY <2>1
    <3> HIDE DEF d
    <3>6. ValuesFollow'
      BY <2>1, <3>2, <3>3, <3>4, <3>5, GiveFollows
    <3> QED
      BY <1>5, <1>a, <3>3, <3>6, GiveFound DEF FillSuccessor
  <2> QED
    BY <2>2, <2>3
<1>6. CASE FillEqual
  <2> DEFINE d == value[dependency[at]]
  <2>1. at \in Constants /\ ~processed[at] /\ dependency[at] = DependencyOf(at)
    BY <1>6, <1>a, <1>c DEF FillEqual, DependenciesFound
  <2>2. d \in Integral /\ d + 0 = d
    BY <1>6, <2>1, <1>c, LimitsAssumption DEF FillEqual, Integral, Least, UnsignedMax
  <2>3. Give(d) /\ UNCHANGED <<decl, dependency, backing>>
    BY <1>6 DEF FillEqual
  <2>4. DependencyOf(at) # 0 /\ processed[DependencyOf(at)] /\ decl.init[at].kind # "none"
    BY <1>6, <2>1 DEF FillEqual
  <2>5. d = value[DependencyOf(at)]
    BY <2>1
  <2> HIDE DEF d
  <2>6. ValuesFollow'
    BY <2>1, <2>2, <2>3, <2>4, <2>5, GiveFollows
  <2> QED
    BY <1>6, <1>a, <2>3, <2>6, GiveFound DEF FillEqual
<1>9. CASE UnifySign
  <2>1. value' = value
    BY <1>9, <1>a, UnifyValue
  <2> QED
    BY <1>9, <1>a, <2>1, OthersFollow DEF UnifySign
<1>2. CASE CheckCycle \/ StartValues \/ FillLater \/ EndOfRound
  BY <1>2, <1>a, OthersFollow DEF CheckCycle, StartValues, FillLater, EndOfRound
<1>3. CASE StartBacking \/ FindBacking \/ Finish
  <2>1. phase # "dependencies" /\ phase' # "dependencies"
    BY <1>3 DEF StartBacking, FindBacking, Finish
  <2>2. UNCHANGED <<decl, dependency, processed, value>>
    BY <1>3 DEF StartBacking, FindBacking, Finish
  <2> QED
    BY <1>a, <2>1, <2>2, OthersFollow
<1>7. CASE UNCHANGED vars
  <2>1. Constants' = Constants /\ decl' = decl
    BY <1>7 DEF vars, Constants
  <2> QED
    BY <1>7, <1>a, <1>d, <2>1 DEF vars, DependenciesFound, ValuesFollow
<1> QED
  BY <1>1, <1>2, <1>3, <1>4, <1>5, <1>6, <1>7, <1>9 DEF Next

\* The types hold in every reachable state.
THEOREM TypeCorrect == Spec => []TypeOK
<1>1. IInv => TypeOK
  BY DEF IInv
<1> QED
  BY InitIInv, StepIInv, <1>1, PTL DEF Spec

\* However the rounds of the loop interleave with the dependencies, a constant
\* has the value its declaration gives it from the values of others.
THEOREM ValuesFollowed == Spec => []ValuesFollow
<1>1. IInv => ValuesFollow
  BY DEF IInv
<1> QED
  BY InitIInv, StepIInv, <1>1, PTL DEF Spec

\* No later round and no change of sign alters the value of a constant.
THEOREM ValuesStayFinal == Spec => ValuesFinal
<1>1. ASSUME IInv, [Next]_vars
      PROVE  [\A i \in 1..decl.size : processed[i] => processed'[i] /\ value'[i] = value[i]]_vars
  <2> SUFFICES ASSUME NEW i \in Constants, processed[i], vars' # vars
               PROVE  processed'[i] /\ value'[i] = value[i]
    BY DEF Constants
  <2>1. processed \in [Constants -> BOOLEAN] /\ value \in [Constants -> Integral]
    BY <1>1 DEF IInv, TypeOK
  <2>2. CASE FillGround
    BY <2>1, <2>2 DEF FillGround, Give
  <2>3. CASE FillSuccessor
    BY <2>1, <2>3 DEF FillSuccessor, Give
  <2>4. CASE FillEqual
    BY <2>1, <2>4 DEF FillEqual, Give
  <2>5. CASE UnifySign
    BY <1>1, <2>5, UnifyValue DEF IInv, UnifySign
  <2>6. CASE \/ FindDependencies \/ CheckCycle \/ StartValues \/ FillLater \/ EndOfRound
    BY <2>6 DEF FindDependencies, CheckCycle, StartValues, FillLater, EndOfRound
  <2>7. CASE StartBacking \/ FindBacking \/ Finish
    BY <2>7 DEF StartBacking, FindBacking, Finish
  <2> QED
    BY <1>1, <2>2, <2>3, <2>4, <2>5, <2>6, <2>7 DEF Next
<1> QED
  BY InitIInv, StepIInv, <1>1, PTL DEF Spec, ValuesFinal
-----------------------------------------------------------------------------
(***************************************************************************)
(* A constant on a cycle, or that leads to one, never gets a value, so     *)
(* that the loop never ends: the search for cycles is what stands between  *)
(* such a program and a compiler that hangs.                               *)
(***************************************************************************)
THEOREM CircularNeverValued ==
  ASSUME NEW C
  PROVE  Spec => [](Circular(C) => \A i \in C : ~processed[i])
<1> DEFINE J == Circular(C) => \A i \in C : ~processed[i]
<1>1. Init => J
  BY DEF Init, Circular
<1>2. ASSUME IInv, J, [Next]_vars
      PROVE  J'
  <2>1. SUFFICES ASSUME Circular(C)', NEW i \in C
                 PROVE  ~processed'[i]
    OBVIOUS
  <2>2. decl' = decl
    BY <1>2 DEF Next, vars, FindDependencies, CheckCycle, StartValues, FillGround, FillSuccessor,
                FillEqual, FillLater, EndOfRound, UnifySign, StartBacking, FindBacking, Finish
  <2>3. Circular(C) /\ i \in Constants
    BY <2>1, <2>2 DEF Circular, Constants, DependencyOf, First
  <2>4. ~processed[i] /\ DependencyOf(i) \in C /\ ~processed[DependencyOf(i)]
    BY <1>2, <2>3 DEF Circular
  <2>5. DependencyOf(i) # 0
    BY <2>3, <2>4, DeclFacts, <1>2 DEF IInv, Circular, Constants
  <2>6. processed \in [Constants -> BOOLEAN]
    BY <1>2 DEF IInv, TypeOK
  <2>7. phase = "values" => dependency[i] = DependencyOf(i)
    BY <1>2, <2>3 DEF IInv, DependenciesFound
  <2>8. CASE FillGround
    BY <2>3, <2>4, <2>5, <2>6, <2>7, <2>8 DEF FillGround, Give
  <2>9. CASE FillSuccessor \/ FillEqual
    <3>1. at # i
      BY <2>4, <2>7, <2>9 DEF FillSuccessor, FillEqual
    <3>2. processed' = processed \/ processed' = [processed EXCEPT ![at] = TRUE]
      BY <2>9 DEF FillSuccessor, FillEqual, Give
    <3> QED
      BY <2>3, <2>4, <2>6, <3>1, <3>2
  <2>10. CASE processed' = processed
    BY <2>4, <2>10
  <2> QED
    BY <1>2, <2>8, <2>9, <2>10
       DEF Next, vars, FindDependencies, CheckCycle, StartValues, FillLater, EndOfRound, UnifySign,
           StartBacking, FindBacking, Finish
<1> HIDE DEF J
<1>3. Spec => []J
  BY InitIInv, StepIInv, <1>1, <1>2, PTL DEF Spec
<1> QED
  BY <1>3 DEF J

-----------------------------------------------------------------------------
(***************************************************************************)
(* Signs and backing types, for all declarations and all limits: after the *)
(* loop that unifies signs all constants of an enumeration have one, and   *)
(* the type then chosen is the smallest that holds them.                   *)
(***************************************************************************)

\* As values are given, a constant is signed if its value is negative.
SignOfValue(i) == signedness[i] <=> value[i] < 0

\* All constants of e have one sign and fit the widest type of that sign, which
\* is signed only if one of them has to be.
OneSign(e, signed) ==
  /\ \A i \in Of(e) : signedness[i] = signed /\ value[i] \in RoomOf(4, signed)
  /\ signed => \E i \in Of(e) : value[i] < 0
Unified(e) == \E signed \in BOOLEAN : OneSign(e, signed)

\* The backing type of e is the smallest for its constants.
Backed(e) ==
  \E k \in 1..4, signed \in BOOLEAN :
    /\ backing[e] = IF signed THEN SignedTypes[k] ELSE UnsignedTypes[k]
    /\ \A i \in Of(e) : value[i] \in RoomOf(k, signed) /\ signedness[i] = signed
    /\ \A m \in 1..(k - 1), s \in BOOLEAN : \E i \in Of(e) : value[i] \notin RoomOf(m, s)

\* The enumerations the loop over constants has been at.
Passed == {decl.enum[i] : i \in {i \in Constants : i < at}}

Signs ==
  /\ phase \in {"dependencies", "cycles", "values"} => \A i \in Constants : SignOfValue(i)
  /\ phase = "signs" =>
       /\ \A i \in Constants : decl.enum[i] \notin Passed => SignOfValue(i)
       /\ ~errored => \A e \in Passed : Unified(e)
  /\ phase \in {"backing", "done"} => \A e \in Enums : Unified(e)
Backings ==
  /\ phase = "backing" => \A e \in Passed : Backed(e)
  /\ phase = "done" => \A e \in Enums : Backed(e)

BInv == IInv /\ Signs /\ Backings
-----------------------------------------------------------------------------
\* The least and the greatest of some values

LEMMA LeastExists ==
  ASSUME NEW a \in Int, NEW S \in SUBSET Int, S # {}, \A x \in S : a <= x
  PROVE  Min(S) \in S /\ \A x \in S : Min(S) <= x
<1> DEFINE T == {x - a : x \in S}
<1>1. T \subseteq Nat /\ T # {}
  <2>1. \A x \in S : x - a \in Nat
    OBVIOUS
  <2>2. PICK x \in S : TRUE
    OBVIOUS
  <2>3. x - a \in T
    BY <2>2
  <2> QED
    BY <2>1, <2>3
<1>2. PICK t \in T : \A u \in T : ~(<<u, t>> \in OpToRel(<, Nat))
  BY <1>1, NatLessThanWellFounded, WFMin
<1>3. \A u \in T : ~(u < t)
  BY <1>1, <1>2 DEF OpToRel
<1>4. PICK x \in S : t = x - a
  OBVIOUS
<1>5. \A y \in S : x <= y
  <2> TAKE y \in S
  <2>1. ~(y - a < x - a)
    BY <1>3, <1>4
  <2> QED
    BY <2>1
<1> QED
  BY <1>5 DEF Min

LEMMA GreatestExists ==
  ASSUME NEW b \in Int, NEW S \in SUBSET Int, S # {}, \A x \in S : x <= b
  PROVE  Max(S) \in S /\ \A x \in S : x <= Max(S)
<1> DEFINE T == {b - x : x \in S}
<1>1. T \subseteq Nat /\ T # {}
  <2>1. \A x \in S : b - x \in Nat
    OBVIOUS
  <2>2. PICK x \in S : TRUE
    OBVIOUS
  <2>3. b - x \in T
    BY <2>2
  <2> QED
    BY <2>1, <2>3
<1>2. PICK t \in T : \A u \in T : ~(<<u, t>> \in OpToRel(<, Nat))
  BY <1>1, NatLessThanWellFounded, WFMin
<1>3. \A u \in T : ~(u < t)
  BY <1>1, <1>2 DEF OpToRel
<1>4. PICK x \in S : t = b - x
  OBVIOUS
<1>5. \A y \in S : x >= y
  <2> TAKE y \in S
  <2>1. ~(b - y < b - x)
    BY <1>3, <1>4
  <2> QED
    BY <2>1
<1>6. Max(S) \in S /\ \A y \in S : Max(S) >= y
  BY <1>5 DEF Max
<1> QED
  BY <1>6

\* The least of some numbers up to three comes after none of them.
LEMMA NoneBefore ==
  ASSUME NEW S \in SUBSET (1..3)
  PROVE  /\ Min(S \cup {4}) \in S \cup {4}
         /\ \A m \in 1..3 : m < Min(S \cup {4}) => m \notin S
<1> DEFINE T == S \cup {4}
<1>1. T \in SUBSET Int /\ T # {} /\ \A x \in T : 1 <= x
  OBVIOUS
<1> HIDE DEF T
<1>2. 1 \in Int
  OBVIOUS
<1>3. Min(T) \in T /\ \A x \in T : Min(T) <= x
  BY <1>1, <1>2, LeastExists
<1>4. \A m \in T : ~(m < Min(T))
  <2> TAKE m \in T
  <2>1. m \in Int /\ Min(T) \in Int /\ Min(T) <= m
    BY <1>1, <1>3
  <2> QED
    BY <2>1
<1> QED
  BY <1>3, <1>4 DEF T
-----------------------------------------------------------------------------
\* The type chosen is the smallest

LEMMA LimitFacts ==
  /\ \A k \in 1..4 : Limits[k] \in Nat
  /\ \A k \in 1..4 : Least(Limits[k]) \in Int /\ UnsignedMax(Limits[k]) \in Nat
  /\ \A k \in 1..4 : Least(Limits[k]) < 0 /\ Limits[k] < UnsignedMax(Limits[k])
  /\ Limits[4] = LongMax
<1>1. Limits[1] = ByteMax /\ Limits[2] = ShortMax /\ Limits[3] = IntMax /\ Limits[4] = LongMax
  BY DEF Limits
<1>2. \A k \in 1..4 : k = 1 \/ k = 2 \/ k = 3 \/ k = 4
  OBVIOUS
<1>3. \A k \in 1..4 : Limits[k] \in Nat
  BY <1>1, <1>2, LimitsAssumption
<1> QED
  BY <1>1, <1>3 DEF Least, UnsignedMax

LEMMA BackingFits ==
  ASSUME TypeOK, NEW e, NEW signed \in BOOLEAN, OneSign(e, signed),
         NEW values, values = {value[i] : i \in Of(e)} \cup {0}
  PROVE  \E k \in 1..4 :
           /\ BackingType(Min(values), Max(values)) = IF signed THEN SignedTypes[k] ELSE UnsignedTypes[k]
           /\ \A i \in Of(e) : value[i] \in RoomOf(k, signed)
           /\ \A m \in 1..(k - 1), s \in BOOLEAN : \E i \in Of(e) : value[i] \notin RoomOf(m, s)
<1> DEFINE min == Min(values)
           max == Max(values)
           fits == {k \in 1..3 : IF min = 0 THEN max <= UnsignedMax(Limits[k])
                                 ELSE max <= Limits[k] /\ min >= Least(Limits[k])}
           k == Min(fits \cup {4})
<1>1. \A i \in Of(e) : i \in Constants /\ value[i] \in Integral
  BY DEF Of, TypeOK
<1>2. /\ values \in SUBSET Int /\ 0 \in values
      /\ \A x \in values : Least(LongMax) <= x /\ x <= UnsignedMax(LongMax)
      /\ Least(LongMax) \in Int /\ UnsignedMax(LongMax) \in Int
  <2>1. Integral \subseteq Int /\ 0 \in Integral /\ Least(LongMax) \in Int /\ UnsignedMax(LongMax) \in Int
    BY LimitsAssumption DEF Integral, Least, UnsignedMax
  <2>2. \A x \in values : x \in Integral
    BY <1>1, <2>1
  <2> QED
    BY <2>1, <2>2 DEF Integral
<1>3. min \in values /\ \A x \in values : min <= x
  BY <1>2, LeastExists
<1>4. max \in values /\ \A x \in values : x <= max
  BY <1>2, GreatestExists
<1>5. /\ min \in Int /\ max \in Int /\ min <= 0 /\ 0 <= max
      /\ min # 0 => \E i \in Of(e) : value[i] = min
      /\ max # 0 => \E i \in Of(e) : value[i] = max
      /\ \A i \in Of(e) : min <= value[i] /\ value[i] <= max /\ value[i] \in Int
  BY <1>2, <1>3, <1>4
<1>6. fits \in SUBSET (1..3)
  OBVIOUS
<1>7. k \in fits \cup {4} /\ \A m \in 1..3 : m < k => m \notin fits
  BY <1>6, NoneBefore
<1>8. BackingType(min, max) = IF min = 0 THEN UnsignedTypes[k] ELSE SignedTypes[k]
  BY DEF BackingType
<1>9. min = 0 <=> ~signed
  <2>1. CASE signed
    BY <1>5, <2>1 DEF OneSign
  <2>2. CASE ~signed
    <3>1. \A i \in Of(e) : 0 <= value[i]
      BY <1>5, <2>2, LimitFacts DEF OneSign, RoomOf
    <3>2. min # 0 => 0 <= min
      BY <1>5, <3>1
    <3> QED
      BY <1>5, <2>2, <3>2
  <2> QED
    BY <2>1, <2>2
<1> HIDE DEF min, max, k
<1>10. k \in 1..4
  BY <1>6, <1>7
<1>11. ASSUME NEW i \in Of(e)
       PROVE  value[i] \in RoomOf(k, signed)
  <2>1. CASE k = 4
    BY <1>11, <2>1 DEF OneSign
  <2>2. CASE k \in fits /\ signed
    <3>1. max <= Limits[k] /\ min >= Least(Limits[k])
      BY <1>9, <2>2
    <3> QED
      BY <1>5, <1>10, <2>2, <3>1, LimitFacts DEF RoomOf
  <2>3. CASE k \in fits /\ ~signed
    <3>1. max <= UnsignedMax(Limits[k])
      BY <1>9, <2>3
    <3>2. 0 <= value[i]
      BY <1>5, <1>9, <2>3
    <3> QED
      BY <1>5, <1>10, <2>3, <3>1, <3>2, LimitFacts DEF RoomOf
  <2> QED
    BY <1>7, <2>1, <2>2, <2>3
<1>12. ASSUME NEW m \in 1..(k - 1), NEW s \in BOOLEAN
       PROVE  \E i \in Of(e) : value[i] \notin RoomOf(m, s)
  <2>1. m \in 1..3 /\ m < k /\ m \in 1..4
    BY <1>10
  <2>2. m \notin fits
    BY <1>7, <2>1
  <2>3. /\ Least(Limits[m]) \in Int /\ UnsignedMax(Limits[m]) \in Int /\ Limits[m] \in Int
        /\ Least(Limits[m]) < 0 /\ Limits[m] < UnsignedMax(Limits[m]) /\ 0 <= Limits[m]
    BY <2>1, LimitFacts
  <2>4. CASE ~signed
    <3>1. max > UnsignedMax(Limits[m])
      BY <1>5, <1>9, <2>1, <2>2, <2>3, <2>4
    <3>2. PICK i \in Of(e) : value[i] = max
      BY <1>5, <2>3, <3>1
    <3>3. value[i] \notin RoomOf(m, s)
      BY <1>5, <2>3, <3>1, <3>2 DEF RoomOf
    <3> QED
      BY <3>3
  <2>5. CASE signed /\ s
    <3>1. max > Limits[m] \/ min < Least(Limits[m])
      BY <1>5, <1>9, <2>1, <2>2, <2>3, <2>5
    <3>2. CASE max > Limits[m]
      <4>1. PICK i \in Of(e) : value[i] = max
        BY <1>5, <2>3, <3>2
      <4>2. value[i] \notin RoomOf(m, s)
        BY <1>5, <2>3, <2>5, <3>2, <4>1 DEF RoomOf
      <4> QED
        BY <4>2
    <3>3. CASE min < Least(Limits[m])
      <4>1. PICK i \in Of(e) : value[i] = min
        BY <1>5, <2>3, <3>3
      <4>2. value[i] \notin RoomOf(m, s)
        BY <1>5, <2>3, <2>5, <3>3, <4>1 DEF RoomOf
      <4> QED
        BY <4>2
    <3> QED
      BY <3>1, <3>2, <3>3
  <2>6. CASE signed /\ ~s
    <3>1. PICK i \in Of(e) : value[i] = min
      BY <1>5, <1>9, <2>6
    <3>2. min < 0
      BY <1>5, <1>9, <2>6
    <3>3. value[i] \notin RoomOf(m, s)
      BY <1>5, <2>6, <3>1, <3>2 DEF RoomOf
    <3> QED
      BY <3>3
  <2> QED
    BY <2>4, <2>5, <2>6
<1>13. BackingType(min, max) = IF signed THEN SignedTypes[k] ELSE UnsignedTypes[k]
  BY <1>8, <1>9
<1> HIDE DEF fits
<1> QED
  BY <1>10, <1>11, <1>12, <1>13 DEF min, max
-----------------------------------------------------------------------------
\* Enumerations stay together: one that begins at `at` has not been passed.

LEMMA PassedFacts ==
  ASSUME TypeOK, at <= decl.size
  PROVE  /\ at \in Constants /\ decl.enum[at] \in Enums
         /\ First(at) => decl.enum[at] \notin Passed
         /\ ~First(at) => decl.enum[at] \in Passed
<1>1. /\ decl.size \in Nat /\ decl.enum \in [1..decl.size -> Nat] /\ at \in Nat \ {0}
      /\ \A i, j \in 1..decl.size : i <= j => decl.enum[i] <= decl.enum[j]
  BY DEF TypeOK, WellDeclared
<1>2. at \in Constants /\ decl.enum[at] \in Enums
  BY <1>1 DEF Constants, Enums
<1>3. ASSUME First(at), NEW i \in Constants, i < at
      PROVE  decl.enum[i] # decl.enum[at]
  <2>1. i \in 1..decl.size /\ at - 1 \in 1..decl.size /\ at \in 1..decl.size /\ i <= at - 1
    BY <1>1, <1>2, <1>3 DEF Constants
  <2>2. decl.enum[i] <= decl.enum[at - 1] /\ decl.enum[at - 1] <= decl.enum[at]
    BY <1>1, <2>1
  <2>3. decl.enum[at - 1] # decl.enum[at]
    BY <1>1, <1>3, <2>1 DEF First
  <2>4. decl.enum[i] \in Nat /\ decl.enum[at - 1] \in Nat /\ decl.enum[at] \in Nat
    BY <1>1, <2>1
  <2> QED
    BY <2>2, <2>3, <2>4
<1>4. ASSUME ~First(at)
      PROVE  decl.enum[at] \in Passed
  <2>1. at - 1 \in Constants /\ at - 1 < at /\ decl.enum[at - 1] = decl.enum[at]
    BY <1>1, <1>2, <1>4 DEF First, Constants
  <2> QED
    BY <2>1 DEF Passed
<1> QED
  BY <1>2, <1>3, <1>4 DEF Passed

\* The loop has been at the enumeration of constant at when it moves on.
LEMMA PassedNext ==
  ASSUME TypeOK, at <= decl.size, at' = at + 1, decl' = decl
  PROVE  Passed' = Passed \cup {decl.enum[at]}
<1>1. at \in Constants /\ at \in Int /\ Constants' = Constants /\ Constants \subseteq Int
  BY PassedFacts DEF TypeOK, Constants
<1>2. \A i \in Constants : i < at + 1 <=> i < at \/ i = at
  BY <1>1
<1>3. Passed' = {decl.enum[i] : i \in {i \in Constants : i < at + 1}}
  BY <1>1 DEF Passed
<1>4. ASSUME NEW e
      PROVE  e \in Passed' <=> e \in Passed \/ e = decl.enum[at]
  BY <1>1, <1>2, <1>3 DEF Passed
<1> QED
  BY <1>4

\* At the end it has been at all of them.
LEMMA PassedAll ==
  ASSUME TypeOK, at > decl.size
  PROVE  Enums \subseteq Passed
<1>1. \A i \in Constants : i < at
  BY DEF TypeOK, WellDeclared, Constants
<1> QED
  BY <1>1 DEF Enums, Passed

\* At the start it has been at none.
LEMMA PassedNone ==
  ASSUME TypeOK, at' = 1, decl' = decl
  PROVE  Passed' = {}
<1>1. \A i \in Constants' : ~(i < 1)
  BY DEF TypeOK, WellDeclared, Constants
<1> QED
  BY <1>1 DEF Passed

\* What is said of an enumeration depends on its values, signs and backing type.
LEMMA EnumsKept ==
  ASSUME UNCHANGED <<decl, value, signedness>>
  PROVE  /\ Enums' = Enums /\ Constants' = Constants
         /\ \A i : SignOfValue(i)' = SignOfValue(i)
         /\ \A e : Unified(e)' = Unified(e)
         /\ \A e : backing'[e] = backing[e] => Backed(e)' = Backed(e)
<1>1. Constants' = Constants /\ Enums' = Enums /\ \A e : Of(e)' = Of(e)
  BY DEF Constants, Enums, Of
<1>2. \A i : SignOfValue(i)' = SignOfValue(i)
  BY DEF SignOfValue
<1>3. \A e : Unified(e)' = Unified(e)
  BY <1>1 DEF Unified, OneSign, RoomOf
<1>4. \A e : backing'[e] = backing[e] => Backed(e)' = Backed(e)
  BY <1>1 DEF Backed, RoomOf
<1> QED
  BY <1>1, <1>2, <1>3, <1>4
-----------------------------------------------------------------------------
\* One action at a time

\* A value that is given comes with its sign.
LEMMA GiveSigns ==
  ASSUME TypeOK, Signs, phase = "values", NEW v, Give(v), decl' = decl
  PROVE  Signs' /\ Backings'
<1>1. Constants' = Constants /\ phase' = "values"
  BY DEF Constants, Give
<1>2. ASSUME NEW i \in Constants
      PROVE  SignOfValue(i)'
  <2>1. value \in [Constants -> Integral] /\ signedness \in [Constants -> BOOLEAN] /\ SignOfValue(i)
    BY DEF TypeOK, Signs
  <2>2. CASE i = at
    BY <1>2, <2>1, <2>2 DEF Give, SignOfValue
  <2>3. CASE i # at
    BY <1>2, <2>1, <2>3 DEF Give, SignOfValue
  <2> QED
    BY <2>2, <2>3
<1> QED
  BY <1>1, <1>2 DEF Signs, Backings

\* The loop that unifies signs leaves the enumerations passed with one sign
\* each and does not touch those to come.
LEMMA UnifySigns ==
  ASSUME TypeOK, Signs, UnifySign
  PROVE  Signs' /\ Backings'
<1> DEFINE e == decl.enum[at]
           signed == First(at) /\ NeedsSigned(e) /\ ~NeedsUnsigned(e)
<1>1. /\ at <= decl.size /\ phase = "signs" /\ phase' = "signs" /\ decl' = decl /\ at' = at + 1
      /\ errored' = (errored \/ (First(at) /\ NeedsSigned(e) /\ NeedsUnsigned(e)))
      /\ signedness' = [i \in Constants |-> (signed /\ i \in Of(e)) \/ signedness[i]]
  BY DEF UnifySign
<1>2. value' = value
  BY UnifyValue
<1>3. Passed' = Passed \cup {e}
  BY <1>1, PassedNext
<1>4. /\ at \in Constants /\ e \in Enums
      /\ First(at) => e \notin Passed
      /\ ~First(at) => e \in Passed
  BY <1>1, PassedFacts
<1>5. Constants' = Constants /\ \A d : Of(d)' = Of(d)
  BY <1>1 DEF Constants, Of
<1>6. signedness \in [Constants -> BOOLEAN] /\ value \in [Constants -> Integral]
  BY DEF TypeOK
<1>7. \A i \in Constants : ~signed \/ i \notin Of(e) => signedness'[i] = signedness[i]
  BY <1>1, <1>6
<1>8. \A i \in Of(e) : signed => signedness'[i] = TRUE
  BY <1>1 DEF Of
<1>9. \A d : \A i \in Of(d) : i \in Constants /\ decl.enum[i] = d
  BY DEF Of
<1> HIDE DEF signed
<1>10. ASSUME NEW i \in Constants, decl.enum[i] \notin Passed'
       PROVE  SignOfValue(i)'
  <2>1. decl.enum[i] \notin Passed /\ decl.enum[i] # e
    BY <1>3, <1>10
  <2>2. signedness'[i] = signedness[i]
    BY <1>7, <1>9, <2>1
  <2> QED
    BY <1>1, <1>2, <2>1, <2>2 DEF SignOfValue, Signs
<1>11. ASSUME ~errored', NEW d \in Passed'
       PROVE  Unified(d)'
  <2>1. CASE d # e \/ ~First(at)
    <3>1. d \in Passed /\ ~errored
      BY <1>1, <1>3, <1>4, <1>11, <2>1
    <3>2. \A i \in Of(d) : signedness'[i] = signedness[i]
      <4>1. CASE d # e
        BY <1>7, <1>9, <4>1
      <4>2. CASE ~First(at)
        BY <1>7, <1>9, <4>2 DEF signed
      <4> QED
        BY <2>1, <4>1, <4>2
    <3>3. Unified(d)
      BY <1>1, <3>1 DEF Signs
    <3> QED
      BY <1>2, <1>5, <3>2, <3>3 DEF Unified, OneSign, RoomOf
  <2>2. CASE d = e /\ First(at)
    <3>1. \A i \in Of(e) : (signedness[i] <=> value[i] < 0) /\ value[i] \in Integral
      BY <1>1, <1>4, <1>6, <1>9, <2>2 DEF Signs, SignOfValue
    <3>2. ~(NeedsSigned(e) /\ NeedsUnsigned(e))
      BY <1>1, <1>11, <2>2
    <3>3. /\ RoomOf(4, TRUE) = Least(LongMax) .. LongMax
          /\ RoomOf(4, FALSE) = 0 .. UnsignedMax(LongMax)
      BY DEF RoomOf, Limits
    <3>4. LongMax \in Nat /\ Least(LongMax) \in Int /\ UnsignedMax(LongMax) \in Int
      BY LimitsAssumption DEF Least, UnsignedMax
    <3>5. CASE NeedsSigned(e)
      <4>1. signed
        BY <2>2, <3>2, <3>5 DEF signed
      <4>2. \A i \in Of(e) : value[i] \in Least(LongMax) .. LongMax
        BY <3>1, <3>2, <3>4, <3>5 DEF Integral, NeedsUnsigned
      <4>3. \E i \in Of(e) : value[i] < 0
        BY <3>1, <3>5 DEF NeedsSigned
      <4>4. OneSign(d, TRUE)'
        BY <1>2, <1>5, <1>8, <2>2, <3>3, <4>1, <4>2, <4>3 DEF OneSign, RoomOf
      <4> QED
        BY <4>4 DEF Unified
    <3>6. CASE ~NeedsSigned(e)
      <4>1. \A i \in Of(e) : signedness'[i] = signedness[i]
        BY <1>7, <1>9, <3>6 DEF signed
      <4>2. \A i \in Of(e) : signedness[i] = FALSE
        BY <1>6, <1>9, <3>6 DEF NeedsSigned
      <4>3. \A i \in Of(e) : value[i] \in 0 .. UnsignedMax(LongMax)
        BY <3>1, <3>4, <4>2 DEF Integral
      <4>4. OneSign(d, FALSE)'
        BY <1>2, <1>5, <2>2, <3>3, <4>1, <4>2, <4>3 DEF OneSign, RoomOf
      <4> QED
        BY <4>4 DEF Unified
    <3> QED
      BY <3>5, <3>6
  <2> QED
    BY <2>1, <2>2
<1> QED
  BY <1>1, <1>5, <1>10, <1>11 DEF Signs, Backings

\* The type found for an enumeration is the smallest for its constants.
LEMMA FindsBacking ==
  ASSUME TypeOK, Signs, Backings, FindBacking
  PROVE  Signs' /\ Backings'
<1> DEFINE e == decl.enum[at]
           values == {value[i] : i \in Of(e)} \cup {0}
<1>1. /\ at <= decl.size /\ phase = "backing" /\ phase' = "backing" /\ at' = at + 1
      /\ UNCHANGED <<decl, value, signedness>>
      /\ backing' = [backing EXCEPT ![e] = BackingType(Min(values), Max(values))]
  BY DEF FindBacking
<1>2. /\ Enums' = Enums /\ Constants' = Constants
      /\ \A d : Unified(d)' = Unified(d)
      /\ \A d : backing'[d] = backing[d] => Backed(d)' = Backed(d)
  BY <1>1, EnumsKept
<1>3. Passed' = Passed \cup {e} /\ e \in Enums
  BY <1>1, PassedFacts, PassedNext
<1>4. ASSUME NEW d, d = e
      PROVE  Backed(d)'
  <2>1. PICK signed \in BOOLEAN : OneSign(d, signed)
    BY <1>1, <1>3, <1>4 DEF Signs, Unified
  <2>2. PICK k \in 1..4 :
          /\ BackingType(Min(values), Max(values)) = IF signed THEN SignedTypes[k] ELSE UnsignedTypes[k]
          /\ \A i \in Of(d) : value[i] \in RoomOf(k, signed)
          /\ \A m \in 1..(k - 1), s \in BOOLEAN : \E i \in Of(d) : value[i] \notin RoomOf(m, s)
    BY <1>4, <2>1, BackingFits
  <2>3. backing'[d] = BackingType(Min(values), Max(values))
    BY <1>1, <1>3, <1>4 DEF TypeOK
  <2>4. \A i \in Of(d) : signedness[i] = signed
    BY <2>1 DEF OneSign
  <2>5. Of(d)' = Of(d) /\ value' = value /\ signedness' = signedness
    BY <1>1 DEF Of, Constants
  <2> HIDE DEF values
  <2> QED
    BY <2>2, <2>3, <2>4, <2>5 DEF Backed, RoomOf
<1>5. ASSUME NEW d \in Passed, d # e
      PROVE  Backed(d)'
  <2>1. d \in Enums /\ Backed(d)
    BY <1>1 DEF Backings, Passed, Enums
  <2>2. backing'[d] = backing[d]
    BY <1>1, <1>5, <2>1 DEF TypeOK
  <2> QED
    BY <1>2, <2>1, <2>2
<1> QED
  BY <1>1, <1>2, <1>3, <1>4, <1>5 DEF Signs, Backings
-----------------------------------------------------------------------------
LEMMA InitBInv == Init => BInv
<1> SUFFICES ASSUME Init
             PROVE  BInv
  OBVIOUS
<1>1. IInv
  BY InitIInv
<1>2. \A i \in Constants : signedness[i] = FALSE /\ value[i] = 0
  BY DEF Init
<1>3. \A i \in Constants : SignOfValue(i)
  <2>1. ~(0 < 0)
    OBVIOUS
  <2> QED
    BY <1>2, <2>1 DEF SignOfValue
<1>4. phase = "dependencies"
  BY DEF Init
<1> QED
  BY <1>1, <1>3, <1>4 DEF BInv, Signs, Backings

LEMMA StepBInv == BInv /\ [Next]_vars => BInv'
<1> SUFFICES ASSUME BInv, [Next]_vars
             PROVE  Signs' /\ Backings'
  BY StepIInv DEF BInv
<1>a. TypeOK /\ Signs /\ Backings
  BY DEF BInv, IInv
<1>b. ASSUME UNCHANGED <<decl, value, signedness, backing>>
      PROVE  /\ Enums' = Enums /\ Constants' = Constants
             /\ \A i : SignOfValue(i)' = SignOfValue(i)
             /\ \A e : Unified(e)' = Unified(e)
             /\ \A e : Backed(e)' = Backed(e)
  BY <1>b, EnumsKept
<1>1. CASE FindDependencies
  BY <1>1, <1>a, <1>b DEF FindDependencies, Signs, Backings
<1>2. CASE CheckCycle
  BY <1>2, <1>a, <1>b DEF CheckCycle, Signs, Backings
<1>3. CASE StartValues
  BY <1>3, <1>a, <1>b DEF StartValues, Signs, Backings
<1>4. CASE FillGround
  BY <1>4, <1>a, GiveSigns DEF FillGround
<1>5. CASE FillSuccessor
  <2>1. CASE value[dependency[at]] = UnsignedMax(LongMax)
    <3>1. phase' = "failed"
      BY <1>5, <2>1 DEF FillSuccessor
    <3> QED
      BY <3>1 DEF Signs, Backings
  <2>2. CASE value[dependency[at]] # UnsignedMax(LongMax)
    BY <1>5, <1>a, <2>2, GiveSigns DEF FillSuccessor
  <2> QED
    BY <2>1, <2>2
<1>6. CASE FillEqual
  BY <1>6, <1>a, GiveSigns DEF FillEqual
<1>7. CASE FillLater
  BY <1>7, <1>a, <1>b DEF FillLater, Signs, Backings
<1>8. CASE EndOfRound
  <2>1. Passed' = {}
    BY <1>8, <1>a, PassedNone DEF EndOfRound
  <2> QED
    BY <1>8, <1>a, <1>b, <2>1 DEF EndOfRound, Signs, Backings
<1>9. CASE UnifySign
  BY <1>9, <1>a, UnifySigns
<1>10. CASE StartBacking
  <2>1. Passed' = {} /\ Enums \subseteq Passed
    BY <1>10, <1>a, PassedNone, PassedAll DEF StartBacking
  <2> QED
    BY <1>10, <1>a, <1>b, <2>1 DEF StartBacking, Signs, Backings
<1>11. CASE FindBacking
  BY <1>11, <1>a, FindsBacking
<1>12. CASE Finish
  <2>1. Enums \subseteq Passed
    BY <1>12, <1>a, PassedAll DEF Finish
  <2> QED
    BY <1>12, <1>a, <1>b, <2>1 DEF Finish, Signs, Backings
<1>13. CASE UNCHANGED vars
  <2>1. Passed' = Passed
    BY <1>13 DEF vars, Passed, Constants
  <2> QED
    BY <1>13, <1>a, <1>b, <2>1 DEF vars, Signs, Backings
<1> QED
  BY <1>1, <1>2, <1>3, <1>4, <1>5, <1>6, <1>7, <1>8, <1>9, <1>10, <1>11, <1>12, <1>13 DEF Next

(***************************************************************************)
(* When the pass is done, every enumeration has the smallest backing type  *)
(* that holds its constants, all read with the sign of that type, whatever *)
(* the declarations and the widths of the types (buildStab.c:872-1007).    *)
(***************************************************************************)
THEOREM BackingAlwaysHolds == Spec => []BackingHolds
<1>1. Init => BInv
  BY InitBInv
<1>2. BInv /\ [Next]_vars => BInv'
  BY StepBInv
<1>3. BInv => BackingHolds
  BY DEF BInv, Backings, Backed, BackingHolds
<1> QED
  BY <1>1, <1>2, <1>3, PTL DEF Spec
-----------------------------------------------------------------------------
(***************************************************************************)
(* The values declared: what the chain of a constant comes to is what the  *)
(* rounds compute along it.                                                *)
(***************************************************************************)
\* What DependencyOf is about.
Dependencies == \A i \in Constants : DependencyOf(i) \in Constants \cup {0}

LEMMA DependenciesTyped == TypeOK => Dependencies /\ decl.size \in Nat
  BY DeclFacts DEF Dependencies, Constants

\* A set with each one's dependency.
Closed(C) == \A k \in C : DependencyOf(k) \in C \cup {0}

LEMMA ChainFacts ==
  ASSUME Dependencies, NEW i \in Constants
  PROVE  /\ Chain(i) \in SUBSET Constants /\ i \in Chain(i) /\ Closed(Chain(i))
         /\ \A C \in SUBSET Constants : i \in C /\ Closed(C) => Chain(i) \subseteq C
<1>1. Chain(i) \in SUBSET Constants /\ i \in Chain(i)
  BY DEF Chain
<1>2. ASSUME NEW C \in SUBSET Constants, i \in C, Closed(C)
      PROVE  Chain(i) \subseteq C
  BY <1>2 DEF Chain, Closed
<1>3. ASSUME NEW k \in Chain(i), DependencyOf(k) # 0
      PROVE  DependencyOf(k) \in Chain(i)
  <2>1. k \in Constants /\ DependencyOf(k) \in Constants
    BY <1>1, <1>3 DEF Dependencies
  <2>2. ASSUME NEW C \in SUBSET Constants, i \in C, Closed(C)
        PROVE  DependencyOf(k) \in C
    BY <1>2, <1>3, <2>2 DEF Closed
  <2> QED
    BY <2>1, <2>2 DEF Chain, Closed
<1> QED
  BY <1>1, <1>2, <1>3 DEF Closed

\* A constant without a dependency is a chain of its own.
LEMMA ChainEnds ==
  ASSUME Dependencies, NEW i \in Constants, DependencyOf(i) = 0
  PROVE  Chain(i) = {i}
<1>1. Closed({i})
  BY DEF Closed
<1> QED
  BY <1>1, ChainFacts

\* The chain of another one is that of its dependency, and itself.
LEMMA ChainGoesOn ==
  ASSUME Dependencies, NEW i \in Constants, DependencyOf(i) # 0
  PROVE  Chain(i) = {i} \cup Chain(DependencyOf(i))
<1> DEFINE d == DependencyOf(i)
<1>1. d \in Constants
  BY DEF Dependencies
<1>2. {i} \cup Chain(d) \subseteq Chain(i)
  <2>1. d \in Chain(i)
    BY ChainFacts DEF Closed
  <2> QED
    BY <1>1, <2>1, ChainFacts
<1>3. Closed({i} \cup Chain(d)) /\ {i} \cup Chain(d) \in SUBSET Constants
  BY <1>1, ChainFacts DEF Closed
<1> QED
  BY <1>2, <1>3, ChainFacts

LEMMA GroundedFacts ==
  ASSUME Dependencies, NEW i \in Constants
  PROVE  /\ DependencyOf(i) = 0 => i \in Grounded
         /\ DependencyOf(i) \in Grounded => i \in Grounded /\ i \notin Chain(DependencyOf(i))
<1>1. ASSUME DependencyOf(i) = 0 PROVE i \in Grounded
  <2>1. 0 \notin Constants
    BY DEF Constants
  <2> QED
    BY <1>1, <2>1 DEF Grounded, Circular
<1>2. ASSUME DependencyOf(i) \in Grounded PROVE i \in Grounded
  BY <1>2 DEF Grounded, Circular
<1>3. ASSUME DependencyOf(i) \in Grounded, i \in Chain(DependencyOf(i)) PROVE FALSE
  <2> DEFINE d == DependencyOf(i)
             C == {k \in Chain(d) : i \in Chain(k)}
  <2>1. d \in Constants /\ Chain(d) \in SUBSET Constants /\ d \in Chain(d) /\ Closed(Chain(d))
    BY <1>3, ChainFacts DEF Grounded
  <2>2. d # 0
    BY <2>1 DEF Constants
  <2>3. ASSUME NEW k \in C PROVE DependencyOf(k) \in C
    <3>1. k \in Constants /\ i \in Chain(k) /\ k \in Chain(d)
      BY <2>1
    <3>2. CASE k = i
      BY <1>3, <2>1, <3>2
    <3>3. CASE k # i
      <4>1. DependencyOf(k) # 0
        BY <3>1, <3>3, ChainEnds
      <4>2. i \in Chain(DependencyOf(k))
        BY <3>1, <3>3, <4>1, ChainGoesOn
      <4>3. DependencyOf(k) \in Chain(d)
        BY <2>1, <3>1, <4>1 DEF Closed
      <4> QED
        BY <4>2, <4>3
    <3> QED
      BY <3>2, <3>3
  <2>4. Circular(C) /\ C \in SUBSET Constants
    BY <2>1, <2>3 DEF Circular
  <2>5. d \in C
    BY <1>3, <2>1
  <2> HIDE DEF C
  <2> QED
    BY <1>3, <2>4, <2>5 DEF Grounded
<1> QED
  BY <1>1, <1>2, <1>3

LEMMA StatedTyped ==
  ASSUME TypeOK, NEW i \in Constants
  PROVE  Stated(i) \in Int
<1>1. decl.init[i] \in Initializers(decl.size)
  BY DeclFacts
<1>2. Integral \subseteq Int
  BY LimitsAssumption DEF Integral, Least, UnsignedMax
<1>3. CASE decl.init[i].kind = "literal"
  <2>1. decl.init[i] \in [kind : {"literal"}, value : Integral]
    BY <1>1, <1>3 DEF Initializers
  <2>2. decl.init[i].value \in Int
    BY <1>2, <2>1
  <2> QED
    BY <1>3, <2>2 DEF Stated
<1>4. CASE decl.init[i].kind # "literal"
  BY <1>4 DEF Stated
<1> QED
  BY <1>3, <1>4

\* A chain that is not circular ends with a constant.
LEMMA RootTyped ==
  ASSUME TypeOK, NEW i \in Grounded
  PROVE  Stated(CHOOSE j \in Roots(i) : TRUE) \in Int
<1>1. /\ Dependencies /\ i \in Constants /\ i \in Chain(i)
      /\ Chain(i) \in SUBSET Constants /\ Closed(Chain(i))
  BY DependenciesTyped, ChainFacts DEF Grounded
<1>2. Roots(i) # {}
  <2>1. SUFFICES ASSUME Roots(i) = {} PROVE FALSE
    OBVIOUS
  <2>2. \A k \in Chain(i) : DependencyOf(k) # 0
    BY <2>1 DEF Roots
  <2>3. Circular(Chain(i))
    BY <1>1, <2>2 DEF Closed, Circular
  <2> QED
    BY <1>1, <2>3 DEF Grounded
<1>3. (CHOOSE j \in Roots(i) : TRUE) \in Constants
  BY <1>1, <1>2 DEF Roots
<1> QED
  BY <1>3, StatedTyped

LEMMA DeclaredGround ==
  ASSUME TypeOK, NEW i \in Constants, DependencyOf(i) = 0
  PROVE  Declared(i) = Stated(i)
<1>1. Chain(i) = {i}
  BY ChainEnds, DependenciesTyped
<1>2. Roots(i) = {i} /\ Steps(i) = {}
  BY <1>1 DEF Roots, Steps
<1>3. (CHOOSE j \in Roots(i) : TRUE) = i
  BY <1>2
<1>4. Cardinality(Steps(i)) = 0
  BY <1>2, FS_EmptySet
<1>5. Stated(i) \in Int
  BY StatedTyped
<1>6. Declared(i) = Stated(i) + 0
  BY <1>3, <1>4 DEF Declared
<1> QED
  BY <1>5, <1>6

LEMMA DeclaredNext ==
  ASSUME TypeOK, NEW i \in Constants, DependencyOf(i) \in Grounded
  PROVE  /\ Declared(DependencyOf(i)) \in Int
         /\ Declared(i) = Declared(DependencyOf(i))
                          + (IF decl.init[i].kind = "none" THEN 1 ELSE 0)
<1> DEFINE d == DependencyOf(i)
           root == Stated(CHOOSE j \in Roots(d) : TRUE)
           n == Cardinality(Steps(d))
<1>1. d \in Constants /\ d # 0 /\ Dependencies /\ decl.size \in Nat
  BY DependenciesTyped DEF Grounded, Constants
<1>2. Chain(i) = {i} \cup Chain(d) /\ i \notin Chain(d) /\ Chain(d) \in SUBSET Constants
  BY <1>1, ChainGoesOn, GroundedFacts, ChainFacts
<1>3. Roots(i) = Roots(d)
  BY <1>1, <1>2 DEF Roots
<1>4. Steps(i) = IF decl.init[i].kind = "none" THEN Steps(d) \cup {i} ELSE Steps(d)
  BY <1>1, <1>2 DEF Steps
<1>5. i \notin Steps(d) /\ IsFiniteSet(Steps(d))
  <2>1. IsFiniteSet(1..decl.size)
    BY <1>1, FS_Interval
  <2>2. Steps(d) \subseteq 1..decl.size /\ i \notin Steps(d)
    BY <1>2 DEF Steps, Constants
  <2> QED
    BY <2>1, <2>2, FS_Subset
<1>6. n \in Nat /\ Cardinality(Steps(i)) = n + (IF decl.init[i].kind = "none" THEN 1 ELSE 0)
  <2>1. n \in Nat
    BY <1>5, FS_CardinalityType
  <2>2. CASE decl.init[i].kind = "none"
    <3>1. Cardinality(Steps(d) \cup {i}) = n + 1
      BY <1>5, FS_AddElement
    <3> QED
      BY <1>4, <2>1, <2>2, <3>1
  <2>3. CASE decl.init[i].kind # "none"
    BY <1>4, <2>1, <2>3
  <2> QED
    BY <2>1, <2>2, <2>3
<1>7. root \in Int
  BY RootTyped
<1>8. Declared(d) = root + n /\ Declared(i) = root + Cardinality(Steps(i))
  BY <1>3 DEF Declared
<1> HIDE DEF root, n
<1> QED
  BY <1>6, <1>7, <1>8

LEMMA ValueIsInt ==
  ASSUME TypeOK, NEW i \in Constants
  PROVE  value[i] \in Integral /\ value[i] \in Int /\ value[i] <= UnsignedMax(LongMax)
  BY LimitsAssumption DEF TypeOK, Integral, Least, UnsignedMax

LEMMA DeclaredKept ==
  ASSUME decl' = decl
  PROVE  /\ Constants' = Constants /\ Grounded' = Grounded
         /\ \A i : Declared(i)' = Declared(i) /\ DependencyOf(i)' = DependencyOf(i)
         /\ Unrepresentable' <=> Unrepresentable
<1>1. Constants' = Constants /\ \A i : DependencyOf(i)' = DependencyOf(i)
  BY DEF Constants, DependencyOf, First
<1>2. Grounded' = Grounded /\ \A i : Chain(i)' = Chain(i)
  BY <1>1 DEF Grounded, Circular, Chain
<1>3. \A i : Roots(i)' = Roots(i) /\ Steps(i)' = Steps(i) /\ Stated(i)' = Stated(i)
  BY <1>1, <1>2 DEF Roots, Steps, Stated
<1>4. \A i : Declared(i)' = Declared(i)
  BY <1>3 DEF Declared
<1> QED
  BY <1>1, <1>2, <1>4 DEF Unrepresentable

LEMMA DeclNeverChanges == [Next]_vars => decl' = decl
  BY DEF Next, vars, FindDependencies, CheckCycle, StartValues, FillGround, FillSuccessor,
         FillEqual, FillLater, EndOfRound, UnifySign, StartBacking, FindBacking, Finish

\* A value, once given, stays; and a constant is given one after the constant it
\* depends on, alone.
LEMMA GivenOnce ==
  ASSUME IInv, [Next]_vars, NEW i \in Constants, processed'[i]
  PROVE  \/ processed[i] /\ value'[i] = value[i]
         \/ /\ ~processed[i]
            /\ DependencyOf(i) \in Constants =>
                 /\ processed[DependencyOf(i)]
                 /\ value'[DependencyOf(i)] = value[DependencyOf(i)]
<1>1. processed \in [Constants -> BOOLEAN] /\ value \in [Constants -> Integral]
  BY DEF IInv, TypeOK
<1>2. phase = "values" => \A j \in Constants : dependency[j] = DependencyOf(j)
  BY DEF IInv, DependenciesFound
<1>3. CASE FillGround
  <2>1. 0 \notin Constants
    BY DEF Constants
  <2> QED
    BY <1>1, <1>2, <1>3, <2>1 DEF FillGround, Give
<1>4. CASE FillSuccessor \/ FillEqual
  <2>1. /\ ~processed[at] /\ processed[dependency[at]] /\ phase = "values"
        /\ (UNCHANGED <<processed, value>> \/ \E v : Give(v))
    BY <1>4 DEF FillSuccessor, FillEqual
  <2>2. i # at => processed'[i] = processed[i] /\ value'[i] = value[i]
    BY <1>1, <2>1 DEF Give
  <2>3. CASE i = at /\ ~processed[i]
    <3>1. processed[DependencyOf(i)] /\ DependencyOf(i) # at
      BY <1>2, <2>1, <2>3
    <3> QED
      BY <1>1, <2>1, <2>3, <3>1 DEF Give
  <2> QED
    BY <2>1, <2>2, <2>3
<1>5. CASE UNCHANGED <<processed, value>>
  BY <1>1, <1>5
<1>6. CASE UnifySign
  BY <1>5, <1>6, UnifyValue DEF UnifySign, IInv
<1> QED
  BY <1>3, <1>4, <1>5, <1>6
     DEF Next, vars, FindDependencies, CheckCycle, StartValues, FillLater, EndOfRound,
         StartBacking, FindBacking, Finish

LEMMA StepValuesDeclared == IInv /\ ValuesDeclared /\ [Next]_vars => ValuesDeclared'
<1> SUFFICES ASSUME IInv, ValuesDeclared, [Next]_vars
             PROVE  ValuesDeclared'
  OBVIOUS
<1>1. IInv' /\ decl' = decl
  BY StepIInv, DeclNeverChanges
<1>2. /\ Constants' = Constants /\ Grounded' = Grounded
      /\ \A i : Declared(i)' = Declared(i) /\ DependencyOf(i)' = DependencyOf(i)
  BY <1>1, DeclaredKept
<1>3. Dependencies
  BY DependenciesTyped DEF IInv
<1>4. SUFFICES ASSUME NEW i \in Constants, processed'[i]
               PROVE  i \in Grounded /\ value'[i] = Declared(i)
  BY <1>2 DEF ValuesDeclared
<1>5. CASE processed[i] /\ value'[i] = value[i]
  BY <1>5 DEF ValuesDeclared
<1>6. CASE /\ ~processed[i]
           /\ DependencyOf(i) \in Constants =>
                /\ processed[DependencyOf(i)]
                /\ value'[DependencyOf(i)] = value[DependencyOf(i)]
  <2>1. IF DependencyOf(i) = 0 THEN value'[i] = Stated(i)
        ELSE value'[i] = value'[DependencyOf(i)] + (IF decl.init[i].kind = "none" THEN 1 ELSE 0)
    BY <1>1, <1>2, <1>4 DEF IInv, ValuesFollow, Stated
  <2>2. CASE DependencyOf(i) = 0
    BY <1>3, <2>1, <2>2, DeclaredGround, GroundedFacts DEF IInv
  <2>3. CASE DependencyOf(i) # 0
    <3>1. DependencyOf(i) \in Constants
      BY <1>3, <2>3 DEF Dependencies
    <3>2. DependencyOf(i) \in Grounded /\ value'[DependencyOf(i)] = Declared(DependencyOf(i))
      BY <1>6, <3>1 DEF ValuesDeclared
    <3> QED
      BY <1>3, <2>1, <2>3, <3>2, DeclaredNext, GroundedFacts DEF IInv
  <2> QED
    BY <2>2, <2>3
<1> QED
  BY <1>4, <1>5, <1>6, GivenOnce

\* A constant that has its value got it from a chain that ends, and no step of
\* the pass gives it another.
THEOREM ValuesAlwaysDeclared == Spec => []ValuesDeclared
<1>1. Init => IInv /\ ValuesDeclared
  <2>1. Init => \A i \in Constants : ~processed[i]
    BY DEF Init
  <2> QED
    BY <2>1, InitIInv DEF ValuesDeclared
<1>2. IInv /\ ValuesDeclared /\ [Next]_vars => IInv' /\ ValuesDeclared'
  BY StepIInv, StepValuesDeclared
<1> QED
  BY <1>1, <1>2, PTL DEF Spec
-----------------------------------------------------------------------------
(***************************************************************************)
(* What the loops know of the reasons to refuse: past the first, every     *)
(* name stands for a constant; past the third, every constant has a value, *)
(* and an error met so far is one of the reasons.                          *)
(***************************************************************************)
Refusals ==
  /\ phase = "failed" => Unrepresentable
  /\ phase \notin {"dependencies", "failed", "crashed"} =>
       \A i \in Constants : decl.init[i].kind # "unknown"
  /\ phase \in {"cycles", "values"} => ~errored
  /\ phase \in {"signs", "backing", "done"} => \A i \in Constants : processed[i]
  /\ phase = "signs" /\ errored => Unrepresentable

RInv == BInv /\ ValuesDeclared /\ Refusals

\* A constant one past the largest value is declared to be past it.
LEMMA OverflowDeclared ==
  ASSUME IInv, ValuesDeclared, FillSuccessor, value[dependency[at]] = UnsignedMax(LongMax)
  PROVE  Unrepresentable
<1> DEFINE d == DependencyOf(at)
<1>1. /\ at \in Constants /\ dependency[at] = d /\ d \in Constants
      /\ processed[d] /\ decl.init[at].kind = "none"
  <2>1. decl.size \in Nat /\ at \in Nat \ {0} /\ at <= decl.size /\ dependency[at] # 0
    BY DEF FillSuccessor, IInv, TypeOK, WellDeclared
  <2>2. at \in Constants
    BY <2>1 DEF Constants
  <2>3. dependency[at] = d
    BY <2>2 DEF FillSuccessor, IInv, DependenciesFound
  <2>4. d \in 0..decl.size
    BY <2>2, DeclFacts DEF IInv
  <2> QED
    BY <2>1, <2>2, <2>3, <2>4 DEF FillSuccessor, Constants
<1>2. d \in Grounded /\ Declared(d) = UnsignedMax(LongMax)
  BY <1>1 DEF ValuesDeclared
<1>3. at \in Grounded /\ Declared(at) = Declared(d) + 1 /\ Declared(d) \in Int
  BY <1>1, <1>2, DeclaredNext, GroundedFacts, DependenciesTyped DEF IInv
<1>4. Declared(at) > UnsignedMax(LongMax)
  BY <1>2, <1>3
<1> QED
  BY <1>1, <1>3, <1>4 DEF Unrepresentable

\* An enumeration the loop over signs refuses has a negative constant beside one
\* that overflows a long.
LEMMA SignsRefused ==
  ASSUME BInv, ValuesDeclared, Refusals, UnifySign, First(at),
         NeedsSigned(decl.enum[at]), NeedsUnsigned(decl.enum[at])
  PROVE  Unrepresentable
<1> DEFINE e == decl.enum[at]
<1>1. phase = "signs" /\ TypeOK /\ at <= decl.size
  BY DEF UnifySign, BInv, IInv
<1>2. e \notin Passed
  BY <1>1, PassedFacts
<1>3. PICK i \in Of(e) : signedness[i]
  BY DEF NeedsSigned
<1>4. PICK j \in Of(e) : value[j] > LongMax
  BY DEF NeedsUnsigned
<1>5. i \in Constants /\ j \in Constants /\ decl.enum[i] = e /\ decl.enum[j] = e
  BY DEF Of
<1>6. value[i] < 0
  BY <1>1, <1>2, <1>3, <1>5 DEF BInv, Signs, SignOfValue
<1>7. {i, j} \subseteq Grounded /\ value[i] = Declared(i) /\ value[j] = Declared(j)
  BY <1>1, <1>5 DEF Refusals, ValuesDeclared
<1> QED
  BY <1>4, <1>5, <1>6, <1>7 DEF Unrepresentable

LEMMA InitRInv == Init => RInv
<1>1. Init => \A i \in Constants : ~processed[i]
  BY DEF Init
<1> QED
  BY <1>1, InitBInv DEF RInv, ValuesDeclared, Refusals, Init

LEMMA StepRInv == RInv /\ [Next]_vars => RInv'
<1> SUFFICES ASSUME RInv, [Next]_vars
             PROVE  Refusals'
  BY StepBInv, StepValuesDeclared DEF RInv, BInv
<1>a. BInv /\ IInv /\ TypeOK /\ ValuesDeclared /\ Refusals
  BY DEF RInv, BInv, IInv
<1>b. /\ decl' = decl /\ Constants' = Constants
      /\ Unrepresentable' <=> Unrepresentable
  BY DeclNeverChanges, DeclaredKept
<1>1. CASE FindDependencies
  <2>1. /\ errored' <=> \E i \in Constants : decl.init[i].kind = "unknown"
        /\ phase' = IF errored' THEN "failed" ELSE "cycles"
    BY <1>1 DEF FindDependencies
  <2>2. errored' => Unrepresentable
    BY <2>1 DEF Unrepresentable
  <2> QED
    BY <1>b, <2>1, <2>2 DEF Refusals
<1>2. CASE CheckCycle
  BY <1>2, <1>a, <1>b DEF CheckCycle, Refusals
<1>3. CASE StartValues
  BY <1>3, <1>a, <1>b DEF StartValues, Refusals
<1>4. CASE FillGround \/ FillEqual
  BY <1>4, <1>a, <1>b DEF FillGround, FillEqual, Give, Refusals
<1>5. CASE FillSuccessor
  <2>1. CASE value[dependency[at]] = UnsignedMax(LongMax)
    <3>1. Unrepresentable /\ phase' = "failed"
      BY <1>5, <1>a, <2>1, OverflowDeclared DEF FillSuccessor
    <3> QED
      BY <1>b, <3>1 DEF Refusals
  <2>2. CASE value[dependency[at]] # UnsignedMax(LongMax)
    BY <1>5, <1>a, <1>b, <2>2 DEF FillSuccessor, Give, Refusals
  <2> QED
    BY <2>1, <2>2
<1>6. CASE FillLater
  BY <1>6, <1>a, <1>b DEF FillLater, Refusals
<1>7. CASE EndOfRound
  BY <1>7, <1>a, <1>b DEF EndOfRound, Refusals
<1>8. CASE UnifySign
  <2>1. /\ phase = "signs" /\ phase' = "signs" /\ processed' = processed
        /\ errored' = (errored \/ (/\ First(at) /\ NeedsSigned(decl.enum[at])
                                   /\ NeedsUnsigned(decl.enum[at])))
    BY <1>8 DEF UnifySign
  <2>2. errored' => Unrepresentable
    BY <1>8, <1>a, <2>1, SignsRefused DEF Refusals
  <2> QED
    BY <1>a, <1>b, <2>1, <2>2 DEF Refusals
<1>9. CASE StartBacking
  BY <1>9, <1>a, <1>b DEF StartBacking, Refusals
<1>10. CASE FindBacking
  BY <1>10, <1>a, <1>b DEF FindBacking, Refusals
<1>11. CASE Finish
  BY <1>11, <1>a, <1>b DEF Finish, Refusals
<1>12. CASE UNCHANGED vars
  BY <1>12, <1>a, <1>b DEF vars, Refusals
<1> QED
  BY <1>1, <1>2, <1>3, <1>4, <1>5, <1>6, <1>7, <1>8, <1>9, <1>10, <1>11, <1>12 DEF Next

\* Enumerations that are accepted can be represented: each has one sign and room.
LEMMA AcceptedRepresentable ==
  ASSUME RInv, phase = "done"
  PROVE  ~Unrepresentable
<1>1. TypeOK /\ \A i \in Constants : i \in Grounded /\ value[i] = Declared(i)
  BY DEF RInv, BInv, IInv, Refusals, ValuesDeclared
<1>2. \A i \in Constants : decl.init[i].kind # "unknown"
  BY DEF RInv, Refusals
<1>3. ASSUME NEW i \in Constants
      PROVE  ~(Declared(i) > UnsignedMax(LongMax))
  <2>1. value[i] \in Int /\ value[i] <= UnsignedMax(LongMax) /\ UnsignedMax(LongMax) \in Int
    BY <1>1, ValueIsInt, LimitsAssumption DEF UnsignedMax
  <2> QED
    BY <1>1, <2>1
<1>4. ASSUME NEW i \in Constants, NEW j \in Constants, decl.enum[i] = decl.enum[j],
             Declared(i) < 0, Declared(j) > LongMax
      PROVE  FALSE
  <2> DEFINE e == decl.enum[i]
  <2>1. i \in Of(e) /\ j \in Of(e) /\ e \in Enums
    BY <1>4 DEF Of, Enums
  <2>2. PICK signed \in BOOLEAN : OneSign(e, signed)
    BY <2>1 DEF RInv, BInv, Signs, Unified
  <2>3. value[i] \in RoomOf(4, signed) /\ value[j] \in RoomOf(4, signed)
    BY <2>1, <2>2 DEF OneSign
  <2>4. value[i] < 0 /\ value[j] > LongMax
    BY <1>1, <1>4
  <2>5. /\ RoomOf(4, TRUE) = Least(LongMax) .. LongMax
        /\ RoomOf(4, FALSE) = 0 .. UnsignedMax(LongMax)
    BY DEF RoomOf, Limits
  <2>6. LongMax \in Nat /\ Least(LongMax) \in Int /\ UnsignedMax(LongMax) \in Int
    BY LimitsAssumption DEF Least, UnsignedMax
  <2>7. CASE signed = TRUE
    <3>1. value[j] \in Least(LongMax) .. LongMax
      BY <2>3, <2>5, <2>7
    <3> QED
      BY <2>4, <2>6, <3>1
  <2>8. CASE signed = FALSE
    <3>1. value[i] \in 0 .. UnsignedMax(LongMax)
      BY <2>3, <2>5, <2>8
    <3> QED
      BY <2>4, <2>6, <3>1
  <2> QED
    BY <2>7, <2>8
<1> QED
  BY <1>2, <1>3, <1>4 DEF Unrepresentable

(***************************************************************************)
(* Enumerations are refused only for a name that stands for nothing, a     *)
(* value past the largest ulong or a negative constant beside one that     *)
(* overflows a long, and none is accepted that has such a flaw             *)
(* (buildStab.c:612, 831, 896), whatever the declarations.                 *)
(***************************************************************************)
THEOREM RefusedOnlyForReason == Spec => []RefusedForReason
<1>1. RInv => RefusedForReason
  BY AcceptedRepresentable DEF RefusedForReason, RInv, Refusals
<1> QED
  BY InitRInv, StepRInv, <1>1, PTL DEF Spec

-----------------------------------------------------------------------------
\* Hash maps

Table == {t \in UNION {[capacity : {c}, size : Nat, at : 0..c,
                        keys : [0..(c - 1) -> Keys \cup {NULL}],
                        values : [0..(c - 1) -> Values \cup {Unset}]] : c \in Nat \ {0}} : IsTable(t)}

\* A list of tables is a sequence of them.
LEMMA Tables ==
  ASSUME MapTypeOK
  PROVE  tables \in Seq(Table) /\ Last \in Nat \ {0} /\ Map \in Table
<1>1. ASSUME NEW t, IsTable(t)
      PROVE  t \in Table
  <2>1. t \in [capacity : {t.capacity}, size : Nat, at : 0..t.capacity,
               keys : [0..(t.capacity - 1) -> Keys \cup {NULL}],
               values : [0..(t.capacity - 1) -> Values \cup {Unset}]]
    BY <1>1 DEF IsTable
  <2> QED
    BY <1>1, <2>1 DEF Table, IsTable
<1>2. Last \in Nat \ {0} /\ DOMAIN tables = 1..Last /\ tables = [t \in 1..Last |-> tables[t]]
  BY DEF MapTypeOK, Last
<1>3. \A t \in 1..Last : tables[t] \in Table
  BY <1>1 DEF MapTypeOK
<1> QED
  BY <1>2, <1>3 DEF Last, Map

\* The probing loop stays in the table.
LEMMA SlotInTable ==
  ASSUME NEW h \in HashPair, NEW c \in Nat \ {0}, NEW n \in Nat
  PROVE  Slot(h, c, n) \in 0..(c - 1)
<1>1. h.first \in Nat /\ h.second \in Nat
  BY DEF HashPair
<1>2. n * h.second \in Nat
  BY <1>1
<1>3. h.first + n * h.second \in Nat
  BY <1>1, <1>2
<1>4. ASSUME NEW a \in Nat PROVE a % c \in 0..(c - 1)
  OBVIOUS
<1> QED
  BY <1>3, <1>4 DEF Slot

\* A search that meets a free slot, or its start again, is for a string that is
\* nowhere a search for it would stop.
LEMMA Missing ==
  ASSUME NEW c \in Nat \ {0}, NEW e, NEW s \in Keys, NEW h \in HashPair, NULL \notin Keys,
         \/ ComesBack(e, c, s, h)
         \/ \E i \in 0..(c - 1) : StopsAt(e, c, s, h, i) /\ e[i] = NULL,
         NEW j \in 0..(c - 1), StopsAt(e, c, s, h, j), e[j] = s
  PROVE  FALSE
<1>1. PICK n \in 0..(c - 1) : Walk(e, c, s, h, n) /\ j = Slot(h, c, n) /\ e[j] = s
  BY DEF StopsAt
<1>2. CASE ComesBack(e, c, s, h)
  <2>1. PICK m \in 0..(c - 1) :
          /\ Walk(e, c, s, h, m)
          /\ e[Slot(h, c, m)] \notin {NULL, s}
          /\ Slot(h, c, m + 1) = Slot(h, c, 0)
    BY <1>2 DEF ComesBack
  <2>2. CASE n <= m
    <3>1. CASE n = m
      BY <1>1, <2>1, <3>1
    <3>2. CASE n < m
      <4>1. n \in 0..(m - 1)
        BY <3>2
      <4> QED
        BY <1>1, <2>1, <4>1 DEF Walk
    <3> QED
      BY <2>2, <3>1, <3>2
  <2>3. CASE m < n
    <3>1. m + 1 \in 1..n
      BY <2>3
    <3> QED
      BY <1>1, <2>1, <3>1 DEF Walk
  <2> QED
    BY <2>2, <2>3
<1>3. CASE \E i \in 0..(c - 1) : StopsAt(e, c, s, h, i) /\ e[i] = NULL
  <2>1. PICK m \in 0..(c - 1) : Walk(e, c, s, h, m) /\ e[Slot(h, c, m)] = NULL
    BY <1>3 DEF StopsAt
  <2>2. CASE n < m
    <3>1. n \in 0..(m - 1)
      BY <2>2
    <3> QED
      BY <1>1, <2>1, <3>1 DEF Walk
  <2>3. CASE m < n
    <3>1. m \in 0..(n - 1)
      BY <2>3
    <3> QED
      BY <1>1, <2>1, <3>1 DEF Walk
  <2>4. CASE m = n
    BY <1>1, <2>1, <2>4
  <2> QED
    BY <2>2, <2>3, <2>4
<1> QED
  BY <1>2, <1>3

\* Filling the free slot a search stopped at leaves every search where it stopped,
\* and the string put there is found there.
LEMMA Filled ==
  ASSUME NEW c \in Nat \ {0}, NEW e \in [0..(c - 1) -> Keys \cup {NULL}], NEW k \in Keys,
         NULL \notin Keys, NEW i \in 0..(c - 1), e[i] = NULL,
         NEW l \in Keys, NEW h \in HashPair, NEW j \in 0..(c - 1), StopsAt(e, c, l, h, j),
         e[j] = l \/ (j = i /\ l = k)
  PROVE  StopsAt([e EXCEPT ![i] = k], c, l, h, j)
<1> DEFINE f == [e EXCEPT ![i] = k]
<1>1. PICK n \in 0..(c - 1) : Walk(e, c, l, h, n) /\ j = Slot(h, c, n)
  BY DEF StopsAt
<1>2. ASSUME NEW m \in 0..(n - 1)
      PROVE  f[Slot(h, c, m)] \notin {NULL, l}
  <2>1. m \in Nat
    BY <1>1
  <2>2. Slot(h, c, m) \in 0..(c - 1)
    BY <2>1, SlotInTable
  <2>3. e[Slot(h, c, m)] \notin {NULL, l}
    BY <1>1 DEF Walk
  <2> QED
    BY <2>2, <2>3
<1>3. f[j] = l
  OBVIOUS
<1>4. Walk(f, c, l, h, n)
  BY <1>1, <1>2 DEF Walk
<1> QED
  BY <1>1, <1>3, <1>4 DEF StopsAt

-----------------------------------------------------------------------------
\* Types

LEMMA NewTableType ==
  ASSUME NEW c \in Nat \ {0}
  PROVE  IsTable(NewTable(c)) /\ NewTable(c).at = 0
BY HashMapConstants DEF IsTable, NewTable

\* The call being worked on has a key, and a value to put.
LEMMA CurrentType ==
  ASSUME MapTypeOK, Working
  PROVE  /\ Current.key \in Keys
         /\ Current.name \in {"get", "put", "set"}
         /\ Current.name # "get" => Current.data \in Values
<1>1. CASE Growing
  <2>1. Last - 1 \in 1..Last /\ IsTable(Old)
    BY <1>1, Tables DEF MapTypeOK, Growing, Old
  <2>2. Old.at \in 0..(Old.capacity - 1) /\ Old.keys[Old.at] # NULL
    BY <1>1, <2>1 DEF Working, IsTable
  <2> QED
    BY <1>1, <2>1, <2>2 DEF Current, IsTable
<1>2. CASE ~Growing
  BY <1>2 DEF Current, Working, MapTypeOK, Calls
<1> QED
  BY <1>1, <1>2

\* The types, from tables that are tables.
LEMMA TypesFromTables ==
  ASSUME MapTypeOK, tables' \in Seq(Table), Last' >= 1, Map'.at = 0,
         hashes' = hashes, call' \in Calls \cup {NULL}, call' = NULL => ~Growing',
         result' \in Values \cup {NULL, "inserted", "exists", "void"}
  PROVE  MapTypeOK'
<1>1. tables' \in Seq({tables'[t] : t \in DOMAIN tables'})
  OBVIOUS
<1>2. \A t \in 1..Last' : IsTable(tables'[t])
  BY DEF Table, Last
<1>3. \A t \in 1..Last' : IsTable(tables[t])'
  BY <1>2 DEF IsTable
<1> QED
  BY <1>1, <1>3 DEF MapTypeOK

\* A table an entry of which was passed is a table.
LEMMA PassedOver ==
  ASSUME NEW t \in Table, t.at < t.capacity
  PROVE  LET u == [t EXCEPT !.at = @ + 1]
         IN  /\ u \in Table /\ u.capacity = t.capacity /\ u.keys = t.keys /\ u.values = t.values
             /\ u.at = t.at + 1
<1> DEFINE u == [t EXCEPT !.at = @ + 1]
<1>1. t.at + 1 \in 0..t.capacity /\ t.capacity \in Nat \ {0}
  BY DEF Table, IsTable
<1>2. t = [capacity |-> t.capacity, size |-> t.size, at |-> t.at, keys |-> t.keys, values |-> t.values]
  BY DEF Table, IsTable
<1>3. u = [capacity |-> t.capacity, size |-> t.size, at |-> t.at + 1, keys |-> t.keys, values |-> t.values]
  BY <1>2
<1>4. IsTable(u)
  BY <1>1, <1>3 DEF Table, IsTable
<1>5. u \in [capacity : {t.capacity}, size : Nat, at : 0..t.capacity,
             keys : [0..(t.capacity - 1) -> Keys \cup {NULL}],
             values : [0..(t.capacity - 1) -> Values \cup {Unset}]]
  BY <1>1, <1>3 DEF Table, IsTable
<1>6. u \in Table
  BY <1>1, <1>4, <1>5 DEF Table
<1> QED
  BY <1>3, <1>6

\* What a call that returns leaves: the last table is the one it worked on, in the
\* one before an entry was passed, the others are as they were.
LEMMA Returned ==
  ASSUME MapTypeOK, Working, NEW table \in Table, NEW v, Return(table, v)
  PROVE  /\ tables' \in Seq(Table) /\ Last' = Last /\ Map' = table
         /\ \A t \in 1..(Last - 1) :
              tables'[t] = IF t = Last - 1 THEN [tables[t] EXCEPT !.at = @ + 1] ELSE tables[t]
<1>1. tables \in Seq(Table) /\ Last \in Nat \ {0}
  BY Tables
<1>2. CASE Growing
  <2>1. Last - 1 \in 1..Last /\ Old \in Table /\ Old.at < Old.capacity
    BY <1>1, <1>2 DEF Growing, Working, Old, Last
  <2>2. [Old EXCEPT !.at = @ + 1] \in Table
    BY <2>1, PassedOver
  <2>3. tables' = [tables EXCEPT ![Last] = table, ![Last - 1] = [Old EXCEPT !.at = @ + 1]]
    BY <1>1, <1>2, <2>1 DEF Return, Old, Last
  <2> QED
    BY <1>1, <2>1, <2>2, <2>3 DEF Last, Map, Old
<1>3. CASE ~Growing
  <2>1. Last = 1
    BY <1>1, <1>3 DEF Growing
  <2>2. tables' = [tables EXCEPT ![Last] = table]
    BY <1>3 DEF Return
  <2> QED
    BY <1>1, <2>1, <2>2 DEF Last, Map
<1> QED
  BY <1>2, <1>3

LEMMA ReturnedTypes ==
  ASSUME MapTypeOK, Working, NEW table \in Table, table.at = 0, UNCHANGED hashes,
         NEW v \in Values \cup {NULL, "inserted", "exists", "void"}, Return(table, v)
  PROVE  MapTypeOK'
<1>1. tables' \in Seq(Table) /\ Last' = Last /\ Map' = table
  BY Returned
<1>2. Growing' <=> Growing
  BY <1>1 DEF Growing
<1>3. call' \in Calls \cup {NULL} /\ (call' = NULL => ~Growing')
      /\ result' \in Values \cup {NULL, "inserted", "exists", "void"}
  BY <1>2 DEF Return, MapTypeOK
<1> QED
  BY <1>1, <1>3, TypesFromTables DEF MapTypeOK

-----------------------------------------------------------------------------
\* The inductive invariant

MapIInv == MapTypeOK /\ HeldOnce /\ FoundWhereItIs

\* Places, what they hold and the contents, for any list of tables.
PlacesIn(ts) ==
  {p \in (1..Len(ts)) \X UNION {0..(ts[t].capacity - 1) : t \in 1..Len(ts)} :
     /\ p[2] \in ts[p[1]].at..(ts[p[1]].capacity - 1)
     /\ ts[p[1]].keys[p[2]] # NULL}
KeyIn(ts, p) == ts[p[1]].keys[p[2]]
ValueIn(ts, p) == ts[p[1]].values[p[2]]
Once(ts) == \A p, q \in PlacesIn(ts) : KeyIn(ts, p) = KeyIn(ts, q) => p = q
ContentsIn(ts) ==
  [k \in Keys |-> IF \E p \in PlacesIn(ts) : KeyIn(ts, p) = k
                  THEN ValueIn(ts, CHOOSE p \in PlacesIn(ts) : KeyIn(ts, p) = k)
                  ELSE NULL]

LEMMA InTables ==
  /\ Places = PlacesIn(tables)
  /\ \A p : KeyAt(p) = KeyIn(tables, p) /\ ValueAt(p) = ValueIn(tables, p)
  /\ HeldOnce <=> /\ Once(tables)
                  /\ Growing => \A p \in PlacesIn(tables) : KeyIn(tables, p) # call.key
  /\ Contents = ContentsIn(tables)
<1>1. Places = PlacesIn(tables)
  BY DEF Places, PlacesIn, Last
<1>2. \A p : KeyAt(p) = KeyIn(tables, p) /\ ValueAt(p) = ValueIn(tables, p)
  BY DEF KeyAt, KeyIn, ValueAt, ValueIn
<1>3. HeldOnce <=> /\ Once(tables)
                   /\ Growing => \A p \in PlacesIn(tables) : KeyIn(tables, p) # call.key
  BY <1>1, <1>2 DEF HeldOnce, Once
<1>4. Contents = ContentsIn(tables)
  BY <1>1 DEF Contents, ContentsIn, KeyAt, KeyIn, ValueAt, ValueIn
<1> QED
  BY <1>1, <1>2, <1>3, <1>4

LEMMA PlaceFacts ==
  ASSUME NEW ts \in Seq(Table)
  PROVE  /\ \A p \in PlacesIn(ts) : /\ p = <<p[1], p[2]>> /\ p[1] \in 1..Len(ts)
                                    /\ p[2] \in ts[p[1]].at..(ts[p[1]].capacity - 1)
                                    /\ KeyIn(ts, p) \in Keys /\ ValueIn(ts, p) \in Values
         /\ \A t \in 1..Len(ts) : \A i \in ts[t].at..(ts[t].capacity - 1) :
              ts[t].keys[i] # NULL =>
                /\ <<t, i>> \in PlacesIn(ts)
                /\ KeyIn(ts, <<t, i>>) = ts[t].keys[i]
                /\ ValueIn(ts, <<t, i>>) = ts[t].values[i]
<1>1. \A t \in 1..Len(ts) : /\ IsTable(ts[t])
                            /\ ts[t].at..(ts[t].capacity - 1) \subseteq 0..(ts[t].capacity - 1)
  <2>1. \A t \in 1..Len(ts) : ts[t] \in Table
    OBVIOUS
  <2>2. \A t \in 1..Len(ts) : IsTable(ts[t])
    BY <2>1 DEF Table
  <2> QED
    BY <2>2 DEF IsTable
<1>2. ASSUME NEW p \in PlacesIn(ts)
      PROVE  /\ p = <<p[1], p[2]>> /\ p[1] \in 1..Len(ts)
             /\ p[2] \in ts[p[1]].at..(ts[p[1]].capacity - 1)
             /\ KeyIn(ts, p) \in Keys /\ ValueIn(ts, p) \in Values
  <2>1. /\ p = <<p[1], p[2]>> /\ p[1] \in 1..Len(ts)
        /\ p[2] \in ts[p[1]].at..(ts[p[1]].capacity - 1)
        /\ ts[p[1]].keys[p[2]] # NULL
    BY DEF PlacesIn
  <2> QED
    BY <1>1, <2>1 DEF KeyIn, ValueIn, IsTable
<1>3. ASSUME NEW t \in 1..Len(ts), NEW i \in ts[t].at..(ts[t].capacity - 1),
             ts[t].keys[i] # NULL
      PROVE  /\ <<t, i>> \in PlacesIn(ts)
             /\ KeyIn(ts, <<t, i>>) = ts[t].keys[i]
             /\ ValueIn(ts, <<t, i>>) = ts[t].values[i]
  <2>1. i \in UNION {0..(ts[s].capacity - 1) : s \in 1..Len(ts)}
    BY <1>1, <1>3
  <2> QED
    BY <1>3, <2>1 DEF PlacesIn, KeyIn, ValueIn
<1> QED
  BY <1>2, <1>3

\* The contents are what the places say.
LEMMA ContentsAre ==
  ASSUME NEW ts, Once(ts), NEW f, DOMAIN f = Keys, f = [k \in Keys |-> f[k]],
         \A p \in PlacesIn(ts) : f[KeyIn(ts, p)] = ValueIn(ts, p),
         \A k \in Keys : (\A p \in PlacesIn(ts) : KeyIn(ts, p) # k) => f[k] = NULL
  PROVE  ContentsIn(ts) = f
<1> SUFFICES ASSUME NEW k \in Keys
             PROVE  ContentsIn(ts)[k] = f[k]
  BY DEF ContentsIn
<1>1. CASE \E p \in PlacesIn(ts) : KeyIn(ts, p) = k
  <2> DEFINE q == CHOOSE p \in PlacesIn(ts) : KeyIn(ts, p) = k
  <2>1. q \in PlacesIn(ts) /\ KeyIn(ts, q) = k
    BY <1>1
  <2>2. ContentsIn(ts)[k] = ValueIn(ts, q)
    BY <1>1 DEF ContentsIn
  <2> HIDE DEF q
  <2> QED
    BY <2>1, <2>2
<1>2. CASE \A p \in PlacesIn(ts) : KeyIn(ts, p) # k
  BY <1>2 DEF ContentsIn
<1> QED
  BY <1>1, <1>2

LEMMA ContentsSay ==
  ASSUME NEW ts \in Seq(Table), Once(ts)
  PROVE  /\ ContentsIn(ts) \in [Keys -> Values \cup {NULL}]
         /\ \A p \in PlacesIn(ts) : ContentsIn(ts)[KeyIn(ts, p)] = ValueIn(ts, p)
         /\ \A k \in Keys : ContentsIn(ts)[k] = NULL <=> \A p \in PlacesIn(ts) : KeyIn(ts, p) # k
<1>1. ASSUME NEW k \in Keys, \A p \in PlacesIn(ts) : KeyIn(ts, p) # k
      PROVE  ContentsIn(ts)[k] = NULL
  BY <1>1 DEF ContentsIn
<1>2. ASSUME NEW p \in PlacesIn(ts)
      PROVE  /\ ContentsIn(ts)[KeyIn(ts, p)] = ValueIn(ts, p)
             /\ KeyIn(ts, p) \in Keys /\ ValueIn(ts, p) \in Values
  <2>1. KeyIn(ts, p) \in Keys /\ ValueIn(ts, p) \in Values
    BY PlaceFacts
  <2> DEFINE q == CHOOSE r \in PlacesIn(ts) : KeyIn(ts, r) = KeyIn(ts, p)
  <2>2. q \in PlacesIn(ts) /\ KeyIn(ts, q) = KeyIn(ts, p)
    OBVIOUS
  <2>3. ContentsIn(ts)[KeyIn(ts, p)] = ValueIn(ts, q)
    BY <2>1 DEF ContentsIn
  <2> HIDE DEF q
  <2>4. q = p
    BY <2>2 DEF Once
  <2> QED
    BY <2>1, <2>3, <2>4
<1>3. DOMAIN ContentsIn(ts) = Keys /\ ContentsIn(ts) = [k \in Keys |-> ContentsIn(ts)[k]]
  BY DEF ContentsIn
<1>4. \A k \in Keys : /\ ContentsIn(ts)[k] \in Values \cup {NULL}
                      /\ ContentsIn(ts)[k] = NULL <=> \A p \in PlacesIn(ts) : KeyIn(ts, p) # k
  BY <1>1, <1>2, HashMapConstants
<1> QED
  BY <1>2, <1>3, <1>4

\* Entries that move, each from one place to one place, are the same contents.
LEMMA Moved ==
  ASSUME NEW ts \in Seq(Table), NEW us \in Seq(Table), Once(ts),
         NEW g \in [PlacesIn(us) -> PlacesIn(ts)],
         \A p, q \in PlacesIn(us) : g[p] = g[q] => p = q,
         \A p \in PlacesIn(us) : KeyIn(us, p) = KeyIn(ts, g[p]) /\ ValueIn(us, p) = ValueIn(ts, g[p]),
         \A p \in PlacesIn(ts) : \E q \in PlacesIn(us) : g[q] = p
  PROVE  /\ Once(us)
         /\ ContentsIn(us) = ContentsIn(ts)
         /\ \A k : (\A p \in PlacesIn(ts) : KeyIn(ts, p) # k) => \A p \in PlacesIn(us) : KeyIn(us, p) # k
<1>1. Once(us)
  BY DEF Once
<1> DEFINE f == ContentsIn(ts)
<1>2. f \in [Keys -> Values \cup {NULL}]
      /\ (\A p \in PlacesIn(ts) : f[KeyIn(ts, p)] = ValueIn(ts, p))
      /\ (\A k \in Keys : f[k] = NULL <=> \A p \in PlacesIn(ts) : KeyIn(ts, p) # k)
  BY ContentsSay
<1> HIDE DEF f
<1>3. \A p \in PlacesIn(us) : f[KeyIn(us, p)] = ValueIn(us, p)
  BY <1>2
<1>4. \A k \in Keys : (\A p \in PlacesIn(us) : KeyIn(us, p) # k) => f[k] = NULL
  BY <1>2
<1>5. DOMAIN f = Keys /\ f = [k \in Keys |-> f[k]]
  BY <1>2
<1>6. ContentsIn(us) = f
  BY <1>1, <1>3, <1>4, <1>5, ContentsAre
<1> QED
  BY <1>1, <1>6 DEF f

\* A string for which the search meets a free slot or its start is not in the table.
LEMMA NotThere ==
  ASSUME MapTypeOK, FoundWhereItIs, Working,
         Collides \/ \E i \in 0..(Map.capacity - 1) : FindsAt(i) /\ Map.keys[i] = NULL
  PROVE  \A i \in 0..(Map.capacity - 1) : Map.keys[i] # Current.key
<1> SUFFICES ASSUME NEW j \in 0..(Map.capacity - 1), Map.keys[j] = Current.key
             PROVE  FALSE
  OBVIOUS
<1> DEFINE c == Map.capacity
           s == Current.key
<1>1. s \in Keys /\ NULL \notin Keys /\ c \in Nat \ {0} /\ hashes[s] \in HashPair
  BY Tables, CurrentType, HashMapConstants DEF MapTypeOK, Table, IsTable
<1>2. StopsAt(Map.keys, c, s, hashes[s], j)
  BY <1>1 DEF FoundWhereItIs
<1>3. ComesBack(Map.keys, c, s, hashes[s])
      \/ \E i \in 0..(c - 1) : StopsAt(Map.keys, c, s, hashes[s], i) /\ Map.keys[i] = NULL
  BY DEF Collides, FindsAt
<1> HIDE DEF c, s
<1> QED
  BY <1>1, <1>2, <1>3, Missing DEF c, s

\* While a table is emptied, what is put is not in the table it is put into.
LEMMA NeverThereWhileGrowing ==
  ASSUME MapTypeOK, HeldOnce, Working, Growing
  PROVE  /\ Current.name = "set"
         /\ <<Last - 1, Old.at>> \in PlacesIn(tables)
         /\ KeyIn(tables, <<Last - 1, Old.at>>) = Current.key
         /\ ValueIn(tables, <<Last - 1, Old.at>>) = Current.data
         /\ \A i \in 0..(Map.capacity - 1) : Map.keys[i] # Current.key
<1>1. Last \in Nat /\ Last > 1 /\ Last - 1 \in 1..Last /\ Last \in 1..Last /\ IsTable(Old)
  BY Tables DEF Growing, MapTypeOK, Old
<1>2. Old.at \in Old.at..(Old.capacity - 1) /\ Old.keys[Old.at] # NULL
  BY <1>1 DEF Working, IsTable
<1>3. /\ <<Last - 1, Old.at>> \in PlacesIn(tables)
      /\ KeyIn(tables, <<Last - 1, Old.at>>) = Current.key
      /\ ValueIn(tables, <<Last - 1, Old.at>>) = Current.data
      /\ Current.name = "set"
  BY <1>1, <1>2, Tables, PlaceFacts DEF Old, Current, Last
<1>4. ASSUME NEW i \in 0..(Map.capacity - 1), Map.keys[i] = Current.key
      PROVE  FALSE
  <2>1. Map.keys[i] # NULL
    BY <1>4, CurrentType, HashMapConstants
  <2>2. <<Last, i>> \in PlacesIn(tables) /\ KeyIn(tables, <<Last, i>>) = Current.key
    BY <1>1, <1>4, <2>1, Tables, PlaceFacts DEF Map, MapTypeOK, Last
  <2> QED
    BY <1>1, <1>3, <2>2, InTables DEF Once
<1> QED
  BY <1>3, <1>4

LEMMA Front ==
  ASSUME NEW S, NEW s \in Seq(S), NEW n \in 0..Len(s)
  PROVE  /\ SubSeq(s, 1, n) \in Seq(S) /\ Len(SubSeq(s, 1, n)) = n
         /\ \A m \in 1..n : SubSeq(s, 1, n)[m] = s[m]
OBVIOUS

\* The table with one entry more, or with another value for one.
LEMMA EntryType ==
  ASSUME NEW t \in Table, NEW i \in 0..(t.capacity - 1), NEW k \in Keys, NEW v \in Values
  PROVE  /\ [capacity |-> t.capacity, size |-> t.size + 1, at |-> t.at,
             keys |-> [t.keys EXCEPT ![i] = k], values |-> [t.values EXCEPT ![i] = v]] \in Table
         /\ t.keys[i] # NULL => [t EXCEPT !.values[i] = v] \in Table
<1>1. IsTable(t)
  BY DEF Table
<1>2. t = [capacity |-> t.capacity, size |-> t.size, at |-> t.at, keys |-> t.keys, values |-> t.values]
  BY <1>1 DEF IsTable
<1> DEFINE u == [capacity |-> t.capacity, size |-> t.size + 1, at |-> t.at,
                 keys |-> [t.keys EXCEPT ![i] = k], values |-> [t.values EXCEPT ![i] = v]]
           w == [t EXCEPT !.values[i] = v]
<1>4. w = [capacity |-> t.capacity, size |-> t.size, at |-> t.at,
           keys |-> t.keys, values |-> [t.values EXCEPT ![i] = v]]
  BY <1>2
<1>5. IsTable(u)
  BY <1>1, HashMapConstants DEF IsTable
<1>6. t.keys[i] # NULL => IsTable(w)
  BY <1>1, <1>4 DEF IsTable
<1>7. ASSUME NEW x, IsTable(x)
      PROVE  x \in Table
  <2>1. x \in [capacity : {x.capacity}, size : Nat, at : 0..x.capacity,
               keys : [0..(x.capacity - 1) -> Keys \cup {NULL}],
               values : [0..(x.capacity - 1) -> Values \cup {Unset}]]
    BY <1>7 DEF IsTable
  <2> QED
    BY <1>7, <2>1 DEF Table, IsTable
<1> HIDE DEF u, w
<1> QED
  BY <1>5, <1>6, <1>7 DEF u, w

LEMMA InsertAtIs ==
  ASSUME MapTypeOK, Working, Current.name # "get", NEW i \in 0..(Map.capacity - 1), Map.keys[i] = NULL
  PROVE  /\ InsertAt(i) \in Table
         /\ InsertAt(i).at = 0 /\ InsertAt(i).capacity = Map.capacity
         /\ InsertAt(i).keys = [Map.keys EXCEPT ![i] = Current.key]
         /\ InsertAt(i).values = [Map.values EXCEPT ![i] = Current.data]
<1>1. Map \in Table /\ Current.key \in Keys /\ Current.data \in Values
  BY Tables, CurrentType
<1>2. InsertAt(i) \in Table
  BY <1>1, EntryType DEF InsertAt
<1> QED
  BY <1>2 DEF InsertAt, MapTypeOK

LEMMA OverwriteIs ==
  ASSUME MapTypeOK, Working, Current.name = "set", NEW i \in 0..(Map.capacity - 1), Map.keys[i] # NULL
  PROVE  LET t == [Map EXCEPT !.values[i] = Current.data]
         IN  /\ t \in Table
             /\ t.at = 0 /\ t.capacity = Map.capacity /\ t.keys = Map.keys
             /\ t.values = [Map.values EXCEPT ![i] = Current.data]
<1>1. Map \in Table /\ Current.data \in Values
  BY Tables, CurrentType
<1>2. [Map EXCEPT !.values[i] = Current.data] \in Table
  BY <1>1, CurrentType, EntryType
<1>3. Map = [capacity |-> Map.capacity, size |-> Map.size, at |-> Map.at,
             keys |-> Map.keys, values |-> Map.values]
  BY <1>1 DEF Table, IsTable
<1>4. [Map EXCEPT !.values[i] = Current.data]
        = [capacity |-> Map.capacity, size |-> Map.size, at |-> Map.at,
           keys |-> Map.keys, values |-> [Map.values EXCEPT ![i] = Current.data]]
  BY <1>3
<1> QED
  BY <1>2, <1>4 DEF MapTypeOK

\* What Grow, SkipFree and Retry leave.
LEMMA Grown ==
  ASSUME MapTypeOK, Grow
  PROVE  /\ tables' \in Seq(Table) /\ Last' = Last + 1 /\ Map' = NewTable(Map.capacity * 2)
         /\ \A t \in 1..Last : tables'[t] = tables[t]
<1>1. tables \in Seq(Table) /\ Last \in Nat \ {0} /\ Map.capacity * 2 \in Nat \ {0}
  <2>1. tables \in Seq(Table) /\ Last \in Nat \ {0} /\ Map \in Table
    BY Tables
  <2>2. Map.capacity \in Nat \ {0}
    BY <2>1 DEF Table, IsTable
  <2> QED
    BY <2>1, <2>2
<1>2. NewTable(Map.capacity * 2) \in Table
  BY <1>1, NewTableType DEF NewTable, Table, IsTable
<1> QED
  BY <1>1, <1>2 DEF Grow, Last, Map

LEMMA Skipped ==
  ASSUME MapTypeOK, SkipFree
  PROVE  /\ tables' \in Seq(Table) /\ Last' = Last /\ Last > 1 /\ Map' = Map
         /\ \A t \in 1..Last :
              tables'[t] = IF t = Last - 1 THEN [tables[t] EXCEPT !.at = @ + 1] ELSE tables[t]
<1>1. tables \in Seq(Table) /\ Last \in Nat \ {0} /\ Last > 1
  BY Tables DEF SkipFree, Growing
<1>2. Last - 1 \in 1..Last /\ Old \in Table /\ Old.at < Old.capacity
  BY <1>1 DEF SkipFree, Old, Last
<1>3. [Old EXCEPT !.at = @ + 1] \in Table
  BY <1>2, PassedOver
<1>4. tables' = [tables EXCEPT ![Last - 1] = [Old EXCEPT !.at = @ + 1]]
  BY DEF SkipFree, Old
<1> QED
  BY <1>1, <1>2, <1>3, <1>4 DEF Last, Map, Old

LEMMA Retried ==
  ASSUME MapTypeOK, Retry
  PROVE  /\ tables' \in Seq(Table) /\ Last' = Last - 1 /\ Last > 1 /\ Map' = Map
         /\ \A t \in 1..(Last - 2) : tables'[t] = tables[t]
         /\ Old.at = Old.capacity
<1>1. tables \in Seq(Table) /\ Last \in Nat \ {0} /\ Last > 1 /\ Map \in Table
  BY Tables DEF Retry, Growing
<1> DEFINE rest == SubSeq(tables, 1, Last - 2)
<1>2. rest \in Seq(Table) /\ Len(rest) = Last - 2 /\ \A t \in 1..(Last - 2) : rest[t] = tables[t]
  <2>1. Last - 2 \in 0..Len(tables)
    BY <1>1 DEF Last
  <2> QED
    BY <1>1, <2>1, Front
<1>3. tables' = Append(rest, Map)
  BY DEF Retry
<1> HIDE DEF rest
<1> QED
  BY <1>1, <1>2, <1>3 DEF Last, Map, Retry

LEMMA InitTypes == MapInit => MapTypeOK
<1> SUFFICES ASSUME MapInit
             PROVE  MapTypeOK
  OBVIOUS
<1>1. IsTable(NewTable(InitCapacity)) /\ NewTable(InitCapacity).at = 0
  BY NewTableType, HashMapConstants
<1>2. tables = <<NewTable(InitCapacity)>> /\ Last = 1 /\ Map = NewTable(InitCapacity)
  BY DEF MapInit, Last, Map
<1>3. tables \in Seq({tables[t] : t \in DOMAIN tables})
  BY <1>2
<1>4. hashes \in [Keys -> HashPair]
  BY HashMapConstants DEF MapInit
<1> QED
  BY <1>1, <1>2, <1>3, <1>4 DEF MapInit, MapTypeOK, Growing

LEMMA StepTypes ==
  ASSUME MapTypeOK, [MapNext]_mapVars
  PROVE  MapTypeOK'
<1>0. tables \in Seq(Table) /\ Last \in Nat \ {0} /\ Map \in Table /\ Map.at = 0
  BY Tables DEF MapTypeOK
<1>1. CASE Ask
  <2>1. Last' = Last /\ Map' = Map /\ tables' \in Seq(Table)
    BY <1>0, <1>1 DEF Ask, Last, Map
  <2>3. ~Growing /\ ~Growing'
    BY <1>1, <2>1 DEF Ask, MapTypeOK, Growing
  <2> QED
    BY <1>0, <1>1, <2>1, <2>3, TypesFromTables DEF Ask
<1>2. CASE GetFound
  <2>1. PICK i \in 0..(Map.capacity - 1) : Map.keys[i] # NULL /\ Return(Map, Map.values[i])
    BY <1>2 DEF GetFound
  <2>2. Map.values[i] \in Values
    BY <1>0, <2>1 DEF Table, IsTable
  <2> QED
    BY <1>0, <1>2, <2>1, <2>2, ReturnedTypes DEF GetFound
<1>3. CASE GetMissing
  BY <1>0, <1>3, ReturnedTypes DEF GetMissing
<1>4. CASE Insert
  <2>1. PICK i \in 0..(Map.capacity - 1) :
          /\ Map.keys[i] = NULL
          /\ Return(InsertAt(i), IF Current.name = "put" THEN "inserted" ELSE "void")
    BY <1>4 DEF Insert
  <2>2. InsertAt(i) \in Table /\ InsertAt(i).at = 0
    BY <1>4, <2>1, InsertAtIs DEF Insert
  <2> QED
    BY <1>4, <2>1, <2>2, ReturnedTypes DEF Insert
<1>5. CASE PutPresent
  BY <1>0, <1>5, ReturnedTypes DEF PutPresent
<1>6. CASE SetPresent
  <2>1. PICK i \in 0..(Map.capacity - 1) :
          Map.keys[i] # NULL /\ Return([Map EXCEPT !.values[i] = Current.data], "void")
    BY <1>6 DEF SetPresent
  <2> DEFINE t == [Map EXCEPT !.values[i] = Current.data]
  <2>2. t \in Table /\ t.at = 0
    BY <1>6, <2>1, OverwriteIs DEF SetPresent
  <2>3. Return(t, "void")
    BY <2>1
  <2> HIDE DEF t
  <2> QED
    BY <1>6, <2>2, <2>3, ReturnedTypes DEF SetPresent
<1>7. CASE Grow
  <2>1. Map'.at = 0 /\ Last' >= 1 /\ tables' \in Seq(Table)
    BY <1>0, <1>7, Grown DEF NewTable
  <2>2. call # NULL
    BY <1>7 DEF Grow, Working
  <2> QED
    BY <1>7, <2>1, <2>2, TypesFromTables DEF Grow, MapTypeOK
<1>8. CASE SkipFree
  <2>1. Map'.at = 0 /\ Last' >= 1 /\ tables' \in Seq(Table)
    BY <1>0, <1>8, Skipped
  <2> QED
    BY <1>8, <2>1, TypesFromTables DEF SkipFree, MapTypeOK
<1>9. CASE Retry
  <2>1. Map'.at = 0 /\ Last' >= 1 /\ tables' \in Seq(Table)
    BY <1>0, <1>9, Retried
  <2> QED
    BY <1>9, <2>1, TypesFromTables DEF Retry, MapTypeOK
<1>10. CASE UNCHANGED mapVars
  <2>1. Last' = Last /\ Map' = Map /\ Growing' = Growing
    BY <1>10 DEF mapVars, Last, Map, Growing
  <2> QED
    BY <1>0, <1>10, <2>1, TypesFromTables DEF mapVars, MapTypeOK
<1> QED
  BY <1>1, <1>2, <1>3, <1>4, <1>5, <1>6, <1>7, <1>8, <1>9, <1>10 DEF MapNext, Work

-----------------------------------------------------------------------------
\* Every string is found where it is

LEMMA FoundInSame ==
  ASSUME MapTypeOK, FoundWhereItIs, Map'.keys = Map.keys, Map'.capacity = Map.capacity, hashes' = hashes
  PROVE  FoundWhereItIs'
BY DEF FoundWhereItIs, StopsAt, Walk, Slot

LEMMA StepFound ==
  ASSUME MapIInv, [MapNext]_mapVars
  PROVE  FoundWhereItIs'
<1> USE DEF MapIInv
<1>1. CASE Ask \/ SkipFree \/ Retry \/ UNCHANGED mapVars
  <2>1. Map' = Map /\ hashes' = hashes
    BY <1>1, Skipped, Retried DEF Ask, SkipFree, Retry, mapVars, Map, Last
  <2> QED
    BY <2>1, FoundInSame
<1>2. CASE GetFound \/ GetMissing \/ PutPresent
  <2>1. Map' = Map /\ hashes' = hashes
    BY <1>2, Tables, Returned DEF GetFound, GetMissing, PutPresent
  <2> QED
    BY <2>1, FoundInSame
<1>3. CASE SetPresent
  <2>1. PICK i \in 0..(Map.capacity - 1) :
          Map.keys[i] # NULL /\ Return([Map EXCEPT !.values[i] = Current.data], "void")
    BY <1>3 DEF SetPresent
  <2> DEFINE t == [Map EXCEPT !.values[i] = Current.data]
  <2>2. t \in Table /\ t.keys = Map.keys /\ t.capacity = Map.capacity
    BY <1>3, <2>1, OverwriteIs DEF SetPresent
  <2>3. Return(t, "void")
    BY <2>1
  <2> HIDE DEF t
  <2>4. Map' = t /\ hashes' = hashes
    BY <1>3, <2>2, <2>3, Returned DEF SetPresent
  <2> QED
    BY <2>2, <2>4, FoundInSame
<1>4. CASE Grow
  <2>1. Map' = NewTable(Map.capacity * 2)
    BY <1>4, Grown
  <2> QED
    BY <2>1 DEF FoundWhereItIs, NewTable
<1>5. CASE Insert
  <2>1. PICK i \in 0..(Map.capacity - 1) :
          /\ FindsAt(i) /\ Map.keys[i] = NULL
          /\ Return(InsertAt(i), IF Current.name = "put" THEN "inserted" ELSE "void")
    BY <1>5 DEF Insert
  <2>2. /\ InsertAt(i) \in Table /\ InsertAt(i).capacity = Map.capacity
        /\ InsertAt(i).keys = [Map.keys EXCEPT ![i] = Current.key]
    BY <1>5, <2>1, InsertAtIs DEF Insert
  <2>3. Map' = InsertAt(i) /\ hashes' = hashes
    BY <1>5, <2>1, <2>2, Returned DEF Insert
  <2>4. /\ Map.capacity \in Nat \ {0} /\ Map.keys \in [0..(Map.capacity - 1) -> Keys \cup {NULL}]
        /\ Current.key \in Keys /\ NULL \notin Keys
    BY <1>5, Tables, CurrentType, HashMapConstants DEF Table, IsTable, Insert
  <2>5. ASSUME NEW j \in 0..(Map.capacity - 1), Map'.keys[j] # NULL
        PROVE  StopsAt(Map'.keys, Map.capacity, Map'.keys[j], hashes[Map'.keys[j]], j)
    <3> DEFINE l == Map'.keys[j]
    <3>1. l \in Keys /\ hashes[l] \in HashPair
      BY <2>2, <2>3, <2>4, <2>5 DEF MapTypeOK
    <3>2. (Map.keys[j] = l \/ (j = i /\ l = Current.key))
      BY <2>2, <2>3, <2>4
    <3>3. StopsAt(Map.keys, Map.capacity, l, hashes[l], j)
      <4>1. CASE Map.keys[j] = l
        BY <2>4, <2>5, <3>1, <4>1 DEF FoundWhereItIs
      <4>2. CASE j = i /\ l = Current.key
        BY <2>1, <4>2 DEF FindsAt
      <4> QED
        BY <3>2, <4>1, <4>2
    <3> HIDE DEF l
    <3>4. StopsAt([Map.keys EXCEPT ![i] = Current.key], Map.capacity, l, hashes[l], j)
      BY <2>1, <2>4, <3>1, <3>2, <3>3, Filled
    <3> QED
      BY <2>2, <2>3, <3>4 DEF l
  <2> QED
    BY <2>2, <2>3, <2>5 DEF FoundWhereItIs
<1> QED
  BY <1>1, <1>2, <1>3, <1>4, <1>5 DEF MapNext, Work

-----------------------------------------------------------------------------
\* Every string is held once, and moving entries changes no contents

\* An action that only moves entries.
Kept ==
  /\ Once(tables')
  /\ ContentsIn(tables') = ContentsIn(tables)
  /\ \A k : (\A p \in PlacesIn(tables) : KeyIn(tables, p) # k)
              => \A p \in PlacesIn(tables') : KeyIn(tables', p) # k

LEMMA SkipKeeps ==
  ASSUME MapIInv, SkipFree
  PROVE  Kept
<1>1. tables \in Seq(Table) /\ Last \in Nat \ {0} /\ Once(tables)
  BY Tables, InTables DEF MapIInv
<1>2. /\ tables' \in Seq(Table) /\ Last' = Last /\ Last > 1
      /\ \A t \in 1..Last :
           tables'[t] = IF t = Last - 1 THEN [tables[t] EXCEPT !.at = @ + 1] ELSE tables[t]
  BY Skipped DEF MapIInv
<1>3. Old \in Table /\ Old.at < Old.capacity /\ Old.keys[Old.at] = NULL /\ Old.at \in Nat
  <2>1. Old \in Table
    BY <1>1, <1>2 DEF Old, Last
  <2> QED
    BY <2>1 DEF SkipFree, Table, IsTable
<1>4. \A t \in 1..Last : /\ tables'[t].keys = tables[t].keys /\ tables'[t].values = tables[t].values
                         /\ tables'[t].capacity = tables[t].capacity
                         /\ tables'[t].at = IF t = Last - 1 THEN tables[t].at + 1 ELSE tables[t].at
  BY <1>2, <1>3, PassedOver DEF Old
<1>5. \A t \in 1..Last : tables[t].at \in Nat /\ tables[t].capacity \in Nat
  BY <1>1 DEF Last, Table, IsTable
<1>6. ASSUME NEW t \in 1..Last, NEW i
      PROVE  (i \in tables'[t].at..(tables'[t].capacity - 1) /\ tables'[t].keys[i] # NULL)
               <=> (i \in tables[t].at..(tables[t].capacity - 1) /\ tables[t].keys[i] # NULL)
  <2>1. CASE t = Last - 1
    <3>1. tables[t] = Old
      BY <2>1 DEF Old
    <3> QED
      BY <1>3, <1>4, <1>5, <2>1, <3>1
  <2>2. CASE t # Last - 1
    BY <1>4, <2>2
  <2> QED
    BY <2>1, <2>2
<1>7. PlacesIn(tables') = PlacesIn(tables)
  <2>1. Len(tables') = Len(tables) /\ Len(tables) = Last
    BY <1>2 DEF Last
  <2>2. \A p \in PlacesIn(tables') : p \in PlacesIn(tables)
    <3> TAKE p \in PlacesIn(tables')
    <3>1. /\ p = <<p[1], p[2]>> /\ p[1] \in 1..Last
          /\ p[2] \in tables'[p[1]].at..(tables'[p[1]].capacity - 1)
          /\ tables'[p[1]].keys[p[2]] # NULL
      BY <2>1 DEF PlacesIn
    <3> QED
      BY <1>1, <1>6, <2>1, <3>1, PlaceFacts
  <2>3. \A p \in PlacesIn(tables) : p \in PlacesIn(tables')
    <3> TAKE p \in PlacesIn(tables)
    <3>1. /\ p = <<p[1], p[2]>> /\ p[1] \in 1..Last
          /\ p[2] \in tables[p[1]].at..(tables[p[1]].capacity - 1)
          /\ tables[p[1]].keys[p[2]] # NULL
      BY <2>1 DEF PlacesIn
    <3> QED
      BY <1>2, <1>6, <2>1, <3>1, PlaceFacts
  <2> QED
    BY <2>2, <2>3
<1> DEFINE g == [p \in PlacesIn(tables') |-> p]
<1>8. \A p \in PlacesIn(tables') : /\ KeyIn(tables', p) = KeyIn(tables, p)
                                   /\ ValueIn(tables', p) = ValueIn(tables, p)
  BY <1>1, <1>4, <1>7, PlaceFacts DEF KeyIn, ValueIn, Last
<1>9. g \in [PlacesIn(tables') -> PlacesIn(tables)]
  BY <1>7
<1>10. \A p \in PlacesIn(tables') : g[p] = p
  OBVIOUS
<1> HIDE DEF g
<1> QED
  BY <1>1, <1>2, <1>7, <1>8, <1>9, <1>10, Moved DEF Kept

LEMMA GrowKeeps ==
  ASSUME MapIInv, Grow
  PROVE  Kept
<1>1. tables \in Seq(Table) /\ Last \in Nat \ {0} /\ Once(tables) /\ Len(tables) = Last
  BY Tables, InTables DEF MapIInv, Last
<1>2. /\ tables' \in Seq(Table) /\ Len(tables') = Last + 1
      /\ tables'[Last + 1] = NewTable(Map.capacity * 2)
      /\ \A t \in 1..Last : tables'[t] = tables[t]
  BY Grown DEF MapIInv, Last, Map
<1>3. ASSUME NEW p \in PlacesIn(tables')
      PROVE  p \in PlacesIn(tables)
  <2>1. /\ p = <<p[1], p[2]>> /\ p[1] \in 1..(Last + 1)
        /\ p[2] \in tables'[p[1]].at..(tables'[p[1]].capacity - 1)
        /\ tables'[p[1]].keys[p[2]] # NULL
    BY <1>2 DEF PlacesIn
  <2>2. p[1] # Last + 1
    <3>1. Map.capacity * 2 \in Nat
      <4>1. Map.capacity \in Nat
        BY Tables DEF MapIInv, Table, IsTable
      <4> QED
        BY <4>1
    <3> DEFINE c == Map.capacity * 2
    <3>2. tables'[Last + 1].at = 0 /\ tables'[Last + 1].capacity = c
      BY <1>2 DEF NewTable
    <3>3. \A j \in 0..(c - 1) : tables'[Last + 1].keys[j] = NULL
      BY <1>2 DEF NewTable
    <3> HIDE DEF c
    <3> QED
      BY <2>1, <3>2, <3>3
  <2>3. p[1] \in 1..Last
    BY <1>1, <2>1, <2>2
  <2> QED
    BY <1>1, <1>2, <2>1, <2>3, PlaceFacts
<1>4. ASSUME NEW p \in PlacesIn(tables)
      PROVE  p \in PlacesIn(tables')
  <2>1. /\ p = <<p[1], p[2]>> /\ p[1] \in 1..Last
        /\ p[2] \in tables[p[1]].at..(tables[p[1]].capacity - 1)
        /\ tables[p[1]].keys[p[2]] # NULL
    BY <1>1 DEF PlacesIn
  <2>2. p[1] \in 1..Len(tables') /\ tables'[p[1]] = tables[p[1]]
    BY <1>1, <1>2, <2>1
  <2> QED
    BY <1>2, <2>1, <2>2, PlaceFacts
<1>5. PlacesIn(tables') = PlacesIn(tables)
  BY <1>3, <1>4
<1> DEFINE g == [p \in PlacesIn(tables') |-> p]
<1>6. \A p \in PlacesIn(tables') : /\ KeyIn(tables', p) = KeyIn(tables, p)
                                   /\ ValueIn(tables', p) = ValueIn(tables, p)
  BY <1>1, <1>2, <1>5, PlaceFacts DEF KeyIn, ValueIn
<1>7. g \in [PlacesIn(tables') -> PlacesIn(tables)]
  BY <1>5
<1>8. \A p \in PlacesIn(tables') : g[p] = p
  OBVIOUS
<1> HIDE DEF g
<1> QED
  BY <1>1, <1>2, <1>5, <1>6, <1>7, <1>8, Moved DEF Kept

LEMMA RetryKeeps ==
  ASSUME MapIInv, Retry
  PROVE  Kept
<1>1. tables \in Seq(Table) /\ Last \in Nat \ {0} /\ Once(tables) /\ Len(tables) = Last
  BY Tables, InTables DEF MapIInv, Last
<1>2. /\ tables' \in Seq(Table) /\ Len(tables') = Last - 1 /\ Last > 1
      /\ tables'[Last - 1] = tables[Last]
      /\ \A t \in 1..(Last - 2) : tables'[t] = tables[t]
      /\ Old.at = Old.capacity
  BY Retried DEF MapIInv, Last, Map
<1>3. Old.capacity \in Nat /\ Old = tables[Last - 1]
  <2>1. Old \in Table /\ Old = tables[Last - 1]
    BY <1>1, <1>2 DEF Old
  <2> QED
    BY <2>1 DEF Table, IsTable
<1> DEFINE From(p) == IF p[1] = Last - 1 THEN <<Last, p[2]>> ELSE p
           g == [p \in PlacesIn(tables') |-> From(p)]
<1>4. ASSUME NEW p \in PlacesIn(tables')
      PROVE  /\ p = <<p[1], p[2]>> /\ p[1] \in 1..(Last - 1)
             /\ From(p) \in PlacesIn(tables)
             /\ KeyIn(tables', p) = KeyIn(tables, From(p))
             /\ ValueIn(tables', p) = ValueIn(tables, From(p))
  <2>1. /\ p = <<p[1], p[2]>> /\ p[1] \in 1..(Last - 1)
        /\ p[2] \in tables'[p[1]].at..(tables'[p[1]].capacity - 1)
        /\ tables'[p[1]].keys[p[2]] # NULL
    BY <1>2 DEF PlacesIn
  <2>2. CASE p[1] = Last - 1
    BY <1>1, <1>2, <2>1, <2>2, PlaceFacts DEF KeyIn, ValueIn
  <2>3. CASE p[1] # Last - 1
    <3>1. p[1] \in 1..(Last - 2) /\ p[1] \in 1..Last
      BY <1>1, <2>1, <2>3
    <3>2. From(p) = p /\ tables'[p[1]] = tables[p[1]]
      BY <1>2, <2>3, <3>1
    <3>3. <<p[1], p[2]>> \in PlacesIn(tables)
      BY <1>1, <2>1, <3>1, <3>2, PlaceFacts
    <3> QED
      BY <2>1, <3>2, <3>3 DEF KeyIn, ValueIn
  <2> QED
    BY <2>2, <2>3
<1>5. ASSUME NEW p \in PlacesIn(tables)
      PROVE  \E q \in PlacesIn(tables') : From(q) = p
  <2>1. /\ p = <<p[1], p[2]>> /\ p[1] \in 1..Last
        /\ p[2] \in tables[p[1]].at..(tables[p[1]].capacity - 1)
        /\ tables[p[1]].keys[p[2]] # NULL
    BY <1>1 DEF PlacesIn
  <2>2. CASE p[1] = Last
    <3>1. <<Last - 1, p[2]>> \in PlacesIn(tables')
      BY <1>1, <1>2, <2>1, <2>2, PlaceFacts
    <3>2. From(<<Last - 1, p[2]>>) = p
      BY <2>1, <2>2
    <3> QED
      BY <3>1, <3>2
  <2>3. CASE p[1] # Last
    <3>1. p[1] # Last - 1
      BY <1>2, <1>3, <2>1
    <3>2. p[1] \in 1..(Last - 2) /\ p[1] \in 1..Len(tables')
      BY <1>1, <1>2, <2>1, <2>3, <3>1
    <3>3. p \in PlacesIn(tables')
      BY <1>2, <2>1, <3>2, PlaceFacts
    <3> QED
      BY <3>1, <3>3
  <2> QED
    BY <2>2, <2>3
<1>6. \A p, q \in PlacesIn(tables') : From(p) = From(q) => p = q
  <2> SUFFICES ASSUME NEW p \in PlacesIn(tables'), NEW q \in PlacesIn(tables'), From(p) = From(q)
               PROVE  p = q
    OBVIOUS
  <2>1. /\ p = <<p[1], p[2]>> /\ p[1] \in 1..(Last - 1)
        /\ q = <<q[1], q[2]>> /\ q[1] \in 1..(Last - 1)
    BY <1>4
  <2> QED
    BY <1>1, <2>1
<1>7. g \in [PlacesIn(tables') -> PlacesIn(tables)]
  BY <1>4
<1>8. \A p \in PlacesIn(tables') : g[p] = From(p)
  OBVIOUS
<1> HIDE DEF g, From
<1> QED
  BY <1>1, <1>2, <1>4, <1>5, <1>6, <1>7, <1>8, Moved DEF Kept

LEMMA MoveKeeps ==
  ASSUME MapIInv, Insert, Growing
  PROVE  Kept
<1>1. tables \in Seq(Table) /\ Last \in Nat \ {0} /\ Once(tables) /\ Len(tables) = Last /\ Last > 1
  BY Tables, InTables DEF MapIInv, Last, Growing
<1>2. PICK i \in 0..(Map.capacity - 1) :
        /\ Map.keys[i] = NULL
        /\ Return(InsertAt(i), IF Current.name = "put" THEN "inserted" ELSE "void")
  BY DEF Insert
<1> DEFINE t == InsertAt(i)
<1>3. /\ t \in Table /\ t.at = 0 /\ t.capacity = Map.capacity
      /\ t.keys = [Map.keys EXCEPT ![i] = Current.key]
      /\ t.values = [Map.values EXCEPT ![i] = Current.data]
  BY <1>2, InsertAtIs DEF MapIInv, Insert
<1>4. /\ tables' \in Seq(Table) /\ Len(tables') = Last /\ tables'[Last] = t
      /\ \A s \in 1..(Last - 1) :
           tables'[s] = IF s = Last - 1 THEN [tables[s] EXCEPT !.at = @ + 1] ELSE tables[s]
  BY <1>2, <1>3, Returned DEF MapIInv, Insert, Last, Map
<1> HIDE DEF t
<1>5. Old \in Table /\ Old.at < Old.capacity /\ Old = tables[Last - 1] /\ Old.at \in Nat
  <2>1. Old \in Table /\ Old = tables[Last - 1]
    BY <1>1 DEF Old
  <2> QED
    BY <2>1 DEF Table, IsTable, Insert, Working
<1>6. \A s \in 1..(Last - 1) :
        /\ tables'[s].keys = tables[s].keys /\ tables'[s].values = tables[s].values
        /\ tables'[s].capacity = tables[s].capacity
        /\ tables'[s].at = IF s = Last - 1 THEN tables[s].at + 1 ELSE tables[s].at
  BY <1>4, <1>5, PassedOver
<1>7. /\ Map = tables[Last] /\ Map.at = 0 /\ Map.capacity \in Nat
      /\ Map.keys \in [0..(Map.capacity - 1) -> Keys \cup {NULL}]
      /\ Map.values \in [0..(Map.capacity - 1) -> Values \cup {Unset}]
      /\ Current.key # NULL
  BY Tables, CurrentType, HashMapConstants DEF MapIInv, MapTypeOK, Map, Table, IsTable, Insert
<1> DEFINE From(p) == IF p = <<Last, i>> THEN <<Last - 1, Old.at>> ELSE p
           g == [p \in PlacesIn(tables') |-> From(p)]
<1>8. /\ <<Last - 1, Old.at>> \in PlacesIn(tables)
      /\ KeyIn(tables, <<Last - 1, Old.at>>) = Current.key
      /\ ValueIn(tables, <<Last - 1, Old.at>>) = Current.data
  BY NeverThereWhileGrowing DEF MapIInv, Insert
<1>9. ASSUME NEW p \in PlacesIn(tables')
      PROVE  /\ From(p) \in PlacesIn(tables) /\ p # <<Last - 1, Old.at>>
             /\ KeyIn(tables', p) = KeyIn(tables, From(p))
             /\ ValueIn(tables', p) = ValueIn(tables, From(p))
  <2>1. /\ p = <<p[1], p[2]>> /\ p[1] \in 1..Last
        /\ p[2] \in tables'[p[1]].at..(tables'[p[1]].capacity - 1)
        /\ tables'[p[1]].keys[p[2]] # NULL
    BY <1>4 DEF PlacesIn
  <2>2. CASE p = <<Last, i>>
    <3>1. KeyIn(tables', p) = Current.key /\ ValueIn(tables', p) = Current.data
      BY <1>3, <1>4, <1>7, <2>2 DEF KeyIn, ValueIn
    <3> QED
      BY <1>1, <1>8, <2>2, <3>1
  <2>3. CASE p[1] = Last /\ p # <<Last, i>>
    <3>1. p[2] # i /\ p[2] \in 0..(Map.capacity - 1)
      BY <1>3, <1>4, <2>1, <2>3
    <3>2. Map.keys[p[2]] = t.keys[p[2]] /\ Map.values[p[2]] = t.values[p[2]]
      BY <1>3, <1>7, <3>1
    <3>3. <<Last, p[2]>> \in PlacesIn(tables)
      BY <1>1, <1>4, <1>7, <2>1, <2>3, <3>1, <3>2, PlaceFacts
    <3>4. From(p) = p /\ p # <<Last - 1, Old.at>>
      BY <1>1, <2>1, <2>3
    <3>5. KeyIn(tables', p) = KeyIn(tables, p) /\ ValueIn(tables', p) = ValueIn(tables, p)
      BY <1>4, <1>7, <2>3, <3>2 DEF KeyIn, ValueIn
    <3> QED
      BY <2>1, <2>3, <3>3, <3>4, <3>5
  <2>4. CASE p[1] # Last
    <3>1. p[1] \in 1..(Last - 1) /\ p[1] \in 1..Last /\ From(p) = p
      BY <1>1, <2>1, <2>4
    <3>2. p[2] \in tables[p[1]].at..(tables[p[1]].capacity - 1) /\ p # <<Last - 1, Old.at>>
      <4>1. tables[p[1]].at \in Nat
        <5>1. tables[p[1]] \in Table
          BY <1>1, <3>1
        <5> QED
          BY <5>1 DEF Table, IsTable
      <4> QED
        BY <1>5, <1>6, <2>1, <3>1, <4>1
    <3>3. <<p[1], p[2]>> \in PlacesIn(tables)
      BY <1>1, <1>6, <2>1, <3>1, <3>2, PlaceFacts
    <3> QED
      BY <1>6, <2>1, <3>1, <3>2, <3>3 DEF KeyIn, ValueIn
  <2> QED
    BY <2>2, <2>3, <2>4
<1>10. ASSUME NEW p \in PlacesIn(tables)
       PROVE  \E q \in PlacesIn(tables') : From(q) = p
  <2>1. /\ p = <<p[1], p[2]>> /\ p[1] \in 1..Last
        /\ p[2] \in tables[p[1]].at..(tables[p[1]].capacity - 1)
        /\ tables[p[1]].keys[p[2]] # NULL
    BY <1>1 DEF PlacesIn
  <2>2. CASE p = <<Last - 1, Old.at>>
    <3>1. <<Last, i>> \in PlacesIn(tables')
      BY <1>1, <1>3, <1>4, <1>7, PlaceFacts
    <3> QED
      BY <2>2, <3>1
  <2>3. CASE p[1] = Last
    <3>1. p[2] # i /\ p[2] \in 0..(Map.capacity - 1)
      BY <1>2, <1>7, <2>1, <2>3
    <3>2. t.keys[p[2]] # NULL
      BY <1>3, <1>7, <2>1, <2>3, <3>1
    <3>3. <<Last, p[2]>> \in PlacesIn(tables')
      <4>1. p[2] \in tables'[Last].at..(tables'[Last].capacity - 1) /\ tables'[Last].keys[p[2]] # NULL
        BY <1>3, <1>4, <3>1, <3>2
      <4>2. Last \in 1..Len(tables')
        BY <1>1, <1>4
      <4> QED
        BY <1>4, <4>1, <4>2, PlaceFacts
    <3>4. From(<<Last, p[2]>>) = p
      BY <2>1, <2>3, <3>1
    <3> QED
      BY <3>3, <3>4
  <2>4. CASE p[1] # Last /\ p # <<Last - 1, Old.at>>
    <3>1. p[1] \in 1..(Last - 1)
      BY <1>1, <2>1, <2>4
    <3>2. p[2] \in tables'[p[1]].at..(tables'[p[1]].capacity - 1) /\ tables'[p[1]].keys[p[2]] # NULL
      BY <1>5, <1>6, <2>1, <2>4, <3>1
    <3>3. <<p[1], p[2]>> \in PlacesIn(tables')
      BY <1>1, <1>4, <3>1, <3>2, PlaceFacts
    <3>4. From(p) = p
      BY <1>1, <2>4
    <3> QED
      BY <2>1, <3>3, <3>4
  <2> QED
    BY <2>2, <2>3, <2>4
<1>11. \A p, q \in PlacesIn(tables') : From(p) = From(q) => p = q
  BY <1>9
<1>12. g \in [PlacesIn(tables') -> PlacesIn(tables)]
  BY <1>9
<1>13. \A p \in PlacesIn(tables') : g[p] = From(p)
  OBVIOUS
<1> HIDE DEF g, From
<1> QED
  BY <1>1, <1>4, <1>9, <1>10, <1>11, <1>12, <1>13, Moved DEF Kept

-----------------------------------------------------------------------------
\* What an answer does to the contents

\* Between growths there is one table, nothing of which is moved.
LEMMA OneTable ==
  ASSUME MapTypeOK, ~Growing
  PROVE  /\ tables = <<Map>> /\ Last = 1 /\ Map.at = 0
         /\ Map.capacity \in Nat \ {0}
         /\ Map.keys \in [0..(Map.capacity - 1) -> Keys \cup {NULL}]
         /\ \A p : p \in PlacesIn(tables)
                     <=> \E i \in 0..(Map.capacity - 1) : p = <<1, i>> /\ Map.keys[i] # NULL
         /\ \A i : KeyIn(tables, <<1, i>>) = Map.keys[i] /\ ValueIn(tables, <<1, i>>) = Map.values[i]
<1>1. tables \in Seq(Table) /\ Last = 1 /\ Map \in Table /\ Map.at = 0
  BY Tables DEF Growing, MapTypeOK
<1>2. tables = <<Map>> /\ Len(tables) = 1
  BY <1>1 DEF Last, Map
<1>3. Map.capacity \in Nat \ {0} /\ Map.keys \in [0..(Map.capacity - 1) -> Keys \cup {NULL}]
  BY <1>1 DEF Table, IsTable
<1>4. tables[1] = Map
  BY <1>2
<1>5. ASSUME NEW p \in PlacesIn(tables)
      PROVE  \E i \in 0..(Map.capacity - 1) : p = <<1, i>> /\ Map.keys[i] # NULL
  <2>1. /\ p = <<p[1], p[2]>> /\ p[1] \in 1..1
        /\ p[2] \in tables[p[1]].at..(tables[p[1]].capacity - 1)
        /\ tables[p[1]].keys[p[2]] # NULL
    BY <1>2 DEF PlacesIn
  <2>2. p[1] = 1
    BY <2>1
  <2> QED
    BY <1>1, <1>4, <2>1, <2>2
<1>6. ASSUME NEW i \in 0..(Map.capacity - 1), Map.keys[i] # NULL
      PROVE  <<1, i>> \in PlacesIn(tables)
  <2>1. /\ 1 \in 1..Len(tables) /\ i \in tables[1].at..(tables[1].capacity - 1)
        /\ tables[1].keys[i] # NULL
    BY <1>1, <1>2, <1>3, <1>4, <1>6
  <2> QED
    BY <1>1, <2>1, PlaceFacts
<1> QED
  BY <1>1, <1>2, <1>3, <1>4, <1>5, <1>6 DEF KeyIn, ValueIn

\* Only set is called while a table is emptied, and for strings not yet there.
LEMMA NotGrowing ==
  ASSUME MapIInv, GetFound \/ GetMissing \/ PutPresent \/ SetPresent
  PROVE  ~Growing /\ Working /\ Current = call
<1>1. Working
  BY DEF GetFound, GetMissing, PutPresent, SetPresent
<1>2. ASSUME Growing
      PROVE  FALSE
  <2>1. /\ Current.name = "set"
        /\ \A i \in 0..(Map.capacity - 1) : Map.keys[i] # Current.key
    BY <1>1, <1>2, NeverThereWhileGrowing DEF MapIInv
  <2>2. PICK i \in 0..(Map.capacity - 1) : FindsAt(i) /\ Map.keys[i] # NULL
    BY <2>1 DEF GetFound, GetMissing, PutPresent, SetPresent
  <2>3. Map.keys[i] = Current.key
    BY <2>2 DEF FindsAt, StopsAt
  <2> QED
    BY <2>1, <2>3
<1> QED
  BY <1>1, <1>2 DEF Current

\* A string the search finds is held there, with the value the contents have.
LEMMA FoundIsHeld ==
  ASSUME MapIInv, ~Growing, Working, NEW i \in 0..(Map.capacity - 1), FindsAt(i), Map.keys[i] # NULL
  PROVE  /\ <<1, i>> \in PlacesIn(tables) /\ KeyIn(tables, <<1, i>>) = call.key
         /\ ContentsIn(tables)[call.key] = Map.values[i] /\ Map.values[i] \in Values
<1>1. Current = call /\ Map.keys[i] = call.key
  BY DEF FindsAt, StopsAt, Current
<1>2. /\ <<1, i>> \in PlacesIn(tables) /\ KeyIn(tables, <<1, i>>) = call.key
      /\ ValueIn(tables, <<1, i>>) = Map.values[i]
  BY <1>1, OneTable DEF MapIInv
<1>3. tables \in Seq(Table) /\ Once(tables)
  BY Tables, InTables DEF MapIInv
<1>4. ContentsIn(tables)[call.key] = Map.values[i]
  BY <1>2, <1>3, ContentsSay
<1>5. Map.values[i] \in Values
  BY <1>2, <1>3, PlaceFacts
<1> QED
  BY <1>2, <1>4, <1>5

\* A string the search does not find has no contents.
LEMMA MissingIsNot ==
  ASSUME MapIInv, ~Growing, Working,
         Collides \/ \E i \in 0..(Map.capacity - 1) : FindsAt(i) /\ Map.keys[i] = NULL
  PROVE  /\ \A p \in PlacesIn(tables) : KeyIn(tables, p) # call.key
         /\ ContentsIn(tables)[call.key] = NULL
<1>1. Current = call
  BY DEF Current
<1>2. \A i \in 0..(Map.capacity - 1) : Map.keys[i] # call.key
  BY <1>1, NotThere DEF MapIInv
<1>3. \A p \in PlacesIn(tables) : KeyIn(tables, p) # call.key
  BY <1>2, OneTable DEF MapIInv
<1>4. call.key \in Keys
  BY <1>1, CurrentType DEF MapIInv
<1> QED
  BY <1>3, <1>4 DEF ContentsIn

LEMMA SetsContents ==
  ASSUME MapIInv, SetPresent
  PROVE  /\ call.name = "set" /\ call' = NULL /\ result' = "void"
         /\ Once(tables')
         /\ ContentsIn(tables') = [ContentsIn(tables) EXCEPT ![call.key] = call.data]
<1>1. ~Growing /\ Working /\ Current = call
  BY NotGrowing
<1>2. PICK i \in 0..(Map.capacity - 1) :
        FindsAt(i) /\ Map.keys[i] # NULL /\ Return([Map EXCEPT !.values[i] = Current.data], "void")
  BY DEF SetPresent
<1> DEFINE t == [Map EXCEPT !.values[i] = Current.data]
<1>3. /\ t \in Table /\ t.at = 0 /\ t.capacity = Map.capacity /\ t.keys = Map.keys
      /\ t.values = [Map.values EXCEPT ![i] = call.data]
  BY <1>1, <1>2, OverwriteIs DEF MapIInv, SetPresent
<1>4. Return(t, "void")
  BY <1>2
<1> HIDE DEF t
<1>5. tables' \in Seq(Table) /\ Last' = 1 /\ Map' = t /\ call' = NULL /\ result' = "void"
  BY <1>1, <1>3, <1>4, Returned, OneTable DEF MapIInv, Return
<1>6. MapTypeOK' /\ ~Growing'
  BY <1>5, StepTypes DEF MapIInv, MapNext, Work, Growing
<1>7. /\ \A p : p \in PlacesIn(tables')
                  <=> \E j \in 0..(Map.capacity - 1) : p = <<1, j>> /\ Map.keys[j] # NULL
      /\ \A j : KeyIn(tables', <<1, j>>) = Map.keys[j] /\ ValueIn(tables', <<1, j>>) = t.values[j]
  <2>1. tables' = <<t>> /\ Len(tables') = 1 /\ tables'[1] = t
    BY <1>5 DEF Last, Map
  <2>2. ASSUME NEW p \in PlacesIn(tables')
        PROVE  \E j \in 0..(Map.capacity - 1) : p = <<1, j>> /\ Map.keys[j] # NULL
    <3>1. /\ p = <<p[1], p[2]>> /\ p[1] \in 1..1
          /\ p[2] \in tables'[p[1]].at..(tables'[p[1]].capacity - 1)
          /\ tables'[p[1]].keys[p[2]] # NULL
      BY <2>1 DEF PlacesIn
    <3>2. p[1] = 1
      BY <3>1
    <3> QED
      BY <1>3, <2>1, <3>1, <3>2
  <2>3. ASSUME NEW j \in 0..(Map.capacity - 1), Map.keys[j] # NULL
        PROVE  <<1, j>> \in PlacesIn(tables')
    <3>1. /\ j \in tables'[1].at..(tables'[1].capacity - 1)
          /\ tables'[1].keys[j] # NULL /\ 1 \in 1..Len(tables')
      BY <1>3, <1>6, <2>1, <2>3
    <3> QED
      BY <1>5, <3>1, PlaceFacts
  <2> QED
    BY <1>3, <2>1, <2>2, <2>3 DEF KeyIn, ValueIn
<1>8. PlacesIn(tables') = PlacesIn(tables)
  BY <1>1, <1>7, OneTable DEF MapIInv
<1>9. tables \in Seq(Table) /\ Once(tables)
  BY Tables, InTables DEF MapIInv
<1>10. \A p \in PlacesIn(tables) : KeyIn(tables', p) = KeyIn(tables, p)
  BY <1>1, <1>7, OneTable DEF MapIInv
<1>11. Once(tables')
  BY <1>8, <1>9, <1>10 DEF Once
<1> DEFINE f == [ContentsIn(tables) EXCEPT ![call.key] = call.data]
<1>12. /\ <<1, i>> \in PlacesIn(tables) /\ KeyIn(tables, <<1, i>>) = call.key
       /\ call.key \in Keys /\ call.data \in Values
  BY <1>1, <1>2, FoundIsHeld, CurrentType DEF MapIInv, SetPresent
<1>13. /\ ContentsIn(tables) \in [Keys -> Values \cup {NULL}]
       /\ \A p \in PlacesIn(tables) : ContentsIn(tables)[KeyIn(tables, p)] = ValueIn(tables, p)
       /\ \A k \in Keys : ContentsIn(tables)[k] = NULL <=> \A p \in PlacesIn(tables) : KeyIn(tables, p) # k
  BY <1>9, ContentsSay
<1>14. f \in [Keys -> Values \cup {NULL}] /\ f[call.key] = call.data
       /\ \A k \in Keys : k # call.key => f[k] = ContentsIn(tables)[k]
  BY <1>12, <1>13
<1>15. ASSUME NEW p \in PlacesIn(tables)
       PROVE  f[KeyIn(tables', p)] = ValueIn(tables', p)
  <2>1. KeyIn(tables', p) = KeyIn(tables, p) /\ KeyIn(tables, p) \in Keys
    BY <1>9, <1>10, PlaceFacts
  <2>2. PICK j \in 0..(Map.capacity - 1) : p = <<1, j>> /\ Map.keys[j] # NULL
    BY <1>7, <1>8
  <2>3. CASE p = <<1, i>>
    <3>1. ValueIn(tables', p) = call.data
      <4>1. DOMAIN Map.values = 0..(Map.capacity - 1)
        BY Tables DEF MapIInv, Table, IsTable
      <4> QED
        BY <1>3, <1>7, <2>3, <4>1
    <3> QED
      BY <1>12, <1>14, <2>1, <2>3, <3>1
  <2>4. CASE p # <<1, i>>
    <3>1. KeyIn(tables, p) # call.key
      BY <1>9, <1>12, <2>4 DEF Once
    <3>2. ValueIn(tables', p) = ValueIn(tables, p)
      <4>1. j # i
        BY <2>2, <2>4
      <4>2. Map.values \in [0..(Map.capacity - 1) -> Values \cup {Unset}]
        BY Tables DEF MapIInv, Table, IsTable
      <4>3. t.values[j] = Map.values[j]
        BY <1>3, <4>1, <4>2
      <4> QED
        BY <1>1, <1>7, <2>2, <4>3, OneTable DEF MapIInv
    <3> QED
      BY <1>13, <1>14, <2>1, <3>1, <3>2
  <2> QED
    BY <2>3, <2>4
<1>16. \A k \in Keys : (\A p \in PlacesIn(tables') : KeyIn(tables', p) # k) => f[k] = NULL
  BY <1>8, <1>10, <1>12, <1>13, <1>14
<1>17. DOMAIN f = Keys /\ f = [k \in Keys |-> f[k]]
  BY <1>14
<1> HIDE DEF f
<1>18. ContentsIn(tables') = f
  BY <1>8, <1>11, <1>15, <1>16, <1>17, ContentsAre
<1> QED
  BY <1>1, <1>5, <1>11, <1>18 DEF f, SetPresent

LEMMA PutsContents ==
  ASSUME MapIInv, Insert, ~Growing
  PROVE  /\ call.name \in {"put", "set"} /\ call' = NULL
         /\ result' = IF call.name = "put" THEN "inserted" ELSE "void"
         /\ Once(tables') /\ ContentsIn(tables)[call.key] = NULL
         /\ ContentsIn(tables') = [ContentsIn(tables) EXCEPT ![call.key] = call.data]
<1>1. Working /\ Current = call /\ call.name \in {"put", "set"}
      /\ call.key \in Keys /\ call.data \in Values
  BY CurrentType DEF MapIInv, Insert, Current
<1>2. PICK i \in 0..(Map.capacity - 1) :
        /\ FindsAt(i) /\ Map.keys[i] = NULL
        /\ Return(InsertAt(i), IF Current.name = "put" THEN "inserted" ELSE "void")
  BY DEF Insert
<1> DEFINE t == InsertAt(i)
<1>3. /\ t \in Table /\ t.at = 0 /\ t.capacity = Map.capacity
      /\ t.keys = [Map.keys EXCEPT ![i] = call.key]
      /\ t.values = [Map.values EXCEPT ![i] = call.data]
  BY <1>1, <1>2, InsertAtIs DEF MapIInv, Insert
<1> HIDE DEF t
<1>4. Return(t, IF call.name = "put" THEN "inserted" ELSE "void")
  BY <1>1, <1>2 DEF t
<1>5. tables' \in Seq(Table) /\ Last' = 1 /\ Map' = t /\ call' = NULL
      /\ result' = IF call.name = "put" THEN "inserted" ELSE "void"
  BY <1>1, <1>3, <1>4, Returned, OneTable DEF MapIInv, Return
<1>6. /\ Map.capacity \in Nat \ {0} /\ Map.keys \in [0..(Map.capacity - 1) -> Keys \cup {NULL}]
      /\ Map.values \in [0..(Map.capacity - 1) -> Values \cup {Unset}]
  BY Tables DEF MapIInv, Table, IsTable
<1>7. \A j \in 0..(Map.capacity - 1) :
        /\ t.keys[j] = IF j = i THEN call.key ELSE Map.keys[j]
        /\ t.values[j] = IF j = i THEN call.data ELSE Map.values[j]
  BY <1>3, <1>6
<1>8. /\ \A p : p \in PlacesIn(tables')
                  <=> \E j \in 0..(Map.capacity - 1) : p = <<1, j>> /\ t.keys[j] # NULL
      /\ \A j : KeyIn(tables', <<1, j>>) = t.keys[j] /\ ValueIn(tables', <<1, j>>) = t.values[j]
  <2>1. tables' = <<t>> /\ Len(tables') = 1 /\ tables'[1] = t
    BY <1>5 DEF Last, Map
  <2>2. ASSUME NEW p \in PlacesIn(tables')
        PROVE  \E j \in 0..(Map.capacity - 1) : p = <<1, j>> /\ t.keys[j] # NULL
    <3>1. /\ p = <<p[1], p[2]>> /\ p[1] \in 1..1
          /\ p[2] \in tables'[p[1]].at..(tables'[p[1]].capacity - 1)
          /\ tables'[p[1]].keys[p[2]] # NULL
      BY <2>1 DEF PlacesIn
    <3>2. p[1] = 1
      BY <3>1
    <3> QED
      BY <1>3, <2>1, <3>1, <3>2
  <2>3. ASSUME NEW j \in 0..(Map.capacity - 1), t.keys[j] # NULL
        PROVE  <<1, j>> \in PlacesIn(tables')
    <3>1. /\ j \in tables'[1].at..(tables'[1].capacity - 1)
          /\ tables'[1].keys[j] # NULL /\ 1 \in 1..Len(tables')
      BY <1>3, <1>6, <2>1, <2>3
    <3> QED
      BY <1>5, <3>1, PlaceFacts
  <2> QED
    BY <2>1, <2>2, <2>3 DEF KeyIn, ValueIn
<1>9. /\ \A p \in PlacesIn(tables) : KeyIn(tables, p) # call.key
      /\ ContentsIn(tables)[call.key] = NULL
  BY <1>1, <1>2, MissingIsNot
<1>10. NULL \notin Keys /\ call.key # NULL
  BY <1>1, HashMapConstants
<1>11. <<1, i>> \in PlacesIn(tables') /\ KeyIn(tables', <<1, i>>) = call.key
       /\ ValueIn(tables', <<1, i>>) = call.data
  BY <1>7, <1>8, <1>10
<1>12. \A p \in PlacesIn(tables') : p # <<1, i>> =>
         /\ p \in PlacesIn(tables) /\ KeyIn(tables', p) = KeyIn(tables, p)
         /\ ValueIn(tables', p) = ValueIn(tables, p)
  <2> SUFFICES ASSUME NEW p \in PlacesIn(tables'), p # <<1, i>>
               PROVE  /\ p \in PlacesIn(tables) /\ KeyIn(tables', p) = KeyIn(tables, p)
                      /\ ValueIn(tables', p) = ValueIn(tables, p)
    OBVIOUS
  <2>1. PICK j \in 0..(Map.capacity - 1) : p = <<1, j>> /\ t.keys[j] # NULL
    BY <1>8
  <2>2. t.keys[j] = Map.keys[j] /\ t.values[j] = Map.values[j]
    BY <1>7, <2>1
  <2> QED
    BY <1>8, <2>1, <2>2, OneTable DEF MapIInv
<1>13. \A p \in PlacesIn(tables) : p \in PlacesIn(tables') /\ p # <<1, i>>
  <2> TAKE p \in PlacesIn(tables)
  <2>1. PICK j \in 0..(Map.capacity - 1) : p = <<1, j>> /\ Map.keys[j] # NULL
    BY OneTable DEF MapIInv
  <2>2. j # i
    BY <1>2, <2>1
  <2> QED
    BY <1>7, <1>8, <2>1, <2>2
<1>14. tables \in Seq(Table) /\ Once(tables)
  BY Tables, InTables DEF MapIInv
<1>15. Once(tables')
  BY <1>9, <1>11, <1>12, <1>14 DEF Once
<1> DEFINE f == [ContentsIn(tables) EXCEPT ![call.key] = call.data]
<1>16. /\ ContentsIn(tables) \in [Keys -> Values \cup {NULL}]
       /\ \A p \in PlacesIn(tables) : ContentsIn(tables)[KeyIn(tables, p)] = ValueIn(tables, p)
       /\ \A k \in Keys : ContentsIn(tables)[k] = NULL <=> \A p \in PlacesIn(tables) : KeyIn(tables, p) # k
       /\ \A p \in PlacesIn(tables) : KeyIn(tables, p) \in Keys
  BY <1>14, ContentsSay, PlaceFacts
<1>17. f \in [Keys -> Values \cup {NULL}] /\ f[call.key] = call.data
       /\ \A k \in Keys : k # call.key => f[k] = ContentsIn(tables)[k]
  BY <1>1, <1>16
<1>18. \A p \in PlacesIn(tables') : f[KeyIn(tables', p)] = ValueIn(tables', p)
  BY <1>9, <1>11, <1>12, <1>16, <1>17
<1>19. \A k \in Keys : (\A p \in PlacesIn(tables') : KeyIn(tables', p) # k) => f[k] = NULL
  BY <1>11, <1>12, <1>13, <1>16, <1>17
<1>20. DOMAIN f = Keys /\ f = [k \in Keys |-> f[k]]
  BY <1>17
<1> HIDE DEF f
<1>21. ContentsIn(tables') = f
  BY <1>15, <1>18, <1>19, <1>20, ContentsAre
<1> QED
  BY <1>1, <1>5, <1>9, <1>15, <1>21 DEF f

\* What only reads changes no table.
LEMMA ReadsOnly ==
  ASSUME MapIInv, GetFound \/ GetMissing \/ PutPresent
  PROVE  tables' = tables
<1>1. ~Growing /\ Working
  BY NotGrowing
<1>2. \E v : Return(Map, v)
  BY DEF GetFound, GetMissing, PutPresent
<1>3. tables' = [tables EXCEPT ![Last] = Map]
  BY <1>1, <1>2 DEF Return
<1>4. tables \in Seq(Table) /\ Last = 1
  BY <1>1, Tables, OneTable DEF MapIInv
<1> QED
  BY <1>3, <1>4 DEF Map, Last

LEMMA StepHeld ==
  ASSUME MapIInv, [MapNext]_mapVars
  PROVE  HeldOnce'
<1> USE DEF MapIInv
<1>0. HeldOnce' <=> /\ Once(tables')
                    /\ Growing' => \A p \in PlacesIn(tables') : KeyIn(tables', p) # call'.key
  BY InTables, StepTypes DEF HeldOnce, Places, PlacesIn, Last, KeyAt, KeyIn, Once
<1>1. Once(tables) /\ (Growing => \A p \in PlacesIn(tables) : KeyIn(tables, p) # call.key)
  BY InTables
<1>2. CASE Ask \/ UNCHANGED mapVars
  <2>1. tables' = tables /\ (call' = call \/ ~Growing)
    BY <1>2 DEF Ask, mapVars, MapTypeOK
  <2>2. Growing' <=> Growing
    BY <2>1 DEF Growing, Last
  <2> QED
    BY <1>0, <1>1, <2>1, <2>2
<1>3. CASE GetFound \/ GetMissing \/ PutPresent
  <2>1. tables' = tables /\ ~Growing
    BY <1>3, ReadsOnly, NotGrowing
  <2>2. ~Growing'
    BY <2>1 DEF Growing, Last
  <2> QED
    BY <1>0, <1>1, <2>1, <2>2
<1>4. CASE SetPresent
  <2>1. ~Growing'
    BY <1>4, SetsContents, StepTypes DEF MapTypeOK
  <2> QED
    BY <1>0, <1>4, <2>1, SetsContents
<1>5. CASE Insert /\ ~Growing
  <2>1. ~Growing'
    BY <1>5, PutsContents, StepTypes DEF MapTypeOK
  <2> QED
    BY <1>0, <1>5, <2>1, PutsContents
<1>6. CASE Insert /\ Growing
  BY <1>0, <1>1, <1>6, MoveKeeps DEF Kept, Insert, Return
<1>7. CASE SkipFree
  BY <1>0, <1>1, <1>7, SkipKeeps DEF Kept, SkipFree
<1>8. CASE Retry
  BY <1>0, <1>1, <1>8, RetryKeeps DEF Kept, Retry
<1>9. CASE Grow
  <2>1. \A p \in PlacesIn(tables) : KeyIn(tables, p) # call.key
    <3>1. CASE Growing
      BY <1>1, <3>1
    <3>2. CASE ~Growing
      BY <1>9, <3>2, MissingIsNot DEF Grow
    <3> QED
      BY <3>1, <3>2
  <2> QED
    BY <1>0, <1>9, <2>1, GrowKeeps DEF Kept, Grow
<1> QED
  BY <1>2, <1>3, <1>4, <1>5, <1>6, <1>7, <1>8, <1>9 DEF MapNext, Work

-----------------------------------------------------------------------------
\* The theorems

LEMMA InitMapIInv == MapInit => MapIInv
<1> SUFFICES ASSUME MapInit
             PROVE  MapIInv
  OBVIOUS
<1>1. MapTypeOK
  BY InitTypes
<1>2. ~Growing /\ Map = NewTable(InitCapacity)
  BY DEF MapInit, Growing, Last, Map
<1>3. \A i \in 0..(Map.capacity - 1) : Map.keys[i] = NULL
  BY <1>2 DEF NewTable
<1>4. PlacesIn(tables) = {}
  BY <1>1, <1>2, <1>3, OneTable
<1>5. HeldOnce
  BY <1>2, <1>4, InTables DEF Once
<1> QED
  BY <1>1, <1>3, <1>5 DEF MapIInv, FoundWhereItIs

LEMMA StepMapIInv == MapIInv /\ [MapNext]_mapVars => MapIInv'
BY StepTypes, StepHeld, StepFound DEF MapIInv

(***************************************************************************)
(* Types: slots of a table are as many as its capacity, slots in use have   *)
(* values that were given, for any strings, hashes and capacities           *)
(* (hashMap.c:36-149).                                                     *)
(***************************************************************************)
THEOREM MapTypeCorrect == MapSpec => []MapTypeOK
<1>1. MapIInv => MapTypeOK
  BY DEF MapIInv
<1> QED
  BY <1>1, InitMapIInv, StepMapIInv, PTL DEF MapSpec

(***************************************************************************)
(* However deep growth goes, a string is in one slot of one table, and the  *)
(* one that made a table grow is in none: rehashing meets no string twice   *)
(* (hashMap.c:86-101 and 129-144).                                         *)
(***************************************************************************)
THEOREM HeldOnceAlways == MapSpec => []HeldOnce
<1>1. MapIInv => HeldOnce
  BY DEF MapIInv
<1> QED
  BY <1>1, InitMapIInv, StepMapIInv, PTL DEF MapSpec

(***************************************************************************)
(* The search for a string of the table always stops at it, whatever its    *)
(* hashes and whatever was put before and after it (hashMap.c:43-63).       *)
(***************************************************************************)
THEOREM AlwaysFoundWhereItIs == MapSpec => []FoundWhereItIs
<1>1. MapIInv => FoundWhereItIs
  BY DEF MapIInv
<1> QED
  BY <1>1, InitMapIInv, StepMapIInv, PTL DEF MapSpec

LEMMA ContentsLater == Contents' = ContentsIn(tables')
BY DEF Contents, ContentsIn, Places, PlacesIn, KeyAt, KeyIn, ValueAt, ValueIn, Last

LEMMA CallsAre == Promised!Calls = Calls
BY DEF Promised!Calls, Calls

\* A map without entries holds nothing.
LEMMA InitMaps == MapInit => Promised!Init
<1> SUFFICES ASSUME MapInit
             PROVE  Promised!Init
  OBVIOUS
<1>1. MapTypeOK
  BY InitTypes
<1>2. ~Growing /\ Map = NewTable(InitCapacity)
  BY DEF MapInit, Growing, Last, Map
<1>3. \A i \in 0..(Map.capacity - 1) : Map.keys[i] = NULL
  BY <1>2 DEF NewTable
<1>4. PlacesIn(tables) = {}
  BY <1>1, <1>2, <1>3, OneTable
<1>5. Contents = [k \in Keys |-> NULL]
  BY <1>4, InTables DEF ContentsIn
<1> QED
  BY <1>5 DEF MapInit, Promised!Init

\* A get answers what is held, and changes nothing.
LEMMA GetMaps ==
  ASSUME MapIInv, GetFound \/ GetMissing
  PROVE  Promised!Next
<1>1. ~Growing /\ Working /\ Current = call /\ tables' = tables
  BY NotGrowing, ReadsOnly
<1>2. Contents' = Contents
  BY <1>1, ContentsLater, InTables
<1>3. call # NULL /\ call.name = "get" /\ call' = NULL
  BY <1>1 DEF Working, GetFound, GetMissing, Return
<1>4. result' = Contents[call.key]
  <2>1. CASE GetFound
    <3>1. PICK i \in 0..(Map.capacity - 1) :
            FindsAt(i) /\ Map.keys[i] # NULL /\ Return(Map, Map.values[i])
      BY <2>1 DEF GetFound
    <3> QED
      BY <1>1, <3>1, FoundIsHeld, InTables DEF Return
  <2>2. CASE GetMissing
    BY <1>1, <2>2, MissingIsNot, InTables DEF GetMissing, Return
  <2> QED
    BY <2>1, <2>2
<1> QED
  BY <1>2, <1>3, <1>4 DEF Promised!Next, Promised!Answer, Promised!Get

\* A put of a string that is there only says so.
LEMMA PutPresentMaps ==
  ASSUME MapIInv, PutPresent
  PROVE  Promised!Next
<1>1. ~Growing /\ Working /\ Current = call /\ tables' = tables
  BY NotGrowing, ReadsOnly
<1>2. Contents' = Contents
  BY <1>1, ContentsLater, InTables
<1>3. PICK i \in 0..(Map.capacity - 1) : FindsAt(i) /\ Map.keys[i] # NULL
  BY DEF PutPresent
<1>4. Contents[call.key] # NULL
  BY <1>1, <1>3, FoundIsHeld, InTables, HashMapConstants
<1> QED
  BY <1>1, <1>2, <1>4
     DEF Working, PutPresent, Return, Promised!Next, Promised!Answer, Promised!PutAgain

\* A set of a string that is there, and an entry that is new.
LEMMA SetPresentMaps ==
  ASSUME MapIInv, SetPresent
  PROVE  Promised!Next
<1>1. Working
  BY NotGrowing
<1> QED
  BY <1>1, SetsContents, ContentsLater, InTables
     DEF Working, Promised!Next, Promised!Answer, Promised!Set

LEMMA InsertMaps ==
  ASSUME MapIInv, Insert, ~Growing
  PROVE  Promised!Next
<1>1. Working
  BY DEF Insert
<1> QED
  BY <1>1, PutsContents, ContentsLater, InTables
     DEF Working, Promised!Next, Promised!Answer, Promised!PutNew, Promised!Set

\* While entries move nothing is seen of it.
LEMMA MovingIsHidden ==
  ASSUME MapIInv, (Insert /\ Growing) \/ Grow \/ SkipFree \/ Retry
  PROVE  UNCHANGED Promised!vars
<1>1. UNCHANGED <<call, result>>
  BY DEF Insert, Return, Grow, SkipFree, Retry
<1>2. ContentsIn(tables') = ContentsIn(tables)
  <2>1. CASE Insert /\ Growing
    BY <2>1, MoveKeeps DEF Kept
  <2>2. CASE Grow
    BY <2>2, GrowKeeps DEF Kept
  <2>3. CASE SkipFree
    BY <2>3, SkipKeeps DEF Kept
  <2>4. CASE Retry
    BY <2>4, RetryKeeps DEF Kept
  <2> QED
    BY <2>1, <2>2, <2>3, <2>4
<1> QED
  BY <1>1, <1>2, ContentsLater, InTables DEF Promised!vars

LEMMA StepMaps ==
  ASSUME MapIInv, [MapNext]_mapVars
  PROVE  [Promised!Next]_Promised!vars
<1>1. CASE Ask
  <2>1. Contents' = Contents
    BY <1>1, ContentsLater, InTables DEF Ask
  <2> QED
    BY <1>1, <2>1, CallsAre DEF Ask, Promised!Next, Promised!Ask
<1>2. CASE UNCHANGED mapVars
  <2>1. Contents' = Contents
    BY <1>2, ContentsLater, InTables DEF mapVars
  <2> QED
    BY <1>2, <2>1 DEF mapVars, Promised!vars
<1>3. CASE GetFound \/ GetMissing
  BY <1>3, GetMaps
<1>4. CASE PutPresent
  BY <1>4, PutPresentMaps
<1>5. CASE SetPresent
  BY <1>5, SetPresentMaps
<1>6. CASE Insert /\ ~Growing
  BY <1>6, InsertMaps
<1>7. CASE (Insert /\ Growing) \/ Grow \/ SkipFree \/ Retry
  BY <1>7, MovingIsHidden
<1> QED
  BY <1>1, <1>2, <1>3, <1>4, <1>5, <1>6, <1>7 DEF MapNext, Work

(***************************************************************************)
(* hashMap.c does what hashMap.h says: every step is one of the abstract    *)
(* map or is not seen, for any strings, hashes and capacities.              *)
(***************************************************************************)
THEOREM ImplementsMap == MapSpec => Implements
<1> QED
  BY InitMapIInv, StepMapIInv, InitMaps, StepMaps, PTL DEF MapSpec, Implements, Promised!Safety

-----------------------------------------------------------------------------
\* size counts the entries

UsedIn(keys, capacity) == {i \in 0..(capacity - 1) : keys[i] # NULL}

\* One more slot in use is one more entry.
LEMMA OneMore ==
  ASSUME NEW c \in Nat, NEW keys \in [0..(c - 1) -> Keys \cup {NULL}], NEW k \in Keys,
         NEW i \in 0..(c - 1), keys[i] = NULL
  PROVE  Cardinality(UsedIn([keys EXCEPT ![i] = k], c)) = Cardinality(UsedIn(keys, c)) + 1
<1>1. IsFiniteSet(UsedIn(keys, c))
  <2>1. IsFiniteSet(0..(c - 1))
    BY FS_Interval
  <2> QED
    BY <2>1, FS_Subset DEF UsedIn
<1>2. UsedIn([keys EXCEPT ![i] = k], c) = UsedIn(keys, c) \cup {i} /\ i \notin UsedIn(keys, c)
  BY HashMapConstants DEF UsedIn
<1> QED
  BY <1>1, <1>2, FS_AddElement

LEMMA CountInSame ==
  ASSUME SizeCounts, Map'.keys = Map.keys, Map'.capacity = Map.capacity, Map'.size = Map.size
  PROVE  SizeCounts'
BY DEF SizeCounts

LEMMA StepCounts ==
  ASSUME MapTypeOK, SizeCounts, [MapNext]_mapVars
  PROVE  SizeCounts'
<1>1. CASE Ask \/ SkipFree \/ Retry \/ UNCHANGED mapVars
  <2>1. Map' = Map
    BY <1>1, Skipped, Retried DEF Ask, mapVars, Map, Last
  <2> QED
    BY <2>1, CountInSame
<1>2. CASE GetFound \/ GetMissing \/ PutPresent
  <2>1. Map' = Map
    BY <1>2, Tables, Returned DEF GetFound, GetMissing, PutPresent
  <2> QED
    BY <2>1, CountInSame
<1>3. CASE SetPresent
  <2>1. PICK i \in 0..(Map.capacity - 1) :
          Map.keys[i] # NULL /\ Return([Map EXCEPT !.values[i] = Current.data], "void")
    BY <1>3 DEF SetPresent
  <2> DEFINE t == [Map EXCEPT !.values[i] = Current.data]
  <2>2. Map \in Table
    BY Tables
  <2>3. t \in Table /\ t.keys = Map.keys /\ t.capacity = Map.capacity
    BY <1>3, <2>1, OverwriteIs DEF SetPresent
  <2>4. t.size = Map.size
    BY <2>2 DEF Table, IsTable
  <2>5. Return(t, "void")
    BY <2>1
  <2> HIDE DEF t
  <2>6. Map' = t
    BY <1>3, <2>3, <2>5, Returned DEF SetPresent
  <2> QED
    BY <2>3, <2>4, <2>6, CountInSame
<1>4. CASE Grow
  <2>1. Map' = NewTable(Map.capacity * 2)
    BY <1>4, Grown
  <2>2. Map'.size = 0 /\ {i \in 0..(Map'.capacity - 1) : Map'.keys[i] # NULL} = {}
    BY <2>1 DEF NewTable
  <2> QED
    BY <2>2, FS_EmptySet DEF SizeCounts
<1>5. CASE Insert
  <2>1. PICK i \in 0..(Map.capacity - 1) :
          /\ FindsAt(i) /\ Map.keys[i] = NULL
          /\ Return(InsertAt(i), IF Current.name = "put" THEN "inserted" ELSE "void")
    BY <1>5 DEF Insert
  <2>2. /\ InsertAt(i) \in Table /\ InsertAt(i).capacity = Map.capacity
        /\ InsertAt(i).keys = [Map.keys EXCEPT ![i] = Current.key]
    BY <1>5, <2>1, InsertAtIs DEF Insert
  <2>3. Map' = InsertAt(i)
    BY <1>5, <2>1, <2>2, Returned DEF Insert
  <2>4. Map'.size = Map.size + 1
    BY <2>3 DEF InsertAt
  <2>5. /\ Map.capacity \in Nat \ {0} /\ Map.keys \in [0..(Map.capacity - 1) -> Keys \cup {NULL}]
        /\ Current.key \in Keys
    BY <1>5, Tables, CurrentType DEF Table, IsTable, Insert
  <2>6. Cardinality(UsedIn(Map'.keys, Map'.capacity)) = Cardinality(UsedIn(Map.keys, Map.capacity)) + 1
    <3>1. Cardinality(UsedIn([Map.keys EXCEPT ![i] = Current.key], Map.capacity))
            = Cardinality(UsedIn(Map.keys, Map.capacity)) + 1
      <4>1. Map.capacity \in Nat
        BY <2>5
      <4> QED
        BY <2>1, <2>5, <4>1, OneMore
    <3> QED
      BY <2>2, <2>3, <3>1
  <2> QED
    BY <2>4, <2>6 DEF SizeCounts, UsedIn
<1> QED
  BY <1>1, <1>2, <1>3, <1>4, <1>5 DEF MapNext, Work

(***************************************************************************)
(* size is the number of entries in every state, also when a table grows    *)
(* while a smaller one is still being emptied (hashMap.c:92, 135).          *)
(***************************************************************************)
THEOREM AlwaysSizeCounts == MapSpec => []SizeCounts
<1>1. MapInit => SizeCounts
  <2> SUFFICES ASSUME MapInit
               PROVE  SizeCounts
    OBVIOUS
  <2>1. Map = NewTable(InitCapacity)
    BY DEF MapInit, Last, Map
  <2>2. Map.size = 0 /\ {i \in 0..(Map.capacity - 1) : Map.keys[i] # NULL} = {}
    BY <2>1 DEF NewTable
  <2> QED
    BY <2>2, FS_EmptySet DEF SizeCounts
<1>2. MapTypeOK /\ SizeCounts /\ [MapNext]_mapVars => SizeCounts'
  BY StepCounts
<1> QED
  BY <1>1, <1>2, MapTypeCorrect, PTL DEF MapSpec
=============================================================================
