--------------------------- MODULE PipelineProofs ---------------------------
(***************************************************************************)
(* Theorems about Pipeline, for files of any number of functions of any    *)
(* size: what each pass is given is what it takes for granted, and so what *)
(* the proofs of the passes say of one function holds in every function of *)
(* a file, whatever passes ran before.                                     *)
(*                                                                         *)
(* First dead label elimination on its own, then the file between passes,  *)
(* then each pass: entered, at work, and returning.                        *)
(***************************************************************************)
EXTENDS Pipeline, TLAPS

CONSTANT LabelInputs  \* Inputs of DeadLabels

\* The passes again, with what is proved about them.
SCP == INSTANCE ShortCircuitJumpsProofs WITH Inputs <- {}, src <- in.blocks
DBP == INSTANCE DeadBlocksProofs WITH Inputs <- {}, freed <- heap
DTP == INSTANCE DeadTempsProofs WITH Inputs <- {}, freed <- heap
TSP == INSTANCE TraceScheduleProofs WITH Inputs <- {}, freed <- heap
L == INSTANCE DeadLabels WITH Inputs <- LabelInputs
-----------------------------------------------------------------------------
(* Dead label elimination *)

NamedLabels == L!JumpedToIn(in.code) \cup L!DataLabels(in.tables)

\* What never changes, and the types the proofs need.
LabelsTyped ==
  /\ L!IsInput(in)
  /\ code \in Seq(L!IRInstruction) /\ Len(code) <= Len(in.code)
  /\ curr \in 1 .. Len(code) + 1
  /\ phase \in {"mark", "unlink", "done"}

\* The labels marked are those named by what was looked at.
LabelsMarked ==
  /\ L!DataLabels(in.tables) \subseteq seen /\ seen \subseteq NamedLabels
  /\ phase = "mark" =>
       code = in.code /\ \A k \in 1 .. curr - 1 : L!JumpedTo(in.code[k]) \subseteq seen
  /\ phase # "mark" => L!JumpedToIn(in.code) \subseteq seen

\* No marked label is lost, and behind the cursor no other is left.
LabelsSwept ==
  /\ L!LabelsIn(in.code) \cap seen \subseteq L!LabelsIn(code)
  /\ phase # "mark" => \A k \in 1 .. curr - 1 : ~L!IsDeadLabel(code[k])
  /\ phase = "done" => curr = Len(code) + 1

LabelsIInv == LabelsTyped /\ LabelsMarked /\ LabelsSwept
-----------------------------------------------------------------------------
LEMMA LabelsInputFacts ==
  ASSUME L!IsInput(in)
  PROVE  /\ in.code \in Seq(L!IRInstruction) /\ Len(in.code) \in Nat
         /\ DOMAIN in.code = 1 .. Len(in.code)
         /\ NamedLabels \subseteq 0 .. in.maxLabels - 1
<1>1. in.code \in Seq(L!IRInstruction) /\ Len(in.code) \in Nat /\ DOMAIN in.code = 1 .. Len(in.code)
  BY DEF L!IsInput
<1>2. L!JumpedToIn(in.code) \subseteq 0 .. in.maxLabels - 1
  BY DEF L!IsInput, L!JumpedToIn, L!JumpedTo
<1> QED
  BY <1>1, <1>2 DEF L!IsInput, NamedLabels

LEMMA StartLabels == L!IsInput(in) /\ L!Start => LabelsIInv
<1> SUFFICES ASSUME L!IsInput(in), L!Start PROVE LabelsIInv
  OBVIOUS
<1>1. L!IsInput(in) /\ code = in.code /\ curr = 1 /\ phase = "mark" /\ seen = L!DataLabels(in.tables)
  BY DEF L!Start
<1>2. LabelsTyped
  BY <1>1, LabelsInputFacts DEF LabelsTyped
<1>3. LabelsMarked
  BY <1>1 DEF LabelsMarked, NamedLabels
<1>4. LabelsSwept
  BY <1>1 DEF LabelsSwept
<1> QED
  BY <1>2, <1>3, <1>4 DEF LabelsIInv

LEMMA MarkLabels == ASSUME LabelsIInv, L!Mark PROVE LabelsIInv'
<1>1. /\ L!IsInput(in) /\ LabelsTyped /\ LabelsMarked /\ LabelsSwept /\ phase = "mark" /\ phase' = "mark"
      /\ in' = in /\ code' = code /\ code = in.code /\ curr <= Len(code) /\ curr' = curr + 1
      /\ seen' = seen \cup L!JumpedTo(in.code[curr])
  BY DEF LabelsIInv, LabelsTyped, LabelsMarked, L!Mark
<1>2. curr \in 1 .. Len(in.code) /\ curr \in DOMAIN in.code
  BY <1>1, LabelsInputFacts DEF LabelsTyped
<1>3. NamedLabels' = NamedLabels /\ \A i : L!JumpedTo(i)' = L!JumpedTo(i)
  BY <1>1 DEF NamedLabels, L!JumpedToIn, L!JumpedTo
<1>4. LabelsTyped'
  BY <1>1, <1>2 DEF LabelsTyped
<1>5. LabelsMarked'
  <2>1. L!JumpedTo(in.code[curr]) \subseteq NamedLabels
    BY <1>2 DEF NamedLabels, L!JumpedToIn
  <2>2. \A k \in 1 .. curr' - 1 : k \in 1 .. curr - 1 \/ k = curr
    BY <1>1, <1>2
  <2> QED
    BY <1>1, <1>3, <2>1, <2>2 DEF LabelsMarked
<1>6. LabelsSwept'
  BY <1>1 DEF LabelsSwept
<1> QED
  BY <1>4, <1>5, <1>6 DEF LabelsIInv

\* When every instruction was looked at, every label jumped to is marked.
LEMMA StartUnlinkingLabels == ASSUME LabelsIInv, L!StartUnlinking PROVE LabelsIInv'
<1>1. /\ L!IsInput(in) /\ LabelsTyped /\ LabelsMarked /\ LabelsSwept /\ phase = "mark" /\ phase' = "unlink"
      /\ UNCHANGED <<in, code, seen>> /\ code = in.code /\ curr > Len(code) /\ curr' = 1
  BY DEF LabelsIInv, LabelsTyped, LabelsMarked, L!StartUnlinking
<1>2. Len(code) \in Nat /\ DOMAIN in.code = 1 .. Len(code) /\ curr \in 1 .. Len(code) + 1
  BY <1>1, LabelsInputFacts DEF LabelsTyped
<1>3. \A k \in DOMAIN in.code : k \in 1 .. curr - 1
  BY <1>1, <1>2
<1>4. L!JumpedToIn(in.code) \subseteq seen
  BY <1>1, <1>3 DEF LabelsMarked, L!JumpedToIn
<1>5. LabelsTyped'
  BY <1>1, <1>2 DEF LabelsTyped
<1>6. LabelsMarked'
  BY <1>1, <1>4 DEF LabelsMarked, NamedLabels, L!JumpedToIn, L!JumpedTo
<1>7. LabelsSwept'
  BY <1>1 DEF LabelsSwept
<1> QED
  BY <1>5, <1>6, <1>7 DEF LabelsIInv

\* An instruction that is no label or a label that is marked.
LEMMA KeepLabels == ASSUME LabelsIInv, L!Keep PROVE LabelsIInv'
<1>1. /\ L!IsInput(in) /\ LabelsTyped /\ LabelsMarked /\ LabelsSwept /\ phase = "unlink" /\ phase' = "unlink"
      /\ UNCHANGED <<in, code, seen>> /\ curr <= Len(code) /\ curr' = curr + 1
      /\ ~L!IsDeadLabel(code[curr])
  BY DEF LabelsIInv, LabelsTyped, L!Keep
<1>2. curr \in 1 .. Len(code) /\ Len(code) \in Nat
  BY <1>1 DEF LabelsTyped
<1>3. LabelsTyped'
  BY <1>1, <1>2 DEF LabelsTyped
<1>4. LabelsMarked'
  BY <1>1 DEF LabelsMarked, NamedLabels, L!JumpedToIn, L!JumpedTo
<1>5. LabelsSwept'
  <2>1. \A k \in 1 .. curr' - 1 : k \in 1 .. curr - 1 \/ k = curr
    BY <1>1, <1>2
  <2>2. \A i : L!IsDeadLabel(i)' = L!IsDeadLabel(i)
    BY <1>1 DEF L!IsDeadLabel
  <2> QED
    BY <1>1, <2>1, <2>2 DEF LabelsSwept
<1> QED
  BY <1>3, <1>4, <1>5 DEF LabelsIInv

\* A label that is not marked goes; what is behind it moves to its place.
LEMMA UnlinkLabels == ASSUME LabelsIInv, L!Unlink PROVE LabelsIInv'
<1>1. /\ L!IsInput(in) /\ LabelsTyped /\ LabelsMarked /\ LabelsSwept /\ phase = "unlink" /\ phase' = "unlink"
      /\ UNCHANGED <<in, seen, curr>> /\ curr <= Len(code)
      /\ L!IsDeadLabel(code[curr])
      /\ code' = SubSeq(code, 1, curr - 1) \o SubSeq(code, curr + 1, Len(code))
  BY DEF LabelsIInv, LabelsTyped, L!Unlink
<1>2. curr \in 1 .. Len(code) /\ Len(code) \in Nat /\ code \in Seq(L!IRInstruction)
      /\ Len(in.code) \in Nat
  BY <1>1, LabelsInputFacts DEF LabelsTyped
<1>3. /\ code' \in Seq(L!IRInstruction) /\ Len(code') = Len(code) - 1
      /\ \A k \in 1 .. Len(code') : code'[k] = IF k < curr THEN code[k] ELSE code[k + 1]
  BY <1>1, <1>2, DBP!Unlinked
<1>4. DOMAIN code = 1 .. Len(code) /\ DOMAIN code' = 1 .. Len(code) - 1
  BY <1>2, <1>3
<1>5. LabelsTyped'
  <2>1. Len(code) <= Len(in.code)
    BY <1>1 DEF LabelsTyped
  <2>2. curr \in 1 .. Len(code') + 1 /\ Len(code') <= Len(in.code)
    BY <1>2, <1>3, <2>1
  <2> QED
    BY <1>1, <1>3, <2>2 DEF LabelsTyped
<1>6. LabelsMarked'
  BY <1>1 DEF LabelsMarked, NamedLabels, L!JumpedToIn, L!JumpedTo
<1>7. L!LabelsIn(code) \cap seen \subseteq L!LabelsIn(code')
  <2> SUFFICES ASSUME NEW k \in DOMAIN code, code[k].op = "LABEL", code[k].args[1].name \in seen
               PROVE  \E j \in DOMAIN code' : code'[j] = code[k]
    BY DEF L!LabelsIn
  <2>1. k # curr
    BY <1>1 DEF L!IsDeadLabel
  <2>2. CASE k < curr
    <3>1. k \in 1 .. Len(code')
      BY <1>2, <1>3, <1>4, <2>2
    <3> QED
      BY <1>3, <1>4, <2>2, <3>1
  <2>3. CASE k > curr
    <3>1. k - 1 \in 1 .. Len(code') /\ ~(k - 1 < curr) /\ (k - 1) + 1 = k
      BY <1>2, <1>3, <1>4, <2>3
    <3>2. code'[k - 1] = code[k]
      BY <1>3, <3>1
    <3> QED
      BY <1>3, <1>4, <3>1, <3>2
  <2> QED
    BY <1>2, <1>4, <2>1, <2>2, <2>3
<1>8. \A k \in 1 .. curr - 1 : code'[k] = code[k]
  BY <1>2, <1>3
<1>9. LabelsSwept'
  <2>1. \A i : L!IsDeadLabel(i)' = L!IsDeadLabel(i)
    BY <1>1 DEF L!IsDeadLabel
  <2>2. L!LabelsIn(in.code) \cap seen \subseteq L!LabelsIn(code')
    BY <1>1, <1>7 DEF LabelsSwept
  <2>3. \A k \in 1 .. curr - 1 : ~L!IsDeadLabel(code'[k])
    BY <1>1, <1>8 DEF LabelsSwept
  <2>4. (L!LabelsIn(in.code) \cap seen \subseteq L!LabelsIn(code))'
    BY <1>1, <2>2 DEF L!LabelsIn
  <2>5. (\A k \in 1 .. curr - 1 : ~L!IsDeadLabel(code[k]))'
    BY <1>1, <2>1, <2>3 DEF L!IsDeadLabel
  <2> QED
    BY <1>1, <2>4, <2>5 DEF LabelsSwept
<1> QED
  BY <1>5, <1>6, <1>9 DEF LabelsIInv

LEMMA FinishLabels == ASSUME LabelsIInv, L!Finish PROVE LabelsIInv'
<1>1. /\ L!IsInput(in) /\ LabelsTyped /\ LabelsMarked /\ LabelsSwept /\ phase = "unlink" /\ phase' = "done"
      /\ UNCHANGED <<in, code, seen, curr>> /\ curr > Len(code)
  BY DEF LabelsIInv, LabelsTyped, L!Finish
<1>2. curr = Len(code) + 1
  BY <1>1 DEF LabelsTyped
<1>3. LabelsTyped'
  BY <1>1 DEF LabelsTyped
<1>4. LabelsMarked'
  BY <1>1 DEF LabelsMarked, NamedLabels, L!JumpedToIn, L!JumpedTo
<1>5. LabelsSwept'
  BY <1>1, <1>2 DEF LabelsSwept, L!IsDeadLabel
<1> QED
  BY <1>3, <1>4, <1>5 DEF LabelsIInv

LEMMA NextLabels == LabelsIInv /\ [L!Next]_(L!vars) => LabelsIInv'
<1> SUFFICES ASSUME LabelsIInv, [L!Next]_(L!vars) PROVE LabelsIInv'
  OBVIOUS
<1>1. CASE L!Mark
  BY <1>1, MarkLabels
<1>2. CASE L!StartUnlinking
  BY <1>2, StartUnlinkingLabels
<1>3. CASE L!Keep
  BY <1>3, KeepLabels
<1>4. CASE L!Unlink
  BY <1>4, UnlinkLabels
<1>5. CASE L!Finish
  BY <1>5, FinishLabels
<1>6. CASE UNCHANGED L!vars
  BY <1>6 DEF L!vars, LabelsIInv, LabelsTyped, LabelsMarked, LabelsSwept, NamedLabels,
              L!JumpedToIn, L!JumpedTo, L!IsDeadLabel
<1> QED
  BY <1>1, <1>2, <1>3, <1>4, <1>5, <1>6 DEF L!Next

LEMMA LabelsInductive == L!InputsOK /\ L!Spec => []LabelsIInv
<1>1. L!InputsOK /\ L!Init => LabelsIInv
  BY StartLabels DEF L!InputsOK, L!Init
<1>2. LabelsIInv /\ [L!Next]_(L!vars) => LabelsIInv'
  BY NextLabels
<1> QED
  BY <1>1, <1>2, PTL DEF L!Spec
-----------------------------------------------------------------------------
LEMMA LabelsTypeOK == LabelsIInv => L!TypeOK
<1> SUFFICES ASSUME LabelsIInv PROVE L!TypeOK
  OBVIOUS
<1>1. L!IsInput(in) /\ LabelsTyped /\ LabelsMarked
  BY DEF LabelsIInv, LabelsTyped
<1>2. seen \subseteq 0 .. in.maxLabels - 1
  BY <1>1, LabelsInputFacts DEF LabelsMarked
<1>3. Len(code) \in Nat /\ Len(in.code) \in Nat
  BY <1>1, LabelsInputFacts DEF LabelsTyped
<1> QED
  BY <1>1, <1>2, <1>3 DEF LabelsTyped, L!TypeOK

(***************************************************************************)
(* The marks stay inside the array calloc gave, and the cursor in the list *)
(* (optimization.c:480).                                                   *)
(***************************************************************************)
THEOREM DeadLabelsTypeCorrect == L!InputsOK /\ L!Spec => []L!TypeOK
  BY LabelsTypeOK, LabelsInductive, PTL

LEMMA LabelsTargetsKept == LabelsIInv => L!TargetsKept
<1> SUFFICES ASSUME LabelsIInv PROVE L!TargetsKept
  OBVIOUS
<1>1. L!IsInput(in) /\ LabelsMarked /\ LabelsSwept
  BY DEF LabelsIInv, LabelsTyped
<1>2. CASE phase = "mark"
  BY <1>1, <1>2 DEF LabelsMarked, L!TargetsKept
<1>3. CASE phase # "mark"
  BY <1>1, <1>3 DEF LabelsMarked, LabelsSwept, L!TargetsKept
<1> QED
  BY <1>2, <1>3

(***************************************************************************)
(* A label of the function that one of its jumps or a table of the file    *)
(* names is never unlinked (optimization.c:480-561).                       *)
(***************************************************************************)
THEOREM NamedLabelsKept == L!InputsOK /\ L!Spec => []L!TargetsKept
  BY LabelsTargetsKept, LabelsInductive, PTL

LEMMA LabelsOthersRemoved == LabelsIInv => L!OthersRemoved
<1> SUFFICES ASSUME LabelsIInv, phase = "done"
             PROVE  L!LabelsIn(code) \subseteq NamedLabels
  BY DEF L!OthersRemoved, NamedLabels
<1>1. LabelsTyped /\ LabelsMarked /\ LabelsSwept
  BY DEF LabelsIInv
<1>2. \A k \in DOMAIN code : ~L!IsDeadLabel(code[k])
  BY <1>1 DEF LabelsTyped, LabelsSwept
<1>3. L!LabelsIn(code) \subseteq seen
  BY <1>2 DEF L!LabelsIn, L!IsDeadLabel
<1> QED
  BY <1>1, <1>3 DEF LabelsMarked

(***************************************************************************)
(* When the pass is done, no other label is left (optimization.c:548).     *)
(***************************************************************************)
THEOREM OtherLabelsRemoved == L!InputsOK /\ L!Spec => []L!OthersRemoved
  BY LabelsOthersRemoved, LabelsInductive, PTL
-----------------------------------------------------------------------------
(* The file between two passes *)

Passes == {"shortCircuit", "deadBlocks", "deadTemps", "schedule", "deadLabels"}
BeforeSchedule == {"translate", "shortCircuit", "deadBlocks", "deadTemps"}
Fragment == [blocks : Seq(IRBlock), code : Seq(IRInstruction)]

\* What dead label elimination takes for granted of a scheduled function: a jump
\* names its labels as an operand or in a table, and they are below nextId.
IsCode(c) ==
  \A k \in DOMAIN c :
    c[k].op \notin TwoTarget /\ L!Targets(c[k], tables) \subseteq 0 .. nextId - 1

\* Every function stays one of the file's through all the passes; scheduling
\* makes code of the functions before next, which dead label elimination is
\* given; nothing is freed but named objects before scheduling.
FileOK ==
  /\ file \in Files
  /\ pass \in Passes \cup {"translate", "done", "stopped"}
  /\ next \in 1 .. Len(file) + 1
  /\ nextId \in Nat /\ AreTables(tables, nextId)
  /\ frags \in Seq(Fragment)
  /\ Len(frags) = IF pass = "translate" THEN next - 1 ELSE Len(file)
  /\ \A j \in 1 .. Len(frags) : IsFunctionOf(frags[j].blocks, tables, nextId)
  /\ pass = "translate" =>
       \A j \in 1 .. Len(frags) : frags[j].blocks = Translations[file][j].blocks
  /\ pass = "schedule" => \A j \in 1 .. next - 1 : IsCode(frags[j].code)
  /\ pass = "deadLabels" => \A j \in next .. Len(file) : IsCode(frags[j].code)
  /\ pass \in BeforeSchedule => 0 \notin freed

\* A pass runs on a function of the file, and only when it was called.
CallOK ==
  /\ phase = "idle" => Idle
  /\ phase # "idle" => pass \in Passes /\ next <= Len(file) /\ in = Given

\* Each pass at work keeps its own invariant.
RunOK ==
  /\ In("shortCircuit") => SCP!IInv /\ heap = freed
  /\ In("deadBlocks") => DBP!IInv /\ DBP!FreedIInv /\ DBP!Distinct
  /\ In("deadTemps") => DTP!IInv /\ DTP!FreedIInv /\ DTP!Kept
  /\ In("schedule") => TSP!IInv /\ TSP!FreedIInv /\ TSP!MadeOnly
  /\ In("deadLabels") => LabelsIInv

PipelineInv == FileOK /\ CallOK /\ RunOK

LEMMA LengthFacts ==
  ASSUME FileOK
  PROVE  /\ Len(file) \in Nat /\ Len(frags) \in Nat /\ DOMAIN frags = 1 .. Len(frags)
         /\ next \in Nat /\ next >= 1 /\ next <= Len(file) + 1
         /\ \A j \in 1 .. Len(frags) : frags[j] \in Fragment
<1>1. Len(file) \in Nat
  BY TranslationsAssumption DEF FileOK
<1> QED
  BY <1>1 DEF FileOK

LEMMA InitPipelineInv == PipelineInit => PipelineInv
<1> SUFFICES ASSUME PipelineInit PROVE PipelineInv
  OBVIOUS
<1>1. Len(file) \in Nat /\ file \in Files
  BY TranslationsAssumption DEF PipelineInit, Init
<1>2. FileOK
  <2>1. Len(<< >>) = 0 /\ << >> \in Seq(Fragment)
    OBVIOUS
  <2>2. AreTables(<< >>, 1)
    BY DEF AreTables
  <2> QED
    BY <1>1, <2>1, <2>2 DEF PipelineInit, Init, FileOK, BeforeSchedule, Passes
<1>3. CallOK /\ RunOK
  BY DEF PipelineInit, Idle, CallOK, RunOK, In
<1> QED
  BY <1>2, <1>3 DEF PipelineInv

\* Translation appends a function that is the file's, and leaves the others so.
LEMMA TranslateInv == ASSUME PipelineInv, TranslateNext PROVE PipelineInv'
<1> DEFINE st == Translations[file][next]
           new == [blocks |-> st.blocks, code |-> << >>]
<1>1. /\ FileOK /\ CallOK /\ pass = "translate" /\ pass' = "translate"
      /\ next <= Len(file) /\ next' = next + 1 /\ file' = file
      /\ frags' = Append(frags, new)
      /\ tables' = st.tables /\ freed' = freed \cup st.freed /\ nextId' = st.nextId
      /\ UNCHANGED passVars
  BY DEF PipelineInv, TranslateNext, Translate, Translated
<1>2. /\ Len(file) \in Nat /\ next \in 1 .. Len(file) /\ Len(frags) = next - 1
      /\ file \in Files
  BY <1>1, LengthFacts DEF FileOK
<1>3. /\ st.nextId \in Nat /\ AreTables(st.tables, st.nextId) /\ 0 \notin st.freed
      /\ \A j \in 1 .. next : IsFunctionOf(Translations[file][j].blocks, st.tables, st.nextId)
  BY <1>2, TranslationsAssumption
<1>4. new \in Fragment
  <2>1. IsFunctionOf(st.blocks, st.tables, st.nextId)
    BY <1>2, <1>3
  <2>2. st.blocks \in Seq(IRBlock)
    BY <2>1 DEF IsFunctionOf, IsBlockList
  <2> QED
    BY <2>2 DEF Fragment
<1>5. /\ frags' \in Seq(Fragment) /\ Len(frags') = next
      /\ \A j \in 1 .. next : frags'[j].blocks = Translations[file][j].blocks
  <2>1. frags \in Seq(Fragment)
    BY <1>1 DEF FileOK
  <2>2. \A j \in 1 .. next - 1 : frags[j].blocks = Translations[file][j].blocks
    BY <1>1, <1>2 DEF FileOK
  <2> HIDE DEF new
  <2>3. /\ frags' \in Seq(Fragment) /\ Len(frags') = next
        /\ \A j \in 1 .. next : frags'[j] = IF j = next THEN new ELSE frags[j]
    BY <1>1, <1>2, <1>4, <2>1
  <2>4. \A j \in 1 .. next : j = next \/ j \in 1 .. next - 1
    BY <1>2
  <2> QED
    BY <2>2, <2>3, <2>4 DEF new
<1> HIDE DEF st
<1>6. FileOK'
  BY <1>1, <1>2, <1>3, <1>5 DEF FileOK, BeforeSchedule
<1>7. CallOK' /\ RunOK'
  <2>1. phase = "idle"
    BY <1>1 DEF CallOK, Passes
  <2>2. phase' = "idle"
    BY <1>1, <2>1 DEF passVars
  <2>3. Idle'
    BY <1>1, <2>1 DEF CallOK, Idle, passVars, scVars, dbVars, dtVars, tsVars
  <2> QED
    BY <2>2, <2>3 DEF CallOK, RunOK, In
<1> QED
  BY <1>6, <1>7 DEF PipelineInv

LEMMA StartPassInv == ASSUME PipelineInv, StartPass PROVE PipelineInv'
<1>1. /\ FileOK /\ CallOK /\ pass \in DOMAIN After /\ next > Len(file)
      /\ pass' = After[pass] /\ next' = 1
      /\ UNCHANGED <<file, frags, tables, freed, nextId>> /\ UNCHANGED passVars
  BY DEF PipelineInv, StartPass, NextPass
<1>2. Len(file) \in Nat /\ next = Len(file) + 1
  BY <1>1, LengthFacts
<1>3. pass \in {"translate", "shortCircuit", "schedule", "deadLabels"}
  BY <1>1 DEF After
<1>4. Len(frags) = Len(file)
  BY <1>1, <1>2 DEF FileOK
<1>5. \A c : IsCode(c)' <=> IsCode(c)
  BY <1>1 DEF IsCode
<1>6. pass = "schedule" => \A j \in 1 .. Len(file) : IsCode(frags[j].code)
  BY <1>1, <1>2 DEF FileOK
<1>7. FileOK'
  BY <1>1, <1>2, <1>3, <1>4, <1>5, <1>6 DEF FileOK, After, BeforeSchedule, Passes
<1>8. CallOK' /\ RunOK'
  <2>1. phase = "idle"
    BY <1>1, <1>2 DEF CallOK
  <2>2. phase' = "idle"
    BY <1>1, <2>1 DEF passVars
  <2>3. Idle'
    BY <1>1, <2>1 DEF CallOK, Idle, passVars, scVars, dbVars, dtVars, tsVars
  <2> QED
    BY <2>2, <2>3 DEF CallOK, RunOK, In
<1> QED
  BY <1>7, <1>8 DEF PipelineInv

LEMMA StopInsideInv == ASSUME PipelineInv, StopInside PROVE PipelineInv'
<1>1. /\ FileOK /\ CallOK /\ pass' = "stopped" /\ phase # "idle"
      /\ UNCHANGED <<file, frags, tables, freed, nextId, next>> /\ Reset
  BY DEF PipelineInv, StopInside
<1>2. pass \in Passes
  BY <1>1 DEF CallOK
<1>3. FileOK'
  BY <1>1, <1>2 DEF FileOK, Passes, BeforeSchedule
<1>4. CallOK' /\ RunOK'
  BY <1>1 DEF CallOK, RunOK, In, Reset, Idle
<1> QED
  BY <1>3, <1>4 DEF PipelineInv

\* A pass is called: it is given a function of the file.
LEMMA EnterFacts ==
  ASSUME PipelineInv, NEW p \in Passes, NEW first, first # "idle", Enter(p, first)
  PROVE  /\ FileOK' /\ CallOK'
         /\ pass = p /\ pass' = p /\ phase' = first /\ UNCHANGED vars
         /\ in' = Given /\ next \in 1 .. Len(frags)
         /\ IsFunctionOf(in'.blocks, tables, nextId) /\ AreTables(tables, nextId)
         /\ nextId \in Nat /\ in'.code \in Seq(IRInstruction)
         /\ blocks' = in'.blocks /\ code' = in'.code /\ heap' = in'.freed
         /\ in'.tables = tables /\ in'.freed = freed
         /\ in'.maxTemps = nextId /\ in'.maxLabels = nextId
         /\ in'.code = frags[next].code
         /\ idx' = 1 /\ curr' = 1 /\ block' = 1 /\ inst' = 1 /\ changed' = FALSE
         /\ seen = {}
<1>1. /\ FileOK /\ CallOK /\ pass = p /\ phase = "idle" /\ next <= Len(frags)
      /\ in' = Given /\ phase' = first
      /\ blocks' = Given.blocks /\ code' = Given.code /\ heap' = Given.freed
      /\ UNCHANGED vars /\ UNCHANGED <<idx, curr, block, inst, changed>>
  BY DEF PipelineInv, Enter
<1>2. Idle
  BY <1>1 DEF CallOK
<1>3. next \in 1 .. Len(frags) /\ Len(frags) = Len(file)
  <2>1. pass # "translate"
    BY <1>1 DEF Passes
  <2> QED
    BY <1>1, <2>1, LengthFacts DEF FileOK
<1>4. UNCHANGED <<file, frags, tables, freed, nextId, pass, next>>
  BY <1>1 DEF vars
<1>5. FileOK'
  BY <1>1, <1>4 DEF FileOK, IsCode
<1>6. CallOK'
  BY <1>1, <1>3, <1>4 DEF CallOK, Given
<1>7. IsFunctionOf(frags[next].blocks, tables, nextId) /\ frags[next] \in Fragment
  BY <1>1, <1>3, LengthFacts DEF FileOK
<1>8. frags[next].code \in Seq(IRInstruction)
  BY <1>7 DEF Fragment
<1> QED
  BY <1>1, <1>2, <1>3, <1>4, <1>5, <1>6, <1>7, <1>8 DEF Given, Idle, FileOK

\* A pass at work changes nothing of the file.
LEMMA RunningFacts ==
  ASSUME PipelineInv, NEW p \in Passes, Running(p), phase' # "idle"
  PROVE  FileOK' /\ CallOK' /\ pass = p /\ UNCHANGED <<pass, in, freed, tables, nextId>>
<1>1. FileOK /\ CallOK /\ pass = p /\ phase # "idle" /\ UNCHANGED <<vars, in>>
  BY DEF PipelineInv, Running
<1>2. UNCHANGED <<file, frags, tables, freed, nextId, pass, next>>
  BY <1>1 DEF vars
<1>3. FileOK'
  BY <1>1, <1>2 DEF FileOK, IsCode
<1>4. CallOK'
  BY <1>1, <1>2 DEF CallOK, Given
<1> QED
  BY <1>1, <1>2, <1>3, <1>4

\* What a pass at work was given is a function of the file.
LEMMA GivenFacts ==
  ASSUME PipelineInv, NEW p \in Passes, In(p)
  PROVE  /\ next \in 1 .. Len(frags) /\ Len(frags) = Len(file) /\ in = Given
         /\ in.blocks = frags[next].blocks /\ in.code = frags[next].code
         /\ in.tables = tables /\ in.freed = freed
         /\ in.maxTemps = nextId /\ in.maxLabels = nextId
         /\ IsFunctionOf(in.blocks, tables, nextId) /\ AreTables(tables, nextId)
         /\ nextId \in Nat
<1>1. FileOK /\ CallOK /\ pass = p /\ phase # "idle" /\ p # "translate"
  BY DEF PipelineInv, In, Passes
<1>2. in = Given /\ next <= Len(file) /\ Len(frags) = Len(file)
  BY <1>1 DEF CallOK, FileOK
<1>3. next \in 1 .. Len(frags)
  BY <1>1, <1>2, LengthFacts
<1> QED
  BY <1>1, <1>2, <1>3 DEF Given, FileOK

\* What is written back is a fragment of the file again, and the other fragments
\* stay.
LEMMA WrittenBack ==
  ASSUME FileOK, NEW field \in {"blocks", "code"}, NEW made,
         next \in 1 .. Len(frags), frags' = [frags EXCEPT ![next][field] = made],
         field = "blocks" => made \in Seq(IRBlock),
         field = "code" => made \in Seq(IRInstruction)
  PROVE  /\ frags' \in Seq(Fragment) /\ Len(frags') = Len(frags)
         /\ \A j \in 1 .. Len(frags) : j # next => frags'[j] = frags[j]
         /\ field = "blocks" => frags'[next].blocks = made /\ frags'[next].code = frags[next].code
         /\ field = "code" => frags'[next].code = made /\ frags'[next].blocks = frags[next].blocks
<1>1. frags[next] \in Fragment /\ frags \in Seq(Fragment) /\ DOMAIN frags = 1 .. Len(frags)
  BY LengthFacts DEF FileOK
<1> DEFINE new == [frags[next] EXCEPT ![field] = made]
<1>2. new \in Fragment
  BY <1>1 DEF Fragment
<1>3. /\ field = "blocks" => new.blocks = made /\ new.code = frags[next].code
      /\ field = "code" => new.code = made /\ new.blocks = frags[next].blocks
  BY <1>1 DEF Fragment
<1>4. frags' = [frags EXCEPT ![next] = new]
  OBVIOUS
<1> HIDE DEF new
<1> HIDE DEF Fragment
<1>5. frags' \in Seq(Fragment) /\ Len(frags') = Len(frags)
  <2>1. /\ frags \in Seq(Fragment) /\ next \in 1 .. Len(frags) /\ new \in Fragment
        /\ frags' = [frags EXCEPT ![next] = new]
    BY <1>1, <1>2, <1>4
  <2> QED
    BY ONLY <2>1
<1> QED
  BY <1>1, <1>3, <1>4, <1>5

LEMMA ReturnBlocks ==
  ASSUME PipelineInv, NEW p \in Passes, NEW after \in BeforeSchedule \ {"translate"},
         NEW made, Return(p, after, "blocks", made),
         IsFunctionOf(made, tables, nextId), 0 \notin heap
  PROVE  PipelineInv'
<1>1. /\ FileOK /\ In(p) /\ pass' = after /\ next' \in {next, next + 1}
      /\ frags' = [frags EXCEPT ![next]["blocks"] = made] /\ freed' = heap
      /\ UNCHANGED <<file, tables, nextId>> /\ Reset
  BY DEF PipelineInv, Return, In
<1>2. next \in 1 .. Len(frags) /\ Len(frags) = Len(file)
  BY <1>1, GivenFacts
<1>3. made \in Seq(IRBlock)
  BY DEF IsFunctionOf, IsBlockList
<1>4. /\ frags' \in Seq(Fragment) /\ Len(frags') = Len(frags)
      /\ \A j \in 1 .. Len(frags) : j # next => frags'[j] = frags[j]
      /\ frags'[next].blocks = made
  BY <1>1, <1>2, <1>3, WrittenBack
<1>5. \A j \in 1 .. Len(frags) : IsFunctionOf(frags'[j].blocks, tables, nextId)
  BY <1>1, <1>4 DEF FileOK
<1>6. next' \in 1 .. Len(file) + 1
  BY <1>1, <1>2, LengthFacts
<1>7. after \in Passes /\ after \notin {"translate", "schedule", "deadLabels"}
  BY DEF BeforeSchedule, Passes
<1>8. FileOK'
  BY <1>1, <1>2, <1>4, <1>5, <1>6, <1>7 DEF FileOK
<1>9. CallOK' /\ RunOK'
  BY <1>1 DEF CallOK, RunOK, In, Reset, Idle
<1> QED
  BY <1>8, <1>9 DEF PipelineInv

LEMMA ReturnCode ==
  ASSUME PipelineInv, NEW p \in {"schedule", "deadLabels"}, NEW made,
         Return(p, p, "code", made), made \in Seq(IRInstruction),
         p = "schedule" => IsCode(made)
  PROVE  PipelineInv'
<1>1. /\ FileOK /\ In(p) /\ pass = p /\ pass' = p /\ next' = next + 1
      /\ frags' = [frags EXCEPT ![next]["code"] = made]
      /\ UNCHANGED <<file, tables, nextId>> /\ Reset
  BY DEF PipelineInv, Return, In
<1>2. next \in 1 .. Len(frags) /\ Len(frags) = Len(file)
  BY <1>1, GivenFacts DEF Passes
<1>3. /\ frags' \in Seq(Fragment) /\ Len(frags') = Len(frags)
      /\ \A j \in 1 .. Len(frags) : j # next => frags'[j] = frags[j]
      /\ frags'[next].code = made /\ frags'[next].blocks = frags[next].blocks
  BY <1>1, <1>2, WrittenBack
<1>4. \A j \in 1 .. Len(frags) : IsFunctionOf(frags'[j].blocks, tables, nextId)
  BY <1>1, <1>3 DEF FileOK
<1>5. next \in Nat /\ Len(file) \in Nat /\ next' \in 1 .. Len(file) + 1
  BY <1>1, <1>2, LengthFacts
<1>6. \A c : IsCode(c)' <=> IsCode(c)
  BY <1>1 DEF IsCode
<1>7. p = "schedule" => \A j \in 1 .. next : IsCode(frags'[j].code)
  <2>1. \A j \in 1 .. next : j = next \/ j \in 1 .. next - 1
    BY <1>5
  <2> QED
    BY <1>1, <1>2, <1>3, <2>1 DEF FileOK
<1>8. p = "deadLabels" => \A j \in next + 1 .. Len(file) : IsCode(frags'[j].code)
  <2>1. \A j \in next + 1 .. Len(file) : j # next /\ j \in next .. Len(file) /\ j \in 1 .. Len(frags)
    BY <1>2, <1>5
  <2> QED
    BY <1>1, <1>3, <2>1 DEF FileOK
<1>9. next' - 1 = next
  BY <1>1, <1>5
<1>10. FileOK'
  BY <1>1, <1>2, <1>3, <1>4, <1>5, <1>6, <1>7, <1>8, <1>9 DEF FileOK, Passes, BeforeSchedule
<1>11. CallOK' /\ RunOK'
  BY <1>1 DEF CallOK, RunOK, In, Reset, Idle
<1> QED
  BY <1>10, <1>11 DEF PipelineInv
-----------------------------------------------------------------------------
(* shortCircuitJumps *)

\* The pass and what is proved about it are about the same definitions.
LEMMA ShortCircuitStep == SC!Next <=> SCP!Next
  BY DEF SC!Next, SCP!Next, SC!Keep, SCP!Keep, SC!Replace, SCP!Replace, SC!ReadFreed,
         SCP!ReadFreed, SC!NoSuchBlock, SCP!NoSuchBlock, SC!EndSweep, SCP!EndSweep,
         SC!Visiting, SCP!Visiting, SC!EndsWithJump, SCP!EndsWithJump, SC!IsJump,
         SCP!IsJump, SC!LastOf, SCP!LastOf, SC!TargetLabel, SCP!TargetLabel,
         SC!Target, SCP!Target, SC!IndexOfBlock, SCP!IndexOfBlock, SC!HasBlock,
         SCP!HasBlock, SC!NULL, SCP!NULL, SC!LiveOwners, SCP!LiveOwners, SC!WithLast,
         SCP!WithLast, SC!Copied, SCP!Copied, SC!Copy, SCP!Copy, SC!Operand,
         SCP!Operand, SC!NewChunks, SCP!NewChunks, SC!Chunks, SCP!Chunks

LEMMA ShortCircuitType == SCP!TypeOK => SC!TypeOK
  BY DEF SC!TypeOK, SCP!TypeOK, SC!Chunks, SCP!Chunks, SC!NULL, SCP!NULL, SC!IRBlock,
         SCP!IRBlock, SC!IRInstruction, SCP!IRInstruction, SC!IROperator,
         SCP!IROperator, SC!IROperand, SCP!IROperand, SC!Binary, SCP!Binary,
         SC!Unary, SCP!Unary, SC!TwoTarget, SCP!TwoTarget, SC!CJumps, SCP!CJumps,
         SC!BJumps, SCP!BJumps, SC!OneTarget, SCP!OneTarget, SC!FallthroughOp,
         SCP!FallthroughOp

LEMMA ShortCircuitInput ==
  \A bs : /\ SC!IsInput(bs) <=> IsBlockList(bs)
          /\ SCP!IsInput(bs) <=> IsBlockList(bs)
          /\ SCP!IsBlockList(bs) <=> IsBlockList(bs)
  BY DEF IsBlockList, SC!IsBlockList, SCP!IsBlockList, IRBlock, SC!IRBlock,
         SCP!IRBlock, IRInstruction, SC!IRInstruction, SCP!IRInstruction, IROperator,
         SC!IROperator, SCP!IROperator, IROperand, SC!IROperand, SCP!IROperand,
         Binary, SC!Binary, SCP!Binary, Unary, SC!Unary, SCP!Unary, TwoTarget,
         SC!TwoTarget, SCP!TwoTarget, CJumps, SC!CJumps, SCP!CJumps, BJumps,
         SC!BJumps, SCP!BJumps, OneTarget, SC!OneTarget, SCP!OneTarget,
         FallthroughOp, SC!FallthroughOp, SCP!FallthroughOp, IsTerminator,
         SC!IsTerminator, SCP!IsTerminator, LastOf, SC!LastOf, SCP!LastOf,
         SC!IsInput, SCP!IsInput

LEMMA ShortCircuitEntry ==
  ASSUME NEW bs
  PROVE  /\ \A i : SC!HopsFrom(bs, i) = SCP!HopsFrom(bs, i)
         /\ SC!FirstLoop(bs) = SCP!FirstLoop(bs)
  BY DEF SC!HopsFrom, SCP!HopsFrom, SC!SinglesOf, SCP!SinglesOf, SC!IsSingle,
         SCP!IsSingle, SC!Closed, SCP!Closed, SC!Hop, SCP!Hop, SC!IsJump, SCP!IsJump,
         SC!LastOf, SCP!LastOf, SC!FirstLoop, SCP!FirstLoop, SC!NULL, SCP!NULL

LEMMA ShortCircuitStart == SCP!IsInput(in.blocks) /\ SCP!Start => SCP!IInv
  BY SCP!StartIInv

LEMMA EnterShortCircuitInv == ASSUME PipelineInv, EnterShortCircuit PROVE PipelineInv'
<1> DEFINE bs == Given.blocks
<1>1. /\ Enter("shortCircuit", "sweep")
      /\ hops' = [i \in DOMAIN bs |-> SC!HopsFrom(bs, i)]
      /\ chunk' = [i \in DOMAIN bs |-> i]
      /\ shortCircuits' = SC!FirstLoop(bs)
  BY DEF EnterShortCircuit
<1>2. /\ FileOK' /\ CallOK' /\ pass' = "shortCircuit" /\ phase' = "sweep" /\ UNCHANGED vars
      /\ in'.blocks = bs /\ IsFunctionOf(in'.blocks, tables, nextId)
      /\ blocks' = in'.blocks /\ heap' = in'.freed /\ in'.freed = freed
      /\ idx' = 1 /\ changed' = FALSE
  BY <1>1, EnterFacts DEF Passes
<1>3. IsBlockList(in'.blocks) /\ DOMAIN bs = 1 .. Len(bs)
  BY <1>2 DEF IsFunctionOf, IsBlockList
<1>4. SCP!IsInput(in.blocks)'
  BY <1>3, ShortCircuitInput
<1>5. SCP!Start'
  BY <1>1, <1>2, <1>3, ShortCircuitEntry DEF SCP!Start
<1>6. SCP!IInv'
  BY <1>4, <1>5, ShortCircuitStart, PTL
<1>7. heap' = freed'
  BY <1>2 DEF vars
<1> QED
  BY <1>2, <1>6, <1>7 DEF PipelineInv, RunOK, In

LEMMA StepShortCircuitInv ==
  ASSUME PipelineInv, ReuseFirst, StepShortCircuit PROVE PipelineInv'
<1>1. Running("shortCircuit") /\ heap' = heap /\ SCP!Next
  BY ShortCircuitStep DEF StepShortCircuit
<1>2. pass = "shortCircuit" /\ SCP!IInv /\ heap = freed
  BY <1>1 DEF Running, PipelineInv, RunOK, In
<1>3. SCP!IInv'
  BY <1>1, <1>2, SCP!NextIInv
<1>4. phase' # "idle"
  BY <1>3 DEF SCP!IInv, SCP!Fixed
<1>5. FileOK' /\ CallOK' /\ pass' = "shortCircuit" /\ freed' = freed
  BY <1>1, <1>2, <1>4, RunningFacts DEF Passes
<1> QED
  BY <1>1, <1>2, <1>3, <1>5 DEF PipelineInv, RunOK, In

\* A block of a function of the file ends with an instruction of it.
LEMMA LastOfFile ==
  ASSUME NEW bs, NEW tbls, NEW n, IsFunctionOf(bs, tbls, n), NEW c \in DOMAIN bs
  PROVE  /\ bs[c].instructions \in Seq(IRInstruction)
         /\ Len(bs[c].instructions) \in DOMAIN bs[c].instructions
         /\ IsOfFile(LastOf(bs[c]), tbls, n) /\ IsTerminator(LastOf(bs[c]))
         /\ bs[c].label \in Int
<1>1. bs \in Seq(IRBlock) /\ bs[c].instructions # << >> /\ IsTerminator(LastOf(bs[c]))
  BY DEF IsFunctionOf, IsBlockList
<1>2. bs[c] \in IRBlock
  BY <1>1
<1>3. bs[c].instructions \in Seq(IRInstruction) /\ bs[c].label \in Int
  BY <1>2 DEF IRBlock
<1>4. Len(bs[c].instructions) \in DOMAIN bs[c].instructions
  BY <1>1, <1>3
<1> QED
  BY <1>1, <1>3, <1>4 DEF IsFunctionOf, LastOf

\* A copy of an instruction of the file is one.
LEMMA CopyOfFile ==
  ASSUME NEW i, NEW tbls, NEW n, IsOfFile(i, tbls, n), NEW c \in SCP!OrCopy(i)
  PROVE  IsOfFile(c, tbls, n)
<1>1. CASE c = SCP!Copied(i)
  <2>1. /\ c.op = i.op /\ DOMAIN c.args = DOMAIN i.args
        /\ \A a \in DOMAIN i.args : c.args[a].kind = i.args[a].kind /\ c.args[a].name = i.args[a].name
    BY <1>1 DEF SCP!Copied, SCP!Copy, SCP!Operand
  <2>2. LabelArgs(c) = LabelArgs(i)
    BY <2>1 DEF LabelArgs
  <2> QED
    BY <2>1, <2>2 DEF IsOfFile
<1> QED
  BY <1>1 DEF SCP!OrCopy

\* What the pass leaves is a function of the file again, with the same labels.
LEMMA ShortCircuitLeft ==
  ASSUME SCP!IInv, NEW tbls, NEW n, IsFunctionOf(in.blocks, tbls, n)
  PROVE  /\ IsFunctionOf(blocks, tbls, n)
         /\ LabelsOf(blocks) = LabelsOf(in.blocks)
         /\ \A i \in DOMAIN blocks : \E c \in DOMAIN in.blocks :
              LastOf(blocks[i]) \in SCP!OrCopy(LastOf(in.blocks[c]))
<1>1. /\ IsBlockList(blocks) /\ DOMAIN blocks = DOMAIN in.blocks
      /\ \A i \in DOMAIN in.blocks :
           /\ blocks[i].label = in.blocks[i].label
           /\ Len(blocks[i].instructions) = Len(in.blocks[i].instructions)
           /\ \A k \in DOMAIN blocks[i].instructions :
                k # Len(in.blocks[i].instructions) =>
                  /\ k \in DOMAIN in.blocks[i].instructions
                  /\ blocks[i].instructions[k] = in.blocks[i].instructions[k]
           /\ \E c \in DOMAIN in.blocks :
                LastOf(blocks[i]) \in SCP!OrCopy(LastOf(in.blocks[c]))
  <2>1. \A b : SCP!LastOf(b) = LastOf(b)
    BY DEF SCP!LastOf, LastOf
  <2>2. IsBlockList(blocks)
    BY SCP!LeftFacts, ShortCircuitInput
  <2> QED
    BY <2>1, <2>2, SCP!LeftFacts
<1>2. ASSUME NEW c \in DOMAIN in.blocks PROVE IsOfFile(LastOf(in.blocks[c]), tbls, n)
  BY LastOfFile
<1>3. ASSUME NEW i \in DOMAIN blocks, NEW k \in DOMAIN blocks[i].instructions
      PROVE  /\ IsOfFile(blocks[i].instructions[k], tbls, n)
             /\ blocks[i].instructions[k].op \in Jumps => k = Len(blocks[i].instructions)
  <2>1. CASE k = Len(blocks[i].instructions)
    <3>1. PICK c \in DOMAIN in.blocks :
            blocks[i].instructions[k] \in SCP!OrCopy(LastOf(in.blocks[c]))
      BY <1>1, <2>1 DEF LastOf
    <3> QED
      BY <1>2, <2>1, <3>1, CopyOfFile
  <2>2. CASE k # Len(blocks[i].instructions)
    BY <1>1, <2>2 DEF IsFunctionOf
  <2> QED
    BY <2>1, <2>2
<1>4. LabelsOf(blocks) = LabelsOf(in.blocks)
  BY <1>1 DEF LabelsOf
<1> QED
  BY <1>1, <1>3, <1>4 DEF IsFunctionOf

LEMMA LeaveShortCircuitInv == ASSUME PipelineInv, LeaveShortCircuit PROVE PipelineInv'
<1>1. Return("shortCircuit", "deadBlocks", "blocks", blocks) /\ In("shortCircuit")
  BY DEF LeaveShortCircuit, Return, In
<1>2. SCP!IInv /\ heap = freed /\ IsFunctionOf(in.blocks, tables, nextId)
  BY <1>1, GivenFacts DEF PipelineInv, RunOK, Passes
<1>3. IsFunctionOf(blocks, tables, nextId)
  BY <1>2, ShortCircuitLeft
<1>4. 0 \notin heap
  BY <1>1, <1>2 DEF PipelineInv, FileOK, In, BeforeSchedule
<1> QED
  BY <1>1, <1>3, <1>4, ReturnBlocks DEF Passes, BeforeSchedule
-----------------------------------------------------------------------------
(* deadBlockElimination *)

LEMMA DeadBlocksStep == DB!Next <=> DBP!Next
  BY DEF DB!Next, DBP!Next, DB!Return, DBP!Return, DB!Mark, DBP!Mark, DB!NullBlock,
         DBP!NullBlock, DB!MarkData, DBP!MarkData, DB!StartUnlinking,
         DBP!StartUnlinking, DB!KeepBlock, DBP!KeepBlock, DB!UnlinkBlock,
         DBP!UnlinkBlock, DB!FreeTwice, DBP!FreeTwice, DB!Finish, DBP!Finish,
         DB!Seen, DBP!Seen, DB!ElementsOf, DBP!ElementsOf, DB!HasBlock, DBP!HasBlock,
         DB!FindBlock, DBP!FindBlock, DB!IndexOfBlock, DBP!IndexOfBlock,
         DB!JumpTargets, DBP!JumpTargets, DB!LastOf, DBP!LastOf, DB!TwoTarget,
         DBP!TwoTarget, DB!CJumps, DBP!CJumps, DB!BJumps, DBP!BJumps, DB!OwnedOnce,
         DBP!OwnedOnce, DB!Objects, DBP!Objects, DB!ObjectOf, DBP!ObjectOf,
         DB!ObjectsIn, DBP!ObjectsIn

LEMMA DeadBlocksProperties ==
  /\ DBP!TypeOK => DB!TypeOK
  /\ DBP!UndefinedOnlyIfShared => DB!UndefinedOnlyIfShared
  BY DEF DB!TypeOK, DBP!TypeOK, DB!UndefinedOnlyIfShared, DBP!UndefinedOnlyIfShared,
         DB!ElementsOf, DBP!ElementsOf, DB!Seen, DBP!Seen, DB!LabelsOf, DBP!LabelsOf,
         DB!DataLabels, DBP!DataLabels, DB!OwnedOnce, DBP!OwnedOnce, DB!Objects,
         DBP!Objects, DB!ObjectOf, DBP!ObjectOf

LEMMA DeadBlocksInput ==
  \A f : /\ DB!IsInput(f) <=> IsFunction(f)
         /\ DBP!IsInput(f) <=> IsFunction(f)
         /\ DBP!IsBlockList(f) <=> IsBlockList(f)
  BY DEF IsFunction, DB!IsFunction, DBP!IsFunction, IsBlockList, DB!IsBlockList,
         DBP!IsBlockList, IRBlock, DB!IRBlock, DBP!IRBlock, IRInstruction,
         DB!IRInstruction, DBP!IRInstruction, IROperator, DB!IROperator,
         DBP!IROperator, IROperand, DB!IROperand, DBP!IROperand, Binary, DB!Binary,
         DBP!Binary, Unary, DB!Unary, DBP!Unary, TwoTarget, DB!TwoTarget,
         DBP!TwoTarget, CJumps, DB!CJumps, DBP!CJumps, BJumps, DB!BJumps, DBP!BJumps,
         OneTarget, DB!OneTarget, DBP!OneTarget, FallthroughOp, DB!FallthroughOp,
         DBP!FallthroughOp, IsTerminator, DB!IsTerminator, DBP!IsTerminator, LastOf,
         DB!LastOf, DBP!LastOf, DB!IsInput, DBP!IsInput

LEMMA DeadBlocksStart ==
  DBP!IsInput(in) /\ DBP!Start => DBP!IInv /\ DBP!FreedIInv /\ DBP!Distinct
  BY DBP!StartIInv, DBP!StartFreedIInv, DBP!StartDistinct

\* A function of the file, with the file's tables.
LEMMA FunctionOfFile ==
  ASSUME NEW f, NEW n, IsFunctionOf(f.blocks, f.tables, n), AreTables(f.tables, n)
  PROVE  IsFunction(f)
<1> SUFFICES ASSUME NEW i \in DOMAIN f.blocks, LastOf(f.blocks[i]).op = "JUMPTABLE"
             PROVE  LastOf(f.blocks[i]).args[2].name \in DOMAIN f.tables
  BY DEF IsFunction, IsFunctionOf, AreTables
<1> QED
  BY LastOfFile DEF IsOfFile

LEMMA EnterDeadBlocksInv == ASSUME PipelineInv, EnterDeadBlocks PROVE PipelineInv'
<1>1. /\ Enter("deadBlocks", "mark")
      /\ marked' = << >> /\ stack' = <<Given.blocks[1].label>>
      /\ data' = DB!DataLabels(tables)
  BY DEF EnterDeadBlocks
<1>2. /\ FileOK' /\ CallOK' /\ pass' = "deadBlocks" /\ phase' = "mark" /\ in' = Given
      /\ IsFunctionOf(in'.blocks, in'.tables, nextId) /\ AreTables(in'.tables, nextId)
      /\ blocks' = in'.blocks /\ heap' = in'.freed /\ in'.tables = tables
      /\ idx' = 1 /\ curr' = 1
  BY <1>1, EnterFacts DEF Passes
<1>3. DBP!IsInput(in)'
  BY <1>2, FunctionOfFile, DeadBlocksInput
<1>4. DBP!Start'
  <2>1. DB!DataLabels(tables) = DBP!DataLabels(tables)
    BY DEF DB!DataLabels, DBP!DataLabels, DB!ElementsOf, DBP!ElementsOf
  <2> QED
    BY <1>1, <1>2, <2>1 DEF DBP!Start
<1>5. (DBP!IInv /\ DBP!FreedIInv /\ DBP!Distinct)'
  BY <1>3, <1>4, DeadBlocksStart, PTL
<1> QED
  BY <1>2, <1>5 DEF PipelineInv, RunOK, In

LEMMA StepDeadBlocksInv == ASSUME PipelineInv, StepDeadBlocks PROVE PipelineInv'
<1>1. Running("deadBlocks") /\ DBP!Next
  BY DeadBlocksStep DEF StepDeadBlocks
<1>2. pass = "deadBlocks" /\ DBP!IInv /\ DBP!FreedIInv /\ DBP!Distinct
  BY <1>1 DEF Running, PipelineInv, RunOK, In
<1>3. (DBP!IInv /\ DBP!FreedIInv /\ DBP!Distinct)'
  BY <1>1, <1>2, DBP!NextIInv, DBP!NextFreedIInv, DBP!NextDistinct
<1>4. phase' # "idle"
  BY <1>3 DEF DBP!IInv, DBP!Typed
<1>5. FileOK' /\ CallOK' /\ pass' = "deadBlocks"
  BY <1>1, <1>2, <1>4, RunningFacts DEF Passes
<1> QED
  BY <1>3, <1>5 DEF PipelineInv, RunOK, In

LEMMA LeaveDeadBlocksInv == ASSUME PipelineInv, LeaveDeadBlocks PROVE PipelineInv'
<1>1. Return("deadBlocks", "deadTemps", "blocks", blocks) /\ In("deadBlocks") /\ phase = "done"
  BY DEF LeaveDeadBlocks, Return, In
<1>2. /\ DBP!IInv /\ DBP!FreedIInv /\ DBP!Distinct
      /\ IsFunctionOf(in.blocks, tables, nextId) /\ in.freed = freed
  BY <1>1, GivenFacts DEF PipelineInv, RunOK, Passes
<1>3. /\ IsBlockList(blocks)
      /\ \A k \in DOMAIN blocks : \E j \in DOMAIN in.blocks : blocks[k] = in.blocks[j]
  BY <1>1, <1>2, DBP!LeftFacts, DeadBlocksInput
<1>4. IsFunctionOf(blocks, tables, nextId)
  BY <1>2, <1>3 DEF IsFunctionOf
<1>5. 0 \notin heap
  <2>1. 0 \notin freed
    BY <1>1 DEF PipelineInv, FileOK, In, BeforeSchedule
  <2> QED
    BY <1>2, <2>1 DEF DBP!FreedIInv
<1> QED
  BY <1>1, <1>4, <1>5, ReturnBlocks DEF Passes, BeforeSchedule
-----------------------------------------------------------------------------
(* deadTempElimination *)

LEMMA DeadTempsStep == DT!Next <=> DTP!Next
  BY DEF DT!Next, DTP!Next, DT!Mark, DTP!Mark, DT!StartSweep, DTP!StartSweep,
         DT!Keep, DTP!Keep, DT!MakeNop, DTP!MakeNop, DT!UseFreed, DTP!UseFreed,
         DT!NextRound, DTP!NextRound, DT!Finish, DTP!Finish, DT!Current, DTP!Current,
         DT!Visiting, DTP!Visiting, DT!Advance, DTP!Advance, DT!ReadNow, DTP!ReadNow,
         DT!ReadsFreed, DTP!ReadsFreed, DT!WritesDeadTemp, DTP!WritesDeadTemp,
         DT!MarkTempUse, DTP!MarkTempUse, DT!MarkedArgs, DTP!MarkedArgs, DT!Writers,
         DTP!Writers, DT!TempsIn, DTP!TempsIn, DT!NOP, DTP!NOP, DT!Objects,
         DTP!Objects, DT!ObjectOf, DTP!ObjectOf, DT!Binary, DTP!Binary, DT!Unary,
         DTP!Unary, DT!CJumps, DTP!CJumps, DT!BJumps, DTP!BJumps

LEMMA DeadTempsProperties ==
  /\ DTP!TypeOK => DT!TypeOK
  /\ DTP!UndefinedOnlyIfShared => DT!UndefinedOnlyIfShared
  /\ DTP!RemovedNeverRead => DT!RemovedNeverRead
  /\ DTP!Saturated => DT!Saturated
  BY DEF DT!TypeOK, DTP!TypeOK, DT!UndefinedOnlyIfShared, DTP!UndefinedOnlyIfShared,
         DT!OwnedOnce, DTP!OwnedOnce, DT!Objects, DTP!Objects, DT!ObjectOf,
         DTP!ObjectOf, DT!RemovedNeverRead, DTP!RemovedNeverRead, DT!Saturated,
         DTP!Saturated, DT!LostTemps, DTP!LostTemps, DT!LeftIn, DTP!LeftIn, DT!Ops,
         DTP!Ops, DT!ReadArgs, DTP!ReadArgs, DT!MarkedArgs, DTP!MarkedArgs,
         DT!Places, DTP!Places, DT!Was, DTP!Was, DT!Now, DTP!Now, DT!Removed,
         DTP!Removed, DT!TempsIn, DTP!TempsIn, DT!WritesDeadTemp, DTP!WritesDeadTemp,
         DT!Writers, DTP!Writers, DT!Binary, DTP!Binary, DT!Unary, DTP!Unary,
         DT!CJumps, DTP!CJumps, DT!BJumps, DTP!BJumps

LEMMA DeadTempsInput ==
  ASSUME NEW f
  PROVE  /\ DTP!IsInput(f) => DT!IsInput(f)
         /\ DTP!IsBlockList(f) <=> IsBlockList(f)
<1>1. \A bs : /\ DTP!IsBlockList(bs) <=> IsBlockList(bs)
              /\ DT!IsBlockList(bs) <=> IsBlockList(bs)
  BY DEF IsBlockList, DT!IsBlockList, DTP!IsBlockList, IRBlock, DT!IRBlock,
         DTP!IRBlock, IRInstruction, DT!IRInstruction, DTP!IRInstruction, IROperator,
         DT!IROperator, DTP!IROperator, IROperand, DT!IROperand, DTP!IROperand,
         Binary, DT!Binary, DTP!Binary, Unary, DT!Unary, DTP!Unary, TwoTarget,
         DT!TwoTarget, DTP!TwoTarget, CJumps, DT!CJumps, DTP!CJumps, BJumps,
         DT!BJumps, DTP!BJumps, OneTarget, DT!OneTarget, DTP!OneTarget,
         FallthroughOp, DT!FallthroughOp, DTP!FallthroughOp, IsTerminator,
         DT!IsTerminator, DTP!IsTerminator, LastOf, DT!LastOf, DTP!LastOf
<1>2. \A i, args : DT!TempsIn(i, args) = DTP!TempsIn(i, args)
  BY DEF DT!TempsIn, DTP!TempsIn
<1> QED
  BY <1>1, <1>2 DEF DT!IsInput, DTP!IsInput

LEMMA DeadTempsStart ==
  DTP!IsInput(in) /\ DTP!Start => DTP!IInv /\ DTP!FreedIInv /\ DTP!Kept
  BY DTP!StartIInv, DTP!StartFreedIInv, DTP!StartKept

LEMMA EnterDeadTempsInv == ASSUME PipelineInv, EnterDeadTemps PROVE PipelineInv'
<1>1. Enter("deadTemps", "mark") /\ seen' = seen
  BY DEF EnterDeadTemps
<1>2. /\ FileOK' /\ CallOK' /\ pass = "deadTemps" /\ pass' = "deadTemps" /\ phase' = "mark"
      /\ IsFunctionOf(in'.blocks, tables, nextId) /\ in'.maxTemps = nextId
      /\ blocks' = in'.blocks /\ heap' = in'.freed /\ in'.freed = freed
      /\ block' = 1 /\ inst' = 1 /\ changed' = FALSE /\ seen = {}
  BY <1>1, EnterFacts DEF Passes
<1>3. DTP!IsInput(in)'
  <2>1. IsBlockList(in'.blocks) /\ 0 \notin in'.freed
    BY <1>2 DEF IsFunctionOf, PipelineInv, FileOK, BeforeSchedule
  <2>2. ASSUME NEW b \in DOMAIN in'.blocks, NEW k \in DOMAIN in'.blocks[b].instructions
        PROVE  DTP!TempsIn(in'.blocks[b].instructions[k],
                           DOMAIN in'.blocks[b].instructions[k].args) \subseteq 0 .. nextId - 1
    <3>1. IsOfFile(in'.blocks[b].instructions[k], tables, nextId)
      BY <1>2 DEF IsFunctionOf
    <3> QED
      BY <3>1 DEF IsOfFile, DTP!TempsIn
  <2> QED
    BY <1>2, <2>1, <2>2, DeadTempsInput DEF DTP!IsInput
<1>4. DTP!Start'
  BY <1>1, <1>2 DEF DTP!Start
<1>5. (DTP!IInv /\ DTP!FreedIInv /\ DTP!Kept)'
  BY <1>3, <1>4, DeadTempsStart, PTL
<1> QED
  BY <1>2, <1>5 DEF PipelineInv, RunOK, In

LEMMA StepDeadTempsInv == ASSUME PipelineInv, StepDeadTemps PROVE PipelineInv'
<1>1. Running("deadTemps") /\ DTP!Next
  BY DeadTempsStep DEF StepDeadTemps
<1>2. pass = "deadTemps" /\ DTP!IInv /\ DTP!FreedIInv /\ DTP!Kept
  BY <1>1 DEF Running, PipelineInv, RunOK, In
<1>3. (DTP!IInv /\ DTP!FreedIInv /\ DTP!Kept)'
  BY <1>1, <1>2, DTP!StepIInv, DTP!StepFreedIInv, DTP!StepKept
<1>4. phase' # "idle"
  BY <1>3 DEF DTP!IInv, DTP!Typed
<1>5. FileOK' /\ CallOK' /\ pass' = "deadTemps"
  BY <1>1, <1>2, <1>4, RunningFacts DEF Passes
<1> QED
  BY <1>3, <1>5 DEF PipelineInv, RunOK, In

\* What the pass leaves is a function of the file again, and its blocks lead where
\* they led.
LEMMA DeadTempsLeft ==
  ASSUME DTP!IInv, DTP!Kept, NEW tbls, NEW n, IsFunctionOf(in.blocks, tbls, n)
  PROVE  /\ IsFunctionOf(blocks, tbls, n)
         /\ LabelsOf(blocks) = LabelsOf(in.blocks) /\ DOMAIN blocks = DOMAIN in.blocks
         /\ \A b \in DOMAIN blocks : LastOf(blocks[b]) = LastOf(in.blocks[b])
<1>1. /\ IsBlockList(blocks) /\ DOMAIN blocks = DOMAIN in.blocks
      /\ \A b \in DOMAIN in.blocks :
           /\ blocks[b].label = in.blocks[b].label
           /\ LastOf(blocks[b]) = LastOf(in.blocks[b])
           /\ Len(blocks[b].instructions) = Len(in.blocks[b].instructions)
           /\ \A k \in DOMAIN blocks[b].instructions :
                /\ k \in DOMAIN in.blocks[b].instructions
                /\ blocks[b].instructions[k] \in {in.blocks[b].instructions[k], DTP!NOP}
  <2>1. \A b : DTP!LastOf(b) = LastOf(b)
    BY DEF DTP!LastOf, LastOf
  <2>2. IsBlockList(blocks)
    BY DTP!LeftFacts, DeadTempsInput
  <2> QED
    BY <2>1, <2>2, DTP!LeftFacts
<1>2. IsOfFile(DTP!NOP, tbls, n) /\ DTP!NOP.op \notin Jumps
  BY DEF DTP!NOP, IsOfFile, LabelArgs, Jumps, TwoTarget, CJumps, BJumps, OneTarget,
         FallthroughOp
<1>3. ASSUME NEW b \in DOMAIN blocks, NEW k \in DOMAIN blocks[b].instructions
      PROVE  /\ IsOfFile(blocks[b].instructions[k], tbls, n)
             /\ blocks[b].instructions[k].op \in Jumps => k = Len(blocks[b].instructions)
  BY <1>1, <1>2 DEF IsFunctionOf
<1>4. LabelsOf(blocks) = LabelsOf(in.blocks)
  BY <1>1 DEF LabelsOf
<1> QED
  BY <1>1, <1>3, <1>4 DEF IsFunctionOf

LEMMA LeaveDeadTempsInv == ASSUME PipelineInv, LeaveDeadTemps PROVE PipelineInv'
<1>1. Return("deadTemps", "shortCircuit", "blocks", blocks) /\ In("deadTemps")
  BY DEF LeaveDeadTemps, Return, In
<1>2. /\ DTP!IInv /\ DTP!FreedIInv /\ DTP!Kept
      /\ IsFunctionOf(in.blocks, tables, nextId)
  BY <1>1, GivenFacts DEF PipelineInv, RunOK, Passes
<1>3. IsFunctionOf(blocks, tables, nextId)
  BY <1>2, DeadTempsLeft
<1>4. 0 \notin heap
  BY <1>2 DEF DTP!FreedIInv
<1> QED
  BY <1>1, <1>3, <1>4, ReturnBlocks DEF Passes, BeforeSchedule
-----------------------------------------------------------------------------
(* Trace scheduling *)

LEMMA ScheduleStep == TS!Next <=> TSP!Next
  BY DEF TS!Next, TSP!Next, TS!ScheduleBlock, TSP!ScheduleBlock, TS!EmitJump,
         TSP!EmitJump, TS!SkipScheduled, TSP!SkipScheduled, TS!FreeBlock,
         TSP!FreeBlock, TS!UseFreed, TSP!UseFreed, TS!Finish, TSP!Finish,
         TS!Scheduling, TSP!Scheduling, TS!IsToSchedule, TSP!IsToSchedule,
         TS!UsesFreed, TSP!UsesFreed, TS!Without, TSP!Without, TS!FreedWith,
         TSP!FreedWith, TS!Freeing, TSP!Freeing, TS!Free, TSP!Free, TS!WorkFor,
         TSP!WorkFor, TS!EmittedFor, TSP!EmittedFor, TS!OneArgJump, TSP!OneArgJump,
         TS!Body, TSP!Body, TS!IfFound, TSP!IfFound, TS!OrJump, TSP!OrJump,
         TS!HasBlock, TSP!HasBlock, TS!FindBlock, TSP!FindBlock, TS!IndexOfBlock,
         TSP!IndexOfBlock, TS!LastOf, TSP!LastOf, TS!TwoTarget, TSP!TwoTarget,
         TS!CJumps, TSP!CJumps, TS!BJumps, TSP!BJumps, TS!FallthroughOp,
         TSP!FallthroughOp, TS!JumpTargets, TSP!JumpTargets, TS!Copied, TSP!Copied,
         TS!Copy, TSP!Copy, TS!Operand, TSP!Operand, TS!Local, TSP!Local, TS!LABEL,
         TSP!LABEL, TS!JUMP, TSP!JUMP, TS!Objects, TSP!Objects, TS!ObjectOf,
         TSP!ObjectOf, TS!ObjectsIn, TSP!ObjectsIn, TS!OwnedOnce, TSP!OwnedOnce

LEMMA ScheduleProperties ==
  /\ TSP!TypeOK => TS!TypeOK
  /\ TSP!UndefinedOnlyIfShared => TS!UndefinedOnlyIfShared
  /\ TSP!EmittedOnce => TS!EmittedOnce
  /\ TSP!TargetsScheduled => TS!TargetsScheduled
  /\ TSP!FalseTargetFollows => TS!FalseTargetFollows
  BY DEF TS!TypeOK, TSP!TypeOK, TS!UndefinedOnlyIfShared, TSP!UndefinedOnlyIfShared,
         TS!EmittedOnce, TSP!EmittedOnce, TS!TargetsScheduled, TSP!TargetsScheduled,
         TS!FalseTargetFollows, TSP!FalseTargetFollows, TS!Labels, TSP!Labels,
         TS!LabelsOf, TSP!LabelsOf, TS!PositionsOf, TSP!PositionsOf, TS!Emitted,
         TSP!Emitted, TS!After, TSP!After, TS!FallsInto, TSP!FallsInto, TS!Body,
         TSP!Body, TS!EmittedFor, TSP!EmittedFor, TS!OneArgJump, TSP!OneArgJump,
         TS!LastOf, TSP!LastOf, TS!TwoTarget, TSP!TwoTarget, TS!CJumps, TSP!CJumps,
         TS!BJumps, TSP!BJumps, TS!FallthroughOp, TSP!FallthroughOp, TS!JumpTargets,
         TSP!JumpTargets, TS!Copied, TSP!Copied, TS!Copy, TSP!Copy, TS!Operand,
         TSP!Operand, TS!Local, TSP!Local, TS!LABEL, TSP!LABEL, TS!JUMP, TSP!JUMP,
         TS!Objects, TSP!Objects, TS!ObjectOf, TSP!ObjectOf, TS!OwnedOnce,
         TSP!OwnedOnce

LEMMA ScheduleInput ==
  ASSUME NEW f
  PROVE  /\ TSP!IsInput(f) => TS!IsInput(f)
         /\ TSP!IsFunction(f) <=> IsFunction(f)
<1>1. /\ TSP!IsFunction(f) <=> IsFunction(f)
      /\ TS!IsFunction(f) <=> IsFunction(f)
  BY DEF IsFunction, TS!IsFunction, TSP!IsFunction, IsBlockList, TS!IsBlockList,
         TSP!IsBlockList, IRBlock, TS!IRBlock, TSP!IRBlock, IRInstruction,
         TS!IRInstruction, TSP!IRInstruction, IROperator, TS!IROperator,
         TSP!IROperator, IROperand, TS!IROperand, TSP!IROperand, Binary, TS!Binary,
         TSP!Binary, Unary, TS!Unary, TSP!Unary, TwoTarget, TS!TwoTarget,
         TSP!TwoTarget, CJumps, TS!CJumps, TSP!CJumps, BJumps, TS!BJumps, TSP!BJumps,
         OneTarget, TS!OneTarget, TSP!OneTarget, FallthroughOp, TS!FallthroughOp,
         TSP!FallthroughOp, IsTerminator, TS!IsTerminator, TSP!IsTerminator, LastOf,
         TS!LastOf, TSP!LastOf
<1> QED
  BY <1>1 DEF TS!IsInput, TSP!IsInput

LEMMA ScheduleStart ==
  TSP!IsInput(in) /\ TSP!Start => TSP!IInv /\ TSP!FreedIInv /\ TSP!MadeOnly
  BY TSP!StartIInv, TSP!StartFreedIInv, TSP!StartMadeOnly

LEMMA EnterScheduleInv == ASSUME PipelineInv, EnterSchedule PROVE PipelineInv'
<1>1. /\ Enter("schedule", "schedule")
      /\ out' = << >> /\ work' = <<TS!IfFound(Given.blocks[1].label)>>
  BY DEF EnterSchedule
<1>2. /\ FileOK' /\ CallOK' /\ pass' = "schedule" /\ phase' = "schedule" /\ in' = Given
      /\ IsFunctionOf(in'.blocks, in'.tables, nextId) /\ AreTables(in'.tables, nextId)
      /\ blocks' = in'.blocks /\ heap' = in'.freed
  BY <1>1, EnterFacts DEF Passes
<1>3. TSP!IsInput(in)'
  <2>1. \A b \in DOMAIN in'.blocks : \A k \in DOMAIN in'.blocks[b].instructions :
          in'.blocks[b].instructions[k].op # "LABEL"
    BY <1>2 DEF IsFunctionOf, IsOfFile
  <2>2. TSP!IsFunction(in')
    BY <1>2, FunctionOfFile, ScheduleInput
  <2> QED
    BY <2>1, <2>2 DEF TSP!IsInput
<1>4. TSP!Start'
  BY <1>1, <1>2 DEF TSP!Start, TS!IfFound, TSP!IfFound
<1>5. (TSP!IInv /\ TSP!FreedIInv /\ TSP!MadeOnly)'
  BY <1>3, <1>4, ScheduleStart, PTL
<1> QED
  BY <1>2, <1>5 DEF PipelineInv, RunOK, In

LEMMA StepScheduleInv == ASSUME PipelineInv, StepSchedule PROVE PipelineInv'
<1>1. Running("schedule") /\ TSP!Next
  BY ScheduleStep DEF StepSchedule
<1>2. pass = "schedule" /\ TSP!IInv /\ TSP!FreedIInv /\ TSP!MadeOnly
  BY <1>1 DEF Running, PipelineInv, RunOK, In
<1>3. (TSP!IInv /\ TSP!FreedIInv /\ TSP!MadeOnly)'
  BY <1>1, <1>2, TSP!StepIInv, TSP!StepFreedIInv, TSP!StepMadeOnly
<1>4. phase' # "idle"
  BY <1>3 DEF TSP!IInv, TSP!Typed
<1>5. FileOK' /\ CallOK' /\ pass' = "schedule"
  BY <1>1, <1>2, <1>4, RunningFacts DEF Passes
<1> QED
  BY <1>3, <1>5 DEF PipelineInv, RunOK, In

\* An instruction of the file names labels that nextId has passed.
LEMMA TargetsOfFile ==
  ASSUME NEW i, IsOfFile(i, tables, nextId), AreTables(tables, nextId)
  PROVE  L!Targets(i, tables) \subseteq 0 .. nextId - 1
<1>1. L!OneTarget = OneTarget
  BY DEF OneTarget, L!OneTarget, FallthroughOp, L!FallthroughOp, TwoTarget,
         L!TwoTarget, CJumps, L!CJumps, BJumps, L!BJumps
<1>2. CASE i.op = "JUMPTABLE"
  <2>1. i.args[2].name \in DOMAIN tables
    BY <1>2 DEF IsOfFile
  <2>2. \A k \in DOMAIN tables[i.args[2].name] :
          tables[i.args[2].name][k] \in 0 .. nextId - 1
    BY <2>1 DEF AreTables
  <2>3. "JUMPTABLE" \notin {"JUMP"} \cup L!OneTarget
    BY DEF L!OneTarget, L!FallthroughOp, L!TwoTarget, L!CJumps, L!BJumps
  <2>4. \A x \in L!Targets(i, tables) : \E k \in DOMAIN tables[i.args[2].name] :
          x = tables[i.args[2].name][k]
    BY <1>2, <2>3 DEF L!Targets
  <2> QED
    BY <2>2, <2>4
<1>3. CASE i.op # "JUMPTABLE" /\ i.op \in {"JUMP"} \cup OneTarget
  <2>1. 1 \in LabelArgs(i)
    BY <1>3 DEF LabelArgs
  <2>2. L!Targets(i, tables) = {i.args[1].name}
    BY <1>1, <1>3 DEF L!Targets
  <2> QED
    BY <2>1, <2>2 DEF IsOfFile
<1>4. CASE i.op # "JUMPTABLE" /\ i.op \notin {"JUMP"} \cup OneTarget
  <2>1. L!Targets(i, tables) = {}
    BY <1>1, <1>4 DEF L!Targets
  <2> QED
    BY <2>1
<1> QED
  BY <1>2, <1>3, <1>4

\* So does what scheduling makes of them.
LEMMA MadeOfFile ==
  ASSUME TSP!IsInput(in), IsFunctionOf(in.blocks, tables, nextId),
         AreTables(tables, nextId), NEW i, TSP!Made(i)
  PROVE  /\ i \in IRInstruction /\ i.op \notin TwoTarget
         /\ L!Targets(i, tables) \subseteq 0 .. nextId - 1
<1>1. /\ TSP!IRInstruction = IRInstruction /\ TSP!TwoTarget = TwoTarget
      /\ TSP!OneTarget = L!OneTarget
  BY DEF IRInstruction, TSP!IRInstruction, L!IRInstruction, IROperator,
         TSP!IROperator, L!IROperator, IROperand, TSP!IROperand, L!IROperand, Binary,
         TSP!Binary, L!Binary, Unary, TSP!Unary, L!Unary, TwoTarget, TSP!TwoTarget,
         L!TwoTarget, CJumps, TSP!CJumps, L!CJumps, BJumps, TSP!BJumps, L!BJumps,
         OneTarget, TSP!OneTarget, L!OneTarget, FallthroughOp, TSP!FallthroughOp,
         L!FallthroughOp
<1>2. ASSUME NEW b \in TSP!Original, NEW k \in 1 .. Len(b.instructions)
      PROVE  /\ IsOfFile(b.instructions[k], tables, nextId)
             /\ b.instructions[k].op \in TwoTarget =>
                  k = Len(b.instructions) /\ TSP!LastOf(b) = b.instructions[k]
  <2>1. PICK j \in DOMAIN in.blocks : b = in.blocks[j]
    BY DEF TSP!Original, TSP!ElementsOf
  <2>2. b.instructions \in Seq(IRInstruction)
    BY <1>1, TSP!BlockFacts
  <2> QED
    BY <2>1, <2>2 DEF IsFunctionOf, Jumps, TSP!LastOf
<1>3. CASE \E b \in TSP!Original : i = TSP!LABEL(b.label)
  <2>1. i.op = "LABEL"
    BY <1>3 DEF TSP!LABEL
  <2>2. "LABEL" \notin L!OneTarget
    BY DEF L!OneTarget, L!FallthroughOp, L!TwoTarget, L!CJumps, L!BJumps
  <2>3. L!Targets(i, tables) = {}
    BY <2>1, <2>2 DEF L!Targets
  <2>4. i.op \notin TwoTarget
    BY <2>1 DEF TwoTarget, CJumps, BJumps
  <2> QED
    BY <1>1, <2>3, <2>4, TSP!MadeFacts
<1>4. CASE \E b \in TSP!Original : \E k \in 1 .. Len(b.instructions) :
             /\ i = b.instructions[k]
             /\ k = Len(b.instructions) => TSP!LastOf(b).op \notin TwoTarget
  <2>1. i.op \notin TwoTarget /\ IsOfFile(i, tables, nextId)
    BY <1>2, <1>4
  <2> QED
    BY <1>1, <2>1, TSP!MadeFacts, TargetsOfFile
<1>5. ASSUME NEW b \in TSP!Original, TSP!LastOf(b).op \in TwoTarget,
             i.op \in {"JUMP"} \cup L!OneTarget,
             i.args[1].name \in {TSP!LastOf(b).args[1].name, TSP!LastOf(b).args[2].name}
      PROVE  i.op \notin TwoTarget /\ L!Targets(i, tables) \subseteq 0 .. nextId - 1
  <2>1. Len(b.instructions) \in 1 .. Len(b.instructions)
    BY TSP!BlockFacts
  <2>2. IsOfFile(TSP!LastOf(b), tables, nextId)
    BY <1>2, <2>1 DEF TSP!LastOf
  <2>3. i.args[1].name \in 0 .. nextId - 1
    BY <1>5, <2>2 DEF IsOfFile, LabelArgs
  <2>4. i.op # "JUMPTABLE"
    BY <1>5 DEF L!OneTarget, L!FallthroughOp, L!TwoTarget, L!CJumps, L!BJumps
  <2>5. L!Targets(i, tables) = {i.args[1].name}
    BY <1>5, <2>4 DEF L!Targets
  <2>6. i.op \notin TwoTarget
    BY <1>5 DEF L!OneTarget, L!FallthroughOp, L!TwoTarget, L!CJumps, L!BJumps, TwoTarget,
                CJumps, BJumps
  <2> QED
    BY <2>3, <2>5, <2>6
<1> QED
  BY <1>1, <1>3, <1>4, <1>5, TSP!MadeFacts

LEMMA LeaveScheduleInv == ASSUME PipelineInv, LeaveSchedule PROVE PipelineInv'
<1>1. Return("schedule", "schedule", "code", out) /\ In("schedule")
  BY DEF LeaveSchedule, Return, In
<1>2. /\ TSP!IInv /\ TSP!MadeOnly /\ TSP!Typed /\ TSP!IsInput(in)
      /\ IsFunctionOf(in.blocks, tables, nextId) /\ AreTables(tables, nextId)
  BY <1>1, GivenFacts DEF PipelineInv, RunOK, Passes, TSP!IInv, TSP!Typed
<1>3. \A k \in 1 .. Len(out) : /\ out[k] \in IRInstruction /\ out[k].op \notin TwoTarget
                               /\ L!Targets(out[k], tables) \subseteq 0 .. nextId - 1
  BY <1>2, MadeOfFile DEF TSP!MadeOnly
<1>4. out \in Seq(IRInstruction) /\ DOMAIN out = 1 .. Len(out)
  <2>1. out \in Seq(TSP!Emittable)
    BY <1>2 DEF TSP!Typed
  <2> QED
    BY <1>3, <2>1
<1>5. IsCode(out)
  BY <1>3, <1>4 DEF IsCode
<1> QED
  BY <1>1, <1>4, <1>5, ReturnCode
-----------------------------------------------------------------------------
(* deadLabelElimination, in the file *)

LEMMA DeadLabelsStep == DL!Next <=> L!Next
  BY DEF DL!Next, L!Next, DL!Mark, L!Mark, DL!StartUnlinking, L!StartUnlinking,
         DL!Keep, L!Keep, DL!Unlink, L!Unlink, DL!Finish, L!Finish, DL!JumpedTo,
         L!JumpedTo, DL!Targets, L!Targets, DL!IsDeadLabel, L!IsDeadLabel,
         DL!OneTarget, L!OneTarget, DL!FallthroughOp, L!FallthroughOp, DL!TwoTarget,
         L!TwoTarget, DL!CJumps, L!CJumps, DL!BJumps, L!BJumps

LEMMA DeadLabelsProperties ==
  /\ L!TypeOK => DL!TypeOK
  /\ L!TargetsKept => DL!TargetsKept
  /\ L!OthersRemoved => DL!OthersRemoved
  BY DEF DL!TypeOK, L!TypeOK, DL!TargetsKept, L!TargetsKept, DL!OthersRemoved,
         L!OthersRemoved, DL!LabelsIn, L!LabelsIn, DL!JumpedToIn, L!JumpedToIn,
         DL!JumpedTo, L!JumpedTo, DL!DataLabels, L!DataLabels, DL!Targets, L!Targets,
         DL!OneTarget, L!OneTarget, DL!FallthroughOp, L!FallthroughOp, DL!TwoTarget,
         L!TwoTarget, DL!CJumps, L!CJumps, DL!BJumps, L!BJumps

LEMMA DeadLabelsInput ==
  /\ \A f : L!IsInput(f) => DL!IsInput(f)
  /\ L!IRInstruction = IRInstruction
  BY DEF IRInstruction, DL!IRInstruction, L!IRInstruction, IROperator, DL!IROperator,
         L!IROperator, IROperand, DL!IROperand, L!IROperand, Binary, DL!Binary,
         L!Binary, Unary, DL!Unary, L!Unary, TwoTarget, DL!TwoTarget, L!TwoTarget,
         CJumps, DL!CJumps, L!CJumps, BJumps, DL!BJumps, L!BJumps, OneTarget,
         DL!OneTarget, L!OneTarget, FallthroughOp, DL!FallthroughOp, L!FallthroughOp,
         DL!IsInput, L!IsInput, DL!Targets, L!Targets, DL!DataLabels, L!DataLabels

LEMMA EnterDeadLabelsInv == ASSUME PipelineInv, EnterDeadLabels PROVE PipelineInv'
<1>1. Enter("deadLabels", "mark") /\ seen' = DL!DataLabels(tables)
  BY DEF EnterDeadLabels
<1>2. /\ FileOK' /\ CallOK' /\ pass = "deadLabels" /\ pass' = "deadLabels" /\ phase' = "mark"
      /\ next \in 1 .. Len(frags) /\ AreTables(tables, nextId) /\ nextId \in Nat
      /\ in'.code = frags[next].code /\ in'.code \in Seq(IRInstruction)
      /\ in'.tables = tables /\ in'.maxLabels = nextId
      /\ code' = in'.code /\ curr' = 1
  BY <1>1, EnterFacts DEF Passes
<1>3. IsCode(in'.code)
  <2>1. FileOK /\ Len(frags) = Len(file) /\ next \in Nat
    BY <1>2, LengthFacts DEF PipelineInv, FileOK
  <2>2. next \in next .. Len(file)
    BY <1>2, <2>1
  <2> QED
    BY <1>2, <2>1, <2>2 DEF FileOK
<1>4. L!IsInput(in)'
  <2>1. L!DataLabels(tables) \subseteq 0 .. nextId - 1
    BY <1>2 DEF L!DataLabels, AreTables
  <2> QED
    BY <1>2, <1>3, <2>1, DeadLabelsInput DEF L!IsInput, IsCode
<1>5. L!Start'
  <2>1. DL!DataLabels(tables) = L!DataLabels(tables)
    BY DEF DL!DataLabels, L!DataLabels
  <2> QED
    BY <1>1, <1>2, <2>1 DEF L!Start
<1>6. LabelsIInv'
  BY <1>4, <1>5, StartLabels, PTL
<1> QED
  BY <1>2, <1>6 DEF PipelineInv, RunOK, In

LEMMA StepDeadLabelsInv == ASSUME PipelineInv, StepDeadLabels PROVE PipelineInv'
<1>1. Running("deadLabels") /\ L!Next
  BY DeadLabelsStep DEF StepDeadLabels
<1>2. pass = "deadLabels" /\ LabelsIInv
  BY <1>1 DEF Running, PipelineInv, RunOK, In
<1>3. LabelsIInv'
  BY <1>1, <1>2, NextLabels
<1>4. phase' # "idle"
  BY <1>3 DEF LabelsIInv, LabelsTyped
<1>5. FileOK' /\ CallOK' /\ pass' = "deadLabels"
  BY <1>1, <1>2, <1>4, RunningFacts DEF Passes
<1> QED
  BY <1>3, <1>5 DEF PipelineInv, RunOK, In

LEMMA LeaveDeadLabelsInv == ASSUME PipelineInv, LeaveDeadLabels PROVE PipelineInv'
<1>1. Return("deadLabels", "deadLabels", "code", code) /\ In("deadLabels")
  BY DEF LeaveDeadLabels, Return, In
<1>2. code \in Seq(IRInstruction)
  BY <1>1, DeadLabelsInput DEF PipelineInv, RunOK, LabelsIInv, LabelsTyped
<1> QED
  BY <1>1, <1>2, ReturnCode
-----------------------------------------------------------------------------
(* The file, through every pass *)

LEMMA StutterInv == ASSUME ReuseFirst, PipelineInv, UNCHANGED PipelineVars PROVE PipelineInv'
<1>1. UNCHANGED vars /\ UNCHANGED passVars
  BY DEF PipelineVars
<1>2. \A c : IsCode(c)' <=> IsCode(c)
  BY <1>1 DEF IsCode, vars
<1>3. FileOK'
  BY <1>1, <1>2 DEF PipelineInv, FileOK, vars
<1>4. CallOK'
  BY <1>1 DEF PipelineInv, CallOK, Given, Idle, vars, passVars, scVars, dbVars, dtVars,
              tsVars
<1>5. \A p : In(p)' <=> In(p)
  BY <1>1 DEF In, vars, passVars
<1>6. In("shortCircuit") => (SCP!IInv /\ heap = freed)'
  <2>1. UNCHANGED SCP!vars /\ UNCHANGED <<heap, freed>>
    BY <1>1 DEF SCP!vars, vars, passVars, scVars
  <2> QED
    BY <2>1, SCP!NextIInv DEF PipelineInv, RunOK
<1>7. In("deadBlocks") => (DBP!IInv /\ DBP!FreedIInv /\ DBP!Distinct)'
  <2>1. UNCHANGED DBP!vars
    BY <1>1 DEF DBP!vars, passVars, dbVars
  <2> QED
    BY <2>1, DBP!NextIInv, DBP!NextFreedIInv, DBP!NextDistinct DEF PipelineInv, RunOK
<1>8. In("deadTemps") => (DTP!IInv /\ DTP!FreedIInv /\ DTP!Kept)'
  <2>1. UNCHANGED DTP!vars
    BY <1>1 DEF DTP!vars, passVars, dtVars
  <2> QED
    BY <2>1, DTP!StepIInv, DTP!StepFreedIInv, DTP!StepKept DEF PipelineInv, RunOK
<1>9. In("schedule") => (TSP!IInv /\ TSP!FreedIInv /\ TSP!MadeOnly)'
  <2>1. UNCHANGED TSP!vars
    BY <1>1 DEF TSP!vars, passVars, tsVars
  <2> QED
    BY <2>1, TSP!StepIInv, TSP!StepFreedIInv, TSP!StepMadeOnly DEF PipelineInv, RunOK
<1>10. In("deadLabels") => LabelsIInv'
  <2>1. UNCHANGED L!vars
    BY <1>1 DEF L!vars, passVars
  <2> QED
    BY <2>1, NextLabels DEF PipelineInv, RunOK
<1>11. RunOK'
  BY <1>5, <1>6, <1>7, <1>8, <1>9, <1>10 DEF RunOK
<1> QED
  BY <1>3, <1>4, <1>11 DEF PipelineInv

LEMMA NextPipelineInv ==
  ReuseFirst /\ PipelineInv /\ [PipelineNext]_PipelineVars => PipelineInv'
<1> SUFFICES ASSUME ReuseFirst, PipelineInv, [PipelineNext]_PipelineVars PROVE PipelineInv'
  OBVIOUS
<1>1. CASE TranslateNext
  BY <1>1, TranslateInv
<1>2. CASE StartPass
  BY <1>2, StartPassInv
<1>3. CASE StopInside
  BY <1>3, StopInsideInv
<1>4. CASE EnterShortCircuit
  BY <1>4, EnterShortCircuitInv
<1>5. CASE StepShortCircuit
  BY <1>5, StepShortCircuitInv
<1>6. CASE LeaveShortCircuit
  BY <1>6, LeaveShortCircuitInv
<1>7. CASE EnterDeadBlocks
  BY <1>7, EnterDeadBlocksInv
<1>8. CASE StepDeadBlocks
  BY <1>8, StepDeadBlocksInv
<1>9. CASE LeaveDeadBlocks
  BY <1>9, LeaveDeadBlocksInv
<1>10. CASE EnterDeadTemps
  BY <1>10, EnterDeadTempsInv
<1>11. CASE StepDeadTemps
  BY <1>11, StepDeadTempsInv
<1>12. CASE LeaveDeadTemps
  BY <1>12, LeaveDeadTempsInv
<1>13. CASE EnterSchedule
  BY <1>13, EnterScheduleInv
<1>14. CASE StepSchedule
  BY <1>14, StepScheduleInv
<1>15. CASE LeaveSchedule
  BY <1>15, LeaveScheduleInv
<1>16. CASE EnterDeadLabels
  BY <1>16, EnterDeadLabelsInv
<1>17. CASE StepDeadLabels
  BY <1>17, StepDeadLabelsInv
<1>18. CASE LeaveDeadLabels
  BY <1>18, LeaveDeadLabelsInv
<1>19. CASE UNCHANGED PipelineVars
  BY <1>19, StutterInv
<1> QED
  BY <1>1, <1>2, <1>3, <1>4, <1>5, <1>6, <1>7, <1>8, <1>9, <1>10, <1>11, <1>12, <1>13,
     <1>14, <1>15, <1>16, <1>17, <1>18, <1>19 DEF PipelineNext

LEMMA PipelineInductive == ReuseFirst => (PipelineSpec => []PipelineInv)
<1> SUFFICES ASSUME ReuseFirst PROVE PipelineSpec => []PipelineInv
  OBVIOUS
<1>1. PipelineInit => PipelineInv
  BY InitPipelineInv
<1>2. PipelineInv /\ [PipelineNext]_PipelineVars => PipelineInv'
  BY NextPipelineInv
<1> QED
  BY <1>1, <1>2, PTL DEF PipelineSpec

LEMMA PipelineInvTypeOK == PipelineInv => TypeOK
<1> SUFFICES ASSUME PipelineInv PROVE TypeOK
  OBVIOUS
<1>1. /\ pass \in {"translate", "shortCircuit", "deadBlocks", "deadTemps", "schedule",
                   "deadLabels", "done", "stopped"}
      /\ next \in 1 .. Len(file) + 1
  BY DEF PipelineInv, FileOK, Passes
<1>2. In("shortCircuit") => SC!TypeOK
  BY SCP!IInvTypeOK, ShortCircuitType DEF PipelineInv, RunOK
<1>3. In("deadBlocks") => DB!TypeOK
  BY DBP!IInvTypeOK, DeadBlocksProperties DEF PipelineInv, RunOK
<1>4. In("deadTemps") => DT!TypeOK
  BY DTP!IInvTypeOK, DeadTempsProperties DEF PipelineInv, RunOK
<1>5. In("schedule") => TS!TypeOK
  BY TSP!IInvTypeOK, ScheduleProperties DEF PipelineInv, RunOK
<1>6. In("deadLabels") => DL!TypeOK
  BY LabelsTypeOK, DeadLabelsProperties DEF PipelineInv, RunOK
<1> QED
  BY <1>1, <1>2, <1>3, <1>4, <1>5, <1>6 DEF TypeOK

\* The file's state and that of the running pass keep their types, and no pass is
\* called for a function the file does not have.
THEOREM TypeCorrect == ReuseFirst => (PipelineSpec => []TypeOK)
  BY PipelineInductive, PipelineInvTypeOK, PTL

LEMMA PipelineInvInputsOK == PipelineInv => InputsOK
<1> SUFFICES ASSUME PipelineInv PROVE InputsOK
  OBVIOUS
<1>1. In("shortCircuit") => SC!IsInput(in.blocks)
  BY ShortCircuitInput DEF PipelineInv, RunOK, SCP!IInv, SCP!Fixed
<1>2. In("deadBlocks") => DB!IsInput(in)
  BY DeadBlocksInput DEF PipelineInv, RunOK, DBP!IInv, DBP!Typed
<1>3. In("deadTemps") => DT!IsInput(in)
  BY DeadTempsInput DEF PipelineInv, RunOK, DTP!IInv, DTP!Typed
<1>4. In("schedule") => TS!IsInput(in)
  BY ScheduleInput DEF PipelineInv, RunOK, TSP!IInv, TSP!Typed
<1>5. In("deadLabels") => DL!IsInput(in)
  BY DeadLabelsInput DEF PipelineInv, RunOK, LabelsIInv, LabelsTyped
<1> QED
  BY <1>1, <1>2, <1>3, <1>4, <1>5 DEF InputsOK

\* In every file of functions that are as translation leaves them, each pass is
\* given what it takes for granted, whatever the passes before it did to the
\* function and to the others.  What the theorems of the passes assume is so.
THEOREM PassesGivenInputs == ReuseFirst => (PipelineSpec => []InputsOK)
  BY PipelineInductive, PipelineInvInputsOK, PTL

\* However many rounds and functions: no pass uses an operand it or a pass before
\* it freed, unless the function it is given has two instructions that hold the
\* same operand, or one that translation freed.
THEOREM FreedOnlyIfShared == ReuseFirst => (PipelineSpec => []UndefinedOnlyIfShared)
<1>1. PipelineInv => UndefinedOnlyIfShared
  BY DeadBlocksProperties, DeadTempsProperties, ScheduleProperties
  DEF PipelineInv, RunOK, UndefinedOnlyIfShared, DBP!FreedIInv, DTP!FreedIInv,
      TSP!FreedIInv
<1> QED
  BY <1>1, PipelineInductive, PTL

\* In every function of every file dead temp elimination leaves no read of a
\* temp whose definition it removed, and no definition that nothing reads.
THEOREM RemovedNeverReadInFile == ReuseFirst => (PipelineSpec => []RemovedNeverRead)
<1>1. PipelineInv => RemovedNeverRead
  BY DTP!IInvRemovedNeverRead, DTP!IInvSaturated, DeadTempsProperties
  DEF PipelineInv, RunOK, RemovedNeverRead
<1> QED
  BY <1>1, PipelineInductive, PTL

\* In every function of every file each label that is jumped to is emitted once,
\* false targets follow their jumps, and dead label elimination removes exactly
\* the labels that nothing names.
THEOREM TargetsKeptInFile == ReuseFirst => (PipelineSpec => []TargetsKept)
<1>1. ASSUME PipelineInv PROVE TargetsKept
  <2>1. In("schedule") => TS!EmittedOnce /\ TS!TargetsScheduled /\ TS!FalseTargetFollows
    BY <1>1, TSP!IInvEmittedOnce, TSP!IInvTargetsScheduled, TSP!IInvFalseTargetFollows,
       ScheduleProperties DEF PipelineInv, RunOK
  <2>2. In("deadLabels") => DL!TargetsKept /\ DL!OthersRemoved
    BY <1>1, LabelsTargetsKept, LabelsOthersRemoved, DeadLabelsProperties
    DEF PipelineInv, RunOK
  <2> QED
    BY <2>1, <2>2 DEF TargetsKept
<1> QED
  BY <1>1, PipelineInductive, PTL
-----------------------------------------------------------------------------
(* Jump targets, from translation to the last pass *)

\* What dead label elimination leaves was all there before, each instruction in a
\* place of its own.
LabelsLeft ==
  \E was \in [1 .. Len(code) -> 1 .. Len(in.code)] :
    /\ \A j, k \in 1 .. Len(code) : was[j] = was[k] => j = k
    /\ \A k \in 1 .. Len(code) : code[k] = in.code[was[k]]

TargetsInv ==
  /\ TargetsExist
  /\ pass = "translate" => \A k \in DOMAIN frags : frags[k].code = << >>
  /\ In("deadLabels") => LabelsLeft

LEMMA StartLabelsLeft == L!Start => LabelsLeft
<1> SUFFICES ASSUME L!Start PROVE LabelsLeft
  OBVIOUS
<1>1. code = in.code
  BY DEF L!Start
<1> DEFINE was == [k \in 1 .. Len(code) |-> k]
<1>2. was \in [1 .. Len(code) -> 1 .. Len(in.code)]
  BY <1>1
<1>3. \A k \in 1 .. Len(code) : was[k] = k
  OBVIOUS
<1> HIDE DEF was
<1> QED
  BY <1>1, <1>2, <1>3 DEF LabelsLeft

LEMMA NextLabelsLeft == LabelsIInv /\ LabelsLeft /\ [L!Next]_(L!vars) => LabelsLeft'
<1> SUFFICES ASSUME LabelsIInv, LabelsLeft, [L!Next]_(L!vars) PROVE LabelsLeft'
  OBVIOUS
<1>1. CASE L!Unlink
  <2>1. /\ in' = in /\ curr \in 1 .. Len(code) /\ Len(code) \in Nat
        /\ code' = SubSeq(code, 1, curr - 1) \o SubSeq(code, curr + 1, Len(code))
        /\ code \in Seq(L!IRInstruction)
    BY <1>1 DEF LabelsIInv, LabelsTyped, L!Unlink
  <2>2. /\ Len(code') = Len(code) - 1
        /\ \A k \in 1 .. Len(code') : code'[k] = IF k < curr THEN code[k] ELSE code[k + 1]
    BY <2>1, DBP!Unlinked
  <2>3. PICK was \in [1 .. Len(code) -> 1 .. Len(in.code)] :
          /\ \A j, k \in 1 .. Len(code) : was[j] = was[k] => j = k
          /\ \A k \in 1 .. Len(code) : code[k] = in.code[was[k]]
    BY DEF LabelsLeft
  <2> DEFINE n == Len(code) - 1
             at == [k \in 1 .. n |-> IF k < curr THEN k ELSE k + 1]
             now == [k \in 1 .. n |-> was[at[k]]]
  <2>4. /\ \A k \in 1 .. n : at[k] \in 1 .. Len(code)
        /\ \A j, k \in 1 .. n : at[j] = at[k] => j = k
    BY <2>1
  <2>5. Len(code') = n /\ \A k \in 1 .. n : code'[k] = code[at[k]]
    BY <2>2
  <2> HIDE DEF n, at
  <2>6. /\ now \in [1 .. n -> 1 .. Len(in.code)]
        /\ \A k \in 1 .. n : now[k] = was[at[k]]
    BY <2>3, <2>4
  <2> HIDE DEF now
  <2>7. ASSUME NEW j \in 1 .. n, NEW k \in 1 .. n, now[j] = now[k]
        PROVE  j = k
    <3>1. at[j] \in 1 .. Len(code) /\ at[k] \in 1 .. Len(code) /\ was[at[j]] = was[at[k]]
      BY <2>4, <2>6, <2>7
    <3>2. at[j] = at[k]
      BY <2>3, <3>1
    <3> QED
      BY <2>4, <3>2
  <2>8. ASSUME NEW k \in 1 .. n PROVE code'[k] = in'.code[now[k]]
    <3>1. at[k] \in 1 .. Len(code) /\ code'[k] = code[at[k]] /\ now[k] = was[at[k]]
      BY <2>4, <2>5, <2>6
    <3>2. code[at[k]] = in.code[was[at[k]]]
      BY <2>3, <3>1
    <3>3. in'.code = in.code
      BY <2>1
    <3> QED
      BY ONLY <3>1, <3>2, <3>3
  <2>9. now \in [1 .. Len(code') -> 1 .. Len(in'.code)]
    BY <2>1, <2>5, <2>6
  <2>10. \A j, k \in 1 .. Len(code') : now[j] = now[k] => j = k
    BY <2>5, <2>7
  <2>11. \A k \in 1 .. Len(code') : code'[k] = in'.code[now[k]]
    BY <2>5, <2>8
  <2> QED
    BY ONLY <2>9, <2>10, <2>11 DEF LabelsLeft
<1>2. CASE UNCHANGED <<in, code>>
  BY <1>2 DEF LabelsLeft
<1> QED
  BY <1>1, <1>2 DEF L!Next, L!Mark, L!StartUnlinking, L!Keep, L!Finish, L!vars

\* Only jumps lead anywhere.
LEMMA NoTargets ==
  ASSUME NEW i, i.op \notin Jumps, NEW tbls
  PROVE  MayJumpTo(i, tbls) = {}
<1>1. i.op \notin {"JUMP", "JUMPTABLE"} \cup TwoTarget \cup OneTarget
  BY DEF Jumps
<1>2. JumpTargets(i, tbls) = << >>
  BY <1>1 DEF JumpTargets
<1> QED
  BY <1>1, <1>2 DEF MayJumpTo, ElementsOf

\* The end of a block leads where its successors are.
LEMMA BlockTargets ==
  ASSUME NEW i, IsTerminator(i), NEW tbls
  PROVE  /\ i.op \notin OneTarget
         /\ MayJumpTo(i, tbls) = ElementsOf(JumpTargets(i, tbls))
         /\ i.op \in TwoTarget =>
              MayJumpTo(i, tbls) = {i.args[1].name, i.args[2].name}
<1>1. i.op \notin OneTarget
  BY DEF IsTerminator, OneTarget, FallthroughOp, TwoTarget, CJumps, BJumps
<1>2. MayJumpTo(i, tbls) = ElementsOf(JumpTargets(i, tbls))
  BY <1>1 DEF MayJumpTo
<1>3. ASSUME i.op \in TwoTarget
      PROVE  ElementsOf(JumpTargets(i, tbls)) = {i.args[1].name, i.args[2].name}
  <2> DEFINE s == <<i.args[1].name, i.args[2].name>>
  <2>1. JumpTargets(i, tbls) = s
    BY <1>3 DEF JumpTargets, TwoTarget, CJumps, BJumps
  <2>2. DOMAIN s = {1, 2} /\ s[1] = i.args[1].name /\ s[2] = i.args[2].name
    OBVIOUS
  <2> QED
    BY <2>1, <2>2 DEF ElementsOf
<1> QED
  BY <1>1, <1>2, <1>3

\* A copy of a jump leads where the jump does.
LEMMA CopyTargets ==
  ASSUME NEW i, IsTerminator(i), i \in IRInstruction, NEW c \in SCP!OrCopy(i), NEW tbls
  PROVE  MayJumpTo(c, tbls) = MayJumpTo(i, tbls)
<1>1. CASE c = SCP!Copied(i)
  <2>1. /\ c.op = i.op
        /\ \A a \in DOMAIN i.args : c.args[a].name = i.args[a].name
    BY <1>1 DEF SCP!Copied, SCP!Copy, SCP!Operand
  <2>2. i.args \in Seq(IROperand) /\ DOMAIN i.args = 1 .. Len(i.args) /\ Len(i.args) \in Nat
    BY DEF IRInstruction
  <2>3. /\ i.op = "JUMP" => Len(i.args) = 1
        /\ i.op = "JUMPTABLE" => Len(i.args) = 2
        /\ i.op \in TwoTarget => Len(i.args) \in {3, 4}
    BY DEF IsTerminator, TwoTarget, CJumps, BJumps
  <2>4. JumpTargets(c, tbls) = JumpTargets(i, tbls)
    BY <2>1, <2>2, <2>3 DEF JumpTargets
  <2>5. i.op \notin OneTarget
    BY BlockTargets
  <2> QED
    BY <2>1, <2>4, <2>5 DEF MayJumpTo
<1> QED
  BY <1>1 DEF SCP!OrCopy

\* One function of a file is replaced by one that has no label it had not, and
\* has those the file's tables list.
LEMMA FileReplaced ==
  ASSUME NEW fs, NEW old, NEW new, NEW tbls, NEW n, NEW x \in DOMAIN old,
         DOMAIN new = DOMAIN old, \A k \in DOMAIN old : k # x => new[k] = old[k],
         FileResolved(fs, old, tbls, n), IsBlockList(new[x]),
         LabelsOf(new[x]) \subseteq LabelsOf(old[x]),
         \A t \in DOMAIN tbls :
           ElementsOf(tbls[t]) \cap LabelsOf(old[x]) \subseteq LabelsOf(new[x]),
         BlocksResolved(old[x], tbls) => BlocksResolved(new[x], tbls)
  PROVE  FileResolved(fs, new, tbls, n)
<1>1. LabelsUnique(old, tbls, n) /\ TablesResolved(old, tbls)
  BY DEF FileResolved
<1>2. LabelsUnique(new, tbls, n)
  <2>1. ASSUME NEW k1 \in DOMAIN new, NEW k2 \in DOMAIN new,
               NEW i \in DOMAIN new[k1], NEW j \in DOMAIN new[k2],
               new[k1][i].label = new[k2][j].label
        PROVE  k1 = k2 /\ i = j
    <3>1. \A k \in DOMAIN new : \A a \in DOMAIN new[k] :
            \E b \in DOMAIN old[k] : old[k][b].label = new[k][a].label
      BY DEF LabelsOf
    <3>2. PICK a \in DOMAIN old[k1] : old[k1][a].label = new[k1][i].label
      BY <3>1
    <3>3. PICK b \in DOMAIN old[k2] : old[k2][b].label = new[k2][j].label
      BY <3>1
    <3>4. k1 = k2
      BY <1>1, <2>1, <3>2, <3>3 DEF LabelsUnique
    <3>5. CASE k1 = x
      BY <2>1, <3>4, <3>5 DEF IsBlockList
    <3>6. CASE k1 # x
      BY <1>1, <2>1, <3>4, <3>6 DEF LabelsUnique
    <3> QED
      BY <3>4, <3>5, <3>6
  <2>2. \A k \in DOMAIN new : LabelsOf(new[k]) \subseteq LabelsOf(old[k])
    OBVIOUS
  <2> QED
    BY <1>1, <2>1, <2>2 DEF LabelsUnique
<1>3. TablesResolved(new, tbls)
  <2> SUFFICES ASSUME NEW t \in DOMAIN tbls, NEW l \in ElementsOf(tbls[t])
               PROVE  \E k \in DOMAIN new : l \in LabelsOf(new[k])
    BY DEF TablesResolved
  <2>1. PICK k \in DOMAIN old : l \in LabelsOf(old[k])
    BY <1>1 DEF TablesResolved
  <2> QED
    BY <2>1
<1>4. \A k \in DOMAIN new : fs[k] \notin Deviating => BlocksResolved(new[k], tbls)
  BY DEF FileResolved
<1> QED
  BY <1>2, <1>3, <1>4 DEF FileResolved

\* A pass that leaves a function's labels where control needs them is done with it.
LEMMA BlocksReplaced ==
  ASSUME PipelineInv, TargetsInv, NEW p \in Passes,
         NEW after \in BeforeSchedule \ {"translate"},
         NEW made, Return(p, after, "blocks", made), IsFunctionOf(made, tables, nextId),
         LabelsOf(made) \subseteq LabelsOf(in.blocks),
         \A t \in DOMAIN tables :
           ElementsOf(tables[t]) \cap LabelsOf(in.blocks) \subseteq LabelsOf(made),
         BlocksResolved(in.blocks, tables) => BlocksResolved(made, tables)
  PROVE  TargetsInv'
<1>1. /\ FileOK /\ In(p) /\ pass' = after /\ phase' = "idle"
      /\ frags' = [frags EXCEPT ![next]["blocks"] = made]
      /\ UNCHANGED <<file, tables, nextId>>
  BY DEF PipelineInv, Return, Reset, In
<1>2. next \in 1 .. Len(frags) /\ in.blocks = frags[next].blocks
  BY <1>1, GivenFacts
<1>3. made \in Seq(IRBlock) /\ IsBlockList(made)
  BY DEF IsFunctionOf, IsBlockList
<1>4. /\ frags' \in Seq(Fragment) /\ Len(frags') = Len(frags)
      /\ \A j \in 1 .. Len(frags) : j # next => frags'[j] = frags[j]
      /\ frags'[next].blocks = made /\ frags'[next].code = frags[next].code
  BY <1>1, <1>2, <1>3, WrittenBack
<1>5. DOMAIN frags = 1 .. Len(frags) /\ DOMAIN frags' = 1 .. Len(frags)
  BY <1>1, <1>4, LengthFacts
<1> DEFINE old == [k \in DOMAIN frags |-> frags[k].blocks]
           new == [k \in DOMAIN frags |-> frags'[k].blocks]
<1>6. /\ DOMAIN old = DOMAIN frags /\ DOMAIN new = DOMAIN old /\ next \in DOMAIN old
      /\ \A k \in DOMAIN old : k # next => new[k] = old[k]
      /\ old[next] = in.blocks /\ new[next] = made
  BY <1>2, <1>4, <1>5
<1>7. FileResolved(file, old, tables, nextId)
  BY DEF TargetsInv, TargetsExist
<1> HIDE DEF old, new
<1>8. FileResolved(file, new, tables, nextId)
  BY <1>3, <1>6, <1>7, FileReplaced
<1>9. FileResolved(file, [k \in DOMAIN frags |-> frags[k].blocks], tables, nextId)'
  BY <1>1, <1>5, <1>8 DEF new
<1>10. \A k \in DOMAIN frags : frags'[k].code = frags[k].code
  BY <1>4, <1>5
<1>11. (\A k \in DOMAIN frags : file[k] \notin Deviating => CodeResolved(frags[k].code, tables))'
  BY <1>1, <1>5, <1>10 DEF TargetsInv, TargetsExist
<1> QED
  BY <1>1, <1>9, <1>11 DEF TargetsInv, TargetsExist, In

LEMMA CodeReplaced ==
  ASSUME PipelineInv, TargetsInv, NEW p \in {"schedule", "deadLabels"}, NEW made,
         Return(p, p, "code", made), made \in Seq(IRInstruction),
         file[next] \notin Deviating => CodeResolved(made, tables)
  PROVE  TargetsInv'
<1>1. /\ FileOK /\ In(p) /\ pass' = p /\ phase' = "idle"
      /\ frags' = [frags EXCEPT ![next]["code"] = made]
      /\ UNCHANGED <<file, tables, nextId>>
  BY DEF PipelineInv, Return, Reset, In
<1>2. next \in 1 .. Len(frags)
  BY <1>1, GivenFacts DEF Passes
<1>3. /\ frags' \in Seq(Fragment) /\ Len(frags') = Len(frags)
      /\ \A j \in 1 .. Len(frags) : j # next => frags'[j] = frags[j]
      /\ frags'[next].code = made /\ frags'[next].blocks = frags[next].blocks
  BY <1>1, <1>2, WrittenBack
<1>4. DOMAIN frags = 1 .. Len(frags) /\ DOMAIN frags' = 1 .. Len(frags)
  BY <1>1, <1>3, LengthFacts
<1>5. [k \in DOMAIN frags |-> frags'[k].blocks] = [k \in DOMAIN frags |-> frags[k].blocks]
  BY <1>3, <1>4
<1>6. FileResolved(file, [k \in DOMAIN frags |-> frags[k].blocks], tables, nextId)'
  BY <1>1, <1>4, <1>5 DEF TargetsInv, TargetsExist
<1>7. (\A k \in DOMAIN frags : file[k] \notin Deviating => CodeResolved(frags[k].code, tables))'
  BY <1>1, <1>3, <1>4 DEF TargetsInv, TargetsExist
<1> QED
  BY <1>1, <1>6, <1>7 DEF TargetsInv, TargetsExist, In

LEMMA LeaveShortCircuitTargets ==
  ASSUME PipelineInv, TargetsInv, LeaveShortCircuit PROVE TargetsInv'
<1>1. Return("shortCircuit", "deadBlocks", "blocks", blocks) /\ In("shortCircuit")
  BY DEF LeaveShortCircuit, Return, In
<1>2. SCP!IInv /\ IsFunctionOf(in.blocks, tables, nextId)
  BY <1>1, GivenFacts DEF PipelineInv, RunOK, Passes
<1>3. /\ IsFunctionOf(blocks, tables, nextId)
      /\ LabelsOf(blocks) = LabelsOf(in.blocks)
      /\ \A i \in DOMAIN blocks : \E c \in DOMAIN in.blocks :
           LastOf(blocks[i]) \in SCP!OrCopy(LastOf(in.blocks[c]))
  BY <1>2, ShortCircuitLeft
<1>4. ASSUME BlocksResolved(in.blocks, tables), NEW i \in DOMAIN blocks
      PROVE  MayJumpTo(LastOf(blocks[i]), tables) \subseteq LabelsOf(blocks)
  <2>1. PICK c \in DOMAIN in.blocks : LastOf(blocks[i]) \in SCP!OrCopy(LastOf(in.blocks[c]))
    BY <1>3
  <2>2. LastOf(in.blocks[c]) \in IRInstruction /\ IsTerminator(LastOf(in.blocks[c]))
    BY <1>2, LastOfFile DEF LastOf
  <2>3. MayJumpTo(LastOf(blocks[i]), tables) = MayJumpTo(LastOf(in.blocks[c]), tables)
    BY <2>1, <2>2, CopyTargets
  <2> QED
    BY <1>3, <1>4, <2>3 DEF BlocksResolved
<1>5. BlocksResolved(in.blocks, tables) => BlocksResolved(blocks, tables)
  BY <1>4 DEF BlocksResolved
<1> QED
  BY <1>1, <1>3, <1>5, BlocksReplaced DEF Passes, BeforeSchedule

\* What is kept leads to what is kept, and tables list what is kept.
LEMMA DeadBlocksLeft ==
  ASSUME DBP!IInv, phase = "done", in.tables = tables,
         \A k \in DOMAIN blocks : IsTerminator(LastOf(blocks[k]))
  PROVE  /\ BlocksResolved(blocks, tables)
         /\ \A t \in DOMAIN tables :
              ElementsOf(tables[t]) \cap LabelsOf(in.blocks) \subseteq LabelsOf(blocks)
<1>1. \A b \in DBP!ElementsOf(blocks) : DBP!TargetsOf(b) \subseteq DBP!LabelsOf(blocks)
  BY DBP!IInvKeptClosed DEF DBP!KeptClosed
<1>2. DBP!DataLabels(tables) \cap DBP!LabelsOf(in.blocks) \subseteq DBP!LabelsOf(blocks)
  BY DBP!IInvDataKept DEF DBP!DataKept
<1>3. \A bs : DBP!LabelsOf(bs) = LabelsOf(bs) /\ DBP!ElementsOf(bs) = ElementsOf(bs)
  BY DEF DBP!LabelsOf, LabelsOf, DBP!ElementsOf, ElementsOf
<1>4. \A b : DBP!TargetsOf(b) = ElementsOf(JumpTargets(LastOf(b), tables))
  BY DEF DBP!TargetsOf, DBP!ElementsOf, ElementsOf, DBP!JumpTargets, JumpTargets,
         DBP!LastOf, LastOf, DBP!TwoTarget, TwoTarget, DBP!CJumps, CJumps, DBP!BJumps,
         BJumps
<1>5. ASSUME NEW k \in DOMAIN blocks
      PROVE  MayJumpTo(LastOf(blocks[k]), tables) \subseteq LabelsOf(blocks)
  <2>1. blocks[k] \in ElementsOf(blocks)
    BY DEF ElementsOf
  <2>2. MayJumpTo(LastOf(blocks[k]), tables) = ElementsOf(JumpTargets(LastOf(blocks[k]), tables))
    BY BlockTargets
  <2> QED
    BY <1>1, <1>3, <1>4, <2>1, <2>2
<1>6. \A t \in DOMAIN tables : ElementsOf(tables[t]) \subseteq DBP!DataLabels(tables)
  BY <1>3 DEF DBP!DataLabels
<1> QED
  BY <1>2, <1>3, <1>5, <1>6 DEF BlocksResolved

LEMMA LeaveDeadBlocksTargets ==
  ASSUME PipelineInv, TargetsInv, LeaveDeadBlocks PROVE TargetsInv'
<1>1. /\ Return("deadBlocks", "deadTemps", "blocks", blocks) /\ In("deadBlocks")
      /\ phase = "done"
  BY DEF LeaveDeadBlocks, Return, In
<1>2. /\ DBP!IInv /\ DBP!Distinct /\ in.tables = tables
      /\ IsFunctionOf(in.blocks, tables, nextId)
  BY <1>1, GivenFacts DEF PipelineInv, RunOK, Passes
<1>3. /\ IsBlockList(blocks)
      /\ \A k \in DOMAIN blocks : \E j \in DOMAIN in.blocks : blocks[k] = in.blocks[j]
  BY <1>1, <1>2, DBP!LeftFacts, DeadBlocksInput
<1>4. IsFunctionOf(blocks, tables, nextId)
  BY <1>2, <1>3 DEF IsFunctionOf
<1>5. LabelsOf(blocks) \subseteq LabelsOf(in.blocks)
  BY <1>3 DEF LabelsOf
<1>6. \A k \in DOMAIN blocks : IsTerminator(LastOf(blocks[k]))
  BY <1>3 DEF IsBlockList
<1>7. /\ BlocksResolved(blocks, tables)
      /\ \A t \in DOMAIN tables :
           ElementsOf(tables[t]) \cap LabelsOf(in.blocks) \subseteq LabelsOf(blocks)
  BY <1>1, <1>2, <1>6, DeadBlocksLeft
<1> QED
  BY <1>1, <1>4, <1>5, <1>7, BlocksReplaced DEF Passes, BeforeSchedule

LEMMA LeaveDeadTempsTargets ==
  ASSUME PipelineInv, TargetsInv, LeaveDeadTemps PROVE TargetsInv'
<1>1. Return("deadTemps", "shortCircuit", "blocks", blocks) /\ In("deadTemps")
  BY DEF LeaveDeadTemps, Return, In
<1>2. DTP!IInv /\ DTP!Kept /\ IsFunctionOf(in.blocks, tables, nextId)
  BY <1>1, GivenFacts DEF PipelineInv, RunOK, Passes
<1>3. /\ IsFunctionOf(blocks, tables, nextId)
      /\ LabelsOf(blocks) = LabelsOf(in.blocks) /\ DOMAIN blocks = DOMAIN in.blocks
      /\ \A b \in DOMAIN blocks : LastOf(blocks[b]) = LastOf(in.blocks[b])
  BY <1>2, DeadTempsLeft
<1>4. BlocksResolved(in.blocks, tables) => BlocksResolved(blocks, tables)
  BY <1>3 DEF BlocksResolved
<1> QED
  BY <1>1, <1>3, <1>4, BlocksReplaced DEF Passes, BeforeSchedule

\* The operators of scheduling are those of the file.
LEMMA ScheduleOperators ==
  /\ \A b : TSP!LastOf(b) = LastOf(b)
  /\ \A b : TSP!TargetsOf(b) = ElementsOf(JumpTargets(LastOf(b), in.tables))
  /\ \A bs : TSP!LabelsOf(bs) = LabelsOf(bs)
  /\ TSP!TwoTarget = TwoTarget /\ TSP!OneTarget = OneTarget
  /\ \A i : TSP!IsTerminator(i) = IsTerminator(i)
  /\ TSP!IRInstruction = IRInstruction
  BY DEF TSP!LastOf, LastOf, TSP!TargetsOf, TSP!ElementsOf, ElementsOf,
         TSP!JumpTargets, JumpTargets, TSP!LabelsOf, LabelsOf, TSP!TwoTarget,
         TwoTarget, TSP!CJumps, CJumps, TSP!BJumps, BJumps, TSP!OneTarget, OneTarget,
         TSP!FallthroughOp, FallthroughOp, TSP!IsTerminator, IsTerminator,
         TSP!IRInstruction, IRInstruction, TSP!IROperator, IROperator, TSP!IROperand,
         IROperand, TSP!Binary, Binary, TSP!Unary, Unary

\* An instruction of the schedule leads where a block that was scheduled leads;
\* if it is a label, it is nothing else.
LEMMA MadeTargets ==
  ASSUME TSP!IsInput(in), in.tables = tables, NEW n, IsFunctionOf(in.blocks, tables, n),
         NEW i, TSP!Made(i)
  PROVE  /\ \A l \in MayJumpTo(i, tables) : \E b \in TSP!Original :
              b.label \in TSP!Emitted /\ l \in TSP!TargetsOf(b)
         /\ i.op = "LABEL" => i = TSP!LABEL(i.args[1].name)
<1>1. PICK b \in TSP!Original :
        /\ b.label \in TSP!Emitted
        /\ \/ i = TSP!LABEL(b.label)
           \/ \E k \in 1 .. Len(b.instructions) :
                /\ i = b.instructions[k]
                /\ k = Len(b.instructions) => TSP!LastOf(b).op \notin TwoTarget
           \/ /\ TSP!LastOf(b).op \in TwoTarget
              /\ i.op \in {"JUMP"} \cup OneTarget
              /\ i.args[1].name \in {TSP!LastOf(b).args[1].name, TSP!LastOf(b).args[2].name}
  BY TSP!MadeFacts, ScheduleOperators
<1>2. PICK j \in DOMAIN in.blocks : b = in.blocks[j]
  BY DEF TSP!Original, TSP!ElementsOf
<1>3. IsTerminator(LastOf(b)) /\ b.instructions \in Seq(IRInstruction)
  BY <1>2, LastOfFile
<1>4. MayJumpTo(LastOf(b), tables) = TSP!TargetsOf(b)
  BY <1>3, BlockTargets, ScheduleOperators
<1>5. CASE i = TSP!LABEL(b.label)
  <2>1. i.op = "LABEL" /\ i.args[1].name = b.label
    BY <1>5 DEF TSP!LABEL, TSP!Local, TSP!Operand
  <2>2. i.op \notin Jumps
    BY <2>1 DEF Jumps, TwoTarget, CJumps, BJumps, OneTarget, FallthroughOp
  <2> QED
    BY <1>5, <2>1, <2>2, NoTargets
<1>6. ASSUME NEW k \in 1 .. Len(b.instructions), i = b.instructions[k]
      PROVE  MayJumpTo(i, tables) \subseteq TSP!TargetsOf(b) /\ i.op # "LABEL"
  <2>1. IsOfFile(i, tables, n) /\ (i.op \in Jumps => k = Len(b.instructions))
    BY <1>2, <1>3, <1>6 DEF IsFunctionOf
  <2>2. CASE i.op \in Jumps
    <3>1. i = LastOf(b)
      BY <1>6, <2>1, <2>2 DEF LastOf
    <3> QED
      BY <1>4, <2>1, <3>1 DEF IsOfFile
  <2>3. CASE i.op \notin Jumps
    BY <2>1, <2>3, NoTargets DEF IsOfFile
  <2> QED
    BY <2>2, <2>3
<1>7. ASSUME LastOf(b).op \in TwoTarget, i.op \in {"JUMP"} \cup OneTarget,
             i.args[1].name \in {LastOf(b).args[1].name, LastOf(b).args[2].name}
      PROVE  MayJumpTo(i, tables) \subseteq TSP!TargetsOf(b) /\ i.op # "LABEL"
  <2>1. TSP!TargetsOf(b) = {LastOf(b).args[1].name, LastOf(b).args[2].name}
    BY <1>3, <1>4, <1>7, BlockTargets
  <2>2. MayJumpTo(i, tables) = {i.args[1].name}
    <3>1. CASE i.op \in OneTarget
      BY <3>1 DEF MayJumpTo
    <3>2. CASE i.op = "JUMP"
      <4>1. JumpTargets(i, tables) = <<i.args[1].name>>
        BY <3>2 DEF JumpTargets
      <4>2. "JUMP" \notin OneTarget
        BY DEF OneTarget, FallthroughOp, TwoTarget, CJumps, BJumps
      <4> QED
        BY <3>2, <4>1, <4>2 DEF MayJumpTo, ElementsOf
    <3> QED
      BY <1>7, <3>1, <3>2
  <2>3. "LABEL" \notin {"JUMP"} \cup OneTarget
    BY DEF OneTarget, FallthroughOp, TwoTarget, CJumps, BJumps
  <2> QED
    BY <1>7, <2>1, <2>2, <2>3
<1> QED
  BY <1>1, <1>5, <1>6, <1>7, ScheduleOperators

\* What control may jump to stands once in the schedule.
LEMMA ScheduleResolved ==
  ASSUME TSP!IInv, TSP!MadeOnly, phase = "done", in.tables = tables,
         NEW n, IsFunctionOf(in.blocks, tables, n), BlocksResolved(in.blocks, tables)
  PROVE  CodeResolved(out, tables)
<1>1. /\ TSP!IsInput(in) /\ TSP!Typed /\ TSP!Placed /\ TSP!Pending /\ work = << >>
      /\ DOMAIN out = 1 .. Len(out)
  BY DEF TSP!IInv, TSP!Typed, TSP!Pending
<1>2. \A p \in DOMAIN out : TSP!Made(out[p])
  BY <1>1 DEF TSP!MadeOnly
<1>3. \A l : PlacesOf(out, l) = TSP!PositionsOf(l)
  <2>1. \A l : TSP!LABEL(l).op = "LABEL" /\ TSP!LABEL(l).args[1].name = l
    BY DEF TSP!LABEL, TSP!Local, TSP!Operand
  <2>2. \A p \in DOMAIN out : out[p].op = "LABEL" => out[p] = TSP!LABEL(out[p].args[1].name)
    BY <1>1, <1>2, MadeTargets
  <2> QED
    BY <2>1, <2>2 DEF PlacesOf, TSP!PositionsOf
<1> SUFFICES ASSUME NEW p \in DOMAIN out, NEW l \in MayJumpTo(out[p], tables)
             PROVE  \E q \in DOMAIN out : PlacesOf(out, l) = {q}
  BY DEF CodeResolved
<1>4. PICK b \in TSP!Original : b.label \in TSP!Emitted /\ l \in TSP!TargetsOf(b)
  BY <1>1, <1>2, MadeTargets
<1>5. l \in TSP!Labels
  <2>1. PICK j \in DOMAIN in.blocks : b = in.blocks[j]
    BY DEF TSP!Original, TSP!ElementsOf
  <2>2. IsTerminator(LastOf(b))
    BY <2>1, LastOfFile
  <2>3. l \in MayJumpTo(LastOf(b), tables)
    BY <1>4, <2>2, BlockTargets, ScheduleOperators
  <2> QED
    BY <2>1, <2>3, ScheduleOperators DEF BlocksResolved, TSP!Labels
<1>6. l \in TSP!Emitted
  <2>1. TSP!LabelsFor(<< >>) = {}
    BY DEF TSP!LabelsFor, TSP!ElementsOf
  <2> QED
    BY <1>1, <1>4, <1>5, <2>1 DEF TSP!Pending
<1>7. PICK c \in TSP!Original : c.label = l
  BY <1>1, <1>5, TSP!InputFacts
<1>8. PICK q \in 1 .. Len(out) : TSP!EmittedAt(c, q)
  BY <1>1, <1>6, <1>7 DEF TSP!Placed, TSP!Emitted
<1> QED
  BY <1>1, <1>3, <1>7, <1>8 DEF TSP!EmittedAt

LEMMA LeaveScheduleTargets ==
  ASSUME PipelineInv, TargetsInv, LeaveSchedule PROVE TargetsInv'
<1>1. Return("schedule", "schedule", "code", out) /\ In("schedule") /\ phase = "done"
  BY DEF LeaveSchedule, Return, In
<1>2. /\ TSP!IInv /\ TSP!MadeOnly /\ TSP!Typed /\ TSP!IsInput(in)
      /\ IsFunctionOf(in.blocks, tables, nextId) /\ AreTables(tables, nextId)
      /\ in.tables = tables /\ in.blocks = frags[next].blocks
      /\ next \in 1 .. Len(frags)
  BY <1>1, GivenFacts DEF PipelineInv, RunOK, Passes, TSP!IInv, TSP!Typed
<1>3. out \in Seq(IRInstruction)
  <2>1. \A k \in 1 .. Len(out) : out[k] \in IRInstruction
    BY <1>2, MadeOfFile DEF TSP!MadeOnly
  <2>2. out \in Seq(TSP!Emittable)
    BY <1>2 DEF TSP!Typed
  <2> QED
    BY <2>1, <2>2
<1>4. ASSUME file[next] \notin Deviating PROVE CodeResolved(out, tables)
  <2>1. next \in DOMAIN frags
    BY <1>2, LengthFacts DEF PipelineInv
  <2>2. BlocksResolved(in.blocks, tables)
    BY <1>2, <1>4, <2>1 DEF TargetsInv, TargetsExist, FileResolved
  <2> QED
    BY <1>1, <1>2, <2>2, ScheduleResolved
<1> QED
  BY <1>1, <1>3, <1>4, CodeReplaced

\* Dead label elimination removes no label that stands where control may jump.
LEMMA LabelsResolved ==
  ASSUME LabelsIInv, LabelsLeft, in.tables = tables,
         \A k \in DOMAIN in.code : in.code[k].op \notin TwoTarget,
         CodeResolved(in.code, tables)
  PROVE  CodeResolved(code, tables)
<1> SUFFICES ASSUME NEW p \in DOMAIN code, NEW l \in MayJumpTo(code[p], tables)
             PROVE  \E q \in DOMAIN code : PlacesOf(code, l) = {q}
  BY DEF CodeResolved
<1>1. /\ DOMAIN code = 1 .. Len(code) /\ DOMAIN in.code = 1 .. Len(in.code)
      /\ L!IsInput(in)
  BY LabelsInputFacts DEF LabelsIInv, LabelsTyped
<1>2. PICK was \in [1 .. Len(code) -> 1 .. Len(in.code)] :
        /\ \A j, k \in 1 .. Len(code) : was[j] = was[k] => j = k
        /\ \A k \in 1 .. Len(code) : code[k] = in.code[was[k]]
  BY DEF LabelsLeft
<1>3. \A k \in DOMAIN code : was[k] \in DOMAIN in.code /\ code[k] = in.code[was[k]]
  BY <1>1, <1>2
<1>4. PICK place \in DOMAIN in.code : PlacesOf(in.code, l) = {place}
  BY <1>3 DEF CodeResolved
<1>5. l \in L!JumpedTo(in.code[was[p]])
  <2> DEFINE i == in.code[was[p]]
  <2>1. l \in MayJumpTo(i, tables) /\ i.op \notin TwoTarget
    BY <1>3
  <2>2. L!OneTarget = OneTarget
    BY DEF OneTarget, L!OneTarget, FallthroughOp, L!FallthroughOp, TwoTarget,
           L!TwoTarget, CJumps, L!CJumps, BJumps, L!BJumps
  <2>3. "JUMPTABLE" \notin {"JUMP"} \cup OneTarget
    BY DEF OneTarget, FallthroughOp, TwoTarget, CJumps, BJumps
  <2> HIDE DEF i
  <2>4. CASE i.op \in OneTarget
    <3>1. MayJumpTo(i, tables) = {i.args[1].name}
      BY <2>4 DEF MayJumpTo
    <3>2. L!Targets(i, tables) = {i.args[1].name}
      BY <2>2, <2>3, <2>4 DEF L!Targets
    <3> QED
      BY <2>1, <3>1, <3>2 DEF L!JumpedTo, i
  <2>5. CASE i.op = "JUMP"
    <3>1. JumpTargets(i, tables) = <<i.args[1].name>> /\ "JUMP" \notin OneTarget
      BY <2>5 DEF JumpTargets, OneTarget, FallthroughOp, TwoTarget, CJumps, BJumps
    <3>2. MayJumpTo(i, tables) = {i.args[1].name}
      BY <2>5, <3>1 DEF MayJumpTo, ElementsOf
    <3>3. L!Targets(i, tables) = {i.args[1].name}
      BY <2>2, <2>5 DEF L!Targets
    <3> QED
      BY <2>1, <3>2, <3>3 DEF L!JumpedTo, i
  <2>6. CASE i.op = "JUMPTABLE"
    <3>1. JumpTargets(i, tables) = tables[i.args[2].name]
      BY <2>6 DEF JumpTargets
    <3>2. MayJumpTo(i, tables) = ElementsOf(tables[i.args[2].name])
      BY <2>3, <2>6, <3>1 DEF MayJumpTo
    <3>3. L!Targets(i, tables) = ElementsOf(tables[i.args[2].name])
      BY <2>2, <2>3, <2>6 DEF L!Targets, ElementsOf
    <3> QED
      BY <2>1, <3>2, <3>3 DEF L!JumpedTo, i
  <2>7. CASE i.op \notin {"JUMP", "JUMPTABLE"} \cup OneTarget
    BY <2>1, <2>7, NoTargets DEF Jumps
  <2> QED
    BY <2>4, <2>5, <2>6, <2>7
<1>6. l \in L!LabelsIn(in.code) /\ l \in L!JumpedToIn(in.code)
  BY <1>3, <1>4, <1>5 DEF PlacesOf, L!LabelsIn, L!JumpedToIn
<1>7. l \in L!LabelsIn(code)
  BY <1>6, LabelsTargetsKept DEF L!TargetsKept
<1>8. PICK q \in DOMAIN code : code[q].op = "LABEL" /\ code[q].args[1].name = l
  BY <1>7 DEF L!LabelsIn
<1>9. \A k \in PlacesOf(code, l) : k \in DOMAIN code /\ was[k] = place
  BY <1>3, <1>4 DEF PlacesOf
<1>10. \A k \in PlacesOf(code, l) : k = q
  BY <1>1, <1>2, <1>8, <1>9 DEF PlacesOf
<1> QED
  BY <1>8, <1>10 DEF PlacesOf

LEMMA LeaveDeadLabelsTargets ==
  ASSUME PipelineInv, TargetsInv, LeaveDeadLabels PROVE TargetsInv'
<1>1. Return("deadLabels", "deadLabels", "code", code) /\ In("deadLabels")
  BY DEF LeaveDeadLabels, Return, In
<1>2. /\ LabelsIInv /\ LabelsLeft /\ in.tables = tables /\ in.code = frags[next].code
      /\ next \in 1 .. Len(frags) /\ Len(frags) = Len(file)
  BY <1>1, GivenFacts DEF PipelineInv, RunOK, Passes, TargetsInv
<1>3. code \in Seq(IRInstruction)
  BY <1>2, DeadLabelsInput DEF LabelsIInv, LabelsTyped
<1>4. ASSUME file[next] \notin Deviating PROVE CodeResolved(code, tables)
  <2>1. FileOK /\ next \in DOMAIN frags /\ next \in next .. Len(file)
    BY <1>2, LengthFacts DEF PipelineInv
  <2>2. IsCode(in.code)
    BY <1>1, <1>2, <2>1 DEF FileOK, In
  <2>3. CodeResolved(in.code, tables)
    BY <1>2, <1>4, <2>1 DEF TargetsInv, TargetsExist
  <2> QED
    BY <1>2, <2>2, <2>3, LabelsResolved DEF IsCode
<1> QED
  BY <1>1, <1>3, <1>4, CodeReplaced

\* Nothing was scheduled while functions are translated.
LEMMA TranslateTargets ==
  ASSUME TranslationsResolved, PipelineInv, TargetsInv, TranslateNext
  PROVE  TargetsInv'
<1> DEFINE st == Translations[file][next]
           new == [blocks |-> st.blocks, code |-> << >>]
<1>1. /\ FileOK /\ FileOK' /\ pass = "translate" /\ pass' = "translate"
      /\ next <= Len(file) /\ next' = next + 1 /\ file' = file
      /\ frags' = Append(frags, new) /\ tables' = st.tables /\ nextId' = st.nextId
  BY TranslateInv DEF PipelineInv, TranslateNext, Translate, Translated
<1>2. /\ Len(file) \in Nat /\ next \in 1 .. Len(file) /\ Len(frags) = next - 1
      /\ frags \in Seq(Fragment) /\ file \in Files
  BY <1>1, LengthFacts DEF FileOK
<1>3. Len(frags') = next /\ DOMAIN frags' = 1 .. next
  BY <1>1, <1>2
<1>4. \A j \in 1 .. next : frags'[j].blocks = Translations[file][j].blocks
  BY <1>1, <1>3 DEF FileOK
<1>5. [k \in DOMAIN frags' |-> frags'[k].blocks] = [j \in 1 .. next |-> Translations[file][j].blocks]
  BY <1>3, <1>4
<1>6. FileResolved(file, [j \in 1 .. next |-> Translations[file][j].blocks], st.tables, st.nextId)
  BY <1>2 DEF TranslationsResolved
<1>7. FileResolved(file, [k \in DOMAIN frags |-> frags[k].blocks], tables, nextId)'
  BY <1>1, <1>5, <1>6
<1>8. \A k \in DOMAIN frags' : frags'[k].code = << >>
  <2>1. \A k \in 1 .. next - 1 : frags[k].code = << >>
    BY <1>1, <1>2 DEF TargetsInv
  <2>2. \A k \in 1 .. next : frags'[k] = IF k = next THEN new ELSE frags[k]
    BY <1>1, <1>2
  <2>3. new.code = << >>
    OBVIOUS
  <2>4. \A k \in 1 .. next : k = next \/ k \in 1 .. next - 1
    BY <1>2
  <2> HIDE DEF new
  <2> QED
    BY <1>3, <2>1, <2>2, <2>3, <2>4
<1>9. \A tbls : CodeResolved(<< >>, tbls)
  BY DEF CodeResolved
<1> QED
  BY <1>1, <1>7, <1>8, <1>9 DEF TargetsInv, TargetsExist, In

\* Between translation and the end of a pass the file stays as it is.
LEMMA FileKept ==
  ASSUME TargetsInv, UNCHANGED <<file, frags, tables, nextId>>,
         pass' = "translate" => pass = "translate",
         In("deadLabels")' => LabelsLeft'
  PROVE  TargetsInv'
  BY DEF TargetsInv, TargetsExist

LEMMA StepTargets ==
  ASSUME PipelineInv, TargetsInv, NEW p \in Passes, Running(p),
         p = "deadLabels" => LabelsLeft'
  PROVE  TargetsInv'
<1>1. pass = p /\ UNCHANGED <<file, frags, tables, nextId, pass>>
  BY DEF Running, vars
<1> QED
  BY <1>1, FileKept DEF In, Passes

LEMMA EnterTargets ==
  ASSUME PipelineInv, TargetsInv, NEW p \in Passes, NEW first, Enter(p, first),
         p = "deadLabels" => LabelsLeft'
  PROVE  TargetsInv'
<1>1. pass = p /\ UNCHANGED <<file, frags, tables, nextId, pass>>
  BY DEF Enter, vars
<1> QED
  BY <1>1, FileKept DEF In, Passes

LEMMA EnterDeadLabelsTargets ==
  ASSUME PipelineInv, TargetsInv, EnterDeadLabels PROVE TargetsInv'
<1>1. Enter("deadLabels", "mark") /\ seen' = DL!DataLabels(tables)
  BY DEF EnterDeadLabels
<1>2. /\ code' = in'.code /\ in'.tables = tables /\ curr' = 1 /\ phase' = "mark"
  BY <1>1, EnterFacts DEF Passes
<1>3. L!Start'
  <2>1. DL!DataLabels(tables) = L!DataLabels(tables)
    BY DEF DL!DataLabels, L!DataLabels
  <2> QED
    BY <1>1, <1>2, <2>1 DEF L!Start
<1>4. LabelsLeft'
  BY <1>3, StartLabelsLeft, PTL
<1> QED
  BY <1>1, <1>4, EnterTargets DEF Passes

LEMMA StepDeadLabelsTargets ==
  ASSUME PipelineInv, TargetsInv, StepDeadLabels PROVE TargetsInv'
<1>1. Running("deadLabels") /\ L!Next
  BY DeadLabelsStep DEF StepDeadLabels
<1>2. LabelsIInv /\ LabelsLeft
  BY <1>1 DEF Running, PipelineInv, RunOK, TargetsInv, In
<1>3. LabelsLeft'
  BY <1>1, <1>2, NextLabelsLeft
<1> QED
  BY <1>1, <1>3, StepTargets DEF Passes

LEMMA NextTargets ==
  TranslationsResolved /\ PipelineInv /\ TargetsInv /\ [PipelineNext]_PipelineVars
    => TargetsInv'
<1> SUFFICES ASSUME TranslationsResolved, PipelineInv, TargetsInv,
                    [PipelineNext]_PipelineVars
             PROVE  TargetsInv'
  OBVIOUS
<1>1. CASE TranslateNext
  BY <1>1, TranslateTargets
<1>2. CASE StartPass
  <2>1. /\ CallOK /\ UNCHANGED <<file, frags, tables, nextId>> /\ phase' = phase
        /\ pass' = After[pass] /\ pass \in DOMAIN After /\ next > Len(file)
    BY <1>2 DEF StartPass, NextPass, passVars, PipelineInv
  <2>2. pass' # "translate"
    BY <2>1 DEF After
  <2>3. phase = "idle"
    BY <2>1, LengthFacts DEF CallOK, PipelineInv
  <2> QED
    BY <2>1, <2>2, <2>3, FileKept DEF In
<1>3. CASE StopInside
  BY <1>3, FileKept DEF StopInside, Reset, In
<1>4. CASE EnterShortCircuit \/ EnterDeadBlocks \/ EnterDeadTemps \/ EnterSchedule
  BY <1>4, EnterTargets
  DEF EnterShortCircuit, EnterDeadBlocks, EnterDeadTemps, EnterSchedule, Passes
<1>5. CASE StepShortCircuit \/ StepDeadBlocks \/ StepDeadTemps \/ StepSchedule
  BY <1>5, StepTargets
  DEF StepShortCircuit, StepDeadBlocks, StepDeadTemps, StepSchedule, Passes
<1>6. CASE EnterDeadLabels
  BY <1>6, EnterDeadLabelsTargets
<1>7. CASE StepDeadLabels
  BY <1>7, StepDeadLabelsTargets
<1>8. CASE LeaveShortCircuit
  BY <1>8, LeaveShortCircuitTargets
<1>9. CASE LeaveDeadBlocks
  BY <1>9, LeaveDeadBlocksTargets
<1>10. CASE LeaveDeadTemps
  BY <1>10, LeaveDeadTempsTargets
<1>11. CASE LeaveSchedule
  BY <1>11, LeaveScheduleTargets
<1>12. CASE LeaveDeadLabels
  BY <1>12, LeaveDeadLabelsTargets
<1>13. CASE UNCHANGED PipelineVars
  <2>1. UNCHANGED <<file, frags, tables, nextId, pass, phase, in, code>>
    BY <1>13 DEF PipelineVars, vars, passVars
  <2>2. In("deadLabels")' => LabelsLeft'
    BY <2>1 DEF TargetsInv, In, LabelsLeft
  <2> QED
    BY <2>1, <2>2, FileKept
<1> QED
  BY <1>1, <1>2, <1>3, <1>4, <1>5, <1>6, <1>7, <1>8, <1>9, <1>10, <1>11, <1>12, <1>13
  DEF PipelineNext

LEMMA InitTargets == PipelineInit => TargetsInv
<1> SUFFICES ASSUME PipelineInit PROVE TargetsInv
  OBVIOUS
<1>1. frags = << >> /\ tables = << >> /\ phase = "idle"
  BY DEF PipelineInit, Init, Idle
<1>2. DOMAIN frags = {} /\ DOMAIN tables = {}
  BY <1>1
<1>3. FileResolved(file, [k \in DOMAIN frags |-> frags[k].blocks], tables, nextId)
  BY <1>2 DEF FileResolved, LabelsUnique, TablesResolved
<1> QED
  BY <1>1, <1>2, <1>3 DEF TargetsInv, TargetsExist, In

(***************************************************************************)
(* When translation leaves files in which control leads to places of the   *)
(* same function and labels are unique, no pass changes that: between any  *)
(* two of them, and in the code the assembler is given, each label control *)
(* may jump to is there, once, and each label of a table is a block of the *)
(* file.  What markReachable reads without a test for NULL is there        *)
(* (optimization.c:112).                                                   *)
(***************************************************************************)
THEOREM TargetsExistInFile ==
  ReuseFirst /\ TranslationsResolved => (PipelineSpec => []TargetsExist)
<1> SUFFICES ASSUME ReuseFirst, TranslationsResolved PROVE PipelineSpec => []TargetsExist
  OBVIOUS
<1>1. PipelineSpec => []PipelineInv
  BY PipelineInductive
<1>2. PipelineInv /\ TargetsInv /\ [PipelineNext]_PipelineVars => TargetsInv'
  BY NextTargets
<1>3. PipelineInit => TargetsInv
  BY InitTargets
<1>4. TargetsInv => TargetsExist
  BY DEF TargetsInv
<1> QED
  BY <1>1, <1>2, <1>3, <1>4, PTL DEF PipelineSpec
=============================================================================
