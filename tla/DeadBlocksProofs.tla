-------------------------- MODULE DeadBlocksProofs --------------------------
(***************************************************************************)
(* Theorems about DeadBlocks, for functions of any number of blocks, with  *)
(* any jumps and any jump tables of the file.                              *)
(*                                                                         *)
(* The recursion of markReachable is a stack in the state, so the          *)
(* invariant says what is true between two calls: every target of a marked *)
(* block is marked or waits on the stack.                                  *)
(***************************************************************************)
EXTENDS DeadBlocks, TLAPS

(* Facts about lists and operands that the proofs about several passes use. *)

\* The elements of a list from the one at n on.
LEMMA Rest ==
  ASSUME NEW S, NEW s \in Seq(S), NEW n \in 1 .. Len(s) + 1
  PROVE  /\ SubSeq(s, n, Len(s)) \in Seq(S)
         /\ Len(SubSeq(s, n, Len(s))) = Len(s) - n + 1
         /\ \A k \in 1 .. Len(s) - n + 1 : SubSeq(s, n, Len(s))[k] = s[k + (n - 1)]
  OBVIOUS

\* What unlinking the element at n leaves of a list.
LEMMA Unlinked ==
  ASSUME NEW S, NEW s \in Seq(S), NEW n \in 1 .. Len(s)
  PROVE  LET t == SubSeq(s, 1, n - 1) \o SubSeq(s, n + 1, Len(s))
         IN  /\ t \in Seq(S)
             /\ Len(t) = Len(s) - 1
             /\ \A k \in 1 .. Len(t) : t[k] = IF k < n THEN s[k] ELSE s[k + 1]
<1> DEFINE a == SubSeq(s, 1, n - 1)
           b == SubSeq(s, n + 1, Len(s))
           t == a \o b
<1>1. a \in Seq(S) /\ Len(a) = n - 1 /\ \A k \in 1 .. n - 1 : a[k] = s[k]
  OBVIOUS
<1>2. b \in Seq(S) /\ Len(b) = Len(s) - n
      /\ \A k \in 1 .. Len(s) - n : b[k] = s[k + n]
  OBVIOUS
<1> HIDE DEF a, b
<1>3. /\ t \in Seq(S) /\ Len(t) = Len(s) - 1
      /\ \A k \in 1 .. n - 1 : t[k] = a[k]
      /\ \A k \in n .. Len(s) - 1 : t[k] = b[k - (n - 1)]
  <2>1. a \in Seq(S) /\ b \in Seq(S)
    BY <1>1, <1>2
  <2>2. /\ t \in Seq(S) /\ Len(t) = Len(a) + Len(b)
        /\ \A k \in 1 .. Len(a) + Len(b) :
             t[k] = IF k <= Len(a) THEN a[k] ELSE b[k - Len(a)]
    BY <2>1
  <2>3. Len(s) \in Nat /\ n \in Nat
    OBVIOUS
  <2>4. Len(a) = n - 1 /\ Len(b) = Len(s) - n /\ Len(a) + Len(b) = Len(s) - 1
    BY <1>1, <1>2, <2>3
  <2> HIDE DEF t
  <2>5. \A k \in 1 .. n - 1 : t[k] = a[k]
    BY <2>2, <2>3, <2>4
  <2>6. \A k \in n .. Len(s) - 1 : t[k] = b[k - (n - 1)]
    BY <2>2, <2>3, <2>4
  <2> QED
    BY <2>2, <2>4, <2>5, <2>6
<1> HIDE DEF t
<1>4. ASSUME NEW k \in 1 .. Len(t)
      PROVE  t[k] = IF k < n THEN s[k] ELSE s[k + 1]
  <2>1. CASE k < n
    BY <1>1, <1>3, <2>1
  <2>2. CASE k >= n
    <3>1. t[k] = b[k - (n - 1)] /\ k - (n - 1) \in 1 .. Len(s) - n
      BY <1>3, <2>2
    <3>2. b[k - (n - 1)] = s[k - (n - 1) + n]
      BY <1>2, <3>1
    <3> QED
      BY <2>2, <3>1, <3>2
  <2> QED
    BY <2>1, <2>2
<1> QED
  BY <1>3, <1>4 DEF a, b, t

\* The elements of a list that is put together or taken apart.
LEMMA ElementsAppended ==
  ASSUME NEW S, NEW s \in Seq(S), NEW e \in S
  PROVE  ElementsOf(Append(s, e)) = ElementsOf(s) \cup {e}
<1> DEFINE t == Append(s, e)
<1>1. Len(t) = Len(s) + 1 /\ t \in Seq(S) /\ t[Len(s) + 1] = e
      /\ \A i \in 1 .. Len(s) : t[i] = s[i]
  OBVIOUS
<1>2. DOMAIN t = 1 .. Len(s) + 1 /\ DOMAIN s = 1 .. Len(s) /\ Len(s) \in Nat
  BY <1>1
<1> QED
  BY <1>1, <1>2 DEF ElementsOf

LEMMA ElementsConcatenated ==
  ASSUME NEW S, NEW a \in Seq(S), NEW b \in Seq(S)
  PROVE  ElementsOf(a \o b) = ElementsOf(a) \cup ElementsOf(b)
<1> DEFINE t == a \o b
<1>1. /\ Len(t) = Len(a) + Len(b) /\ t \in Seq(S)
      /\ \A i \in 1 .. Len(a) : t[i] = a[i]
      /\ \A i \in 1 .. Len(b) : t[Len(a) + i] = b[i]
  OBVIOUS
<1>2. /\ DOMAIN t = 1 .. Len(a) + Len(b)
      /\ DOMAIN a = 1 .. Len(a) /\ DOMAIN b = 1 .. Len(b)
      /\ Len(a) \in Nat /\ Len(b) \in Nat
  BY <1>1
<1>3. \A i \in DOMAIN t : i \in DOMAIN a \/ i - Len(a) \in DOMAIN b
  BY <1>2
<1>4. \A i \in DOMAIN t : i \notin DOMAIN a => t[i] = b[i - Len(a)]
  <2> TAKE i \in DOMAIN t
  <2> HAVE i \notin DOMAIN a
  <2>1. i - Len(a) \in 1 .. Len(b) /\ i = Len(a) + (i - Len(a))
    BY <1>2
  <2> QED
    BY <1>1, <2>1
<1>5. \A i \in DOMAIN b : Len(a) + i \in DOMAIN t
  BY <1>2
<1>6. \A i \in DOMAIN a : i \in DOMAIN t /\ t[i] = a[i]
  BY <1>1, <1>2
<1>7. \A i \in DOMAIN b : t[Len(a) + i] = b[i]
  BY <1>1, <1>2
<1> QED
  BY <1>3, <1>4, <1>5, <1>6, <1>7 DEF ElementsOf

LEMMA ElementsTail ==
  ASSUME NEW S, NEW s \in Seq(S), s # << >>
  PROVE  /\ Head(s) \in S /\ Tail(s) \in Seq(S)
         /\ ElementsOf(s) = {Head(s)} \cup ElementsOf(Tail(s))
<1> DEFINE t == Tail(s)
<1>1. /\ t \in Seq(S) /\ Len(t) = Len(s) - 1 /\ Head(s) = s[1] /\ Len(s) >= 1
      /\ \A i \in 1 .. Len(t) : t[i] = s[i + 1]
  OBVIOUS
<1>2. DOMAIN t = 1 .. Len(s) - 1 /\ DOMAIN s = 1 .. Len(s) /\ Len(s) \in Nat
  BY <1>1
<1>3. \A i \in DOMAIN s : i = 1 \/ (i - 1 \in DOMAIN t /\ t[i - 1] = s[i])
  BY <1>1, <1>2
<1>4. \A i \in DOMAIN t : i + 1 \in DOMAIN s /\ t[i] = s[i + 1]
  BY <1>1, <1>2
<1>5. 1 \in DOMAIN s /\ Head(s) = s[1] /\ Head(s) \in S
  BY <1>1, <1>2
<1>6. \A e : (\E i \in DOMAIN s : e = s[i])
               <=> e = Head(s) \/ \E i \in DOMAIN t : e = t[i]
  <2> HIDE DEF t
  <2> QED
    BY <1>3, <1>4, <1>5, Zenon
<1> HIDE DEF t
<1>7. {s[i] : i \in DOMAIN s} = {Head(s)} \cup {t[i] : i \in DOMAIN t}
  BY <1>6
<1> QED
  BY <1>1, <1>5, <1>7 DEF t, ElementsOf

\* A function whose instructions own their operands: no other block, and
\* nothing freed before, has the objects of an instruction.
LEMMA OwnedFacts ==
  ASSUME NEW given, NEW freedBefore, OwnedOnce(given, freedBefore),
         NEW b \in DOMAIN given, NEW k \in DOMAIN given[b].instructions,
         NEW o \in Objects(given[b].instructions[k])
  PROVE  /\ o \notin freedBefore
         /\ \A c \in DOMAIN given : \A j \in DOMAIN given[c].instructions :
              o \in Objects(given[c].instructions[j]) => c = b /\ j = k
<1>1. Objects(given[b].instructions[k]) # {}
  OBVIOUS
<1>2. /\ Objects(given[b].instructions[k]) \cap freedBefore = {}
      /\ \A c \in DOMAIN given : \A j \in DOMAIN given[c].instructions :
           Objects(given[c].instructions[j]) \cap Objects(given[b].instructions[k]) # {}
             => c = b /\ j = k
  BY <1>1 DEF OwnedOnce
<1> QED
  BY <1>2
-----------------------------------------------------------------------------
(* The invariant *)

Entry == in.blocks[1].label
Old == 1 .. Len(in.blocks)
Waiting == ElementsOf(stack)
TargetsAt(l) == TargetsOf(FindBlock(in.blocks, l))

\* What never changes, and the types the proofs need.
Typed ==
  /\ IsInput(in)
  /\ marked \in Seq(Int) /\ stack \in Seq(Int)
  /\ Seen \subseteq LabelsOf(in.blocks)
  /\ data \subseteq DataLabels(in.tables)
  /\ phase \in {"mark", "unlink", "done", "crash", "undefined"}

\* Whatever has to be marked is marked, or a call for it waits to be made.
Pending ==
  /\ Entry \in Seen \cup Waiting
  /\ \A l \in Seen : TargetsAt(l) \subseteq Seen \cup Waiting
  /\ DataLabels(in.tables) \cap LabelsOf(in.blocks)
       \subseteq Seen \cup Waiting \cup data
  /\ phase \in {"unlink", "done", "undefined"} => Waiting = {} /\ data = {}

\* No call is made without a reason.
Justified ==
  /\ \A l \in Waiting :
       \/ l = Entry
       \/ l \in DataLabels(in.tables) /\ HasBlock(in.blocks, l)
       \/ \E m \in Seen : l \in TargetsAt(m)
  /\ MarkedForAReason
  /\ CrashOnlyOnDanglingJump

\* The list is what was kept of the blocks behind the cursor, and the blocks
\* that are still to be looked at.
Cursor ==
  /\ blocks \in Seq(IRBlock)
  /\ curr \in 1 .. Len(blocks) + 1
  /\ idx \in 1 .. Len(in.blocks) + 1
  /\ curr <= idx /\ Len(in.blocks) - idx = Len(blocks) - curr
  /\ \A k \in curr .. Len(blocks) : blocks[k] = in.blocks[k + (idx - curr)]
  /\ \A k \in 1 .. curr - 1 :
       blocks[k].label \in Seen /\ \E j \in Old : blocks[k] = in.blocks[j]
  /\ \A j \in 1 .. idx - 1 : in.blocks[j].label \in Seen =>
       \E k \in 1 .. curr - 1 : blocks[k] = in.blocks[j]
  /\ phase \in {"mark", "crash"} => blocks = in.blocks /\ curr = 1 /\ idx = 1
  /\ phase = "done" => curr = Len(blocks) + 1

IInv == Typed /\ Pending /\ Justified /\ Cursor
-----------------------------------------------------------------------------
(* Functions *)

\* What a pass is given, in the form the proofs use it.
LEMMA InputFacts ==
  ASSUME IsInput(in)
  PROVE  /\ in.blocks \in Seq(IRBlock)
         /\ Len(in.blocks) \in Nat /\ Len(in.blocks) >= 1 /\ DOMAIN in.blocks = Old
         /\ \A i \in Old : in.blocks[i] \in IRBlock /\ in.blocks[i].label \in Int
         /\ LabelsOf(in.blocks) = {in.blocks[i].label : i \in Old}
         /\ \A l : HasBlock(in.blocks, l) <=> l \in LabelsOf(in.blocks)
         /\ \A i \in Old : FindBlock(in.blocks, in.blocks[i].label) = in.blocks[i]
<1>1. /\ in.blocks \in Seq(IRBlock) /\ in.blocks # << >>
      /\ \A i, j \in DOMAIN in.blocks :
           in.blocks[i].label = in.blocks[j].label => i = j
  BY DEF IsInput, IsFunction, IsBlockList
<1>2. Len(in.blocks) \in Nat /\ Len(in.blocks) >= 1 /\ DOMAIN in.blocks = Old
  BY <1>1 DEF Old
<1>3. \A i \in Old : in.blocks[i] \in IRBlock /\ in.blocks[i].label \in Int
  <2> TAKE i \in Old
  <2>1. in.blocks[i] \in IRBlock
    BY <1>1 DEF Old
  <2> QED
    BY <2>1 DEF IRBlock
<1>4. LabelsOf(in.blocks) = {in.blocks[i].label : i \in Old}
  BY <1>2 DEF LabelsOf
<1>5. \A l : HasBlock(in.blocks, l) <=> l \in LabelsOf(in.blocks)
  BY DEF LabelsOf, HasBlock
<1>6. \A i \in Old : IndexOfBlock(in.blocks, in.blocks[i].label) = i
  BY <1>1, <1>2 DEF IndexOfBlock
<1> QED
  BY <1>1, <1>2, <1>3, <1>4, <1>5, <1>6 DEF FindBlock

\* The targets of a block are labels.
LEMMA TargetsFacts ==
  ASSUME IsInput(in), NEW i \in Old
  PROVE  JumpTargets(LastOf(in.blocks[i]), in.tables) \in Seq(Int)
<1> DEFINE last == LastOf(in.blocks[i])
<1>1. /\ in.blocks[i] \in IRBlock /\ in.blocks[i].instructions # << >>
      /\ IsTerminator(last)
      /\ in.tables \in [DOMAIN in.tables -> Seq(Int)]
      /\ last.op = "JUMPTABLE" => last.args[2].name \in DOMAIN in.tables
  BY InputFacts DEF IsInput, IsFunction, IsBlockList
<1>2. last \in IRInstruction
  <2>1. in.blocks[i].instructions \in Seq(IRInstruction)
    BY <1>1 DEF IRBlock
  <2> QED
    BY <1>1, <2>1 DEF LastOf
<1> HIDE DEF last
<1>3. last.args \in Seq(IROperand)
  BY <1>2 DEF IRInstruction
<1>4. \A a \in 1 .. Len(last.args) : last.args[a].name \in Int
  <2> TAKE a \in 1 .. Len(last.args)
  <2>1. last.args[a] \in IROperand
    BY <1>3
  <2> QED
    BY <2>1 DEF IROperand
<1>5. CASE last.op = "JUMP"
  <2>1. Len(last.args) = 1
    BY <1>1, <1>5 DEF IsTerminator, TwoTarget, CJumps, BJumps
  <2>2. last.args[1].name \in Int
    BY <1>4, <2>1
  <2>3. JumpTargets(last, in.tables) = <<last.args[1].name>>
    BY <1>5 DEF JumpTargets
  <2> QED
    BY <2>2, <2>3 DEF last
<1>6. CASE last.op = "JUMPTABLE"
  <2>1. JumpTargets(last, in.tables) = in.tables[last.args[2].name]
    BY <1>6 DEF JumpTargets
  <2> QED
    BY <1>1, <1>6, <2>1 DEF last
<1>7. CASE last.op \in TwoTarget /\ last.op \notin {"JUMP", "JUMPTABLE"}
  <2>1. Len(last.args) \in {3, 4}
    BY <1>1, <1>7 DEF IsTerminator, TwoTarget, CJumps, BJumps
  <2>2. last.args[1].name \in Int /\ last.args[2].name \in Int
    BY <1>4, <2>1
  <2>3. JumpTargets(last, in.tables) = <<last.args[1].name, last.args[2].name>>
    BY <1>7 DEF JumpTargets
  <2> QED
    BY <2>2, <2>3 DEF last
<1>8. CASE last.op \notin TwoTarget \cup {"JUMP", "JUMPTABLE"}
  <2>1. JumpTargets(last, in.tables) = << >>
    BY <1>8 DEF JumpTargets
  <2> QED
    BY <2>1 DEF last
<1> QED
  BY <1>5, <1>6, <1>7, <1>8

\* The call that is made next, and what the others are.
LEMMA StackFacts ==
  ASSUME Typed, stack # << >>
  PROVE  /\ Head(stack) \in Int /\ Tail(stack) \in Seq(Int)
         /\ Waiting = {Head(stack)} \cup ElementsOf(Tail(stack))
<1>1. stack \in Seq(Int)
  BY DEF Typed
<1> QED
  BY <1>1, ElementsTail DEF Waiting
-----------------------------------------------------------------------------
(* The invariant *)

\* Before anything is looked at, the invariant holds.
LEMMA StartIInv == IsInput(in) /\ Start => IInv
<1> SUFFICES ASSUME IsInput(in), Start PROVE IInv
  OBVIOUS
<1>1. IsInput(in)
  OBVIOUS
<1>2. Entry \in LabelsOf(in.blocks) /\ Entry \in Int
  BY <1>1, InputFacts DEF Entry, Old
<1>3. marked = << >> /\ Seen = {} /\ stack = <<Entry>> /\ Waiting = {Entry}
  BY DEF Start, Seen, Waiting, ElementsOf, Entry
<1>4. Typed
  BY <1>1, <1>2, <1>3 DEF Typed, Start
<1>5. Pending
  BY <1>3 DEF Pending, Start
<1>6. Justified
  BY <1>3 DEF Justified, Start, MarkedForAReason, CrashOnlyOnDanglingJump
<1>7. Cursor
  BY <1>1, InputFacts DEF Cursor, Start, Old
<1> QED
  BY <1>4, <1>5, <1>6, <1>7 DEF IInv

\* While blocks are marked, the cursor has not moved.
LEMMA CursorWaits ==
  ASSUME IsInput(in), Cursor, phase = "mark", UNCHANGED <<in, blocks, curr, idx>>,
         phase' \in {"mark", "crash", "unlink"}
  PROVE  Cursor'
<1>1. blocks' = in.blocks /\ curr' = 1 /\ idx' = 1 /\ in' = in
  BY DEF Cursor
<1>2. Len(in.blocks) \in Nat /\ Len(in.blocks) >= 1 /\ in.blocks \in Seq(IRBlock)
  BY InputFacts
<1> QED
  BY <1>1, <1>2 DEF Cursor, Old

\* A call that returns at once: its label is among the seen ones.
LEMMA ReturnIInv == ASSUME IInv, Return PROVE IInv'
<1>1. IsInput(in) /\ Typed /\ stack # << >> /\ phase = "mark"
  BY DEF IInv, Typed, Return
<1>2. /\ Tail(stack) \in Seq(Int)
      /\ Waiting = {Head(stack)} \cup ElementsOf(Tail(stack))
  BY <1>1, StackFacts
<1>3. Waiting' = ElementsOf(Tail(stack)) /\ Seen' = Seen
  BY DEF Return, Waiting, Seen
<1>4. Seen' \cup Waiting' = Seen \cup Waiting /\ Waiting' \subseteq Waiting
  BY <1>2, <1>3 DEF Return
<1>5. Typed'
  BY <1>1, <1>2, <1>3 DEF Typed, Return
<1>6. Pending'
  BY <1>1, <1>3, <1>4 DEF IInv, Pending, Return, Entry, TargetsAt, TargetsOf
<1>7. Justified'
  BY <1>1, <1>3, <1>4
  DEF IInv, Justified, Return, Entry, TargetsAt, TargetsOf, MarkedForAReason,
      CrashOnlyOnDanglingJump
<1>8. Cursor'
  BY <1>1, CursorWaits DEF IInv, Return
<1> QED
  BY <1>5, <1>6, <1>7, <1>8 DEF IInv

\* The labels a call to a block not seen yet adds.
LEMMA MarkFacts ==
  ASSUME IInv, Mark
  PROVE  /\ Head(stack) \in LabelsOf(in.blocks)
         /\ Tail(stack) \in Seq(Int)
         /\ Waiting = {Head(stack)} \cup ElementsOf(Tail(stack))
         /\ marked' \in Seq(Int) /\ stack' \in Seq(Int)
         /\ Seen' = Seen \cup {Head(stack)}
         /\ Waiting' = TargetsAt(Head(stack)) \cup ElementsOf(Tail(stack))
<1> DEFINE h == Head(stack)
           targets == JumpTargets(LastOf(FindBlock(in.blocks, h)), in.tables)
<1>1. /\ IsInput(in) /\ Typed /\ stack # << >> /\ phase = "mark"
      /\ blocks = in.blocks /\ HasBlock(in.blocks, h)
  BY DEF IInv, Typed, Cursor, Mark
<1>2. /\ h \in Int /\ Tail(stack) \in Seq(Int)
      /\ Waiting = {h} \cup ElementsOf(Tail(stack))
  BY <1>1, StackFacts
<1>3. PICK i \in Old : h = in.blocks[i].label
  BY <1>1, InputFacts DEF HasBlock
<1>4. targets \in Seq(Int)
  BY <1>1, <1>3, InputFacts, TargetsFacts
<1>5. marked' = Append(marked, h) /\ stack' = targets \o Tail(stack) /\ in' = in
  BY <1>1 DEF Mark
<1>6. marked \in Seq(Int)
  BY <1>1 DEF Typed
<1>7. Seen' = Seen \cup {h} /\ marked' \in Seq(Int)
  <2>1. ElementsOf(Append(marked, h)) = ElementsOf(marked) \cup {h}
    BY <1>2, <1>6, ElementsAppended
  <2>2. Seen' = ElementsOf(marked')
    BY DEF Seen, ElementsOf
  <2>3. Append(marked, h) \in Seq(Int)
    BY <1>2, <1>6
  <2> QED
    BY <1>5, <2>1, <2>2, <2>3 DEF Seen
<1>8. TargetsAt(h) = ElementsOf(targets)
  BY DEF TargetsAt, TargetsOf
<1> HIDE DEF targets
<1>9. Waiting' = ElementsOf(targets) \cup ElementsOf(Tail(stack)) /\ stack' \in Seq(Int)
  <2>1. ElementsOf(targets \o Tail(stack))
          = ElementsOf(targets) \cup ElementsOf(Tail(stack))
    BY <1>2, <1>4, ElementsConcatenated
  <2>2. Waiting' = ElementsOf(stack')
    BY DEF Waiting, ElementsOf
  <2>3. targets \o Tail(stack) \in Seq(Int)
    BY <1>2, <1>4
  <2> QED
    BY <1>5, <2>1, <2>2, <2>3
<1> QED
  BY <1>1, <1>2, <1>7, <1>8, <1>9 DEF HasBlock, LabelsOf

LEMMA MarkIInv == ASSUME IInv, Mark PROVE IInv'
<1> DEFINE h == Head(stack)
<1>1. /\ IsInput(in) /\ Typed /\ Pending /\ Justified /\ Cursor
      /\ phase = "mark" /\ phase' = "mark"
      /\ UNCHANGED <<in, blocks, freed, data, curr, idx>>
      /\ marked' = Append(marked, h)
  BY DEF IInv, Typed, Mark
<1>2. /\ h \in LabelsOf(in.blocks)
      /\ Waiting = {h} \cup ElementsOf(Tail(stack))
      /\ marked' \in Seq(Int) /\ stack' \in Seq(Int)
      /\ Seen' = Seen \cup {h}
      /\ Waiting' = TargetsAt(h) \cup ElementsOf(Tail(stack))
  BY MarkFacts
<1> HIDE DEF h
<1>3. Seen \cup Waiting \subseteq Seen' \cup Waiting'
  BY <1>2
<1>4. \A l : TargetsAt(l)' = TargetsAt(l)
  BY <1>1 DEF TargetsAt, TargetsOf
<1>5. Entry' = Entry /\ Entry \in Seen \cup Waiting
  BY <1>1 DEF Entry, Pending
<1>6. Typed'
  BY <1>1, <1>2 DEF Typed
<1>7. Pending'
  <2>1. \A l \in Seen' : TargetsAt(l) \subseteq Seen' \cup Waiting'
    BY <1>1, <1>2, <1>3 DEF Pending
  <2>2. DataLabels(in.tables) \cap LabelsOf(in.blocks)
          \subseteq Seen' \cup Waiting' \cup data
    BY <1>1, <1>3 DEF Pending
  <2> QED
    BY <1>1, <1>3, <1>4, <1>5, <2>1, <2>2 DEF Pending
<1>8. Justified'
  <2>1. ASSUME NEW l \in Waiting'
        PROVE  \/ l = Entry
               \/ l \in DataLabels(in.tables) /\ HasBlock(in.blocks, l)
               \/ \E m \in Seen' : l \in TargetsAt(m)
    BY <1>1, <1>2, <2>1 DEF Justified
  <2>2. ASSUME NEW i \in DOMAIN marked'
        PROVE  \/ marked'[i] = Entry
               \/ marked'[i] \in DataLabels(in.tables)
               \/ \E j \in 1 .. i - 1 : marked'[i] \in TargetsAt(marked'[j])
    <3>1. /\ marked \in Seq(Int) /\ Len(marked) \in Nat /\ h \in Int
          /\ DOMAIN marked = 1 .. Len(marked)
          /\ DOMAIN marked' = 1 .. Len(marked) + 1
          /\ \A j \in 1 .. Len(marked) : marked'[j] = marked[j]
          /\ marked'[Len(marked) + 1] = h
      <4>1. marked \in Seq(Int) /\ h \in Int
        BY <1>1, <1>2, InputFacts DEF Typed
      <4> QED
        BY <1>1, <4>1
    <3>2. CASE i \in 1 .. Len(marked)
      <4>1. \/ marked[i] = Entry
            \/ marked[i] \in DataLabels(in.tables)
            \/ \E j \in 1 .. i - 1 : marked[i] \in TargetsAt(marked[j])
        BY <1>1, <3>1, <3>2 DEF Justified, MarkedForAReason, Entry, TargetsAt
      <4>2. \A j \in 1 .. i - 1 : marked'[j] = marked[j]
        BY <3>1, <3>2
      <4> QED
        BY <3>1, <3>2, <4>1, <4>2
    <3>3. CASE i = Len(marked) + 1
      <4>1. h \in Waiting /\ marked'[i] = h
        BY <1>2, <3>1, <3>3
      <4>2. \A m \in Seen : \E j \in 1 .. i - 1 : marked'[j] = m
        BY <3>1, <3>3 DEF Seen, ElementsOf
      <4> QED
        BY <1>1, <4>1, <4>2 DEF Justified
    <3> QED
      BY <2>2, <3>1, <3>2, <3>3
  <2>3. MarkedForAReason'
    BY <1>1, <1>4, <1>5, <2>2 DEF MarkedForAReason, Entry, TargetsAt
  <2>4. CrashOnlyOnDanglingJump'
    BY <1>1 DEF CrashOnlyOnDanglingJump
  <2> QED
    BY <1>1, <1>4, <1>5, <2>1, <2>3, <2>4 DEF Justified
<1>9. Cursor'
  BY <1>1, CursorWaits
<1> QED
  BY <1>6, <1>7, <1>8, <1>9 DEF IInv

\* A label nobody has a block for can only be a jump's target: the entry has
\* its block, and a table's label is looked up before the call is made.
LEMMA NullBlockIInv == ASSUME IInv, NullBlock PROVE IInv'
<1> DEFINE h == Head(stack)
<1>1. /\ IsInput(in) /\ Typed /\ Pending /\ Justified /\ Cursor
      /\ phase = "mark" /\ phase' = "crash" /\ stack # << >>
      /\ blocks = in.blocks /\ ~HasBlock(in.blocks, h)
      /\ UNCHANGED <<in, blocks, freed, marked, stack, data, curr, idx>>
  BY DEF IInv, Typed, Cursor, NullBlock
<1>2. h \in Waiting
  BY <1>1, StackFacts
<1>3. h # Entry
  BY <1>1, InputFacts DEF Entry, Old
<1>4. PICK m \in Seen : h \in TargetsAt(m)
  BY <1>1, <1>2, <1>3 DEF Justified
<1>5. PICK i \in Old : m = in.blocks[i].label
  BY <1>1, <1>4, InputFacts DEF Typed
<1>6. TargetsAt(m) = TargetsOf(in.blocks[i]) /\ in.blocks[i] \in ElementsOf(in.blocks)
  BY <1>1, <1>5, InputFacts DEF TargetsAt, ElementsOf
<1> HIDE DEF h
<1>7. CrashOnlyOnDanglingJump'
  BY <1>1, <1>4, <1>6 DEF CrashOnlyOnDanglingJump, TargetsOf
<1>8. Typed' /\ Pending'
  BY <1>1 DEF Typed, Pending, Seen, Waiting, Entry, TargetsAt, TargetsOf
<1>9. Justified'
  BY <1>1, <1>7 DEF Justified, Seen, Waiting, Entry, TargetsAt, TargetsOf,
                    MarkedForAReason
<1>10. Cursor'
  BY <1>1, CursorWaits
<1> QED
  BY <1>8, <1>9, <1>10 DEF IInv

\* A label of the data that is another function's needs no mark.
LEMMA MarkDataIInv == ASSUME IInv, MarkData PROVE IInv'
<1>1. /\ IsInput(in) /\ Typed /\ Pending /\ Justified /\ Cursor
      /\ phase = "mark" /\ phase' = "mark" /\ blocks = in.blocks
      /\ UNCHANGED <<in, blocks, freed, marked, curr, idx>>
      /\ Waiting = {}
  BY DEF IInv, Typed, Cursor, MarkData, Waiting, ElementsOf
<1>2. PICK l \in data : /\ data' = data \ {l}
                        /\ stack' = IF HasBlock(in.blocks, l) THEN <<l>> ELSE << >>
  BY <1>1 DEF MarkData
<1>3. l \in DataLabels(in.tables)
  BY <1>1, <1>2 DEF Typed
<1>4. Seen' = Seen
  BY <1>1 DEF Seen
<1>5. /\ \A e : TargetsAt(e)' = TargetsAt(e)
      /\ Entry' = Entry
  BY <1>1 DEF TargetsAt, TargetsOf, Entry
<1>6. Waiting' = IF HasBlock(in.blocks, l) THEN {l} ELSE {}
  BY <1>2 DEF Waiting, ElementsOf
<1>7. stack' \in Seq(Int)
  <2>1. CASE HasBlock(in.blocks, l)
    <3>1. l \in Int
      BY <1>1, <2>1, InputFacts
    <3> QED
      BY <1>2, <2>1, <3>1
  <2>2. CASE ~HasBlock(in.blocks, l)
    BY <1>2, <2>2
  <2> QED
    BY <2>1, <2>2
<1>8. Typed'
  BY <1>1, <1>2, <1>4, <1>7 DEF Typed
<1>9. Pending'
  <2>1. DataLabels(in.tables) \cap LabelsOf(in.blocks)
          \subseteq Seen' \cup Waiting' \cup data'
    BY <1>1, <1>2, <1>4, <1>6, InputFacts DEF Pending
  <2> QED
    BY <1>1, <1>4, <1>5, <2>1 DEF Pending
<1>10. Justified'
  <2>1. MarkedForAReason' /\ CrashOnlyOnDanglingJump'
    BY <1>1 DEF Justified, MarkedForAReason, CrashOnlyOnDanglingJump, TargetsOf
  <2> QED
    BY <1>1, <1>3, <1>6, <2>1 DEF Justified
<1>11. Cursor'
  BY <1>1, CursorWaits
<1> QED
  BY <1>8, <1>9, <1>10, <1>11 DEF IInv

LEMMA StartUnlinkingIInv == ASSUME IInv, StartUnlinking PROVE IInv'
<1>1. /\ IsInput(in) /\ Typed /\ Pending /\ Justified /\ Cursor
      /\ phase = "mark" /\ phase' = "unlink" /\ Waiting = {} /\ data = {}
      /\ UNCHANGED <<in, blocks, freed, marked, stack, data, curr, idx>>
  BY DEF IInv, Typed, StartUnlinking, Waiting, ElementsOf
<1>2. Seen' = Seen /\ Waiting' = Waiting /\ Entry' = Entry
      /\ \A e : TargetsAt(e)' = TargetsAt(e)
  BY <1>1 DEF Seen, Waiting, Entry, TargetsAt, TargetsOf
<1>3. Typed' /\ Pending'
  BY <1>1, <1>2 DEF Typed, Pending
<1>4. Justified'
  BY <1>1, <1>2
  DEF Justified, MarkedForAReason, CrashOnlyOnDanglingJump, TargetsOf
<1>5. Cursor'
  BY <1>1, CursorWaits
<1> QED
  BY <1>3, <1>4, <1>5 DEF IInv

\* Nothing is marked any more once the first block is looked at.
LEMMA UnlinkingFacts ==
  ASSUME IInv, phase = "unlink", phase' \in {"unlink", "done", "undefined"},
         UNCHANGED <<in, marked, stack, data>>
  PROVE  Typed' /\ Pending' /\ Justified' /\ Seen' = Seen
<1>1. Typed /\ Pending /\ Justified
  BY DEF IInv
<1>2. Seen' = Seen /\ Waiting' = Waiting /\ Entry' = Entry
      /\ \A e : TargetsAt(e)' = TargetsAt(e)
  BY DEF Seen, Waiting, Entry, TargetsAt, TargetsOf
<1>3. Typed' /\ Pending'
  BY <1>1, <1>2 DEF Typed, Pending
<1>4. Justified'
  BY <1>1, <1>2
  DEF Justified, MarkedForAReason, CrashOnlyOnDanglingJump, TargetsOf
<1> QED
  BY <1>2, <1>3, <1>4

\* Where the cursor in the list stands in the function that was given.
LEMMA CursorFacts ==
  ASSUME IsInput(in), Cursor, curr <= Len(blocks)
  PROVE  /\ Len(in.blocks) \in Nat /\ Len(blocks) \in Nat
         /\ DOMAIN blocks = 1 .. Len(blocks)
         /\ curr \in 1 .. Len(blocks) /\ idx \in Old
         /\ blocks[curr] = in.blocks[idx]
<1>1. Len(in.blocks) \in Nat /\ Len(blocks) \in Nat /\ DOMAIN blocks = 1 .. Len(blocks)
  BY InputFacts DEF Cursor
<1>2. curr \in 1 .. Len(blocks) /\ idx \in Old
  BY <1>1 DEF Cursor, Old
<1>3. blocks[curr] = in.blocks[curr + (idx - curr)] /\ curr + (idx - curr) = idx
  BY <1>1, <1>2 DEF Cursor, Old
<1> QED
  BY <1>1, <1>2, <1>3

LEMMA KeepBlockIInv == ASSUME IInv, KeepBlock PROVE IInv'
<1>1. /\ IsInput(in) /\ Cursor /\ phase = "unlink" /\ curr <= Len(blocks)
      /\ in.blocks[idx].label \in Seen
      /\ curr' = curr + 1 /\ idx' = idx + 1
      /\ UNCHANGED <<in, blocks, marked, stack, data, phase>>
  BY DEF IInv, Typed, KeepBlock
<1>2. Typed' /\ Pending' /\ Justified' /\ Seen' = Seen
  BY <1>1, UnlinkingFacts
<1>3. /\ Len(in.blocks) \in Nat /\ Len(blocks) \in Nat
      /\ curr \in 1 .. Len(blocks) /\ idx \in Old /\ idx \in 1 .. Len(in.blocks)
      /\ blocks[curr] = in.blocks[idx]
  BY <1>1, CursorFacts DEF Old
<1>4. \A k \in curr' .. Len(blocks) : blocks[k] = in.blocks[k + (idx' - curr')]
  <2>1. idx' - curr' = idx - curr
    BY <1>1, <1>3
  <2> QED
    BY <1>1, <1>3, <2>1 DEF Cursor
<1>5. \A k \in 1 .. curr' - 1 :
        blocks[k].label \in Seen /\ \E j \in Old : blocks[k] = in.blocks[j]
  <2>1. \A k \in 1 .. curr' - 1 : k = curr \/ k \in 1 .. curr - 1
    BY <1>1, <1>3
  <2> QED
    BY <1>1, <1>3, <2>1 DEF Cursor
<1>6. \A j \in 1 .. idx' - 1 : in.blocks[j].label \in Seen =>
        \E k \in 1 .. curr' - 1 : blocks[k] = in.blocks[j]
  <2>1. \A j \in 1 .. idx' - 1 : j = idx \/ j \in 1 .. idx - 1
    BY <1>1, <1>3
  <2>2. curr \in 1 .. curr' - 1 /\ 1 .. curr - 1 \subseteq 1 .. curr' - 1
    BY <1>1, <1>3
  <2> QED
    BY <1>1, <1>3, <2>1, <2>2 DEF Cursor
<1>7. /\ blocks \in Seq(IRBlock)
      /\ curr' \in 1 .. Len(blocks) + 1 /\ idx' \in 1 .. Len(in.blocks) + 1
      /\ curr' <= idx' /\ Len(in.blocks) - idx' = Len(blocks) - curr'
  BY <1>1, <1>3 DEF Cursor
<1>8. Cursor'
  BY <1>1, <1>2, <1>4, <1>5, <1>6, <1>7 DEF Cursor, Old
<1> QED
  BY <1>2, <1>8 DEF IInv

\* The blocks behind the one that is unlinked move up by one position, and so
\* does the cursor: the index in "seen" runs ahead.
LEMMA UnlinkBlockIInv == ASSUME IInv, UnlinkBlock PROVE IInv'
<1>1. /\ IsInput(in) /\ Cursor /\ phase = "unlink" /\ curr <= Len(blocks)
      /\ in.blocks[idx].label \notin Seen
      /\ curr' = curr /\ idx' = idx + 1
      /\ blocks' = SubSeq(blocks, 1, curr - 1) \o SubSeq(blocks, curr + 1, Len(blocks))
      /\ UNCHANGED <<in, marked, stack, data, phase>>
  BY DEF IInv, Typed, UnlinkBlock
<1>2. Typed' /\ Pending' /\ Justified' /\ Seen' = Seen
  BY <1>1, UnlinkingFacts
<1>3. /\ Len(in.blocks) \in Nat /\ Len(blocks) \in Nat
      /\ curr \in 1 .. Len(blocks) /\ idx \in 1 .. Len(in.blocks)
      /\ blocks[curr] = in.blocks[idx] /\ blocks \in Seq(IRBlock)
  BY <1>1, CursorFacts DEF Old, Cursor
<1>4. /\ blocks' \in Seq(IRBlock) /\ Len(blocks') = Len(blocks) - 1
      /\ \A k \in 1 .. Len(blocks') :
           blocks'[k] = IF k < curr THEN blocks[k] ELSE blocks[k + 1]
  BY <1>1, <1>3, Unlinked
<1>5. \A k \in 1 .. curr - 1 : blocks'[k] = blocks[k]
  BY <1>3, <1>4
<1>6. \A k \in curr' .. Len(blocks') : blocks'[k] = in.blocks[k + (idx' - curr')]
  <2> SUFFICES ASSUME NEW k \in curr .. Len(blocks) - 1
               PROVE  blocks'[k] = in.blocks[k + (idx' - curr')]
    BY <1>1, <1>4
  <2>1. k \in 1 .. Len(blocks') /\ ~(k < curr)
    BY <1>3, <1>4
  <2>2. blocks'[k] = blocks[k + 1] /\ k + 1 \in curr .. Len(blocks)
    BY <1>3, <1>4, <2>1
  <2>3. blocks[k + 1] = in.blocks[k + 1 + (idx - curr)]
    BY <1>1, <2>2 DEF Cursor
  <2>4. k + 1 + (idx - curr) = k + (idx' - curr')
    BY <1>1, <1>3
  <2> QED
    BY <2>2, <2>3, <2>4
<1>7. \A k \in 1 .. curr' - 1 :
        blocks'[k].label \in Seen /\ \E j \in Old : blocks'[k] = in.blocks[j]
  <2>1. \A k \in 1 .. curr - 1 :
          blocks[k].label \in Seen /\ \E j \in Old : blocks[k] = in.blocks[j]
    BY <1>1 DEF Cursor
  <2> QED
    BY <1>1, <1>5, <2>1
<1>8. \A j \in 1 .. idx' - 1 : in.blocks[j].label \in Seen =>
        \E k \in 1 .. curr' - 1 : blocks'[k] = in.blocks[j]
  <2>1. \A j \in 1 .. idx' - 1 : j = idx \/ j \in 1 .. idx - 1
    BY <1>1, <1>3
  <2> TAKE j \in 1 .. idx' - 1
  <2> HAVE in.blocks[j].label \in Seen
  <2>2. j \in 1 .. idx - 1
    BY <1>1, <2>1
  <2>3. PICK k \in 1 .. curr - 1 : blocks[k] = in.blocks[j]
    BY <1>1, <2>2 DEF Cursor
  <2> QED
    BY <1>1, <1>5, <2>3
<1>9. /\ curr' \in 1 .. Len(blocks') + 1 /\ idx' \in 1 .. Len(in.blocks) + 1
      /\ curr' <= idx' /\ Len(in.blocks) - idx' = Len(blocks') - curr'
  <2>1. curr <= idx /\ Len(in.blocks) - idx = Len(blocks) - curr
    BY <1>1 DEF Cursor
  <2>2. Len(blocks') = Len(blocks) - 1 /\ curr' = curr /\ idx' = idx + 1
    BY <1>1, <1>4
  <2> QED
    BY <1>3, <2>1, <2>2
<1>10. Cursor'
  BY <1>1, <1>2, <1>4, <1>6, <1>7, <1>8, <1>9 DEF Cursor, Old
<1> QED
  BY <1>2, <1>10 DEF IInv

LEMMA StopIInv == ASSUME IInv, FreeTwice \/ Finish PROVE IInv'
<1>1. /\ IsInput(in) /\ Cursor /\ phase = "unlink"
      /\ phase' \in {"done", "undefined"}
      /\ phase' = "done" => curr > Len(blocks)
      /\ UNCHANGED <<in, blocks, marked, stack, data, curr, idx>>
  BY DEF IInv, Typed, FreeTwice, Finish
<1>2. Typed' /\ Pending' /\ Justified' /\ Seen' = Seen
  BY <1>1, UnlinkingFacts
<1>3. phase' = "done" => curr = Len(blocks) + 1
  BY <1>1 DEF Cursor
<1>4. Cursor'
  BY <1>1, <1>2, <1>3 DEF Cursor, Old
<1> QED
  BY <1>2, <1>4 DEF IInv

LEMMA NextIInv == IInv /\ [Next]_vars => IInv'
<1> SUFFICES ASSUME IInv, [Next]_vars PROVE IInv'
  OBVIOUS
<1>1. CASE Return
  BY <1>1, ReturnIInv
<1>2. CASE Mark
  BY <1>2, MarkIInv
<1>3. CASE NullBlock
  BY <1>3, NullBlockIInv
<1>4. CASE MarkData
  BY <1>4, MarkDataIInv
<1>5. CASE StartUnlinking
  BY <1>5, StartUnlinkingIInv
<1>6. CASE KeepBlock
  BY <1>6, KeepBlockIInv
<1>7. CASE UnlinkBlock
  BY <1>7, UnlinkBlockIInv
<1>8. CASE FreeTwice \/ Finish
  BY <1>8, StopIInv
<1>9. CASE UNCHANGED vars
  BY <1>9
  DEF vars, IInv, Typed, Pending, Justified, Cursor, Seen, Waiting, Entry, Old,
      TargetsAt, TargetsOf, MarkedForAReason, CrashOnlyOnDanglingJump
<1> QED
  BY <1>1, <1>2, <1>3, <1>4, <1>5, <1>6, <1>7, <1>8, <1>9 DEF Next
-----------------------------------------------------------------------------
(* What follows from the invariant *)

\* When the pass is done, the list is the marked blocks.
LEMMA KeptFacts ==
  ASSUME IInv, phase = "done"
  PROVE  /\ \A k \in DOMAIN blocks : /\ blocks[k].label \in Seen
                                    /\ \E j \in Old : blocks[k] = in.blocks[j]
         /\ Seen = LabelsOf(blocks)
         /\ Waiting = {} /\ data = {}
<1>1. /\ IsInput(in) /\ Typed /\ Pending /\ Cursor
  BY DEF IInv, Typed
<1>2. /\ blocks \in Seq(IRBlock) /\ Len(blocks) \in Nat /\ Len(in.blocks) \in Nat
      /\ DOMAIN blocks = 1 .. curr - 1 /\ Old = 1 .. idx - 1
  <2>1. blocks \in Seq(IRBlock) /\ curr = Len(blocks) + 1
        /\ idx \in 1 .. Len(in.blocks) + 1
        /\ Len(in.blocks) - idx = Len(blocks) - curr
    BY <1>1 DEF Cursor
  <2>2. Len(blocks) \in Nat /\ DOMAIN blocks = 1 .. Len(blocks) /\ Len(in.blocks) \in Nat
    BY <1>1, <2>1, InputFacts
  <2> QED
    BY <2>1, <2>2 DEF Old
<1>3. \A k \in DOMAIN blocks : /\ blocks[k].label \in Seen
                              /\ \E j \in Old : blocks[k] = in.blocks[j]
  BY <1>1, <1>2 DEF Cursor
<1>4. ASSUME NEW l \in Seen PROVE l \in LabelsOf(blocks)
  <2>1. PICK j \in Old : l = in.blocks[j].label
    BY <1>1, InputFacts DEF Typed
  <2>2. PICK k \in DOMAIN blocks : blocks[k] = in.blocks[j]
    BY <1>1, <1>2, <2>1 DEF Cursor
  <2> QED
    BY <2>1, <2>2 DEF LabelsOf
<1> QED
  BY <1>1, <1>3, <1>4 DEF LabelsOf, Pending

LEMMA IInvKeptClosed == IInv => KeptClosed
<1> SUFFICES ASSUME IInv, phase = "done", NEW b \in ElementsOf(blocks)
             PROVE  TargetsOf(b) \subseteq LabelsOf(blocks)
  BY DEF KeptClosed
<1>1. PICK k \in DOMAIN blocks : b = blocks[k]
  BY DEF ElementsOf
<1>2. b.label \in Seen /\ \E j \in Old : b = in.blocks[j]
  BY <1>1, KeptFacts
<1>3. TargetsAt(b.label) = TargetsOf(b)
  BY <1>2, InputFacts DEF TargetsAt, IInv, Typed
<1>4. TargetsOf(b) \subseteq Seen
  BY <1>2, <1>3, KeptFacts DEF IInv, Pending
<1> QED
  BY <1>4, KeptFacts

LEMMA IInvDataKept == IInv => DataKept
  BY KeptFacts DEF IInv, Pending, DataKept

LEMMA IInvUnlinkingInStep == IInv => UnlinkingInStep
<1> SUFFICES ASSUME IInv, phase = "unlink" PROVE UnlinkingInStep
  BY DEF UnlinkingInStep
<1>1. /\ IsInput(in) /\ Cursor /\ in.blocks \in Seq(IRBlock) /\ blocks \in Seq(IRBlock)
      /\ Len(blocks) \in Nat /\ Len(in.blocks) \in Nat
      /\ curr \in 1 .. Len(blocks) + 1 /\ idx \in 1 .. Len(in.blocks) + 1
      /\ Len(in.blocks) - idx = Len(blocks) - curr
      /\ \A k \in curr .. Len(blocks) : blocks[k] = in.blocks[k + (idx - curr)]
  <2>1. IsInput(in) /\ Cursor
    BY DEF IInv, Typed
  <2>2. in.blocks \in Seq(IRBlock) /\ Len(in.blocks) \in Nat
    BY <2>1, InputFacts
  <2>3. \A k \in curr .. Len(blocks) : blocks[k] = in.blocks[k + (idx - curr)]
    BY <2>1 DEF Cursor
  <2>4. /\ blocks \in Seq(IRBlock)
        /\ curr \in 1 .. Len(blocks) + 1 /\ idx \in 1 .. Len(in.blocks) + 1
        /\ Len(in.blocks) - idx = Len(blocks) - curr
    BY <2>1 DEF Cursor
  <2>5. Len(blocks) \in Nat
    BY <2>4
  <2> QED
    BY <2>1, <2>2, <2>3, <2>4, <2>5
<1> DEFINE n == Len(blocks) - curr + 1
           now == SubSeq(blocks, curr, Len(blocks))
           before == SubSeq(in.blocks, idx, Len(in.blocks))
<1>2. /\ now \in Seq(IRBlock) /\ Len(now) = n
      /\ \A k \in 1 .. n : now[k] = blocks[k + (curr - 1)]
  BY <1>1, Rest
<1>3. /\ before \in Seq(IRBlock) /\ Len(before) = n
      /\ \A k \in 1 .. n : before[k] = in.blocks[k + (idx - 1)]
  <2>1. Len(in.blocks) - idx + 1 = n
    BY <1>1
  <2> QED
    BY <1>1, <2>1, Rest
<1>4. ASSUME NEW k \in 1 .. n PROVE now[k] = before[k]
  <2>1. k + (curr - 1) \in curr .. Len(blocks)
        /\ k + (curr - 1) + (idx - curr) = k + (idx - 1)
    BY <1>1
  <2>2. now[k] = blocks[k + (curr - 1)] /\ before[k] = in.blocks[k + (idx - 1)]
    BY <1>2, <1>3
  <2> HIDE DEF now, before
  <2> QED
    BY <1>1, <2>1, <2>2
<1> HIDE DEF now, before
<1>5. now = before
  BY <1>2, <1>3, <1>4
<1> QED
  BY <1>1, <1>5 DEF UnlinkingInStep, Cursor, now, before

LEMMA IInvTypeOK == IInv => TypeOK
<1> SUFFICES ASSUME IInv PROVE TypeOK
  OBVIOUS
<1>1. /\ IsInput(in) /\ Typed /\ Cursor /\ Len(in.blocks) \in Nat /\ Len(blocks) \in Nat
      /\ DOMAIN blocks = 1 .. Len(blocks) /\ DOMAIN in.blocks = Old
  <2>1. IsInput(in) /\ Typed /\ Cursor
    BY DEF IInv, Typed
  <2>2. Len(in.blocks) \in Nat /\ DOMAIN in.blocks = Old
    BY <2>1, InputFacts
  <2>3. blocks \in Seq(IRBlock)
    BY <2>1 DEF Cursor
  <2> QED
    BY <2>1, <2>2, <2>3
<1>2. \A k \in curr .. Len(blocks) : k + (idx - curr) \in Old
  BY <1>1 DEF Cursor, Old
<1>3. \A k \in DOMAIN blocks : k \in 1 .. curr - 1 \/ k \in curr .. Len(blocks)
  BY <1>1 DEF Cursor
<1>4. \A k \in DOMAIN blocks : \E j \in Old : blocks[k] = in.blocks[j]
  BY <1>1, <1>2, <1>3 DEF Cursor
<1>5. ElementsOf(blocks) \subseteq ElementsOf(in.blocks)
  BY <1>1, <1>4 DEF ElementsOf
<1>6. Len(blocks) <= Len(in.blocks)
  BY <1>1 DEF Cursor
<1> QED
  BY <1>1, <1>5, <1>6 DEF Typed, Cursor, TypeOK
-----------------------------------------------------------------------------
(* What the pass leaves *)

\* Unlinking leaves each label to one block.
Distinct ==
  \A k, m \in 1 .. Len(blocks) : blocks[k].label = blocks[m].label => k = m

LEMMA StartDistinct == IsInput(in) /\ Start => Distinct
  BY DEF IsInput, IsFunction, IsBlockList, Start, Distinct

LEMMA NextDistinct == IInv /\ Distinct /\ [Next]_vars => Distinct'
<1> SUFFICES ASSUME IInv, Distinct, [Next]_vars PROVE Distinct'
  OBVIOUS
<1>1. CASE UnlinkBlock
  <2>1. /\ curr \in 1 .. Len(blocks) /\ blocks \in Seq(IRBlock) /\ Len(blocks) \in Nat
        /\ blocks' = SubSeq(blocks, 1, curr - 1) \o SubSeq(blocks, curr + 1, Len(blocks))
    BY <1>1, CursorFacts DEF IInv, Typed, Cursor, UnlinkBlock
  <2>2. /\ Len(blocks') = Len(blocks) - 1
        /\ \A k \in 1 .. Len(blocks) - 1 :
             blocks'[k] = IF k < curr THEN blocks[k] ELSE blocks[k + 1]
    BY <2>1, Unlinked
  <2>3. curr \in 1 .. Len(blocks) /\ Len(blocks) \in Nat
    BY <2>1
  <2> SUFFICES ASSUME NEW k \in 1 .. Len(blocks) - 1, NEW m \in 1 .. Len(blocks) - 1,
                      blocks'[k].label = blocks'[m].label
               PROVE  k = m
    BY <2>2 DEF Distinct
  <2> DEFINE i == IF k < curr THEN k ELSE k + 1
             j == IF m < curr THEN m ELSE m + 1
  <2>4. blocks'[k] = blocks[i] /\ blocks'[m] = blocks[j]
    BY <2>2, <2>3
  <2>5. i \in 1 .. Len(blocks) /\ j \in 1 .. Len(blocks)
    BY <2>3
  <2>6. i = j
    BY <2>4, <2>5 DEF Distinct
  <2> QED
    BY <2>3, <2>6
<1>2. CASE blocks' = blocks
  BY <1>2 DEF Distinct
<1> QED
  BY <1>1, <1>2 DEF Next, vars, Return, Mark, NullBlock, MarkData, StartUnlinking,
                    KeepBlock, FreeTwice, Finish

\* When the pass is done the blocks are what the next pass takes for granted,
\* all of them blocks that were given.
LEMMA LeftFacts ==
  ASSUME IInv, Distinct, phase = "done"
  PROVE  /\ IsBlockList(blocks)
         /\ \A k \in DOMAIN blocks : \E j \in DOMAIN in.blocks : blocks[k] = in.blocks[j]
<1>1. /\ IsInput(in) /\ DOMAIN in.blocks = Old
      /\ \A i \in DOMAIN in.blocks : /\ in.blocks[i].instructions # << >>
                                     /\ IsTerminator(LastOf(in.blocks[i]))
  BY InputFacts DEF IInv, Typed, IsInput, IsFunction, IsBlockList
<1>2. \A k \in DOMAIN blocks : \E j \in Old : blocks[k] = in.blocks[j]
  BY KeptFacts
<1>3. blocks \in Seq(IRBlock) /\ DOMAIN blocks = 1 .. Len(blocks)
  BY DEF IInv, Cursor
<1>4. Entry \in LabelsOf(blocks)
  BY KeptFacts DEF IInv, Pending
<1>5. blocks # << >>
  BY <1>4 DEF LabelsOf
<1> QED
  BY <1>1, <1>2, <1>3, <1>5 DEF IsBlockList, Distinct
-----------------------------------------------------------------------------
(* What is freed *)

\* Everything that is freed was freed before the pass, or with a block behind
\* the index.
FreedBehind ==
  \A o \in freed :
    o \in in.freed \/ \E j \in 1 .. idx - 1 : o \in ObjectsIn(in.blocks[j])

FreedIInv == FreedBehind /\ UndefinedOnlyIfShared /\ (0 \in freed => 0 \in in.freed)

\* A block that is unlinked owns its operands still.
LEMMA BlockOwned ==
  ASSUME IInv, FreedBehind, curr <= Len(blocks), OwnedOnce(in.blocks, in.freed)
  PROVE  OwnedOnce(<<blocks[curr]>>, freed)
<1>1. /\ Old = DOMAIN in.blocks /\ idx \in Old /\ blocks[curr] = in.blocks[idx]
      /\ Old = 1 .. Len(in.blocks) /\ Len(in.blocks) \in Nat
  BY InputFacts, CursorFacts DEF IInv, Typed, Old
<1> DEFINE alone == <<in.blocks[idx]>>
<1>2. DOMAIN alone = {1} /\ alone[1] = in.blocks[idx]
  OBVIOUS
<1> HIDE DEF alone
<1>3. ASSUME NEW k \in DOMAIN in.blocks[idx].instructions,
             NEW o \in Objects(in.blocks[idx].instructions[k])
      PROVE  /\ o \notin freed
             /\ \A j \in DOMAIN in.blocks[idx].instructions :
                  o \in Objects(in.blocks[idx].instructions[j]) => j = k
  <2>1. /\ o \notin in.freed
        /\ \A c \in DOMAIN in.blocks : \A j \in DOMAIN in.blocks[c].instructions :
             o \in Objects(in.blocks[c].instructions[j]) => c = idx /\ j = k
    BY <1>1, OwnedFacts
  <2>2. \A c \in 1 .. idx - 1 : c \in DOMAIN in.blocks /\ c # idx
    BY <1>1
  <2>3. \A c \in 1 .. idx - 1 : o \notin ObjectsIn(in.blocks[c])
    BY <2>1, <2>2 DEF ObjectsIn
  <2> QED
    BY <1>1, <2>1, <2>3 DEF FreedBehind
<1>4. OwnedOnce(alone, freed)
  <2> SUFFICES ASSUME NEW k \in DOMAIN in.blocks[idx].instructions
               PROVE  LET held == Objects(in.blocks[idx].instructions[k])
                      IN  /\ held \cap freed = {}
                          /\ \A j \in DOMAIN in.blocks[idx].instructions :
                               Objects(in.blocks[idx].instructions[j]) \cap held # {}
                                 => j = k
    BY <1>2 DEF OwnedOnce
  <2> QED
    BY <1>3
<1> QED
  BY <1>1, <1>4 DEF alone

LEMMA StartFreedIInv == Start => FreedIInv
  BY DEF Start, FreedIInv, FreedBehind, UndefinedOnlyIfShared

LEMMA NextFreedIInv == IInv /\ FreedIInv /\ [Next]_vars => FreedIInv'
<1> SUFFICES ASSUME IInv, FreedIInv, [Next]_vars PROVE FreedIInv'
  OBVIOUS
<1>1. CASE UnlinkBlock
  <2>1. /\ curr <= Len(blocks) /\ freed' = freed \cup ObjectsIn(blocks[curr])
        /\ idx' = idx + 1 /\ in' = in /\ phase' = "unlink"
    BY <1>1 DEF UnlinkBlock
  <2>2. blocks[curr] = in.blocks[idx] /\ idx \in Nat
    BY <2>1, InputFacts, CursorFacts DEF IInv, Typed, Old
  <2>3. idx \in 1 .. idx' - 1 /\ 1 .. idx - 1 \subseteq 1 .. idx' - 1
    BY <2>1, <2>2, CursorFacts DEF IInv, Typed, Old
  <2>4. FreedBehind'
    BY <2>1, <2>2, <2>3 DEF FreedIInv, FreedBehind
  <2>5. 0 \notin ObjectsIn(blocks[curr])
    BY DEF ObjectsIn, Objects, ObjectOf
  <2> QED
    BY <2>1, <2>4, <2>5 DEF FreedIInv, UndefinedOnlyIfShared
<1>2. CASE FreeTwice
  <2>1. ~OwnedOnce(in.blocks, in.freed)
    BY <1>2, BlockOwned DEF FreeTwice, FreedIInv
  <2> QED
    BY <1>2, <2>1 DEF FreeTwice, FreedIInv, FreedBehind, UndefinedOnlyIfShared
<1>3. CASE KeepBlock
  <2>1. 1 .. idx - 1 \subseteq 1 .. idx' - 1
    BY <1>3 DEF KeepBlock, IInv, Cursor
  <2> QED
    BY <1>3, <2>1 DEF KeepBlock, FreedIInv, FreedBehind, UndefinedOnlyIfShared
<1>4. CASE Return \/ Mark \/ NullBlock \/ MarkData \/ StartUnlinking \/ Finish
  BY <1>4 DEF Return, Mark, NullBlock, MarkData, StartUnlinking, Finish,
              FreedIInv, FreedBehind, UndefinedOnlyIfShared
<1>5. CASE UNCHANGED vars
  BY <1>5 DEF vars, FreedIInv, FreedBehind, UndefinedOnlyIfShared
<1> QED
  BY <1>1, <1>2, <1>3, <1>4, <1>5 DEF Next
-----------------------------------------------------------------------------
(* Theorems *)

LEMMA SpecIInv == InputsOK => (Spec => []IInv)
<1> SUFFICES ASSUME InputsOK PROVE Spec => []IInv
  OBVIOUS
<1>1. Init => IInv
  BY StartIInv DEF InputsOK, Init
<1>2. IInv /\ [Next]_vars => IInv'
  BY NextIInv
<1> QED
  BY <1>1, <1>2, PTL DEF Spec

\* The types of the pass's state hold for every function: what is left is made
\* of blocks that were given, and only blocks of the function are marked.
THEOREM TypeCorrect == InputsOK => (Spec => []TypeOK)
  BY SpecIInv, IInvTypeOK, PTL

\* Elimination never breaks a jump: the blocks the pass leaves of any function
\* can run on their own.
THEOREM JumpsKept == InputsOK => (Spec => []KeptClosed)
  BY SpecIInv, IInvKeptClosed, PTL

\* A block of the function that a jump table of the file lists is never lost.
THEOREM TableTargetsKept == InputsOK => (Spec => []DataKept)
  BY SpecIInv, IInvDataKept, PTL

\* The cursor in the list and the index in "seen" never come apart, although
\* unlinking moves only one of them.
THEOREM CursorsTogether == InputsOK => (Spec => []UnlinkingInStep)
  BY SpecIInv, IInvUnlinkingInStep, PTL

\* The recursion marks nothing but what the entry and the data lead to.
THEOREM MarksJustified == InputsOK => (Spec => []MarkedForAReason)
<1>1. IInv => MarkedForAReason
  BY DEF IInv, Justified
<1> QED
  BY <1>1, SpecIInv, PTL

\* The recursion follows a null pointer only for a jump to a label that no
\* block of the function has.
THEOREM NullOnlyForDangling == InputsOK => (Spec => []CrashOnlyOnDanglingJump)
<1>1. IInv => CrashOnlyOnDanglingJump
  BY DEF IInv, Justified
<1> QED
  BY <1>1, SpecIInv, PTL

\* Unlinking frees no operand twice, unless two instructions of the function
\* hold the same one or one was freed before the pass.
THEOREM FreedOnce == InputsOK => (Spec => []UndefinedOnlyIfShared)
<1> SUFFICES ASSUME InputsOK PROVE Spec => []UndefinedOnlyIfShared
  OBVIOUS
<1>1. Init => IInv /\ FreedIInv
  BY StartIInv, StartFreedIInv DEF InputsOK, Init
<1>2. (IInv /\ FreedIInv) /\ [Next]_vars => (IInv /\ FreedIInv)'
  BY NextIInv, NextFreedIInv
<1>3. IInv /\ FreedIInv => UndefinedOnlyIfShared
  BY DEF FreedIInv
<1> QED
  BY <1>1, <1>2, <1>3, PTL DEF Spec
=============================================================================
