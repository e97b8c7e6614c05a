------------------------ MODULE TraceScheduleProofs ------------------------
(***************************************************************************)
(* Theorems about TraceSchedule, for functions of any number of blocks,    *)
(* with any jumps and any jump tables.                                     *)
(*                                                                         *)
(* The recursion of scheduleBlock is a work list in the state, so the      *)
(* invariant says what is true between two calls: where each block that    *)
(* left the list stands in the output, that a call for every block it      *)
(* leads to waits, and what the instruction behind it will be.             *)
(***************************************************************************)
EXTENDS TraceSchedule, TLAPS

\* Facts about lists are proved with another pass.
Facts == INSTANCE DeadBlocksProofs WITH marked <- << >>, stack <- << >>, data <- << >>,
           curr <- 1, idx <- 1

\* Where the elements of two lists are in the two together.
LEMMA Concatenated ==
  ASSUME NEW S, NEW a \in Seq(S), NEW b \in Seq(S)
  PROVE  LET t == a \o b
         IN  /\ t \in Seq(S) /\ Len(t) = Len(a) + Len(b)
             /\ \A k \in 1 .. Len(a) : t[k] = a[k]
             /\ \A k \in 1 .. Len(b) : t[Len(a) + k] = b[k]
  OBVIOUS

\* Two lists behind one element.
LEMMA BehindFirst ==
  ASSUME NEW S, NEW e \in S, NEW a \in Seq(S), NEW b \in Seq(S)
  PROVE  LET t == <<e>> \o a \o b
         IN  /\ t \in Seq(S) /\ Len(t) = 1 + Len(a) + Len(b)
             /\ t[1] = e
             /\ \A k \in 2 .. Len(t) : t[k] = (a \o b)[k - 1]
<1> DEFINE front == <<e>> \o a
           t == front \o b
           rest == a \o b
<1>1. /\ front \in Seq(S) /\ Len(front) = 1 + Len(a) /\ front[1] = e
      /\ \A k \in 1 .. Len(a) : front[1 + k] = a[k]
  OBVIOUS
<1>2. Len(a) \in Nat /\ Len(b) \in Nat
  OBVIOUS
<1>3. /\ rest \in Seq(S) /\ Len(rest) = Len(a) + Len(b)
      /\ \A k \in 1 .. Len(a) : rest[k] = a[k]
      /\ \A k \in 1 .. Len(b) : rest[Len(a) + k] = b[k]
  BY Concatenated
<1> HIDE DEF front, rest
<1>4. /\ t \in Seq(S) /\ Len(t) = Len(front) + Len(b)
      /\ \A k \in 1 .. Len(front) : t[k] = front[k]
      /\ \A k \in 1 .. Len(b) : t[Len(front) + k] = b[k]
  <2>1. front \in Seq(S)
    BY <1>1
  <2> HIDE <1>1
  <2> QED
    BY <2>1
<1> HIDE DEF t
<1>5. ASSUME NEW k \in 2 .. Len(t)
      PROVE  t[k] = rest[k - 1]
  <2>1. CASE k - 1 \in 1 .. Len(a)
    <3>1. k \in 1 .. Len(front) /\ k = 1 + (k - 1)
      BY <1>1, <1>2, <2>1
    <3>2. t[k] = front[1 + (k - 1)]
      BY <1>4, <3>1
    <3> QED
      BY <1>1, <1>3, <2>1, <3>2
  <2>2. CASE k - 1 \notin 1 .. Len(a)
    <3> DEFINE j == k - 1 - Len(a)
    <3>1. j \in 1 .. Len(b) /\ k = Len(front) + j /\ k - 1 = Len(a) + j
      BY <1>1, <1>2, <1>4, <2>2
    <3> HIDE DEF j
    <3>2. t[k] = b[j] /\ rest[k - 1] = b[j]
      BY <1>3, <1>4, <3>1
    <3> QED
      BY <3>2
  <2> QED
    BY <2>1, <2>2
<1>6. 1 \in 1 .. Len(front)
  BY <1>1, <1>2
<1> QED
  BY <1>1, <1>4, <1>5, <1>6 DEF t, front, rest

Entry == in.blocks[1].label
Original == ElementsOf(in.blocks)
Item == [todo : {"ifFound", "orJump"}, label : Int] \cup [todo : {"free"}, objects : SUBSET Int]

\* The blocks the calls still to be made are for, and those a block leads to.
LabelsFor(items) == {w.label : w \in {w \in ElementsOf(items) : w.todo # "free"}}
TargetsOf(b) == ElementsOf(JumpTargets(LastOf(b), in.tables))

\* What a block becomes, and that it stands at p of the output and nowhere else.
Code(b) == <<LABEL(b.label)>> \o Body(b) \o EmittedFor(LastOf(b))
EmittedAt(b, p) ==
  /\ p \in 1 .. Len(out) /\ p + Len(Code(b)) - 1 <= Len(out)
  /\ \A k \in 1 .. Len(Code(b)) : out[p + k - 1] = Code(b)[k]
  /\ PositionsOf(b.label) = {p}

\* The instructions there can be in the output.
Emittable ==
  IRInstruction \cup {LABEL(n) : n \in Int} \cup {JUMP(n) : n \in Int}
    \cup {OneArgJump(i) : i \in IRInstruction}

\* What never changes, and the types the proofs need.
Typed ==
  /\ IsInput(in)
  /\ blocks \in Seq(IRBlock) /\ Len(blocks) <= Len(in.blocks)
  /\ ElementsOf(blocks) \subseteq Original
  /\ \A i, j \in 1 .. Len(blocks) : blocks[i].label = blocks[j].label => i = j
  /\ out \in Seq(Emittable)
  /\ work \in Seq(Item)
  /\ phase \in {"schedule", "done", "undefined"}

\* A block is in the list, or in the output once.
Placed ==
  /\ \A b \in Original : \/ PositionsOf(b.label) = {}
                         \/ \E p \in 1 .. Len(out) : EmittedAt(b, p)
  /\ phase # "done" =>
       \A b \in Original : b.label \in LabelsOf(blocks) <=> PositionsOf(b.label) = {}

\* Where a block that was emitted leads to was emitted, or will be.
Pending ==
  /\ out = << >> => blocks = in.blocks /\ work = <<IfFound(Entry)>> /\ phase # "done"
  /\ out # << >> => out[1] = LABEL(Entry)
  /\ \A b \in Original : b.label \in Emitted =>
       TargetsOf(b) \cap Labels \subseteq Emitted \cup LabelsFor(work)
  /\ phase = "done" => work = << >>

\* What is behind a fallthrough jump is its false target, or will be at once.
Falls ==
  /\ \A w \in 2 .. Len(work) : work[w].todo # "orJump"
  /\ \A b \in Original :
       LastOf(b).op \in TwoTarget /\ b.label \in Emitted =>
         \/ FallsInto(b, LastOf(b).args[2].name)
         \/ /\ After(b) = Len(out) + 1 /\ work # << >>
            /\ Head(work) = OrJump(LastOf(b).args[2].name)

IInv == Typed /\ Placed /\ Pending /\ Falls
-----------------------------------------------------------------------------
(* Functions *)

\* What a pass is given, in the form the proofs use it.
LEMMA InputFacts ==
  ASSUME IsInput(in)
  PROVE  /\ in.blocks \in Seq(IRBlock) /\ in.blocks[1] \in Original
         /\ Len(in.blocks) \in Nat /\ Len(in.blocks) >= 1
         /\ \A i, j \in 1 .. Len(in.blocks) : in.blocks[i].label = in.blocks[j].label => i = j
         /\ \A b \in Original : b \in IRBlock /\ b.label \in Int
         /\ \A b, c \in Original : b.label = c.label => b = c
         /\ Labels = {b.label : b \in Original}
<1>1. /\ in.blocks \in Seq(IRBlock) /\ in.blocks # << >>
      /\ \A i, j \in DOMAIN in.blocks :
           in.blocks[i].label = in.blocks[j].label => i = j
  BY DEF IsInput, IsFunction, IsBlockList
<1>2. Len(in.blocks) \in Nat /\ Len(in.blocks) >= 1 /\ DOMAIN in.blocks = 1 .. Len(in.blocks)
  BY <1>1
<1>3. Original = {in.blocks[i] : i \in 1 .. Len(in.blocks)} /\ in.blocks[1] \in Original
  BY <1>2 DEF Original, ElementsOf
<1>4. \A b \in Original : b \in IRBlock
  BY <1>1, <1>3
<1>5. \A b \in Original : b.label \in Int
  BY <1>4 DEF IRBlock
<1>6. \A b, c \in Original : b.label = c.label => b = c
  BY <1>1, <1>2, <1>3
<1>7. Labels = {b.label : b \in Original}
  BY <1>2, <1>3 DEF Labels, LabelsOf
<1> QED
  BY <1>1, <1>2, <1>3, <1>4, <1>5, <1>6, <1>7

\* A block of the function and its last instruction.
LEMMA BlockFacts ==
  ASSUME IsInput(in), NEW b \in Original
  PROVE  /\ b.instructions \in Seq(IRInstruction) /\ Len(b.instructions) >= 1
         /\ \A k \in 1 .. Len(b.instructions) : b.instructions[k].op # "LABEL"
         /\ LastOf(b) \in IRInstruction /\ LastOf(b).op # "LABEL"
         /\ IsTerminator(LastOf(b))
         /\ LastOf(b).args \in Seq(IROperand)
         /\ \A a \in 1 .. Len(LastOf(b).args) :
              LastOf(b).args[a].name \in Int /\ LastOf(b).args[a].obj \in Int
         /\ in.tables \in [DOMAIN in.tables -> Seq(Int)]
         /\ LastOf(b).op = "JUMPTABLE" => LastOf(b).args[2].name \in DOMAIN in.tables
<1> DEFINE last == LastOf(b)
<1>1. /\ b \in IRBlock /\ b.instructions # << >> /\ IsTerminator(last)
      /\ in.tables \in [DOMAIN in.tables -> Seq(Int)]
      /\ last.op = "JUMPTABLE" => last.args[2].name \in DOMAIN in.tables
      /\ \A k \in DOMAIN b.instructions : b.instructions[k].op # "LABEL"
  <2> PICK i \in DOMAIN in.blocks : b = in.blocks[i]
    BY DEF Original, ElementsOf
  <2> QED
    BY InputFacts DEF IsInput, IsFunction, IsBlockList
<1>2. b.instructions \in Seq(IRInstruction)
  BY <1>1 DEF IRBlock
<1>3. /\ Len(b.instructions) >= 1 /\ Len(b.instructions) \in Nat
      /\ DOMAIN b.instructions = 1 .. Len(b.instructions)
  BY <1>1, <1>2
<1>4. last \in IRInstruction /\ last.op # "LABEL"
  BY <1>1, <1>2, <1>3 DEF LastOf
<1> HIDE DEF last
<1>5. last.args \in Seq(IROperand)
  BY <1>4 DEF IRInstruction
<1>6. \A a \in 1 .. Len(last.args) : last.args[a].name \in Int /\ last.args[a].obj \in Int
  <2> TAKE a \in 1 .. Len(last.args)
  <2>1. last.args[a] \in IROperand
    BY <1>5
  <2> QED
    BY <2>1 DEF IROperand
<1> QED
  BY <1>1, <1>2, <1>3, <1>4, <1>5, <1>6 DEF last

\* Labels are different for different blocks, and no jumps.
LEMMA LabelFacts ==
  ASSUME NEW n \in Int
  PROVE  /\ LABEL(n) \in Emittable /\ LABEL(n).op = "LABEL"
         /\ JUMP(n) \in Emittable /\ JUMP(n).op # "LABEL"
         /\ \A m : LABEL(m) = LABEL(n) => m = n
<1>1. LABEL(n) \in Emittable /\ JUMP(n) \in Emittable
  BY DEF Emittable
<1>2. LABEL(n).op = "LABEL" /\ JUMP(n).op = "JUMP"
  BY DEF LABEL, JUMP
<1>3. ASSUME NEW m, LABEL(m) = LABEL(n)
      PROVE  m = n
  <2>1. LABEL(m).args[1] = Local(m) /\ LABEL(n).args[1] = Local(n)
    BY DEF LABEL
  <2>2. Local(m).name = m /\ Local(n).name = n
    BY DEF Local, Operand
  <2> QED
    BY <1>3, <2>1, <2>2
<1> QED
  BY <1>1, <1>2, <1>3

\* No conditional jump becomes a label.
LEMMA OneArgJumpFacts ==
  ASSUME NEW i \in IRInstruction, i.op \in TwoTarget
  PROVE  OneArgJump(i) \in Emittable /\ OneArgJump(i).op # "LABEL"
<1>1. OneArgJump(i).op = FallthroughOp[i.op]
  BY DEF OneArgJump, Copied
<1>2. \A op \in CJumps : FallthroughOp[op] # "LABEL"
  BY DEF FallthroughOp, CJumps
<1>3. \A op \in BJumps : FallthroughOp[op] # "LABEL"
  BY DEF FallthroughOp, BJumps
<1> QED
  BY <1>1, <1>2, <1>3 DEF TwoTarget, Emittable

\* What a block becomes: its label, and instructions that are no labels.
LEMMA CodeFacts ==
  ASSUME IsInput(in), NEW b \in Original
  PROVE  /\ Body(b) \in Seq(Emittable) /\ EmittedFor(LastOf(b)) \in Seq(Emittable)
         /\ Code(b) \in Seq(Emittable)
         /\ Len(Code(b)) = 1 + Len(Body(b)) + Len(EmittedFor(LastOf(b)))
         /\ Code(b)[1] = LABEL(b.label)
         /\ \A k \in 2 .. Len(Code(b)) :
              /\ Code(b)[k].op # "LABEL"
              /\ Code(b)[k] = (Body(b) \o EmittedFor(LastOf(b)))[k - 1]
<1> DEFINE last == LastOf(b)
           first == LABEL(b.label)
           body == Body(b)
           end == EmittedFor(last)
<1>1. /\ b.instructions \in Seq(IRInstruction) /\ Len(b.instructions) >= 1
      /\ \A k \in 1 .. Len(b.instructions) : b.instructions[k].op # "LABEL"
      /\ last \in IRInstruction /\ last.op # "LABEL" /\ IsTerminator(last)
      /\ b.label \in Int
  BY BlockFacts, InputFacts
<1>2. first \in Emittable
  BY <1>1, LabelFacts
<1>3. body \in Seq(Emittable) /\ \A k \in 1 .. Len(body) : body[k].op # "LABEL"
  <2>1. Len(b.instructions) - 1 \in 0 .. Len(b.instructions)
    BY <1>1
  <2>2. /\ body \in Seq(IRInstruction) /\ Len(body) = Len(b.instructions) - 1
        /\ \A k \in 1 .. Len(body) : body[k] = b.instructions[k]
    BY <1>1, <2>1 DEF Body
  <2>3. body \in Seq(Emittable)
    BY <2>2 DEF Emittable
  <2> QED
    BY <1>1, <2>2, <2>3
<1>4. end \in Seq(Emittable) /\ \A k \in 1 .. Len(end) : end[k].op # "LABEL"
  <2> HIDE DEF last
  <2>1. CASE last.op = "JUMP"
    <3>1. end = << >>
      BY <2>1 DEF EmittedFor, TwoTarget, CJumps, BJumps
    <3> QED
      BY <3>1
  <2>2. CASE last.op \in TwoTarget
    <3>1. end = <<OneArgJump(last)>>
      BY <2>2 DEF EmittedFor, TwoTarget, CJumps, BJumps
    <3>2. OneArgJump(last) \in Emittable /\ OneArgJump(last).op # "LABEL"
      BY <1>1, <2>2, OneArgJumpFacts
    <3> QED
      BY <3>1, <3>2
  <2>3. CASE last.op \in {"JUMPTABLE", "RETURN"}
    <3>1. end = <<last>>
      BY <2>3 DEF EmittedFor, TwoTarget, CJumps, BJumps
    <3>2. last \in Emittable
      BY <1>1 DEF Emittable
    <3> QED
      BY <1>1, <3>1, <3>2
  <2> QED
    BY <1>1, <2>1, <2>2, <2>3 DEF IsTerminator
<1> HIDE DEF first, body, end
<1> DEFINE rest == body \o end
           all == <<first>> \o body \o end
<1>5. /\ rest \in Seq(Emittable) /\ Len(rest) = Len(body) + Len(end)
      /\ \A k \in 1 .. Len(rest) : rest[k].op # "LABEL"
  <2>1. /\ rest \in Seq(Emittable) /\ Len(rest) = Len(body) + Len(end)
        /\ \A k \in 1 .. Len(body) : rest[k] = body[k]
        /\ \A k \in Len(body) + 1 .. Len(rest) : rest[k] = end[k - Len(body)]
    BY <1>3, <1>4
  <2>2. ASSUME NEW k \in 1 .. Len(rest)
        PROVE  rest[k].op # "LABEL"
    <3>1. Len(body) \in Nat /\ Len(end) \in Nat
      BY <1>3, <1>4
    <3>2. CASE k <= Len(body)
      BY <1>3, <2>1, <3>1, <3>2
    <3>3. CASE k > Len(body)
      <4>1. k \in Len(body) + 1 .. Len(rest) /\ k - Len(body) \in 1 .. Len(end)
        BY <2>1, <3>1, <3>3
      <4> QED
        BY <1>4, <2>1, <4>1
    <3> QED
      BY <3>1, <3>2, <3>3
  <2> QED
    BY <2>1, <2>2
<1>6. /\ all \in Seq(Emittable) /\ Len(all) = 1 + Len(body) + Len(end)
      /\ all[1] = first
      /\ \A k \in 2 .. Len(all) : all[k] = rest[k - 1]
  BY <1>2, <1>3, <1>4, BehindFirst
<1>7. \A k \in 2 .. Len(all) : k - 1 \in 1 .. Len(rest)
  BY <1>3, <1>4, <1>5, <1>6
<1>8. Code(b) = all
  BY DEF Code, first, body, end, last
<1> HIDE DEF rest, all
<1> QED
  BY <1>2, <1>3, <1>4, <1>5, <1>6, <1>7, <1>8 DEF first, body, end, last, rest

\* The calls an instruction leads to: one for each label, and only the first one
\* of a conditional jump is for a false target.
LEMMA TargetsFacts ==
  ASSUME IsInput(in), NEW b \in Original
  PROVE  LET t == JumpTargets(LastOf(b), in.tables)
         IN  /\ t \in Seq(Int)
             /\ LastOf(b).op \in TwoTarget =>
                  t = <<LastOf(b).args[1].name, LastOf(b).args[2].name>>
<1> DEFINE last == LastOf(b)
           t == JumpTargets(last, in.tables)
<1>1. /\ IsTerminator(last) /\ last.args \in Seq(IROperand)
      /\ \A a \in 1 .. Len(last.args) : last.args[a].name \in Int
      /\ in.tables \in [DOMAIN in.tables -> Seq(Int)]
      /\ last.op = "JUMPTABLE" => last.args[2].name \in DOMAIN in.tables
  BY BlockFacts
<1> HIDE DEF last
<1>2. CASE last.op = "JUMP"
  <2>1. t = <<last.args[1].name>> /\ last.op \notin TwoTarget
    BY <1>2 DEF JumpTargets, TwoTarget, CJumps, BJumps
  <2>2. Len(last.args) = 1
    BY <1>1, <1>2 DEF IsTerminator, TwoTarget, CJumps, BJumps
  <2>3. last.args[1].name \in Int
    BY <1>1, <2>2
  <2> QED
    BY <2>1, <2>3 DEF last
<1>3. CASE last.op = "JUMPTABLE"
  <2>1. t = in.tables[last.args[2].name] /\ last.op \notin TwoTarget
    BY <1>3 DEF JumpTargets, TwoTarget, CJumps, BJumps
  <2> QED
    BY <1>1, <1>3, <2>1 DEF last
<1>4. CASE last.op = "RETURN"
  <2>1. t = << >> /\ last.op \notin TwoTarget
    BY <1>4 DEF JumpTargets, TwoTarget, CJumps, BJumps
  <2> QED
    BY <2>1 DEF last
<1>5. CASE last.op \in TwoTarget
  <2>1. t = <<last.args[1].name, last.args[2].name>>
    BY <1>5 DEF JumpTargets, TwoTarget, CJumps, BJumps
  <2>2. Len(last.args) \in {3, 4}
    BY <1>1, <1>5 DEF IsTerminator, TwoTarget, CJumps, BJumps
  <2>3. last.args[1].name \in Int /\ last.args[2].name \in Int
    BY <1>1, <2>2
  <2> QED
    BY <2>1, <2>3 DEF last
<1> QED
  BY <1>1, <1>2, <1>3, <1>4, <1>5 DEF IsTerminator

LEMMA ItemFacts ==
  /\ \A l \in Int : /\ IfFound(l) \in Item /\ OrJump(l) \in Item
                    /\ IfFound(l).todo = "ifFound" /\ OrJump(l).todo = "orJump"
                    /\ IfFound(l).label = l /\ OrJump(l).label = l
  /\ \A o \in SUBSET Int : Free(o) \in Item /\ Free(o).todo = "free"
  /\ \A w \in Item : /\ w.todo \in {"ifFound", "orJump", "free"}
                     /\ w.todo # "free" => w.label \in Int
                     /\ w.todo = "orJump" => w = OrJump(w.label)
                     /\ w.todo = "free" => w.objects \in SUBSET Int
  BY DEF Item, IfFound, OrJump, Free

LEMMA WorkFacts ==
  ASSUME IsInput(in), NEW b \in Original
  PROVE  LET w == WorkFor(LastOf(b))
         IN  /\ w \in Seq(Item)
             /\ LabelsFor(w) = TargetsOf(b) /\ TargetsOf(b) \subseteq Int
             /\ \A k \in 2 .. Len(w) : w[k].todo # "orJump"
             /\ LastOf(b).op \in TwoTarget =>
                  Len(w) = 2 /\ w[1] = OrJump(LastOf(b).args[2].name)
             /\ LastOf(b).op \notin TwoTarget => \A k \in 1 .. Len(w) : w[k].todo # "orJump"
<1> DEFINE last == LastOf(b)
           t == JumpTargets(last, in.tables)
           w == WorkFor(last)
<1>1. t \in Seq(Int) /\ (last.op \in TwoTarget => t = <<last.args[1].name, last.args[2].name>>)
  BY TargetsFacts
<1>2. TargetsOf(b) = ElementsOf(t)
  BY DEF TargetsOf
<1>3. w = IF last.op \in TwoTarget THEN <<OrJump(t[2]), IfFound(t[1])>>
          ELSE [k \in DOMAIN t |-> IfFound(t[k])]
  BY DEF WorkFor
<1> HIDE DEF last, t, w
<1>4. /\ ElementsOf(t) = {t[k] : k \in 1 .. Len(t)} /\ DOMAIN t = 1 .. Len(t)
      /\ \A k \in 1 .. Len(t) : t[k] \in Int
  BY <1>1 DEF ElementsOf
<1>5. CASE last.op \in TwoTarget
  <2> DEFINE p == last.args[1].name
             q == last.args[2].name
  <2>1. t = <<p, q>> /\ Len(t) = 2 /\ t[1] = p /\ t[2] = q
    BY <1>1, <1>5
  <2>2. p \in Int /\ q \in Int
    BY <1>4, <2>1
  <2>3. w = <<OrJump(q), IfFound(p)>>
    BY <1>3, <1>5, <2>1
  <2> HIDE DEF p, q
  <2>4. OrJump(q) \in Item /\ IfFound(p) \in Item
    BY <2>2, ItemFacts
  <2>5. w \in Seq(Item) /\ Len(w) = 2 /\ w[1] = OrJump(q) /\ w[2] = IfFound(p)
    BY <2>3, <2>4
  <2>6. ElementsOf(w) = {OrJump(q), IfFound(p)}
    BY <2>3 DEF ElementsOf
  <2>7. ElementsOf(t) = {p, q}
    BY <2>1 DEF ElementsOf
  <2>8. LabelsFor(w) = {p, q}
    <3>1. /\ OrJump(q).todo # "free" /\ IfFound(p).todo # "free"
          /\ OrJump(q).label = q /\ IfFound(p).label = p
      BY <2>2, ItemFacts
    <3> QED
      BY <2>6, <3>1 DEF LabelsFor
  <2>9. IfFound(p).todo # "orJump"
    BY <2>2, ItemFacts
  <2>10. \A k \in 2 .. Len(w) : k = 2
    BY <2>5
  <2> QED
    BY <1>2, <1>5, <2>2, <2>5, <2>7, <2>8, <2>9, <2>10 DEF w, t, last, p, q
<1>6. CASE last.op \notin TwoTarget
  <2>1. w = [k \in 1 .. Len(t) |-> IfFound(t[k])]
    BY <1>3, <1>4, <1>6
  <2>2. \A k \in 1 .. Len(t) : /\ IfFound(t[k]) \in Item /\ IfFound(t[k]).todo = "ifFound"
                              /\ IfFound(t[k]).label = t[k]
    BY <1>4, ItemFacts
  <2>3. Len(t) \in Nat
    BY <1>1
  <2>4. /\ w \in Seq(Item) /\ Len(w) = Len(t) /\ DOMAIN w = 1 .. Len(t)
        /\ \A k \in 1 .. Len(t) : w[k] = IfFound(t[k])
    BY <2>1, <2>2, <2>3
  <2>5. LabelsFor(w) = {t[k] : k \in 1 .. Len(t)}
    BY <2>2, <2>4 DEF LabelsFor, ElementsOf
  <2>6. \A k \in 1 .. Len(w) : w[k].todo # "orJump"
    BY <2>2, <2>4
  <2> QED
    BY <1>2, <1>4, <1>6, <2>3, <2>4, <2>5, <2>6 DEF w, t, last
<1> QED
  BY <1>5, <1>6

\* What a call does last is to free, or nothing.
LEMMA FreeingFacts ==
  ASSUME IsInput(in), NEW b \in Original
  PROVE  LET f == Freeing(b)
         IN  /\ f \in Seq(Item) /\ LabelsFor(f) = {}
             /\ \A k \in 1 .. Len(f) : f[k].todo = "free"
<1> DEFINE last == LastOf(b)
<1>1. FreedWith(b) \in SUBSET Int
  <2>1. /\ last.args \in Seq(IROperand)
        /\ \A a \in 1 .. Len(last.args) : last.args[a].obj \in Int
    BY BlockFacts
  <2> HIDE DEF last
  <2>2. Objects(last) \subseteq Int
    BY <2>1 DEF Objects, ObjectOf
  <2> QED
    BY <2>2 DEF FreedWith, last
<1>2. CASE FreedWith(b) = {}
  BY <1>2 DEF Freeing, LabelsFor, ElementsOf
<1>3. CASE FreedWith(b) # {}
  <2> DEFINE item == Free(FreedWith(b))
  <2>1. Freeing(b) = <<item>>
    BY <1>3 DEF Freeing
  <2>2. item \in Item /\ item.todo = "free"
    BY <1>1, ItemFacts
  <2> HIDE DEF item
  <2>3. <<item>> \in Seq(Item) /\ Len(<<item>>) = 1 /\ ElementsOf(<<item>>) = {item}
    BY <2>2 DEF ElementsOf
  <2>4. LabelsFor(<<item>>) = {}
    BY <2>2, <2>3 DEF LabelsFor
  <2> QED
    BY <2>1, <2>2, <2>3, <2>4
<1> QED
  BY <1>2, <1>3
-----------------------------------------------------------------------------
(* Lists *)

\* The block a call takes off the list is one of the function, and the others
\* stay.
LEMMA TakenFacts ==
  ASSUME Typed, NEW l, HasBlock(blocks, l)
  PROVE  LET b == FindBlock(blocks, l)
             rest == Without(blocks, l)
         IN  /\ b \in Original /\ b.label = l
             /\ rest \in Seq(IRBlock) /\ Len(rest) <= Len(in.blocks)
             /\ ElementsOf(rest) \subseteq Original
             /\ \A i, j \in 1 .. Len(rest) : rest[i].label = rest[j].label => i = j
             /\ LabelsOf(rest) = LabelsOf(blocks) \ {l}
<1> DEFINE n == IndexOfBlock(blocks, l)
           rest == Without(blocks, l)
<1>1. /\ IsInput(in) /\ blocks \in Seq(IRBlock) /\ ElementsOf(blocks) \subseteq Original
      /\ \A i, j \in 1 .. Len(blocks) : blocks[i].label = blocks[j].label => i = j
      /\ Len(blocks) <= Len(in.blocks) /\ Len(blocks) \in Nat /\ Len(in.blocks) \in Nat
      /\ DOMAIN blocks = 1 .. Len(blocks)
  BY InputFacts DEF Typed
<1>2. n \in 1 .. Len(blocks) /\ blocks[n].label = l
  BY <1>1 DEF HasBlock, IndexOfBlock
<1>3. FindBlock(blocks, l) = blocks[n] /\ blocks[n] \in Original
  BY <1>1, <1>2 DEF FindBlock, ElementsOf
<1> HIDE DEF n
<1>4. /\ rest \in Seq(IRBlock) /\ Len(rest) = Len(blocks) - 1
      /\ \A k \in 1 .. Len(rest) : rest[k] = IF k < n THEN blocks[k] ELSE blocks[k + 1]
  <2>1. rest = SubSeq(blocks, 1, n - 1) \o SubSeq(blocks, n + 1, Len(blocks))
    BY DEF Without, n
  <2> HIDE DEF rest
  <2> QED
    BY <1>1, <1>2, <2>1, Facts!Unlinked
<1> HIDE DEF rest
<1>5. DOMAIN rest = 1 .. Len(rest)
  BY <1>4
<1>6. \A k \in 1 .. Len(rest) :
        \E i \in 1 .. Len(blocks) : i # n /\ rest[k] = blocks[i]
  <2> SUFFICES ASSUME NEW k \in 1 .. Len(rest)
               PROVE  \E i \in 1 .. Len(blocks) : i # n /\ rest[k] = blocks[i]
    OBVIOUS
  <2>1. CASE k < n
    BY <1>1, <1>2, <1>4, <2>1
  <2>2. CASE k >= n
    <3>1. k + 1 \in 1 .. Len(blocks) /\ k + 1 # n /\ rest[k] = blocks[k + 1]
      BY <1>1, <1>2, <1>4, <2>2
    <3> QED
      BY <3>1
  <2> QED
    BY <1>2, <1>4, <2>1, <2>2
<1>7. \A i \in 1 .. Len(blocks) :
        i # n => \E k \in 1 .. Len(rest) : rest[k] = blocks[i]
  <2> SUFFICES ASSUME NEW i \in 1 .. Len(blocks), i # n
               PROVE  \E k \in 1 .. Len(rest) : rest[k] = blocks[i]
    OBVIOUS
  <2>1. CASE i < n
    <3>1. i \in 1 .. Len(rest) /\ rest[i] = blocks[i]
      BY <1>1, <1>2, <1>4, <2>1
    <3> QED
      BY <3>1
  <2>2. CASE i > n
    <3>1. i - 1 \in 1 .. Len(rest) /\ ~(i - 1 < n) /\ i - 1 + 1 = i
      BY <1>1, <1>2, <1>4, <2>2
    <3>2. rest[i - 1] = blocks[i]
      BY <1>4, <3>1
    <3> QED
      BY <3>1, <3>2
  <2> QED
    BY <1>2, <2>1, <2>2
<1>8. ElementsOf(rest) \subseteq ElementsOf(blocks)
  <2>1. /\ ElementsOf(rest) = {rest[k] : k \in 1 .. Len(rest)}
        /\ ElementsOf(blocks) = {blocks[k] : k \in 1 .. Len(blocks)}
    BY <1>1, <1>5 DEF ElementsOf
  <2> QED
    BY <1>6, <2>1, Zenon
<1>9. LabelsOf(rest) = LabelsOf(blocks) \ {l}
  <2>1. \A i \in 1 .. Len(blocks) : i # n => blocks[i].label # l
    BY <1>1, <1>2
  <2>2. /\ LabelsOf(rest) = {rest[k].label : k \in 1 .. Len(rest)}
        /\ LabelsOf(blocks) = {blocks[k].label : k \in 1 .. Len(blocks)}
    BY <1>1, <1>5 DEF LabelsOf
  <2>3. LabelsOf(rest) \subseteq LabelsOf(blocks) \ {l}
    BY <1>6, <2>1, <2>2, Zenon
  <2>4. LabelsOf(blocks) \ {l} \subseteq LabelsOf(rest)
    BY <1>2, <1>7, <2>2, Zenon
  <2> QED
    BY <2>3, <2>4
<1>10. \A i, j \in 1 .. Len(rest) : rest[i].label = rest[j].label => i = j
  <2> SUFFICES ASSUME NEW i \in 1 .. Len(rest), NEW j \in 1 .. Len(rest),
                      rest[i].label = rest[j].label
               PROVE  i = j
    OBVIOUS
  <2> DEFINE at(k) == IF k < n THEN k ELSE k + 1
  <2>1. /\ at(i) \in 1 .. Len(blocks) /\ rest[i] = blocks[at(i)]
        /\ at(j) \in 1 .. Len(blocks) /\ rest[j] = blocks[at(j)]
    BY <1>1, <1>2, <1>4
  <2>2. at(i) = at(j)
    BY <1>1, <2>1
  <2> QED
    BY <1>2, <2>2
<1> QED
  BY <1>1, <1>2, <1>3, <1>4, <1>8, <1>9, <1>10 DEF rest

\* Emitting what is not a block's label leaves the block where it is.
LEMMA Extended ==
  ASSUME Typed, in' = in, NEW s \in Seq(Emittable), out' = out \o s,
         NEW b \in Original, \A k \in 1 .. Len(s) : s[k] # LABEL(b.label)
  PROVE  /\ PositionsOf(b.label)' = PositionsOf(b.label)
         /\ \A p \in 1 .. Len(out) : EmittedAt(b, p) => EmittedAt(b, p)'
         /\ After(b)' = After(b)
         /\ \A l : FallsInto(b, l) => FallsInto(b, l)'
<1>1. out \in Seq(Emittable) /\ Len(out) \in Nat /\ Len(s) \in Nat
  BY DEF Typed
<1>2. /\ out' \in Seq(Emittable) /\ Len(out') = Len(out) + Len(s)
      /\ \A k \in 1 .. Len(out) : out'[k] = out[k]
      /\ \A k \in 1 .. Len(s) : out'[Len(out) + k] = s[k]
  <2> DEFINE t == out \o s
  <2>1. /\ t \in Seq(Emittable) /\ Len(t) = Len(out) + Len(s)
        /\ \A k \in 1 .. Len(out) : t[k] = out[k]
        /\ \A k \in 1 .. Len(s) : t[Len(out) + k] = s[k]
    BY <1>1, Concatenated
  <2> QED
    BY <2>1
<1>3. DOMAIN out = 1 .. Len(out) /\ DOMAIN out' = 1 .. Len(out) + Len(s)
  BY <1>1, <1>2
<1>4. \A k \in 1 .. Len(out) + Len(s) :
        k \in 1 .. Len(out) \/ \E j \in 1 .. Len(s) : k = Len(out) + j
  <2> SUFFICES ASSUME NEW k \in 1 .. Len(out) + Len(s), k \notin 1 .. Len(out)
               PROVE  \E j \in 1 .. Len(s) : k = Len(out) + j
    OBVIOUS
  <2>1. k - Len(out) \in 1 .. Len(s) /\ k = Len(out) + (k - Len(out))
    BY <1>1
  <2> QED
    BY <2>1
<1>5. \A k \in DOMAIN out' : out'[k] = LABEL(b.label) => k \in DOMAIN out
  BY <1>2, <1>3, <1>4
<1>6. \A k \in DOMAIN out : k \in DOMAIN out' /\ out'[k] = out[k]
  BY <1>1, <1>2, <1>3
<1>7. PositionsOf(b.label)' = PositionsOf(b.label)
  BY <1>5, <1>6 DEF PositionsOf
<1>8. After(b)' = After(b)
  BY <1>7 DEF After
<1>9. ASSUME NEW p \in 1 .. Len(out), EmittedAt(b, p)
      PROVE  EmittedAt(b, p)'
  <2> DEFINE c == Code(b)
  <2>1. /\ p + Len(c) - 1 <= Len(out) /\ PositionsOf(b.label) = {p}
        /\ \A k \in 1 .. Len(c) : out[p + k - 1] = c[k]
    BY <1>9 DEF EmittedAt
  <2>2. c \in Seq(Emittable) /\ Len(c) \in Nat
    BY CodeFacts DEF Typed
  <2> HIDE DEF c
  <2>3. \A k \in 1 .. Len(c) : p + k - 1 \in 1 .. Len(out)
    BY <1>1, <2>1, <2>2
  <2>4. \A k \in 1 .. Len(c) : out'[p + k - 1] = c[k]
    BY <1>2, <2>1, <2>3
  <2>5. p \in 1 .. Len(out') /\ p + Len(c) - 1 <= Len(out')
    BY <1>1, <1>2, <2>1, <2>2
  <2> QED
    BY <1>7, <2>1, <2>4, <2>5 DEF EmittedAt, c
<1>10. \A l : FallsInto(b, l) => FallsInto(b, l)'
  BY <1>6, <1>8 DEF FallsInto
<1> QED
  BY <1>7, <1>8, <1>9, <1>10

\* A block's code behind the output: the block stands there, and every other
\* block stands where it stood.
LEMMA Added ==
  ASSUME Typed, in' = in, NEW b \in Original, PositionsOf(b.label) = {},
         out' = out \o Code(b)
  PROVE  /\ out' \in Seq(Emittable) /\ Len(out') = Len(out) + Len(Code(b))
         /\ Len(Code(b)) >= 1 /\ Len(out) \in Nat
         /\ \A k \in 1 .. Len(out) : out'[k] = out[k]
         /\ out'[Len(out) + 1] = LABEL(b.label)
         /\ \E p \in 1 .. Len(out') : EmittedAt(b, p)'
         /\ After(b)' = Len(out') + 1 /\ PositionsOf(b.label)' # {}
         /\ \A c \in Original :
              c # b => \A k \in 1 .. Len(Code(b)) : Code(b)[k] # LABEL(c.label)
<1> DEFINE code == Code(b)
           p == Len(out) + 1
<1>1. out \in Seq(Emittable) /\ Len(out) \in Nat /\ IsInput(in)
  BY DEF Typed
<1>2. /\ code \in Seq(Emittable) /\ Len(code) = 1 + Len(Body(b)) + Len(EmittedFor(LastOf(b)))
      /\ Body(b) \in Seq(Emittable) /\ EmittedFor(LastOf(b)) \in Seq(Emittable)
      /\ code[1] = LABEL(b.label)
      /\ \A k \in 2 .. Len(code) : code[k].op # "LABEL"
  BY <1>1, CodeFacts
<1> HIDE DEF code
<1>3. /\ Len(code) >= 1 /\ Len(code) \in Nat
      /\ \A k \in 1 .. Len(code) : k = 1 \/ k \in 2 .. Len(code)
  BY <1>2
<1>4. /\ out' \in Seq(Emittable) /\ Len(out') = Len(out) + Len(code)
      /\ \A k \in 1 .. Len(out) : out'[k] = out[k]
      /\ \A k \in 1 .. Len(code) : out'[Len(out) + k] = code[k]
  <2> DEFINE t == out \o code
  <2>1. /\ t \in Seq(Emittable) /\ Len(t) = Len(out) + Len(code)
        /\ \A k \in 1 .. Len(out) : t[k] = out[k]
        /\ \A k \in 1 .. Len(code) : t[Len(out) + k] = code[k]
    <3>1. out \in Seq(Emittable) /\ code \in Seq(Emittable)
      BY <1>1, <1>2
    <3> QED
      BY ONLY <3>1, Concatenated
  <2>2. out' = t
    BY DEF code
  <2> HIDE DEF t
  <2> QED
    BY <2>1, <2>2
<1>5. out'[p] = LABEL(b.label)
  BY <1>2, <1>3, <1>4
<1>6. ASSUME NEW k \in DOMAIN out', out'[k] = LABEL(b.label)
      PROVE  k = p
  <2>1. k \in 1 .. Len(out) + Len(code)
    BY <1>4
  <2>2. CASE k \in 1 .. Len(out)
    <3>1. out[k] = LABEL(b.label) /\ k \in DOMAIN out
      BY <1>1, <1>4, <1>6, <2>2
    <3> QED
      BY <3>1 DEF PositionsOf
  <2>3. CASE k \notin 1 .. Len(out) /\ k # p
    <3>1. k - Len(out) \in 2 .. Len(code) /\ k - Len(out) \in 1 .. Len(code)
          /\ k = Len(out) + (k - Len(out))
      BY <1>1, <1>3, <2>1, <2>3
    <3>2. out'[k] = code[k - Len(out)] /\ code[k - Len(out)].op # "LABEL"
      BY <1>2, <1>4, <3>1
    <3>3. LABEL(b.label).op = "LABEL"
      BY DEF LABEL
    <3> QED
      BY <1>6, <3>2, <3>3
  <2> QED
    BY <2>2, <2>3
<1>7. p \in DOMAIN out' /\ p \in 1 .. Len(out')
  BY <1>1, <1>3, <1>4
<1>8. PositionsOf(b.label)' = {p}
  BY <1>5, <1>6, <1>7 DEF PositionsOf
<1>9. ASSUME NEW q, q = p
      PROVE  EmittedAt(b, q)'
  <2>1. \A k \in 1 .. Len(code) : q + k - 1 = Len(out) + k
    BY <1>1, <1>9
  <2>2. \A k \in 1 .. Len(code) : out'[q + k - 1] = code[k]
    BY <1>4, <2>1
  <2>3. q + Len(code) - 1 <= Len(out')
    BY <1>1, <1>3, <1>4, <1>9
  <2>4. q \in 1 .. Len(out') /\ PositionsOf(b.label)' = {q}
    BY <1>7, <1>8, <1>9
  <2> HIDE DEF p
  <2> QED
    BY <2>2, <2>3, <2>4 DEF EmittedAt, code
<1>10. After(b)' = Len(out') + 1
  <2>1. After(b)' = p + Len(Body(b)) + Len(EmittedFor(LastOf(b))) + 1
    BY <1>8 DEF After
  <2> QED
    BY <1>1, <1>2, <1>4, <2>1
<1>11. ASSUME NEW c \in Original, c # b, NEW k \in 1 .. Len(code)
       PROVE  code[k] # LABEL(c.label)
  <2>1. c.label # b.label /\ c.label \in Int /\ b.label \in Int
    BY <1>1, <1>11, InputFacts
  <2>2. LABEL(c.label) # LABEL(b.label) /\ LABEL(c.label).op = "LABEL"
    BY <2>1, LabelFacts
  <2> QED
    BY <1>2, <1>3, <2>2
<1>12. \E q \in 1 .. Len(out') : EmittedAt(b, q)'
  BY <1>7, <1>9
<1> QED
  BY <1>1, <1>3, <1>4, <1>5, <1>8, <1>10, <1>11, <1>12 DEF code

\* The calls waiting, when one is answered and when more are put before them.
LEMMA LabelsForFacts ==
  /\ \A s \in Seq(Item) : s # << >> =>
       LabelsFor(s) = (IF Head(s).todo = "free" THEN {} ELSE {Head(s).label})
                         \cup LabelsFor(Tail(s))
  /\ \A s, t \in Seq(Item) : LabelsFor(s \o t) = LabelsFor(s) \cup LabelsFor(t)
<1>1. ASSUME NEW s \in Seq(Item), s # << >>
      PROVE  LabelsFor(s) = (IF Head(s).todo = "free" THEN {} ELSE {Head(s).label})
                               \cup LabelsFor(Tail(s))
  <2>1. ElementsOf(s) = {Head(s)} \cup ElementsOf(Tail(s))
    BY <1>1, Facts!ElementsTail DEF ElementsOf, Facts!ElementsOf
  <2> QED
    BY <2>1 DEF LabelsFor
<1>2. ASSUME NEW s \in Seq(Item), NEW t \in Seq(Item)
      PROVE  LabelsFor(s \o t) = LabelsFor(s) \cup LabelsFor(t)
  <2>1. ElementsOf(s \o t) = ElementsOf(s) \cup ElementsOf(t)
    <3>1. Facts!ElementsOf(s \o t) = Facts!ElementsOf(s) \cup Facts!ElementsOf(t)
      BY Facts!ElementsConcatenated
    <3>2. \A u : Facts!ElementsOf(u) = ElementsOf(u)
      BY DEF ElementsOf, Facts!ElementsOf
    <3> QED
      BY <3>1, <3>2
  <2> QED
    BY <2>1 DEF LabelsFor
<1> QED
  BY <1>1, <1>2

\* Where the calls a block leads to are in the list of calls.
LEMMA WorkPlaces ==
  ASSUME NEW a \in Seq(Item), NEW b \in Seq(Item), NEW c \in Seq(Item)
  PROVE  /\ a \o b \o c \in Seq(Item)
         /\ Len(a) >= 1 => a \o b \o c # << >> /\ Head(a \o b \o c) = a[1]
         /\ \A k \in 1 .. Len(a \o b \o c) :
              \/ k \in 1 .. Len(a) /\ (a \o b \o c)[k] = a[k]
              \/ \E j \in 1 .. Len(b) : (a \o b \o c)[k] = b[j]
              \/ \E j \in 1 .. Len(c) : (a \o b \o c)[k] = c[j]
<1> DEFINE d == a \o b
           t == d \o c
<1>1. /\ d \in Seq(Item) /\ Len(d) = Len(a) + Len(b)
      /\ \A k \in 1 .. Len(a) : d[k] = a[k]
      /\ \A k \in 1 .. Len(b) : d[Len(a) + k] = b[k]
  BY Concatenated
<1>2. Len(a) \in Nat /\ Len(b) \in Nat /\ Len(c) \in Nat
  OBVIOUS
<1> HIDE DEF d
<1>3. /\ t \in Seq(Item) /\ Len(t) = Len(d) + Len(c)
      /\ \A k \in 1 .. Len(d) : t[k] = d[k]
      /\ \A k \in 1 .. Len(c) : t[Len(d) + k] = c[k]
  <2>1. d \in Seq(Item)
    BY <1>1
  <2> QED
    BY ONLY <2>1, c \in Seq(Item), Concatenated
<1> HIDE DEF t
<1>4. ASSUME NEW k \in 1 .. Len(t)
      PROVE  \/ k \in 1 .. Len(a) /\ t[k] = a[k]
             \/ \E j \in 1 .. Len(b) : t[k] = b[j]
             \/ \E j \in 1 .. Len(c) : t[k] = c[j]
  <2>1. CASE k <= Len(a)
    <3>1. k \in 1 .. Len(d) /\ k \in 1 .. Len(a)
      BY <1>1, <1>2, <2>1
    <3> QED
      BY <1>1, <1>3, <3>1
  <2>2. CASE k > Len(a) /\ k <= Len(a) + Len(b)
    <3>1. k - Len(a) \in 1 .. Len(b) /\ k \in 1 .. Len(d) /\ k = Len(a) + (k - Len(a))
      BY <1>1, <1>2, <2>2
    <3>2. d[k] = b[k - Len(a)] /\ t[k] = d[k]
      BY <1>1, <1>3, <3>1
    <3> QED
      BY <3>1, <3>2
  <2>3. CASE k > Len(a) + Len(b)
    <3>1. k - Len(d) \in 1 .. Len(c) /\ k = Len(d) + (k - Len(d))
      BY <1>1, <1>2, <1>3, <2>3
    <3>2. t[k] = c[k - Len(d)]
      BY <1>3, <3>1
    <3> QED
      BY <3>1, <3>2
  <2> QED
    BY <1>2, <2>1, <2>2, <2>3
<1>5. Len(a) >= 1 => t # << >> /\ Head(t) = a[1]
  <2> HAVE Len(a) >= 1
  <2>1. 1 \in 1 .. Len(a) /\ 1 \in 1 .. Len(d) /\ Len(t) >= 1
    BY <1>1, <1>2, <1>3
  <2>2. t[1] = a[1]
    BY <1>1, <1>3, <2>1
  <2> QED
    BY <1>3, <2>1, <2>2
<1> QED
  BY <1>3, <1>4, <1>5 DEF t, d
-----------------------------------------------------------------------------
(* The invariant *)

\* When nothing is emitted, what is said of the output stays.
LEMMA SameOutput ==
  ASSUME UNCHANGED <<in, out>>
  PROVE  /\ Entry' = Entry /\ Original' = Original /\ Labels' = Labels /\ Emitted' = Emitted
         /\ \A b : /\ PositionsOf(b.label)' = PositionsOf(b.label)
                   /\ TargetsOf(b)' = TargetsOf(b) /\ After(b)' = After(b)
         /\ \A b, p : EmittedAt(b, p)' <=> EmittedAt(b, p)
         /\ \A b, l : FallsInto(b, l)' <=> FallsInto(b, l)
  BY DEF Entry, Original, Labels, Emitted, PositionsOf, TargetsOf, After, EmittedAt, FallsInto

LEMMA StartIInv == IsInput(in) /\ Start => IInv
<1> SUFFICES ASSUME IsInput(in), Start PROVE IInv
  OBVIOUS
<1>1. /\ IsInput(in) /\ blocks = in.blocks /\ out = << >> /\ phase = "schedule"
      /\ work = <<IfFound(Entry)>>
  BY DEF Start, Entry
<1>2. /\ in.blocks \in Seq(IRBlock) /\ in.blocks[1] \in Original /\ Entry \in Int
      /\ Len(in.blocks) \in Nat
  BY <1>1, InputFacts DEF Entry
<1>3. IfFound(Entry) \in Item /\ IfFound(Entry).todo = "ifFound"
  BY <1>2, ItemFacts
<1>4. \A l : PositionsOf(l) = {}
  BY <1>1 DEF PositionsOf
<1>5. Typed
  <2>1. << >> \in Seq(Emittable) /\ <<IfFound(Entry)>> \in Seq(Item)
    BY <1>3
  <2>2. ElementsOf(blocks) \subseteq Original
    BY <1>1 DEF Original
  <2> QED
    BY <1>1, <1>2, <2>1, <2>2, InputFacts DEF Typed
<1>6. Placed
  <2>1. LabelsOf(blocks) = Labels
    BY <1>1 DEF Labels
  <2>2. \A b \in Original : b.label \in LabelsOf(blocks)
    BY <1>1, <2>1, InputFacts
  <2> QED
    BY <1>4, <2>2 DEF Placed
<1>7. Pending
  BY <1>1, <1>4 DEF Pending, Emitted
<1>8. Falls
  <2>1. Len(work) = 1
    BY <1>1
  <2> QED
    BY <1>4, <2>1 DEF Falls, Emitted
<1> QED
  BY <1>5, <1>6, <1>7, <1>8 DEF IInv

\* A block is scheduled: it stands behind the output, and calls for every block
\* it leads to wait before the rest.
LEMMA ScheduleBlockIInv == ASSUME IInv, ScheduleBlock PROVE IInv'
<1> DEFINE item == Head(work)
           rest == Without(blocks, item.label)
<1>1. /\ IsInput(in) /\ Typed /\ Placed /\ Pending /\ Falls
      /\ phase = "schedule" /\ work # << >> /\ UNCHANGED <<in, freed, phase>>
      /\ item.todo \in {"ifFound", "orJump"} /\ HasBlock(blocks, item.label)
  BY DEF IInv, Typed, ScheduleBlock, Scheduling, IsToSchedule
<1>2. PICK b : b = FindBlock(blocks, item.label)
  OBVIOUS
<1>3. /\ b \in Original /\ b.label = item.label
      /\ rest \in Seq(IRBlock) /\ Len(rest) <= Len(in.blocks)
      /\ ElementsOf(rest) \subseteq Original
      /\ \A i, j \in 1 .. Len(rest) : rest[i].label = rest[j].label => i = j
      /\ LabelsOf(rest) = LabelsOf(blocks) \ {b.label}
  BY <1>1, <1>2, TakenFacts
<1>4. /\ out' = out \o Code(b) /\ blocks' = rest
      /\ work' = WorkFor(LastOf(b)) \o Freeing(b) \o Tail(work)
  BY <1>2, <1>3 DEF ScheduleBlock, Code
<1>5. PositionsOf(b.label) = {} /\ b.label \in LabelsOf(blocks)
  <2>1. b.label \in LabelsOf(blocks)
    BY <1>1, <1>3 DEF HasBlock, LabelsOf
  <2> QED
    BY <1>1, <1>3, <2>1 DEF Placed
<1> HIDE DEF rest
<1>6. /\ out' \in Seq(Emittable) /\ Len(out') = Len(out) + Len(Code(b))
      /\ Len(Code(b)) >= 1 /\ Len(out) \in Nat
      /\ \A k \in 1 .. Len(out) : out'[k] = out[k]
      /\ out'[Len(out) + 1] = LABEL(b.label)
      /\ \E p \in 1 .. Len(out') : EmittedAt(b, p)'
      /\ After(b)' = Len(out') + 1 /\ PositionsOf(b.label)' # {}
      /\ \A c \in Original :
           c # b => \A k \in 1 .. Len(Code(b)) : Code(b)[k] # LABEL(c.label)
  BY <1>1, <1>3, <1>4, <1>5, Added
<1>7. \A c \in Original : c # b =>
        /\ PositionsOf(c.label)' = PositionsOf(c.label)
        /\ \A p \in 1 .. Len(out) : EmittedAt(c, p) => EmittedAt(c, p)'
        /\ After(c)' = After(c)
        /\ \A l : FallsInto(c, l) => FallsInto(c, l)'
  <2> SUFFICES ASSUME NEW c \in Original, c # b
               PROVE  /\ PositionsOf(c.label)' = PositionsOf(c.label)
                      /\ \A p \in 1 .. Len(out) : EmittedAt(c, p) => EmittedAt(c, p)'
                      /\ After(c)' = After(c)
                      /\ \A l : FallsInto(c, l) => FallsInto(c, l)'
    OBVIOUS
  <2>1. Code(b) \in Seq(Emittable)
    BY <1>1, <1>3, CodeFacts
  <2> QED
    BY <1>1, <1>4, <1>6, <2>1, Extended
<1>8. Original' = Original /\ Labels' = Labels /\ Entry' = Entry /\ \A c : TargetsOf(c)' = TargetsOf(c)
  BY <1>1 DEF Original, Labels, Entry, TargetsOf
<1>9. \A c \in Original : /\ c.label \in Labels /\ c.label \in Int
                          /\ c.label = b.label => c = b
  BY <1>1, <1>3, InputFacts
<1>10. Emitted' = Emitted \cup {b.label}
  <2>1. \A l \in Labels : l # b.label => PositionsOf(l)' = PositionsOf(l)
    BY <1>1, <1>7, <1>9, InputFacts
  <2> QED
    BY <1>3, <1>6, <1>8, <1>9, <2>1 DEF Emitted
<1> DEFINE w == WorkFor(LastOf(b))
           f == Freeing(b)
           t == Tail(work)
<1>11. /\ w \in Seq(Item) /\ LabelsFor(w) = TargetsOf(b)
       /\ \A k \in 2 .. Len(w) : w[k].todo # "orJump"
       /\ LastOf(b).op \in TwoTarget => Len(w) = 2 /\ w[1] = OrJump(LastOf(b).args[2].name)
  BY <1>1, <1>3, WorkFacts
<1>12. f \in Seq(Item) /\ \A k \in 1 .. Len(f) : f[k].todo = "free"
  BY <1>1, <1>3, FreeingFacts
<1>13. /\ work \in Seq(Item) /\ t \in Seq(Item) /\ Len(t) = Len(work) - 1
       /\ \A k \in 1 .. Len(t) : t[k] = work[k + 1]
       /\ item \in Item /\ item = work[1] /\ Len(work) >= 1 /\ Len(work) \in Nat
  BY <1>1 DEF Typed
<1> HIDE DEF w, f, t, item
<1>14. Typed'
  <2>1. work' \in Seq(Item)
    BY <1>4, <1>11, <1>12, <1>13, WorkPlaces DEF w, f, t
  <2> QED
    BY <1>1, <1>3, <1>4, <1>6, <1>8, <2>1 DEF Typed
<1>15. Placed'
  <2>1. ASSUME NEW c \in Original
        PROVE  \/ PositionsOf(c.label)' = {}
               \/ \E p \in 1 .. Len(out') : EmittedAt(c, p)'
    <3>1. CASE c = b
      BY <1>6, <3>1
    <3>2. CASE c # b /\ PositionsOf(c.label) = {}
      BY <1>7, <3>2
    <3>3. CASE c # b /\ PositionsOf(c.label) # {}
      <4>1. PICK p \in 1 .. Len(out) : EmittedAt(c, p)
        BY <1>1, <3>3 DEF Placed
      <4>2. p \in 1 .. Len(out') /\ EmittedAt(c, p)'
        <5>1. Len(Code(b)) \in Nat
          BY <1>1, <1>3, CodeFacts
        <5> QED
          BY <1>6, <1>7, <3>3, <4>1, <5>1
      <4> QED
        BY <4>2
    <3> QED
      BY <3>1, <3>2, <3>3
  <2>2. ASSUME NEW c \in Original
        PROVE  c.label \in LabelsOf(blocks') <=> PositionsOf(c.label)' = {}
    <3>1. CASE c = b
      BY <1>3, <1>4, <1>6, <3>1
    <3>2. CASE c # b
      <4>1. c.label \in LabelsOf(blocks) <=> PositionsOf(c.label) = {}
        BY <1>1 DEF Placed
      <4> QED
        BY <1>3, <1>4, <1>7, <1>9, <3>2, <4>1
    <3> QED
      BY <3>1, <3>2
  <2>3. LabelsOf(blocks') = LabelsOf(blocks)'
    BY DEF LabelsOf
  <2> QED
    BY <1>8, <2>1, <2>2, <2>3 DEF Placed
<1>16. Pending'
  <2>1. out' # << >>
    BY <1>6
  <2>2. out'[1] = LABEL(Entry)
    <3>1. CASE out = << >>
      <4>1. work = <<IfFound(Entry)>>
        BY <1>1, <3>1 DEF Pending
      <4>2. item.label = Entry
        BY <1>13, <4>1 DEF IfFound
      <4> QED
        BY <1>3, <1>6, <3>1, <4>2
    <3>2. CASE out # << >>
      <4>1. out \in Seq(Emittable)
        BY <1>1 DEF Typed
      <4>2. 1 \in 1 .. Len(out)
        BY <3>2, <4>1
      <4> QED
        BY <1>1, <1>6, <3>2, <4>2 DEF Pending
    <3> QED
      BY <3>1, <3>2
  <2>3. LabelsFor(work') = TargetsOf(b) \cup LabelsFor(f) \cup LabelsFor(t)
    <3>1. w \o f \in Seq(Item)
      BY <1>11, <1>12
    <3>2. LabelsFor(work') = LabelsFor(w \o f) \cup LabelsFor(t)
      BY <1>4, <1>13, <3>1, LabelsForFacts DEF w, f, t
    <3>3. LabelsFor(w \o f) = LabelsFor(w) \cup LabelsFor(f)
      BY <1>11, <1>12, LabelsForFacts
    <3> QED
      BY <1>11, <3>2, <3>3
  <2>4. LabelsFor(work) \subseteq {b.label} \cup LabelsFor(t)
    <3>1. item.todo # "free"
      BY <1>1
    <3> QED
      BY <1>1, <1>3, <1>13, <3>1, LabelsForFacts DEF item, t
  <2>5. ASSUME NEW c \in Original, c.label \in Emitted'
        PROVE  TargetsOf(c) \cap Labels \subseteq Emitted' \cup LabelsFor(work')
    <3>1. CASE c = b
      BY <2>3, <3>1
    <3>2. CASE c # b
      <4>1. c.label \in Emitted
        BY <1>9, <1>10, <2>5, <3>2
      <4>2. TargetsOf(c) \cap Labels \subseteq Emitted \cup LabelsFor(work)
        BY <1>1, <4>1 DEF Pending
      <4> QED
        BY <1>10, <2>3, <2>4, <4>2
    <3> QED
      BY <3>1, <3>2
  <2>6. phase' = "schedule" /\ LabelsFor(work') = LabelsFor(work)'
    BY <1>1 DEF LabelsFor, ElementsOf
  <2> QED
    BY <1>8, <2>1, <2>2, <2>5, <2>6 DEF Pending
<1>17. Falls'
  <2>1. \A k \in 2 .. Len(work') : work'[k].todo # "orJump"
    <3>1. \A k \in 1 .. Len(t) : t[k].todo # "orJump"
      <4>1. \A k \in 1 .. Len(t) : k + 1 \in 2 .. Len(work)
        BY <1>13
      <4> QED
        BY <1>1, <1>13, <4>1 DEF Falls
    <3>2. work' = w \o f \o t
      BY <1>4 DEF w, f, t
    <3>3. \A k \in 2 .. Len(work') : \/ \E j \in 2 .. Len(w) : work'[k] = w[j]
                                     \/ \E j \in 1 .. Len(f) : work'[k] = f[j]
                                     \/ \E j \in 1 .. Len(t) : work'[k] = t[j]
      <4>1. w \in Seq(Item) /\ f \in Seq(Item) /\ t \in Seq(Item)
        BY <1>11, <1>12, <1>13
      <4> DEFINE v == w \o f \o t
      <4>2. \A k \in 1 .. Len(v) :
              \/ k \in 1 .. Len(w) /\ v[k] = w[k]
              \/ \E j \in 1 .. Len(f) : v[k] = f[j]
              \/ \E j \in 1 .. Len(t) : v[k] = t[j]
        BY ONLY <4>1, WorkPlaces
      <4> QED
        BY <3>2, <4>2
    <3> QED
      BY <1>11, <1>12, <3>1, <3>3
  <2>2. ASSUME NEW c \in Original, LastOf(c).op \in TwoTarget, c.label \in Emitted'
        PROVE  \/ FallsInto(c, LastOf(c).args[2].name)'
               \/ /\ After(c)' = Len(out') + 1 /\ work' # << >>
                  /\ Head(work') = OrJump(LastOf(c).args[2].name)
    <3>1. CASE c = b
      <4>1. Len(w) >= 1 /\ w[1] = OrJump(LastOf(b).args[2].name)
        BY <1>11, <2>2, <3>1
      <4>2. work' # << >> /\ Head(work') = w[1]
        BY <1>4, <1>11, <1>12, <1>13, <4>1, WorkPlaces DEF w, f, t
      <4> QED
        BY <1>6, <3>1, <4>1, <4>2
    <3>2. CASE c # b
      <4> DEFINE q == LastOf(c).args[2].name
      <4>1. c.label \in Emitted
        BY <1>9, <1>10, <2>2, <3>2
      <4>2. \/ FallsInto(c, q)
            \/ After(c) = Len(out) + 1 /\ item = OrJump(q)
        BY <1>1, <2>2, <4>1 DEF Falls, item
      <4>3. CASE FallsInto(c, q)
        BY <1>7, <3>2, <4>3
      <4>4. CASE After(c) = Len(out) + 1 /\ item = OrJump(q)
        <5>1. b.label = q
          BY <1>3, <4>4 DEF OrJump
        <5>2. After(c)' = Len(out) + 1 /\ out'[After(c)'] = LABEL(q)
          BY <1>6, <1>7, <3>2, <4>4, <5>1
        <5>3. Len(out) + 1 \in DOMAIN out'
          BY <1>6
        <5> QED
          BY <5>2, <5>3 DEF FallsInto
      <4> QED
        BY <4>2, <4>3, <4>4
    <3> QED
      BY <3>1, <3>2
  <2> QED
    BY <1>8, <2>1, <2>2 DEF Falls
<1> QED
  BY <1>14, <1>15, <1>16, <1>17 DEF IInv

\* What the list of calls is when the first one is answered by doing nothing.
LEMMA TailFacts ==
  ASSUME Typed, work # << >>
  PROVE  LET t == Tail(work)
         IN  /\ t \in Seq(Item) /\ Head(work) \in Item /\ Len(t) = Len(work) - 1
             /\ Len(work) >= 1 /\ Len(work) \in Nat
             /\ LabelsFor(work) = (IF Head(work).todo = "free" THEN {} ELSE {Head(work).label})
                                    \cup LabelsFor(t)
             /\ (\A k \in 2 .. Len(work) : work[k].todo # "orJump") =>
                   /\ \A k \in 2 .. Len(t) : t[k].todo # "orJump"
                   /\ t # << >> => Head(t).todo # "orJump"
<1> DEFINE t == Tail(work)
<1>1. work \in Seq(Item)
  BY DEF Typed
<1>2. /\ t \in Seq(Item) /\ Head(work) \in Item /\ Len(t) = Len(work) - 1
      /\ Len(work) >= 1 /\ Len(work) \in Nat
      /\ \A k \in 1 .. Len(t) : t[k] = work[k + 1]
  BY <1>1
<1>3. LabelsFor(work) = (IF Head(work).todo = "free" THEN {} ELSE {Head(work).label})
                           \cup LabelsFor(t)
  BY <1>1, LabelsForFacts
<1> HIDE DEF t
<1>4. ASSUME \A k \in 2 .. Len(work) : work[k].todo # "orJump"
      PROVE  /\ \A k \in 2 .. Len(t) : t[k].todo # "orJump"
             /\ t # << >> => Head(t).todo # "orJump"
  <2>1. \A k \in 1 .. Len(t) : k + 1 \in 2 .. Len(work)
    BY <1>2
  <2>2. \A k \in 1 .. Len(t) : t[k].todo # "orJump"
    BY <1>2, <1>4, <2>1
  <2>3. t # << >> => Head(t) = t[1] /\ 1 \in 1 .. Len(t)
    BY <1>2
  <2> QED
    BY <2>2, <2>3
<1> QED
  BY <1>2, <1>3, <1>4 DEF t

\* The false target was scheduled before: a jump to it is what comes behind the
\* fallthrough jump that waits for it.
LEMMA EmitJumpIInv == ASSUME IInv, EmitJump PROVE IInv'
<1> DEFINE l == Head(work).label
           s == <<JUMP(l)>>
           t == Tail(work)
<1>1. /\ IsInput(in) /\ Typed /\ Placed /\ Pending /\ Falls
      /\ phase = "schedule" /\ work # << >> /\ UNCHANGED <<in, freed, blocks, phase>>
      /\ Head(work).todo = "orJump" /\ ~HasBlock(blocks, l)
      /\ out' = out \o s /\ work' = t
  BY DEF IInv, Typed, EmitJump, Scheduling
<1>2. /\ t \in Seq(Item) /\ Head(work) \in Item
      /\ LabelsFor(work) = {l} \cup LabelsFor(t)
      /\ \A k \in 2 .. Len(t) : t[k].todo # "orJump"
  BY <1>1, TailFacts DEF Falls
<1>3. l \in Int
  BY <1>1, <1>2, ItemFacts
<1>4. JUMP(l) \in Emittable /\ JUMP(l).op # "LABEL"
  BY <1>3, LabelFacts
<1> HIDE DEF l, t
<1>5. s \in Seq(Emittable) /\ Len(s) = 1 /\ s[1] = JUMP(l)
  BY <1>4
<1>6. out \in Seq(Emittable) /\ Len(out) \in Nat
  BY <1>1 DEF Typed
<1> HIDE DEF s
<1>7. /\ out' \in Seq(Emittable) /\ Len(out') = Len(out) + 1
      /\ \A k \in 1 .. Len(out) : out'[k] = out[k]
      /\ out'[Len(out) + 1] = JUMP(l)
  <2> DEFINE o == out \o s
  <2>1. /\ o \in Seq(Emittable) /\ Len(o) = Len(out) + Len(s)
        /\ \A k \in 1 .. Len(out) : o[k] = out[k]
        /\ \A k \in 1 .. Len(s) : o[Len(out) + k] = s[k]
    <3>1. out \in Seq(Emittable) /\ s \in Seq(Emittable)
      BY <1>5, <1>6
    <3> QED
      BY ONLY <3>1, Concatenated
  <2>2. out' = o
    BY <1>1
  <2> HIDE DEF o
  <2> QED
    BY <1>5, <2>1, <2>2
<1>8. \A c \in Original :
        /\ PositionsOf(c.label)' = PositionsOf(c.label)
        /\ \A p \in 1 .. Len(out) : EmittedAt(c, p) => EmittedAt(c, p)'
        /\ After(c)' = After(c)
        /\ \A n : FallsInto(c, n) => FallsInto(c, n)'
  <2> SUFFICES ASSUME NEW c \in Original
               PROVE  /\ PositionsOf(c.label)' = PositionsOf(c.label)
                      /\ \A p \in 1 .. Len(out) : EmittedAt(c, p) => EmittedAt(c, p)'
                      /\ After(c)' = After(c)
                      /\ \A n : FallsInto(c, n) => FallsInto(c, n)'
    OBVIOUS
  <2>1. LABEL(c.label).op = "LABEL"
    BY DEF LABEL
  <2>2. \A k \in 1 .. Len(s) : s[k] # LABEL(c.label)
    BY <1>4, <1>5, <2>1
  <2> QED
    BY <1>1, <1>5, <2>2, Extended
<1>9. Original' = Original /\ Labels' = Labels /\ Entry' = Entry /\ \A c : TargetsOf(c)' = TargetsOf(c)
  BY <1>1 DEF Original, Labels, Entry, TargetsOf
<1>10. Emitted' = Emitted
  <2>1. \A n \in Labels : PositionsOf(n)' = PositionsOf(n)
    BY <1>1, <1>8, InputFacts
  <2> QED
    BY <1>9, <2>1 DEF Emitted
<1>11. Typed'
  BY <1>1, <1>2, <1>7, <1>9 DEF Typed
<1>12. Placed'
  <2>1. ASSUME NEW c \in Original
        PROVE  \/ PositionsOf(c.label)' = {}
               \/ \E p \in 1 .. Len(out') : EmittedAt(c, p)'
    <3>1. CASE PositionsOf(c.label) = {}
      BY <1>8, <3>1
    <3>2. CASE PositionsOf(c.label) # {}
      <4>1. PICK p \in 1 .. Len(out) : EmittedAt(c, p)
        BY <1>1, <3>2 DEF Placed
      <4>2. p \in 1 .. Len(out') /\ EmittedAt(c, p)'
        BY <1>6, <1>7, <1>8, <4>1
      <4> QED
        BY <4>2
    <3> QED
      BY <3>1, <3>2
  <2>2. \A c \in Original : c.label \in LabelsOf(blocks)' <=> PositionsOf(c.label)' = {}
    BY <1>1, <1>8 DEF Placed, LabelsOf
  <2> QED
    BY <1>9, <2>1, <2>2 DEF Placed
<1>13. Pending'
  <2>1. out # << >>
    <3> SUFFICES ASSUME out = << >> PROVE FALSE
      OBVIOUS
    <3>1. work = <<IfFound(Entry)>>
      BY <1>1 DEF Pending
    <3> QED
      BY <1>1, <3>1 DEF IfFound
  <2>2. 1 \in 1 .. Len(out)
    BY <1>6, <2>1
  <2>3. out' # << >> /\ out'[1] = LABEL(Entry)
    BY <1>1, <1>6, <1>7, <2>1, <2>2 DEF Pending
  <2>4. l \in Labels => l \in Emitted
    <3> HAVE l \in Labels
    <3>1. PICK c \in Original : c.label = l
      BY <1>1, InputFacts
    <3>2. l \notin LabelsOf(blocks)
      BY <1>1 DEF HasBlock, LabelsOf, l
    <3> QED
      BY <1>1, <3>1, <3>2 DEF Placed, Emitted
  <2>5. \A c \in Original : c.label \in Emitted =>
          TargetsOf(c) \cap Labels \subseteq Emitted \cup LabelsFor(t)
    BY <1>1, <1>2, <2>4 DEF Pending
  <2>6. phase' = "schedule" /\ LabelsFor(work)' = LabelsFor(t)
    BY <1>1 DEF LabelsFor, ElementsOf
  <2> QED
    BY <1>9, <1>10, <2>3, <2>5, <2>6 DEF Pending
<1>14. Falls'
  <2>1. ASSUME NEW c \in Original, LastOf(c).op \in TwoTarget, c.label \in Emitted
        PROVE  FallsInto(c, LastOf(c).args[2].name)'
    <3> DEFINE q == LastOf(c).args[2].name
    <3>1. \/ FallsInto(c, q)
          \/ After(c) = Len(out) + 1 /\ Head(work) = OrJump(q)
      BY <1>1, <2>1 DEF Falls
    <3>2. CASE FallsInto(c, q)
      BY <1>8, <3>2
    <3>3. CASE After(c) = Len(out) + 1 /\ Head(work) = OrJump(q)
      <4>1. l = q
        BY <3>3 DEF OrJump, l
      <4>2. After(c)' = Len(out) + 1 /\ out'[After(c)'] = JUMP(q)
        BY <1>7, <1>8, <3>3, <4>1
      <4>3. Len(out) + 1 \in DOMAIN out'
        BY <1>6, <1>7
      <4> QED
        BY <4>2, <4>3 DEF FallsInto
    <3> QED
      BY <3>1, <3>2, <3>3
  <2> QED
    BY <1>1, <1>2, <1>9, <1>10, <2>1 DEF Falls
<1> QED
  BY <1>11, <1>12, <1>13, <1>14 DEF IInv

\* Any other block that was scheduled before needs nothing.
LEMMA SkipScheduledIInv == ASSUME IInv, SkipScheduled PROVE IInv'
<1> DEFINE l == Head(work).label
           t == Tail(work)
<1>1. /\ IsInput(in) /\ Typed /\ Placed /\ Pending /\ Falls
      /\ phase = "schedule" /\ work # << >> /\ UNCHANGED <<in, freed, blocks, out, phase>>
      /\ Head(work).todo = "ifFound" /\ ~HasBlock(blocks, l) /\ work' = t
  BY DEF IInv, Typed, SkipScheduled, Scheduling
<1>2. /\ t \in Seq(Item)
      /\ LabelsFor(work) = {l} \cup LabelsFor(t)
      /\ \A k \in 2 .. Len(t) : t[k].todo # "orJump"
  BY <1>1, TailFacts DEF Falls
<1> HIDE DEF t
<1>3. /\ Entry' = Entry /\ Original' = Original /\ Labels' = Labels /\ Emitted' = Emitted
      /\ \A b : /\ PositionsOf(b.label)' = PositionsOf(b.label)
                /\ TargetsOf(b)' = TargetsOf(b) /\ After(b)' = After(b)
      /\ \A b, p : EmittedAt(b, p)' <=> EmittedAt(b, p)
      /\ \A b, n : FallsInto(b, n)' <=> FallsInto(b, n)
  BY <1>1, SameOutput
<1>4. l \notin LabelsOf(blocks) /\ LabelsOf(blocks)' = LabelsOf(blocks)
  BY <1>1 DEF HasBlock, LabelsOf
<1>5. out # << >>
  <2> SUFFICES ASSUME out = << >> PROVE FALSE
    OBVIOUS
  <2>1. blocks = in.blocks /\ work = <<IfFound(Entry)>>
    BY <1>1 DEF Pending
  <2>2. l = Entry
    BY <2>1 DEF IfFound
  <2>3. Entry \in LabelsOf(blocks)
    <3>1. 1 \in DOMAIN in.blocks
      BY <1>1, InputFacts
    <3> QED
      BY <2>1, <3>1 DEF LabelsOf, Entry
  <2> QED
    BY <1>4, <2>2, <2>3
<1>6. l \in Labels => l \in Emitted
  <2> HAVE l \in Labels
  <2>1. PICK c \in Original : c.label = l
    BY <1>1, InputFacts
  <2> QED
    BY <1>1, <1>4, <2>1 DEF Placed, Emitted
<1>7. \A q : Head(work) # OrJump(q)
  BY <1>1 DEF OrJump
<1>8. LabelsFor(work)' = LabelsFor(t)
  BY <1>1 DEF LabelsFor, ElementsOf
<1> HIDE DEF l
<1>9. Typed'
  BY <1>1, <1>2, <1>3 DEF Typed
<1>10. Placed'
  BY <1>1, <1>3, <1>4 DEF Placed
<1>11. Pending'
  <2>1. \A c \in Original : c.label \in Emitted =>
          TargetsOf(c) \cap Labels \subseteq Emitted \cup LabelsFor(t)
    BY <1>1, <1>2, <1>6 DEF Pending
  <2> QED
    BY <1>1, <1>3, <1>5, <1>8, <2>1 DEF Pending
<1>12. Falls'
  BY <1>1, <1>2, <1>3, <1>7 DEF Falls
<1> QED
  BY <1>9, <1>10, <1>11, <1>12 DEF IInv

\* A call returns.
LEMMA FreeBlockIInv == ASSUME IInv, FreeBlock PROVE IInv'
<1> DEFINE t == Tail(work)
<1>1. /\ IsInput(in) /\ Typed /\ Placed /\ Pending /\ Falls
      /\ phase = "schedule" /\ work # << >> /\ UNCHANGED <<in, blocks, out, phase>>
      /\ Head(work).todo = "free" /\ work' = t
  BY DEF IInv, Typed, FreeBlock, Scheduling
<1>2. /\ t \in Seq(Item) /\ LabelsFor(work) = LabelsFor(t)
      /\ \A k \in 2 .. Len(t) : t[k].todo # "orJump"
  BY <1>1, TailFacts DEF Falls
<1> HIDE DEF t
<1>3. /\ Entry' = Entry /\ Original' = Original /\ Labels' = Labels /\ Emitted' = Emitted
      /\ \A b : /\ PositionsOf(b.label)' = PositionsOf(b.label)
                /\ TargetsOf(b)' = TargetsOf(b) /\ After(b)' = After(b)
      /\ \A b, p : EmittedAt(b, p)' <=> EmittedAt(b, p)
      /\ \A b, n : FallsInto(b, n)' <=> FallsInto(b, n)
  BY <1>1, SameOutput
<1>4. out # << >>
  <2> SUFFICES ASSUME out = << >> PROVE FALSE
    OBVIOUS
  <2>1. work = <<IfFound(Entry)>>
    BY <1>1 DEF Pending
  <2> QED
    BY <1>1, <2>1 DEF IfFound
<1>5. \A q : Head(work) # OrJump(q)
  BY <1>1 DEF OrJump
<1>6. LabelsFor(work)' = LabelsFor(t) /\ LabelsOf(blocks)' = LabelsOf(blocks)
  BY <1>1 DEF LabelsFor, ElementsOf, LabelsOf
<1>7. Typed'
  BY <1>1, <1>2, <1>3 DEF Typed
<1>8. Placed'
  BY <1>1, <1>3, <1>6 DEF Placed
<1>9. Pending'
  BY <1>1, <1>2, <1>3, <1>4, <1>6 DEF Pending
<1>10. Falls'
  BY <1>1, <1>2, <1>3, <1>5 DEF Falls
<1> QED
  BY <1>7, <1>8, <1>9, <1>10 DEF IInv

\* Nothing waits: what was not scheduled is freed.
LEMMA FinishIInv == ASSUME IInv, Finish PROVE IInv'
<1>1. /\ IsInput(in) /\ Typed /\ Placed /\ Pending /\ Falls
      /\ phase = "schedule" /\ phase' = "done" /\ work = << >>
      /\ UNCHANGED <<in, out, work>> /\ blocks' = << >>
  BY DEF IInv, Typed, Finish
<1>2. /\ Entry' = Entry /\ Original' = Original /\ Labels' = Labels /\ Emitted' = Emitted
      /\ \A b : /\ PositionsOf(b.label)' = PositionsOf(b.label)
                /\ TargetsOf(b)' = TargetsOf(b) /\ After(b)' = After(b)
      /\ \A b, p : EmittedAt(b, p)' <=> EmittedAt(b, p)
      /\ \A b, n : FallsInto(b, n)' <=> FallsInto(b, n)
  BY <1>1, SameOutput
<1>3. out # << >>
  BY <1>1 DEF Pending
<1>4. LabelsFor(work)' = LabelsFor(work)
  BY <1>1 DEF LabelsFor, ElementsOf
<1>5. Typed'
  <2>1. Len(in.blocks) \in Nat /\ ElementsOf(blocks') = {} /\ Len(blocks') = 0
    BY <1>1, InputFacts DEF ElementsOf
  <2> QED
    BY <1>1, <1>2, <2>1 DEF Typed
<1>6. Placed'
  BY <1>1, <1>2 DEF Placed
<1>7. Pending'
  BY <1>1, <1>2, <1>3, <1>4 DEF Pending
<1>8. Falls'
  BY <1>1, <1>2 DEF Falls
<1> QED
  BY <1>5, <1>6, <1>7, <1>8 DEF IInv

\* The pass stops, or another takes the step: everything stays but the phase.
LEMMA StopIInv ==
  ASSUME IInv, UNCHANGED <<in, blocks, out, work>>,
         phase' = phase \/ (phase = "schedule" /\ phase' = "undefined")
  PROVE  IInv'
<1>1. IsInput(in) /\ Typed /\ Placed /\ Pending /\ Falls
  BY DEF IInv, Typed
<1>2. /\ Entry' = Entry /\ Original' = Original /\ Labels' = Labels /\ Emitted' = Emitted
      /\ \A b : /\ PositionsOf(b.label)' = PositionsOf(b.label)
                /\ TargetsOf(b)' = TargetsOf(b) /\ After(b)' = After(b)
      /\ \A b, p : EmittedAt(b, p)' <=> EmittedAt(b, p)
      /\ \A b, n : FallsInto(b, n)' <=> FallsInto(b, n)
  BY SameOutput
<1>3. LabelsFor(work)' = LabelsFor(work) /\ LabelsOf(blocks)' = LabelsOf(blocks)
  BY DEF LabelsFor, ElementsOf, LabelsOf
<1>4. Typed'
  BY <1>1, <1>2 DEF Typed
<1>5. Placed'
  BY <1>1, <1>2, <1>3 DEF Placed
<1>6. Pending'
  BY <1>1, <1>2, <1>3 DEF Pending
<1>7. Falls'
  BY <1>1, <1>2 DEF Falls
<1> QED
  BY <1>4, <1>5, <1>6, <1>7 DEF IInv

LEMMA StepIInv == IInv /\ [Next]_vars => IInv'
<1> SUFFICES ASSUME IInv, [Next]_vars PROVE IInv'
  OBVIOUS
<1>1. CASE ScheduleBlock
  BY <1>1, ScheduleBlockIInv
<1>2. CASE EmitJump
  BY <1>2, EmitJumpIInv
<1>3. CASE SkipScheduled
  BY <1>3, SkipScheduledIInv
<1>4. CASE FreeBlock
  BY <1>4, FreeBlockIInv
<1>5. CASE UseFreed
  <2>1. UNCHANGED <<in, blocks, out, work>> /\ phase = "schedule" /\ phase' = "undefined"
    BY <1>5 DEF UseFreed
  <2> QED
    BY <2>1, StopIInv
<1>6. CASE Finish
  BY <1>6, FinishIInv
<1>7. CASE UNCHANGED vars
  <2>1. UNCHANGED <<in, blocks, out, work, phase>>
    BY <1>7 DEF vars
  <2> QED
    BY <2>1, StopIInv
<1> QED
  BY <1>1, <1>2, <1>3, <1>4, <1>5, <1>6, <1>7 DEF Next

LEMMA Inductive == InputsOK /\ Spec => []IInv
<1>1. InputsOK /\ Init => IInv
  BY StartIInv DEF InputsOK, Init
<1>2. IInv /\ [Next]_vars => IInv'
  BY StepIInv
<1> QED
  BY <1>1, <1>2, PTL DEF Spec
-----------------------------------------------------------------------------
(* What is emitted *)

\* What block b becomes: its label, its instructions, and the jump that is left
\* of one with two targets, or that is put in its false target's place.
MadeOf(b, i) ==
  \/ i = LABEL(b.label)
  \/ \E k \in 1 .. Len(b.instructions) :
       i = b.instructions[k] /\ (k = Len(b.instructions) => LastOf(b).op \notin TwoTarget)
  \/ /\ LastOf(b).op \in TwoTarget
     /\ i = OneArgJump(LastOf(b)) \/ i = JUMP(LastOf(b).args[2].name)
Made(i) == \E b \in Original : b.label \in Emitted /\ MadeOf(b, i)

MadeOnly ==
  /\ \A k \in 1 .. Len(out) : Made(out[k])
  /\ \A k \in 1 .. Len(work) : work[k].todo = "orJump" => Made(JUMP(work[k].label))

LEMMA StartMadeOnly == Start => MadeOnly
  BY DEF Start, MadeOnly, IfFound

\* What was emitted stays so.
LEMMA EmittedGrows ==
  ASSUME out \in Seq(Emittable), NEW s \in Seq(Emittable), out' = out \o s, in' = in
  PROVE  /\ Emitted \subseteq Emitted'
         /\ \A i : Made(i) => Made(i)'
<1>1. \A k \in DOMAIN out : k \in DOMAIN (out \o s) /\ (out \o s)[k] = out[k]
  <2>1. /\ Len(out \o s) = Len(out) + Len(s) /\ out \o s \in Seq(Emittable)
        /\ \A k \in 1 .. Len(out) : (out \o s)[k] = out[k]
    BY Concatenated
  <2>2. Len(out) \in Nat /\ Len(s) \in Nat /\ DOMAIN out = 1 .. Len(out)
        /\ DOMAIN (out \o s) = 1 .. Len(out \o s)
    BY <2>1
  <2> QED
    BY <2>1, <2>2
<1>2. Emitted \subseteq Emitted'
  BY <1>1 DEF Emitted, PositionsOf, Labels
<1>3. \A b, i : MadeOf(b, i)' <=> MadeOf(b, i)
  BY DEF MadeOf
<1> QED
  BY <1>2, <1>3 DEF Made, Original

LEMMA CodeMade ==
  ASSUME IsInput(in), NEW b \in Original
  PROVE  \A k \in 1 .. Len(Code(b)) : MadeOf(b, Code(b)[k])
<1> DEFINE last == LastOf(b)
           body == Body(b)
           end == EmittedFor(last)
<1>1. /\ b.instructions \in Seq(IRInstruction) /\ Len(b.instructions) >= 1
      /\ Len(b.instructions) \in Nat /\ last = b.instructions[Len(b.instructions)]
      /\ IsTerminator(last) /\ b.label \in Int
  BY BlockFacts, InputFacts DEF LastOf
<1>2. /\ body \in Seq(Emittable) /\ end \in Seq(Emittable)
      /\ Len(Code(b)) = 1 + Len(body) + Len(end) /\ Code(b)[1] = LABEL(b.label)
      /\ \A k \in 2 .. Len(Code(b)) : Code(b)[k] = (body \o end)[k - 1]
  BY CodeFacts
<1>3. \A k \in 1 .. Len(body) : MadeOf(b, body[k])
  <2>1. Len(b.instructions) - 1 \in 0 .. Len(b.instructions)
    BY <1>1
  <2>2. /\ Len(body) = Len(b.instructions) - 1
        /\ \A k \in 1 .. Len(body) : body[k] = b.instructions[k]
    BY <1>1, <2>1 DEF Body
  <2>3. \A k \in 1 .. Len(body) : k \in 1 .. Len(b.instructions) /\ k # Len(b.instructions)
    BY <1>1, <2>2
  <2> QED
    BY <2>2, <2>3 DEF MadeOf
<1>4. \A k \in 1 .. Len(end) : MadeOf(b, end[k])
  <2> HIDE DEF last
  <2>1. CASE last.op = "JUMP"
    <3>1. end = << >>
      BY <2>1 DEF EmittedFor, TwoTarget, CJumps, BJumps
    <3> QED
      BY <3>1
  <2>2. CASE last.op \in TwoTarget
    <3>1. end = <<OneArgJump(last)>>
      BY <2>2 DEF EmittedFor, TwoTarget, CJumps, BJumps
    <3>2. MadeOf(b, OneArgJump(last))
      BY <2>2 DEF MadeOf, last
    <3> QED
      BY <3>1, <3>2
  <2>3. CASE last.op \in {"JUMPTABLE", "RETURN"}
    <3>1. end = <<last>>
      BY <2>3 DEF EmittedFor, TwoTarget, CJumps, BJumps
    <3>2. last.op \notin TwoTarget
      BY <2>3 DEF TwoTarget, CJumps, BJumps
    <3>3. MadeOf(b, last)
      BY <1>1, <3>2 DEF MadeOf, last
    <3> QED
      BY <3>1, <3>3
  <2> QED
    BY <1>1, <2>1, <2>2, <2>3 DEF IsTerminator
<1>5. MadeOf(b, LABEL(b.label))
  BY <1>1 DEF MadeOf
<1> HIDE DEF body, end
<1> DEFINE rest == body \o end
<1>6. /\ rest \in Seq(Emittable) /\ Len(rest) = Len(body) + Len(end)
      /\ \A k \in 1 .. Len(body) : rest[k] = body[k]
      /\ \A k \in 1 .. Len(end) : rest[Len(body) + k] = end[k]
      /\ Len(body) \in Nat /\ Len(end) \in Nat
  BY <1>2, Concatenated
<1> HIDE DEF rest
<1>7. ASSUME NEW k \in 1 .. Len(Code(b)), k # 1
      PROVE  MadeOf(b, Code(b)[k])
  <2>1. Code(b)[k] = rest[k - 1] /\ k - 1 \in 1 .. Len(body) + Len(end)
    BY <1>2, <1>6, <1>7 DEF rest
  <2>2. CASE k - 1 \in 1 .. Len(body)
    BY <1>3, <1>6, <2>1, <2>2
  <2>3. CASE k - 1 \notin 1 .. Len(body)
    <3>1. /\ k - 1 - Len(body) \in 1 .. Len(end)
          /\ k - 1 = Len(body) + (k - 1 - Len(body))
      BY <1>6, <2>1, <2>3
    <3>2. rest[k - 1] = end[k - 1 - Len(body)]
      BY <1>6, <3>1
    <3> QED
      BY <1>4, <2>1, <3>1, <3>2
  <2> QED
    BY <2>2, <2>3
<1> QED
  BY <1>2, <1>5, <1>7

LEMMA ScheduleBlockMadeOnly == ASSUME IInv, MadeOnly, ScheduleBlock PROVE MadeOnly'
<1> DEFINE item == Head(work)
<1>1. /\ IsInput(in) /\ Typed /\ work # << >> /\ in' = in /\ HasBlock(blocks, item.label)
  BY DEF IInv, Typed, ScheduleBlock, Scheduling, IsToSchedule
<1>2. PICK b : b = FindBlock(blocks, item.label)
  OBVIOUS
<1>3. b \in Original /\ b.label = item.label
  BY <1>1, <1>2, TakenFacts
<1> DEFINE w == WorkFor(LastOf(b))
           f == Freeing(b)
           t == Tail(work)
<1>4. out' = out \o Code(b) /\ work' = w \o f \o t
  BY <1>2, <1>3 DEF ScheduleBlock, Code
<1>5. /\ \A i : Made(i) => Made(i)'
      /\ \A i : MadeOf(b, i) => Made(i)'
  <2>1. out \in Seq(Emittable) /\ Code(b) \in Seq(Emittable)
    BY <1>1, <1>3, CodeFacts DEF Typed
  <2>2. \A i : Made(i) => Made(i)'
    BY <1>1, <1>4, <2>1, EmittedGrows
  <2>3. b.label \in LabelsOf(blocks) /\ phase = "schedule"
    BY <1>1, <1>3 DEF HasBlock, LabelsOf, ScheduleBlock, Scheduling
  <2>4. PositionsOf(b.label) = {}
    BY <1>3, <2>3 DEF IInv, Placed
  <2>5. PositionsOf(b.label)' # {}
    BY <1>1, <1>3, <1>4, <2>4, Added
  <2>6. b.label \in Emitted' /\ Original' = Original
    BY <1>1, <1>3, <2>5, InputFacts DEF Emitted, Labels, Original
  <2>7. \A i : MadeOf(b, i)' <=> MadeOf(b, i)
    BY DEF MadeOf
  <2> QED
    BY <1>3, <2>2, <2>6, <2>7 DEF Made
<1>6. /\ w \in Seq(Item) /\ \A k \in 2 .. Len(w) : w[k].todo # "orJump"
      /\ LastOf(b).op \in TwoTarget => Len(w) = 2 /\ w[1] = OrJump(LastOf(b).args[2].name)
      /\ LastOf(b).op \notin TwoTarget => \A k \in 1 .. Len(w) : w[k].todo # "orJump"
  BY <1>1, <1>3, WorkFacts
<1>7. f \in Seq(Item) /\ \A k \in 1 .. Len(f) : f[k].todo = "free"
  BY <1>1, <1>3, FreeingFacts
<1>8. /\ t \in Seq(Item) /\ Len(t) = Len(work) - 1 /\ Len(work) \in Nat
      /\ \A k \in 1 .. Len(t) : t[k] = work[k + 1] /\ k + 1 \in 1 .. Len(work)
  BY <1>1 DEF Typed
<1>9. \A k \in 1 .. Len(out') : \A i : i = out'[k] => Made(i)'
  <2> DEFINE o == out \o Code(b)
  <2>1. out \in Seq(Emittable) /\ Code(b) \in Seq(Emittable)
    BY <1>1, <1>3, CodeFacts DEF Typed
  <2>2. /\ o \in Seq(Emittable) /\ Len(o) = Len(out) + Len(Code(b))
        /\ \A k \in 1 .. Len(out) : o[k] = out[k]
        /\ \A k \in 1 .. Len(Code(b)) : o[Len(out) + k] = Code(b)[k]
        /\ Len(out) \in Nat /\ Len(Code(b)) \in Nat
    BY <2>1, Concatenated
  <2>3. \A k \in 1 .. Len(Code(b)) : \A i : i = Code(b)[k] => Made(i)'
    BY <1>1, <1>3, <1>5, CodeMade
  <2>4. \A k \in 1 .. Len(out) : \A i : i = out[k] => Made(i)'
    BY <1>5 DEF MadeOnly
  <2> HIDE DEF o
  <2>5. ASSUME NEW k \in 1 .. Len(o), NEW i, i = o[k] PROVE Made(i)'
    <3>1. CASE k \in 1 .. Len(out)
      BY <2>2, <2>4, <2>5, <3>1
    <3>2. CASE k \notin 1 .. Len(out)
      <4>1. k - Len(out) \in 1 .. Len(Code(b)) /\ k = Len(out) + (k - Len(out))
        BY <2>2, <3>2
      <4>2. o[k] = Code(b)[k - Len(out)]
        BY <2>2, <4>1
      <4> QED
        BY <2>3, <2>5, <4>1, <4>2
    <3> QED
      BY <3>1, <3>2
  <2> QED
    BY <1>4, <2>5 DEF o
<1> HIDE DEF w, f, t
<1>10. ASSUME NEW k \in 1 .. Len(work'), work'[k].todo = "orJump",
              NEW i, i = JUMP(work'[k].label)
       PROVE  Made(i)'
  <2>1. \/ \E j \in 1 .. Len(w) : work'[k] = w[j]
        \/ \E j \in 1 .. Len(f) : work'[k] = f[j]
        \/ \E j \in 1 .. Len(t) : work'[k] = t[j]
    <3> DEFINE v == w \o f \o t
    <3>1. w \in Seq(Item) /\ f \in Seq(Item) /\ t \in Seq(Item)
      BY <1>6, <1>7, <1>8
    <3>2. \A j \in 1 .. Len(v) :
            \/ j \in 1 .. Len(w) /\ v[j] = w[j]
            \/ \E l \in 1 .. Len(f) : v[j] = f[l]
            \/ \E l \in 1 .. Len(t) : v[j] = t[l]
      BY ONLY <3>1, WorkPlaces
    <3> QED
      BY <1>4, <3>2
  <2>2. ASSUME NEW j \in 1 .. Len(w), work'[k] = w[j] PROVE Made(i)'
    <3>1. LastOf(b).op \in TwoTarget /\ j = 1
      BY <1>6, <1>10, <2>2
    <3>2. work'[k].label = LastOf(b).args[2].name
      BY <1>6, <2>2, <3>1 DEF OrJump
    <3> QED
      BY <1>5, <1>10, <3>1, <3>2 DEF MadeOf
  <2>3. ASSUME NEW j \in 1 .. Len(t), work'[k] = t[j] PROVE Made(i)'
    BY <1>5, <1>8, <1>10, <2>3 DEF MadeOnly
  <2> QED
    BY <1>7, <1>10, <2>1, <2>2, <2>3
<1> QED
  BY <1>9, <1>10 DEF MadeOnly

LEMMA StepMadeOnly == IInv /\ MadeOnly /\ [Next]_vars => MadeOnly'
<1> SUFFICES ASSUME IInv, MadeOnly, [Next]_vars PROVE MadeOnly'
  OBVIOUS
<1>1. CASE ScheduleBlock
  BY <1>1, ScheduleBlockMadeOnly
<1>2. CASE EmitJump \/ SkipScheduled \/ FreeBlock
  <2> DEFINE t == Tail(work)
  <2>1. in' = in /\ work' = t /\ work # << >> /\ Typed
    BY <1>2 DEF EmitJump, SkipScheduled, FreeBlock, Scheduling, IInv
  <2>2. \A i : Made(i) => Made(i)'
    <3>1. CASE EmitJump
      <4>1. out' = out \o <<JUMP(Head(work).label)>> /\ Head(work).todo = "orJump"
        BY <3>1 DEF EmitJump
      <4>2. Head(work) \in Item /\ out \in Seq(Emittable)
        BY <2>1 DEF Typed
      <4>3. Head(work).label \in Int
        BY <4>1, <4>2 DEF Item
      <4>4. <<JUMP(Head(work).label)>> \in Seq(Emittable)
        BY <4>3, LabelFacts
      <4> QED
        BY <2>1, <4>1, <4>2, <4>4, EmittedGrows
    <3>2. CASE SkipScheduled \/ FreeBlock
      <4>1. UNCHANGED <<in, out>>
        BY <3>2 DEF SkipScheduled, FreeBlock
      <4> QED
        BY <4>1, SameOutput DEF Made, MadeOf
    <3> QED
      BY <1>2, <3>1, <3>2
  <2>3. /\ \A k \in 1 .. Len(t) : t[k] = work[k + 1] /\ k + 1 \in 1 .. Len(work)
        /\ Head(work) = work[1] /\ 1 \in 1 .. Len(work)
    BY <2>1 DEF Typed
  <2> HIDE DEF t
  <2>4. \A k \in 1 .. Len(out') : \A i : i = out'[k] => Made(i)'
    <3>1. CASE EmitJump
      <4>1. out' = Append(out, JUMP(Head(work).label)) 
            /\ \A i : i = JUMP(Head(work).label) => Made(i)'
        <5>1. out' = out \o <<JUMP(Head(work).label)>> /\ Head(work).todo = "orJump"
          BY <3>1 DEF EmitJump
        <5>2. out \in Seq(Emittable)
          BY <2>1 DEF Typed
        <5> QED
          BY <2>2, <2>3, <5>1, <5>2 DEF MadeOnly
      <4>2. out \in Seq(Emittable) /\ Len(out) \in Nat
        BY <2>1 DEF Typed
      <4>3. \A k \in 1 .. Len(out) + 1 :
              out'[k] = IF k = Len(out) + 1 THEN JUMP(Head(work).label) ELSE out[k]
        BY <4>1, <4>2
      <4>4. Len(out') = Len(out) + 1
        BY <4>1, <4>2
      <4>5. \A k \in 1 .. Len(out) : \A i : i = out[k] => Made(i)'
        BY <2>2 DEF MadeOnly
      <4>6. \A k \in 1 .. Len(out) + 1 : k = Len(out) + 1 \/ k \in 1 .. Len(out)
        BY <4>2
      <4> QED
        BY <4>1, <4>3, <4>4, <4>5, <4>6
    <3>2. CASE SkipScheduled \/ FreeBlock
      BY <2>2, <3>2 DEF SkipScheduled, FreeBlock, MadeOnly
    <3> QED
      BY <1>2, <3>1, <3>2
  <2> QED
    BY <2>1, <2>2, <2>3, <2>4 DEF MadeOnly
<1>3. CASE UseFreed \/ Finish \/ UNCHANGED vars
  <2>1. UNCHANGED <<in, out, work>>
    BY <1>3 DEF UseFreed, Finish, vars
  <2>2. \A i : Made(i)' <=> Made(i)
    BY <2>1, SameOutput DEF Made, MadeOf
  <2> QED
    BY <2>1, <2>2 DEF MadeOnly
<1> QED
  BY <1>1, <1>2, <1>3 DEF Next

\* What is emitted are instructions, and they name no labels but those the
\* function's own name.
LEMMA OperandFacts ==
  /\ \A n \in Int : Local(n) \in IROperand /\ Local(n).name = n
  /\ \A o \in IROperand : Copy(o) \in IROperand /\ Copy(o).name = o.name
  BY DEF Local, Copy, Operand, IROperand

LEMMA OneArgJumpTarget ==
  ASSUME NEW i \in IRInstruction, i.op \in TwoTarget, Len(i.args) \in {3, 4}
  PROVE  /\ OneArgJump(i) \in IRInstruction /\ OneArgJump(i).op \in OneTarget
         /\ OneArgJump(i).args[1].name = i.args[1].name
<1> DEFINE args == <<i.args[1]>> \o SubSeq(i.args, 3, Len(i.args))
           copies == [a \in DOMAIN args |-> Copy(args[a])]
<1>1. FallthroughOp[i.op] \in OneTarget /\ FallthroughOp[i.op] \in IROperator
  BY DEF OneTarget, IROperator
<1>2. i.args \in Seq(IROperand) /\ 1 \in 1 .. Len(i.args) /\ 3 \in 1 .. Len(i.args) + 1
  <2>1. i.args \in Seq(IROperand)
    BY DEF IRInstruction
  <2>2. \A n : n \in {3, 4} => n \in Nat /\ 3 <= n
    OBVIOUS
  <2>3. Len(i.args) \in Nat /\ 3 <= Len(i.args)
    BY ONLY <2>2, Len(i.args) \in {3, 4}
  <2> QED
    BY <2>1, <2>3
<1>3. i.args[1] \in IROperand /\ SubSeq(i.args, 3, Len(i.args)) \in Seq(IROperand)
  BY <1>2
<1>4. args \in Seq(IROperand) /\ Len(args) >= 1 /\ args[1] = i.args[1]
  <2> DEFINE r == SubSeq(i.args, 3, Len(i.args))
  <2>1. r \in Seq(IROperand)
    BY <1>3
  <2> HIDE DEF r
  <2> QED
    BY <1>3, <2>1 DEF r
<1> HIDE DEF args
<1>5. DOMAIN args = 1 .. Len(args) /\ Len(args) \in Nat /\ \A a \in 1 .. Len(args) : args[a] \in IROperand
  BY <1>4
<1>6. copies \in Seq(IROperand) /\ copies[1] = Copy(i.args[1])
  BY <1>4, <1>5, OperandFacts
<1> HIDE DEF copies
<1>7. OneArgJump(i) = [op |-> FallthroughOp[i.op], args |-> copies]
  BY DEF OneArgJump, Copied, args, copies
<1>8. OneArgJump(i) \in IRInstruction
  BY <1>1, <1>6, <1>7 DEF IRInstruction
<1> QED
  BY <1>1, <1>3, <1>6, <1>7, <1>8, OperandFacts

LEMMA MadeFacts ==
  ASSUME IsInput(in), NEW i, Made(i)
  PROVE  /\ i \in IRInstruction
         /\ \E b \in Original :
              /\ b.label \in Emitted
              /\ \/ i = LABEL(b.label)
                 \/ \E k \in 1 .. Len(b.instructions) :
                      /\ i = b.instructions[k]
                      /\ k = Len(b.instructions) => LastOf(b).op \notin TwoTarget
                 \/ /\ LastOf(b).op \in TwoTarget
                    /\ i.op \in {"JUMP"} \cup OneTarget
                    /\ i.args[1].name \in {LastOf(b).args[1].name, LastOf(b).args[2].name}
<1>1. \A n \in Int : /\ LABEL(n) \in IRInstruction /\ LABEL(n).op = "LABEL"
                     /\ JUMP(n) \in IRInstruction /\ JUMP(n).op = "JUMP"
                     /\ JUMP(n).args[1].name = n
  <2> TAKE n \in Int
  <2>1. <<Local(n)>> \in Seq(IROperand) /\ Local(n).name = n
    BY OperandFacts
  <2>2. "LABEL" \in IROperator /\ "JUMP" \in IROperator
    BY DEF IROperator
  <2> QED
    BY <2>1, <2>2 DEF LABEL, JUMP, IRInstruction
<1>2. \A b \in Original : b.label \in Int
  BY InputFacts
<1>3. ASSUME NEW b \in Original, NEW k \in 1 .. Len(b.instructions), i = b.instructions[k]
      PROVE  i \in IRInstruction
  BY <1>3, BlockFacts
<1>4. ASSUME NEW b \in Original, LastOf(b).op \in TwoTarget
      PROVE  /\ LastOf(b) \in IRInstruction /\ Len(LastOf(b).args) \in {3, 4}
             /\ LastOf(b).args[2].name \in Int
  <2>1. /\ IsTerminator(LastOf(b)) /\ LastOf(b) \in IRInstruction
        /\ \A a \in 1 .. Len(LastOf(b).args) : LastOf(b).args[a].name \in Int
    BY BlockFacts
  <2>2. Len(LastOf(b).args) \in {3, 4}
    BY <1>4, <2>1 DEF IsTerminator, TwoTarget, CJumps, BJumps
  <2> QED
    BY <2>1, <2>2
<1>5. ASSUME NEW b \in Original, LastOf(b).op \in TwoTarget, i = OneArgJump(LastOf(b))
      PROVE  /\ i \in IRInstruction /\ i.op \in OneTarget
             /\ i.args[1].name = LastOf(b).args[1].name
  BY <1>4, <1>5, OneArgJumpTarget
<1>6. ASSUME NEW b \in Original, LastOf(b).op \in TwoTarget, i = JUMP(LastOf(b).args[2].name)
      PROVE  /\ i \in IRInstruction /\ i.op = "JUMP"
             /\ i.args[1].name = LastOf(b).args[2].name
  BY <1>1, <1>4, <1>6
<1> QED
  BY <1>1, <1>2, <1>3, <1>5, <1>6 DEF Made, MadeOf
-----------------------------------------------------------------------------
(* What is freed *)

\* Everything that is freed, or waits to be, was freed before the pass or is
\* held by the jump of a block that left the list.
FreedWithScheduled ==
  phase = "schedule" =>
    /\ \A o \in freed :
         \/ o \in in.freed
         \/ \E b \in Original : b.label \notin LabelsOf(blocks) /\ o \in FreedWith(b)
    /\ \A k \in 1 .. Len(work) : work[k].todo = "free" =>
         \E b \in Original : b.label \notin LabelsOf(blocks) /\ work[k].objects = FreedWith(b)

\* When every instruction owns its operands, what waits to be freed is not freed
\* yet, and waits once.
WaitsOnce ==
  phase = "schedule" /\ OwnedOnce(in.blocks, in.freed) =>
    \A k \in 1 .. Len(work) : work[k].todo = "free" =>
      /\ work[k].objects \cap freed = {}
      /\ \A j \in 1 .. Len(work) : work[j].todo = "free" /\ j # k =>
           work[k].objects \cap work[j].objects = {}

FreedIInv == FreedWithScheduled /\ WaitsOnce /\ UndefinedOnlyIfShared

LEMMA StartFreedIInv == Start => FreedIInv
<1> SUFFICES ASSUME Start PROVE FreedIInv
  OBVIOUS
<1>1. Len(work) = 1 /\ \A k \in 1 .. Len(work) : work[k].todo # "free"
  BY DEF Start, IfFound
<1>2. phase = "schedule" /\ freed = in.freed
  BY DEF Start
<1> QED
  BY <1>1, <1>2 DEF FreedIInv, FreedWithScheduled, WaitsOnce, UndefinedOnlyIfShared

\* The operands of a block are no other block's, and not freed before.
LEMMA OwnedApart ==
  ASSUME IsInput(in), OwnedOnce(in.blocks, in.freed), NEW b \in Original,
         NEW k \in DOMAIN b.instructions, NEW o \in Objects(b.instructions[k])
  PROVE  /\ o \notin in.freed
         /\ \A c \in Original : \A j \in DOMAIN c.instructions :
              o \in Objects(c.instructions[j]) => c = b /\ j = k
<1>1. PICK i \in DOMAIN in.blocks : b = in.blocks[i]
  BY DEF Original, ElementsOf
<1>2. /\ o \notin in.freed
      /\ \A c \in DOMAIN in.blocks : \A j \in DOMAIN in.blocks[c].instructions :
           o \in Objects(in.blocks[c].instructions[j]) => c = i /\ j = k
  <2>1. Objects(b.instructions[k]) # {}
    OBVIOUS
  <2>2. /\ Objects(b.instructions[k]) \cap in.freed = {}
        /\ \A c \in DOMAIN in.blocks : \A j \in DOMAIN in.blocks[c].instructions :
             Objects(in.blocks[c].instructions[j]) \cap Objects(b.instructions[k]) # {} => c = i /\ j = k
    BY <1>1, <2>1 DEF OwnedOnce
  <2> QED
    BY <2>2
<1> QED
  BY <1>1, <1>2 DEF Original, ElementsOf

\* So are those of the jump that stays in a block.
LEMMA JumpsApart ==
  ASSUME IsInput(in), OwnedOnce(in.blocks, in.freed), NEW b \in Original,
         NEW o \in FreedWith(b)
  PROVE  /\ o \notin in.freed
         /\ \A c \in Original : \A j \in DOMAIN c.instructions :
              o \in Objects(c.instructions[j]) => c = b
         /\ \A c \in Original : o \in FreedWith(c) => c = b
<1>1. \A c \in Original : /\ Len(c.instructions) \in DOMAIN c.instructions
                          /\ FreedWith(c) \subseteq Objects(c.instructions[Len(c.instructions)])
  <2> TAKE c \in Original
  <2>1. c.instructions \in Seq(IRInstruction) /\ Len(c.instructions) >= 1
    BY BlockFacts
  <2> QED
    BY <2>1 DEF FreedWith, LastOf
<1>2. /\ o \notin in.freed
      /\ \A c \in Original : \A j \in DOMAIN c.instructions :
           o \in Objects(c.instructions[j]) => c = b
  BY <1>1, OwnedApart
<1> QED
  BY <1>1, <1>2

\* A block of the list has all its operands, and each once.
LEMMA ListOwned ==
  ASSUME Typed, FreedIInv, phase = "schedule", OwnedOnce(in.blocks, in.freed)
  PROVE  /\ OwnedOnce(blocks, freed)
         /\ \A b \in ElementsOf(blocks) : FreedWith(b) \cap freed = {}
<1>1. /\ IsInput(in) /\ blocks \in Seq(IRBlock) /\ ElementsOf(blocks) \subseteq Original
      /\ DOMAIN blocks = 1 .. Len(blocks)
      /\ \A i, j \in DOMAIN blocks : blocks[i].label = blocks[j].label => i = j
      /\ \A i \in DOMAIN blocks : blocks[i] \in Original /\ blocks[i].label \in LabelsOf(blocks)
  BY DEF Typed, ElementsOf, LabelsOf
<1>2. ASSUME NEW b \in DOMAIN blocks, NEW k \in DOMAIN blocks[b].instructions,
             NEW o \in Objects(blocks[b].instructions[k])
      PROVE  /\ o \notin freed
             /\ \A c \in DOMAIN blocks : \A j \in DOMAIN blocks[c].instructions :
                  o \in Objects(blocks[c].instructions[j]) => c = b /\ j = k
  <2>1. /\ o \notin in.freed
        /\ \A c \in Original : \A j \in DOMAIN c.instructions :
             o \in Objects(c.instructions[j]) => c = blocks[b] /\ j = k
    BY <1>1, OwnedApart
  <2>2. \A c \in Original : o \in FreedWith(c) => c = blocks[b]
    BY <1>1, <2>1, JumpsApart
  <2>3. o \notin freed
    BY <1>1, <2>1, <2>2 DEF FreedIInv, FreedWithScheduled
  <2> QED
    BY <1>1, <2>1, <2>3
<1>3. OwnedOnce(blocks, freed)
  <2> SUFFICES ASSUME NEW b \in DOMAIN blocks, NEW k \in DOMAIN blocks[b].instructions
               PROVE  LET held == Objects(blocks[b].instructions[k])
                      IN  /\ held \cap freed = {}
                          /\ \A c \in DOMAIN blocks : \A j \in DOMAIN blocks[c].instructions :
                               Objects(blocks[c].instructions[j]) \cap held # {}
                                 => c = b /\ j = k
    BY DEF OwnedOnce
  <2> QED
    BY <1>2
<1>4. ASSUME NEW b \in ElementsOf(blocks), NEW o \in FreedWith(b)
      PROVE  o \notin freed
  <2>1. b \in Original /\ b.label \in LabelsOf(blocks)
    BY <1>1 DEF ElementsOf
  <2>2. o \notin in.freed /\ \A c \in Original : o \in FreedWith(c) => c = b
    BY <1>1, <2>1, JumpsApart
  <2> QED
    BY <2>1, <2>2 DEF FreedIInv, FreedWithScheduled
<1> QED
  BY <1>3, <1>4

\* Where what a call frees last is in the list of calls.
LEMMA FreePlaces ==
  ASSUME NEW a \in Seq(Item), NEW b \in Seq(Item), NEW c \in Seq(Item),
         NEW k \in 1 .. Len(a \o b \o c)
  PROVE  \/ k \in 1 .. Len(a) /\ (a \o b \o c)[k] = a[k]
         \/ /\ k - Len(a) \in 1 .. Len(b)
            /\ (a \o b \o c)[k] = b[k - Len(a)]
         \/ /\ k - (Len(a) + Len(b)) \in 1 .. Len(c)
            /\ (a \o b \o c)[k] = c[k - (Len(a) + Len(b))]
<1> DEFINE d == a \o b
<1>1. /\ d \in Seq(Item) /\ Len(d) = Len(a) + Len(b)
      /\ \A n \in 1 .. Len(a) : d[n] = a[n]
      /\ \A n \in 1 .. Len(b) : d[Len(a) + n] = b[n]
  BY Concatenated
<1>2. Len(a) \in Nat /\ Len(b) \in Nat /\ Len(c) \in Nat
  OBVIOUS
<1> HIDE DEF d
<1> DEFINE t == d \o c
<1>3. /\ Len(t) = Len(d) + Len(c)
      /\ \A n \in 1 .. Len(d) : t[n] = d[n]
      /\ \A n \in 1 .. Len(c) : t[Len(d) + n] = c[n]
  <2>1. d \in Seq(Item)
    BY <1>1
  <2> QED
    BY ONLY <2>1, c \in Seq(Item), Concatenated
<1>4. t = a \o b \o c
  BY DEF t, d
<1> HIDE DEF t
<1>5. CASE k <= Len(a)
  BY <1>1, <1>2, <1>3, <1>4, <1>5
<1>6. CASE k > Len(a) /\ k <= Len(a) + Len(b)
  <2>1. /\ k - Len(a) \in 1 .. Len(b) /\ k = Len(a) + (k - Len(a))
        /\ k \in 1 .. Len(d)
    BY <1>1, <1>2, <1>6
  <2>2. d[k] = b[k - Len(a)] /\ t[k] = d[k]
    BY <1>1, <1>3, <2>1
  <2> QED
    BY <1>4, <2>1, <2>2
<1>7. CASE k > Len(a) + Len(b)
  <2>1. /\ k - Len(d) \in 1 .. Len(c) /\ k = Len(d) + (k - Len(d))
    BY <1>1, <1>2, <1>3, <1>4, <1>7
  <2>2. t[k] = c[k - Len(d)]
    BY <1>3, <2>1
  <2> QED
    BY <1>1, <1>4, <2>1, <2>2
<1> QED
  BY <1>2, <1>5, <1>6, <1>7

\* A call is made: when it returns it will free the jump of its block.
LEMMA ScheduleBlockFreed ==
  ASSUME IInv, FreedIInv, ScheduleBlock
  PROVE  FreedWithScheduled' /\ WaitsOnce'
<1> DEFINE item == Head(work)
           rest == Without(blocks, item.label)
           t == Tail(work)
<1>1. /\ IsInput(in) /\ Typed /\ phase = "schedule" /\ work # << >>
      /\ UNCHANGED <<in, freed, phase>>
      /\ item.todo \in {"ifFound", "orJump"} /\ HasBlock(blocks, item.label)
  BY DEF IInv, Typed, ScheduleBlock, Scheduling, IsToSchedule
<1>2. PICK b : b = FindBlock(blocks, item.label)
  OBVIOUS
<1>3. /\ b \in Original /\ b.label = item.label
      /\ LabelsOf(rest) = LabelsOf(blocks) \ {b.label}
      /\ b.label \in LabelsOf(blocks)
  BY <1>1, <1>2, TakenFacts DEF HasBlock, LabelsOf
<1>4. /\ blocks' = rest /\ Original' = Original /\ freed' = freed
      /\ work' = WorkFor(LastOf(b)) \o Freeing(b) \o t
  BY <1>1, <1>2, <1>3 DEF ScheduleBlock, Original
<1> HIDE DEF rest
<1>5. b \in ElementsOf(blocks)
  <2>1. IndexOfBlock(blocks, item.label) \in DOMAIN blocks
    BY <1>1 DEF HasBlock, IndexOfBlock
  <2> QED
    BY <1>2, <2>1 DEF FindBlock, ElementsOf
<1>6. OwnedOnce(in.blocks, in.freed) => FreedWith(b) \cap freed = {}
  BY <1>1, <1>5, ListOwned
<1>7. /\ t \in Seq(Item) /\ Len(t) \in Nat
      /\ \A k \in 1 .. Len(t) : k + 1 \in 1 .. Len(work) /\ t[k] = work[k + 1]
  <2>1. work \in Seq(Item)
    BY <1>1 DEF Typed
  <2> QED
    BY <1>1, <2>1
<1> HIDE DEF t
<1> DEFINE a == WorkFor(LastOf(b))
           f == Freeing(b)
<1>8. a \in Seq(Item) /\ \A k \in 1 .. Len(a) : a[k].todo # "free"
  <2> DEFINE targets == JumpTargets(LastOf(b), in.tables)
  <2>1. a \in Seq(Item)
    BY <1>1, <1>3, WorkFacts
  <2>2. CASE LastOf(b).op \in TwoTarget
    <3>1. a = <<OrJump(targets[2]), IfFound(targets[1])>>
      BY <2>2 DEF WorkFor
    <3>2. \A l : OrJump(l).todo # "free" /\ IfFound(l).todo # "free"
      BY DEF OrJump, IfFound
    <3> HIDE DEF a
    <3>3. \A k \in 1 .. Len(a) : a[k] = OrJump(targets[2]) \/ a[k] = IfFound(targets[1])
      BY <3>1
    <3> QED
      BY <2>1, <3>2, <3>3 DEF a
  <2>3. CASE LastOf(b).op \notin TwoTarget
    <3>1. a = [k \in DOMAIN targets |-> IfFound(targets[k])]
      BY <2>3 DEF WorkFor
    <3> HIDE DEF a
    <3>2. \A k \in 1 .. Len(a) : k \in DOMAIN a
      BY <2>1 DEF a
    <3>3. \A k \in DOMAIN a : a[k].todo = "ifFound"
      BY <3>1 DEF IfFound
    <3> QED
      BY <2>1, <3>2, <3>3 DEF a
  <2> QED
    BY <2>2, <2>3
<1>9. f \in Seq(Item) /\ \A k \in 1 .. Len(f) : k = 1 /\ f[k].objects = FreedWith(b)
  <2>1. f \in Seq(Item)
    BY <1>1, <1>3, FreeingFacts
  <2> QED
    BY <2>1 DEF Freeing, Free
<1> HIDE DEF a, f
<1>10. ASSUME NEW k \in 1 .. Len(work'), work'[k].todo = "free"
       PROVE  \/ k = Len(a) + 1 /\ Len(f) >= 1 /\ work'[k].objects = FreedWith(b)
              \/ /\ k - (Len(a) + Len(f)) \in 1 .. Len(t)
                 /\ work'[k] = t[k - (Len(a) + Len(f))]
  <2>1. work' = a \o f \o t
    BY <1>4 DEF a, f
  <2>2. \/ k \in 1 .. Len(a) /\ work'[k] = a[k]
        \/ /\ k - Len(a) \in 1 .. Len(f)
           /\ work'[k] = f[k - Len(a)]
        \/ /\ k - (Len(a) + Len(f)) \in 1 .. Len(t)
           /\ work'[k] = t[k - (Len(a) + Len(f))]
    BY <1>7, <1>8, <1>9, <2>1, FreePlaces
  <2>3. Len(a) \in Nat /\ Len(f) \in Nat
    BY <1>8, <1>9
  <2>4. CASE k - Len(a) \in 1 .. Len(f) /\ work'[k] = f[k - Len(a)]
    <3>1. k - Len(a) = 1 /\ work'[k].objects = FreedWith(b)
      BY <1>9, <2>4
    <3> QED
      BY <2>3, <2>4, <3>1
  <2> QED
    BY <1>8, <1>10, <2>2, <2>4
<1>11. FreedWithScheduled'
  <2>1. \A o \in freed' :
          \/ o \in in.freed
          \/ \E c \in Original : c.label \notin LabelsOf(rest) /\ o \in FreedWith(c)
    BY <1>1, <1>3, <1>4 DEF FreedIInv, FreedWithScheduled
  <2>2. \A k \in 1 .. Len(work') : work'[k].todo = "free" =>
          \E c \in Original : c.label \notin LabelsOf(rest) /\ work'[k].objects = FreedWith(c)
    <3> SUFFICES ASSUME NEW k \in 1 .. Len(work'), work'[k].todo = "free"
                 PROVE  \E c \in Original : /\ c.label \notin LabelsOf(rest)
                                            /\ work'[k].objects = FreedWith(c)
      OBVIOUS
    <3>1. CASE work'[k].objects = FreedWith(b)
      BY <1>3, <3>1
    <3>2. CASE \E n \in 1 .. Len(work) : work'[k] = work[n]
      BY <1>1, <1>3, <3>2 DEF FreedIInv, FreedWithScheduled
    <3> QED
      BY <1>7, <1>10, <3>1, <3>2
  <2> QED
    BY <1>1, <1>4, <2>1, <2>2 DEF FreedWithScheduled
<1>12. ASSUME OwnedOnce(in.blocks, in.freed),
              NEW k \in 1 .. Len(work'), work'[k].todo = "free"
       PROVE  /\ work'[k].objects \cap freed = {}
              /\ \A j \in 1 .. Len(work') : work'[j].todo = "free" /\ j # k =>
                   work'[k].objects \cap work'[j].objects = {}
  <2> DEFINE m == Len(a) + Len(f)
  <2>1. m \in Nat
    BY <1>8, <1>9
  <2>2. ASSUME NEW n \in 1 .. Len(work), work[n].todo = "free"
        PROVE  work[n].objects \cap FreedWith(b) = {}
    <3>1. PICK c \in Original : /\ c.label \notin LabelsOf(blocks)
                                /\ work[n].objects = FreedWith(c)
      BY <1>1, <2>2 DEF FreedIInv, FreedWithScheduled
    <3> QED
      BY <1>1, <1>3, <1>12, <3>1, JumpsApart
  <2>3. ASSUME NEW j \in 1 .. Len(work'), j - m \in 1 .. Len(t), work'[j] = t[j - m]
        PROVE  /\ j - m + 1 \in 1 .. Len(work) /\ work'[j] = work[j - m + 1]
    BY <1>7, <2>3
  <2>4. \A n \in 1 .. Len(work) : work[n].todo = "free" =>
          /\ work[n].objects \cap freed = {}
          /\ \A j \in 1 .. Len(work) : work[j].todo = "free" /\ j # n =>
               work[n].objects \cap work[j].objects = {}
    BY <1>1, <1>12 DEF FreedIInv, WaitsOnce
  <2>5. work'[k].objects \cap freed = {}
    BY <1>6, <1>10, <1>12, <2>3, <2>4 DEF m
  <2>6. ASSUME NEW j \in 1 .. Len(work'), work'[j].todo = "free", j # k
        PROVE  work'[k].objects \cap work'[j].objects = {}
    <3>1. \/ k = Len(a) + 1 /\ work'[k].objects = FreedWith(b)
          \/ k - m \in 1 .. Len(t) /\ work'[k] = t[k - m]
      BY <1>10, <1>12 DEF m
    <3>2. \/ j = Len(a) + 1 /\ work'[j].objects = FreedWith(b)
          \/ j - m \in 1 .. Len(t) /\ work'[j] = t[j - m]
      BY <1>10, <2>6 DEF m
    <3> HIDE DEF m
    <3>3. CASE k = Len(a) + 1 /\ work'[k].objects = FreedWith(b)
      BY <2>2, <2>3, <2>6, <3>2, <3>3
    <3>4. CASE k - m \in 1 .. Len(t) /\ work'[k] = t[k - m]
      <4>1. k - m + 1 \in 1 .. Len(work) /\ work'[k] = work[k - m + 1]
        BY <2>3, <3>4
      <4>2. CASE j = Len(a) + 1 /\ work'[j].objects = FreedWith(b)
        BY <1>12, <2>2, <4>1, <4>2
      <4>3. CASE j - m \in 1 .. Len(t) /\ work'[j] = t[j - m]
        <5>1. j - m + 1 \in 1 .. Len(work) /\ work'[j] = work[j - m + 1]
          BY <2>3, <4>3
        <5>2. j - m + 1 # k - m + 1
          BY <2>1, <2>6
        <5> QED
          BY <1>12, <2>4, <2>6, <4>1, <5>1, <5>2
      <4> QED
        BY <3>2, <4>2, <4>3
    <3> QED
      BY <3>1, <3>3, <3>4
  <2> QED
    BY <2>5, <2>6
<1>13. WaitsOnce'
  BY <1>1, <1>4, <1>12 DEF WaitsOnce
<1> QED
  BY <1>11, <1>13

\* A call returned, or found nothing to do.
LEMMA TailFreed ==
  ASSUME IInv, FreedIInv, FreeBlock \/ EmitJump \/ SkipScheduled
  PROVE  FreedWithScheduled' /\ WaitsOnce'
<1> DEFINE t == Tail(work)
<1>1. /\ work # << >> /\ phase = "schedule" /\ UNCHANGED <<in, blocks, phase>>
      /\ work' = t /\ Original' = Original
  BY DEF FreeBlock, EmitJump, SkipScheduled, Scheduling, Original
<1>2. /\ \A k \in 1 .. Len(t) : /\ k + 1 \in 1 .. Len(work) /\ t[k] = work[k + 1]
                                /\ k + 1 # 1 /\ k \in Nat
      /\ 1 \in 1 .. Len(work) /\ Head(work) = work[1]
  <2>1. work \in Seq(Item)
    BY DEF IInv, Typed
  <2> QED
    BY <1>1, <2>1
<1> HIDE DEF t
<1>3. \/ freed' = freed
      \/ Head(work).todo = "free" /\ freed' = freed \cup Head(work).objects
  BY DEF FreeBlock, EmitJump, SkipScheduled
<1>4. FreedWithScheduled'
  <2>1. \A o \in freed' :
          \/ o \in in.freed
          \/ \E b \in Original : b.label \notin LabelsOf(blocks) /\ o \in FreedWith(b)
    BY <1>1, <1>2, <1>3 DEF FreedIInv, FreedWithScheduled
  <2>2. \A k \in 1 .. Len(t) : t[k].todo = "free" =>
          \E b \in Original : b.label \notin LabelsOf(blocks) /\ t[k].objects = FreedWith(b)
    BY <1>1, <1>2 DEF FreedIInv, FreedWithScheduled
  <2> QED
    BY <1>1, <2>1, <2>2 DEF FreedWithScheduled
<1>5. ASSUME OwnedOnce(in.blocks, in.freed), NEW k \in 1 .. Len(t), t[k].todo = "free"
      PROVE  /\ t[k].objects \cap freed' = {}
             /\ \A j \in 1 .. Len(t) : t[j].todo = "free" /\ j # k =>
                  t[k].objects \cap t[j].objects = {}
  <2>1. \A n \in 1 .. Len(work) : work[n].todo = "free" =>
          /\ work[n].objects \cap freed = {}
          /\ \A j \in 1 .. Len(work) : work[j].todo = "free" /\ j # n =>
               work[n].objects \cap work[j].objects = {}
    BY <1>1, <1>5 DEF FreedIInv, WaitsOnce
  <2>2. t[k].objects \cap freed' = {}
    BY <1>2, <1>3, <1>5, <2>1
  <2>3. \A j \in 1 .. Len(t) : j # k => j + 1 # k + 1
    BY <1>2
  <2> QED
    BY <1>2, <1>5, <2>1, <2>2, <2>3
<1>6. WaitsOnce'
  BY <1>1, <1>5 DEF WaitsOnce
<1> QED
  BY <1>4, <1>6

LEMMA StepFreedIInv == IInv /\ FreedIInv /\ [Next]_vars => FreedIInv'
<1> SUFFICES ASSUME IInv, FreedIInv, [Next]_vars PROVE FreedIInv'
  OBVIOUS
<1>1. CASE ScheduleBlock
  <2>1. phase' = "schedule"
    BY <1>1 DEF ScheduleBlock, Scheduling
  <2> QED
    BY <1>1, <2>1, ScheduleBlockFreed DEF FreedIInv, UndefinedOnlyIfShared
<1>2. CASE FreeBlock \/ EmitJump \/ SkipScheduled
  <2>1. phase' = "schedule"
    BY <1>2 DEF FreeBlock, EmitJump, SkipScheduled, Scheduling
  <2> QED
    BY <1>2, <2>1, TailFreed DEF FreedIInv, UndefinedOnlyIfShared
<1>3. CASE UseFreed
  <2>1. phase = "schedule" /\ phase' = "undefined" /\ UsesFreed /\ in' = in
    BY <1>3 DEF UseFreed
  <2>2. ASSUME OwnedOnce(in.blocks, in.freed) PROVE FALSE
    <3>1. /\ OwnedOnce(blocks, freed)
          /\ \A b \in ElementsOf(blocks) : FreedWith(b) \cap freed = {}
      BY <2>1, <2>2, ListOwned DEF IInv
    <3>2. work # << >> /\ work \in Seq(Item)
      BY <2>1, <3>1 DEF UsesFreed, IInv, Typed
    <3>3. CASE Head(work).todo = "free"
      <4>1. 1 \in 1 .. Len(work) /\ Head(work) = work[1]
        BY <3>2
      <4> QED
        BY <2>1, <2>2, <3>2, <3>3, <4>1 DEF UsesFreed, FreedIInv, WaitsOnce
    <3>4. CASE Head(work).todo # "free"
      <4>1. /\ HasBlock(blocks, Head(work).label)
            /\ FreedWith(FindBlock(blocks, Head(work).label)) \cap freed # {}
        BY <2>1, <3>2, <3>4 DEF UsesFreed, IsToSchedule
      <4>2. FindBlock(blocks, Head(work).label) \in ElementsOf(blocks)
        BY <4>1 DEF HasBlock, FindBlock, IndexOfBlock, ElementsOf
      <4> QED
        BY <3>1, <4>1, <4>2
    <3> QED
      BY <3>3, <3>4
  <2> QED
    BY <2>1, <2>2 DEF FreedIInv, FreedWithScheduled, WaitsOnce, UndefinedOnlyIfShared
<1>4. CASE Finish
  BY <1>4 DEF Finish, FreedIInv, FreedWithScheduled, WaitsOnce, UndefinedOnlyIfShared
<1>5. CASE UNCHANGED vars
  <2>1. Original' = Original /\ LabelsOf(blocks)' = LabelsOf(blocks)
    BY <1>5 DEF vars, Original, LabelsOf
  <2> QED
    BY <1>5, <2>1
    DEF vars, FreedIInv, FreedWithScheduled, WaitsOnce, UndefinedOnlyIfShared
<1> QED
  BY <1>1, <1>2, <1>3, <1>4, <1>5 DEF Next
-----------------------------------------------------------------------------
(* Theorems *)

LEMMA IInvTypeOK == IInv => TypeOK
<1> SUFFICES ASSUME IInv PROVE TypeOK
  OBVIOUS
<1>1. /\ IsInput(in) /\ Len(blocks) <= Len(in.blocks) /\ blocks \in Seq(IRBlock)
      /\ ElementsOf(blocks) \subseteq Original /\ work \in Seq(Item)
      /\ phase \in {"schedule", "done", "undefined"}
  BY DEF IInv, Typed
<1>2. LabelsOf(blocks) \subseteq Labels
  <2>1. LabelsOf(blocks) = {b.label : b \in ElementsOf(blocks)}
    BY DEF LabelsOf, ElementsOf
  <2> QED
    BY <1>1, <2>1, InputFacts
<1>3. \A w \in DOMAIN work : work[w].todo \in {"ifFound", "orJump", "free"}
  <2>1. \A w \in DOMAIN work : work[w] \in Item
    BY <1>1
  <2> QED
    BY <2>1, ItemFacts
<1> QED
  BY <1>1, <1>2, <1>3 DEF TypeOK

\* Only blocks of the function are ever in the list, and every call waiting is
\* one of the three kinds.
THEOREM TypeCorrect == InputsOK /\ Spec => []TypeOK
  BY IInvTypeOK, Inductive, PTL

LEMMA IInvEmittedOnce == IInv => EmittedOnce
<1> SUFFICES ASSUME IInv, phase = "schedule", NEW b \in Original
             PROVE  IF b.label \in LabelsOf(blocks)
                    THEN PositionsOf(b.label) = {}
                    ELSE \E p \in DOMAIN out :
                           /\ PositionsOf(b.label) = {p}
                           /\ SubSeq(out, p + 1, After(b) - 1) = Body(b) \o EmittedFor(LastOf(b))
  BY DEF EmittedOnce, Original, ElementsOf
<1>1. /\ IsInput(in) /\ out \in Seq(Emittable) /\ Placed
  BY DEF IInv, Typed
<1>2. CASE b.label \in LabelsOf(blocks)
  BY <1>1, <1>2 DEF Placed
<1>3. CASE b.label \notin LabelsOf(blocks)
  <2>1. PICK p \in 1 .. Len(out) : EmittedAt(b, p)
    BY <1>1, <1>3 DEF Placed
  <2> DEFINE rest == Body(b) \o EmittedFor(LastOf(b))
             n == Len(Body(b)) + Len(EmittedFor(LastOf(b)))
             found == SubSeq(out, p + 1, After(b) - 1)
  <2>2. /\ Body(b) \in Seq(Emittable) /\ EmittedFor(LastOf(b)) \in Seq(Emittable)
        /\ Code(b) \in Seq(Emittable) /\ Len(Code(b)) = 1 + n
        /\ \A k \in 2 .. Len(Code(b)) : Code(b)[k] = rest[k - 1]
    BY <1>1, CodeFacts
  <2>3. rest \in Seq(Emittable) /\ Len(rest) = n /\ n \in Nat
    BY <2>2, Concatenated
  <2>4. /\ p + n <= Len(out) /\ PositionsOf(b.label) = {p}
        /\ \A k \in 1 .. n + 1 : out[p + k - 1] = Code(b)[k]
    BY <2>1, <2>2, <2>3 DEF EmittedAt
  <2>5. After(b) - 1 = p + n
    <3>1. After(b) = p + Len(Body(b)) + Len(EmittedFor(LastOf(b))) + 1
      BY <2>4 DEF After
    <3> QED
      BY <2>2, <3>1
  <2> HIDE DEF rest, n
  <2>6. \A k \in 1 .. n : out[p + k] = rest[k]
    <3> SUFFICES ASSUME NEW k \in 1 .. n PROVE out[p + k] = rest[k]
      OBVIOUS
    <3>1. k + 1 \in 1 .. n + 1 /\ k + 1 \in 2 .. Len(Code(b)) /\ k + 1 - 1 = k
          /\ p + (k + 1) - 1 = p + k
      BY <2>2, <2>3
    <3> QED
      BY <2>2, <2>4, <3>1
  <2>7. found = rest
    <3>1. found = SubSeq(out, p + 1, p + n)
      BY <2>5
    <3> DEFINE s == SubSeq(out, p + 1, p + n)
    <3>2. s \in Seq(Emittable) /\ Len(s) = n /\ \A k \in 1 .. n : s[k] = out[p + k]
      BY <1>1, <2>3, <2>4
    <3> HIDE DEF s, found
    <3>3. \A k \in 1 .. n : s[k] = rest[k]
      BY <2>6, <3>2
    <3>4. s = rest
      BY <2>3, <3>2, <3>3
    <3> QED
      BY <3>1, <3>4 DEF s
  <2>8. p \in DOMAIN out
    BY <1>1
  <2> QED
    BY <1>3, <2>4, <2>7, <2>8 DEF rest
<1> QED
  BY <1>2, <1>3

\* Between two steps of scheduleBlock every block is in the list or in the
\* output exactly once, with its instructions behind its label: the recursion
\* neither loses a block nor emits one twice, whatever cycles the jumps form.
THEOREM EmittedOnceAlways == InputsOK /\ Spec => []EmittedOnce
  BY IInvEmittedOnce, Inductive, PTL

LEMMA IInvTargetsScheduled == IInv => TargetsScheduled
<1> SUFFICES ASSUME IInv, phase = "done"
             PROVE  /\ out[1] = LABEL(Entry)
                    /\ \A b \in Original : b.label \in Emitted =>
                         LET t == JumpTargets(LastOf(b), in.tables)
                         IN  \A k \in DOMAIN t : t[k] \in Labels => t[k] \in Emitted
  BY DEF TargetsScheduled, Entry, Original, ElementsOf
<1>1. Pending /\ work = << >>
  BY DEF IInv, Pending
<1>2. LabelsFor(work) = {}
  BY <1>1 DEF LabelsFor, ElementsOf
<1>3. out[1] = LABEL(Entry)
  BY <1>1 DEF Pending
<1>4. \A b \in Original : b.label \in Emitted => TargetsOf(b) \cap Labels \subseteq Emitted
  BY <1>1, <1>2 DEF Pending
<1> QED
  BY <1>3, <1>4 DEF TargetsOf, ElementsOf

\* The entry is emitted first, and no block that an emitted block leads to is
\* thrown away when the blocks left in the list are freed.
THEOREM TargetsAlwaysScheduled == InputsOK /\ Spec => []TargetsScheduled
  BY IInvTargetsScheduled, Inductive, PTL

LEMMA IInvFalseTargetFollows == IInv => FalseTargetFollows
<1> SUFFICES ASSUME IInv, phase = "done", NEW b \in Original,
                    LastOf(b).op \in TwoTarget, b.label \in Emitted
             PROVE  FallsInto(b, LastOf(b).args[2].name)
  BY DEF FalseTargetFollows, Original, ElementsOf
<1>1. work = << >> /\ Falls
  BY DEF IInv, Pending
<1> QED
  BY <1>1 DEF Falls

\* Behind every conditional jump that lost its false target stands that
\* target's label or a jump to it, though its call runs only after the block's
\* own instructions were emitted, and before the call for the true target.
THEOREM FalseTargetsFollow == InputsOK /\ Spec => []FalseTargetFollows
  BY IInvFalseTargetFollows, Inductive, PTL

\* Scheduling copies and frees no operand it freed with a block before, however
\* its calls are nested, unless two instructions of the function hold the same
\* one or one was freed before.
THEOREM FreedUnused == InputsOK /\ Spec => []UndefinedOnlyIfShared
<1>1. InputsOK /\ Init => IInv /\ FreedIInv
  BY StartIInv, StartFreedIInv DEF InputsOK, Init
<1>2. (IInv /\ FreedIInv) /\ [Next]_vars => (IInv /\ FreedIInv)'
  BY StepIInv, StepFreedIInv
<1>3. IInv /\ FreedIInv => UndefinedOnlyIfShared
  BY DEF FreedIInv
<1> QED
  BY <1>1, <1>2, <1>3, PTL DEF Spec
=============================================================================
