----------------------- MODULE ShortCircuitJumpsProofs -----------------------
(***************************************************************************)
(* Proofs about ShortCircuitJumps, for every list of blocks translation    *)
(* can produce, with the allocator of the build (ReuseFirst).              *)
(***************************************************************************)
EXTENDS ShortCircuitJumps, SequenceTheorems, TLAPS

\* Replacing the last instruction, as a record.
LEMMA WithLastIs ==
  ASSUME NEW b \in IRBlock, NEW i
  PROVE  WithLast(b, i) =
           [label |-> b.label,
            instructions |-> [b.instructions EXCEPT ![Len(b.instructions)] = i]]
  BY DEF WithLast, IRBlock

\* What a block is after its last instruction was replaced.
LEMMA WithLastFacts ==
  ASSUME NEW b \in IRBlock, b.instructions # << >>, NEW i \in IRInstruction
  PROVE  /\ WithLast(b, i) \in IRBlock
         /\ WithLast(b, i).label = b.label
         /\ Len(WithLast(b, i).instructions) = Len(b.instructions)
         /\ WithLast(b, i).instructions # << >>
         /\ LastOf(WithLast(b, i)) = i
         /\ LastOf(b) \in IRInstruction
<1> DEFINE s == b.instructions
           t == [s EXCEPT ![Len(s)] = i]
<1>1. s \in Seq(IRInstruction) /\ Len(s) \in 1 .. Len(s) /\ Len(s) \in Nat
  BY DEF IRBlock
<1>2. t \in Seq(IRInstruction) /\ Len(t) = Len(s) /\ t[Len(s)] = i
  BY <1>1, ExceptSeq
<1>3. WithLast(b, i) = [label |-> b.label, instructions |-> t]
  BY WithLastIs
<1>4. LastOf(b) \in IRInstruction
  BY <1>1 DEF LastOf
<1> QED
  BY <1>1, <1>2, <1>3, <1>4 DEF IRBlock, LastOf

\* Replacing the last instruction twice is replacing it once.
LEMMA WithLastTwice ==
  ASSUME NEW b \in IRBlock, b.instructions # << >>,
         NEW i \in IRInstruction, NEW j \in IRInstruction
  PROVE  /\ WithLast(WithLast(b, i), j) = WithLast(b, j)
         /\ WithLast(b, LastOf(b)) = b
<1> DEFINE s == b.instructions
<1>1. s \in Seq(IRInstruction) /\ Len(s) \in 1 .. Len(s) /\ Len(s) \in Nat
      /\ s = [k \in 1 .. Len(s) |-> s[k]]
  BY DEF IRBlock
<1>2. Len(WithLast(b, i).instructions) = Len(s)
  BY WithLastFacts
<1>3. b = [label |-> b.label, instructions |-> s]
  BY DEF IRBlock
<1>4. \A l, q, x : WithLast([label |-> l, instructions |-> q], x)
                      = [label |-> l, instructions |-> [q EXCEPT ![Len(q)] = x]]
  BY DEF WithLast
<1>5. WithLast(WithLast(b, i), j)
        = [label |-> b.label,
           instructions |-> [[s EXCEPT ![Len(s)] = i] EXCEPT ![Len(s)] = j]]
  <2>1. WithLast(b, i) = [label |-> b.label,
                          instructions |-> [s EXCEPT ![Len(s)] = i]]
    BY WithLastIs
  <2>2. Len([s EXCEPT ![Len(s)] = i]) = Len(s)
    BY <1>1, ExceptSeq
  <2> QED
    BY <1>4, <2>1, <2>2
<1>6. [[s EXCEPT ![Len(s)] = i] EXCEPT ![Len(s)] = j] = [s EXCEPT ![Len(s)] = j]
  BY <1>1
<1>7. [s EXCEPT ![Len(s)] = s[Len(s)]] = s
  BY <1>1
<1> QED
  BY <1>3, <1>4, <1>5, <1>6, <1>7 DEF LastOf

\* A copy is an instruction with the same operator and the same labels, and
\* copying it again changes nothing.
LEMMA CopiedFacts ==
  ASSUME NEW i \in IRInstruction
  PROVE  /\ Copied(i) \in IRInstruction
         /\ Copied(i).op = i.op
         /\ Copied(Copied(i)) = Copied(i)
         /\ \A a \in 1 .. Len(i.args) : Copied(i).args[a].name = i.args[a].name
<1> DEFINE c == [a \in 1 .. Len(i.args) |-> Copy(i.args[a])]
           e == [a \in 1 .. Len(i.args) |-> Copy(c[a])]
<1>1. /\ i.args \in Seq(IROperand) /\ Len(i.args) \in Nat
      /\ DOMAIN i.args = 1 .. Len(i.args)
      /\ i.op \in IROperator
  BY DEF IRInstruction
<1>2. \A a \in 1 .. Len(i.args) : i.args[a] \in IROperand
  BY <1>1
<1>3. \A o \in IROperand : /\ Copy(o) \in IROperand /\ Copy(o).name = o.name
                          /\ Copy(Copy(o)) = Copy(o)
  BY DEF IROperand, Copy, Operand
<1>4. c \in Seq(IROperand) /\ DOMAIN c = 1 .. Len(i.args)
  <2>1. c \in [1 .. Len(i.args) -> IROperand]
    BY <1>2, <1>3
  <2> QED
    BY <2>1, <1>1
<1>5. Copied(i) = [op |-> i.op, args |-> c]
  BY <1>1 DEF Copied
<1>6. Copied(Copied(i)) = [op |-> i.op, args |-> e]
  <2>1. \A o, s : Copied([op |-> o, args |-> s])
                   = [op |-> o, args |-> [a \in DOMAIN s |-> Copy(s[a])]]
    BY DEF Copied
  <2> HIDE DEF c
  <2> QED
    BY <1>4, <1>5, <2>1
<1>7. e = c
  BY <1>2, <1>3
<1>8. \A a \in 1 .. Len(i.args) : c[a].name = i.args[a].name
  BY <1>2, <1>3
<1> HIDE DEF c, e
<1>9. [op |-> i.op, args |-> c] \in IRInstruction
  BY <1>1, <1>4 DEF IRInstruction
<1> QED
  BY <1>5, <1>6, <1>7, <1>8, <1>9

\* What holds of an instruction and a copy of it alike.
LEMMA OrCopyFacts ==
  ASSUME NEW j \in IRInstruction, IsJump(j) => Len(j.args) = 1,
         NEW i \in OrCopy(j)
  PROVE  /\ i \in IRInstruction
         /\ Copied(i) \in OrCopy(j)
         /\ IsJump(i) <=> IsJump(j)
         /\ IsJump(j) => i.args[1].name = j.args[1].name
<1>1. /\ Copied(j) \in IRInstruction /\ Copied(j).op = j.op
      /\ Copied(Copied(j)) = Copied(j)
      /\ \A a \in 1 .. Len(j.args) : Copied(j).args[a].name = j.args[a].name
  BY CopiedFacts
<1> QED
  BY <1>1 DEF OrCopy, IsJump

\* What the pass takes for granted, in the form the proofs use it.
LEMMA InputFacts ==
  ASSUME NEW bs, IsInput(bs)
  PROVE  /\ bs \in Seq(IRBlock)
         /\ Len(bs) \in Nat /\ DOMAIN bs = 1 .. Len(bs) /\ Len(bs) >= 1
         /\ \A i \in 1 .. Len(bs) :
              /\ bs[i] \in IRBlock
              /\ bs[i].instructions # << >>
              /\ LastOf(bs[i]) \in IRInstruction
              /\ IsJump(LastOf(bs[i])) => Len(LastOf(bs[i]).args) = 1
         /\ \A i, j \in 1 .. Len(bs) : bs[i].label = bs[j].label => i = j
<1>1. bs \in Seq(IRBlock) /\ IsBlockList(bs)
  BY DEF IsInput, IsBlockList
<1>2. \A i \in 1 .. Len(bs) : bs[i] \in IRBlock /\ bs[i].instructions # << >>
  BY <1>1 DEF IsBlockList
<1>3. \A i \in 1 .. Len(bs) : LastOf(bs[i]) \in IRInstruction
  <2> TAKE i \in 1 .. Len(bs)
  <2>1. bs[i].instructions \in Seq(IRInstruction) /\ bs[i].instructions # << >>
    BY <1>2 DEF IRBlock
  <2> QED
    BY <2>1 DEF LastOf
<1>4. \A i \in 1 .. Len(bs) :
        IsJump(LastOf(bs[i])) => Len(LastOf(bs[i]).args) = 1
  BY <1>1 DEF IsBlockList, IsTerminator, IsJump, TwoTarget, CJumps, BJumps
<1> QED
  BY <1>1, <1>2, <1>3, <1>4 DEF IsBlockList
-----------------------------------------------------------------------------
(* Hops *)

\* A block is among those control may go through from it.
LEMMA HopsReflexive ==
  ASSUME NEW bs, NEW i
  PROVE  i \in HopsFrom(bs, i)
  BY DEF HopsFrom

\* One more hop stays among them.
LEMMA HopsStep ==
  ASSUME NEW bs, NEW i, NEW c \in HopsFrom(bs, i),
         NEW d \in 1 .. Len(bs), Hop(bs, c, d)
  PROVE  d \in HopsFrom(bs, i)
<1>1. d \in SinglesOf(bs)
  BY DEF SinglesOf, Hop
<1>2. ASSUME NEW S \in SUBSET ({i} \cup SinglesOf(bs)), i \in S, Closed(bs, S)
      PROVE  d \in S
  BY <1>2 DEF HopsFrom, Closed
<1> QED
  BY <1>1, <1>2 DEF HopsFrom

\* So do the hops of any of them.
LEMMA HopsTransitive ==
  ASSUME NEW bs, NEW i, NEW c \in HopsFrom(bs, i), NEW e \in HopsFrom(bs, c)
  PROVE  e \in HopsFrom(bs, i)
<1>1. e \in {i} \cup SinglesOf(bs)
  BY DEF HopsFrom
<1>2. ASSUME NEW S \in SUBSET ({i} \cup SinglesOf(bs)), i \in S, Closed(bs, S)
      PROVE  e \in S
  <2> DEFINE R == {c} \cup (S \cap SinglesOf(bs))
  <2>1. c \in S
    BY <1>2 DEF HopsFrom
  <2>2. Closed(bs, R)
    BY <1>2, <2>1 DEF Closed, SinglesOf, Hop
  <2>3. R \in SUBSET ({c} \cup SinglesOf(bs)) /\ c \in R
    OBVIOUS
  <2>4. e \in R
    BY <2>2, <2>3 DEF HopsFrom
  <2> QED
    BY <2>1, <2>4
<1> QED
  BY <1>1, <1>2 DEF HopsFrom
-----------------------------------------------------------------------------
(* The inductive invariant *)

Positions == 1 .. Len(src)

\* What never changes, and the pass's own variables.
Fixed ==
  /\ IsInput(src)
  /\ hops = [i \in Positions |-> HopsFrom(src, i)]
  /\ shortCircuits = [i \in Positions |-> IF IsSingle(src[i]) THEN i ELSE NULL]
  /\ chunk = [i \in Positions |-> i]
  /\ idx \in 1 .. Len(src) + 1
  /\ changed \in BOOLEAN
  /\ phase \in {"sweep", "done", "undefined", "error"}

\* Blocks keep their place, and each ends with a jump some hops further on.
Shape ==
  /\ blocks = [i \in Positions |-> blocks[i]]
  /\ Len(blocks) = Len(src)
  /\ Threaded

\* A sweep that changed nothing so far left no hop in the blocks it visited.
SweptSoFar ==
  phase \in {"sweep", "done"} /\ ~changed =>
    \A i \in 1 .. idx - 1 : \A c \in Positions : ~Hop(blocks, i, c)

Stopped ==
  /\ phase = "done" => ~changed /\ idx = Len(src) + 1
  /\ UndefinedOnlyOnEmptyLoop
  /\ ErrorOnlyOnMissingBlock

IInv == Fixed /\ Shape /\ SweptSoFar /\ Stopped

\* What Shape says of every block.
LEMMA ShapeFacts ==
  ASSUME Fixed, Shape
  PROVE  /\ Len(src) \in Nat /\ Len(src) >= 1 /\ DOMAIN blocks = Positions
         /\ \A i \in Positions :
              /\ blocks[i] \in IRBlock
              /\ blocks[i].instructions # << >>
              /\ blocks[i].label = src[i].label
              /\ Len(blocks[i].instructions) = Len(src[i].instructions)
              /\ LastOf(blocks[i]) \in IRInstruction
              /\ \E c \in Positions : /\ c \in HopsFrom(src, i)
                                 /\ LastOf(blocks[i]) \in OrCopy(LastOf(src[c]))
                                 /\ blocks[i] = WithLast(src[i], LastOf(blocks[i]))
<1>1. Len(src) \in Nat /\ Len(src) >= 1 /\ DOMAIN blocks = Positions
  BY InputFacts DEF Fixed, Shape, Positions
<1>2. ASSUME NEW i \in Positions
      PROVE  /\ blocks[i] \in IRBlock
             /\ blocks[i].instructions # << >>
             /\ blocks[i].label = src[i].label
             /\ Len(blocks[i].instructions) = Len(src[i].instructions)
             /\ LastOf(blocks[i]) \in IRInstruction
             /\ \E c \in Positions : /\ c \in HopsFrom(src, i)
                                /\ LastOf(blocks[i]) \in OrCopy(LastOf(src[c]))
                                /\ blocks[i] = WithLast(src[i], LastOf(blocks[i]))
  <2>0. PICK c \in HopsFrom(src, i) : \E last \in OrCopy(LastOf(src[c])) :
          blocks[i] = WithLast(src[i], last)
    BY <1>2 DEF Fixed, Shape, Threaded, Positions
  <2>1. PICK last \in OrCopy(LastOf(src[c])) : blocks[i] = WithLast(src[i], last)
    BY <2>0
  <2>2. c \in Positions
    BY <1>2 DEF HopsFrom, SinglesOf, Positions
  <2>3. src[i] \in IRBlock /\ src[i].instructions # << >>
        /\ last \in IRInstruction
    BY <1>2, <2>1, <2>2, InputFacts, OrCopyFacts DEF Fixed, Positions
  <2>4. /\ WithLast(src[i], last) \in IRBlock
        /\ WithLast(src[i], last).label = src[i].label
        /\ Len(WithLast(src[i], last).instructions) = Len(src[i].instructions)
        /\ WithLast(src[i], last).instructions # << >>
        /\ LastOf(WithLast(src[i], last)) = last
    BY <2>3, WithLastFacts
  <2> QED
    BY <2>1, <2>2, <2>3, <2>4
<1> QED
  BY <1>1, <1>2

\* The jump of a block leads to one block at most, and hops the same in the
\* blocks given and the blocks now.
LEMMA HopFacts ==
  ASSUME Fixed, Shape, NEW i \in Positions, NEW c \in Positions
  PROVE  /\ IsSingle(blocks[c]) <=> IsSingle(src[c])
         /\ \A d \in Positions : blocks[c].label = blocks[d].label => c = d
         /\ \A e \in Positions :
              LastOf(blocks[i]) \in OrCopy(LastOf(src[e])) /\ Hop(blocks, i, c)
                => Hop(src, e, c)
<1>1. /\ Len(blocks[c].instructions) = Len(src[c].instructions)
      /\ \A d \in Positions : blocks[d].label = src[d].label
  BY ShapeFacts
<1>2. \A d \in Positions : src[c].label = src[d].label => c = d
  BY InputFacts DEF Fixed, Positions
<1>3. ASSUME NEW e \in Positions, LastOf(blocks[i]) \in OrCopy(LastOf(src[e]))
      PROVE  /\ IsJump(LastOf(blocks[i])) <=> IsJump(LastOf(src[e]))
             /\ IsJump(LastOf(src[e])) =>
                  LastOf(blocks[i]).args[1].name = LastOf(src[e]).args[1].name
  BY <1>3, InputFacts, OrCopyFacts DEF Fixed, Positions
<1> QED
  BY <1>1, <1>2, <1>3 DEF IsSingle, Hop

\* The block a jump's label names, when there is one.
LEMMA TargetFacts ==
  ASSUME Fixed, Shape, Visiting, EndsWithJump, HasBlock(blocks, TargetLabel)
  PROVE  /\ idx \in Positions
         /\ Target \in Positions
         /\ blocks[Target].label = TargetLabel
         /\ shortCircuits[Target] # NULL <=> IsSingle(blocks[Target])
         /\ shortCircuits[Target] \in {NULL, Target}
<1>1. idx \in Positions
  BY ShapeFacts DEF Fixed, Shape, Visiting, Positions
<1>2. Target \in Positions /\ blocks[Target].label = TargetLabel
  BY ShapeFacts DEF HasBlock, Target, IndexOfBlock
<1>3. IsSingle(blocks[Target]) <=> IsSingle(src[Target])
  BY <1>1, <1>2, HopFacts
<1>4. Target # NULL
  BY <1>2, ShapeFacts DEF Positions, NULL
<1> QED
  BY <1>1, <1>2, <1>3, <1>4 DEF Fixed
-----------------------------------------------------------------------------
(* Initially, and step by step *)

\* The pass starts with every block as it was given.
LEMMA StartIInv == IsInput(src) /\ Start => IInv
<1> SUFFICES ASSUME IsInput(src), Start PROVE IInv
  OBVIOUS
<1>1. /\ IsInput(src) /\ blocks = src
      /\ Len(src) \in Nat /\ Len(src) >= 1
      /\ src = [i \in Positions |-> src[i]]
      /\ \A i \in Positions : /\ src[i] \in IRBlock /\ src[i].instructions # << >>
                         /\ LastOf(src[i]) \in IRInstruction
  BY InputFacts DEF Start, Positions
<1>2. Fixed
  <2>1. idx \in 1 .. Len(src) + 1
    BY <1>1 DEF Start
  <2>2. hops = [i \in Positions |-> HopsFrom(src, i)]
    BY DEF Start, Positions
  <2> QED
    BY <1>1, <2>1, <2>2 DEF Start, FirstLoop, Fixed, Positions
<1>3. Threaded
  <2> SUFFICES ASSUME NEW i \in Positions
               PROVE  \E c \in hops[i] : \E last \in OrCopy(LastOf(src[c])) :
                        blocks[i] = WithLast(src[i], last)
    BY DEF Threaded, Positions
  <2>1. i \in hops[i]
    BY <1>2, HopsReflexive DEF Fixed
  <2>2. blocks[i] = WithLast(src[i], LastOf(src[i]))
    BY <1>1, WithLastTwice
  <2> QED
    BY <2>1, <2>2 DEF OrCopy
<1>4. Shape
  BY <1>1, <1>3 DEF Shape
<1>5. SweptSoFar
  BY DEF Start, SweptSoFar
<1>6. Stopped
  BY DEF Start, Stopped, UndefinedOnlyOnEmptyLoop, ErrorOnlyOnMissingBlock
<1> QED
  BY <1>2, <1>4, <1>5, <1>6 DEF IInv

\* The visited block is left as it is: it hops nowhere.
LEMMA KeepIInv == IInv /\ Keep => IInv'
<1> SUFFICES ASSUME IInv, Keep PROVE IInv'
  OBVIOUS
<1> USE DEF IInv
<1>1. UNCHANGED <<src, hops, blocks, chunk, shortCircuits, changed, phase>>
      /\ idx' = idx + 1 /\ Visiting /\ phase = "sweep"
  BY DEF Keep, Visiting
<1>2. idx \in Positions /\ Len(src) \in Nat
  BY <1>1, ShapeFacts DEF Visiting, Shape, Fixed, Positions
<1>3. Fixed'
  BY <1>1, <1>2 DEF Fixed, Positions
<1>4. Shape'
  BY <1>1 DEF Shape, Threaded, Positions
<1>5. \A c \in Positions : ~Hop(blocks, idx, c)
  <2> SUFFICES ASSUME NEW c \in Positions, Hop(blocks, idx, c) PROVE FALSE
    OBVIOUS
  <2>1. EndsWithJump /\ TargetLabel = blocks[c].label /\ IsSingle(blocks[c])
    BY DEF Hop, EndsWithJump, TargetLabel
  <2>2. HasBlock(blocks, TargetLabel)
    BY <2>1, ShapeFacts DEF HasBlock
  <2>3. Target \in Positions /\ blocks[Target].label = blocks[c].label
        /\ (shortCircuits[Target] # NULL <=> IsSingle(blocks[Target]))
    BY <1>1, <2>1, <2>2, TargetFacts
  <2>4. Target = c
    BY <1>2, <2>3, HopFacts
  <2>5. shortCircuits[Target] = NULL
    BY <2>1 DEF Keep
  <2> QED
    BY <2>1, <2>3, <2>4, <2>5
<1>6. SweptSoFar'
  <2> SUFFICES ASSUME phase \in {"sweep", "done"}, ~changed,
                      NEW i \in 1 .. idx, NEW c \in Positions
               PROVE  ~Hop(blocks, i, c)
    BY <1>1, <1>2 DEF SweptSoFar, Positions
  <2>1. CASE i = idx
    BY <2>1, <1>5
  <2>2. CASE i # idx
    <3>1. i \in 1 .. idx - 1
      BY <2>2, <1>2 DEF Positions
    <3> QED
      BY <3>1 DEF SweptSoFar
  <2> QED
    BY <2>1, <2>2
<1>7. Stopped'
  BY <1>1 DEF Stopped, UndefinedOnlyOnEmptyLoop, ErrorOnlyOnMissingBlock
<1> QED
  BY <1>3, <1>4, <1>6, <1>7

\* With the memory of the freed jump reused, every recorded pointer is the
\* block's own jump, so what the visited block gets is its target's.
LEMMA ReplaceFacts ==
  ASSUME ReuseFirst, IInv, Replace
  PROVE  /\ idx \in Positions /\ Target \in Positions /\ Hop(blocks, idx, Target)
         /\ blocks' = [blocks EXCEPT ![idx] =
                          WithLast(@, Copied(LastOf(blocks[Target])))]
         /\ chunk' = chunk
<1> USE DEF IInv
<1>1. Visiting /\ EndsWithJump /\ HasBlock(blocks, TargetLabel)
      /\ shortCircuits[Target] # NULL
  BY DEF Replace
<1>2. /\ idx \in Positions /\ Target \in Positions
      /\ blocks[Target].label = TargetLabel
      /\ IsSingle(blocks[Target]) /\ shortCircuits[Target] = Target
  BY <1>1, TargetFacts
<1>3. Hop(blocks, idx, Target)
  BY <1>1, <1>2 DEF Hop, EndsWithJump, TargetLabel
<1>4. LiveOwners(Target) \subseteq {Target}
  BY DEF LiveOwners, Fixed, Shape, Positions
<1>5. PICK j \in LiveOwners(shortCircuits[Target]) :
        blocks' = [blocks EXCEPT ![idx] = WithLast(@, Copied(LastOf(blocks[j])))]
  BY DEF Replace
<1>6. PICK c \in NewChunks : chunk' = [chunk EXCEPT ![idx] = c]
  BY DEF Replace
<1>7. c = idx
  BY <1>2, <1>6 DEF NewChunks, Fixed
<1>8. chunk' = chunk
  BY <1>2, <1>6, <1>7 DEF Fixed
<1> QED
  BY <1>2, <1>3, <1>4, <1>5, <1>8

LEMMA ReplaceIInv == ReuseFirst /\ IInv /\ Replace => IInv'
<1> SUFFICES ASSUME ReuseFirst, IInv, Replace PROVE IInv'
  OBVIOUS
<1> USE DEF IInv
<1> DEFINE last == Copied(LastOf(blocks[Target]))
           new == WithLast(blocks[idx], last)
<1>1. /\ idx \in Positions /\ Target \in Positions /\ Hop(blocks, idx, Target)
      /\ blocks' = [blocks EXCEPT ![idx] = new]
      /\ chunk' = chunk
  BY ReplaceFacts
<1>2. /\ UNCHANGED <<src, hops, shortCircuits, phase>>
      /\ idx' = idx + 1 /\ changed' = TRUE /\ phase = "sweep"
  BY DEF Replace, Visiting
<1>3. Len(src) \in Nat /\ DOMAIN blocks = Positions
  BY ShapeFacts
<1>4. Fixed'
  BY <1>1, <1>2, <1>3 DEF Fixed, Positions
<1>5. PICK c \in Positions : /\ c \in HopsFrom(src, idx)
                        /\ LastOf(blocks[idx]) \in OrCopy(LastOf(src[c]))
                        /\ blocks[idx] = WithLast(src[idx], LastOf(blocks[idx]))
  BY <1>1, ShapeFacts
<1>6. PICK e \in Positions : /\ e \in HopsFrom(src, Target)
                        /\ LastOf(blocks[Target]) \in OrCopy(LastOf(src[e]))
  BY <1>1, ShapeFacts
<1>7. Hop(src, c, Target)
  BY <1>1, <1>5, HopFacts
<1>8. e \in HopsFrom(src, idx)
  <2>1. Target \in HopsFrom(src, idx)
    BY <1>1, <1>5, <1>7, HopsStep DEF Positions
  <2> QED
    BY <2>1, <1>6, HopsTransitive
<1>9. last \in OrCopy(LastOf(src[e])) /\ new = WithLast(src[idx], last)
  <2>1. /\ src[idx] \in IRBlock /\ src[idx].instructions # << >>
        /\ LastOf(src[e]) \in IRInstruction
        /\ IsJump(LastOf(src[e])) => Len(LastOf(src[e]).args) = 1
    BY <1>1, <1>6, InputFacts DEF Fixed, Positions
  <2>2. last \in OrCopy(LastOf(src[e]))
    BY <2>1, <1>6, OrCopyFacts
  <2>3. last \in IRInstruction
    BY <2>1, <2>2, OrCopyFacts
  <2>4. LastOf(blocks[idx]) \in IRInstruction
    BY <1>1, ShapeFacts
  <2> QED
    BY <2>1, <2>2, <2>3, <2>4, <1>5, WithLastTwice
<1>10. blocks' = [i \in Positions |-> IF i = idx THEN new ELSE blocks[i]]
  BY <1>1, <1>3 DEF Shape
<1>11. Shape'
  <2>1. Positions' = Positions /\ hops' = [i \in Positions |-> HopsFrom(src, i)]
    BY <1>2 DEF Positions, Fixed
  <2>2. Threaded'
    <3> SUFFICES ASSUME NEW i \in Positions
                 PROVE  \E d \in hops'[i] : \E l \in OrCopy(LastOf(src[d])) :
                          blocks'[i] = WithLast(src[i], l)
      BY <1>2 DEF Threaded, Positions
    <3>1. CASE i = idx
      BY <3>1, <2>1, <1>8, <1>9, <1>10
    <3>2. CASE i # idx
      <4>1. blocks'[i] = blocks[i]
        BY <3>2, <1>10
      <4> QED
        BY <4>1, <1>2 DEF Shape, Threaded, Positions
    <3> QED
      BY <3>1, <3>2
  <2>3. Len(blocks') = Len(src')
    BY <1>2, <1>3, <1>10 DEF Positions
  <2> QED
    BY <2>1, <2>2, <2>3, <1>10 DEF Shape
<1>12. SweptSoFar'
  BY <1>2 DEF SweptSoFar
<1>13. Stopped'
  BY <1>2 DEF Stopped, UndefinedOnlyOnEmptyLoop, ErrorOnlyOnMissingBlock
<1> QED
  BY <1>4, <1>11, <1>12, <1>13

\* The pointer read is the jump just freed only when a block that only jumps
\* jumps to itself, some hops on.
LEMMA ReadFreedIInv == IInv /\ ReadFreed => IInv'
<1> SUFFICES ASSUME IInv, ReadFreed PROVE IInv'
  OBVIOUS
<1> USE DEF IInv
<1>1. /\ UNCHANGED <<src, hops, blocks, chunk, shortCircuits, idx, changed>>
      /\ phase' = "undefined"
      /\ Visiting /\ EndsWithJump /\ HasBlock(blocks, TargetLabel)
      /\ shortCircuits[Target] # NULL
      /\ LiveOwners(shortCircuits[Target]) = {}
  BY DEF ReadFreed
<1>2. /\ idx \in Positions /\ Target \in Positions
      /\ blocks[Target].label = TargetLabel
      /\ IsSingle(blocks[Target]) /\ shortCircuits[Target] = Target
  BY <1>1, TargetFacts
<1>3. Target = idx
  BY <1>1, <1>2 DEF LiveOwners, Fixed, Shape, Positions
<1>4. Hop(blocks, idx, idx)
  BY <1>1, <1>2, <1>3 DEF Hop, EndsWithJump, TargetLabel
<1>5. PICK c \in Positions : /\ c \in HopsFrom(src, idx)
                      /\ LastOf(blocks[idx]) \in OrCopy(LastOf(src[c]))
  BY <1>2, ShapeFacts
<1>6. Hop(src, c, idx) /\ IsSingle(src[idx])
  BY <1>2, <1>4, <1>5, HopFacts DEF Hop
<1>7. Fixed' /\ Shape' /\ SweptSoFar'
  BY <1>1 DEF Fixed, Shape, Threaded, SweptSoFar, Positions
<1>8. Stopped'
  BY <1>1, <1>2, <1>5, <1>6
     DEF Stopped, UndefinedOnlyOnEmptyLoop, ErrorOnlyOnMissingBlock, Fixed, Positions
<1> QED
  BY <1>7, <1>8

\* A label no block has now no block had, and some block jumped to it.
LEMMA NoSuchBlockIInv == IInv /\ NoSuchBlock => IInv'
<1> SUFFICES ASSUME IInv, NoSuchBlock PROVE IInv'
  OBVIOUS
<1> USE DEF IInv
<1>1. /\ UNCHANGED <<src, hops, blocks, chunk, shortCircuits, idx, changed>>
      /\ phase' = "error"
      /\ Visiting /\ EndsWithJump /\ ~HasBlock(blocks, TargetLabel)
  BY DEF NoSuchBlock
<1>2. idx \in Positions /\ DOMAIN src = Positions
  BY <1>1, ShapeFacts, InputFacts DEF Visiting, Shape, Fixed, Positions
<1>3. PICK c \in Positions : LastOf(blocks[idx]) \in OrCopy(LastOf(src[c]))
  BY <1>2, ShapeFacts
<1>4. /\ IsJump(LastOf(src[c]))
      /\ TargetLabel = LastOf(src[c]).args[1].name
  BY <1>1, <1>3, InputFacts, OrCopyFacts DEF EndsWithJump, TargetLabel, Fixed, Positions
<1>4a. ~HasBlock(src, LastOf(src[c]).args[1].name)
  BY <1>1, <1>2, <1>4, ShapeFacts DEF HasBlock
<1>5. Fixed' /\ Shape' /\ SweptSoFar'
  BY <1>1 DEF Fixed, Shape, Threaded, SweptSoFar, Positions
<1>6. Stopped'
  BY <1>1, <1>3, <1>4, <1>4a
     DEF Stopped, UndefinedOnlyOnEmptyLoop, ErrorOnlyOnMissingBlock, Positions
<1> QED
  BY <1>5, <1>6

\* A sweep ends, and either starts another or is the last.
LEMMA EndSweepIInv == IInv /\ EndSweep => IInv'
<1> SUFFICES ASSUME IInv, EndSweep PROVE IInv'
  OBVIOUS
<1> USE DEF IInv
<1>1. UNCHANGED <<src, hops, blocks, chunk, shortCircuits>>
      /\ phase = "sweep" /\ idx > Len(blocks)
  BY DEF EndSweep
<1>2. Len(src) \in Nat /\ idx = Len(src) + 1
  BY <1>1, ShapeFacts DEF Shape, Fixed
<1>3. Shape'
  BY <1>1 DEF Shape, Threaded, Positions
<1>4. CASE changed
  <2>1. idx' = 1 /\ changed' = FALSE /\ phase' = phase
    BY <1>4 DEF EndSweep
  <2>2. Fixed'
    <3>1. 1 \in 1 .. Len(src) + 1
      BY <1>2
    <3>2. src' = src
      BY <1>1
    <3> QED
      BY <1>1, <2>1, <3>1, <3>2 DEF Fixed, Positions
  <2>3. SweptSoFar'
    BY <1>1, <1>2, <2>1 DEF SweptSoFar
  <2>4. Stopped'
    BY <1>1, <2>1
       DEF Stopped, UndefinedOnlyOnEmptyLoop, ErrorOnlyOnMissingBlock
  <2> QED
    BY <1>3, <2>2, <2>3, <2>4
<1>5. CASE ~changed
  <2>1. idx' = idx /\ changed' = changed /\ phase' = "done"
    BY <1>5 DEF EndSweep
  <2> QED
    BY <1>1, <1>2, <1>3, <1>5, <2>1
       DEF Fixed, SweptSoFar, Stopped, UndefinedOnlyOnEmptyLoop,
           ErrorOnlyOnMissingBlock, Positions
<1> QED
  BY <1>4, <1>5 DEF Fixed

\* Every step of the pass keeps the invariant.
LEMMA NextIInv == ReuseFirst /\ IInv /\ [Next]_vars => IInv'
<1> SUFFICES ASSUME ReuseFirst, IInv, [Next]_vars PROVE IInv'
  OBVIOUS
<1>1. CASE Keep
  BY <1>1, KeepIInv
<1>2. CASE Replace
  BY <1>2, ReplaceIInv
<1>3. CASE ReadFreed
  BY <1>3, ReadFreedIInv
<1>4. CASE NoSuchBlock
  BY <1>4, NoSuchBlockIInv
<1>5. CASE EndSweep
  BY <1>5, EndSweepIInv
<1>6. CASE UNCHANGED vars
  BY <1>6 DEF vars, IInv, Fixed, Shape, Threaded, SweptSoFar, Stopped,
              UndefinedOnlyOnEmptyLoop, ErrorOnlyOnMissingBlock, Positions
<1> QED
  BY <1>1, <1>2, <1>3, <1>4, <1>5, <1>6 DEF Next
-----------------------------------------------------------------------------
(* What the pass leaves *)

\* A copy ends a block when the instruction does.
LEMMA CopiedTerminator ==
  ASSUME NEW i \in IRInstruction, IsTerminator(i)
  PROVE  IsTerminator(Copied(i))
<1>1. /\ i.args \in Seq(IROperand) /\ Len(i.args) \in Nat
      /\ DOMAIN i.args = 1 .. Len(i.args)
  BY DEF IRInstruction
<1>2. Copied(i).op = i.op /\ Copied(i).args = [a \in 1 .. Len(i.args) |-> Copy(i.args[a])]
  BY <1>1 DEF Copied
<1>3. Len(Copied(i).args) = Len(i.args)
  BY <1>1, <1>2
<1>4. ASSUME Len(i.args) = 1 PROVE Copied(i).args[1].kind = i.args[1].kind
  BY <1>1, <1>2, <1>4 DEF Copy, Operand
<1> QED
  BY <1>2, <1>3, <1>4 DEF IsTerminator

\* At every moment the blocks are what the next pass takes for granted: the
\* blocks that were given, with the last instruction of one of them, or a copy of
\* it, for their last.
LEMMA LeftFacts ==
  ASSUME IInv
  PROVE  /\ IsBlockList(blocks) /\ DOMAIN blocks = DOMAIN src
         /\ \A i \in DOMAIN src :
              /\ blocks[i].label = src[i].label
              /\ Len(blocks[i].instructions) = Len(src[i].instructions)
              /\ \A k \in DOMAIN blocks[i].instructions :
                   k # Len(src[i].instructions) =>
                     /\ k \in DOMAIN src[i].instructions
                     /\ blocks[i].instructions[k] = src[i].instructions[k]
              /\ \E c \in DOMAIN src : LastOf(blocks[i]) \in OrCopy(LastOf(src[c]))
<1> USE DEF IInv
<1>1. /\ IsInput(src) /\ Len(src) \in Nat /\ Len(src) >= 1
      /\ DOMAIN src = Positions /\ DOMAIN blocks = Positions
      /\ Len(blocks) = Len(src) /\ blocks = [i \in Positions |-> blocks[i]]
      /\ \A i \in Positions : src[i] \in IRBlock /\ src[i].instructions # << >>
  BY ShapeFacts, InputFacts DEF Fixed, Shape, Positions
<1>2. \A i \in Positions : /\ blocks[i] \in IRBlock /\ blocks[i].instructions # << >>
                           /\ blocks[i].label = src[i].label
  BY ShapeFacts
<1>3. blocks \in Seq(IRBlock) /\ blocks # << >>
  <2>1. blocks \in [1 .. Len(src) -> IRBlock]
    BY <1>1, <1>2 DEF Positions
  <2> QED
    BY <1>1, <2>1
<1>4. \A i, j \in Positions : blocks[i].label = blocks[j].label => i = j
  BY <1>1, <1>2, InputFacts DEF Positions
<1>5. ASSUME NEW i \in Positions
      PROVE  /\ IsTerminator(LastOf(blocks[i]))
             /\ Len(blocks[i].instructions) = Len(src[i].instructions)
             /\ \A k \in DOMAIN blocks[i].instructions :
                  k # Len(src[i].instructions) =>
                    /\ k \in DOMAIN src[i].instructions
                    /\ blocks[i].instructions[k] = src[i].instructions[k]
             /\ \E c \in Positions : LastOf(blocks[i]) \in OrCopy(LastOf(src[c]))
  <2> DEFINE last == LastOf(blocks[i])
             n == Len(src[i].instructions)
  <2>1. PICK c \in Positions : /\ last \in OrCopy(LastOf(src[c]))
                              /\ blocks[i] = WithLast(src[i], last)
    BY ShapeFacts
  <2>2. /\ LastOf(src[c]) \in IRInstruction /\ IsTerminator(LastOf(src[c]))
        /\ last \in IRInstruction
    BY <1>1, ShapeFacts, InputFacts DEF IsInput, IsBlockList, Positions
  <2>3. IsTerminator(last)
    BY <2>1, <2>2, CopiedTerminator DEF OrCopy
  <2> HIDE DEF last
  <2>4. /\ src[i].instructions \in Seq(IRInstruction) /\ n \in Nat /\ n >= 1
        /\ DOMAIN src[i].instructions = 1 .. n
    BY <1>1 DEF IRBlock
  <2>5. blocks[i].instructions = [src[i].instructions EXCEPT ![n] = last]
    BY <1>1, <2>1, WithLastIs
  <2>6. Len(blocks[i].instructions) = n
    BY <1>1, <2>1, <2>2, WithLastFacts
  <2>7. \A k \in DOMAIN blocks[i].instructions :
          k # n => k \in DOMAIN src[i].instructions
                   /\ blocks[i].instructions[k] = src[i].instructions[k]
    BY <2>4, <2>5
  <2> QED
    BY <2>1, <2>3, <2>6, <2>7 DEF last
<1> QED
  BY <1>1, <1>2, <1>3, <1>4, <1>5 DEF IsBlockList
-----------------------------------------------------------------------------
(* What the invariant says *)

\* The invariant has the type invariant in it.
LEMMA IInvTypeOK == IInv => TypeOK
<1> SUFFICES ASSUME IInv PROVE TypeOK
  OBVIOUS
<1> USE DEF IInv
<1>1. Len(src) \in Nat /\ Positions = 1 .. Len(src) /\ Chunks = 1 .. Len(src) + 1
  BY ShapeFacts DEF Positions, Chunks
<1>2. hops \in [Positions -> SUBSET Positions]
  BY DEF Fixed, HopsFrom, SinglesOf, Positions
<1>3. blocks \in Seq(IRBlock)
  <2>1. blocks \in [1 .. Len(src) -> IRBlock]
    BY <1>1, ShapeFacts DEF Shape
  <2> QED
    BY <2>1, <1>1
<1>4. chunk \in [Positions -> Chunks] /\ shortCircuits \in [Positions -> {NULL} \cup Positions]
  BY <1>1 DEF Fixed
<1> QED
  BY <1>1, <1>2, <1>3, <1>4 DEF TypeOK, Fixed, Shape

\* And that a finished pass left no hop.
LEMMA IInvSaturated == IInv => Saturated
<1> SUFFICES ASSUME IInv, phase = "done", NEW i \in Positions, NEW c \in Positions
             PROVE  ~Hop(blocks, i, c)
  BY DEF Saturated, IInv, Shape, Positions
<1>1. ~changed /\ idx = Len(src) + 1 /\ Len(src) \in Nat
  BY ShapeFacts DEF IInv, Stopped
<1>2. i \in 1 .. idx - 1
  BY <1>1 DEF Positions
<1> QED
  BY <1>1, <1>2 DEF IInv, SweptSoFar

\* With the allocator of the build the invariant always holds.
LEMMA Invariance == InputsOK /\ ReuseFirst => (Spec => []IInv)
<1> SUFFICES ASSUME InputsOK, ReuseFirst PROVE Spec => []IInv
  OBVIOUS
<1>1. Init => IInv
  BY StartIInv DEF InputsOK, Init
<1>2. IInv /\ [Next]_vars => IInv'
  BY NextIInv
<1> QED
  BY <1>1, <1>2, PTL DEF Spec

\* The pass keeps its variables in their types: it never adds or removes a
\* block, and recorded pointers are those of the blocks it was given.
THEOREM TypeCorrect == InputsOK /\ ReuseFirst => (Spec => []TypeOK)
<1> SUFFICES ASSUME InputsOK, ReuseFirst PROVE Spec => []TypeOK
  OBVIOUS
<1>1. Spec => []IInv
  BY Invariance
<1>2. IInv => TypeOK
  BY IInvTypeOK
<1> QED
  BY <1>1, <1>2, PTL

\* For every function, every block ends at every moment with the last
\* instruction of a block control would have reached by jumps alone.
THEOREM ThreadedAlways == InputsOK /\ ReuseFirst => (Spec => []Threaded)
<1> SUFFICES ASSUME InputsOK, ReuseFirst PROVE Spec => []Threaded
  OBVIOUS
<1>1. Spec => []IInv
  BY Invariance
<1>2. IInv => Threaded
  BY DEF IInv, Shape
<1> QED
  BY <1>1, <1>2, PTL

\* For every function, a pass that is done left no jump to shorten.
THEOREM SaturatedWhenDone == InputsOK /\ ReuseFirst => (Spec => []Saturated)
<1> SUFFICES ASSUME InputsOK, ReuseFirst PROVE Spec => []Saturated
  OBVIOUS
<1>1. Spec => []IInv
  BY Invariance
<1>2. IInv => Saturated
  BY IInvSaturated
<1> QED
  BY <1>1, <1>2, PTL

\* For every function, the pass reads freed memory only when some blocks that
\* do nothing but jump go round in a circle.
THEOREM FreedOnlyOnEmptyLoop == InputsOK /\ ReuseFirst => (Spec => []UndefinedOnlyOnEmptyLoop)
<1> SUFFICES ASSUME InputsOK, ReuseFirst PROVE Spec => []UndefinedOnlyOnEmptyLoop
  OBVIOUS
<1>1. Spec => []IInv
  BY Invariance
<1>2. IInv => UndefinedOnlyOnEmptyLoop
  BY DEF IInv, Stopped
<1> QED
  BY <1>1, <1>2, PTL

\* For every function, the internal error of indexOfBlock means that the
\* function was given with a jump to nowhere.
THEOREM ErrorMeansMissingBlock == InputsOK /\ ReuseFirst => (Spec => []ErrorOnlyOnMissingBlock)
<1> SUFFICES ASSUME InputsOK, ReuseFirst PROVE Spec => []ErrorOnlyOnMissingBlock
  OBVIOUS
<1>1. Spec => []IInv
  BY Invariance
<1>2. IInv => ErrorOnlyOnMissingBlock
  BY DEF IInv, Stopped
<1> QED
  BY <1>1, <1>2, PTL
=============================================================================
