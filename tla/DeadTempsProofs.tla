--------------------------- MODULE DeadTempsProofs ---------------------------
(***************************************************************************)
(* Theorems about DeadTemps, for functions of any number of blocks and     *)
(* instructions, over however many rounds the pass takes.                  *)
(***************************************************************************)
EXTENDS DeadTemps, TLAPS

Left == IRInstruction \cup {NOP}
LeftBlock == [label : Int, instructions : Seq(Left)]

\* The temps the instructions that are left read, as far as the pass marks them.
Used == UNION {MarkTempUse(Now(p)) : p \in Places}

\* The instructions of the round that were visited.
Visited(p) == p[1] < block \/ (p[1] = block /\ p[2] < inst)

\* What never changes, and the types the proofs need.
Typed ==
  /\ IsInput(in)
  /\ blocks \in Seq(LeftBlock) /\ Len(blocks) = Len(in.blocks)
  /\ \A b \in 1 .. Len(in.blocks) :
       Len(blocks[b].instructions) = Len(in.blocks[b].instructions)
  /\ \A p \in Places : Now(p) = Was(p) \/ Now(p) = NOP
  /\ block \in 1 .. Len(in.blocks) + 1 /\ inst \in Nat \ {0}
  /\ block <= Len(in.blocks) => inst <= Len(in.blocks[block].instructions)
  /\ changed \in BOOLEAN
  /\ phase \in {"mark", "sweep", "done", "undefined"}

\* The marks are the temps read: as far as the round came, and all of them when
\* it sweeps.  Removing may leave a mark that nothing needs any more.
Marked ==
  /\ seen \subseteq 0 .. in.maxTemps - 1
  /\ phase = "mark" =>
       /\ ~changed /\ seen \subseteq Used
       /\ \A p \in Places : Visited(p) => MarkTempUse(Now(p)) \subseteq seen
  /\ phase \in {"sweep", "done"} => Used \subseteq seen /\ (~changed => seen \subseteq Used)

\* A temp that lost a definition is not read.
Lost == \A p \in Removed : TempsIn(Was(p), {1}) \cap Used = {}

\* A round that removed nothing saw nothing to remove.
Swept ==
  /\ phase = "sweep" /\ ~changed =>
       \A p \in Places : Visited(p) => ~WritesDeadTemp(seen, Now(p))
  /\ phase = "done" => ~changed /\ \A p \in Places : ~WritesDeadTemp(seen, Now(p))

IInv == Typed /\ Marked /\ Lost /\ Swept
-----------------------------------------------------------------------------
(* Places *)

LEMMA InputFacts ==
  ASSUME IsInput(in)
  PROVE  /\ in.blocks \in Seq(IRBlock) /\ Len(in.blocks) \in Nat
         /\ \A b \in 1 .. Len(in.blocks) :
              /\ in.blocks[b].instructions \in Seq(IRInstruction)
              /\ Len(in.blocks[b].instructions) \in Nat /\ Len(in.blocks[b].instructions) >= 1
         /\ \A p : p \in Places <=>
              \E b \in 1 .. Len(in.blocks) :
                \E i \in 1 .. Len(in.blocks[b].instructions) : p = <<b, i>>
         /\ \A p \in Places : /\ p[1] \in 1 .. Len(in.blocks)
                              /\ p[2] \in 1 .. Len(in.blocks[p[1]].instructions)
                              /\ p = <<p[1], p[2]>>
         /\ \A p \in Places : \A args : TempsIn(Was(p), args) \subseteq 0 .. in.maxTemps - 1
<1>1. /\ in.blocks \in Seq(IRBlock) /\ Len(in.blocks) \in Nat
      /\ DOMAIN in.blocks = 1 .. Len(in.blocks)
      /\ \A b \in 1 .. Len(in.blocks) : in.blocks[b].instructions # << >>
  BY DEF IsInput, IsBlockList
<1>2. ASSUME NEW b \in 1 .. Len(in.blocks)
      PROVE  /\ in.blocks[b].instructions \in Seq(IRInstruction)
             /\ Len(in.blocks[b].instructions) \in Nat /\ Len(in.blocks[b].instructions) >= 1
             /\ DOMAIN in.blocks[b].instructions = 1 .. Len(in.blocks[b].instructions)
  <2>1. in.blocks[b] \in IRBlock
    BY <1>1
  <2>2. in.blocks[b].instructions \in Seq(IRInstruction)
    BY <2>1 DEF IRBlock
  <2> QED
    BY <1>1, <2>2
<1>3. \A p : p \in Places <=>
        \E b \in 1 .. Len(in.blocks) :
          \E i \in 1 .. Len(in.blocks[b].instructions) : p = <<b, i>>
  BY DEF Places
<1>4. \A p \in Places : /\ p[1] \in 1 .. Len(in.blocks)
                        /\ p[2] \in 1 .. Len(in.blocks[p[1]].instructions)
                        /\ p = <<p[1], p[2]>>
  BY <1>3
<1>5. ASSUME NEW p \in Places, NEW args
      PROVE  TempsIn(Was(p), args) \subseteq 0 .. in.maxTemps - 1
  <2> DEFINE i == Was(p)
  <2>1. TempsIn(i, DOMAIN i.args) \subseteq 0 .. in.maxTemps - 1
    BY <1>1, <1>2, <1>4 DEF IsInput, Was
  <2>2. TempsIn(i, args) \subseteq TempsIn(i, DOMAIN i.args)
    BY DEF TempsIn
  <2> QED
    BY <2>1, <2>2
<1> QED
  BY <1>1, <1>2, <1>3, <1>4, <1>5

\* A NOP reads and writes no temps.
LEMMA NopFacts == \A args : TempsIn(NOP, args) = {}
  BY DEF NOP, TempsIn

\* The instruction the cursor is at, and the one it moves to.
LEMMA CursorFacts ==
  ASSUME Typed, block <= Len(blocks), NEW c, c = <<block, inst>>
  PROVE  /\ c \in Places /\ Now(c) = Current /\ c[1] = block /\ c[2] = inst
         /\ Advance =>
              /\ block' \in 1 .. Len(in.blocks) + 1 /\ inst' \in Nat \ {0}
              /\ block' <= Len(in.blocks) => inst' <= Len(in.blocks[block'].instructions)
              /\ \A p \in Places :
                   p[1] < block' \/ (p[1] = block' /\ p[2] < inst') <=> Visited(p) \/ p = c
<1>1. /\ IsInput(in) /\ Len(blocks) = Len(in.blocks) /\ Len(in.blocks) \in Nat
      /\ block \in 1 .. Len(in.blocks) /\ inst \in 1 .. Len(in.blocks[block].instructions)
      /\ Len(blocks[block].instructions) = Len(in.blocks[block].instructions)
  BY InputFacts DEF Typed
<1>2. c \in Places /\ c[1] = block /\ c[2] = inst
  BY <1>1, InputFacts
<1>3. Now(c) = Current
  BY <1>2 DEF Now, Current
<1>4. ASSUME Advance
      PROVE  /\ block' \in 1 .. Len(in.blocks) + 1 /\ inst' \in Nat \ {0}
             /\ block' <= Len(in.blocks) => inst' <= Len(in.blocks[block'].instructions)
             /\ \A p \in Places :
                  p[1] < block' \/ (p[1] = block' /\ p[2] < inst') <=> Visited(p) \/ p = c
  <2> DEFINE n == Len(in.blocks[block].instructions)
  <2>1. n \in Nat /\ n >= 1
    BY <1>1, InputFacts
  <2>2. \A p \in Places : /\ p[1] \in 1 .. Len(in.blocks) /\ p[2] \in Nat /\ p[2] >= 1
                          /\ p[1] = block => p[2] <= n
                          /\ p = c <=> p[1] = block /\ p[2] = inst
    BY <1>1, <1>2, InputFacts
  <2>3. CASE inst < n
    <3>1. inst' = inst + 1 /\ block' = block
      BY <1>1, <1>4, <2>3 DEF Advance
    <3> HIDE DEF n
    <3>2. \A p \in Places : p[1] < block' \/ (p[1] = block' /\ p[2] < inst') <=> Visited(p) \/ p = c
      BY <1>1, <2>1, <2>2, <3>1 DEF Visited
    <3> QED
      BY <1>1, <2>1, <2>3, <3>1, <3>2 DEF n
  <2>4. CASE ~(inst < n)
    <3>1. inst' = 1 /\ block' = block + 1
      BY <1>1, <1>4, <2>4 DEF Advance
    <3>2. inst = n
      BY <1>1, <2>1, <2>4
    <3> HIDE DEF n
    <3>3. \A p \in Places : p[1] < block' \/ (p[1] = block' /\ p[2] < inst') <=> Visited(p) \/ p = c
      BY <1>1, <2>1, <2>2, <3>1, <3>2 DEF Visited
    <3>4. \A b \in 1 .. Len(in.blocks) : 1 <= Len(in.blocks[b].instructions)
      BY <1>1, InputFacts
    <3>5. block' \in 1 .. Len(in.blocks) + 1
      BY <1>1, <3>1
    <3> QED
      BY <1>1, <3>1, <3>3, <3>4, <3>5
  <2> QED
    BY <2>3, <2>4
<1> QED
  BY <1>2, <1>3, <1>4
-----------------------------------------------------------------------------
(* The invariant *)

\* When no instruction is removed, what is said of them stays.
LEMMA SameBlocks ==
  ASSUME UNCHANGED <<in, blocks>>
  PROVE  /\ Places' = Places /\ Removed' = Removed /\ Used' = Used
         /\ \A p : Now(p)' = Now(p) /\ Was(p)' = Was(p)
  BY DEF Places, Removed, Used, Now, Was

LEMMA StartIInv == IsInput(in) /\ Start => IInv
<1> SUFFICES ASSUME IsInput(in), Start PROVE IInv
  OBVIOUS
<1>1. /\ IsInput(in) /\ blocks = in.blocks /\ seen = {} /\ block = 1 /\ inst = 1
      /\ changed = FALSE /\ phase = "mark"
  BY DEF Start
<1>2. \A p : Now(p) = Was(p)
  BY <1>1 DEF Now, Was
<1>3. blocks \in Seq(LeftBlock)
  <2>1. \A b \in 1 .. Len(in.blocks) : in.blocks[b] \in LeftBlock
    <3> SUFFICES ASSUME NEW b \in 1 .. Len(in.blocks) PROVE in.blocks[b] \in LeftBlock
      OBVIOUS
    <3>1. in.blocks[b] \in IRBlock
      BY <1>1, InputFacts
    <3>2. \A s : s \in Seq(IRInstruction) => s \in Seq(Left)
      BY DEF Left
    <3> QED
      BY <3>1, <3>2 DEF IRBlock, LeftBlock
  <2> QED
    BY <1>1, <2>1, InputFacts
<1>4. Typed
  <2>1. 1 <= Len(in.blocks) => 1 <= Len(in.blocks[1].instructions)
    BY <1>1, InputFacts
  <2>2. block \in 1 .. Len(in.blocks) + 1 /\ inst \in Nat \ {0}
    BY <1>1, InputFacts
  <2>3. \A b \in 1 .. Len(in.blocks) :
          Len(blocks[b].instructions) = Len(in.blocks[b].instructions)
    BY <1>1
  <2> QED
    BY <1>1, <1>2, <1>3, <2>1, <2>2, <2>3 DEF Typed
<1>5. Marked
  <2>1. \A p \in Places : ~Visited(p)
    BY <1>1, InputFacts DEF Visited
  <2> QED
    BY <1>1, <2>1 DEF Marked
<1>6. Lost
  BY <1>2 DEF Lost, Removed
<1>7. Swept
  BY <1>1 DEF Swept
<1> QED
  BY <1>4, <1>5, <1>6, <1>7 DEF IInv

LEMMA MarkIInv == ASSUME IInv, Mark PROVE IInv'
<1>1. /\ IsInput(in) /\ Typed /\ Marked /\ Lost /\ Swept
      /\ phase = "mark" /\ block <= Len(blocks)
      /\ seen' = seen \cup MarkTempUse(Current) /\ Advance
      /\ UNCHANGED <<in, freed, blocks, changed, phase>>
  BY DEF IInv, Typed, Mark, Visiting
<1>2. PICK c : c = <<block, inst>>
  OBVIOUS
<1>3. /\ c \in Places /\ Now(c) = Current
      /\ block' \in 1 .. Len(in.blocks) + 1 /\ inst' \in Nat \ {0}
      /\ block' <= Len(in.blocks) => inst' <= Len(in.blocks[block'].instructions)
      /\ \A p \in Places :
           p[1] < block' \/ (p[1] = block' /\ p[2] < inst') <=> Visited(p) \/ p = c
  BY <1>1, <1>2, CursorFacts
<1>4. /\ Places' = Places /\ Removed' = Removed /\ Used' = Used
      /\ \A p : Now(p)' = Now(p) /\ Was(p)' = Was(p)
  BY <1>1, SameBlocks
<1>5. \A p \in Places : Visited(p)' <=> Visited(p) \/ p = c
  BY <1>3 DEF Visited
<1>6. Typed'
  BY <1>1, <1>3, <1>4 DEF Typed
<1>7. Marked'
  <2>1. MarkTempUse(Now(c)) \subseteq 0 .. in.maxTemps - 1
    <3>1. CASE Now(c) = Was(c)
      BY <1>1, <1>3, <3>1, InputFacts DEF MarkTempUse
    <3>2. CASE Now(c) = NOP
      BY <3>2, NopFacts DEF MarkTempUse
    <3> QED
      BY <1>1, <1>3, <3>1, <3>2 DEF Typed
  <2>2. MarkTempUse(Now(c)) \subseteq Used
    BY <1>3 DEF Used
  <2> QED
    BY <1>1, <1>3, <1>4, <1>5, <2>1, <2>2 DEF Marked
<1>8. Lost'
  BY <1>1, <1>4 DEF Lost
<1>9. Swept'
  BY <1>1 DEF Swept
<1> QED
  BY <1>6, <1>7, <1>8, <1>9 DEF IInv

\* A cursor behind the last block has visited every instruction.
LEMMA AllVisited == ASSUME Typed, block > Len(blocks), NEW p \in Places PROVE Visited(p)
<1>1. p[1] \in 1 .. Len(in.blocks) /\ Len(in.blocks) \in Nat /\ Len(blocks) = Len(in.blocks)
      /\ block \in Nat
  BY InputFacts DEF Typed
<1> QED
  BY <1>1 DEF Visited

\* The start of a round, or of its second half.
LEMMA StartFacts ==
  ASSUME Typed, block' = 1, inst' = 1, UNCHANGED <<in, blocks>>
  PROVE  /\ block' \in 1 .. Len(in.blocks) + 1 /\ inst' \in Nat \ {0}
         /\ block' <= Len(in.blocks) => inst' <= Len(in.blocks[block'].instructions)
         /\ \A p \in Places : ~Visited(p)'
<1>1. IsInput(in) /\ Len(in.blocks) \in Nat
      /\ \A b \in 1 .. Len(in.blocks) : Len(in.blocks[b].instructions) >= 1
  BY InputFacts DEF Typed
<1>2. \A p \in Places : p[1] \in Nat /\ p[1] >= 1 /\ p[2] \in Nat /\ p[2] >= 1
  <2> SUFFICES ASSUME NEW p \in Places
               PROVE  p[1] \in Nat /\ p[1] >= 1 /\ p[2] \in Nat /\ p[2] >= 1
    OBVIOUS
  <2>1. /\ p[1] \in 1 .. Len(in.blocks)
        /\ p[2] \in 1 .. Len(in.blocks[p[1]].instructions)
    BY <1>1, InputFacts
  <2> QED
    BY <2>1
<1>3. \A p \in Places : ~Visited(p)'
  BY <1>2 DEF Visited
<1> QED
  BY <1>1, <1>3

\* Every instruction was visited: every temp read is marked.
LEMMA StartSweepIInv == ASSUME IInv, StartSweep PROVE IInv'
<1>1. /\ IsInput(in) /\ Typed /\ Marked /\ Lost /\ Swept
      /\ phase = "mark" /\ phase' = "sweep" /\ block > Len(blocks) /\ block' = 1 /\ inst' = 1
      /\ UNCHANGED <<in, freed, blocks, seen, changed>>
  BY DEF IInv, Typed, StartSweep
<1>2. /\ Places' = Places /\ Removed' = Removed /\ Used' = Used
      /\ \A p : Now(p)' = Now(p) /\ Was(p)' = Was(p)
  BY <1>1, SameBlocks
<1>3. /\ block' \in 1 .. Len(in.blocks) + 1 /\ inst' \in Nat \ {0}
      /\ block' <= Len(in.blocks) => inst' <= Len(in.blocks[block'].instructions)
      /\ \A p \in Places : ~Visited(p)'
  BY <1>1, StartFacts
<1>4. Used \subseteq seen
  BY <1>1, AllVisited DEF Marked, Used
<1>5. Typed'
  BY <1>1, <1>2, <1>3 DEF Typed
<1>6. Marked'
  BY <1>1, <1>2, <1>4 DEF Marked
<1>7. Lost'
  BY <1>1, <1>2 DEF Lost
<1>8. Swept'
  BY <1>1, <1>2, <1>3 DEF Swept
<1> QED
  BY <1>5, <1>6, <1>7, <1>8 DEF IInv

LEMMA KeepIInv == ASSUME IInv, Keep PROVE IInv'
<1>1. /\ IsInput(in) /\ Typed /\ Marked /\ Lost /\ Swept
      /\ phase = "sweep" /\ block <= Len(blocks) /\ ~WritesDeadTemp(seen, Current) /\ Advance
      /\ UNCHANGED <<in, freed, blocks, seen, changed, phase>>
  BY DEF IInv, Typed, Keep, Visiting
<1>2. PICK c : c = <<block, inst>>
  OBVIOUS
<1>3. /\ c \in Places /\ Now(c) = Current
      /\ block' \in 1 .. Len(in.blocks) + 1 /\ inst' \in Nat \ {0}
      /\ block' <= Len(in.blocks) => inst' <= Len(in.blocks[block'].instructions)
      /\ \A p \in Places :
           p[1] < block' \/ (p[1] = block' /\ p[2] < inst') <=> Visited(p) \/ p = c
  BY <1>1, <1>2, CursorFacts
<1>4. /\ Places' = Places /\ Removed' = Removed /\ Used' = Used
      /\ \A p : Now(p)' = Now(p) /\ Was(p)' = Was(p)
  BY <1>1, SameBlocks
<1>5. \A p \in Places : Visited(p)' <=> Visited(p) \/ p = c
  BY <1>3 DEF Visited
<1>6. Typed'
  BY <1>1, <1>3, <1>4 DEF Typed
<1>7. Marked'
  BY <1>1, <1>4 DEF Marked
<1>8. Lost'
  BY <1>1, <1>4 DEF Lost
<1>9. Swept'
  BY <1>1, <1>3, <1>4, <1>5 DEF Swept
<1> QED
  BY <1>6, <1>7, <1>8, <1>9 DEF IInv

\* A definition that nothing reads goes: what is left reads no more than before,
\* and not the temp that lost it.
LEMMA MakeNopIInv == ASSUME IInv, MakeNop PROVE IInv'
<1>1. /\ IsInput(in) /\ Typed /\ Marked /\ Lost /\ Swept
      /\ phase = "sweep" /\ block <= Len(blocks) /\ WritesDeadTemp(seen, Current) /\ Advance
      /\ blocks' = [blocks EXCEPT ![block].instructions[inst] = NOP] /\ changed' = TRUE
      /\ UNCHANGED <<in, seen, phase>>
  BY DEF IInv, Typed, MakeNop, Visiting
<1>2. PICK c : c = <<block, inst>>
  OBVIOUS
<1>3. /\ c \in Places /\ Now(c) = Current /\ c[1] = block /\ c[2] = inst
      /\ block' \in 1 .. Len(in.blocks) + 1 /\ inst' \in Nat \ {0}
      /\ block' <= Len(in.blocks) => inst' <= Len(in.blocks[block'].instructions)
  BY <1>1, <1>2, CursorFacts
<1>4. /\ blocks \in Seq(LeftBlock) /\ Len(blocks) = Len(in.blocks) /\ Len(in.blocks) \in Nat
      /\ block \in 1 .. Len(blocks) /\ DOMAIN blocks = 1 .. Len(blocks)
      /\ \A b \in 1 .. Len(in.blocks) :
           /\ Len(blocks[b].instructions) = Len(in.blocks[b].instructions)
           /\ blocks[b] \in LeftBlock /\ blocks[b].instructions \in Seq(Left)
           /\ DOMAIN blocks[b].instructions = 1 .. Len(blocks[b].instructions)
  <2>1. /\ blocks \in Seq(LeftBlock) /\ Len(blocks) = Len(in.blocks) /\ Len(in.blocks) \in Nat
        /\ block \in 1 .. Len(blocks) /\ DOMAIN blocks = 1 .. Len(blocks)
        /\ \A b \in 1 .. Len(in.blocks) :
             Len(blocks[b].instructions) = Len(in.blocks[b].instructions)
    BY <1>1, InputFacts DEF Typed
  <2>2. \A b \in 1 .. Len(in.blocks) : blocks[b] \in LeftBlock
    BY <2>1
  <2>3. \A b \in 1 .. Len(in.blocks) : blocks[b].instructions \in Seq(Left)
    BY <2>2 DEF LeftBlock
  <2> QED
    BY <2>1, <2>2, <2>3
<1>5. inst \in 1 .. Len(blocks[block].instructions)
  BY <1>1, <1>4 DEF Typed
<1>6. /\ blocks' = [blocks EXCEPT ![block] =
                      [blocks[block] EXCEPT !.instructions =
                         [blocks[block].instructions EXCEPT ![inst] = NOP]]]
  BY <1>1
<1> DEFINE list == [blocks[block].instructions EXCEPT ![inst] = NOP]
           new == [blocks[block] EXCEPT !.instructions = list]
<1>7. list \in Seq(Left) /\ Len(list) = Len(blocks[block].instructions)
      /\ list[inst] = NOP
      /\ \A k \in 1 .. Len(list) : k # inst => list[k] = blocks[block].instructions[k]
  <2>1. NOP \in Left
    BY DEF Left
  <2> QED
    BY <1>4, <1>5, <2>1
<1> HIDE DEF list
<1>8. new \in LeftBlock /\ new.instructions = list
  BY <1>4, <1>7 DEF LeftBlock
<1> HIDE DEF new
<1>9. /\ blocks' \in Seq(LeftBlock) /\ Len(blocks') = Len(blocks) /\ blocks'[block] = new
      /\ \A b \in 1 .. Len(blocks) : b # block => blocks'[b] = blocks[b]
  <2>1. blocks' = [blocks EXCEPT ![block] = new]
    BY <1>6 DEF new, list
  <2> QED
    BY <1>4, <1>8, <2>1
<1>10. Places' = Places /\ \A p : Was(p)' = Was(p)
  BY <1>1 DEF Places, Was
<1>11. Now(c)' = NOP
  BY <1>3, <1>7, <1>8, <1>9 DEF Now
<1>12. ASSUME NEW p \in Places, p # c
       PROVE  Now(p)' = Now(p)
  <2>1. /\ p[1] \in 1 .. Len(in.blocks)
        /\ p[2] \in 1 .. Len(in.blocks[p[1]].instructions)
        /\ p = <<p[1], p[2]>>
    BY <1>1, InputFacts
  <2>2. CASE p[1] # block
    BY <1>4, <1>9, <2>1, <2>2 DEF Now
  <2>3. CASE p[1] = block
    <3>1. p[2] # inst /\ p[2] \in 1 .. Len(list)
      BY <1>2, <1>4, <1>7, <1>12, <2>1, <2>3
    <3> QED
      BY <1>7, <1>8, <1>9, <2>3, <3>1 DEF Now
  <2> QED
    BY <2>2, <2>3
<1>13. Used' \subseteq Used /\ Used \subseteq seen
  <2>1. MarkTempUse(NOP) = {}
    BY NopFacts DEF MarkTempUse
  <2>2. ASSUME NEW p \in Places
        PROVE  MarkTempUse(Now(p)') \subseteq Used
    <3>1. CASE p = c
      BY <1>11, <2>1, <3>1
    <3>2. CASE p # c
      BY <1>12, <3>2 DEF Used
    <3> QED
      BY <3>1, <3>2
  <2>3. \A i : MarkTempUse(i)' = MarkTempUse(i)
    BY DEF MarkTempUse
  <2> QED
    BY <1>1, <1>10, <2>2 DEF Used, Marked
<1>14. Typed'
  <2>1. \A b \in 1 .. Len(in.blocks) :
          Len(blocks'[b].instructions) = Len(in.blocks[b].instructions)
    BY <1>4, <1>7, <1>8, <1>9
  <2>2. \A p \in Places : Now(p)' = Was(p) \/ Now(p)' = NOP
    BY <1>1, <1>11, <1>12 DEF Typed
  <2> QED
    BY <1>1, <1>3, <1>4, <1>9, <1>10, <2>1, <2>2 DEF Typed
<1>15. Marked'
  BY <1>1, <1>13 DEF Marked
<1>16. Lost'
  <2>1. ASSUME NEW p \in Places, Now(p)' # Was(p)
        PROVE  TempsIn(Was(p), {1}) \cap Used' = {}
    <3>1. CASE Now(p) # Was(p)
      BY <1>1, <1>13, <3>1 DEF Lost, Removed
    <3>2. CASE Now(p) = Was(p)
      <4>1. p = c
        BY <1>12, <2>1, <3>2
      <4>2. TempsIn(Was(p), {1}) \cap seen = {}
        BY <1>1, <1>3, <3>2, <4>1 DEF WritesDeadTemp
      <4> QED
        BY <1>13, <4>2
    <3> QED
      BY <3>1, <3>2
  <2>2. Removed' = {p \in Places : Now(p)' # Was(p)}
    BY <1>10 DEF Removed
  <2> QED
    BY <1>10, <2>1, <2>2 DEF Lost
<1>17. Swept'
  BY <1>1 DEF Swept
<1> QED
  BY <1>14, <1>15, <1>16, <1>17 DEF IInv

\* A round that removed something is followed by another that starts anew.
LEMMA NextRoundIInv == ASSUME IInv, NextRound PROVE IInv'
<1>1. /\ IsInput(in) /\ Typed /\ Marked /\ Lost /\ Swept
      /\ phase' = "mark" /\ seen' = {} /\ changed' = FALSE /\ block' = 1 /\ inst' = 1
      /\ UNCHANGED <<in, freed, blocks>>
  BY DEF IInv, Typed, NextRound
<1>2. /\ Places' = Places /\ Removed' = Removed /\ Used' = Used
      /\ \A p : Now(p)' = Now(p) /\ Was(p)' = Was(p)
  BY <1>1, SameBlocks
<1>3. /\ block' \in 1 .. Len(in.blocks) + 1 /\ inst' \in Nat \ {0}
      /\ block' <= Len(in.blocks) => inst' <= Len(in.blocks[block'].instructions)
      /\ \A p \in Places : ~Visited(p)'
  BY <1>1, StartFacts
<1>4. Typed'
  BY <1>1, <1>2, <1>3 DEF Typed
<1>5. Marked'
  BY <1>1, <1>2, <1>3 DEF Marked
<1>6. Lost'
  BY <1>1, <1>2 DEF Lost
<1>7. Swept'
  BY <1>1 DEF Swept
<1> QED
  BY <1>4, <1>5, <1>6, <1>7 DEF IInv

LEMMA FinishIInv == ASSUME IInv, Finish PROVE IInv'
<1>1. /\ IsInput(in) /\ Typed /\ Marked /\ Lost /\ Swept
      /\ phase = "sweep" /\ phase' = "done" /\ block > Len(blocks) /\ ~changed
      /\ UNCHANGED <<in, freed, blocks, seen, block, inst, changed>>
  BY DEF IInv, Typed, Finish
<1>2. /\ Places' = Places /\ Removed' = Removed /\ Used' = Used
      /\ \A p : Now(p)' = Now(p) /\ Was(p)' = Was(p)
  BY <1>1, SameBlocks
<1>3. Typed'
  BY <1>1, <1>2 DEF Typed
<1>4. Marked'
  BY <1>1, <1>2 DEF Marked
<1>5. Lost'
  BY <1>1, <1>2 DEF Lost
<1>6. Swept'
  BY <1>1, <1>2, AllVisited DEF Swept
<1> QED
  BY <1>3, <1>4, <1>5, <1>6 DEF IInv

\* The pass stops, or another takes the step: everything stays but the phase.
LEMMA StopIInv ==
  ASSUME IInv, UNCHANGED <<in, blocks, seen, block, inst, changed>>,
         phase' = "undefined" \/ phase' = phase
  PROVE  IInv'
<1>1. IsInput(in) /\ Typed /\ Marked /\ Lost /\ Swept
  BY DEF IInv, Typed
<1>2. /\ Places' = Places /\ Removed' = Removed /\ Used' = Used
      /\ \A p : Now(p)' = Now(p) /\ Was(p)' = Was(p)
  BY SameBlocks
<1>3. \A p : Visited(p)' <=> Visited(p)
  BY DEF Visited
<1>4. Typed'
  BY <1>1, <1>2 DEF Typed
<1>5. Marked'
  BY <1>1, <1>2, <1>3 DEF Marked
<1>6. Lost'
  BY <1>1, <1>2 DEF Lost
<1>7. Swept'
  BY <1>1, <1>2, <1>3 DEF Swept
<1> QED
  BY <1>4, <1>5, <1>6, <1>7 DEF IInv

LEMMA StepIInv == IInv /\ [Next]_vars => IInv'
<1> SUFFICES ASSUME IInv, [Next]_vars PROVE IInv'
  OBVIOUS
<1>1. CASE Mark
  BY <1>1, MarkIInv
<1>2. CASE StartSweep
  BY <1>2, StartSweepIInv
<1>3. CASE Keep
  BY <1>3, KeepIInv
<1>4. CASE MakeNop
  BY <1>4, MakeNopIInv
<1>5. CASE NextRound
  BY <1>5, NextRoundIInv
<1>6. CASE Finish
  BY <1>6, FinishIInv
<1>7. CASE UseFreed
  BY <1>7, StopIInv DEF UseFreed
<1>8. CASE UNCHANGED vars
  BY <1>8, StopIInv DEF vars
<1> QED
  BY <1>1, <1>2, <1>3, <1>4, <1>5, <1>6, <1>7, <1>8 DEF Next

LEMMA Inductive == InputsOK /\ Spec => []IInv
<1>1. InputsOK /\ Init => IInv
  BY StartIInv DEF InputsOK, Init
<1>2. IInv /\ [Next]_vars => IInv'
  BY StepIInv
<1> QED
  BY <1>1, <1>2, PTL DEF Spec
-----------------------------------------------------------------------------
(* What the pass leaves *)

\* Only a write is removed, so a block ends as it did, under its label.
Kept ==
  /\ \A b \in 1 .. Len(in.blocks) : blocks[b].label = in.blocks[b].label
  /\ \A p \in Removed : Was(p).op \in Writers

LEMMA StartKept == IsInput(in) /\ Start => Kept
  BY DEF Start, Kept, Removed, Now, Was

\* Removing the current instruction leaves the others as they are.
LEMMA OthersStay ==
  ASSUME Typed, blocks' = [blocks EXCEPT ![block].instructions[inst] = NOP],
         NEW c, c = <<block, inst>>
  PROVE  \A p \in Places : p # c => Now(p)' = Now(p)
<1> SUFFICES ASSUME NEW p \in Places, p # c PROVE Now(p)' = Now(p)
  OBVIOUS
<1>1. blocks \in Seq(LeftBlock) /\ Len(blocks) = Len(in.blocks) /\ Len(in.blocks) \in Nat
  BY InputFacts DEF Typed
<1>2. DOMAIN blocks = 1 .. Len(in.blocks) /\ \A b \in 1 .. Len(in.blocks) : blocks[b] \in LeftBlock
  BY <1>1
<1>3. p[1] \in DOMAIN blocks /\ p = <<p[1], p[2]>> /\ blocks[p[1]] \in LeftBlock
  BY <1>2, InputFacts DEF Typed
<1>4. CASE p[1] # block
  BY <1>2, <1>3, <1>4 DEF Now
<1>5. CASE p[1] = block
  <2>1. p[2] # inst
    BY <1>3, <1>5
  <2>2. blocks'[p[1]].instructions = [blocks[p[1]].instructions EXCEPT ![inst] = NOP]
    BY <1>2, <1>3, <1>5 DEF LeftBlock
  <2> QED
    BY <2>1, <2>2 DEF Now
<1> QED
  BY <1>4, <1>5

LEMMA StepKept == IInv /\ Kept /\ [Next]_vars => Kept'
<1> SUFFICES ASSUME IInv, Kept, [Next]_vars PROVE Kept'
  OBVIOUS
<1>1. CASE MakeNop
  <2>1. /\ block <= Len(blocks) /\ in' = in /\ WritesDeadTemp(seen, Current)
        /\ blocks' = [blocks EXCEPT ![block].instructions[inst] = NOP]
    BY <1>1 DEF MakeNop, Visiting
  <2>2. PICK c : c = <<block, inst>>
    OBVIOUS
  <2>3. /\ IsInput(in) /\ c \in Places /\ Now(c) = Current
    BY <2>1, <2>2, CursorFacts DEF IInv, Typed
  <2>4. Places' = Places /\ \A p : Was(p)' = Was(p)
    BY <2>1 DEF Places, Was
  <2>5. /\ Len(blocks) = Len(in.blocks) /\ Len(in.blocks) \in Nat
        /\ DOMAIN blocks = 1 .. Len(in.blocks)
        /\ \A b \in 1 .. Len(in.blocks) : blocks[b] \in LeftBlock
    <3>1. blocks \in Seq(LeftBlock) /\ Len(blocks) = Len(in.blocks) /\ Len(in.blocks) \in Nat
      BY <2>3, InputFacts DEF IInv, Typed
    <3> QED
      BY <3>1
  <2>6. \A b \in 1 .. Len(in.blocks) : blocks'[b].label = blocks[b].label
    BY <2>1, <2>5 DEF LeftBlock
  <2>7. \A p \in Places : p # c => Now(p)' = Now(p)
    BY <2>1, <2>2, <2>3, OthersStay DEF IInv
  <2>8. ASSUME NEW p \in Places, Now(p)' # Was(p) PROVE Was(p).op \in Writers
    <3>1. CASE Now(p) # Was(p)
      BY <3>1 DEF Kept, Removed
    <3>2. CASE Now(p) = Was(p)
      <4>1. p = c
        BY <2>7, <2>8, <3>2
      <4> QED
        BY <2>1, <2>3, <3>2, <4>1 DEF WritesDeadTemp
    <3> QED
      BY <3>1, <3>2
  <2>9. Removed' = {p \in Places : Now(p)' # Was(p)}
    BY <2>4 DEF Removed
  <2> QED
    BY <2>1, <2>4, <2>6, <2>8, <2>9 DEF Kept
<1>2. CASE UNCHANGED <<in, blocks>>
  BY <1>2, SameBlocks DEF Kept
<1> QED
  BY <1>1, <1>2 DEF Next, vars, Mark, StartSweep, Keep, NextRound, Finish, UseFreed

\* Nothing is removed before the function is entered.
LEMMA StartNeeded == Start => NeededKept
  BY DEF Start, NeededKept, Now, Was

\* While the pass sweeps, the marks hold what every set that needs itself reads, so
\* that none of its instructions writes a temp without a mark.
LEMMA StepNeeded == IInv /\ NeededKept /\ [Next]_vars => NeededKept'
<1> SUFFICES ASSUME IInv, NeededKept, [Next]_vars PROVE NeededKept'
  OBVIOUS
<1>1. CASE MakeNop
  <2>1. /\ phase = "sweep" /\ block <= Len(blocks) /\ in' = in /\ WritesDeadTemp(seen, Current)
        /\ blocks' = [blocks EXCEPT ![block].instructions[inst] = NOP]
    BY <1>1 DEF MakeNop, Visiting
  <2>2. PICK c : c = <<block, inst>>
    OBVIOUS
  <2>3. Typed /\ c \in Places /\ Now(c) = Current
    BY <2>1, <2>2, CursorFacts DEF IInv
  <2>4. Places' = Places /\ \A p : Was(p)' = Was(p)
    BY <2>1 DEF Places, Was
  <2>5. \A p \in Places : p # c => Now(p)' = Now(p)
    BY <2>1, <2>2, <2>3, OthersStay
  <2>6. SUFFICES ASSUME NEW K \in SUBSET Places, NeedsItself(K), NEW p \in K
                 PROVE  Now(p)' = Now(p)
    <3>1. \A K : NeedsItself(K)' <=> NeedsItself(K)
      BY <2>4 DEF NeedsItself, ReadsOf
    <3> QED
      BY <2>4, <2>6, <3>1 DEF NeededKept
  <2>7. \A q \in K : q \in Places /\ Now(q) = Was(q)
    BY <2>6 DEF NeededKept
  <2>8. ReadsOf(K) \subseteq seen
    <3>1. ReadsOf(K) \subseteq Used
      BY <2>7 DEF ReadsOf, Used
    <3> QED
      BY <2>1, <3>1 DEF IInv, Marked
  <2>9. p # c
    <3>1. ~WritesDeadTemp(ReadsOf(K), Now(p))
      BY <2>6, <2>7 DEF NeedsItself
    <3>2. ~WritesDeadTemp(seen, Now(p))
      BY <2>8, <3>1 DEF WritesDeadTemp
    <3> QED
      BY <2>1, <2>3, <3>2
  <2> QED
    BY <2>5, <2>7, <2>9
<1>2. CASE UNCHANGED <<in, blocks>>
  <2>1. Places' = Places /\ \A p : Now(p)' = Now(p) /\ Was(p)' = Was(p)
    BY <1>2, SameBlocks
  <2>2. \A K : NeedsItself(K)' <=> NeedsItself(K)
    BY <2>1 DEF NeedsItself, ReadsOf
  <2> QED
    BY <2>1, <2>2 DEF NeededKept
<1> QED
  BY <1>1, <1>2 DEF Next, vars, Mark, StartSweep, Keep, NextRound, Finish, UseFreed

\* At every moment the blocks are what the next pass takes for granted: the
\* blocks that were given, with NOPs in place of some of their instructions, but
\* never of the last one.
LEMMA LeftFacts ==
  ASSUME IInv, Kept
  PROVE  /\ IsBlockList(blocks) /\ DOMAIN blocks = DOMAIN in.blocks
         /\ \A b \in DOMAIN in.blocks :
              /\ blocks[b].label = in.blocks[b].label
              /\ LastOf(blocks[b]) = LastOf(in.blocks[b])
              /\ Len(blocks[b].instructions) = Len(in.blocks[b].instructions)
              /\ \A k \in DOMAIN blocks[b].instructions :
                   /\ k \in DOMAIN in.blocks[b].instructions
                   /\ blocks[b].instructions[k] \in {in.blocks[b].instructions[k], NOP}
<1>1. /\ IsInput(in) /\ Len(in.blocks) \in Nat /\ Len(in.blocks) >= 1
      /\ DOMAIN in.blocks = 1 .. Len(in.blocks)
      /\ \A b \in 1 .. Len(in.blocks) : IsTerminator(LastOf(in.blocks[b]))
      /\ \A b, c \in 1 .. Len(in.blocks) :
           in.blocks[b].label = in.blocks[c].label => b = c
  BY DEF IInv, Typed, IsInput, IsBlockList
<1>2. /\ blocks \in Seq(LeftBlock) /\ Len(blocks) = Len(in.blocks)
      /\ DOMAIN blocks = 1 .. Len(in.blocks)
  BY <1>1 DEF IInv, Typed
<1>3. IRInstruction = Left
  <2>1. NOP.op = "NOP" /\ NOP.args = << >> /\ NOP = [op |-> NOP.op, args |-> NOP.args]
    BY DEF NOP
  <2>2. NOP.op \in IROperator /\ NOP.args \in Seq(IROperand)
    BY <2>1 DEF IROperator
  <2>3. NOP \in IRInstruction
    BY <2>1, <2>2 DEF IRInstruction
  <2> QED
    BY <2>3 DEF Left
<1>4. blocks \in Seq(IRBlock)
  BY <1>2, <1>3 DEF LeftBlock, IRBlock
<1>5. ASSUME NEW b \in 1 .. Len(in.blocks)
      PROVE  /\ blocks[b].instructions # << >>
             /\ IsTerminator(LastOf(blocks[b]))
             /\ LastOf(blocks[b]) = LastOf(in.blocks[b])
             /\ Len(blocks[b].instructions) = Len(in.blocks[b].instructions)
             /\ \A k \in DOMAIN blocks[b].instructions :
                  /\ k \in DOMAIN in.blocks[b].instructions
                  /\ blocks[b].instructions[k] \in {in.blocks[b].instructions[k], NOP}
  <2> DEFINE n == Len(in.blocks[b].instructions)
  <2>1. blocks[b] \in IRBlock
    BY <1>2, <1>4
  <2>2. blocks[b].instructions \in Seq(IRInstruction) /\ Len(blocks[b].instructions) = n
    BY <2>1 DEF IRBlock, IInv, Typed
  <2>3. /\ in.blocks[b].instructions \in Seq(IRInstruction) /\ n \in Nat /\ n >= 1
    BY <1>1, InputFacts
  <2> HIDE DEF n
  <2>4. DOMAIN blocks[b].instructions = 1 .. n /\ DOMAIN in.blocks[b].instructions = 1 .. n
    BY <2>2, <2>3 DEF n
  <2>5. ASSUME NEW k \in 1 .. n
        PROVE  \/ blocks[b].instructions[k] = in.blocks[b].instructions[k]
               \/ /\ blocks[b].instructions[k] = NOP
                  /\ in.blocks[b].instructions[k].op \in Writers
    <3>1. PICK p : p = <<b, k>>
      OBVIOUS
    <3>2. p \in Places
      BY <1>1, <3>1, InputFacts DEF n
    <3>3. Now(p) = blocks[b].instructions[k] /\ Was(p) = in.blocks[b].instructions[k]
      BY <3>1 DEF Now, Was
    <3>4. Now(p) = Was(p) \/ Now(p) = NOP
      BY <3>2 DEF IInv, Typed
    <3>5. Now(p) # Was(p) => Was(p).op \in Writers
      BY <3>2 DEF Kept, Removed
    <3> QED
      BY <3>3, <3>4, <3>5
  <2>6. LastOf(blocks[b]) = LastOf(in.blocks[b])
    <3>1. /\ LastOf(blocks[b]) = blocks[b].instructions[n]
          /\ LastOf(in.blocks[b]) = in.blocks[b].instructions[n]
      BY <2>2 DEF LastOf, n
    <3>2. LastOf(in.blocks[b]).op \notin Writers
      BY <1>1 DEF IsTerminator, TwoTarget, CJumps, BJumps, Writers, Binary, Unary
    <3> QED
      BY <2>3, <2>5, <3>1, <3>2
  <2> QED
    BY <1>1, <2>2, <2>3, <2>4, <2>5, <2>6 DEF n
<1>6. \A b, c \in DOMAIN blocks : blocks[b].label = blocks[c].label => b = c
  BY <1>1, <1>2 DEF Kept
<1> QED
  BY <1>1, <1>2, <1>4, <1>5, <1>6 DEF IsBlockList, Kept
-----------------------------------------------------------------------------
(* What is freed *)

\* Everything that is freed was freed before the pass, or with an instruction
\* that is a NOP now.
FreedWithNops ==
  \A o \in freed :
    o \in in.freed \/ \E p \in Places : Now(p) = NOP /\ o \in Objects(Was(p))

FreedIInv == FreedWithNops /\ 0 \notin freed /\ UndefinedOnlyIfShared

LEMMA StartFreedIInv == IsInput(in) /\ Start => FreedIInv
  BY DEF IsInput, Start, FreedIInv, FreedWithNops, UndefinedOnlyIfShared

\* An instruction that is left has its operands, unless another one has them too.
LEMMA ReadsOwned ==
  ASSUME IInv, FreedIInv, block <= Len(blocks), ReadsFreed
  PROVE  ~OwnedOnce(in.blocks, in.freed)
<1>1. PICK c : c = <<block, inst>>
  OBVIOUS
<1>2. IsInput(in) /\ c \in Places /\ Now(c) = Current
  BY <1>1, CursorFacts DEF IInv, Typed
<1>3. PICK a \in DOMAIN Current.args : Current.args[a].obj \in freed
  BY DEF ReadsFreed
<1> DEFINE o == Current.args[a].obj
<1>4. o # 0 /\ o \in Objects(Current)
  BY <1>3 DEF FreedIInv, Objects, ObjectOf
<1>5. Current # NOP
  BY <1>3 DEF NOP
<1>6. Current = Was(c)
  BY <1>2, <1>5 DEF IInv, Typed
<1>7. /\ \A p \in Places : /\ p[1] \in DOMAIN in.blocks
                           /\ p[2] \in DOMAIN in.blocks[p[1]].instructions
                           /\ p = <<p[1], p[2]>>
  BY <1>2, InputFacts
<1> HIDE DEF o
<1>8. ASSUME OwnedOnce(in.blocks, in.freed) PROVE FALSE
  <2>1. o \in Objects(in.blocks[c[1]].instructions[c[2]])
    BY <1>4, <1>6 DEF Was
  <2>2. /\ o \notin in.freed
        /\ \A b \in DOMAIN in.blocks : \A k \in DOMAIN in.blocks[b].instructions :
             o \in Objects(in.blocks[b].instructions[k]) => b = c[1] /\ k = c[2]
    <3> DEFINE held == Objects(in.blocks[c[1]].instructions[c[2]])
    <3>1. c[1] \in DOMAIN in.blocks /\ c[2] \in DOMAIN in.blocks[c[1]].instructions /\ held # {}
      BY <1>2, <1>7, <2>1
    <3>2. /\ held \cap in.freed = {}
          /\ \A b \in DOMAIN in.blocks : \A k \in DOMAIN in.blocks[b].instructions :
               Objects(in.blocks[b].instructions[k]) \cap held # {} => b = c[1] /\ k = c[2]
      BY <1>8, <3>1 DEF OwnedOnce
    <3> HIDE DEF held
    <3>3. o \in held
      BY <2>1 DEF held
    <3> QED
      BY <3>2, <3>3
  <2>3. PICK p \in Places : Now(p) = NOP /\ o \in Objects(Was(p))
    BY <1>3, <2>2 DEF o, FreedIInv, FreedWithNops
  <2>4. p[1] = c[1] /\ p[2] = c[2]
    BY <1>7, <2>2, <2>3 DEF Was
  <2>5. p = c
    BY <1>2, <1>7, <2>4
  <2> QED
    BY <1>2, <1>5, <2>3, <2>5
<1> QED
  BY <1>8

LEMMA StepFreedIInv == IInv /\ FreedIInv /\ [Next]_vars => FreedIInv'
<1> SUFFICES ASSUME IInv, FreedIInv, [Next]_vars PROVE FreedIInv'
  OBVIOUS
<1>1. CASE MakeNop
  <2>1. /\ block <= Len(blocks) /\ freed' = freed \cup Objects(Current)
        /\ in' = in /\ phase' = "sweep" /\ WritesDeadTemp(seen, Current)
    BY <1>1 DEF MakeNop, Visiting
  <2>2. PICK c : c = <<block, inst>>
    OBVIOUS
  <2>3. /\ IsInput(in) /\ c \in Places /\ Now(c) = Current
        /\ c[1] = block /\ c[2] = inst
    BY <2>1, <2>2, CursorFacts DEF IInv, Typed
  <2>4. Places' = Places /\ \A p : Was(p)' = Was(p)
    BY <2>1 DEF Places, Was
  <2>5. /\ Now(c)' = NOP /\ \A p \in Places : Now(p) = NOP => Now(p)' = NOP
    <3>1. blocks' = [blocks EXCEPT ![block].instructions[inst] = NOP]
      BY <1>1 DEF MakeNop
    <3>2. /\ block \in DOMAIN blocks /\ blocks[block] \in LeftBlock
          /\ inst \in DOMAIN blocks[block].instructions
          /\ DOMAIN blocks = 1 .. Len(in.blocks)
          /\ \A b \in DOMAIN blocks : blocks[b].instructions \in Seq(Left) /\ blocks[b] \in LeftBlock
      <4>1. /\ blocks \in Seq(LeftBlock) /\ Len(blocks) = Len(in.blocks)
            /\ Len(in.blocks) \in Nat /\ block \in 1 .. Len(in.blocks)
            /\ inst \in 1 .. Len(in.blocks[block].instructions)
            /\ Len(blocks[block].instructions) = Len(in.blocks[block].instructions)
        BY <2>1, <2>3, InputFacts DEF IInv, Typed
      <4>2. /\ DOMAIN blocks = 1 .. Len(in.blocks)
            /\ \A b \in DOMAIN blocks : blocks[b] \in LeftBlock
        BY <4>1
      <4>3. \A b \in DOMAIN blocks : blocks[b].instructions \in Seq(Left)
        BY <4>2 DEF LeftBlock
      <4> QED
        BY <4>1, <4>2, <4>3
    <3>3. ASSUME NEW p \in Places
          PROVE  Now(p)' = IF p = c THEN NOP ELSE Now(p)
      <4>1. /\ p[1] \in DOMAIN blocks /\ p = <<p[1], p[2]>>
        BY <2>3, <3>2, InputFacts
      <4>2. CASE p[1] # block
        BY <2>3, <3>1, <3>2, <4>1, <4>2 DEF Now
      <4>3. CASE p[1] = block
        <5> DEFINE list == [blocks[block].instructions EXCEPT ![inst] = NOP]
        <5>1. blocks'[block] = [blocks[block] EXCEPT !.instructions = list]
          BY <3>1, <3>2
        <5>2. blocks'[block].instructions = list
          BY <3>2, <5>1 DEF LeftBlock
        <5>3. p[2] \in DOMAIN blocks[block].instructions
          <6>1. p[2] \in 1 .. Len(in.blocks[p[1]].instructions)
            BY <2>3, InputFacts
          <6>2. /\ Len(blocks[block].instructions) = Len(in.blocks[block].instructions)
                /\ blocks[block].instructions \in Seq(Left)
            BY <3>2 DEF IInv, Typed
          <6> QED
            BY <4>3, <6>1, <6>2
        <5>4. list[p[2]] = IF p[2] = inst THEN NOP ELSE blocks[block].instructions[p[2]]
          BY <5>3
        <5> HIDE DEF list
        <5>5. p = c <=> p[2] = inst
          BY <2>2, <2>3, <4>1, <4>3
        <5> QED
          BY <4>3, <5>2, <5>4, <5>5 DEF Now
      <4> QED
        BY <4>2, <4>3
    <3> QED
      BY <2>3, <3>3
  <2>6. Current # NOP
    BY <2>1 DEF WritesDeadTemp, Writers, NOP, Binary, Unary
  <2>7. Current = Was(c)
    BY <2>3, <2>6 DEF IInv, Typed
  <2>8. FreedWithNops'
    BY <2>1, <2>3, <2>4, <2>5, <2>7 DEF FreedIInv, FreedWithNops
  <2>9. 0 \notin Objects(Current)
    BY DEF Objects, ObjectOf
  <2> QED
    BY <2>1, <2>8, <2>9 DEF FreedIInv, UndefinedOnlyIfShared
<1>2. CASE UseFreed
  <2>1. ~OwnedOnce(in.blocks, in.freed)
    BY <1>2, ReadsOwned DEF UseFreed, Visiting
  <2>2. UNCHANGED <<in, blocks, freed>>
    BY <1>2 DEF UseFreed
  <2>3. FreedWithNops'
    BY <2>2, SameBlocks DEF FreedIInv, FreedWithNops
  <2> QED
    BY <2>1, <2>2, <2>3 DEF FreedIInv, UndefinedOnlyIfShared
<1>3. CASE Mark \/ StartSweep \/ Keep \/ NextRound \/ Finish \/ UNCHANGED vars
  <2>1. UNCHANGED <<in, blocks, freed>>
    BY <1>3 DEF Mark, StartSweep, Keep, NextRound, Finish, vars
  <2>2. FreedWithNops'
    BY <2>1, SameBlocks DEF FreedIInv, FreedWithNops
  <2>3. phase' = phase \/ phase' \in {"mark", "sweep", "done"}
    BY <1>3 DEF Mark, StartSweep, Keep, NextRound, Finish, vars
  <2> QED
    BY <2>1, <2>2, <2>3 DEF FreedIInv, UndefinedOnlyIfShared
<1> QED
  BY <1>1, <1>2, <1>3 DEF Next
-----------------------------------------------------------------------------
(* Theorems *)

LEMMA IInvTypeOK == IInv => TypeOK
  BY DEF IInv, Typed, Marked, TypeOK

\* The marks stay inside the array of nextId entries that calloc gave, and the
\* cursor in the function (optimization.c:212).
THEOREM TypeCorrect == InputsOK /\ Spec => []TypeOK
  BY IInvTypeOK, Inductive, PTL

LEMMA IInvRemovedNeverRead == IInv => RemovedNeverRead
<1> SUFFICES ASSUME IInv PROVE RemovedNeverRead
  OBVIOUS
<1>1. Lost
  BY DEF IInv
<1> DEFINE ops == Ops \ {"ADDROF", "JUMPTABLE"}
           read == LeftIn(ops, ReadArgs)
<1>2. \A op \in ops : ReadArgs(op) = MarkedArgs(op)
  <2>1. ASSUME NEW op, op # "ADDROF", op # "JUMPTABLE"
        PROVE  ReadArgs(op) = MarkedArgs(op)
    BY <2>1, Zenon DEF ReadArgs
  <2> QED
    BY <2>1
<1>3. read \subseteq Used
  <2>1. ASSUME NEW p \in Places, Now(p).op \in ops
        PROVE  TempsIn(Now(p), ReadArgs(Now(p).op)) \subseteq Used
    BY <1>2, <2>1 DEF Used, MarkTempUse
  <2>2. read = UNION {TempsIn(Now(p), ReadArgs(Now(p).op)) :
                        p \in {q \in Places : Now(q).op \in ops}}
    BY DEF LeftIn
  <2> HIDE DEF ops, read
  <2> QED
    BY <2>1, <2>2
<1>4. LostTemps \cap Used = {}
  BY <1>1 DEF Lost, LostTemps
<1> QED
  BY <1>3, <1>4 DEF RemovedNeverRead

\* In every round, also between the marking and the end of the sweep, a temp of
\* which a definition was removed is read by no instruction that is left, but for
\* the two whose reads the pass does not mark.
THEOREM RemovedNeverReadAlways == InputsOK /\ Spec => []RemovedNeverRead
  BY IInvRemovedNeverRead, Inductive, PTL

LEMMA IInvSaturated == IInv => Saturated
<1> SUFFICES ASSUME IInv, phase = "done", NEW p \in Places
             PROVE  ~WritesDeadTemp(LeftIn(Ops, MarkedArgs), Now(p))
  BY DEF Saturated
<1>1. /\ seen \subseteq Used /\ ~WritesDeadTemp(seen, Now(p))
  BY DEF IInv, Marked, Swept
<1>2. LeftIn(Ops, MarkedArgs) = Used
  <2>1. \A q \in Places : Now(q).op \in Ops
    BY DEF Ops
  <2>2. {q \in Places : Now(q).op \in Ops} = Places
    BY <2>1
  <2> QED
    BY <2>2 DEF LeftIn, Used, MarkTempUse
<1> QED
  BY <1>1, <1>2 DEF WritesDeadTemp

\* When the pass is done, every definition that is left is read: the rounds do
\* not stop early, though removing one definition may be what makes another dead.
THEOREM SaturatedWhenDone == InputsOK /\ Spec => []Saturated
  BY IInvSaturated, Inductive, PTL

\* What is left when the pass is done needs itself: the marks of the last round are
\* what the instructions that are left read, and none of them writes anything else.
LEMMA LeftNeedsItself == IInv /\ phase = "done" => NeedsItself(Places \ Removed)
<1> SUFFICES ASSUME IInv, phase = "done" PROVE NeedsItself(Places \ Removed)
  OBVIOUS
<1>1. /\ seen \subseteq Used
      /\ \A p \in Places : ~WritesDeadTemp(seen, Now(p))
  BY DEF IInv, Marked, Swept
<1>2. Used \subseteq ReadsOf(Places \ Removed)
  <2> SUFFICES ASSUME NEW p \in Places, NEW t \in MarkTempUse(Now(p))
               PROVE  t \in ReadsOf(Places \ Removed)
    BY DEF Used
  <2>1. Now(p) # NOP
    BY DEF MarkTempUse, TempsIn, MarkedArgs, NOP
  <2>2. Now(p) = Was(p)
    BY <2>1 DEF IInv, Typed
  <2> QED
    BY <2>2 DEF ReadsOf, Removed
<1>3. ASSUME NEW p \in Places \ Removed
      PROVE  ~WritesDeadTemp(ReadsOf(Places \ Removed), Was(p))
  <2>1. ~WritesDeadTemp(seen, Now(p)) /\ Now(p) = Was(p)
    BY <1>1 DEF Removed
  <2> QED
    BY <1>1, <1>2, <2>1 DEF WritesDeadTemp
<1> QED
  BY <1>3 DEF NeedsItself

LEMMA IInvLargest == IInv /\ NeededKept => LargestLeft
  BY LeftNeedsItself DEF NeededKept, LargestLeft, Removed

\* The rounds remove what they have to and no more: however they go, a set of
\* instructions that needs itself stays whole, a temp that is only counted up in a
\* loop included, and at the end the largest such set is what is left.
THEOREM LeavesTheLargest == InputsOK /\ Spec => [](NeededKept /\ LargestLeft)
<1>1. InputsOK /\ Init => IInv /\ NeededKept
  BY StartIInv, StartNeeded DEF InputsOK, Init
<1>2. (IInv /\ NeededKept) /\ [Next]_vars => (IInv /\ NeededKept)'
  BY StepIInv, StepNeeded
<1>3. IInv /\ NeededKept => NeededKept /\ LargestLeft
  BY IInvLargest
<1> QED
  BY <1>1, <1>2, <1>3, PTL DEF Spec

\* The pass uses no operand it freed itself, round after round, unless two
\* instructions of the function hold the same one or one was freed before.
THEOREM FreedUnused == InputsOK /\ Spec => []UndefinedOnlyIfShared
<1>1. InputsOK /\ Init => IInv /\ FreedIInv
  BY StartIInv, StartFreedIInv DEF InputsOK, Init
<1>2. (IInv /\ FreedIInv) /\ [Next]_vars => (IInv /\ FreedIInv)'
  BY StepIInv, StepFreedIInv
<1>3. IInv /\ FreedIInv => UndefinedOnlyIfShared
  BY DEF FreedIInv
<1> QED
  BY <1>1, <1>2, <1>3, PTL DEF Spec
=============================================================================
