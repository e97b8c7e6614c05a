-------------------------- MODULE ShortCircuitJumps --------------------------
(***************************************************************************)
(* shortCircuitJumps of optimization/optimization.c, the first pass over a *)
(* function's blocks: a block that ends with a jump to a block that is     *)
(* nothing but a jump gets a copy of that jump instead, again and again    *)
(* until a whole sweep changes nothing.                                    *)
(*                                                                         *)
(* The pass keeps, per block, a POINTER to the block's single jump.  When  *)
(* it rewrites a block it frees the old jump and allocates the copy, so    *)
(* the model names the piece of memory ("chunk") every block's last        *)
(* instruction lives in: what a recorded pointer reads is whatever lives   *)
(* there now, and nothing defined once it was freed.  ReuseFirst says that *)
(* malloc hands out the piece freed last (what the thread cache of glibc   *)
(* does here: irInstructionFree frees the instruction last, and the first  *)
(* thing irInstructionCopy allocates is one of the same size); without it  *)
(* malloc may return any free piece, all that C promises.                  *)
(***************************************************************************)
EXTENDS IR

CONSTANTS Inputs,     \* the lists of blocks the pass may be given
          ReuseFirst  \* malloc returns the piece of memory freed last

IsJump(i) == i.op = "JUMP"

\* What the pass takes for granted of its input.
IsInput(bs) == IsBlockList(bs)
InputsOK == \A bs \in Inputs : IsInput(bs)

\* Where control may go by jumps alone, in the blocks the pass was given: the
\* properties compare what the pass does with it.

\* Leaving block i, control may go through c and do nothing there but jump on.
Hop(bs, i, c) ==
  /\ IsJump(LastOf(bs[i]))
  /\ LastOf(bs[i]).args[1].name = bs[c].label
  /\ IsSingle(bs[c])

SinglesOf(bs) == {c \in 1 .. Len(bs) : IsSingle(bs[c])}

\* S has every block control may hop to from a block of S.
Closed(bs, S) == \A b \in S : \A c \in 1 .. Len(bs) : Hop(bs, b, c) => c \in S

\* The blocks control leaving block i may go through before anything but a
\* jump happens: the least closed set that has i in it.
HopsFrom(bs, i) ==
  {c \in {i} \cup SinglesOf(bs) :
     \A S \in SUBSET ({i} \cup SinglesOf(bs)) :
        i \in S /\ Closed(bs, S) => c \in S}

VARIABLES
  src,            \* the blocks the pass was given (never changes)
  hops,           \* hops[i] = HopsFrom(src, i), kept for the properties
  blocks,         \* the blocks now
  chunk,          \* chunk[i]: where the last instruction of block i lives
  shortCircuits,  \* shortCircuits[i]: the pointer recorded for block i, or NULL
  idx,            \* the block being visited
  changed,        \* has this sweep changed a block
  phase           \* "sweep", "done", or how the pass stopped

vars == <<src, hops, blocks, chunk, shortCircuits, idx, changed, phase>>

NULL == 0
Chunks == 1 .. Len(src) + 1

\* A slip Threaded catches: the test that the jump is the only instruction of
\* its block is missing.
FirstLoopAnyJump(bs) == [i \in 1 .. Len(bs) |-> IF IsJump(LastOf(bs[i])) THEN i ELSE NULL]

\* The first loop of the function: what is recorded for each block.
FirstLoop(bs) == [i \in 1 .. Len(bs) |-> IF IsSingle(bs[i]) THEN i ELSE NULL]

\* The pass is entered.
Start ==
  /\ hops = [i \in 1 .. Len(src) |-> HopsFrom(src, i)]
  /\ blocks = src
  /\ chunk = [i \in 1 .. Len(src) |-> i]
  /\ shortCircuits = FirstLoop(src)
  /\ idx = 1
  /\ changed = FALSE
  /\ phase = "sweep"

Init == src \in Inputs /\ Start
-----------------------------------------------------------------------------
Visiting == phase = "sweep" /\ idx <= Len(blocks)

\* A slip ErrorOnlyOnMissingBlock catches: a table jump taken for a jump.
EndsWithAnyJump == LastOf(blocks[idx]).op \in {"JUMP", "JUMPTABLE"}

\* The visited block ends with a jump to the block labelled TargetLabel.
EndsWithJump == IsJump(LastOf(blocks[idx]))
TargetLabel == LastOf(blocks[idx]).args[1].name
Target == IndexOfBlock(blocks, TargetLabel)

\* The blocks whose last instruction lives in piece c after the visited
\* block's own was freed: at most one, and it is what reading c yields.
LiveOwners(c) == {j \in 1 .. Len(blocks) : j # idx /\ chunk[j] = c}

\* A slip UndefinedOnlyOnEmptyLoop catches: the copy is made before the old jump
\* is freed, so it lives elsewhere and recorded pointers to the old one dangle.
NewChunksCopyFirst ==
  {c \in Chunks \ {chunk[idx]} : LiveOwners(c) = {}}

NewChunks == IF ReuseFirst THEN {chunk[idx]}
             ELSE {c \in Chunks : LiveOwners(c) = {}}

WithLast(b, i) == [b EXCEPT !.instructions[Len(b.instructions)] = i]

\* last isn't a jump, or jumps to a block that does more than jump.
Keep ==
  /\ Visiting
  /\ \/ ~EndsWithJump
     \/ /\ EndsWithJump
        /\ HasBlock(blocks, TargetLabel)
        /\ shortCircuits[Target] = NULL
  /\ idx' = idx + 1
  /\ UNCHANGED <<src, hops, blocks, chunk, shortCircuits, changed, phase>>

\* Free the jump, allocate a copy of what the recorded pointer points to.
Replace ==
  /\ Visiting
  /\ EndsWithJump
  /\ HasBlock(blocks, TargetLabel)
  /\ shortCircuits[Target] # NULL
  /\ \E j \in LiveOwners(shortCircuits[Target]) :
       blocks' = [blocks EXCEPT ![idx] = WithLast(@, Copied(LastOf(blocks[j])))]
  /\ \E c \in NewChunks : chunk' = [chunk EXCEPT ![idx] = c]
  /\ changed' = TRUE
  /\ idx' = idx + 1
  /\ UNCHANGED <<src, hops, shortCircuits, phase>>

\* The recorded pointer points to freed memory: the jump that was just freed,
\* or one freed earlier whose memory nothing uses now.
ReadFreed ==
  /\ Visiting
  /\ EndsWithJump
  /\ HasBlock(blocks, TargetLabel)
  /\ shortCircuits[Target] # NULL
  /\ LiveOwners(shortCircuits[Target]) = {}
  /\ phase' = "undefined"
  /\ UNCHANGED <<src, hops, blocks, chunk, shortCircuits, idx, changed>>

\* indexOfBlock: "given block label doesn't exist".
NoSuchBlock ==
  /\ Visiting
  /\ EndsWithJump
  /\ ~HasBlock(blocks, TargetLabel)
  /\ phase' = "error"
  /\ UNCHANGED <<src, hops, blocks, chunk, shortCircuits, idx, changed>>

\* A slip Saturated catches: one sweep is taken to be enough.
EndSweepOnce ==
  /\ phase = "sweep"
  /\ idx > Len(blocks)
  /\ phase' = "done" /\ changed' = FALSE
  /\ UNCHANGED <<src, hops, blocks, chunk, shortCircuits, idx>>

\* A slip Terminates catches: changed is not reset for the next sweep.
EndSweepNoReset ==
  /\ phase = "sweep"
  /\ idx > Len(blocks)
  /\ IF changed THEN idx' = 1 /\ UNCHANGED phase
                ELSE phase' = "done" /\ UNCHANGED idx
  /\ UNCHANGED <<src, hops, blocks, chunk, shortCircuits, changed>>

EndSweep ==
  /\ phase = "sweep"
  /\ idx > Len(blocks)
  /\ IF changed
     THEN idx' = 1 /\ changed' = FALSE /\ UNCHANGED phase
     ELSE phase' = "done" /\ UNCHANGED <<idx, changed>>
  /\ UNCHANGED <<src, hops, blocks, chunk, shortCircuits>>

Next == Keep \/ Replace \/ ReadFreed \/ NoSuchBlock \/ EndSweep

\* The pass is a loop of one thread: it takes a step whenever it can.
Spec == Init /\ [][Next]_vars /\ WF_vars(Next)
-----------------------------------------------------------------------------
(* Properties *)

\* The type invariant: the pass neither adds nor removes a block, recorded
\* pointers are the ones of the blocks the pass was given, and the pass stops
\* in one of three ways.
TypeOK ==
  /\ hops \in [1 .. Len(src) -> SUBSET (1 .. Len(src))]
  /\ blocks \in Seq(IRBlock) /\ Len(blocks) = Len(src)
  /\ chunk \in [1 .. Len(src) -> Chunks]
  /\ shortCircuits \in [1 .. Len(src) -> {NULL} \cup 1 .. Len(src)]
  /\ idx \in 1 .. Len(src) + 1
  /\ changed \in BOOLEAN
  /\ phase \in {"sweep", "done", "undefined", "error"}

\* An instruction, or a copy that irInstructionCopy made of it.
OrCopy(i) == {i, Copied(i)}

\* Every function is done with, whatever its jumps.
Terminates == <>(phase # "sweep")

\* Rewriting jumps keeps the meaning of the function: at every moment of the
\* pass each block is the block it was but for its last instruction, and that
\* is the last instruction of a block control would have reached from there
\* by jumps alone (the comment above shortCircuitJumps).
Threaded ==
  \A i \in 1 .. Len(src) :
    \E c \in hops[i] : \E last \in OrCopy(LastOf(src[c])) :
      blocks[i] = WithLast(src[i], last)

\* When the pass is done there is nothing left to shorten: no block jumps to a
\* block that is nothing but a jump (the comment "iterate until no more
\* changes happen").
Saturated ==
  phase = "done" =>
    \A i, c \in 1 .. Len(blocks) : ~Hop(blocks, i, c)

\* The pass reads freed memory only for a function with a cycle of blocks that
\* do nothing but jump, which is what "while (true) {}" is translated to.
UndefinedOnlyOnEmptyLoop ==
  phase = "undefined" =>
    \E i \in 1 .. Len(src) : \E c \in hops[i] : IsSingle(src[i]) /\ Hop(src, c, i)

\* A jump to a label no block has is an internal error, never something the
\* pass makes: the function had such a jump before.
ErrorOnlyOnMissingBlock ==
  phase = "error" =>
    \E i \in 1 .. Len(src) :
       /\ IsJump(LastOf(src[i]))
       /\ ~HasBlock(src, LastOf(src[i]).args[1].name)
=============================================================================
