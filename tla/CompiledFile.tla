---------------------------- MODULE CompiledFile ----------------------------
(***************************************************************************)
(* The file being compiled, between two passes of the middle end: what     *)
(* main.c, translateFile and the passes keep of it, how translation        *)
(* appends one function after another to its fragments, and the order the  *)
(* passes run in over its functions.  MiddleEnd and Pipeline are about     *)
(* this state: they differ in what a pass is.                              *)
(***************************************************************************)
EXTENDS IR

CONSTANTS Files,        \* sequences of functions
          Translations, \* what translation makes of each file, function by
                        \* function: its blocks, the operands that were freed,
                        \* and the file's tables and nextId after it
          Deviating     \* for the properties: the functions that do not do what
                        \* the Standard says when they are translated

-----------------------------------------------------------------------------
(* What the passes take for granted of translation. *)

Jumps == {"JUMP", "JUMPTABLE"} \cup TwoTarget \cup OneTarget

\* The arguments of an instruction that are labels it may jump to.
LabelArgs(i) ==
  IF i.op \in TwoTarget THEN {1, 2}
  ELSE IF i.op \in {"JUMP"} \cup OneTarget THEN {1} ELSE {}

\* Labels and temps are numbers that nextId has passed, a table jump's table is
\* one of the file's, and labels stand at the start of blocks only.
IsOfFile(i, tbls, n) ==
  /\ i.op # "LABEL"
  /\ \A a \in DOMAIN i.args : i.args[a].kind = "TEMP" => i.args[a].name \in 0 .. n - 1
  /\ \A a \in LabelArgs(i) : a \in DOMAIN i.args /\ i.args[a].name \in 0 .. n - 1
  /\ i.op = "JUMPTABLE" => 2 \in DOMAIN i.args /\ i.args[2].name \in DOMAIN tbls

\* Control leaves a block at its end only.
IsFunctionOf(bs, tbls, n) ==
  /\ IsBlockList(bs)
  /\ \A b \in DOMAIN bs : \A k \in DOMAIN bs[b].instructions :
       /\ IsOfFile(bs[b].instructions[k], tbls, n)
       /\ bs[b].instructions[k].op \in Jumps => k = Len(bs[b].instructions)

AreTables(tbls, n) ==
  /\ tbls \in [DOMAIN tbls -> Seq(Int)]
  /\ \A t \in DOMAIN tbls : \A k \in DOMAIN tbls[t] : tbls[t][k] \in 0 .. n - 1

\* Functions are translated one by one into the same file: a function stays one
\* of the file's when others have been translated after it.
ASSUME TranslationsAssumption ==
  \A f \in Files :
    /\ Len(f) \in Nat
    /\ \A k \in 1 .. Len(f) :
         LET st == Translations[f][k]
         IN  /\ st.nextId \in Nat
             /\ AreTables(st.tables, st.nextId)
             /\ 0 \notin st.freed
             /\ \A j \in 1 .. k :
                  IsFunctionOf(Translations[f][j].blocks, st.tables, st.nextId)
-----------------------------------------------------------------------------
VARIABLES
  file,    \* the file being compiled (never changes)
  frags,   \* per function translated so far: [blocks, code]
  tables,  \* the file's jump tables
  freed,   \* the file's operand objects that were freed (see IR)
  nextId,  \* the next free label or temp of the file
  pass,    \* the pass that runs
  next     \* the function it runs on next

vars == <<file, frags, tables, freed, nextId, pass, next>>

Init ==
  /\ file \in Files
  /\ frags = << >>
  /\ tables = << >>
  /\ freed = {}
  /\ nextId = 1
  /\ pass = "translate"
  /\ next = 1
-----------------------------------------------------------------------------
\* The function is appended to the file's fragments, what is left of its
\* translation is the file's.
Translated(st) ==
  /\ frags' = Append(frags, [blocks |-> st.blocks, code |-> << >>])
  /\ tables' = st.tables
  /\ freed' = freed \cup st.freed
  /\ nextId' = st.nextId

Translate ==
  /\ pass = "translate" /\ next <= Len(file)
  /\ next' = next + 1
  /\ Translated(Translations[file][next])
  /\ UNCHANGED <<file, pass>>

\* main.c starts a pass when the one before it has seen every function.
After == [translate |-> "shortCircuit", shortCircuit |-> "schedule",
          schedule |-> "deadLabels", deadLabels |-> "done"]
NextPass ==
  /\ pass \in DOMAIN After /\ next > Len(file)
  /\ pass' = After[pass]
  /\ next' = 1
  /\ UNCHANGED <<file, frags, tables, freed, nextId>>
-----------------------------------------------------------------------------
(* Properties *)

\* Functions fs were translated to the blocks bss, in a file with these tables.
\* Labels are unique in the file although its functions are translated one by
\* one, and below nextId, the size of the arrays the passes mark them in.
LabelsUnique(bss, tbls, n) ==
  /\ \A k1, k2 \in DOMAIN bss :
       \A i \in DOMAIN bss[k1] : \A j \in DOMAIN bss[k2] :
         bss[k1][i].label = bss[k2][j].label => k1 = k2 /\ i = j
  /\ \A k \in DOMAIN bss :
       LabelsOf(bss[k]) \subseteq 0 .. n - 1 /\ LabelsOf(bss[k]) \cap DOMAIN tbls = {}

\* Every label of every table is a block of one of the file's functions.
TablesResolved(bss, tbls) ==
  \A t \in DOMAIN tbls :
    ElementsOf(tbls[t]) \subseteq UNION {LabelsOf(bss[k]) : k \in DOMAIN bss}

\* The labels an instruction may jump to, before and after scheduling.
MayJumpTo(i, tbls) ==
  IF i.op \in OneTarget THEN {i.args[1].name} ELSE ElementsOf(JumpTargets(i, tbls))

BlocksResolved(bs, tbls) ==
  \A b \in DOMAIN bs : MayJumpTo(LastOf(bs[b]), tbls) \subseteq LabelsOf(bs)

\* ... and in scheduled code, where each label stands once.
PlacesOf(c, l) == {p \in DOMAIN c : c[p].op = "LABEL" /\ c[p].args[1].name = l}
CodeResolved(c, tbls) ==
  \A p \in DOMAIN c : \A l \in MayJumpTo(c[p], tbls) : \E q \in DOMAIN c : PlacesOf(c, l) = {q}

FileResolved(fs, bss, tbls, n) ==
  /\ LabelsUnique(bss, tbls, n)
  /\ TablesResolved(bss, tbls)
  /\ \A k \in DOMAIN bss : fs[k] \notin Deviating => BlocksResolved(bss[k], tbls)

\* Translation leaves every file like that, after each of its functions.
TranslationsResolved ==
  \A f \in Files : \A k \in 1 .. Len(f) :
    FileResolved(f, [j \in 1 .. k |-> Translations[f][j].blocks],
                 Translations[f][k].tables, Translations[f][k].nextId)

\* Every label control may jump to is one place of the same function, from
\* translation on, whichever passes have run on it and on the others: this is
\* what markReachable dereferences without a test (optimization.c:112), and what
\* the assembler is given.  And the tables of a file outlive its passes.
TargetsExist ==
  /\ FileResolved(file, [k \in DOMAIN frags |-> frags[k].blocks], tables, nextId)
  /\ \A k \in DOMAIN frags :
       file[k] \notin Deviating => CodeResolved(frags[k].code, tables)
=============================================================================
