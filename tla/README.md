# A model of the T compiler

This directory specifies and verifies part of `tlc`, the reference compiler of
the T language (C, about 36,000 lines under `src/src/main`). Paths below are
relative to `src/`. Modelled are the reading of function bodies, the values of
enumerations, translation to blocks and the passes that optimize and schedule
them, validation of the intermediate representation, the calling convention and
instruction selection.

Everything in the compiler runs in one thread, file after file. What is hard
here is not interleaving but *ownership and order*: passes that mutate linked
lists while indexing arrays by old positions, pointers recorded before the
memory they point to is freed, rounds that repeat until nothing changes, control
flow spread over labels whose meaning depends on the order blocks are emitted
in, two walks over one argument list that must count alike, error paths that
close what they opened, and cascades of hundreds of cases nobody has a test for.

## 1. The system

### Components, their state and their operations

| component | source | state | operations |
|---|---|---|---|
| driver | `src/main/main.c`, `options.c`, `fileList.c` | options, list of files, error flag | parse arguments, run the phases in order, exit codes |
| lexer | `src/main/lexer` | per file: text, position, line, one token pushed back | `lex`, `unLex` |
| parser | `src/main/parser` | AST per file, symbol tables, error flags | `parse()`: eight passes over all files |
| function bodies | `parser/functionBody.c` | token vector, cursor, stack of scopes | one function per statement, declaration and expression form; four panic functions |
| symbol tables | `src/main/ast/symbolTable.c`, `environment.c`, `parser/buildStab.c` | scopes, imports, implicit imports | look up, enter and leave scopes, start and finish tables, `buildTopLevelEnumStab` |
| types, AST | `src/main/ast` | trees | conversions, merges, sizes |
| typechecker | `src/main/typechecker` | types written into the AST, `escapes` flags | one pass per file |
| translation | `src/main/translation/translation.c` | per file: `irFrags` (blocks and data), `nextId` | one function per statement and expression form; four for expressions (value, effect, condition, place) |
| intermediate representation | `src/main/ir` | operands, instructions, blocks, fragments | constructors, copies, frees, lookups |
| IR validation | `src/main/ir/ir.c`, `arch/x86_64-linux/irValidation.c` | per function: what is known of each temporary; a table of labels | `validateBlockedIr`, `validateScheduledIr` |
| optimization | `src/main/optimization/optimization.c` | the block list or instruction list of a function | `shortCircuitJumps`, `deadBlockElimination`, `deadTempElimination`, `deadLabelElimination` |
| trace scheduling | `src/main/translation/traceSchedule.c` | blocks not yet emitted, instructions emitted | `scheduleBlock` (recursive) |
| calling convention | `arch/x86_64-linux/abi.c` | counters of registers and stack bytes, during one call | entry, exit and call sequences |
| instruction selection | `arch/x86_64-linux/asm.c` | the instructions so far, `nextId` | `x86_64LinuxGenerateTextAsm`, one cascade per IR operator |
| containers | `src/main/util/container` | hash map and set, vector, linked list, string builder | insert, look up, grow |
| numbers | `src/main/util/conversions.c`, `numericSizing.c`, `container/bigInteger.c` | digits | parse and convert literals |

Components talk by calls and by the global `fileList`: a phase leaves its result
in a file's entry (`ast`, `irFrags`, `nextId`) and the next phase reads it there.
Middle-end phases are, in `main.c` (lines 140-217): `translate`, freeing of the
ASTs, `optimizeBlockedIr`, `traceSchedule`, `optimizeScheduledIr`, `backend`;
each loops over the files and over the functions of a file, and with
`--debug-validate-ir` a validator runs in between.

### What is hard, and what makes each part correct

* **function bodies**: hand-written recursive descent with recovery, where a
  parser frees what it has built on each of its error paths. Correct: a body
  accepted is the body written; recovery gets on and closes its scopes; nothing
  undefined happens; a file with a statement given up is marked.
* **enumerations**: values depend on one another across files and are found in
  rounds. Correct: each value is the one declared, the rounds end, sign and
  backing type fit all constants of an enumeration.
* **translation**: labels for `break`, `continue`, `return` and "what comes
  next" are passed down by number, operands are handed out by pointer. Correct:
  a function makes the same calls with the same results, in the order the
  Standard says; every label jumped to is a block; labels are unique in a file;
  an operand has one owner.
* **shortCircuitJumps**: rewrites jumps while other jumps were rewritten before,
  with pointers recorded at the start. Correct: control goes where it went,
  nothing is left to shorten, no freed memory is read, it ends.
* **deadBlockElimination**: reachability by recursion over three kinds of
  terminators and the file's jump tables; unlinks while indexing by old
  positions. Correct: what is left is closed under jumps, nothing else is left.
* **deadTempElimination**: rounds of marking and removing. Correct: no temp
  that is read loses a write, rounds end with nothing left to remove.
* **traceSchedule**: replaces jumps by position. Correct: every block control
  reaches is emitted once, and falling through leads where the jump led.
* **deadLabelElimination**: correct when no label that is jumped to goes.
* **all of them together**: the function does what its source does.
* **IR validation**: correct when what it accepts is what the passes and the
  selector can take.
* **calling convention**: caller and callee count separately. Correct: every
  argument and the result arrive, the stack is given back, aligned.
* **hash map**: a search follows a sequence of slots that depends on the string
  and the capacity, and growth moves entries one by one through `hashMapSet`,
  which may itself grow. Correct: it is a map, and every call returns.
* **instruction selection**: correct when the code does what the instruction
  means and lists every register it reads and writes.

`PROJECT.json` lists the hazards line by line with the properties that cover them.

## 2. The modules

| module | models | remarks |
|---|---|---|
| `Expressions`, `Statements` | the parsers of `functionBody.c`, with `next`, `prev` and the panic functions; scopes of `environment.c`, `nodeToType` of `ast.c` | the parser as a record, one operator per parser; undefined behaviour is an outcome |
| `Derivation` | Appendix B of the Standard, its table of precedences | the tokens a tree is written with; the reference for parsing |
| `FunctionBody` | `parseFunctionBody`, `parseFuncBody` of `topLevel.c` | a step per statement of the outermost block |
| `EnumStab` | `buildTopLevelEnumStab` of `buildStab.c`, limits of `numericSizing.c` | a step per constant and loop |
| `IR` | `ir/ir.h`, `ir/shorthand.c`, lookups of `ir/ir.c` | operands, instructions, blocks as values; `obj` names operand objects that may have two holders |
| `Translate` | expressions of `translation.c` | the four translators threaded through a state `[blocks, tables, nextId, freed, ...]` |
| `TranslateStmt` | statements and functions of `translation.c` | switch dispatch with sorted values, runs and singletons |
| `Semantics` | the Standard's statements and expressions, and the instructions of `ir.h` | two interpreters; the reference translation is compared with |
| `ShortCircuitJumps`, `DeadBlocks`, `DeadTemps`, `TraceSchedule`, `DeadLabels` | one pass each | the loops, recursions and cursors of the code, one action per branch |
| `Passes` | the same passes | what each computes, as a definition without loops |
| `CompiledFile` | a file between two passes: `fileList`, `translateFile`, the order of `main.c` | state of `MiddleEnd` and `Pipeline`; what the passes take for granted of translation (`TranslationsAssumption`); `TargetsExist` |
| `MiddleEnd` | the passes over the functions of a file | one step per pass and function, built from `Passes` |
| `Pipeline` | the same | every pass is its detailed module; implements `MiddleEnd` |
| `Operands` | operands of `ir.h` with size and allocation hint; predicates of `asm.c` | a constant is its bytes |
| `Validate` | the validators of `ir.c`, `irValidation.c` | per operator the list of checks, in order |
| `Validation` | a list of instructions validated one by one | compared with `ir.h` and the selector |
| `CallingConvention` | `abi.c`; sizes, alignment, layout and allocation of `type.c` | classification, entry, exit and call as sequences of IR |
| `Select` | `x86_64LinuxGenerateTextAsm` | one definition per arm; arms written alike share an operator |
| `Machine` | external: the processor and the assembler | words; which instructions exist and what they do |
| `Selection` | one IR instruction, selected and run | a step per machine instruction |
| `Calls` | one call from caller to callee and back | a step per IR instruction |
| `StringMap` | `hashMap.h` | the map promised |
| `HashMap` | `hashMap.c` | implements `StringMap`; a string is its two hashes; a step per call made on the table |
| `Programs` | - | families of small source functions for the runs |
| `MC*` | - | instances for TLC |
| `ShortCircuitJumpsProofs`, `DeadBlocksProofs`, `DeadTempsProofs`, `TraceScheduleProofs` | - | theorems about four of the passes; those of `DeadBlocksProofs` begin with lemmas about lists that the others cite |
| `PipelineProofs` | - | theorems about dead label elimination, and about all passes in a file |
| `FrontEndProofs` | - | theorems about enumerations and the hash map |
| `BackendProofs` | - | theorems about the validator, the selector on what it accepts, and the assembler on what is selected |
| `AllocatorProofs` | - | the theorem about what selected code tells the register allocator |

How state corresponds to code:

* `frags[k].blocks` and `.code` are the two states of `IRFrag.data.text.blocks`;
  `tables` are the read-only fragments a `switch` makes; `nextId` is the file's
  counter (1 at first, `fileList.c:36`). Labels and temps are numbers from it.
* In the middle end an instruction is its operator and operands, without sizes
  and allocation hints: no pass modelled branches on them. The backend modules
  (`Operands` and those that extend it) have both.
* Memory is modelled where freeing can go wrong. In `ShortCircuitJumps` every
  last instruction lives in a "chunk"; a recorded pointer reads whatever lives
  there now. In the other passes an operand object that may have two holders has
  a name, `freed` has the names freed, and a pass that uses a freed one goes to
  `phase = "undefined"`. A null pointer is `"crash"`, an internal error `"error"`.
* The recursion of `markReachable` and `scheduleBlock` is a stack of the calls
  still to be made, in order, including the freeing at the end of a call.
* Translation of one function is one step of `MiddleEnd`, a function of the
  syntax tree: it reads nothing that another step could change.
* A parser state is `[tokens, curr, node, at, errored, said, given, scopes]`:
  `curr` is the cursor of the unparsed node, `node` and `at` what the last parser
  returned (a node, NULL, or something undefined), `errored` the file's flag,
  `said` whether anything was printed. A parser is an operator from state to
  state; `next` followed by `prev` leaves the state as it was.
* In `EnumStab` the constants of all enumerations stand in one list, as in
  `enumConstants`; `dependency`, `processed` are the vectors of that name, `at`
  the index of the loop that runs.
* In `HashMap` the last of `tables` is the struct's `keys`, `values`, `capacity`
  and `size`; each one before it is `oldKeys` and `oldValues` of a call that is
  moving entries, with its `idx` as `at`. A call inside it is a `set` of the entry
  at `at`; when `at` reaches the end the arrays are freed and the call is tried
  again, as the recursion at the end of `hashMapPut` and `hashMapSet` does. The
  type has no operation that takes a string out, and no caller stores NULL.
* A machine state is `[regs, mem]`. A temporary in a register is a register of
  its own and one in memory a place of its own, since the source has no register
  allocation; `defs` and `uses` of an instruction are the lists an allocator
  would have to go by, and are checked as such.

Abstractions in `Translate`: all jumps built have local targets; offsets of
loads and stores are the constant 0; the types are one-byte ints, booleans and
pointers; aggregates (`.`, `->`, `[]`), string literals, globals, and casts
between types of different sizes are left out.

Abstractions in `Expressions`: tokens that every parser treats alike share a spelling
(`int` for the keyword types recovery stops at, `byte` for the one it misses,
`1` for integer and character literals); no module is imported, so a name is
found in the scopes, or through its enumeration. The parser model was compared
with the compiled parser on 17,318 bodies (those of `MCFunctionBody`): outcome,
flag and tree agreed on all of them.

## 3. What is checked

Every run but `HashMap` turns deadlock checking off, because the compiler ends;
a hash map can always be asked again.

**`MiddleEnd`** asks whether compiled functions mean what their source means.
Files of one or two functions go through every pass; after each state,
`BlockedMeaningKept` (before dead temps are removed) and `FinalMeaningKept`
(after it) run source and code against every oracle, an oracle being what the
calls return: three booleans, two switch values from 0 to 3, or two ints of
{-2, 0, 1, 3, 127}. Compared are the calls, their order, the value returned and
divergence. `MCTranslationsResolved`, evaluated at the start, says that every file
is translated to what the theorem about jump targets starts from.

**`Pipeline`** asks whether the passes' loops compute what `Passes` says
(`Implements`, the step simulation of `MiddleEnd`), whether they end
(`Terminates`), and whether their own invariants hold on everything the
translation produces, with functions whose jumps have no target and blocks
control does not reach among the inputs: `RemovedNeverRead` for dead temps (no
removed definition is read, and in the end every one left is);
`TargetsKept` for scheduling and labels (every block is emitted once, every
target is scheduled, a false target follows, and the labels left are those
named); `UndefinedOnlyIfShared`: no pass uses an operand it freed itself. `InputsOK` says
each pass is given what it takes for granted. `TargetsExist` relates labels,
blocks, tables and code of the whole file, between any two passes: labels are
unique and below `nextId`, tables list blocks, each label control may jump to is a
block of the same function and, once scheduled, stands in its code exactly once.
`Deviating` are the functions of which the last does not hold: those with a
switch that jumps to a default it has no block for. All of these but `Implements`
and `Terminates` are theorems; the run shows that they hold of what translation
makes, and for the files here also what the theorems assume of it.

**`ShortCircuitJumps`** checks the first pass alone on every function of three
blocks (busy or not; each ended by a jump to one of them or to nowhere, a
conditional jump, a table jump or a return) and on every tangle of four blocks
that only jump: 4,721 functions. It checks what is proved, on inputs of the kind
the theorems are about, and that the pass ends.

**`DeadBlocks`** does the same for the second pass, on functions of three blocks
with every kind of last instruction, a table that lists labels of the function
or of another one, and an operand that two instructions hold (4,116 functions):
`UnlinkingInStep` (cursor and index of the list that shrinks), `KeptClosed` and
`DataKept` (no live block is lost), `MarkedForAReason` (no dead one is kept),
`CrashOnlyOnDanglingJump`.

**`Selection`** takes every move, memory and translated arithmetic instruction
with operands of every class and size in every place, and aliased operands in
arithmetic: 3,192 instructions. The code selected is run a machine instruction
at a time. `CodeMeansInstruction` compares what it did with what `ir.h` says,
byte for byte, and that nothing else changed but the registers listed as
defined; `AssemblerAccepts` says the code is one the processor has (a theorem for
operands of all sizes; the run shows that every exception it names is met);
`AllocatorTold` (`ReadsListed`, `WritesListed` and `MovesCopy`) is about the lists
a register allocator would go by.

**`Calls`** runs calls with two arguments of every pair of nine types, and of
every pair of twelve kinds (constants and variables that escape among them)
alone and behind arguments that fill the registers of either kind, with six
types of results. `ArgumentsArrive` and `ResultArrives` compare what the callee and the
caller find with what was put there; `StackKept` says the stack is aligned at
the call, given back, and written only where it may be; `CallsAccepted` that the
IR is valid and selected to code.

**`Validation`** gives lists of instructions to the validator: one instruction of
any operator with any operands, after nothing or after some temporaries were
defined, and then a use; or a chain of three copies of whole temporaries and of
parts of them, and then a use (282,000 states). `ReadsDefined`, `LabelsResolved` and
`AcceptedSelected` say what being accepted is worth, to the passes and to the
selector. All three are theorems; the run shows the exceptions they name are met.

**`FunctionBody`** parses 17,318 bodies: each of 36 statements, alone and before
every other that declares nothing, and each with one token removed, replaced by
or preceded by one of 23 others, or cut off. `GrammarAccepted`: what the grammar
has is accepted. `ReadAsWritten`: what is accepted is the text, grouped as the
table of precedences says. `UndefinedOnlyInRecovery`, `ScopesRestored` and
`GetsOn` are about recovery.

**`EnumStab`** takes every list of up to three constants, divided into
enumerations in every way, each without initializer, with a literal around each
limit, with the name of any constant or of none. `ValuesDeclared` and
`BackingHolds` say what the values and types are, `RefusedForReason` which lists
are refused, `Ends` that the rounds end if no constant depends on itself.

**`HashMap`** makes calls of `put`, `set` and `get` without end for three strings,
over every way their hashes may be {0, 1} and {1, 2, 4}, in a table of two slots
at first (82,000 states). `Implements`: it is the map of `hashMap.h`, and growth
changes nothing in it. `Answered`: every call returns, so growth comes to an end.
The invariants of the tables themselves, while entries move, are theorems.

### Disagreements

Two runs check one property each, stating what the Standard or a comment of
the code says, and TLC finds it violated:

| run | property | what happens |
|---|---|---|
| `LogicalValue` | `LogicalOperatorsStandard` | the value of `a && b` is computed as `a \|\| b` (`translation.c:2720`) |
| `DropsRecorded` | `DropsRecorded` | `T(a, E) x, A;`, where `a` is a variable: the complaint that `a` is not a type is printed, the statement is given up and `x` and `A` are not declared, but the file is not marked (`ast.c:1124`, `functionBody.c:2685`) |

The same complaint leaves the file unmarked where the name is behind a `*`, but
then the statement is kept: `nodeToType` returns a pointer to no type
(`ast.c:1034`), so `typedef a * x;` declares `x`. The models do as the code does,
and no property is about it.

Other deviations are part of the models, and the properties of the passing runs
name them, so that there are no more of the kind:

* `MiddleEnd` (`Deviating`, and what `FinalMeaningKept` leaves aside): a switch
  keeps the index of its default instead of its label (`translation.c:3621`);
  `|` and `^` are swapped in the table of translators (1779); orderings for
  their value are unsigned (1722); `x += e` loads `x` after `e` was evaluated
  (2659); an assignment used for its value hands one operand to two instructions
  (2274); dead temp elimination does not mark what `ADDROF` and `JUMPTABLE` read
  (`optimization.c:231`); a jump to a block that is scheduled already is dropped,
  so that loops do not loop (`traceSchedule.c:163`).
* `ShortCircuitJumps`: a cycle of blocks that only jump makes the pass copy the
  jump it has just freed (`optimization.c:89`).
* `Selection` (`Wrong`, `Unencodable`, and the exceptions of `ReadsListed` and
  `MovesCopy`): `d = x op d` overwrites `d` first; eight bytes times a constant
  squares the constant; products and exclusive ors to memory are not computed; a
  floating point store to a constant stack offset is dropped; eight-byte
  constants wider than an immediate, missing newlines and operands.
* `Calls` (`Lost`, `Unassembled`): an argument in `rdi`, `rsi` or `rcx` is
  overwritten when another one is copied; floating point arguments on the stack
  are dropped; variables of 1, 2, 4, 8 or 16 bytes in memory cannot be passed on
  the stack.
* `Validation` (`Assumed`, `Unselected`): an instruction may read its own
  destination; a part loaded from a temporary counts as writing it; the check
  for memory storage tests for floating point.
* `FunctionBody`: `sizeof` of a name always reads through a null pointer
  (`functionBody.c:1117`), `&&` and `||` group from right to left
  (`functionBody.c:1689`; `Standard.tex:563` has it the other way round, the
  value is the same), and recovery may use freed nodes (2306, 2419, 2882) or run
  past the end of the file.

* `EnumStab` (`Ends` leaves aside): the search for circular dependencies
  (`parser.c:48-49`) follows the dependency of the constant it started from
  instead of the one it has reached (`buildStab.c:697`). It sees a constant that
  depends on itself and no longer circle, so that two constants that depend on
  each other hang the compiler, as the theorem `CircularNeverValued` says.

### Bounds, and why they are enough

* Functions of the middle end have at most three variables, two levels of
  nesting and two cases per switch, so up to about 25 blocks. This gives every
  terminator, every statement inside every loop, jumps forward and back, code
  after `return`, values on their own and in runs, and two functions sharing one
  `nextId`. The passes look at a block, its targets and the list around it, and
  never at deeper structure.
* An int has 8 bits there (`IntWidth`); oracles include values whose sums wrap.
  In the backend values are their bytes, at full width.
* `LoopFuel` (10 iterations) and `StepFuel` (400 instructions) bound an
  observation. Oracles are two or three calls long and every loop that goes on
  makes calls or is the loop that does nothing, so fuel runs out only where the
  source diverges.
* `ReuseFirst = TRUE`: `malloc` returns the piece freed last when the next
  request has the same size, as glibc's thread cache does for the free and the
  allocation that follow each other in `shortCircuitJumps` (lines 89-91).
  Without it C promises nothing, and a recorded pointer may be stale after any
  rewrite.
* Sizes of operands are 1, 2, 4, 8 in registers and 1, 4, 8, 12, 16, 24 in
  memory: every arm of the selector is entered, since it distinguishes the
  sizes one `mov` carries, 16, and others, and the unit of a string move. What the
  assembler accepts is a theorem for any sizes.
* Calls have up to nine arguments, more than either kind of registers.
* Parsed bodies have one error: parsers return at their first error and the
  panic functions keep no memory of it, so a second one starts from the state
  the first left, which `ScopesRestored` and `GetsOn` describe.
* Three constants give cycles of every length up to three, chains forward and
  back, and enumerations beside each other. The limits 1, 3, 7, 15 stand for
  those of `byte`, `short`, `int` and `long`; what is computed with them only
  compares and adds one, and the theorems hold for all limits.

* Three strings are one more than the first table has slots. A second hash of 2
  or 4 comes back to its start at once at capacity 2, or 2 and 4, so that tables
  grow when they are nearly empty and while they grow (three tables deep); at
  capacity 8 every one visits two slots or more. A second hash of 0 is left out: it
  gives a string the same single slot at every capacity, and if two others could
  hold that slot in turn growth would go on for ever; it takes a string with
  `djb2add` of 2^64 - 1. The theorems do not leave it out.

### Fairness

The compiler is one thread and waits for nothing, so the specifications have
weak fairness of their whole next-state relation and nothing else: it takes a
step whenever one is possible. `Terminates` and `Ends` rest on it. In `HashMap` it
is fairness of `Work`, the steps inside a call: a call that was made goes on, but
nobody has to make one. `Answered` rests on that.

## 4. What is proved

`ShortCircuitJumpsProofs`, about `ShortCircuitJumps` with any set of inputs, any
number of blocks of any length and any labels. The hypotheses are `InputsOK`
(every input is a non-empty list of blocks with distinct labels, each ended by
a terminator; the theorem `PassesGivenInputs` below says when that is so) and
`ReuseFirst`.

| theorem | says always |
|---|---|
| `TypeCorrect` | `TypeOK` |
| `ThreadedAlways` | `Threaded`: a block is the block it was, with the last instruction of a block reached by jumps alone |
| `SaturatedWhenDone` | `Saturated`: nothing is left to shorten when the pass is done |
| `FreedOnlyOnEmptyLoop` | `UndefinedOnlyOnEmptyLoop` |
| `ErrorMeansMissingBlock` | `ErrorOnlyOnMissingBlock` |

The inductive invariant `IInv` has four parts. `Fixed`: pointers recorded and
chunks are what they were at the start; this is where `ReuseFirst` is used, and
without it no other part survives a rewrite. `Shape`: `Threaded`, with the number
of blocks; from it follows which blocks are single jumps now, since rewriting
keeps lengths. `SweptSoFar`: a sweep that has changed nothing yet left no hop in
the blocks it visited; this is what `Saturated` needs and a finished sweep alone
does not say. `Stopped`: how each of the three ends was reached.
`Threaded` survives `Replace` because hops are closed under composition
(`HopsTransitive`): the least closed set of a block's target lies in the
block's own. `FreedOnlyOnEmptyLoop` follows because a pointer whose chunk has
no other owner is the visited block's own, so the block is a single jump to
itself after some hops. The invariants were run by TLC before they were proved.

`DeadBlocksProofs`, about `DeadBlocks` with any set of inputs, from `InputsOK`
alone (as above, and every table jump has its table):

| theorem | says always |
|---|---|
| `TypeCorrect` | `TypeOK` |
| `JumpsKept` | `KeptClosed`: the targets of a kept block are kept |
| `TableTargetsKept` | `DataKept`: so are the labels tables list |
| `CursorsTogether` | `UnlinkingInStep` |
| `MarksJustified` | `MarkedForAReason` |
| `NullOnlyForDangling` | `CrashOnlyOnDanglingJump` |
| `FreedOnce` | `UndefinedOnlyIfShared`: freed operands are used only where two instructions hold one, or one was freed before |

The recursion of `markReachable` is a stack in the state, and the invariant says
what holds between two calls. `Pending`: whatever has to be marked is marked, or
a call for it waits on the stack (`KeptClosed` is what is left of that when the
stack is empty). `Justified`: no call waits without a reason; this is what makes
a null pointer a jump of the function's. `Cursor`: the list is the marked blocks
behind the cursor followed by the blocks still to be looked at, so position
`curr` of the list is position `idx` of the function as given, before and after
a block is unlinked. For `FreedOnce` it adds that every operand freed was freed
before the pass or is one of a block that is behind the cursor and not in the list
(`FreedIInv`), and that a block is one position of the function (`Distinct`).

`DeadTempsProofs`, about `DeadTemps` with any set of inputs, from `InputsOK` (a
list of blocks, and every temp it names is below `nextId`):

| theorem | says always |
|---|---|
| `TypeCorrect` | `TypeOK`: the marks stay inside the array |
| `RemovedNeverReadAlways` | `RemovedNeverRead`: a temp that lost a definition is read by nothing that is marked |
| `SaturatedWhenDone` | `Saturated`: no definition nothing reads is left |
| `LeavesTheLargest` | `NeededKept` and `LargestLeft`: a set of instructions that reads what it writes stays whole, and the largest such set is what is left |
| `FreedUnused` | `UndefinedOnlyIfShared`, over all rounds |

The set `Used` of temps read by what is left only shrinks, over all rounds. The
invariant relates the marks to it: below `Used` while a round marks, equal to it
while a round sweeps and has removed nothing, above it after that. So what is
removed is outside `Used` then and for good (`Lost`), and a round that removed
nothing looked at every definition with exactly the marks of the end (`Swept`).
For `LeavesTheLargest`: a set of instructions that needs itself reads only temps in
`Used` as long as it is whole, so a round that sweeps finds all its writes marked. TLC
agrees on 211644 states of functions of three instructions; the run of `Pipeline` has
too many instructions for all their subsets.

`TraceScheduleProofs`, about `TraceSchedule` with any set of inputs, from
`InputsOK` (`IsFunction`, and no block has labels among its instructions):

| theorem | says always |
|---|---|
| `TypeCorrect` | `TypeOK` |
| `EmittedOnceAlways` | `EmittedOnce`: a block is in the list or once in the output, whole |
| `TargetsAlwaysScheduled` | `TargetsScheduled`: the entry comes first, and what an emitted block leads to is emitted |
| `FalseTargetsFollow` | `FalseTargetFollows`: behind a fallthrough jump is its false target or a jump there |
| `FreedUnused` | `UndefinedOnlyIfShared`, although a block is freed after the recursions that emit others |

The calls of `scheduleBlock` that wait are a list in the state. `Placed`: each
block is in the list of blocks, or its code stands at the one place of its
label. `Pending`: where an emitted block leads was emitted, or a call for it
waits. `Falls`: behind each conditional jump stands what it falls into, or the
output ends there and the call that will put it there is the next one; that no
such call waits further back is what makes the order of the two calls right.
`JumpKept`, the same for plain jumps, does not hold (see "Disagreements").

`PipelineProofs`, first about `DeadLabels`, from `InputsOK` (no instruction or table
names a label that is not below `nextId`):

| theorem | says always |
|---|---|
| `DeadLabelsTypeCorrect` | `TypeOK`: the marks stay inside the array |
| `NamedLabelsKept` | `TargetsKept`: a label an instruction or a table names is never unlinked |
| `OtherLabelsRemoved` | `OthersRemoved`: when the pass is done no other label is left |

and then about `Pipeline`, for files of any number of functions of any size, each
through every pass in the order of `main.c`:

| theorem | says always |
|---|---|
| `TypeCorrect` | `TypeOK`, of the file and of whichever pass runs |
| `PassesGivenInputs` | `InputsOK`: each pass is given what the theorems above assume |
| `FreedOnlyIfShared` | `UndefinedOnlyIfShared`, from pass to pass |
| `RemovedNeverReadInFile` | `RemovedNeverRead`, whatever the passes before changed |
| `TargetsKeptInFile` | `TargetsKept`: the schedule and the labels left |
| `TargetsExistInFile` | `TargetsExist`: no pass leaves control or a table a label without a place |

What is assumed is about translation, not about the passes, and is named in
`CompiledFile`. `TranslationsAssumption`: after each function all functions so far
are lists of blocks with labels of their own, each ended by a terminator and with
no other jump; the temps and labels they name are below `nextId`, their table jumps
have tables, operand 0 was not freed. TLC evaluates it in every run of `Pipeline`
and `MiddleEnd`. `TranslationsResolved`, for the last theorem only: what
`TargetsExist` says holds when translation is done; TLC checks it in the states of
the `Pipeline` run in which a function was just translated, and of the files of
`MiddleEnd` at the start. `ReuseFirst` is that of `ShortCircuitJumps`.

`PipelineInv` has three parts. `FileOK`: between passes every function is still
what `TranslationsAssumption` says of one. It holds because each pass leaves such
a function, which is a lemma about each (`ShortCircuitLeft`, `DeadTempsLeft`,
`LeftFacts` of `DeadBlocksProofs`, `MadeOfFile`), proved from that pass's inductive
invariant: this is why those say more than the passes' own properties need.
`CallOK`: a pass at work was given a function of the file as it is. `RunOK`: the
pass keeps its own inductive invariant. So every theorem about a pass holds in a
file, and its hypothesis is a theorem. `TargetsInv` adds `TargetsExist`, that
nothing was scheduled while translation still adds tables, and what dead label
elimination leaves (`LabelsLeft`: the code is the old one with places left out, so
that a label that stood once does not stand twice). The two facts that carry
`TargetsExist` over scheduling are that every instruction of the output was made of
a block that is emitted (`MadeOnly`) and that what such a block leads to is
emitted once (`Pending`, `Placed`).

`FrontEndProofs`, first about `EnumStab` with any declarations
and any limits that grow from `byte` to `long`:

| theorem | says always |
|---|---|
| `TypeCorrect` | `TypeOK`: no value leaves the widest integer types |
| `ValuesFollowed` | `ValuesFollow`: a value is the literal's, that of the constant named, or its predecessor's and one |
| `ValuesStayFinal` | `ValuesFinal`: no later step changes it |
| `ValuesAlwaysDeclared` | `ValuesDeclared`: a constant with a value is on no circle, and has what its chain of dependencies comes to |
| `RefusedOnlyForReason` | `RefusedForReason`: refused are exactly the declarations with a flaw, of those the rounds end for |
| `BackingAlwaysHolds` | `BackingHolds`: the type chosen for an enumeration holds all its values, and no smaller one does |
| `CircularNeverValued` | constants that depend on one another in a circle have no value |

The invariant joins `ValuesFollow` with `DependenciesFound` (the vector of
dependencies is what the declarations say, once it is built): a constant that
gets its value is none that others took theirs from, since those had theirs. The
change of sign alters nothing because an enumeration that becomes signed has no
value beyond `LongMax`. For `BackingHolds` the invariant says when signs may be
trusted: as values are given a constant's sign is that of its value; behind the
loop that unifies them each enumeration has one, and is signed only if it has a
negative constant, which is why an unsigned type that holds its values cannot be
smaller. For
`ValuesDeclared`, the chain of a constant is the least set closed under what its
members depend on, and a constant is grounded if no member's chain holds itself;
what a grounded chain comes to is one literal and the steps from it, so that a
constant given its value adds one step to the chain of the one it is taken from
(`ChainGoesOn`, `DeclaredNext`) and no recursion over chains is needed.
`RefusedForReason` joins that with `Refusals` (an error seen so far is a value that
fits nowhere or an enumeration no type holds) and, for the converse,
`AcceptedRepresentable`. `CircularNeverValued` says what becomes of the circles the search
does not see, of whatever length: the rounds never end.

`FrontEndProofs`, then about `HashMap` with any strings and values, any hashes of them
(equal ones, and a second hash of 0, included) and any first capacity:

| theorem | says always |
|---|---|
| `MapTypeCorrect` | `MapTypeOK`: a slot in use has a value |
| `HeldOnceAlways` | `HeldOnce`: a string is in one slot of one table |
| `AlwaysFoundWhereItIs` | `FoundWhereItIs`: its search stops there |
| `ImplementsMap` | `Implements`: the map of `hashMap.h`, every step one of its steps or unseen |
| `AlwaysSizeCounts` | `SizeCounts` |

The inductive invariant is `MapTypeOK /\ HeldOnce /\ FoundWhereItIs`. A search that
ends at a free slot, or back at its start, proves the string absent only if every
string is found where it is (`Missing`), and filling a free slot cuts no other
search short because no search goes past a free slot (`Filled`). In growth the
entries are those of all tables, from the index each loop has reached: a move
takes one place away and adds one with the same string and value (`MoveKeeps`),
so the contents stay. That the string which made the
table grow is nowhere is the second half of `HeldOnce`; it is the comment "since
we know the element doesn't exist" (`hashMap.c:95`).

`BackendProofs`, first about `Validation` with any listings of any length, any labels,
temporaries of any size, alignment and name, registers and constants of any size.
The hypothesis is `ListingsAssumption`: an instruction has as many operands as its
operator takes, each of a kind of `ir.h`; `irInstructionCreate` and the constructors
of `shorthand.c` make no others.

| theorem | says always |
|---|---|
| `ReadsAlwaysDefined` | `ReadsDefined`: what is accepted reads only what was given a value, in the size, alignment and storage it was given; and a use of what was given one is accepted |
| `LabelsAlwaysResolved` | `LabelsResolved`: what is accepted names labels that exist |
| `AcceptedAlwaysSelected` | `AcceptedSelected`: the selector has an arm for the moves, addresses and calls that are accepted, and stops the compiler for exactly the ones of `Unselected` |

The invariant `VInv` adds to the three what the table of temporaries holds: every
entry is an argument that a validated instruction recorded, under its own name;
and while nothing was refused, every temporary that was written has an entry it
agrees with, aligned as the architecture allows. The first half makes an accepted
read one of something recorded, the second is what makes the validator accept a
use of it. Neither is seen in one call: the check for writing records its
argument before anything looks at it, and records the first argument whichever
one it was asked about (`ir.c:842`). `Covered` goes through the operators: the
checks of each look at every argument `ir.h` says is read, record those that are
written (and what `OFFSET_LOAD` loads from), and look at every label except for
those `LabelsResolved` names. `PassesFacts` says what one check that passes means,
`KnownFacts` what the table holds after some arguments were recorded in the order
of the checks, and `CheckFacts` puts them together for an instruction. For the
third theorem every operand is of one of the four classes the selector asks for
(`Classes`), and a lemma for each operator (`MoveWorks` to `CallWorks`) follows each
of its arms: none but those for the named operands ends in a call of `error`.

`BackendProofs`, then about `Selection` with operands of any sizes in registers, in
floating point registers and in memory (`SizesAssumption`: a size is a natural
number, as the `size_t` of `ir.h` is):

| theorem | says always |
|---|---|
| `SelectedCodeAssembles` | `AssemblerAccepts`: once code is selected, the assembler refuses it exactly for the instructions of `Unencodable` |

The inductive invariant `Judged` is small: the instruction is one of those
considered, and outside the phase "ir" it was rejected exactly if `Unencodable`
names it; only `SelectCode` disturbs it. The work is in `ConsideredAccepted`, that
the code of every arm of the selector is made of instructions that exist
(`Accepted`) if and only if the arm is none of the named ones. It goes in layers.
How an argument is printed decides what the assembler sees in it, a register of
either kind, memory, a number or a label, and of which size (`OperandArgument` to
`AddressArgument`). `Printed` puts the operands of the two lists into the open
places of a skeleton in order, so how many operands an address uses up decides
what stands behind it (`Slots`, `UsedPlaces`). From what is printed follows what
the processor asks of each kind of instruction (the lemmas in `Takes`), for
example that a store exists if and only if both parts of its address can be added
and its value is in a register of the right kind or is a number that fits. Then
there is a lemma for each operator (those in `Accepted`), by cases over the
storage classes of its operands. They are about any operands of `ir.h`: any names,
any constants, the same operand in several places. They give the exceptions one
by one, in both directions: an arm that is not named is refused for no size, and a
named one is refused for every size it is named for.

The provers do not take the alternatives of a `CASE` in order. `SelectAdd` and
`SelectSub` give the arms the guards that the order of the `if`s in `asm.c` implies
(an arm for one constant is reached only when the other operand is none), which
is what the proof needs and what TLC, which does take them in order, had hidden.

`AllocatorProofs`, about `Selection` with integer operands of any size, floating
point operands of four or eight bytes and values in memory of at most 32 bytes
(`SizesFit`). Of those two limits the first is the language's, `float` and `double`;
the second is the model's, which gives each operand in memory a place of 32 bytes,
so that a larger value would run into the next operand, as none does in the program:

| theorem | says always |
|---|---|
| `AllocatorNotMisled` | `AllocatorTold`: every step reads and changes only the registers its lists name, no register is read before it has a value, and a step marked as a move copies, but for the named arms |

The invariant `Traced` follows the code as it runs: the code is the one that was
selected, the operands and everything the instructions so far listed as defined
have a value, and in the code of a string move the registers it goes by already
point at the operands (`Pointed`). What one instruction has to satisfy is `Fine`:
its lists agree with what is printed of it (`Shaped`), every register they name
has a value by now, it is as wide as its operands, and its mark as a move is true.
`ReadsFacts` and `ExecFacts` show for the processor that a `Shaped` instruction reads
what it lists as used and changes what it lists as defined, whichever instruction
it is; `CopyCopies` and `LargeCopies` that a marked one leaves the same bytes in both
operands, also where a four-byte move clears the upper half of a register or of a
floating point register. `Told` says that all of some code is `Fine` where it stands,
given what came before it, and there is a lemma for each arm of the selector that
its code is, put together in `ConsideredTold`. Hence the phase "stuck" is never
reached. Two promises are not kept by all arms, so `Told` names them: the width of
floating point moves, which the load of a `float` breaks in every arm
(`ConsideredWidths`), and the marks of string moves.

Only model-checked: that passes end and the other liveness properties (fairness
is outside the prover), growth of hash maps coming to an end among them. And
everything that rests on recursive definitions or on arithmetic of words, which
the provers cannot unfold: `Passes`, and with it `Pipeline`'s refinement
`Implements` (what each pass promises of its result is proved without it);
`Semantics` and `Translate`, so the two properties of `MiddleEnd` and what is assumed
of translation; the parsers (`FunctionBody`), `CallingConvention` (`Calls`), and what
selected code does to operands when it is run on the processor
(`CodeMeansInstruction`).

## 5. What is not modelled

* The lexer, the driver and its options, and the formatting of messages and
  dumps: straight lines over characters and tables of strings.
* Of the parser, imports, top-level declarations and the merging of declarations
  with definitions (`topLevel.c`, most of `buildStab.c`, `miscCheck.c`).
* The typechecker and the conversions of `type.c`. The models of translation take
  programs that are typed. Casts to `bool` compare the wrong way round
  (`translation.c:1210`); showing it needs operators of different types.
* Vector, linked list, string builder and `bigInteger`: used by their contracts. How
  a string hashes (`hash.c`) is a parameter of the hash map. The hash set is used
  by no other file; its growth overwrites the zeroed memory it allocates with
  memory that is not (`hashSet.c:78-79`).
* In translation: aggregates, globals, strings.
* Register allocation and output of assembly: not written in the source. About
  seventy operators are selected to nothing there; `Select` lists them.

## 6. Plan

1. What `Passes` computes as sets and functions without recursion, so that
   `Implements` can be proved.
2. `Operators`: `typeImplicitlyConvertable`, merges and `translateCast` at small
   widths, against the Standard's conversions; then aggregates and globals in
   `Translate`.
3. `Imports`: passes one to four of `parse()`, with `EnumStab` as pass five.
