-------------------------------- MODULE Calls --------------------------------
(***************************************************************************)
(* One call from end to end: the caller evaluates its arguments into       *)
(* temporaries, the generated IR of the call, of the callee's entry and of *)
(* its exit is selected to machine instructions, and these run.  A step is *)
(* one IR instruction.  What the callee does between entry and exit is to  *)
(* leave some value to return and to overwrite every register it may.      *)
(***************************************************************************)
EXTENDS CallingConvention, Machine, Validate, TLC

CONSTANT Signatures     \* [args |-> <<[type, escapes, constant], ...>>, returns |-> type]

VARIABLES sig,          \* the signature of the function, chosen at the start
          call, entry,  \* the IR generated for a call of it and for its entry
          phase,        \* "caller" | "entry" | "body" | "exit" | "result" | "done" | "rejected"
          todo,         \* the IR left to run in this phase
          machine
vars == <<sig, call, entry, phase, todo, machine>>
generated == <<sig, call, entry>>

Function  == 1          \* the caller's temporary with the function's address
ArgName(k) == 1 + k
AddressName == 20       \* the callee's, from translateFile
ResultName  == 21
CallerFresh == 40
CalleeFresh == 60
Patches     == 120

Distinct(n, w) == [j \in 1..w |-> (29 * j + 83 * n) % 256]
ArgOf(s, k)  ==
  LET type == s.args[k].type IN
  [ type    |-> type,
    operand |-> IF s.args[k].constant THEN Const(Distinct(k, Largest(Sizeof(type), 8)), Sizeof(type))
                ELSE TempOf(ArgName(k), type) ]
CallOf(s)    == FunctionCall(TempPtr(Function), [k \in DOMAIN s.args |-> ArgOf(s, k)], s.returns, CallerFresh)
EntryOf(s)   == FunctionEntry(s.args, s.returns, AddressName, CalleeFresh)
ExitOf(s, e) == FunctionExit(s.returns, AddressName, ResultName, e.next)
Returned(s)  == TempOf(ResultName, s.returns)

RECURSIVE WithArgs(_, _, _)
WithArgs(m, s, k) ==
  IF k = 0 THEN m
  ELSE IF s.args[k].constant THEN WithArgs(m, s, k - 1)
  ELSE WithArgs(Set(m, <<"op", ArgOf(s, k).operand>>, Distinct(k, Sizeof(s.args[k].type))), s, k - 1)
Start(s) ==
  WithArgs([regs |-> (<<"rsp">> :> Word(StackBase)) @@ (<<"temp", Function>> :> Word(HeapBase)), mem |-> <<>>],
           s, Len(s.args))

Rsp(m) == Number(m.regs[<<"rsp">>])
\* call pushes the address to return to; ret takes it off again
Push(m) == Put(WriteAt(m, Rsp(m) - 8, Distinct(99, 8)), RSP, Word(Rsp(m) - 8))
Pop(m)  == Put(m, RSP, Word(Rsp(m) + 8))

RECURSIVE Run(_, _)
Run(m, code) == IF code = <<>> THEN m ELSE Run(Exec(m, Head(code)), Tail(code))
CodeOf(ir) == Select(ir, Patches)
Assembles(code) == \A k \in DOMAIN code : Encodable(code[k])

Init ==
  /\ sig \in Signatures
  /\ call = CallOf(sig)
  /\ entry = EntryOf(sig)
  /\ phase = "caller"
  /\ todo = call.before
  /\ machine = Start(sig)

RunCode(code) ==
  \/ /\ Assembles(code)
     /\ machine' = Run(WithFragments(machine, code), code)
     /\ todo' = Tail(todo)
     /\ UNCHANGED phase
  \/ /\ ~Assembles(code)
     /\ phase' = "rejected"
     /\ UNCHANGED <<machine, todo>>

Instruction ==
  /\ phase \in {"caller", "entry", "exit", "result"}
  /\ todo # <<>>
  /\ Head(todo).op # "CALL"
  /\ \E code \in {CodeOf(Head(todo))} : RunCode(code)
  /\ UNCHANGED generated

Call ==
  /\ phase = "caller"
  /\ todo # <<>>
  /\ Head(todo).op = "CALL"
  /\ phase' = "entry"
  /\ todo' = entry.ir
  /\ machine' = Push(machine)
  /\ UNCHANGED generated

Enter ==
  /\ phase = "entry"
  /\ todo = <<>>
  /\ phase' = "body"
  /\ UNCHANGED <<generated, todo, machine>>

Scratch == {<<CallerSaved[k]>> : k \in DOMAIN CallerSaved}
Body ==
  /\ phase = "body"
  /\ machine' = Set([machine EXCEPT !.regs = [r \in DOMAIN @ |-> IF r \in Scratch THEN Distinct(50, 16) ELSE @[r]]],
                    <<"op", Returned(sig)>>, Distinct(60, Sizeof(sig.returns)))
  /\ phase' = "exit"
  /\ todo' = ExitOf(sig, entry)
  /\ UNCHANGED generated

Return ==
  /\ phase = "exit"
  /\ todo = <<>>
  /\ phase' = "result"
  /\ todo' = call.after
  /\ machine' = Pop(machine)
  /\ UNCHANGED generated

Finish ==
  /\ phase = "result"
  /\ todo = <<>>
  /\ phase' = "done"
  /\ UNCHANGED <<generated, todo, machine>>

Next == Instruction \/ Call \/ Enter \/ Body \/ Return \/ Finish
Spec == Init /\ [][Next]_vars /\ WF_vars(Next)
-----------------------------------------------------------------------------
ValueIn(m, o) == Get(m, <<"op", o>>, o.size)
Arrived(k) == ValueIn(machine, entry.temps[k]) = Distinct(k, Sizeof(sig.args[k].type))

\* where the convention puts argument k
Before(s, k)  == FunctionEntry(SubSeq(s.args, 1, k - 1), s.returns, AddressName, CalleeFresh)
Stacked(s, k) == OnStack(Before(s, k), Classify(s.args[k].type))
Registers(s, k) == Range(ArgNames(Before(s, k), Classify(s.args[k].type)))

Storage(t) == Allocation(t)
MovSizes   == MovableSizes \union {16}

\* an argument both sides copy with rep movs, which needs three registers
Copied(s, k) ==
  LET size == Sizeof(s.args[k].type) IN
  IF Stacked(s, k) THEN size \notin MovSizes ELSE ~isDirectRegisterMovableSize(size)
CopyRegisters == {"rdi", "rsi", "rcx"}

\* The arguments the generated code loses: those in a register that the copy
\* of another argument overwrites after (in the caller) they were put there
\* or before (in the callee) they are taken out, and floating point values on
\* the stack, whose STK_STORE selects to nothing.
Lost(s, k) ==
  IF Stacked(s, k) THEN Storage(s.args[k].type) = "FP" /\ ~s.args[k].constant
  ELSE /\ Registers(s, k) \intersect CopyRegisters # {}
       /\ \E j \in DOMAIN s.args \ {k} : Copied(s, j)

\* Every parameter holds its argument when the body of the function starts,
\* except those of Lost: the arguments STK_STORE, OFFSET_STORE and MOVE put in
\* place (abi.c, x86_64LinuxGenerateFunctionCall) are the ones STK_LOAD,
\* OFFSET_LOAD and MOVE fetch (x86_64LinuxGenerateFunctionEntry).
ArgumentsArrive == phase = "body" => \A k \in DOMAIN sig.args : Arrived(k) <=> ~Lost(sig, k)

\* The caller receives the value that the function returned, in one or two
\* registers, through a temporary of a size that registers can hold, or in the
\* caller's stack at the address passed in rdi.
ResultArrives ==
  (phase = "done" /\ sig.returns # Keyword("void")) =>
    ValueIn(machine, call.result) = Distinct(60, Sizeof(sig.returns))

\* The stack a call used is given back, nothing was written in the part of
\* the stack that was in use before the call, during the call nothing is
\* written where the stack ends, below rsp, and rsp is a multiple of sixteen at
\* the CALL instruction.
StackKept ==
  LET stack == {a \in DOMAIN machine.mem : a \in (StackBase - 1023)..(HeapBase - 1)} IN
  /\ phase = "done" => Rsp(machine) = StackBase
  /\ \A a \in stack : a < StackBase
  /\ phase \in {"caller", "entry", "body", "exit"} => \A a \in stack : a >= Rsp(machine)
  /\ (phase = "caller" /\ todo # <<>> /\ Head(todo).op = "CALL") => Rsp(machine) % 16 = 0

Uninitialized(temps) == [k \in DOMAIN temps |-> IR("UNINITIALIZED", <<temps[k]>>)]
ArgTemps(s) == SelectSeq([k \in DOMAIN s.args |-> ArgOf(s, k).operand], LAMBDA o : o.kind = "TEMP")
CallerBlock(s, c) ==
  [ label |-> 1,
    instructions |-> Uninitialized(<<TempPtr(Function)>> \o ArgTemps(s)) \o c.before \o c.after
                       \o <<IR("RETURN", <<>>)>> ]
CalleeBlock(s, e) ==
  [ label |-> 1,
    instructions |-> e.ir
                       \o (IF s.returns = Keyword("void") THEN <<>> ELSE Uninitialized(<<Returned(s)>>))
                       \o ExitOf(s, e) \o <<IR("RETURN", <<>>)>> ]

\* The signatures for which the selected code is no assembly: a variable in
\* memory passed on the stack that one mov could carry, and an eight byte
\* constant passed on the stack (those here are wider than an immediate).
Unassembled(s, e) ==
  \E k \in DOMAIN s.args :
    /\ Stacked(s, k)
    /\ \/ Sizeof(s.args[k].type) \in MovSizes /\ e.temps[k].alloc = "MEM"
       \/ Sizeof(s.args[k].type) = 8 /\ s.args[k].constant

\* The IR of calls, entries and exits passes IR validation: every temporary
\* defined before it is used, with one size, alignment and storage, every
\* operand of the kind and size its operator wants. And it is selected to
\* instructions an assembler accepts that run to their end, except for the
\* signatures of Unassembled.
CallsAccepted ==
  /\ phase = "caller" /\ todo = call.before =>
       Valid(<<CallerBlock(sig, call)>>, {}, TRUE) /\ Valid(<<CalleeBlock(sig, entry)>>, {}, TRUE)
  /\ phase = "rejected" => Unassembled(sig, entry)
  /\ phase = "done" => ~Unassembled(sig, entry)
=============================================================================
