-------------------------- MODULE CallingConvention --------------------------
(***************************************************************************)
(* The x86_64-linux calling convention (arch/x86_64-linux/abi.c): the IR   *)
(* that starts a function, ends it, and calls one.  A value of up to       *)
(* sixteen bytes is classified eightbyte by eightbyte and travels in       *)
(* registers while there are any; others travel on the stack.              *)
(***************************************************************************)
EXTENDS Operands, Integers, SequencesExt

-----------------------------------------------------------------------------
\* The types of the language and their representation (ast/type.c): sizes,
\* alignments, layout of fields, and the storage a value is given.  A reference to
\* a struct, union, enumeration or typedef is the definition it refers to.

Keyword(name)     == [t |-> "keyword", name |-> name]
Qualified(base)   == [t |-> "qualified", base |-> base]
Pointer           == [t |-> "pointer"]                      \* to whatever
Array(type, n)    == [t |-> "array", type |-> type, length |-> n]
Aggregate(types)  == [t |-> "aggregate", types |-> types]
Struct(types)     == [t |-> "struct", types |-> types]
Union(types)      == [t |-> "union", types |-> types]
Enum(backing)     == [t |-> "enum", backing |-> backing]
Typedef(actual)   == [t |-> "typedef", actual |-> actual]

Keywords ==
  [ void |-> 1, ubyte |-> 1, byte |-> 1, char |-> 1, bool |-> 1, ushort |-> 2, short |-> 2,
    uint |-> 4, int |-> 4, wchar |-> 4, float |-> 4, ulong |-> 8, long |-> 8, double |-> 8 ]

IncrementToMultiple(n, multiple) == IF n % multiple = 0 THEN n ELSE n + multiple - (n % multiple)

Largest(n, m) == IF n > m THEN n ELSE m

RECURSIVE Sizeof(_), Alignof(_), LargestOf(_, _), EndOf(_, _)

\* the largest of f over the types: "size" or "align"
LargestOf(f, types) ==
  IF types = <<>> THEN 0
  ELSE Largest(IF f = "size" THEN Sizeof(Head(types)) ELSE Alignof(Head(types)), LargestOf(f, Tail(types)))

\* the offset after the first k fields, before the padding of the next
EndOf(types, k) ==
  IF k = 0 THEN 0
  ELSE IncrementToMultiple(EndOf(types, k - 1), Alignof(types[k])) + Sizeof(types[k])

\* structOffsetof
Offsetof(types, k) == IncrementToMultiple(EndOf(types, k - 1), Alignof(types[k]))

Alignof(t) ==
  CASE t.t \in {"keyword", "pointer"}          -> Sizeof(t)
    [] t.t = "qualified"                       -> Alignof(t.base)
    [] t.t = "array"                           -> Alignof(t.type)
    [] t.t \in {"struct", "aggregate", "union"} -> LargestOf("align", t.types)
    [] t.t = "enum"                            -> Alignof(t.backing)
    [] t.t = "typedef"                         -> Alignof(t.actual)

\* the size of a union is not rounded up to its alignment
Sizeof(t) ==
  CASE t.t = "keyword"   -> Keywords[t.name]
    [] t.t = "pointer"   -> 8
    [] t.t = "qualified" -> Sizeof(t.base)
    [] t.t = "array"     -> Sizeof(t.type) * t.length
    [] t.t \in {"struct", "aggregate"} -> IncrementToMultiple(EndOf(t.types, Len(t.types)), Alignof(t))
    [] t.t = "union"     -> LargestOf("size", t.types)
    [] t.t = "enum"      -> Sizeof(t.backing)
    [] t.t = "typedef"   -> Sizeof(t.actual)

RECURSIVE Allocation(_)
Allocation(t) ==
  CASE t.t = "keyword"   -> IF t.name \in {"float", "double"} THEN "FP" ELSE "GP"
    [] t.t = "qualified" -> Allocation(t.base)
    [] t.t \in {"pointer", "enum"} -> "GP"
    [] t.t \in {"array", "aggregate", "struct", "union"} -> "MEM"
    [] t.t = "typedef"   -> Allocation(t.actual)

-----------------------------------------------------------------------------
\* Classes of values

\* What byte k of fields at these offsets holds: a byte of one field, or one byte of
\* several that overlap, or padding.
ByteClass(fields, offsets, k) ==
  LET at == {fields[f][k - offsets[f]] : f \in {f \in DOMAIN fields : k - offsets[f] \in DOMAIN fields[f]}} IN
  CASE "GP" \in at -> "GP"
    [] "GP" \notin at /\ "SSE" \in at -> "SSE"
    [] OTHER -> "NO_CLASS"
FieldsLayout(size, fields, offsets) == [k \in 1..size |-> ByteClass(fields, offsets, k)]
Repeated(element, length) == [k \in 1..(Len(element) * length) |-> element[((k - 1) % Len(element)) + 1]]

\* what every byte of a value holds: GP, SSE, or NO_CLASS (padding)
RECURSIVE Layout(_)
Layout(t) ==
  CASE t.t = "keyword" ->
         [k \in 1..Sizeof(t) |-> IF t.name = "void" THEN "NO_CLASS"
                                 ELSE IF t.name \in {"float", "double"} THEN "SSE" ELSE "GP"]
    [] t.t = "pointer"   -> [k \in 1..8 |-> "GP"]
    [] t.t = "qualified" -> Layout(t.base)
    [] t.t = "typedef"   -> Layout(t.actual)
    [] t.t = "enum"      -> Layout(t.backing)
    [] t.t = "array"     -> Repeated(Layout(t.type), t.length)
    [] t.t \in {"struct", "union"} ->
         FieldsLayout(Sizeof(t), [f \in DOMAIN t.types |-> Layout(t.types[f])],
                      [f \in DOMAIN t.types |-> IF t.t = "struct" THEN Offsetof(t.types, f) ELSE 0])

Eightbyte(bytes) == IF \E k \in DOMAIN bytes : bytes[k] = "GP" THEN "GP" ELSE "SSE"
ClassifyBytes(bytes) ==
  CASE Len(bytes) > 16 -> <<"MEMORY", "NO_CLASS">>
    [] Len(bytes) \in 9..16 -> <<Eightbyte(SubSeq(bytes, 1, 8)), Eightbyte(SubSeq(bytes, 9, Len(bytes)))>>
    [] OTHER -> <<Eightbyte(bytes), "NO_CLASS">>
Classify(t) == ClassifyBytes(Layout(t))
InMemory(t) == Classify(t)[1] = "MEMORY"

GpArgRegs     == <<"rdi", "rsi", "rdx", "rcx", "r8", "r9">>
SseArgRegs    == <<"xmm0", "xmm1", "xmm2", "xmm3", "xmm4", "xmm5", "xmm6", "xmm7">>
GpReturnRegs  == <<"rax", "rdx">>
SseReturnRegs == <<"xmm0", "xmm1">>

\* one or two registers hold exactly the value
isDirectRegisterMovableSize(size) == (IF size <= 8 THEN size ELSE size - 8) \in MovableSizes
padToDirectRegisterMovableSize(size) ==
  CHOOSE p \in {1, 2, 4, 8, 9, 10, 12, 16} : p >= size /\ \A q \in {1, 2, 4, 8, 9, 10, 12, 16} : q >= size => p <= q

-----------------------------------------------------------------------------
IR(op, args) == [op |-> op, args |-> args]
OFFSET(n)    == Const(Word(n), 8)
TempOf(name, t)  == AlignedTemp(name, Alignof(t), Sizeof(t), Allocation(t))
TempVar(name, v) == [TempOf(name, v.type) EXCEPT !.alloc = IF v.escapes THEN "MEM" ELSE @]
TempPtr(name)    == Temp(name, 8, "GP")
RSPReg == Reg("rsp", 8)

CountOf(class, classes) == Len(SelectSeq(classes, LAMBDA c : c = class))

\* the registers the next eightbytes take
RegisterNames(classes, gp, sse, gpRegs, sseRegs) ==
  [k \in {k \in {1, 2} : classes[k] # "NO_CLASS"} |->
     LET earlier == CountOf(classes[k], SubSeq(classes, 1, k - 1)) + 1 IN
     IF classes[k] = "GP" THEN gpRegs[gp + earlier] ELSE sseRegs[sse + earlier]]

FromRegisters(temp, names, classes, size) ==
  IF classes[2] = "NO_CLASS"
  THEN <<IR("MOVE", <<temp, Reg(names[1], padToDirectRegisterMovableSize(size))>>)>>
  ELSE << IR("OFFSET_STORE", <<temp, Reg(names[1], 8), OFFSET(0)>>),
          IR("OFFSET_STORE", <<temp, Reg(names[2], padToDirectRegisterMovableSize(size - 8)), OFFSET(8)>>) >>
ToRegisters(temp, names, classes, size) ==
  IF classes[2] = "NO_CLASS"
  THEN <<IR("MOVE", <<Reg(names[1], padToDirectRegisterMovableSize(size)), temp>>)>>
  ELSE << IR("OFFSET_LOAD", <<Reg(names[1], 8), temp, OFFSET(0)>>),
          IR("OFFSET_LOAD", <<Reg(names[2], padToDirectRegisterMovableSize(size - 8)), temp, OFFSET(8)>>) >>

\* A slip CallsAccepted catches: the size is left as it is.
PaddedNot(name, t) == TempOf(name, t)

\* a temporary that registers hold exactly
Padded(name, t) ==
  AlignedTemp(name, Alignof(t), padToDirectRegisterMovableSize(Sizeof(t)), Allocation(t))

\* st: the IR so far, the registers taken, the stack used, the next fresh name
OnStack(st, classes) ==
  \/ classes[1] = "MEMORY"
  \/ st.gp + CountOf("GP", classes) > Len(GpArgRegs)
  \/ st.sse + CountOf("SSE", classes) > Len(SseArgRegs)
Emit(st, irs) == [st EXCEPT !.ir = @ \o irs]
TakeStack(st, t) == [st EXCEPT !.stack = @ + IncrementToMultiple(Sizeof(t), 8)]
TakeRegisters(st, classes) ==
  [st EXCEPT !.gp = @ + CountOf("GP", classes), !.sse = @ + CountOf("SSE", classes)]
ArgNames(st, classes) == RegisterNames(classes, st.gp, st.sse, GpArgRegs, SseArgRegs)

-----------------------------------------------------------------------------
\* x86_64LinuxGenerateFunctionEntry: variables are [type, escapes]

\* st has the name after that of var as its next
FetchArgument(st, type, var, classes, passing) ==
  CASE OnStack(st, classes) ->
         TakeStack(Emit(st, <<IR("STK_LOAD", <<var, OFFSET(st.stack)>>)>>), type)
    [] ~OnStack(st, classes) /\ isDirectRegisterMovableSize(Sizeof(type)) ->
         TakeRegisters(Emit(st, FromRegisters(var, ArgNames(st, classes), classes, Sizeof(type))), classes)
    [] OTHER ->
         [TakeRegisters(Emit(st, FromRegisters(passing, ArgNames(st, classes), classes, Sizeof(type))
                                   \o <<IR("OFFSET_LOAD", <<var, passing, OFFSET(0)>>)>>), classes)
            EXCEPT !.next = @ + 1]
EntryArgument(st, v) ==
  FetchArgument([st EXCEPT !.next = @ + 1, !.temps = Append(@, TempVar(st.next, v))],
                v.type, TempVar(st.next, v), Classify(v.type), Padded(st.next + 1, v.type))

\* A slip ArgumentsArrive catches: the address to return to is not counted.
EntryStartAtTop(next) == [ir |-> <<>>, gp |-> 0, sse |-> 0, stack |-> 0, next |-> next, temps |-> <<>>]

EntryStart(next) == [ir |-> <<>>, gp |-> 0, sse |-> 0, stack |-> 8, next |-> next, temps |-> <<>>]

\* the address for a result in memory comes first
EntryAddress(st, addressTemp) ==
  [Emit(st, <<IR("MOVE", <<TempPtr(addressTemp), Reg(GpArgRegs[1], 8)>>)>>) EXCEPT !.gp = 1]
FunctionEntry(variables, returnType, addressTemp, next) ==
  FoldLeft(EntryArgument,
           IF InMemory(returnType) THEN EntryAddress(EntryStart(next), addressTemp) ELSE EntryStart(next),
           variables)

\* x86_64LinuxGenerateFunctionExit, before the RETURN
ReturnNames(classes) == RegisterNames(classes, 0, 0, GpReturnRegs, SseReturnRegs)
StoreResult(returnType, classes, value, passing, addressTemp) ==
  CASE returnType = Keyword("void") -> <<>>
    [] classes[1] = "MEMORY" -> <<IR("MEM_STORE", <<TempPtr(addressTemp), value, OFFSET(0)>>)>>
    [] classes[1] # "MEMORY" /\ isDirectRegisterMovableSize(Sizeof(returnType)) ->
         ToRegisters(value, ReturnNames(classes), classes, Sizeof(returnType))
    [] OTHER -> <<IR("OFFSET_STORE", <<passing, value, OFFSET(0)>>)>>
                  \o ToRegisters(passing, ReturnNames(classes), classes, Sizeof(returnType))
FunctionExit(returnType, addressTemp, valueTemp, next) ==
  StoreResult(returnType, Classify(returnType), TempOf(valueTemp, returnType), Padded(next, returnType), addressTemp)

-----------------------------------------------------------------------------
\* x86_64LinuxGenerateFunctionCall: args are the operands evaluated before

PutArgument(st, a, classes, passing) ==
  CASE OnStack(st, classes) ->
         TakeStack(Emit(st, <<IR("STK_STORE", <<OFFSET(st.stack), a.operand>>)>>), a.type)
    [] ~OnStack(st, classes) /\ isDirectRegisterMovableSize(Sizeof(a.type)) ->
         TakeRegisters(Emit(st, ToRegisters(a.operand, ArgNames(st, classes), classes, Sizeof(a.type))), classes)
    [] OTHER ->
         [TakeRegisters(Emit(st, <<IR("OFFSET_STORE", <<passing, a.operand, OFFSET(0)>>)>>
                                   \o ToRegisters(passing, ArgNames(st, classes), classes, Sizeof(a.type))), classes)
            EXCEPT !.next = @ + 1]
CallArgument(st, a) == PutArgument(st, a, Classify(a.type), Padded(st.next, a.type))
CallStart(gp, next) == [ir |-> <<>>, gp |-> gp, sse |-> 0, stack |-> 0, next |-> next]

\* A slip ResultArrives catches: the result is fetched as if it lay at rsp.
MemoryResultAtRsp(result, offset) == <<IR("MEM_LOAD", <<result, RSPReg, OFFSET(0)>>)>>

MemoryResult(result, offset) == <<IR("MEM_LOAD", <<result, RSPReg, OFFSET(offset)>>)>>

\* what the caller does with the result; result is the temporary it ends in
FetchResult(returnType, classes, result, passing, offset) ==
  CASE returnType = Keyword("void") -> <<>>
    [] classes[1] = "MEMORY" -> MemoryResult(result, offset)
    [] classes[1] # "MEMORY" /\ isDirectRegisterMovableSize(Sizeof(returnType)) ->
         FromRegisters(result, ReturnNames(classes), classes, Sizeof(returnType))
    [] OTHER -> FromRegisters(passing, ReturnNames(classes), classes, Sizeof(returnType))
                  \o <<IR("OFFSET_LOAD", <<result, passing, OFFSET(0)>>)>>

\* A slip StackKept catches: the stack is aligned for its arguments only.
StackUsedBy8(arguments, result) == IncrementToMultiple(arguments + result, 8)

StackUsed(arguments, result) == IncrementToMultiple(arguments + result, 16)
Allocate(used) == IF used = 0 THEN <<IR("NOP", <<>>)>> ELSE <<IR("SUB", <<RSPReg, RSPReg, OFFSET(used)>>)>>
Deallocate(used) == IF used = 0 THEN <<>> ELSE <<IR("ADD", <<RSPReg, RSPReg, OFFSET(used)>>)>>

\* the address of a result in memory, above the arguments, is passed as the first
ResultAddress(classes, offset) ==
  IF classes[1] = "MEMORY" THEN <<IR("ADD", <<Reg(GpArgRegs[1], 8), RSPReg, OFFSET(offset)>>)>> ELSE <<>>
CallWith(fun, returnType, classes, passed, used) ==
  [ before |-> Allocate(used) \o passed.ir \o ResultAddress(classes, passed.stack) \o <<IR("CALL", <<fun>>)>>,
    after  |-> FetchResult(returnType, classes, TempOf(passed.next, returnType),
                           Padded(passed.next + 1, returnType), passed.stack) \o Deallocate(used),
    result |-> TempOf(passed.next, returnType) ]
CallPassing(fun, returnType, classes, passed) ==
  CallWith(fun, returnType, classes, passed,
           StackUsed(passed.stack, IF classes[1] = "MEMORY" THEN Sizeof(returnType) ELSE 0))
FunctionCall(fun, args, returnType, next) ==
  CallPassing(fun, returnType, Classify(returnType),
              FoldLeft(CallArgument, CallStart(IF InMemory(returnType) THEN 1 ELSE 0, next), args))
=============================================================================
