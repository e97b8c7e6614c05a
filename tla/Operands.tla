------------------------------ MODULE Operands ------------------------------
(***************************************************************************)
(* The operands of IR instructions as the x86_64 backend sees them (ir.h,  *)
(* ir.c, arch/x86_64-linux/asm.c): machine registers, temporaries with the *)
(* allocation hint translation chose, and constants, each with a size in   *)
(* bytes.  The value of a constant is the sequence of its bytes, the lowest *)
(* first, of at least eight, or the label it is the address of.            *)
(***************************************************************************)
EXTENDS Naturals, Sequences

GpRegisters == {"rax", "rbx", "rcx", "rdx", "rsi", "rdi", "rsp", "rbp", "r8", "r9",
                "r10", "r11", "r12", "r13", "r14", "r15"}
FpRegisters == {"xmm0", "xmm1", "xmm2", "xmm3", "xmm4", "xmm5", "xmm6", "xmm7",
                "xmm8", "xmm9", "xmm10", "xmm11", "xmm12", "xmm13", "xmm14", "xmm15"}

Reg(name, size)    == [kind |-> "REG", name |-> name, size |-> size]
AlignedTemp(name, align, size, alloc) ==
  [kind |-> "TEMP", name |-> name, align |-> align, size |-> size, alloc |-> alloc]
Const(value, size) == [kind |-> "CONSTANT", value |-> value, size |-> size]

\* a temporary of a size that is aligned as well as it can be
Alignment(size) == CASE size % 8 = 0 -> 8 [] size % 8 = 4 -> 4 [] size % 4 = 2 -> 2 [] OTHER -> 1
Temp(name, size, alloc) == AlignedTemp(name, Alignment(size), size, alloc)

\* constants that are the address of a label of this file, or of another's
Local(label)  == Const(<<"local", label>>, 8)
Global(label) == Const(<<"global", label>>, 8)

isConst(o)   == o.kind = "CONSTANT"
isLocal(o)   == isConst(o) /\ Len(o.value) = 2 /\ o.value[1] = "local"
isGlobal(o)  == isConst(o) /\ Len(o.value) = 2 /\ o.value[1] = "global"
isGpTemp(o)  == o.kind = "TEMP" /\ o.alloc = "GP"
isFpTemp(o)  == o.kind = "TEMP" /\ o.alloc = "FP"
isMemTemp(o) == o.kind = "TEMP" /\ o.alloc = "MEM"
isGpReg(o)   == o.kind = "REG" /\ o.name \in GpRegisters
isFpReg(o)   == o.kind = "REG" /\ o.name \in FpRegisters

\* what most arms of the selector test: a register or a register temporary
isGp(o) == isGpReg(o) \/ isGpTemp(o)
isFp(o) == isFpReg(o) \/ isFpTemp(o)

\* a patch temporary: the size of the operand it stands for, a fresh name
Patch(o, name, alloc) == Temp(name, o.size, alloc)

\* a small number as eight bytes
Word(n) == <<n % 256, n \div 256, 0, 0, 0, 0, 0, 0>>

\* sizes one general purpose register move carries
MovableSizes == {1, 2, 4, 8}

\* a temporary together with an offset into it, as one operand of an instruction
Inside(base, offset) == [kind |-> "OFFSET", base |-> base, offset |-> offset]
=============================================================================
