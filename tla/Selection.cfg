CONSTANTS
  Ops = {"MOVE", "ADDROF", "MEM_STORE", "MEM_LOAD", "STK_STORE", "STK_LOAD",
         "OFFSET_STORE", "OFFSET_LOAD", "ADD", "SUB", "SMUL", "XOR"}
  GpSizes = {1, 2, 4, 8}
  FpSizes = {4, 8}
  MemSizes = {1, 4, 8, 12, 16, 24}
SPECIFICATION SelSpec
INVARIANTS
  CodeMeansInstruction
  AssemblerAccepts
PROPERTY
  AllocatorTold
CHECK_DEADLOCK FALSE
