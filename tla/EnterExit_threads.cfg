SPECIFICATION MCSpec
CONSTANTS
  Threads = {t1, t2}
  Loader = t1
  EntryFns = {probe, remove}
  VoidFns = {remove}
  KernelFns = {kmalloc}
  SymbolicFns = {kmalloc}
  StartingFn = NULL
  SymRetvals = {1, 2}
  MaxStack = 6
  MaxDepth = 3
  NULL = NULL
INVARIANTS
  TypeOK
  StackContiguous
  StackMatchesFrames
  NoFalseAssert
  RegisteredBeforeUse
PROPERTIES
  GenuineReturn
