SPECIFICATION MCSpec
CONSTANTS
  Threads = {t1, t2}
  Loader = t1
  EntryFns = {probe}
  VoidFns = {}
  KernelFns = {kmalloc}
  SymbolicFns = {kmalloc}
  StartingFn = NULL
  SymRetvals = {2}
  MaxStack = 32
  MaxDepth = 2
  NULL = NULL
PROPERTIES
  EmptyExitCallsIrqs
