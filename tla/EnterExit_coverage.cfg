SPECIFICATION MCFairSpec
CONSTANTS
  Threads = {t1, t2}
  Loader = t1
  EntryFns = {probe, open}
  VoidFns = {}
  KernelFns = {kmalloc, printk}
  SymbolicFns = {kmalloc}
  StartingFn = open
  SymRetvals = {0}
  MaxStack = 6
  MaxDepth = 2
  NULL = NULL
PROPERTIES
  CallCompletes
