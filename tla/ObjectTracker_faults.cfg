SPECIFICATION MCSpec
CONSTANTS
  Threads = {t1, t2}
  Addresses = {a1, a2}
  MaxSane = 1
  Allocators <- SomeAllocators
  CopyKinds <- Buffers
  Faulty = TRUE
  NONE = NONE
SYMMETRY Symmetry
CONSTRAINT OneLost
INVARIANTS
  TrackerAgrees
  FreeSafe
  NoFalseAlarm
  DirtyCoversNew
