SPECIFICATION MCSpec
CONSTANTS
  Threads = {t1, t2}
  SpinLocks = {s1}
  Mutexes = {m1}
  SpinTypes = {"SPIN_LOCK_IRQSAVE"}
  EntryContexts <- AllContexts
  MAX_NESTING = 6
  MaxOpen = 4
  SMP = FALSE
  Lifo = TRUE
  Trylocks = FALSE
  Interruptible = FALSE
  NONE = NONE
SYMMETRY Symmetry
INVARIANTS
  TypeOK
  BlockingBalanced
  UserBalanced
  TrackerSound
  NoFalseAlarm
  NoHandlerUnderSpinLock
