SPECIFICATION MCSpec
CONSTANTS
  Threads = {t1, t2}
  SpinLocks = {s1}
  Mutexes = {m1}
  SpinTypes = {"SPIN_LOCK"}
  EntryContexts <- PlainContexts
  MAX_NESTING = 3
  MaxOpen = 3
  SMP = TRUE
  Lifo = FALSE
  Trylocks = TRUE
  Interruptible = FALSE
  NONE = NONE
SYMMETRY Symmetry
INVARIANTS
  TrackerSound
