SPECIFICATION MCSpec
CONSTANTS
  Threads = {t1, t2, t3}
  f1 = f1
  Handler = Handler
  Fns = {f1, Handler}
  Special = {Handler}
  Purposes <- TwoPurposes
  Checked <- SomeChecked
  NONE = NONE
SYMMETRY Symmetry
INVARIANTS
  NeverHalf
  CacheCurrent
  SameCheck
