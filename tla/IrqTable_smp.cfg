SPECIFICATION MCSpec
CONSTANTS
  Threads = {t1, t2, t3}
  Devices = {d1, d2, d3}
  IrqOf <- SharedLine
  MAX_IRQS = 2
  Lines = {1}
  MAX_INTERRUPTS_PER_LINE = 1
  ResetAbove = 2
  MaxResets = 1
  SMP = TRUE
  NONE = NONE
CONSTRAINT Drift
SYMMETRY Symmetry
INVARIANTS
  TableWithinKernel
