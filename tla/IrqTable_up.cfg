SPECIFICATION MCSpec
CONSTANTS
  Threads = {t1, t2}
  Devices = {d1, d2, d3}
  IrqOf <- OwnLines
  MAX_IRQS = 3
  Lines = {1, 2}
  MAX_INTERRUPTS_PER_LINE = 2
  ResetAbove = 4
  MaxResets = 2
  SMP = FALSE
  NONE = NONE
SYMMETRY Symmetry
INVARIANTS
  TypeOK
  RequestsCounted
  TableWithinKernel
  NoFalseAlarm
  OnePassAtATime
  LineBudget
PROPERTIES
  HandlerAllowed
