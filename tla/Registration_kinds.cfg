SPECIFICATION MCSpec
CONSTANTS
  Threads = {t1, t2}
  Kinds = {"pci", "i2c"}
  RxCalls = {"netif_rx"}
  KillCarrierOff = TRUE
  MaxFaults = 1
  NONE = NONE
SYMMETRY Symmetry
CONSTRAINT SleepsWell
INVARIANTS
  StateAgrees
  StrictCallsSafe
  NoFalseAlarm
