SPECIFICATION MCSpec
CONSTANTS
  Cards = {c1, c2}
  MAX_CHIPS = 2
  Addresses = {0, 5, 6}
  MaxHotplug = 2
  NONE = NONE
  Drivers = {d1, d2}
  WithPM = {d1}
  PciDevs = {v1}
  Netdevs = {n1}
  WithEthtool = {n1}
  Args <- SomeArgs
SYMMETRY Symmetry
INVARIANTS
  WellFormed
  RightFunction
  RightPair
  AllChipsOrNone
  NothingLeft
