CONSTANTS
  Callers = {c1, c2}
  Ops = {o1, o2}
  Instances = {i1, i2, i3}
  None = None
  Max = 2
  Deltas = {1, 2}
  TTL = 2
  ExpiryMisses = 2
  CallBudget = 0
  MaxWait = 1
  MaxMisses = 2
  VisWindow = 1
  MaxLost = 1
SYMMETRY Symmetry
SPECIFICATION Spec
INVARIANTS TypeOK Ceiling InFlightReserved
PROPERTIES RefusalJustified LedgerSpec
