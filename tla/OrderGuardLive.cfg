CONSTANTS
  Callers = {c1, c2}
  Ops = {o1}
  Instances = {i1, i2}
  None = None
  Max = 2
  Deltas = {2}
  TTL = 3
  ExpiryMisses = 2
  CallBudget = 1
  MaxWait = 1
  MaxMisses = 2
  VisWindow = 1
  MaxLost = 0
SPECIFICATION FairSpec
PROPERTIES CallsReturn LostOrderFrees
