CONSTANTS
  a = a
  b = b
  g1 = g1
  g2 = g2
  Instances = {a, b}
  Groups = {g1, g2}
  GroupOf <- MCGroupOf
  LabelOf <- MCLabelOf
  Address <- MCAddress
  Handlers = {}
  None = None
  JanitorRelease = TRUE
  CleanupCap = 1
  MaxBatch = 2
SPECIFICATION FairSpec
PROPERTIES GoneNodeReaped
