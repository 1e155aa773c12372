CONSTANTS
  Replicas = {r1, r2}
  Nobody = Nobody
  Departed = Departed
  LeaseDuration = 3
  LoseBy = 2
  MaxStops = 2
SPECIFICATION Spec
SYMMETRY Symmetry
INVARIANTS
  TypeOK
  ExclusiveService
  WorkDiesWithTerm
  QuietRelease
  LabelMeansLed
PROPERTY OneServer
CHECK_DEADLOCK FALSE
