CONSTANTS
  Replicas = {r1, r2}
  Nobody = Nobody
  Departed = Departed
  LeaseDuration = 2
  LoseBy = 1
  MaxStops = 0
SPECIFICATION Spec
SYMMETRY Symmetry
INVARIANT LossMeansExit
