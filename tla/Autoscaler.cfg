CONSTANTS
  Instances = {1, 2, 3}
  Max = 2
  Demands = {1, 2}
  NoWalk = NoWalk
  MaxTroubles = 1
SPECIFICATION Spec
INVARIANTS TypeOK LoopIsCurrent NothingToCancel
PROPERTIES OvershootExplained DemandMet
