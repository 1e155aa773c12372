CONSTANTS
  Unset = Unset
  Garbage = Garbage
  Malformed = {"'"}
  Tokens = {"r", "s", "x", "y", "-op", ".", "i-1", "bad"}
  Dot = "."
  EnsIds = {"i-1"}
  Envs <- MCEnvs
  Followed <- MCFollowed
  Calls = {c}
  Methods = {"Health", "NodeGroupIncreaseSize", "PricingPodPrice"}
  Tails <- MCTails
  Pids <- MCPids
SPECIFICATION Spec
INVARIANTS
  TypeOK
  HonestHealth
  OneOwner
  GroupsTellApart
  TemplateSound
  PromiseKept
  ProviderIDsAgree
PROPERTIES
  OrderlyExit
  ProcessEnds
  CallsAnswered
CHECK_DEADLOCK FALSE
