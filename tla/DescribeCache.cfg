CONSTANTS
  Readers = {r1, r2}
  Instances = {a, b, x}
  Owned = {a, b}
  None = None
  PageSize = 1
  TTL = 2
  MaxFetch = 1
SYMMETRY Symmetry
SPECIFICATION Spec
INVARIANTS TypeOK LockHeldByFetcher
PROPERTIES ForcedIsExact LeftOutExplained BoundedStaleness NeverOlder
