SPECIFICATION LiveSpecAll
CONSTANTS
  g1 = g1
  p = p
  k = k
  l = l
  Server = {s1}
  Gateway = {g1}
  Building = Building
  Point = {p}
  GatewayOf <- MCGatewayOf
  Key = {k, l}
  NoKey = NoKey
  Stores = {"sqlite", "postgrest"}
  MaxVersions = 3
  MaxDecisions = 2
INVARIANTS OneActive NoneReactivated RevisionsGrow
INVARIANTS CollectsApproved RestartResumes CachedVersionIsPublished NeverOlder
PROPERTIES RolloutSpec Converges
