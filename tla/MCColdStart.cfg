SPECIFICATION LiveSpecAll
CONSTANTS
  g1 = g1
  p = p
  k = k
  l = l
  Server = {s1}
  Gateway = {g1}
  Building = Building
  Point = {p}
  GatewayOf <- MCGatewayOf
  Key = {k, l}
  NoKey = NoKey
  Stores = {"sqlite", "postgrest"}
  MaxVersions = 2
  MaxDecisions = 1
PROPERTIES StartsFromCache
