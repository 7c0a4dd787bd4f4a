SPECIFICATION SpecAll
CONSTANTS
  g1 = g1
  p = p
  k = k
  l = l
  Server = {s1}
  Gateway = {g1}
  Building = Building
  Point = {p}
  GatewayOf <- MCGatewayOf
  Key = {k, l}
  NoKey = NoKey
  Stores = {"sqlite", "postgrest"}
  MaxVersions = 1
  MaxDecisions = 1
PROPERTIES DecisionsStand
