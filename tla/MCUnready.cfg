SPECIFICATION Spec
CONSTANTS
  None = None
  e1 = e1
  e2 = e2
  rp = rp
  rf = rf
  ri = ri
  unready = unready
  Unready = unready
  PollCondition <- MCPollCondition
  FddCondition <- MCFddCondition
  NumBuildings = 2
  Prone <- MCUnready
  MaxRecs = 1
  InfoRule = {ri}
  MaxMishaps = 1
  StoredCondition <- MCStoredCondition
  StoredSubject = {f1}
  MaxStoredRecs = 2
  Opportunity = {sv}
  Energy = {0, 1, 2}
  Days = {13, 14}
  Stores = {"sqlite", "postgrest"}
  EvaluatedPoint = {p1, p2}
  Equipment = {e1, e2}
  Input = {"t", "setpoint", "dp"}
  Rule <- MCRule
  EvaluatedQuality = {"GOOD", "BAD"}
  g1 = g1
  t1 = t1
  Gateway = {g1}
  Scope = {a, b}
  Token = {t1}
  TokenOf <- MCTokenOf
  Lifetime = {0, 1}
  MaxQueue = 1
  MaxLate = 1
  Point = {p1, p2}
  Quality = {"GOOD"}
  MaxAhead = 1
  MaxAge = 5
  LiveBuilding = {h}
  DemoModes = {TRUE, FALSE}
  o1 = o1
  o2 = o2
  k1 = k1
  k2 = k2
  s1 = s1
  s2 = s2
  Key = {k1, k2}
  Object = {o1, o2}
  System = {s1, s2}
  ObjectsOf <- MCObjectsOf
  Configured = None
  Default <- MCDefault
  SetupTask = {u1, u2}
  MaxRetries = 3
  Limit = 3
  MaxAttempts = 4
  MaxCrashes = 1
  a1 = a1
  ad = ad
  b1 = b1
  b2 = b2
  Account = {a1, ad}
  Administrator = {ad}
  OwnedBuilding = {b1, b2}
  Profile = {"building_only", "industrial_cooling_only"}
  Registered <- MCRegistered
  Request = {q1}
INVARIANTS AlertsAreFaults
CHECK_DEADLOCK FALSE
