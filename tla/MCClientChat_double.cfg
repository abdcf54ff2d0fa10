CONSTANTS
  Keys = {r1, r2}
  Requests = {r1, r2}
  NoKey = NoKey
  Headers = {r1, r2}
  StoredRoutes = {"chat"}
  TTL = 2
  FlightBound = 1
  MaxTime = 0
  Texts = {t1}
  k1 = k1
  k2 = k2
  k3 = k3
  Convs = {k1, k2, k3}
  FirstConvs = {k1}
  Pictured = {}
  Turns = {}
  Nothing = Nothing
SPECIFICATION TabSpec
CHECK_DEADLOCK FALSE
INVARIANTS
  DraftChargedOnce
