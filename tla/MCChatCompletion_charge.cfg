CONSTANTS
  Keys = {k1}
  NoKey = NoKey
  Headers = {k1}
  Requests = {r1, r2}
  StoredRoutes = {"chat"}
  TTL = 2
  FlightBound = 1
  MaxTime = 1
SPECIFICATION Spec
CHECK_DEADLOCK FALSE
INVARIANT NoDoubleCharge
