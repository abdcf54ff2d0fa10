CONSTANTS
  Keys = {k1}
  NoKey = NoKey
  Headers = {k1}
  Requests = {r1, r2}
  StoredRoutes = {"chat", "roleplay", "schedule", "noSpeaker", "none"}
  TTL = 2
  FlightBound = 1
  MaxTime = 3
SPECIFICATION Spec
CHECK_DEADLOCK FALSE
INVARIANTS
  InFlightHoldsKey
  OneEntryPerTTL
PROPERTIES
  EveryRequestAnswered
