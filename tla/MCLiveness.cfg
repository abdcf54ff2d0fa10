CONSTANTS
  Parts = {"lock", "run", "account", "desk", "group"}
  Tabs = {a}
  AccountCalls = {1, 2}
  PageRoutes = {"store", "mapped", "quota", "embed", "logout"}
  MaxLogins = 1
  MaxFaults = 1
  Upstream = {0, 200, 401, 409}
  FirstPersonas = {1, 2}
  MaxPersonas = 3
  MaxWorlds = 1
  MaxDocs = 2
  DeskCalls = {1, 2}
  MaxClicks = 2
  MaxDeskFaults = 1
  Groups = {g, h}
  NewGroup = g
  Voices = {v}
  MaxTurns = 1
  MaxGroupMoves = 1
  c1 = c1
  c2 = c2
  c3 = c3
  c4 = c4
  f1 = f1
  f2 = f2
  NoCall = NoCall
  Calls <- MCCalls
  Files <- MCFiles
  FileOf <- MCFileOf
SPECIFICATION MCSpec
CHECK_DEADLOCK FALSE
INVARIANTS
  LockCorrect
PROPERTIES
  ImplementsSerialExecutor
  NoTabLoadsForEver
  RunEnds
  DrawersGetFree
  GroupComposerUnlocked
