CONSTANTS
  Parts = {"account", "cards", "desk", "group"}
  Tabs = {a, b}
  AccountCalls = {1, 2}
  PageRoutes = {"mapped", "logout"}
  MaxLogins = 2
  MaxFaults = 1
  Upstream = {200, 401}
  Limit <- MCLimit
  CardLimit <- MCCardLimit
  TextLengths = {0, 1, 5, 12}
  Padding = {0, 1}
  Blanks = {3, 6}
  TagNames <- MCTags
  MaxCardTags = 3
  FirstPersonas = {1, 2}
  MaxPersonas = 3
  MaxWorlds = 1
  MaxDocs = 2
  DeskCalls = {1, 2}
  MaxClicks = 2
  MaxDeskFaults = 1
  Groups = {g, h}
  NewGroup = g
  Voices = {v, w}
  MaxTurns = 1
  MaxGroupMoves = 1
SPECIFICATION MCSpec
CHECK_DEADLOCK FALSE
INVARIANTS
  RefusedSessionGone
  LogoutEndsLogins
  CardsCorrect
  RepliesFollowQuestions
  NoEmptyBubbleLeft
PROPERTIES
  OneStarAtATime
SYMMETRY MCSymmetry
