SPECIFICATION Spec
CONSTANTS
  Clients = {c1}
  XWins = {x1}
  Mortal = {}
  Observer = TRUE
  Calls = {r1}
  Kinds = {"interact", "launch", "wait"}
  Timeouts = {2}
  MaxId = 2
  MaxSerial = 3
  QuietTime = 1
  SettleGrace = 1
  FrozenAfter = 0
INVARIANTS
  TypeOK
  SettledOnlyWhenHeard
  LastRoundQuiet
  NothingInherited
PROPERTY ImplementsTransition
