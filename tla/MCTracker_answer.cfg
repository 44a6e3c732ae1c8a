SPECIFICATION FairSpec
CONSTANTS
  Clients = {c1}
  XWins = {x1}
  Mortal = {c1}
  Observer = TRUE
  Calls = {r1}
  Kinds = {"interact", "launch", "wait"}
  Timeouts = {1}
  MaxId = 1
  MaxSerial = 2
  QuietTime = 0
  SettleGrace = 1
  FrozenAfter = 1
PROPERTIES
  EveryCallAnswered
  FreezeDetected
