SPECIFICATION ResponsiveSpec
CONSTANTS
  Clients = {c1}
  XWins = {x1}
  Mortal = {}
  Observer = TRUE
  Calls = {r1}
  Kinds = {"interact"}
  Timeouts = {1}
  MaxId = 2
  MaxSerial = 3
  QuietTime = 0
  SettleGrace = 0
  FrozenAfter = 0
PROPERTY Converges
