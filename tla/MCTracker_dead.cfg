SPECIFICATION Spec
CONSTANTS
  Clients = {c1}
  XWins = {}
  Mortal = {c1}
  Observer = FALSE
  Calls = {r1}
  Kinds = {"interact"}
  Timeouts = {2}
  MaxId = 1
  MaxSerial = 2
  QuietTime = 0
  SettleGrace = 0
  FrozenAfter = 0
INVARIANT NoDeadClientAwaited
