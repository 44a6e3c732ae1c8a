SPECIFICATION LaunchSpec
CONSTANTS
  Clients = {app}
  XWins = {}
  Mortal = {app}
  Observer = FALSE
  Calls = {launch, r1}
  Kinds = {"interact", "launch"}
  Timeouts = {1}
  MaxId = 2
  MaxSerial = 3
  QuietTime = 0
  SettleGrace = 0
  FrozenAfter = 0
  App = app
  Launcher = launch
INVARIANTS
  LaunchTypeOK
  SettledLaunchHasNewWindow
  ReplyAccountsForWindows
PROPERTY ImplementsTransition
