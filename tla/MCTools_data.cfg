SPECIFICATION Spec
CONSTANTS
  KeyCodes <- MCKeyCodes
  Layout <- MCLayout
  Level <- MCLevel
  KeyChar <- MCKeyChar
  Ctrl = 5
  Shift = 7
  Alt = 8
  Logo = 11
  LockKeys = {12, 14}
  Chars <- MCChars
  Texts <- MCTexts
  Combos <- MCCombos
  Repeats = {0, 1, 2}
  MAX_NODES = 4
  MAX_DEPTH = 2
  MaxKids = 3
  MaxFrames = 2
  Windows = {w}
  Other = other
  PidOf <- MCPidOf
  Pids = {1}
  Titles = {"x", "y"}
INVARIANTS
  KeysTypeOK
  ComboArrives
  TextArrives
  KeysReleased
  SnapshotTypeOK
  SharesBudget
  ReadsInOrder
  CutIsTold
  OwnTreeAttached
CHECK_DEADLOCK FALSE
