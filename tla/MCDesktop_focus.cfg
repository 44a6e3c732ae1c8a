SPECIFICATION Spec
CONSTANTS
  MaxId = 3
  Reachable = {1, 2}
  Buttons = {left}
  OverlaysAbove = TRUE
INVARIANTS
  TypeOK
  SpaceIsRegistry
  FocusedHasKeyboard
  AimedPressHits
PROPERTY FocusIsKept
