SPECIFICATION Spec
CONSTANTS
  MaxId = 2
  Reachable = {1, 2}
  Buttons = {left}
  OverlaysAbove = TRUE
INVARIANT PressHitsWhatIsThere
