SPECIFICATION ScreenFairSpec
CONSTANTS
  MaxTakes = 3
INVARIANTS ScreenRight
PROPERTIES MovesOn
