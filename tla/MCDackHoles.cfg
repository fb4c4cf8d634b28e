CONSTANTS
  WINDOW = 7
  HOLES_MAX = 2
  Lattmps = {5, 10, 15}
  WindowMinus1 = {1}
SPECIFICATION Spec
INVARIANT HolesAreLosses
INVARIANT HolesMatchLosses
