SPECIFICATION PausesSpec
CONSTANTS
  Owners = {u1, u2}
  Hands = {h1, h2}
  MaxClaims = 2
  MaxShifts = 1
  Windows = {"leftover"}
INVARIANT PausedForItsOwn
CHECK_DEADLOCK FALSE
