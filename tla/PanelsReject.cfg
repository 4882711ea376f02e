SPECIFICATION PanelsSpec
CONSTANTS
  Modules = {m1, m2}
  Pictures = {p1}
  MaxOps = 3
  Windows = {"shared"}
PROPERTIES RejectIsSafe
CHECK_DEADLOCK FALSE
