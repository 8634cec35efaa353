SPECIFICATION MCSpec
CONSTANTS
  Runs = {r1, r2}
  Lines = {a, j}
  Joining = {j}
  Follows = FALSE
  MaxChanges = 2
  MaxLen = 3
  MaxDrops = 1
  None = None
SYMMETRY RunSymmetry
INVARIANTS CurrentIsExact CursorPairsRows ReportIsExact
CHECK_DEADLOCK FALSE
