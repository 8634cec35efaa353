SPECIFICATION Spec
CONSTANTS
  Runs = {r1, r2}
  Lines = {a, j}
  Joining = {j}
  Follows = FALSE
  MaxChanges = 2
  MaxLen = 3
  MaxDrops = 1
  None = None
PROPERTY ReusedOnlyOnMatch
CHECK_DEADLOCK FALSE
