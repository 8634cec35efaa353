SPECIFICATION FairSpec
CONSTANTS
  Runs = {r1, r2}
  Lines = {a}
  Joining = {}
  Follows = TRUE
  MaxChanges = 2
  MaxLen = 3
  MaxDrops = 1
  None = None
PROPERTY StoreCatchesUp
CHECK_DEADLOCK FALSE
