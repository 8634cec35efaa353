SPECIFICATION Spec
CONSTANTS
  g = g
  h = h
  Hashes = {g, h}
  Files = {1, 2}
  UsualDir = {1, 2}
  CustomDir = {1}
  Contents <- Few
  Old = {g}
  Repeats = FALSE
  MaxChanges = 0
  None = None
PROPERTY PruneKeepsReports
CHECK_DEADLOCK FALSE
