SPECIFICATION FairSpec
CONSTANTS
  claude = claude
  cursor = cursor
  codex = codex
  Sources = {claude, cursor, codex}
  FileCount <- TwoOneNone
  Eligible = {claude}
  MaxParallel = 2
  BatchLimit = 2
INVARIANTS WithinBudget OneLoopPerFile SettledInFull ParsedIsStored OpenWhileParsing
PROPERTY RunEnds
CHECK_DEADLOCK FALSE
