SPECIFICATION Spec
CONSTANTS
  MaxRuns = 3
  MaxSockets = 3
  Reports = {r1, r2}
  Critical = {r1}
  NoReport = NoReport
  r1 = r1
  r2 = r2
  Budgets <- Muting
PROPERTIES MutedIsSilent
CHECK_DEADLOCK FALSE
