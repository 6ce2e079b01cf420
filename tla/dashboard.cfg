SPECIFICATION Spec
CONSTANTS
  MaxRuns = 3
  MaxSockets = 3
  Reports = {r1, r2}
  Critical = {r1}
  NoReport = NoReport
  r1 = r1
  r2 = r2
  Budgets <- Mixes
INVARIANTS TypeOK OneChainPerRun NothingMissed NeverAhead RouteIsOfTheFocused
PROPERTY StaysConnected
CHECK_DEADLOCK FALSE
