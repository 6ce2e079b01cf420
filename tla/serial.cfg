SPECIFICATION Spec
CONSTANTS
  Sessions = {s1}
  Dispatchers = {s1}
  Reports = {r1, r2, r3}
  Units = {u1, u2, u3}
  InitialFleet = {u1, u2}
  FleetSize = 1
  Environment = "development"
  MayCrash = FALSE
  MaxConfirmations = 1
  MaxRounds = 3
  Scopes <- TwoScopes
  SimulationRows = {r1, u1}
  r1 = r1
  r2 = r2
  r3 = r3
  s1 = s1
  u1 = u1
  u2 = u2
  u3 = u3
  NoReport = NoReport
  NoUnit = NoUnit
  NoRow = NoRow
INVARIANT NoUnitIsStranded
PROPERTY ImplementsContract
