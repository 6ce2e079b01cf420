SPECIFICATION FairSpec
CONSTANTS
  Sessions = {s1, s2}
  Dispatchers = {s1}
  Reports = {r1}
  Units = {u1}
  InitialFleet = {}
  FleetSize = 1
  Environment = "development"
  MayCrash = TRUE
  MaxConfirmations = 2
  MaxRounds = 1
  Scopes <- AllRows
  SimulationRows = {}
  r1 = r1
  s1 = s1
  s2 = s2
  u1 = u1
  NoReport = NoReport
  NoUnit = NoUnit
  NoRow = NoRow
INVARIANTS TypeOK RowsHaveParents TrustIsEarned
PROPERTY RequestsEnd
