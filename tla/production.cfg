SPECIFICATION Spec
CONSTANTS
  Sessions = {s1, s2}
  Dispatchers = {s1, s2}
  Reports = {r1, r2}
  Units = {u1, u2}
  InitialFleet = {u1, u2}
  FleetSize = 2
  Environment = "production"
  MayCrash = FALSE
  MaxConfirmations = 0
  MaxRounds = 3
  Scopes <- AllRows
  SimulationRows = {}
  r1 = r1
  r2 = r2
  s1 = s1
  s2 = s2
  u1 = u1
  u2 = u2
  NoReport = NoReport
  NoUnit = NoUnit
  NoRow = NoRow
SYMMETRY Interchangeable
INVARIANTS PendingIsUnassigned StatusIsBacked LogIsAnnounced
