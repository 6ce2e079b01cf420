SPECIFICATION Spec
CONSTANTS
  Lengths = {3}
  MaxChains = 2
  MaxLoads = 1
  MaxData = 2
  Levels = {0, 1}
  Readings = {r1}
  Cities = {c}
  Sims = {sim}
  Here = here
  Nowhere = nowhere
  OfficerRequests = {q1, q2}
  MaxTokens = 3
  Drives <- TwoDrives
  NoDrive = NoDrive
  MaxPieces = 2
  MaxAsks = 2
  MaxPhotos = 3
INVARIANTS ClientTypeOK OneStepAtATime MapIsTruthful RiskIsOfTheInputs RetryIsFresh
INVARIANTS AnimationShowsItsRoute InundationIsCurrent DescriptionIsKept PhotoShownIsSent
PROPERTIES TourEnds RoutesCatchUp
CHECK_DEADLOCK FALSE
