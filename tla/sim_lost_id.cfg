SPECIFICATION Spec
CONSTANTS
  Sims = {x1, x2}
  Workers = {w1, w2}
  Requests = {q1}
  Steps = 2
  ConfirmedSteps <- FirstStep
  ZoneSteps <- SecondStep
  RedisMode = "up"
  MayFail = FALSE
  x1 = x1
  x2 = x2
  w1 = w1
  w2 = w2
  q1 = q1
  NoSim = NoSim
  NoWorker = NoWorker
SYMMETRY Interchangeable
INVARIANTS OnlyRequestsCancel
