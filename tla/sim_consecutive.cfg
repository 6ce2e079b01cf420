SPECIFICATION FairSpec
CONSTANTS
  Sims = {x1, x2}
  Workers = {w1}
  Requests = {q1}
  Steps = 3
  ConfirmedSteps <- FirstStep
  ZoneSteps <- SecondStep
  RedisMode = "up"
  MayFail = FALSE
  x1 = x1
  x2 = x2
  w1 = w1
  q1 = q1
  NoSim = NoSim
  NoWorker = NoWorker
INVARIANTS AtMostOneLateStep ResetsLeaveOnlyLateRows ActiveIdHasRunner
PROPERTY RunnersEnd
