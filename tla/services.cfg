SPECIFICATION Spec
CONSTANTS
  Workers = {w1, w2}
  Clients = {c1, c2}
  Messages = {m1, m2}
  NoWorker = NoWorker
  Gone = Gone
  NoMessage = NoMessage
  Registered <- AllModels
  vlm = vlm
  whisper = whisper
  nllb = nllb
  Threads = {t1, t2, t3}
  Caps = {0, 1, 2}
  NoModel = NoModel
  NoThread = NoThread
  Limit = 5
  Submissions = {q1, q2}
  MaxCount = 7
SYMMETRY Interchangeable
INVARIANTS LocksAreOrdered OverlapsBoundResidents CountersExpire DeliveredOnce RelayedInOneOrder
CHECK_DEADLOCK FALSE
