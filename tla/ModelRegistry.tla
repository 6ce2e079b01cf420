---------------------------- MODULE ModelRegistry ----------------------------
(***************************************************************************)
(* The heavy models of one process (services/model_registry.py): each is   *)
(* loaded by the first thread that asks for it, and the manager evicts the *)
(* least recently used ones to make room.  Every model has a lock, and so  *)
(* has the manager; a thread may be suspended between any two steps.       *)
(***************************************************************************)
EXTENDS Naturals, Sequences, FiniteSets

CONSTANTS
  Registered,   \* the models, in the order they register with the manager
  Threads,      \* the threads of the pool that serve requests
  Caps,         \* the values MAX_RESIDENT_MODELS may be configured to
  NoModel, NoThread

Models == {Registered[i] : i \in DOMAIN Registered}

ASSUME RegistryAssumption ==
  /\ IsFiniteSet(Models) /\ NoModel \notin Models
  /\ IsFiniteSet(Threads) /\ NoThread \notin Threads
  /\ Caps \subseteq Nat

VARIABLES
  cap,          \* MAX_RESIDENT_MODELS; 0 switches eviction off
  resident,     \* the models whose _instance is set
  recency,      \* the models by last_used_at, the least recent first
  lock,         \* who holds the _lock of each model
  manager,      \* who holds the manager's _lock
  getting,      \* what each thread is doing, and for which model
  crowd         \* history: the most threads that were ever between listing the
                \* loaded models and the end of their load

registryVars == <<cap, resident, recency, lock, manager, getting, crowd>>

At(pc, m, others, victim) == [pc |-> pc, model |-> m, others |-> others, victim |-> victim]
Idle == At("idle", NoModel, {}, NoModel)

RegistryInit ==
  /\ cap \in Caps
  /\ resident = {} /\ recency = Registered
  /\ lock = [m \in Models |-> NoThread] /\ manager = NoThread
  /\ getting = [t \in Threads |-> Idle]
  /\ crowd = 0

\* last_used_at = time.monotonic()
Used(m) == Append(SelectSeq(recency, LAMBDA x : x # m), m)

IsOlder(m, n) ==
  \E i, j \in DOMAIN recency : recency[i] = m /\ recency[j] = n /\ i <= j

\* The threads that load, or are about to, whatever others make of it.
PastListing(g) == {t \in Threads : g[t].pc \in {"evict", "unload", "load"}}

Goes(t, step) ==
  /\ getting' = [getting EXCEPT ![t] = step]
  /\ crowd' = LET n == Cardinality(PastListing(getting')) IN IF n > crowd THEN n ELSE crowd

-----------------------------------------------------------------------------

\* get() looks at the instance without the lock.
Get(t, m) ==
  /\ getting[t].pc = "idle"
  /\ Goes(t, At(IF m \in resident THEN "hit" ELSE "lock", m, {}, NoModel))
  /\ UNCHANGED <<cap, resident, recency, lock, manager>>

\* It returns what the instance is by then: None, if it was evicted meanwhile.
FastReturn(t) ==
  /\ getting[t].pc = "hit"
  /\ recency' = Used(getting[t].model)
  /\ Goes(t, Idle)
  /\ UNCHANGED <<cap, resident, lock, manager>>

\* The lock is free; another thread has loaded the model in the meantime.
LockAndReturn(t) ==
  LET m == getting[t].model IN
  /\ getting[t].pc = "lock" /\ lock[m] = NoThread /\ m \in resident
  /\ recency' = Used(m)
  /\ Goes(t, Idle)
  /\ UNCHANGED <<cap, resident, lock, manager>>

LockAndLoad(t) ==
  LET m == getting[t].model IN
  /\ getting[t].pc = "lock" /\ lock[m] = NoThread /\ m \notin resident
  /\ lock' = [lock EXCEPT ![m] = t]
  /\ Goes(t, At(IF cap = 0 THEN "load" ELSE "room", m, {}, NoModel))
  /\ UNCHANGED <<cap, resident, recency, manager>>

(* (Mutant: all the models that are registered.) *)
AllOthers(m) == Models \ {m}
Others(m) == resident \ {m}

\* make_room_for() takes the manager's lock and lists the loaded models.
ListOthers(t) ==
  /\ getting[t].pc = "room" /\ manager = NoThread
  /\ manager' = t
  /\ Goes(t, At("evict", getting[t].model, Others(getting[t].model), NoModel))
  /\ UNCHANGED <<cap, resident, recency, lock>>

(* (Mutant: room for one more than there is.) *)
IsOverfull(others) == Cardinality(others) > cap
IsFull(others) == Cardinality(others) >= cap

ChooseVictim(t) ==
  LET g == getting[t] IN
  /\ g.pc = "evict" /\ IsFull(g.others)
  /\ \E v \in g.others :
       /\ \A n \in g.others : IsOlder(v, n)
       /\ Goes(t, [g EXCEPT !.pc = "unload", !.victim = v])
  /\ UNCHANGED <<cap, resident, recency, lock, manager>>

\* unload() waits for the victim's lock.
Unload(t) ==
  LET g == getting[t] IN
  /\ g.pc = "unload" /\ lock[g.victim] = NoThread
  /\ resident' = resident \ {g.victim}
  /\ Goes(t, At("evict", g.model, g.others \ {g.victim}, NoModel))
  /\ UNCHANGED <<cap, recency, lock, manager>>

RoomMade(t) ==
  /\ getting[t].pc = "evict" /\ ~IsFull(getting[t].others)
  /\ manager' = NoThread
  /\ Goes(t, At("load", getting[t].model, {}, NoModel))
  /\ UNCHANGED <<cap, resident, recency, lock>>

Load(t) ==
  /\ getting[t].pc = "load"
  /\ resident' = resident \union {getting[t].model}
  /\ Goes(t, [getting[t] EXCEPT !.pc = "loaded"])
  /\ UNCHANGED <<cap, recency, lock, manager>>

\* ModelUnavailableError
LoadFails(t) ==
  /\ getting[t].pc = "load"
  /\ lock' = [lock EXCEPT ![getting[t].model] = NoThread]
  /\ Goes(t, Idle)
  /\ UNCHANGED <<cap, resident, recency, manager>>

Return(t) ==
  /\ getting[t].pc = "loaded"
  /\ recency' = Used(getting[t].model)
  /\ lock' = [lock EXCEPT ![getting[t].model] = NoThread]
  /\ Goes(t, Idle)
  /\ UNCHANGED <<cap, resident, manager>>

RegistryNext ==
  \E t \in Threads :
    \/ \E m \in Models : Get(t, m)
    \/ FastReturn(t) \/ LockAndReturn(t) \/ LockAndLoad(t)
    \/ ListOthers(t) \/ ChooseVictim(t) \/ Unload(t) \/ RoomMade(t)
    \/ Load(t) \/ LoadFails(t) \/ Return(t)

RegistrySpec == RegistryInit /\ [][RegistryNext]_registryVars

-----------------------------------------------------------------------------

\* No circle of waiting threads: whoever evicts holds its own model's lock and
\* the manager's, and waits at most for a thread that has loaded its model and
\* needs no further lock to return.
LocksAreOrdered ==
  \A t, u \in Threads :
    getting[t].pc = "unload" /\ lock[getting[t].victim] = u => getting[u].pc = "loaded"

\* MAX_RESIDENT_MODELS holds for loads that do not overlap, and each load that
\* overlaps with others exceeds it by one model at most.
OverlapsBoundResidents == cap > 0 => Cardinality(resident) < cap + crowd

=============================================================================
