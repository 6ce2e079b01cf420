----------------------------- MODULE Simulation -----------------------------
(***************************************************************************)
(* The live flood scenario outside production (app/routers/simulation.py): *)
(* requests that reset the demo or trigger a scenario, and the background  *)
(* task that inserts the scenario's reports and flood zones step by step   *)
(* as long as its id is the active one.  The active id lives in Redis, and *)
(* in a global of each worker that is read when Redis does not answer.     *)
(*                                                                         *)
(* One action per await that reaches Redis, the database or the feed.      *)
(***************************************************************************)
EXTENDS Integers, FiniteSets

CONSTANTS
  Sims,            \* sim_ids, each drawn once (uuid4); they bound the triggers
  Workers,         \* uvicorn workers
  Requests,        \* reset and trigger requests open at the same time
  Steps,           \* length of sos_reports_data (12 in the code)
  ConfirmedSteps,  \* the steps that come with a confirmation (add_confirmation)
  ZoneSteps,       \* the steps of flood_zone_sequence
  RedisMode,       \* "up"; "down": every call to it fails; "flaky": any call may
  MayFail,         \* may workers die and database calls raise?
  NoSim, NoWorker

ASSUME NoSimIsNoId == NoSim \notin Sims
ASSUME NoWorkerIsNoWorker == NoWorker \notin Workers
ASSUME StepsAreNumbers == Steps \in Nat \ {0}
ASSUME ModesAreKnown == RedisMode \in {"up", "down", "flaky"} /\ MayFail \in BOOLEAN

VARIABLES
  redis,      \* the value of surakshagrid:active_sim_id
  memory,     \* _active_sim_id of each worker
  reports,    \* <<sim_id, step>> of sos_reports
  fleets,     \* the sim_ids of rescue_units
  zones,      \* <<sim_id, step>> of flood_zones
  announced,  \* what was handed to ws_manager.publish
  request,    \* what each open request is doing
  runner,     \* what run_staggered_simulation of each id is doing
  cancelled,  \* history: ids that a reset or a newer trigger has replaced
  late        \* history: rows inserted for an id that was cancelled by then

tables == <<reports, fleets, zones>>
vars == <<redis, memory, reports, fleets, zones, announced, request, runner,
          cancelled, late>>

SimOrNone == Sims \cup {NoSim}
StepSet == 0 .. Steps - 1
Inserts == Sims \X StepSet

Message(type, x, step) == [type |-> type, sim |-> x, step |-> step]
MessageSet == [type : {"SOS_CREATED", "SOS_CONFIRMED", "ZONE_EXPANDED",
                       "SIMULATION_COMPLETE", "SCENARIO_RESET"},
               sim : SimOrNone, step : StepSet]

RequestPCs == {"idle", "clear", "reports", "units", "zones", "commit",
               "announce", "activate", "seed"}
RunnerPCs == {"none", "drawn", "active", "check", "check_slept", "check_insert",
              "insert", "announce", "announce_confirmed", "zone", "announce_zone",
              "check_complete", "complete", "announce_complete", "final",
              "final_clear", "done"}

\* reports, fleets and zones of a request are the rows its DELETE statements
\* have taken.
RequestSet ==
  [pc : RequestPCs, worker : Workers \cup {NoWorker}, triggers : BOOLEAN,
   sim : SimOrNone, reports : SUBSET Inserts, fleets : SUBSET Sims,
   zones : SUBSET Inserts]
Idle ==
  [pc |-> "idle", worker |-> NoWorker, triggers |-> FALSE, sim |-> NoSim,
   reports |-> {}, fleets |-> {}, zones |-> {}]
RunnerSet ==
  [pc : RunnerPCs, worker : Workers \cup {NoWorker}, step : StepSet]
NotStarted == [pc |-> "none", worker |-> NoWorker, step |-> 0]

TypeOK ==
  /\ redis \in SimOrNone
  /\ memory \in [Workers -> SimOrNone]
  /\ reports \subseteq Inserts
  /\ fleets \subseteq Sims
  /\ zones \subseteq Inserts
  /\ announced \subseteq MessageSet
  /\ request \in [Requests -> RequestSet]
  /\ runner \in [Sims -> RunnerSet]
  /\ cancelled \subseteq Sims
  /\ late \subseteq {"report", "zone"} \X Sims \X StepSet

Init ==
  /\ redis = NoSim
  /\ memory = [w \in Workers |-> NoSim]
  /\ reports = {}
  /\ fleets = {}
  /\ zones = {}
  /\ announced = {}
  /\ request = [q \in Requests |-> Idle]
  /\ runner = [x \in Sims |-> NotStarted]
  /\ cancelled = {}
  /\ late = {}

-----------------------------------------------------------------------------
(* The active id *)

AnswersMay == RedisMode # "down"
FailsMay == RedisMode # "up"

\* What _get_active_sim_id may return in worker w: a call that fails falls back
\* to the worker's memory.
ActiveIds(w) ==
  (IF AnswersMay THEN {redis} ELSE {}) \cup (IF FailsMay THEN {memory[w]} ELSE {})

\* What Redis may hold after _set_active_sim_id has tried to store id: a failure
\* is only logged, whether or not the command had been carried out.
Stored(id) == (IF AnswersMay THEN {id} ELSE {}) \cup (IF FailsMay THEN {redis} ELSE {})

\* History: an attempt to store id cancels every other scenario that was ever
\* to be stored.
Cancels(id) ==
  cancelled \cup {x \in Sims \ {id} : runner[x].pc \notin {"none", "drawn"}}

-----------------------------------------------------------------------------
(* POST /simulation/reset and /simulation/trigger *)

RequestTo(q, label) == request' = [request EXCEPT ![q].pc = label]
RunnerTo(x, label) == runner' = [runner EXCEPT ![x].pc = label]

Reset(q, w, triggers) ==
  /\ request[q].pc = "idle"
  /\ memory' = [memory EXCEPT ![w] = NoSim]
  /\ request' = [request EXCEPT ![q] =
                   [Idle EXCEPT !.pc = "clear", !.worker = w, !.triggers = triggers]]
  /\ UNCHANGED <<redis, tables, announced, runner, cancelled, late>>

ClearActiveId(q) ==
  /\ request[q].pc = "clear"
  /\ redis' \in Stored(NoSim)
  /\ cancelled' = Cancels(NoSim)
  /\ RequestTo(q, "reports")
  /\ UNCHANGED <<memory, tables, announced, runner, late>>

\* Each DELETE takes what is committed when it starts.  Mutated: a reset
\* forgets one of the tables.
NoReports == {}
DeletedReports == reports
DeletedFleets == fleets

DeleteReports(q) ==
  /\ request[q].pc = "reports"
  /\ request' = [request EXCEPT ![q].pc = "units", ![q].reports = DeletedReports]
  /\ UNCHANGED <<redis, memory, tables, announced, runner, cancelled, late>>

DeleteUnits(q) ==
  /\ request[q].pc = "units"
  /\ request' = [request EXCEPT ![q].pc = "zones", ![q].fleets = DeletedFleets]
  /\ UNCHANGED <<redis, memory, tables, announced, runner, cancelled, late>>

DeleteZones(q) ==
  /\ request[q].pc = "zones"
  /\ request' = [request EXCEPT ![q].pc = "commit", ![q].zones = zones]
  /\ UNCHANGED <<redis, memory, tables, announced, runner, cancelled, late>>

CommitReset(q) ==
  /\ request[q].pc = "commit"
  /\ reports' = reports \ request[q].reports
  /\ fleets' = fleets \ request[q].fleets
  /\ zones' = zones \ request[q].zones
  /\ RequestTo(q, "announce")
  /\ UNCHANGED <<redis, memory, announced, runner, cancelled, late>>

\* SCENARIO_RESET is published and a reset is over.
AnnounceReset(q) ==
  /\ request[q].pc = "announce"
  /\ ~request[q].triggers
  /\ announced' = announced \cup {Message("SCENARIO_RESET", NoSim, 0)}
  /\ request' = [request EXCEPT ![q] = Idle]
  /\ UNCHANGED <<redis, memory, tables, runner, cancelled, late>>

\* A trigger goes on: it draws an id and stores it in its worker's memory
\* before it awaits Redis.
AnnounceAndDraw(q, x) ==
  LET w == request[q].worker IN
  /\ request[q].pc = "announce"
  /\ request[q].triggers
  /\ runner[x].pc = "none"
  /\ announced' = announced \cup {Message("SCENARIO_RESET", NoSim, 0)}
  /\ memory' = [memory EXCEPT ![w] = x]
  /\ request' = [request EXCEPT ![q].pc = "activate", ![q].sim = x]
  /\ runner' = [runner EXCEPT ![x].pc = "drawn", ![x].worker = w]
  /\ UNCHANGED <<redis, tables, cancelled, late>>

Activate(q) ==
  LET x == request[q].sim IN
  /\ request[q].pc = "activate"
  /\ redis' \in Stored(x)
  /\ cancelled' = Cancels(x)
  /\ RequestTo(q, "seed")
  /\ RunnerTo(x, "active")
  /\ UNCHANGED <<memory, tables, announced, late>>

\* The fleet is committed, then the background task is scheduled.
SeedUnits(q) ==
  LET x == request[q].sim IN
  /\ request[q].pc = "seed"
  /\ fleets' = fleets \cup {x}
  /\ RunnerTo(x, "check")
  /\ request' = [request EXCEPT ![q] = Idle]
  /\ UNCHANGED <<redis, memory, reports, zones, announced, cancelled, late>>

\* A database call raises: the transaction is rolled back, 500 is returned.
FailRequest(q) ==
  /\ MayFail
  /\ request[q].pc \in {"reports", "units", "zones", "commit", "seed"}
  /\ request' = [request EXCEPT ![q] = Idle]
  /\ runner' = [x \in Sims |-> IF x = request[q].sim
                                 THEN [runner[x] EXCEPT !.pc = "done"]
                                 ELSE runner[x]]
  /\ UNCHANGED <<redis, memory, tables, announced, cancelled, late>>

-----------------------------------------------------------------------------
(* run_staggered_simulation *)

\* Mutated: a runner stops for a cleared id only, not for a newer one.
StopsWhenCleared(x, id) == id # NoSim
IsActive(x, id) == id = x

\* The checks at the head of a step, after its sleep and before its insert.
Check(x) ==
  /\ runner[x].pc \in {"check", "check_slept", "check_insert"}
  /\ \E id \in ActiveIds(runner[x].worker) :
       RunnerTo(x, IF ~IsActive(x, id) THEN "final"
                   ELSE CASE runner[x].pc = "check" -> "check_slept"
                          [] runner[x].pc = "check_slept" -> "check_insert"
                          [] runner[x].pc = "check_insert" -> "insert")
  /\ UNCHANGED <<redis, memory, tables, announced, request, cancelled, late>>

\* Rows of a cancelled scenario are late.
Late(table, x) ==
  IF x \in cancelled THEN late \cup {<<table, x, runner[x].step>>} ELSE late

Committed(x, step) == reports \cup {<<x, step>>}

Insert(x) ==
  /\ runner[x].pc = "insert"
  /\ reports' = Committed(x, runner[x].step)
  /\ late' = Late("report", x)
  /\ RunnerTo(x, "announce")
  /\ UNCHANGED <<redis, memory, fleets, zones, announced, request, cancelled>>

\* Where a runner goes after a step: the loop's next step, or its end.
\* Mutated: off by one in either direction.
AdvancedTooSoon(r) ==
  IF r.step + 2 < Steps THEN [r EXCEPT !.pc = "check", !.step = r.step + 1]
                        ELSE [r EXCEPT !.pc = "check_complete"]
AdvancedTooFar(r) ==
  IF r.step + 1 <= Steps THEN [r EXCEPT !.pc = "check", !.step = r.step + 1]
                         ELSE [r EXCEPT !.pc = "check_complete"]
Advanced(r) ==
  IF r.step + 1 < Steps THEN [r EXCEPT !.pc = "check", !.step = r.step + 1]
                        ELSE [r EXCEPT !.pc = "check_complete"]

Announce(x) ==
  LET r == runner[x]
      type == CASE r.pc = "announce" -> "SOS_CREATED"
                [] r.pc = "announce_confirmed" -> "SOS_CONFIRMED"
                [] r.pc = "announce_zone" -> "ZONE_EXPANDED"
  IN
  /\ r.pc \in {"announce", "announce_confirmed", "announce_zone"}
  /\ announced' = announced \cup {Message(type, x, r.step)}
  /\ runner' = [runner EXCEPT ![x] =
                  IF r.pc = "announce" /\ r.step \in ConfirmedSteps
                    THEN [r EXCEPT !.pc = "announce_confirmed"]
                  ELSE IF r.pc # "announce_zone" /\ r.step \in ZoneSteps
                    THEN [r EXCEPT !.pc = "zone"]
                  ELSE Advanced(r)]
  /\ UNCHANGED <<redis, memory, tables, request, cancelled, late>>

\* The zone of a step is stored without another look at the active id.
ExpandZone(x) ==
  /\ runner[x].pc = "zone"
  /\ zones' = zones \cup {<<x, runner[x].step>>}
  /\ late' = Late("zone", x)
  /\ RunnerTo(x, "announce_zone")
  /\ UNCHANGED <<redis, memory, reports, fleets, announced, request, cancelled>>

CheckComplete(x) ==
  /\ runner[x].pc = "check_complete"
  /\ \E id \in ActiveIds(runner[x].worker) :
       RunnerTo(x, IF IsActive(x, id) THEN "complete" ELSE "final")
  /\ UNCHANGED <<redis, memory, tables, announced, request, cancelled, late>>

\* SCENARIO_COMPLETE is logged and the webhook called; neither is state here.
Complete(x) ==
  /\ runner[x].pc = "complete"
  /\ RunnerTo(x, "announce_complete")
  /\ UNCHANGED <<redis, memory, tables, announced, request, cancelled, late>>

AnnounceComplete(x) ==
  /\ runner[x].pc = "announce_complete"
  /\ announced' = announced \cup {Message("SIMULATION_COMPLETE", x, 0)}
  /\ RunnerTo(x, "final")
  /\ UNCHANGED <<redis, memory, tables, request, cancelled, late>>

\* The finally block: the id is read, and if it is the runner's own it is
\* cleared, in memory at once and in Redis by a second call.  Mutated: the id
\* is left behind.
NeverClears(x, id) == FALSE
Clears(x, id) == id = x

Final(x) ==
  /\ runner[x].pc = "final"
  /\ \E id \in ActiveIds(runner[x].worker) :
       IF Clears(x, id)
         THEN /\ memory' = [memory EXCEPT ![runner[x].worker] = NoSim]
              /\ RunnerTo(x, "final_clear")
         ELSE /\ RunnerTo(x, "done")
              /\ UNCHANGED memory
  /\ UNCHANGED <<redis, tables, announced, request, cancelled, late>>

FinalClear(x) ==
  /\ runner[x].pc = "final_clear"
  /\ redis' \in Stored(NoSim)
  /\ RunnerTo(x, "done")
  /\ UNCHANGED <<memory, tables, announced, request, cancelled, late>>

\* A database call raises: the loop is left through the finally block.
FailRunner(x) ==
  /\ MayFail
  /\ runner[x].pc \in {"insert", "zone", "complete"}
  /\ RunnerTo(x, "final")
  /\ UNCHANGED <<redis, memory, tables, announced, request, cancelled, late>>

-----------------------------------------------------------------------------
(* Workers *)

\* A worker is killed and restarted: its memory, its requests and its
\* background tasks are gone, Redis and the database are not.
Crash(w) ==
  /\ MayFail
  /\ memory' = [memory EXCEPT ![w] = NoSim]
  /\ request' = [q \in Requests |-> IF request[q].worker = w THEN Idle ELSE request[q]]
  /\ runner' = [x \in Sims |-> IF runner[x].worker = w
                                 THEN [runner[x] EXCEPT !.pc = "done"]
                                 ELSE runner[x]]
  /\ UNCHANGED <<redis, tables, announced, cancelled, late>>

RequestStep(q) ==
  \/ ClearActiveId(q) \/ DeleteReports(q) \/ DeleteUnits(q) \/ DeleteZones(q)
  \/ CommitReset(q) \/ AnnounceReset(q) \/ (\E x \in Sims : AnnounceAndDraw(q, x))
  \/ Activate(q) \/ SeedUnits(q)
RunnerStep(x) ==
  \/ Check(x) \/ Insert(x) \/ Announce(x) \/ ExpandZone(x) \/ CheckComplete(x)
  \/ Complete(x) \/ AnnounceComplete(x) \/ Final(x) \/ FinalClear(x)

\* Bound: triggers are sent only while there is an id for each to draw.
IdsAreLeft ==
  Cardinality({q \in Requests : request[q].triggers /\ request[q].sim = NoSim})
    < Cardinality({x \in Sims : runner[x].pc = "none"})

Next ==
  \/ \E q \in Requests, w \in Workers : Reset(q, w, FALSE)
  \/ \E q \in Requests, w \in Workers : IdsAreLeft /\ Reset(q, w, TRUE)
  \/ \E q \in Requests : RequestStep(q) \/ FailRequest(q)
  \/ \E x \in Sims : RunnerStep(x) \/ FailRunner(x)
  \/ \E w \in Workers : Crash(w)

Spec == Init /\ [][Next]_vars

\* An await that has completed is continued; nobody has to send a request.
FairSpec ==
  /\ Spec
  /\ \A q \in Requests : WF_vars(RequestStep(q))
  /\ \A x \in Sims : WF_vars(RunnerStep(x))

-----------------------------------------------------------------------------
(* Properties *)

Running(x) == runner[x].pc \notin {"none", "drawn", "active", "done"}
Completed(x) == Message("SIMULATION_COMPLETE", x, 0) \in announced
NoRequestIsOpen == \A q \in Requests : request[q].pc = "idle"

\* A cancelled scenario adds at most the rows of the step it was in: its
\* report and the zone that goes with it, never those of a later step.
AtMostOneLateStep ==
  \A x \in Sims : \A a, b \in late : a[2] = x /\ b[2] = x => a[3] = b[3]

\* Between requests nothing is left of a scenario that has been cancelled, its
\* rescue units included, but the rows it stored after that: what a reset found,
\* it deleted (triggers that overlap can leave two fleets).
ResetsLeaveOnlyLateRows ==
  NoRequestIsOpen =>
    /\ fleets \cap cancelled = {}
    /\ \A x \in cancelled, step \in StepSet :
         /\ <<x, step>> \in reports => <<"report", x, step>> \in late
         /\ <<x, step>> \in zones => <<"zone", x, step>> \in late

\* The message that "All SOS reports spawned" follows each of them, the
\* confirmations and the zones included.
CompleteMeansSpawned ==
  \A x \in Sims : Completed(x) =>
    \A step \in StepSet :
      /\ Message("SOS_CREATED", x, step) \in announced
      /\ step \in ConfirmedSteps => Message("SOS_CONFIRMED", x, step) \in announced
      /\ step \in ZoneSteps => Message("ZONE_EXPANDED", x, step) \in announced

\* While Redis works and nothing fails, the stored id belongs to a scenario
\* that runs or is about to: none is left behind.
ActiveIdHasRunner ==
  redis # NoSim => Running(redis) \/ runner[redis].pc = "active"

\* A scenario that no reset or newer trigger has cancelled runs to its end
\* (the docstring's "guard against race conditions across Uvicorn workers").
OnlyRequestsCancel ==
  NoRequestIsOpen =>
    \A x \in Sims \ cancelled : runner[x].pc = "done" => Completed(x)

\* Every runner ends and gives its id up.
RunnersEnd ==
  \A x \in Sims : Running(x) ~> (runner[x].pc = "done" /\ redis # x)
=============================================================================
