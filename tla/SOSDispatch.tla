----------------------------- MODULE SOSDispatch -----------------------------
(***************************************************************************)
(* The life of SOS reports and rescue units in the FastAPI backend:        *)
(* citizens create and confirm reports, officers run the dispatch          *)
(* optimizer and resolve reports, and (outside production) reset or        *)
(* re-seed the demo (app/routers/sos.py, app/routers/dispatch.py,          *)
(* app/services/dispatch_optimizer.py, app/routers/simulation.py).         *)
(*                                                                         *)
(* Every request owns one database session (app/db/session.py).  A handler *)
(* is a coroutine that several workers run at once, so it is modelled as   *)
(* one action per await that reaches the database, OSRM or the feed.       *)
(* Postgres is READ COMMITTED: each SELECT sees the rows committed at that *)
(* moment, and what the ORM changed is flushed and committed in one step   *)
(* that rewrites exactly the columns the handler changed, whatever they    *)
(* have become meanwhile.                                                  *)
(***************************************************************************)
EXTENDS Integers, FiniteSets

CONSTANTS
  Reports,           \* ids of sos_reports rows, each used once (uuid4)
  Units,             \* ids of rescue_units rows, each used once (uuid4)
  Sessions,          \* database sessions open at the same time
  Dispatchers,       \* the sessions that may run a dispatch round
  InitialFleet,      \* the units scripts/seed_db.py has inserted
  FleetSize,         \* how many units a trigger inserts (7 in the code)
  Scopes,            \* the rows a round may use: all of them, those of one
                     \* sim_id, or fewer when a geometry cannot be parsed
  Environment,       \* settings.ENVIRONMENT
  MayCrash,          \* may a worker die, or the database abort a session?
  MaxConfirmations,  \* bound: no confirm starts above it
  MaxRounds,         \* bound: no dispatch round starts above it
  NoReport, NoUnit, NoRow

Rows == Reports \cup Units

ASSUME IdsAreDistinct ==
  /\ Reports \cap Units = {}
  /\ NoReport \notin Rows /\ NoUnit \notin Rows
  /\ NoRow \notin [sos : Reports, unit : Units, at : Nat]
ASSUME SessionsAreRoles == Dispatchers \subseteq Sessions
ASSUME FleetIsUnits == InitialFleet \subseteq Units /\ FleetSize \in Nat
ASSUME ScopesAreRows == Scopes \subseteq SUBSET Rows
ASSUME FlagsAreBoolean == MayCrash \in BOOLEAN
ASSUME BoundsAreNumbers == MaxConfirmations \in Nat /\ MaxRounds \in Nat

VARIABLES
  report,         \* sos_reports.status, or whether the row (still) exists
  trust,          \* sos_reports.trust_score
  confirmations,  \* number of sos_confirmations rows of the report
  unit,           \* rescue_units.status, or whether the row (still) exists
  assignments,    \* dispatch_assignments rows
  events,         \* event_log rows
  published,      \* events handed to ws_manager.publish
  clock,          \* the time of the latest round (assigned_at)
  pc,             \* the await each session is at
  loc             \* what each session's coroutine holds in memory

vars == <<report, trust, confirmations, unit, assignments, events, published,
          clock, pc, loc>>
tables == <<report, trust, confirmations, unit, assignments, events>>

ReportStatus == {"PENDING", "ASSIGNED", "RESOLVED"}
UnitStatus == {"AVAILABLE", "DISPATCHED"}
Assignment == [sos : Reports, unit : Units, at : Nat]

Event(type, r, u, t) == [type |-> type, sos |-> r, unit |-> u, at |-> t]
Dispatched(a) == Event("UNIT_DISPATCHED", a.sos, a.unit, a.at)
EventSet == [type : {"SOS_CREATED", "SOS_CONFIRMED", "SOS_RESOLVED",
                     "UNIT_DISPATCHED", "SCENARIO_RESET"},
             sos : Reports \cup {NoReport}, unit : Units \cup {NoUnit}, at : Nat]

LiveReports == {r \in Reports : report[r] \in ReportStatus}
LiveUnits == {u \in Units : unit[u] \in UnitStatus}
LiveRows == LiveReports \cup LiveUnits

\* The latest dispatch_assignments row of a report: ORDER BY assigned_at DESC
\* LIMIT 1.  (Any one of them, should two ever be as recent.)
RowsOf(r) == {a \in assignments : a.sos = r}
LatestRows(r) == {a \in RowsOf(r) : \A b \in RowsOf(r) : b.at <= a.at}

\* The coroutine's memory.  reports and units are the rows a dispatch round has
\* loaded, or those a reset has deleted without having committed yet.
Locals ==
  [sos : Reports \cup {NoReport}, status : ReportStatus \cup {"ABSENT"},
   trust : Nat, row : Assignment \cup {NoRow}, frees : BOOLEAN,
   scope : SUBSET Rows, reports : SUBSET Reports, units : SUBSET Units,
   plan : SUBSET Assignment, outbox : SUBSET EventSet, seeds : BOOLEAN]
Blank ==
  [sos |-> NoReport, status |-> "ABSENT", trust |-> 0, row |-> NoRow,
   frees |-> FALSE, scope |-> {}, reports |-> {}, units |-> {}, plan |-> {},
   outbox |-> {}, seeds |-> FALSE]

PCs == {"idle", "confirm", "resolve_row", "resolve_unit", "resolve_commit",
        "dispatch_units", "dispatch_plan", "dispatch_commit", "reset_units",
        "reset_commit", "seed", "refresh", "publish"}

TypeOK ==
  /\ report \in [Reports -> ReportStatus \cup {"ABSENT", "DELETED"}]
  /\ trust \in [Reports -> Nat]
  /\ confirmations \in [Reports -> Nat]
  /\ unit \in [Units -> UnitStatus \cup {"ABSENT", "DELETED"}]
  /\ assignments \subseteq Assignment
  /\ events \subseteq EventSet
  /\ published \subseteq EventSet
  /\ clock \in Nat
  /\ pc \in [Sessions -> PCs]
  /\ loc \in [Sessions -> Locals]

Init ==
  /\ report = [r \in Reports |-> "ABSENT"]
  /\ trust = [r \in Reports |-> 0]
  /\ confirmations = [r \in Reports |-> 0]
  /\ unit = [u \in Units |-> IF u \in InitialFleet THEN "AVAILABLE" ELSE "ABSENT"]
  /\ assignments = {}
  /\ events = {}
  /\ published = {}
  /\ clock = 0
  /\ pc = [s \in Sessions |-> "idle"]
  /\ loc = [s \in Sessions |-> Blank]

-----------------------------------------------------------------------------
(* Sessions, row locks and rollbacks *)

Goto(s, label, memory) ==
  /\ pc' = [pc EXCEPT ![s] = label]
  /\ loc' = [loc EXCEPT ![s] = memory]

Finish(s) == Goto(s, "idle", Blank)

\* Rows a reset has deleted and not committed are locked: a flush that touches
\* one waits for the reset to end.
LockedRows ==
  UNION {loc[s].reports \cup loc[s].units :
           s \in {x \in Sessions : pc[x] \in {"reset_units", "reset_commit"}}}

\* The rows a session's flush updates or refers to by a foreign key.  The ORM
\* leaves out a column whose value it has not changed: resolving a report that
\* was loaded RESOLVED writes nothing to it.
WrittenRows(s) ==
  CASE pc[s] = "confirm" -> {loc[s].sos}
    [] pc[s] = "resolve_commit" ->
         (IF loc[s].status = "RESOLVED" THEN {} ELSE {loc[s].sos})
           \cup (IF loc[s].frees THEN {loc[s].row.unit} ELSE {})
    [] pc[s] = "dispatch_commit" ->
         {a.sos : a \in loc[s].plan} \cup {a.unit : a \in loc[s].plan}
    [] OTHER -> {}

\* Mutated: the flush waits for locks but misses that a row is gone.
CanFlushBlindly(s) == WrittenRows(s) \cap LockedRows = {}

CanFlush(s) ==
  /\ WrittenRows(s) \cap LockedRows = {}
  /\ WrittenRows(s) \subseteq LiveRows

\* Mutated: a confirmation does not notice that its report is gone.
RollBackExceptConfirm(s) ==
  /\ pc[s] \in {"resolve_commit", "dispatch_commit"}
  /\ ~(WrittenRows(s) \subseteq LiveRows)
  /\ Finish(s)
  /\ UNCHANGED <<tables, published, clock>>

\* An UPDATE that matches no row, or an INSERT whose parent is gone, raises
\* and the session rolls back: the request ends in a 500.
RollBack(s) ==
  /\ pc[s] \in {"confirm", "resolve_commit", "dispatch_commit"}
  /\ ~(WrittenRows(s) \subseteq LiveRows)
  /\ Finish(s)
  /\ UNCHANGED <<tables, published, clock>>

\* The worker dies, the database aborts the transaction, or the cost matrix is
\* not finite (ValueError): nothing uncommitted survives, and what was not
\* announced yet is never announced.
Crash(s) ==
  /\ MayCrash
  /\ pc[s] # "idle"
  /\ Finish(s)
  /\ UNCHANGED <<tables, published, clock>>

\* db.refresh after the commit: it raises when a reset has deleted the row.
Refresh(s) ==
  /\ pc[s] = "refresh"
  /\ IF loc[s].sos \in LiveReports
       THEN Goto(s, "publish", loc[s])
       ELSE Finish(s)
  /\ UNCHANGED <<tables, published, clock>>

\* What is left to announce after e.  Mutated: only the first message is sent.
NothingLeft(s, e) == {}
LeftToAnnounce(s, e) == loc[s].outbox \ {e}

\* ws_manager.publish, one message at a time; it never raises.
Publish(s) ==
  /\ pc[s] = "publish"
  /\ \E e \in loc[s].outbox :
       /\ published' = published \cup {e}
       /\ LET rest == LeftToAnnounce(s, e) IN
            IF rest # {} THEN Goto(s, "publish", [loc[s] EXCEPT !.outbox = rest])
            ELSE IF loc[s].seeds THEN Goto(s, "seed", [Blank EXCEPT !.seeds = TRUE])
            ELSE Finish(s)
  /\ UNCHANGED <<tables, clock>>

-----------------------------------------------------------------------------
(* POST /sos and POST /sos/{id}/confirm *)

CreateReport(s, r) ==
  LET e == Event("SOS_CREATED", r, NoUnit, 0) IN
  /\ pc[s] = "idle"
  /\ report[r] = "ABSENT"
  /\ report' = [report EXCEPT ![r] = "PENDING"]
  /\ events' = events \cup {e}
  /\ Goto(s, "refresh", [Blank EXCEPT !.sos = r, !.outbox = {e}])
  /\ UNCHANGED <<trust, confirmations, unit, assignments, published, clock>>

ConfirmRead(s, r) ==
  /\ pc[s] = "idle"
  /\ r \in LiveReports
  /\ confirmations[r] < MaxConfirmations
  /\ Goto(s, "confirm", [Blank EXCEPT !.sos = r, !.trust = trust[r]])
  /\ UNCHANGED <<tables, published, clock>>

\* report.trust_score += 1, computed from the value loaded by ConfirmRead.
\* Mutated: the wrong sign.
Distrust(s) == [trust EXCEPT ![loc[s].sos] = loc[s].trust - 1]
Trusted(s) == [trust EXCEPT ![loc[s].sos] = loc[s].trust + 1]

\* db.add(confirmation).  Mutated: the row is forgotten.
Unrecorded(s) == confirmations
Recorded(s) == [confirmations EXCEPT ![loc[s].sos] = @ + 1]

ConfirmCommit(s) ==
  LET r == loc[s].sos
      e == Event("SOS_CONFIRMED", r, NoUnit, 0) IN
  /\ pc[s] = "confirm"
  /\ CanFlush(s)
  /\ trust' = Trusted(s)
  /\ confirmations' = Recorded(s)
  /\ events' = events \cup {e}
  /\ Goto(s, "refresh", [Blank EXCEPT !.sos = r, !.outbox = {e}])
  /\ UNCHANGED <<report, unit, assignments, published, clock>>

-----------------------------------------------------------------------------
(* POST /sos/{id}/resolve *)

ResolveRead(s, r) ==
  /\ pc[s] = "idle"
  /\ r \in LiveReports
  /\ Goto(s, "resolve_row", [Blank EXCEPT !.sos = r, !.status = report[r]])
  /\ UNCHANGED <<tables, published, clock>>

ResolveFindRow(s) ==
  /\ pc[s] = "resolve_row"
  /\ \/ /\ RowsOf(loc[s].sos) = {}
        /\ Goto(s, "resolve_commit", loc[s])
     \/ \E row \in LatestRows(loc[s].sos) :
          Goto(s, "resolve_unit", [loc[s] EXCEPT !.row = row])
  /\ UNCHANGED <<tables, published, clock>>

ResolveFindUnit(s) ==
  /\ pc[s] = "resolve_unit"
  /\ Goto(s, "resolve_commit",
          [loc[s] EXCEPT !.frees = (unit[loc[s].row.unit] = "DISPATCHED")])
  /\ UNCHANGED <<tables, published, clock>>

\* The unit the handler frees.  Mutated: the report is resolved, its unit forgotten.
FreesNothing(s) == NoUnit
FreedUnit(s) == IF loc[s].frees THEN loc[s].row.unit ELSE NoUnit

ResolveCommit(s) ==
  LET r == loc[s].sos
      freed == FreedUnit(s)
      e == Event("SOS_RESOLVED", r, freed, 0) IN
  /\ pc[s] = "resolve_commit"
  /\ CanFlush(s)
  /\ report' = IF loc[s].status = "RESOLVED" THEN report
               ELSE [report EXCEPT ![r] = "RESOLVED"]
  /\ unit' = [u \in Units |-> IF u = freed THEN "AVAILABLE" ELSE unit[u]]
  /\ events' = events \cup {e}
  /\ Goto(s, "refresh", [Blank EXCEPT !.sos = r, !.outbox = {e}])
  /\ UNCHANGED <<trust, confirmations, assignments, published, clock>>

-----------------------------------------------------------------------------
(* POST /dispatch/run and /dispatch/optimize *)

\* SELECT ... WHERE status = 'PENDING'.  Mutated: without the filter.
EveryReport(scope) == LiveReports \cap scope
Waiting(scope) == {r \in Reports \cap scope : report[r] = "PENDING"}

\* SELECT ... WHERE status = 'AVAILABLE'.  Mutated: without the filter.
EveryUnit(scope) == LiveUnits \cap scope
Free(scope) == {u \in Units \cap scope : unit[u] = "AVAILABLE"}

DispatchRead(s, scope) ==
  /\ pc[s] = "idle"
  /\ s \in Dispatchers
  /\ clock < MaxRounds
  /\ Goto(s, "dispatch_units",
          [Blank EXCEPT !.scope = scope, !.reports = Waiting(scope)])
  /\ UNCHANGED <<tables, published, clock>>

\* The early returns: nothing pending or nothing available ends the request.
DispatchReadUnits(s) ==
  LET found == Free(loc[s].scope) IN
  /\ pc[s] = "dispatch_units"
  /\ IF loc[s].reports = {} \/ found = {}
       THEN Finish(s)
       ELSE Goto(s, "dispatch_plan", [loc[s] EXCEPT !.units = found])
  /\ UNCHANGED <<tables, published, clock>>

\* What linear_sum_assignment returns: a matching that leaves no unit idle
\* while a report waits.  Which one it is depends on the durations, which OSRM
\* may make anything.  Mutated: the solver stops early.
IsMatching(m) ==
  \A p, q \in m : (p[1] = q[1] \/ p[2] = q[2]) => p = q

IsNonEmpty(m, rs, us) == m # {}
IsFull(m, rs, us) ==
  {p[1] : p \in m} = rs \/ {p[2] : p \in m} = us
Matchings(rs, us) ==
  {m \in SUBSET (rs \X us) : IsMatching(m) /\ IsFull(m, rs, us)}

DispatchPlan(s) ==
  /\ pc[s] = "dispatch_plan"
  /\ clock' = clock + 1
  /\ \E m \in Matchings(loc[s].reports, loc[s].units) :
       Goto(s, "dispatch_commit",
            [loc[s] EXCEPT !.plan =
               {[sos |-> p[1], unit |-> p[2], at |-> clock + 1] : p \in m}])
  /\ UNCHANGED <<tables, published>>

\* The flush writes the statuses blindly: WHERE id = ..., not WHERE status = ...
\* Mutated: the report keeps its status; the assignment row is not persisted.
StillPending(plan) == report
NowAssigned(plan) ==
  [r \in Reports |-> IF \E a \in plan : a.sos = r THEN "ASSIGNED" ELSE report[r]]
NotPersisted(plan) == assignments
Persisted(plan) == assignments \cup plan

DispatchCommit(s) ==
  LET plan == loc[s].plan
      log == {Dispatched(a) : a \in plan} IN
  /\ pc[s] = "dispatch_commit"
  /\ CanFlush(s)
  /\ report' = NowAssigned(plan)
  /\ unit' = [u \in Units |->
                IF \E a \in plan : a.unit = u THEN "DISPATCHED" ELSE unit[u]]
  /\ assignments' = Persisted(plan)
  /\ events' = events \cup log
  /\ Goto(s, "publish", [Blank EXCEPT !.outbox = log])
  /\ UNCHANGED <<trust, confirmations, published, clock>>

-----------------------------------------------------------------------------
(* POST /simulation/reset and /simulation/trigger *)

\* Bound: a trigger starts only while ids are left for the fleet it will insert.
FleetIsLeft ==
  LET seeding == {s \in Sessions : loc[s].seeds} IN
  Cardinality({u \in Units : unit[u] = "ABSENT"}) >= FleetSize * (1 + Cardinality(seeding))

\* DELETE FROM sos_reports: takes the rows committed by now, after waiting for
\* another reset that holds some of them.
ResetReports(s, seeds) ==
  /\ pc[s] = "idle"
  /\ Environment # "production"
  /\ seeds => FleetIsLeft
  /\ LockedRows \cap Reports = {}
  /\ Goto(s, "reset_units", [Blank EXCEPT !.reports = LiveReports, !.seeds = seeds])
  /\ UNCHANGED <<tables, published, clock>>

\* DELETE FROM rescue_units, a later statement with a snapshot of its own.
ResetUnits(s) ==
  /\ pc[s] = "reset_units"
  /\ LockedRows \cap Units = {}
  /\ Goto(s, "reset_commit", [loc[s] EXCEPT !.units = LiveUnits])
  /\ UNCHANGED <<tables, published, clock>>

\* Assignments and confirmations go with their parents (ON DELETE CASCADE).
ResetCommit(s) ==
  LET e == Event("SCENARIO_RESET", NoReport, NoUnit, 0)
      rs == loc[s].reports
      us == loc[s].units IN
  /\ pc[s] = "reset_commit"
  /\ report' = [r \in Reports |-> IF r \in rs THEN "DELETED" ELSE report[r]]
  /\ unit' = [u \in Units |-> IF u \in us THEN "DELETED" ELSE unit[u]]
  /\ trust' = [r \in Reports |-> IF r \in rs THEN 0 ELSE trust[r]]
  /\ confirmations' = [r \in Reports |-> IF r \in rs THEN 0 ELSE confirmations[r]]
  /\ assignments' = {a \in assignments : a.sos \notin rs /\ a.unit \notin us}
  /\ events' = events \cup {e}
  /\ Goto(s, "publish", [Blank EXCEPT !.outbox = {e}, !.seeds = loc[s].seeds])
  /\ UNCHANGED <<published, clock>>

\* The second half of a trigger: a fresh fleet, in a transaction of its own.
SeedFleet(s) ==
  /\ pc[s] = "seed"
  /\ \E us \in SUBSET {u \in Units : unit[u] = "ABSENT"} :
       /\ Cardinality(us) = FleetSize
       /\ unit' = [u \in Units |-> IF u \in us THEN "AVAILABLE" ELSE unit[u]]
  /\ Finish(s)
  /\ UNCHANGED <<report, trust, confirmations, assignments, events, published, clock>>

-----------------------------------------------------------------------------
Start(s) ==
  \/ \E r \in Reports : CreateReport(s, r) \/ ConfirmRead(s, r) \/ ResolveRead(s, r)
  \/ \E scope \in Scopes : DispatchRead(s, scope)
  \/ \E seeds \in BOOLEAN : ResetReports(s, seeds)

Continue(s) ==
  \/ ConfirmCommit(s)
  \/ ResolveFindRow(s) \/ ResolveFindUnit(s) \/ ResolveCommit(s)
  \/ DispatchReadUnits(s) \/ DispatchPlan(s) \/ DispatchCommit(s)
  \/ ResetUnits(s) \/ ResetCommit(s) \/ SeedFleet(s)
  \/ RollBack(s) \/ Refresh(s) \/ Publish(s)

Next == \E s \in Sessions : Start(s) \/ Continue(s) \/ Crash(s)

Spec == Init /\ [][Next]_vars

\* A coroutine that can take its next step does: the event loop is fair, the
\* OSRM call times out after 1.5 s and the pool hands out every connection.  The
\* fairness is strong because a flush may wait for row locks, which Postgres
\* grants to its waiters in turn.  Nothing obliges a client to start a request
\* or a worker to crash.
FairSpec == Spec /\ \A s \in Sessions : SF_vars(Continue(s))
-----------------------------------------------------------------------------
(* Properties that hold for every interleaving *)

\* The optimizer picks reports by status = PENDING: a report that already has a
\* dispatch_assignments row must never show up as PENDING again.
PendingIsUnassigned == \A a \in assignments : report[a.sos] # "PENDING"

\* No dispatch or confirmation survives, or slips in behind, the reset that
\* deletes its report or its unit.
RowsHaveParents ==
  /\ \A a \in assignments : a.sos \in LiveReports /\ a.unit \in LiveUnits
  /\ \A r \in Reports : confirmations[r] > 0 => r \in LiveReports

\* Confirmations that overwrite each other may lose points but never invent
\* one: the trust that weighs in the dispatch cost is at most the number of
\* sos_confirmations rows, and a confirmed report has some trust.
TrustIsEarned ==
  \A r \in Reports :
    /\ trust[r] <= confirmations[r]
    /\ confirmations[r] > 0 => trust[r] > 0

\* In production (no resets) an ASSIGNED report has a unit on record, and a
\* DISPATCHED unit a destination.
StatusIsBacked ==
  /\ \A r \in Reports : report[r] = "ASSIGNED" => \E a \in assignments : a.sos = r
  /\ \A u \in Units : unit[u] = "DISPATCHED" => \E a \in assignments : a.unit = u

\* As long as no worker dies and nothing is reset, every event of the log is
\* announced on the live feed, or its request is still about to announce it;
\* and nothing is announced that the log does not hold.
LogIsAnnounced ==
  events = published \cup UNION {loc[s].outbox : s \in Sessions}

(* Properties that hold when rounds, or requests, do not overlap *)

\* With one dispatch round at a time a report is sent at most one unit in its
\* life, even if it is being resolved or confirmed meanwhile.
OneRowPerReport == \A a, b \in assignments : a.sos = b.sos => a = b

\* With one dispatch round at a time the unit a new dispatch_assignments row
\* sends out is free when the row is committed.
RoundsTakeFreeUnits ==
  [][\A a \in assignments' \ assignments : unit[a.unit] = "AVAILABLE"]_vars

\* A DISPATCHED unit is on its way to a report that is still ASSIGNED, so that
\* resolving that report gives the unit back.
NoUnitIsStranded ==
  \A u \in Units :
    unit[u] = "DISPATCHED" =>
      \E a \in assignments :
        /\ a.unit = u /\ report[a.sos] = "ASSIGNED"
        /\ a \in LatestRows(a.sos)

(* Liveness *)

\* Every request ends: no handler waits for ever for rows a reset has locked.
RequestsEnd == \A s \in Sessions : pc[s] # "idle" ~> pc[s] = "idle"
=============================================================================
