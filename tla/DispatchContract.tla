-------------------------- MODULE DispatchContract --------------------------
(***************************************************************************)
(* What the SOS and dispatch endpoints promise, each as one indivisible    *)
(* operation on the tables: the specification a single request at a time   *)
(* implements (see MCSOSDispatch).  Statuses, ids and rows are those of    *)
(* SOSDispatch; sessions, awaits, locks and rollbacks are not visible      *)
(* here.                                                                   *)
(***************************************************************************)
EXTENDS Integers, FiniteSets

CONSTANTS
  Reports, Units, InitialFleet, FleetSize, Scopes, Environment,
  Times              \* the instants a round can be stamped with

VARIABLES report, trust, confirmations, unit, assignments

vars == <<report, trust, confirmations, unit, assignments>>

Init ==
  /\ report = [r \in Reports |-> "ABSENT"]
  /\ trust = [r \in Reports |-> 0]
  /\ confirmations = [r \in Reports |-> 0]
  /\ unit = [u \in Units |-> IF u \in InitialFleet THEN "AVAILABLE" ELSE "ABSENT"]
  /\ assignments = {}

Exists(r) == report[r] \notin {"ABSENT", "DELETED"}

Create(r) ==
  /\ report[r] = "ABSENT"
  /\ report' = [report EXCEPT ![r] = "PENDING"]
  /\ UNCHANGED <<trust, confirmations, unit, assignments>>

\* One more confirmation is one more point of trust.
Confirm(r) ==
  /\ Exists(r)
  /\ trust' = [trust EXCEPT ![r] = @ + 1]
  /\ confirmations' = [confirmations EXCEPT ![r] = @ + 1]
  /\ UNCHANGED <<report, unit, assignments>>

\* The unit sent last to the report is given back, if it is out.
Resolve(r) ==
  /\ Exists(r)
  /\ report' = [report EXCEPT ![r] = "RESOLVED"]
  /\ unit' = [u \in Units |->
                IF /\ unit[u] = "DISPATCHED"
                   /\ \E a \in assignments :
                        /\ a.sos = r /\ a.unit = u
                        /\ \A b \in assignments : b.sos = r => b.at <= a.at
                  THEN "AVAILABLE" ELSE unit[u]]
  /\ UNCHANGED <<trust, confirmations, assignments>>

\* A round sends AVAILABLE units of its scope to PENDING reports of its scope,
\* one to one, until one side runs out.
Dispatch(scope) ==
  LET waiting == {r \in Reports \cap scope : report[r] = "PENDING"}
      free == {u \in Units \cap scope : unit[u] = "AVAILABLE"} IN
  \E sent \in SUBSET (waiting \X free), t \in Times :
    /\ sent # {}
    /\ \A p, q \in sent : (p[1] = q[1]) <=> (p[2] = q[2])
    /\ Cardinality(sent) \in {Cardinality(waiting), Cardinality(free)}
    /\ report' = [r \in Reports |->
                    IF \E p \in sent : p[1] = r THEN "ASSIGNED" ELSE report[r]]
    /\ unit' = [u \in Units |->
                  IF \E p \in sent : p[2] = u THEN "DISPATCHED" ELSE unit[u]]
    /\ \A a \in assignments : a.at < t
    /\ assignments' = assignments \cup {[sos |-> p[1], unit |-> p[2], at |-> t] : p \in sent}
    /\ UNCHANGED <<trust, confirmations>>

Reset ==
  /\ Environment # "production"
  /\ report' = [r \in Reports |-> IF Exists(r) THEN "DELETED" ELSE report[r]]
  /\ unit' = [u \in Units |-> IF unit[u] = "ABSENT" THEN "ABSENT" ELSE "DELETED"]
  /\ trust' = [r \in Reports |-> 0]
  /\ confirmations' = [r \in Reports |-> 0]
  /\ assignments' = {}

Seed ==
  /\ Environment # "production"
  /\ \E us \in SUBSET {u \in Units : unit[u] = "ABSENT"} :
       /\ Cardinality(us) = FleetSize
       /\ unit' = [u \in Units |-> IF u \in us THEN "AVAILABLE" ELSE unit[u]]
  /\ UNCHANGED <<report, trust, confirmations, assignments>>

Next ==
  \/ \E r \in Reports : Create(r) \/ Confirm(r) \/ Resolve(r)
  \/ \E scope \in Scopes : Dispatch(scope)
  \/ Reset
  \/ Seed

Spec == Init /\ [][Next]_vars
=============================================================================
