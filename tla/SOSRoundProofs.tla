--------------------------- MODULE SOSRoundProofs ---------------------------
(***************************************************************************)
(* What no interleaving of requests can break in SOSDispatch: trust never  *)
(* exceeds the confirmations on record; and what holds where nothing is    *)
(* reset.  Each has an inductive invariant of its own, about what the      *)
(* coroutines hold in memory between their awaits.  That the rows of one   *)
(* round are a matching is a lemma that the serial refinement needs.       *)
(***************************************************************************)
EXTENDS SOSDispatchProofs

\* A session that moves replaces its own memory and nobody else's.
LEMMA Moved ==
  ASSUME TypeOK, NEW s \in Sessions, NEW label, NEW memory, Goto(s, label, memory)
  PROVE  \A t \in Sessions : /\ loc'[t] = IF t = s THEN memory ELSE loc[t]
                             /\ pc'[t] = IF t = s THEN label ELSE pc[t]
BY DEF Goto, TypeOK

-----------------------------------------------------------------------------
(* Rounds *)

\* A report and a unit are in one row of a round (one assigned_at) at most.
RoundsAreMatchings ==
  \A a, b \in assignments :
    (a.at = b.at /\ (a.sos = b.sos \/ a.unit = b.unit)) => a = b

\* Every round has a time of its own, planned and committed rows alike, and
\* both are matchings.
RoundInv ==
  /\ \A s \in Sessions : \A a \in loc[s].plan : a.at <= clock
  /\ \A a \in assignments : a.at <= clock
  /\ \A s, t \in Sessions : \A a \in loc[s].plan, b \in loc[t].plan :
       a.at = b.at => s = t
  /\ \A s \in Sessions : \A a \in loc[s].plan, b \in assignments : a.at # b.at
  /\ \A s \in Sessions : \A a, b \in loc[s].plan :
       (a.sos = b.sos \/ a.unit = b.unit) => a = b
  /\ RoundsAreMatchings

\* Only two steps of a dispatch add to a plan or to the rows.
NoRound ==
  /\ clock' = clock
  /\ assignments' \subseteq assignments
  /\ \A t \in Sessions : loc'[t].plan \subseteq loc[t].plan

LEMMA BlankPlan == Blank.plan = {}
BY DEF Blank

LEMMA FinishPlans ==
  ASSUME TypeOK, NEW s \in Sessions, Finish(s)
  PROVE  \A t \in Sessions : loc'[t].plan \subseteq loc[t].plan
BY Moved, BlankPlan DEF Finish

LEMMA WhoPlans ==
  ASSUME TypeOK, [Next]_vars
  PROVE  \/ NoRound
         \/ \E s \in Sessions : DispatchPlan(s) \/ DispatchCommit(s)
<1>1. CASE UNCHANGED vars
  BY <1>1 DEF vars, NoRound
<1>2. CASE Next
  <2>1. PICK s \in Sessions : Start(s) \/ Continue(s) \/ Crash(s)
    BY <1>2 DEF Next
  <2>k. ASSUME NEW label, NEW memory, Goto(s, label, memory),
               memory.plan \subseteq loc[s].plan
        PROVE  \A t \in Sessions : loc'[t].plan \subseteq loc[t].plan
    BY <2>k, Moved
  <2>l. loc[s] \in Locals
    BY DEF TypeOK
  <2>2. CASE Start(s)
    <3>1. ASSUME NEW r \in Reports, CreateReport(s, r) PROVE NoRound
      <4> DEFINE memory == [Blank EXCEPT !.sos = r,
                              !.outbox = {Event("SOS_CREATED", r, NoUnit, 0)}]
      <4>1. Goto(s, "refresh", memory) /\ memory.plan = {}
        BY <3>1 DEF CreateReport, Blank
      <4> HIDE DEF memory
      <4>2. \A t \in Sessions : loc'[t].plan \subseteq loc[t].plan
        BY <4>1, <2>k
      <4> QED BY <3>1, <4>2 DEF CreateReport, NoRound
    <3>2. ASSUME NEW r \in Reports, ConfirmRead(s, r) PROVE NoRound
      <4> DEFINE memory == [Blank EXCEPT !.sos = r, !.trust = trust[r]]
      <4>1. Goto(s, "confirm", memory) /\ memory.plan = {}
        BY <3>2 DEF ConfirmRead, Blank
      <4> HIDE DEF memory
      <4>2. \A t \in Sessions : loc'[t].plan \subseteq loc[t].plan
        BY <4>1, <2>k
      <4> QED BY <3>2, <4>2 DEF ConfirmRead, NoRound, tables
    <3>3. ASSUME NEW r \in Reports, ResolveRead(s, r) PROVE NoRound
      <4> DEFINE memory == [Blank EXCEPT !.sos = r, !.status = report[r]]
      <4>1. Goto(s, "resolve_row", memory) /\ memory.plan = {}
        BY <3>3 DEF ResolveRead, Blank
      <4> HIDE DEF memory
      <4>2. \A t \in Sessions : loc'[t].plan \subseteq loc[t].plan
        BY <4>1, <2>k
      <4> QED BY <3>3, <4>2 DEF ResolveRead, NoRound, tables
    <3>4. ASSUME NEW scope \in Scopes, DispatchRead(s, scope) PROVE NoRound
      <4> DEFINE memory == [Blank EXCEPT !.scope = scope, !.reports = Waiting(scope)]
      <4>1. Goto(s, "dispatch_units", memory) /\ memory.plan = {}
        BY <3>4 DEF DispatchRead, Blank
      <4> HIDE DEF memory
      <4>2. \A t \in Sessions : loc'[t].plan \subseteq loc[t].plan
        BY <4>1, <2>k
      <4> QED BY <3>4, <4>2 DEF DispatchRead, NoRound, tables
    <3>5. ASSUME NEW seeds \in BOOLEAN, ResetReports(s, seeds) PROVE NoRound
      <4> DEFINE memory == [Blank EXCEPT !.reports = LiveReports, !.seeds = seeds]
      <4>1. Goto(s, "reset_units", memory) /\ memory.plan = {}
        BY <3>5 DEF ResetReports, Blank
      <4> HIDE DEF memory
      <4>2. \A t \in Sessions : loc'[t].plan \subseteq loc[t].plan
        BY <4>1, <2>k
      <4> QED BY <3>5, <4>2 DEF ResetReports, NoRound, tables
    <3> QED BY <2>2, <3>1, <3>2, <3>3, <3>4, <3>5 DEF Start
  <2>3. CASE Continue(s)
    <3>1. CASE ConfirmCommit(s)
      <4> DEFINE memory == [Blank EXCEPT !.sos = loc[s].sos,
                  !.outbox = {Event("SOS_CONFIRMED", loc[s].sos, NoUnit, 0)}]
      <4>1. Goto(s, "refresh", memory) /\ memory.plan = {}
        BY <3>1 DEF ConfirmCommit, Blank
      <4> HIDE DEF memory
      <4>2. \A t \in Sessions : loc'[t].plan \subseteq loc[t].plan
        BY <4>1, <2>k
      <4> QED BY <3>1, <4>2 DEF ConfirmCommit, NoRound
    <3>2. CASE ResolveFindRow(s)
      <4>1. CASE Goto(s, "resolve_commit", loc[s])
        BY <3>2, <4>1, <2>k DEF ResolveFindRow, NoRound, tables
      <4>2. ASSUME NEW row, Goto(s, "resolve_unit", [loc[s] EXCEPT !.row = row])
            PROVE  NoRound
        <5> DEFINE memory == [loc[s] EXCEPT !.row = row]
        <5>1. Goto(s, "resolve_unit", memory) /\ memory.plan = loc[s].plan
          BY <4>2, <2>l DEF Locals
        <5> HIDE DEF memory
        <5>2. \A t \in Sessions : loc'[t].plan \subseteq loc[t].plan
          BY <5>1, <2>k
        <5> QED BY <3>2, <5>2 DEF ResolveFindRow, NoRound, tables
      <4> QED BY <3>2, <4>1, <4>2 DEF ResolveFindRow
    <3>3. CASE ResolveFindUnit(s)
      <4> DEFINE found == (unit[loc[s].row.unit] = "DISPATCHED")
                 memory == [loc[s] EXCEPT !.frees = found]
      <4>1. Goto(s, "resolve_commit", memory)
        BY <3>3 DEF ResolveFindUnit
      <4> HIDE DEF found
      <4>2. memory.plan = loc[s].plan
        BY <2>l DEF Locals
      <4> HIDE DEF memory
      <4>3. \A t \in Sessions : loc'[t].plan \subseteq loc[t].plan
        BY <4>1, <4>2, <2>k
      <4> QED BY <3>3, <4>3 DEF ResolveFindUnit, NoRound, tables
    <3>4. CASE ResolveCommit(s)
      <4> DEFINE memory == [Blank EXCEPT !.sos = loc[s].sos,
                  !.outbox = {Event("SOS_RESOLVED", loc[s].sos, FreedUnit(s), 0)}]
      <4>1. Goto(s, "refresh", memory) /\ memory.plan = {}
        BY <3>4 DEF ResolveCommit, Blank
      <4> HIDE DEF memory
      <4>2. \A t \in Sessions : loc'[t].plan \subseteq loc[t].plan
        BY <4>1, <2>k
      <4> QED BY <3>4, <4>2 DEF ResolveCommit, NoRound
    <3>5. CASE DispatchReadUnits(s)
      <4>1. CASE Finish(s)
        BY <3>5, <4>1, FinishPlans DEF DispatchReadUnits, NoRound, tables
      <4>2. ASSUME NEW found, Goto(s, "dispatch_plan", [loc[s] EXCEPT !.units = found])
            PROVE  NoRound
        <5> DEFINE memory == [loc[s] EXCEPT !.units = found]
        <5>1. Goto(s, "dispatch_plan", memory) /\ memory.plan = loc[s].plan
          BY <4>2, <2>l DEF Locals
        <5> HIDE DEF memory
        <5>2. \A t \in Sessions : loc'[t].plan \subseteq loc[t].plan
          BY <5>1, <2>k
        <5> QED BY <3>5, <5>2 DEF DispatchReadUnits, NoRound, tables
      <4> QED BY <3>5, <4>1, <4>2 DEF DispatchReadUnits
    <3>6. CASE ResetUnits(s)
      <4> DEFINE memory == [loc[s] EXCEPT !.units = LiveUnits]
      <4>1. Goto(s, "reset_commit", memory) /\ memory.plan = loc[s].plan
        BY <3>6, <2>l DEF ResetUnits, Locals
      <4> HIDE DEF memory
      <4>2. \A t \in Sessions : loc'[t].plan \subseteq loc[t].plan
        BY <4>1, <2>k
      <4> QED BY <3>6, <4>2 DEF ResetUnits, NoRound, tables
    <3>7. CASE ResetCommit(s)
      <4> DEFINE memory == [Blank EXCEPT
                   !.outbox = {Event("SCENARIO_RESET", NoReport, NoUnit, 0)},
                   !.seeds = loc[s].seeds]
      <4>1. Goto(s, "publish", memory) /\ memory.plan = {}
        BY <3>7 DEF ResetCommit, Blank
      <4> HIDE DEF memory
      <4>2. \A t \in Sessions : loc'[t].plan \subseteq loc[t].plan
        BY <4>1, <2>k
      <4> QED BY <3>7, <4>2 DEF ResetCommit, NoRound
    <3>8. CASE SeedFleet(s)
      BY <3>8, FinishPlans DEF SeedFleet, NoRound
    <3>9. CASE RollBack(s)
      BY <3>9, FinishPlans DEF RollBack, NoRound, tables
    <3>10. CASE Refresh(s)
      <4>1. CASE Finish(s)
        BY <3>10, <4>1, FinishPlans DEF Refresh, NoRound, tables
      <4>2. CASE Goto(s, "publish", loc[s])
        BY <3>10, <4>2, <2>k DEF Refresh, NoRound, tables
      <4> QED BY <3>10, <4>1, <4>2 DEF Refresh
    <3>11. CASE Publish(s)
      <4>1. UNCHANGED <<clock, assignments>>
        BY <3>11 DEF Publish, tables
      <4>2. CASE Finish(s)
        BY <4>1, <4>2, FinishPlans DEF NoRound
      <4>3. ASSUME NEW rest, Goto(s, "publish", [loc[s] EXCEPT !.outbox = rest])
            PROVE  NoRound
        <5> DEFINE memory == [loc[s] EXCEPT !.outbox = rest]
        <5>1. Goto(s, "publish", memory) /\ memory.plan = loc[s].plan
          BY <4>3, <2>l DEF Locals
        <5> HIDE DEF memory
        <5>2. \A t \in Sessions : loc'[t].plan \subseteq loc[t].plan
          BY <5>1, <2>k
        <5> QED BY <4>1, <5>2 DEF NoRound
      <4>4. CASE Goto(s, "seed", [Blank EXCEPT !.seeds = TRUE])
        <5> DEFINE memory == [Blank EXCEPT !.seeds = TRUE]
        <5>1. Goto(s, "seed", memory) /\ memory.plan = {}
          BY <4>4 DEF Blank
        <5> HIDE DEF memory
        <5>2. \A t \in Sessions : loc'[t].plan \subseteq loc[t].plan
          BY <5>1, <2>k
        <5> QED BY <4>1, <5>2 DEF NoRound
      <4> QED BY <3>11, <4>2, <4>3, <4>4 DEF Publish
    <3> QED BY <2>3, <3>1, <3>2, <3>3, <3>4, <3>5, <3>6, <3>7, <3>8, <3>9, <3>10, <3>11
            DEF Continue
  <2>4. CASE Crash(s)
    BY <2>4, FinishPlans DEF Crash, NoRound, tables
  <2> QED BY <2>1, <2>2, <2>3, <2>4
<1> QED BY <1>1, <1>2

LEMMA InitRounds == Init => RoundInv
BY DEF Init, RoundInv, Blank, RoundsAreMatchings

LEMMA StepRounds == TypeOK /\ RoundInv /\ [Next]_vars => RoundInv'
<1> SUFFICES ASSUME TypeOK, RoundInv, [Next]_vars PROVE RoundInv'
  OBVIOUS
<1>1. CASE NoRound
  BY <1>1 DEF NoRound, RoundInv, RoundsAreMatchings
<1>2. ASSUME NEW s \in Sessions, DispatchPlan(s) PROVE RoundInv'
  <2>1. PICK m \in Matchings(loc[s].reports, loc[s].units) :
          Goto(s, "dispatch_commit",
               [loc[s] EXCEPT !.plan =
                  {[sos |-> p[1], unit |-> p[2], at |-> clock + 1] : p \in m}])
    BY <1>2 DEF DispatchPlan
  <2> DEFINE plan == {[sos |-> p[1], unit |-> p[2], at |-> clock + 1] : p \in m}
             memory == [loc[s] EXCEPT !.plan = plan]
  <2>2. m \in SUBSET (loc[s].reports \X loc[s].units) /\ IsMatching(m)
    BY DEF Matchings
  <2>3. \A a \in plan : a.at = clock + 1
    OBVIOUS
  <2>4. \A a, b \in plan : (a.sos = b.sos \/ a.unit = b.unit) => a = b
    <3>1. SUFFICES ASSUME NEW p \in m, NEW q \in m, p[1] = q[1] \/ p[2] = q[2]
                   PROVE  p = q
      OBVIOUS
    <3> QED BY <2>2, <3>1 DEF IsMatching
  <2>a. Goto(s, "dispatch_commit", memory)
    BY <2>1
  <2> HIDE DEF plan
  <2>5. memory.plan = plan
    BY DEF TypeOK, Locals
  <2> HIDE DEF memory
  <2>6. \A t \in Sessions : loc'[t].plan = IF t = s THEN plan ELSE loc[t].plan
    BY <2>a, <2>5, Moved
  <2>7. clock \in Nat /\ clock' = clock + 1 /\ assignments' = assignments
    BY <1>2 DEF DispatchPlan, TypeOK, tables
  <2>8. /\ \A a \in assignments : a.at \in Nat
        /\ \A t \in Sessions : \A a \in loc[t].plan : a.at \in Nat
    BY DEF TypeOK, Locals, Assignment
  <2>9. \A t \in Sessions : \A a \in loc'[t].plan : a.at <= clock'
    BY <2>3, <2>6, <2>7, <2>8 DEF RoundInv
  <2>10. \A a \in assignments' : a.at <= clock'
    BY <2>7, <2>8 DEF RoundInv
  <2>11. \A t, x \in Sessions : \A a \in loc'[t].plan, b \in loc'[x].plan :
           a.at = b.at => t = x
    BY <2>3, <2>6, <2>7, <2>8 DEF RoundInv
  <2>12. \A t \in Sessions : \A a \in loc'[t].plan, b \in assignments' : a.at # b.at
    BY <2>3, <2>6, <2>7, <2>8 DEF RoundInv
  <2>13. \A t \in Sessions : \A a, b \in loc'[t].plan :
           (a.sos = b.sos \/ a.unit = b.unit) => a = b
    BY <2>4, <2>6 DEF RoundInv
  <2>14. RoundsAreMatchings'
    BY <2>7 DEF RoundInv, RoundsAreMatchings
  <2> QED BY <2>9, <2>10, <2>11, <2>12, <2>13, <2>14 DEF RoundInv
<1>3. ASSUME NEW s \in Sessions, DispatchCommit(s) PROVE RoundInv'
  <2> DEFINE log == {Dispatched(a) : a \in loc[s].plan}
             memory == [Blank EXCEPT !.outbox = log]
  <2>1. Goto(s, "publish", memory)
    BY <1>3 DEF DispatchCommit
  <2>2. memory.plan = {}
    BY DEF Blank
  <2> HIDE DEF memory
  <2>3. \A t \in Sessions : loc'[t].plan = IF t = s THEN {} ELSE loc[t].plan
    BY <2>1, <2>2, Moved
  <2>4. clock' = clock /\ assignments' = assignments \cup loc[s].plan
    BY <1>3 DEF DispatchCommit, Persisted
  <2>5. RoundsAreMatchings'
    BY <2>4 DEF RoundInv, RoundsAreMatchings
  <2>6. \A t \in Sessions : \A a \in loc'[t].plan, b \in assignments' : a.at # b.at
    BY <2>3, <2>4 DEF RoundInv
  <2>7. \A a \in assignments' : a.at <= clock'
    BY <2>4 DEF RoundInv
  <2> QED BY <2>3, <2>4, <2>5, <2>6, <2>7 DEF RoundInv
<1> QED BY WhoPlans, <1>1, <1>2, <1>3

-----------------------------------------------------------------------------
(* Trust *)

\* A confirmation in flight has read a report that existed, and has not read
\* more trust than that report has confirmations while it still exists.
ConfirmInv ==
  /\ TrustIsEarned
  /\ \A t \in Sessions : pc[t] = "confirm" =>
       /\ loc[t].sos \in Reports
       /\ report[loc[t].sos] # "ABSENT"
       /\ loc[t].sos \in LiveReports => loc[t].trust <= confirmations[loc[t].sos]

\* No session starts a confirmation, and those in flight keep what they read.
NoConfirmRead ==
  \A t \in Sessions : pc'[t] = "confirm" => pc[t] = "confirm" /\ loc'[t] = loc[t]

LEMMA WhoConfirms ==
  ASSUME TypeOK, [Next]_vars
  PROVE  \/ NoConfirmRead
         \/ \E s \in Sessions, r \in Reports : ConfirmRead(s, r)
<1>1. CASE UNCHANGED vars
  BY <1>1 DEF vars, NoConfirmRead
<1>2. CASE Next
  <2>1. PICK s \in Sessions : Start(s) \/ Continue(s) \/ Crash(s)
    BY <1>2 DEF Next
  <2>k. ASSUME NEW label, label # "confirm", NEW memory, Goto(s, label, memory)
        PROVE  NoConfirmRead
    BY <2>k, Moved DEF NoConfirmRead
  <2>f. Finish(s) => NoConfirmRead
    BY <2>k DEF Finish
  <2>2. CASE Start(s)
    <3>1. ASSUME NEW r \in Reports, CreateReport(s, r) PROVE NoConfirmRead
      BY <3>1, <2>k DEF CreateReport
    <3>2. ASSUME NEW r \in Reports, ResolveRead(s, r) PROVE NoConfirmRead
      BY <3>2, <2>k DEF ResolveRead
    <3>3. ASSUME NEW scope \in Scopes, DispatchRead(s, scope) PROVE NoConfirmRead
      BY <3>3, <2>k DEF DispatchRead
    <3>4. ASSUME NEW seeds \in BOOLEAN, ResetReports(s, seeds) PROVE NoConfirmRead
      BY <3>4, <2>k DEF ResetReports
    <3> QED BY <2>2, <3>1, <3>2, <3>3, <3>4 DEF Start
  <2>3. CASE Continue(s)
    <3>1. CASE ConfirmCommit(s)
      BY <3>1, <2>k DEF ConfirmCommit
    <3>2. CASE ResolveFindRow(s)
      BY <3>2, <2>k DEF ResolveFindRow
    <3>3. CASE ResolveFindUnit(s)
      BY <3>3, <2>k DEF ResolveFindUnit
    <3>4. CASE ResolveCommit(s)
      BY <3>4, <2>k DEF ResolveCommit
    <3>5. CASE DispatchReadUnits(s)
      BY <3>5, <2>k, <2>f DEF DispatchReadUnits
    <3>6. CASE DispatchPlan(s)
      BY <3>6, <2>k DEF DispatchPlan
    <3>7. CASE DispatchCommit(s)
      BY <3>7, <2>k DEF DispatchCommit
    <3>8. CASE ResetUnits(s)
      BY <3>8, <2>k DEF ResetUnits
    <3>9. CASE ResetCommit(s)
      BY <3>9, <2>k DEF ResetCommit
    <3>10. CASE SeedFleet(s) \/ RollBack(s)
      BY <3>10, <2>f DEF SeedFleet, RollBack
    <3>11. CASE Refresh(s)
      BY <3>11, <2>k, <2>f DEF Refresh
    <3>12. CASE Publish(s)
      BY <3>12, <2>k, <2>f DEF Publish
    <3> QED BY <2>3, <3>1, <3>2, <3>3, <3>4, <3>5, <3>6, <3>7, <3>8, <3>9, <3>10,
               <3>11, <3>12 DEF Continue
  <2>4. CASE Crash(s)
    BY <2>4, <2>f DEF Crash
  <2> QED BY <2>1, <2>2, <2>3, <2>4
<1> QED BY <1>1, <1>2

LEMMA InitConfirms == Init => ConfirmInv
BY DEF Init, ConfirmInv, TrustIsEarned

LEMMA StepConfirms == TypeOK /\ ConfirmInv /\ [Next]_vars => ConfirmInv'
<1> SUFFICES ASSUME TypeOK, ConfirmInv, [Next]_vars PROVE ConfirmInv'
  OBVIOUS
<1>t. /\ \A r \in Reports : trust[r] \in Nat /\ confirmations[r] \in Nat
      /\ \A t \in Sessions : loc[t].trust \in Nat
  BY DEF TypeOK, Locals
<1>1. ASSUME NEW s \in Sessions, NEW r \in Reports, ConfirmRead(s, r)
      PROVE  ConfirmInv'
  <2> DEFINE memory == [Blank EXCEPT !.sos = r, !.trust = trust[r]]
  <2>1. Goto(s, "confirm", memory) /\ UNCHANGED tables /\ r \in LiveReports
    BY <1>1 DEF ConfirmRead
  <2>2. memory.sos = r /\ memory.trust = trust[r]
    BY DEF Blank
  <2> HIDE DEF memory
  <2>3. \A t \in Sessions : /\ loc'[t] = IF t = s THEN memory ELSE loc[t]
                            /\ pc'[t] = IF t = s THEN "confirm" ELSE pc[t]
    BY <2>1, Moved
  <2>4. UNCHANGED <<report, trust, confirmations>>
    BY <2>1 DEF tables
  <2>5. report[r] # "ABSENT" /\ trust[r] <= confirmations[r]
    BY <2>1 DEF LiveReports, ReportStatus, ConfirmInv, TrustIsEarned
  <2> QED BY <2>2, <2>3, <2>4, <2>5 DEF ConfirmInv, TrustIsEarned, LiveReports
<1>2. CASE NoConfirmRead
  <2>k. ASSUME \* what a step must keep for the confirmations in flight
               TrustIsEarned',
               \A r \in Reports : report[r] # "ABSENT" => report'[r] # "ABSENT",
               \A r \in Reports : (r \in LiveReports' /\ report[r] # "ABSENT") =>
                 r \in LiveReports /\ confirmations[r] <= confirmations'[r],
               \A r \in Reports : confirmations'[r] \in Nat
        PROVE  ConfirmInv'
    <3> SUFFICES ASSUME NEW t \in Sessions, pc'[t] = "confirm"
                 PROVE  /\ loc'[t].sos \in Reports
                        /\ report'[loc'[t].sos] # "ABSENT"
                        /\ loc'[t].sos \in LiveReports' =>
                             loc'[t].trust <= confirmations'[loc'[t].sos]
      BY <2>k DEF ConfirmInv
    <3>1. pc[t] = "confirm" /\ loc'[t] = loc[t]
      BY <1>2 DEF NoConfirmRead
    <3>2. /\ loc[t].sos \in Reports
          /\ report[loc[t].sos] # "ABSENT"
          /\ loc[t].sos \in LiveReports => loc[t].trust <= confirmations[loc[t].sos]
      BY <3>1 DEF ConfirmInv
    <3> QED BY <2>k, <3>1, <3>2, <1>t
  <2>1. CASE UNCHANGED tables
    <3>1. UNCHANGED <<report, trust, confirmations>>
      BY <2>1 DEF tables
    <3> QED BY <3>1, <2>k, <1>t DEF ConfirmInv, TrustIsEarned, LiveReports
  <2>2. ASSUME NEW s \in Sessions, NEW r \in Reports, CreateReport(s, r)
        PROVE  ConfirmInv'
    <3>1. /\ UNCHANGED <<trust, confirmations>>
          /\ report[r] = "ABSENT"
          /\ \A x \in Reports : report'[x] = IF x = r THEN "PENDING" ELSE report[x]
      BY <2>2 DEF CreateReport, TypeOK
    <3> QED BY <3>1, <2>k, <1>t DEF ConfirmInv, TrustIsEarned, LiveReports
  <2>3. ASSUME NEW s \in Sessions, ConfirmCommit(s) PROVE ConfirmInv'
    <3> DEFINE r == loc[s].sos
    <3>1. r \in LiveReports /\ r \in Reports
      BY <2>3, ConfirmedIsLive DEF LiveReports
    <3>2. loc[s].trust <= confirmations[r]
      BY <2>3, <3>1 DEF ConfirmInv, ConfirmCommit
    <3>3. /\ report' = report
          /\ trust' = [trust EXCEPT ![r] = loc[s].trust + 1]
          /\ confirmations' = [confirmations EXCEPT ![r] = @ + 1]
      BY <2>3 DEF ConfirmCommit, Trusted, Recorded
    <3> HIDE DEF r
    <3>4. \A x \in Reports :
            /\ trust'[x] = IF x = r THEN loc[s].trust + 1 ELSE trust[x]
            /\ confirmations'[x] = IF x = r THEN confirmations[r] + 1
                                   ELSE confirmations[x]
      BY <3>3, <3>1 DEF TypeOK
    <3>5. TrustIsEarned'
      BY <3>1, <3>2, <3>4, <1>t DEF ConfirmInv, TrustIsEarned
    <3> QED BY <3>3, <3>4, <3>5, <2>k, <1>t DEF LiveReports
  <2>4. ASSUME NEW s \in Sessions, ResolveCommit(s) PROVE ConfirmInv'
    <3>1. UNCHANGED <<trust, confirmations>>
      BY <2>4 DEF ResolveCommit
    <3>2. \A r \in Reports : report'[r] = report[r] \/ (r \in LiveReports /\ report'[r] = "RESOLVED")
      BY <2>4, ResolvedIsLive DEF ResolveCommit, TypeOK
    <3> QED BY <3>1, <3>2, <2>k, <1>t DEF ConfirmInv, TrustIsEarned, LiveReports
  <2>5. ASSUME NEW s \in Sessions, DispatchCommit(s) PROVE ConfirmInv'
    <3>1. UNCHANGED <<trust, confirmations>>
      BY <2>5 DEF DispatchCommit
    <3>2. \A r \in Reports : report'[r] = IF \E a \in loc[s].plan : a.sos = r
                                          THEN "ASSIGNED" ELSE report[r]
      BY <2>5 DEF DispatchCommit, NowAssigned
    <3>3. \A a \in loc[s].plan : a.sos \in LiveReports
      BY <2>5, PlanIsLive
    <3> QED BY <3>1, <3>2, <3>3, <2>k, <1>t DEF ConfirmInv, TrustIsEarned, LiveReports
  <2>6. ASSUME NEW s \in Sessions, ResetCommit(s) PROVE ConfirmInv'
    <3> DEFINE rs == loc[s].reports
    <3>1. \A r \in Reports :
            /\ report'[r] = IF r \in rs THEN "DELETED" ELSE report[r]
            /\ trust'[r] = IF r \in rs THEN 0 ELSE trust[r]
            /\ confirmations'[r] = IF r \in rs THEN 0 ELSE confirmations[r]
      BY <2>6 DEF ResetCommit
    <3> HIDE DEF rs
    <3>2. TrustIsEarned'
      BY <3>1, <1>t DEF ConfirmInv, TrustIsEarned
    <3> QED BY <3>1, <3>2, <2>k, <1>t DEF LiveReports, ReportStatus
  <2>7. ASSUME NEW s \in Sessions, SeedFleet(s) PROVE ConfirmInv'
    <3>1. UNCHANGED <<report, trust, confirmations>>
      BY <2>7 DEF SeedFleet
    <3> QED BY <3>1, <2>k, <1>t DEF ConfirmInv, TrustIsEarned, LiveReports
  <2> QED BY WhoWrites, <2>1, <2>2, <2>3, <2>4, <2>5, <2>6, <2>7
<1> QED BY WhoConfirms, <1>1, <1>2

\* However confirmations overlap, trust stays within the confirmations on
\* record, and a confirmed report keeps some.
THEOREM TrustStaysEarned == Spec => []TrustIsEarned
<1>1. TypeInv => TypeOK
  BY DEF TypeInv
<1>2. ConfirmInv => TrustIsEarned
  BY DEF ConfirmInv
<1> QED BY InitTypes, StepTypes, InitConfirms, StepConfirms, <1>1, <1>2, PTL DEF Spec

-----------------------------------------------------------------------------
(* Production *)

NoReset == \A s \in Sessions : pc[s] \notin {"reset_units", "reset_commit"}

LEMMA NobodyResets ==
  ASSUME Environment = "production", TypeOK, NoReset, [Next]_vars
  PROVE  NoReset'
<1>1. CASE UNCHANGED vars
  BY <1>1 DEF vars, NoReset
<1>2. CASE Next
  <2>1. PICK s \in Sessions : Start(s) \/ Continue(s) \/ Crash(s)
    BY <1>2 DEF Next
  <2>k. ASSUME NEW label, label \notin {"reset_units", "reset_commit"},
               NEW memory, Goto(s, label, memory)
        PROVE  NoReset'
    BY <2>k, Moved DEF NoReset
  <2>f. Finish(s) => NoReset'
    BY <2>k DEF Finish
  <2>2. CASE Start(s)
    <3>1. ASSUME NEW r \in Reports, CreateReport(s, r) PROVE NoReset'
      BY <3>1, <2>k DEF CreateReport
    <3>2. ASSUME NEW r \in Reports, ConfirmRead(s, r) PROVE NoReset'
      BY <3>2, <2>k DEF ConfirmRead
    <3>3. ASSUME NEW r \in Reports, ResolveRead(s, r) PROVE NoReset'
      BY <3>3, <2>k DEF ResolveRead
    <3>4. ASSUME NEW scope \in Scopes, DispatchRead(s, scope) PROVE NoReset'
      BY <3>4, <2>k DEF DispatchRead
    <3>5. ASSUME NEW seeds \in BOOLEAN, ResetReports(s, seeds) PROVE NoReset'
      BY <3>5 DEF ResetReports
    <3> QED BY <2>2, <3>1, <3>2, <3>3, <3>4, <3>5 DEF Start
  <2>3. CASE Continue(s)
    <3>1. CASE ConfirmCommit(s)
      BY <3>1, <2>k DEF ConfirmCommit
    <3>2. CASE ResolveFindRow(s)
      BY <3>2, <2>k DEF ResolveFindRow
    <3>3. CASE ResolveFindUnit(s)
      BY <3>3, <2>k DEF ResolveFindUnit
    <3>4. CASE ResolveCommit(s)
      BY <3>4, <2>k DEF ResolveCommit
    <3>5. CASE DispatchReadUnits(s)
      BY <3>5, <2>k, <2>f DEF DispatchReadUnits
    <3>6. CASE DispatchPlan(s)
      BY <3>6, <2>k DEF DispatchPlan
    <3>7. CASE DispatchCommit(s)
      BY <3>7, <2>k DEF DispatchCommit
    <3>8. CASE ResetUnits(s) \/ ResetCommit(s)
      BY <3>8 DEF ResetUnits, ResetCommit, NoReset
    <3>9. CASE SeedFleet(s) \/ RollBack(s)
      BY <3>9, <2>f DEF SeedFleet, RollBack
    <3>10. CASE Refresh(s)
      BY <3>10, <2>k, <2>f DEF Refresh
    <3>11. CASE Publish(s)
      BY <3>11, <2>k, <2>f DEF Publish
    <3> QED BY <2>3, <3>1, <3>2, <3>3, <3>4, <3>5, <3>6, <3>7, <3>8, <3>9, <3>10, <3>11
            DEF Continue
  <2>4. CASE Crash(s)
    BY <2>4, <2>f DEF Crash
  <2> QED BY <2>1, <2>2, <2>3, <2>4
<1> QED BY <1>1, <1>2

BackedInv == NoReset /\ StatusIsBacked

LEMMA InitBacked == Init => BackedInv
BY DEF Init, BackedInv, NoReset, StatusIsBacked

LEMMA StepBacked ==
  ASSUME Environment = "production"
  PROVE  TypeOK /\ BackedInv /\ [Next]_vars => BackedInv'
<1> SUFFICES ASSUME TypeOK, BackedInv, [Next]_vars PROVE BackedInv'
  OBVIOUS
<1>0. NoReset'
  BY NobodyResets DEF BackedInv
<1>k. ASSUME assignments \subseteq assignments',
             \A r \in Reports : report'[r] = "ASSIGNED" =>
               report[r] = "ASSIGNED" \/ \E a \in assignments' : a.sos = r,
             \A u \in Units : unit'[u] = "DISPATCHED" =>
               unit[u] = "DISPATCHED" \/ \E a \in assignments' : a.unit = u
      PROVE  BackedInv'
  BY <1>k, <1>0 DEF BackedInv, StatusIsBacked
<1>1. CASE UNCHANGED tables
  <2>1. UNCHANGED <<report, unit, assignments>>
    BY <1>1 DEF tables
  <2> QED BY <2>1, <1>k
<1>2. ASSUME NEW s \in Sessions, NEW r \in Reports, CreateReport(s, r) PROVE BackedInv'
  BY <1>2, <1>k DEF CreateReport, TypeOK
<1>3. ASSUME NEW s \in Sessions, ConfirmCommit(s) PROVE BackedInv'
  BY <1>3, <1>k DEF ConfirmCommit
<1>4. ASSUME NEW s \in Sessions, ResolveCommit(s) PROVE BackedInv'
  BY <1>4, <1>k DEF ResolveCommit, TypeOK
<1>5. ASSUME NEW s \in Sessions, DispatchCommit(s) PROVE BackedInv'
  BY <1>5, <1>k DEF DispatchCommit, NowAssigned, Persisted
<1>6. ASSUME NEW s \in Sessions, ResetCommit(s) PROVE BackedInv'
  BY <1>6 DEF ResetCommit, BackedInv, NoReset
<1>7. ASSUME NEW s \in Sessions, SeedFleet(s) PROVE BackedInv'
  BY <1>7, <1>k DEF SeedFleet
<1> QED BY WhoWrites, <1>1, <1>2, <1>3, <1>4, <1>5, <1>6, <1>7

\* Where nothing is reset, every ASSIGNED report and every DISPATCHED unit has
\* its dispatch_assignments row, whatever rounds and resolves overlap.
THEOREM ProductionStaysBacked ==
  ASSUME Environment = "production"
  PROVE  Spec => []StatusIsBacked
<1>1. TypeInv => TypeOK
  BY DEF TypeInv
<1>2. BackedInv => StatusIsBacked
  BY DEF BackedInv
<1>3. TypeOK /\ BackedInv /\ [Next]_vars => BackedInv'
  BY StepBacked
<1> QED BY InitTypes, StepTypes, InitBacked, <1>3, <1>1, <1>2, PTL DEF Spec
=============================================================================
