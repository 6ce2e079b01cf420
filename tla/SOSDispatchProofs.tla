-------------------------- MODULE SOSDispatchProofs --------------------------
(***************************************************************************)
(* Theorems about SOSDispatch, for every set of reports, units and         *)
(* sessions.                                                               *)
(***************************************************************************)
EXTENDS SOSDispatch, TLAPS

-----------------------------------------------------------------------------
(* Types *)

\* A coroutine starts with nothing in memory.
LEMMA BlankType == Blank \in Locals
BY DEF Blank, Locals, ReportStatus

\* An event built from ids of the right kind is an event.
LEMMA EventType ==
  ASSUME NEW r \in Reports \cup {NoReport}, NEW u \in Units \cup {NoUnit}, NEW t \in Nat,
         NEW type \in {"SOS_CREATED", "SOS_CONFIRMED", "SOS_RESOLVED",
                       "UNIT_DISPATCHED", "SCENARIO_RESET"}
  PROVE  Event(type, r, u, t) \in EventSet
BY DEF Event, EventSet

LEMMA DispatchedType ==
  ASSUME NEW a \in Assignment
  PROVE  Dispatched(a) \in EventSet
BY DEF Dispatched, Event, EventSet, Assignment

\* Moving a session on keeps the sessions' types.
LEMMA GotoType ==
  ASSUME TypeOK, NEW s \in Sessions, NEW label \in PCs, NEW memory \in Locals,
         Goto(s, label, memory)
  PROVE  pc' \in [Sessions -> PCs] /\ loc' \in [Sessions -> Locals]
BY DEF TypeOK, Goto

LEMMA FinishType ==
  ASSUME TypeOK, NEW s \in Sessions, Finish(s)
  PROVE  pc' \in [Sessions -> PCs] /\ loc' \in [Sessions -> Locals]
BY BlankType, GotoType DEF Finish, PCs

\* TypeOK is not inductive alone: the unit a resolve frees is that of the row it
\* has found, so a session that looks for a unit, or frees one, has a row.
RowIsFound ==
  \A s \in Sessions :
    (pc[s] = "resolve_unit" \/ loc[s].frees) => loc[s].row \in Assignment

TypeInv == TypeOK /\ RowIsFound

LEMMA GotoRow ==
  ASSUME TypeInv, NEW s \in Sessions, NEW label \in PCs, NEW memory \in Locals,
         Goto(s, label, memory),
         (label = "resolve_unit" \/ memory.frees) => memory.row \in Assignment
  PROVE  /\ pc' \in [Sessions -> PCs] /\ loc' \in [Sessions -> Locals]
         /\ RowIsFound'
<1>1. pc' \in [Sessions -> PCs] /\ loc' \in [Sessions -> Locals]
  BY GotoType DEF TypeInv
<1>2. RowIsFound'
  BY DEF TypeInv, TypeOK, RowIsFound, Goto
<1> QED BY <1>1, <1>2

LEMMA FinishRow ==
  ASSUME TypeInv, NEW s \in Sessions, Finish(s)
  PROVE  /\ pc' \in [Sessions -> PCs] /\ loc' \in [Sessions -> Locals]
         /\ RowIsFound'
<1>1. "idle" \in PCs /\ ~Blank.frees
  BY DEF PCs, Blank
<1> QED BY <1>1, BlankType, GotoRow DEF Finish

LEMMA InitTypes == Init => TypeInv
<1> SUFFICES ASSUME Init PROVE TypeInv
  OBVIOUS
<1>1. TypeOK
  BY BlankType, FleetIsUnits DEF Init, TypeOK, PCs, ReportStatus, UnitStatus
<1>2. RowIsFound
  BY DEF Init, RowIsFound, Blank
<1> QED BY <1>1, <1>2 DEF TypeInv

LEMMA StepTypes == TypeInv /\ [Next]_vars => TypeInv'
<1> SUFFICES ASSUME TypeInv, [Next]_vars PROVE TypeInv'
  OBVIOUS
<1> USE DEF TypeInv
<1>a. TypeOK /\ RowIsFound
  OBVIOUS
<1>1. CASE UNCHANGED vars
  BY <1>1 DEF vars, TypeOK, RowIsFound
<1>2. ASSUME NEW s \in Sessions, NEW r \in Reports, CreateReport(s, r) PROVE TypeInv'
  <2> DEFINE e == Event("SOS_CREATED", r, NoUnit, 0)
             memory == [Blank EXCEPT !.sos = r, !.outbox = {e}]
  <2>1. e \in EventSet
    BY EventType
  <2>2. memory \in Locals /\ ~memory.frees
    BY <2>1, BlankType DEF Blank, Locals
  <2>3. Goto(s, "refresh", memory)
    BY <1>2 DEF CreateReport
  <2>4. "refresh" \in PCs
    BY DEF PCs
  <2> HIDE DEF memory
  <2>5. pc' \in [Sessions -> PCs] /\ loc' \in [Sessions -> Locals] /\ RowIsFound'
    BY <2>2, <2>3, <2>4, GotoRow
  <2> QED BY <1>2, <2>1, <2>5 DEF CreateReport, TypeOK, ReportStatus
<1>3. ASSUME NEW s \in Sessions, NEW r \in Reports, ConfirmRead(s, r) PROVE TypeInv'
  <2> DEFINE memory == [Blank EXCEPT !.sos = r, !.trust = trust[r]]
  <2>1. memory \in Locals /\ ~memory.frees
    BY BlankType DEF Blank, Locals, TypeOK
  <2>2. Goto(s, "confirm", memory) /\ "confirm" \in PCs
    BY <1>3 DEF ConfirmRead, PCs
  <2> HIDE DEF memory
  <2>3. pc' \in [Sessions -> PCs] /\ loc' \in [Sessions -> Locals] /\ RowIsFound'
    BY <2>1, <2>2, GotoRow
  <2> QED BY <1>3, <2>3 DEF ConfirmRead, TypeOK, tables
<1>4. ASSUME NEW s \in Sessions, ConfirmCommit(s) PROVE TypeInv'
  <2> DEFINE r == loc[s].sos
             e == Event("SOS_CONFIRMED", r, NoUnit, 0)
             memory == [Blank EXCEPT !.sos = r, !.outbox = {e}]
  <2>1. r \in Reports \cup {NoReport} /\ loc[s].trust \in Nat
    BY DEF TypeOK, Locals
  <2>2. e \in EventSet
    BY <2>1, EventType
  <2>3. memory \in Locals /\ ~memory.frees
    BY <2>1, <2>2, BlankType DEF Blank, Locals
  <2>4. Goto(s, "refresh", memory) /\ "refresh" \in PCs
    BY <1>4 DEF ConfirmCommit, PCs
  <2>5. trust' = Trusted(s) /\ confirmations' = Recorded(s)
        /\ events' = events \cup {e}
        /\ UNCHANGED <<report, unit, assignments, published, clock>>
    BY <1>4 DEF ConfirmCommit
  <2> HIDE DEF memory, e
  <2>6. pc' \in [Sessions -> PCs] /\ loc' \in [Sessions -> Locals] /\ RowIsFound'
    BY <2>3, <2>4, GotoRow
  <2>7. trust' \in [Reports -> Nat]
    <3>1. trust \in [Reports -> Nat] /\ loc[s].trust + 1 \in Nat
      BY <2>1 DEF TypeOK
    <3>2. trust' = [trust EXCEPT ![r] = loc[s].trust + 1]
      BY <2>5 DEF Trusted
    <3> HIDE DEF r
    <3> QED BY <3>1, <3>2
  <2>8. confirmations' \in [Reports -> Nat]
    <3>1. confirmations \in [Reports -> Nat]
      BY DEF TypeOK
    <3>2. confirmations' = [confirmations EXCEPT ![r] = @ + 1]
      BY <2>5 DEF Recorded
    <3>3. confirmations' =
            [x \in Reports |-> IF x = r THEN confirmations[x] + 1 ELSE confirmations[x]]
      BY <3>1, <3>2
    <3> HIDE DEF r
    <3> QED BY <3>1, <3>3
  <2> QED BY <2>2, <2>5, <2>6, <2>7, <2>8 DEF TypeOK
<1>5. ASSUME NEW s \in Sessions, NEW r \in Reports, ResolveRead(s, r) PROVE TypeInv'
  <2> DEFINE memory == [Blank EXCEPT !.sos = r, !.status = report[r]]
  <2>1. memory \in Locals /\ ~memory.frees
    BY <1>5, BlankType DEF Blank, Locals, TypeOK, ResolveRead, LiveReports
  <2>2. Goto(s, "resolve_row", memory) /\ "resolve_row" \in PCs
    BY <1>5 DEF ResolveRead, PCs
  <2> HIDE DEF memory
  <2>3. pc' \in [Sessions -> PCs] /\ loc' \in [Sessions -> Locals] /\ RowIsFound'
    BY <2>1, <2>2, GotoRow
  <2> QED BY <1>5, <2>3 DEF ResolveRead, TypeOK, tables
<1>6. ASSUME NEW s \in Sessions, ResolveFindRow(s) PROVE TypeInv'
  <2>1. CASE Goto(s, "resolve_commit", loc[s])
    <3>1. loc[s] \in Locals /\ "resolve_commit" \in PCs
      BY DEF TypeOK, PCs
    <3>2. loc[s].frees => loc[s].row \in Assignment
      BY DEF RowIsFound
    <3> QED BY <1>6, <2>1, <3>1, <3>2, GotoRow DEF ResolveFindRow, TypeOK, tables
  <2>2. ASSUME NEW row \in LatestRows(loc[s].sos),
               Goto(s, "resolve_unit", [loc[s] EXCEPT !.row = row])
        PROVE  TypeInv'
    <3> DEFINE memory == [loc[s] EXCEPT !.row = row]
    <3>1. row \in Assignment
      BY DEF LatestRows, RowsOf, TypeOK
    <3>2. memory \in Locals /\ memory.row \in Assignment /\ "resolve_unit" \in PCs
      BY <3>1 DEF TypeOK, Locals, PCs
    <3>3. Goto(s, "resolve_unit", memory)
      BY <2>2
    <3> HIDE DEF memory
    <3> QED BY <1>6, <3>2, <3>3, GotoRow DEF ResolveFindRow, TypeOK, tables
  <2> QED BY <1>6, <2>1, <2>2 DEF ResolveFindRow
<1>7. ASSUME NEW s \in Sessions, ResolveFindUnit(s) PROVE TypeInv'
  <2> DEFINE out == (unit[loc[s].row.unit] = "DISPATCHED")
             memory == [loc[s] EXCEPT !.frees = out]
  <2>a. out \in BOOLEAN
    OBVIOUS
  <2>b. loc[s].row \in Assignment /\ loc[s] \in Locals
    BY <1>7 DEF TypeOK, RowIsFound, ResolveFindUnit
  <2> HIDE DEF out
  <2>1. memory \in Locals /\ memory.row \in Assignment
    BY <2>a, <2>b DEF Locals
  <2>2. Goto(s, "resolve_commit", memory) /\ "resolve_commit" \in PCs
    BY <1>7 DEF ResolveFindUnit, PCs, out
  <2> HIDE DEF memory
  <2>3. pc' \in [Sessions -> PCs] /\ loc' \in [Sessions -> Locals] /\ RowIsFound'
    BY <2>1, <2>2, GotoRow
  <2> QED BY <1>7, <2>3 DEF ResolveFindUnit, TypeOK, tables
<1>8. ASSUME NEW s \in Sessions, ResolveCommit(s) PROVE TypeInv'
  <2> DEFINE r == loc[s].sos
             freed == FreedUnit(s)
             e == Event("SOS_RESOLVED", r, freed, 0)
             memory == [Blank EXCEPT !.sos = r, !.outbox = {e}]
  <2>1. r \in Reports \cup {NoReport}
    BY DEF TypeOK, Locals
  <2>2. freed \in Units \cup {NoUnit}
    BY DEF FreedUnit, RowIsFound, Assignment
  <2>3. e \in EventSet
    BY <2>1, <2>2, EventType
  <2>4. memory \in Locals /\ ~memory.frees
    BY <2>1, <2>3, BlankType DEF Blank, Locals
  <2>5. Goto(s, "refresh", memory) /\ "refresh" \in PCs
    BY <1>8 DEF ResolveCommit, PCs
  <2> HIDE DEF memory, e
  <2>6. pc' \in [Sessions -> PCs] /\ loc' \in [Sessions -> Locals] /\ RowIsFound'
    BY <2>4, <2>5, GotoRow
  <2>7. report' \in [Reports -> ReportStatus \cup {"ABSENT", "DELETED"}]
    BY <1>8 DEF ResolveCommit, TypeOK, ReportStatus
  <2>8. unit' \in [Units -> UnitStatus \cup {"ABSENT", "DELETED"}]
    BY <1>8 DEF ResolveCommit, TypeOK, UnitStatus
  <2>9. events' = events \cup {e}
    BY <1>8 DEF ResolveCommit, e
  <2> QED BY <1>8, <2>3, <2>6, <2>7, <2>8, <2>9 DEF ResolveCommit, TypeOK
<1>9. ASSUME NEW s \in Sessions, NEW scope \in Scopes, DispatchRead(s, scope) PROVE TypeInv'
  <2> DEFINE memory == [Blank EXCEPT !.scope = scope, !.reports = Waiting(scope)]
  <2>1. memory \in Locals /\ ~memory.frees
    BY ScopesAreRows, BlankType DEF Blank, Locals, Waiting
  <2>2. Goto(s, "dispatch_units", memory) /\ "dispatch_units" \in PCs
    BY <1>9 DEF DispatchRead, PCs
  <2> HIDE DEF memory
  <2>3. pc' \in [Sessions -> PCs] /\ loc' \in [Sessions -> Locals] /\ RowIsFound'
    BY <2>1, <2>2, GotoRow
  <2> QED BY <1>9, <2>3 DEF DispatchRead, TypeOK, tables
<1>10. ASSUME NEW s \in Sessions, DispatchReadUnits(s) PROVE TypeInv'
  <2>1. CASE Finish(s)
    BY <1>10, <2>1, FinishRow DEF DispatchReadUnits, TypeOK, tables
  <2> DEFINE memory == [loc[s] EXCEPT !.units = Free(loc[s].scope)]
  <2>2. CASE Goto(s, "dispatch_plan", memory)
    <3>1. memory \in Locals /\ "dispatch_plan" \in PCs
      BY DEF TypeOK, Locals, Free, PCs
    <3>2. memory.frees => memory.row \in Assignment
      BY DEF TypeOK, Locals, RowIsFound
    <3> HIDE DEF memory
    <3> QED BY <1>10, <2>2, <3>1, <3>2, GotoRow DEF DispatchReadUnits, TypeOK, tables
  <2> QED BY <1>10, <2>1, <2>2 DEF DispatchReadUnits
<1>11. ASSUME NEW s \in Sessions, DispatchPlan(s) PROVE TypeInv'
  <2>1. PICK m \in Matchings(loc[s].reports, loc[s].units) :
          Goto(s, "dispatch_commit",
               [loc[s] EXCEPT !.plan =
                  {[sos |-> p[1], unit |-> p[2], at |-> clock + 1] : p \in m}])
    BY <1>11 DEF DispatchPlan
  <2> DEFINE plan == {[sos |-> p[1], unit |-> p[2], at |-> clock + 1] : p \in m}
             memory == [loc[s] EXCEPT !.plan = plan]
  <2>2. clock + 1 \in Nat /\ loc[s].reports \subseteq Reports /\ loc[s].units \subseteq Units
    BY DEF TypeOK, Locals
  <2>3. m \subseteq Reports \X Units
    BY <2>2 DEF Matchings
  <2>4. plan \subseteq Assignment
    BY <2>2, <2>3 DEF Assignment
  <2> HIDE DEF plan
  <2>5. memory \in Locals /\ "dispatch_commit" \in PCs
    BY <2>4 DEF TypeOK, Locals, PCs
  <2>6. memory.frees => memory.row \in Assignment
    BY DEF TypeOK, Locals, RowIsFound
  <2>7. Goto(s, "dispatch_commit", memory)
    BY <2>1 DEF plan
  <2> HIDE DEF memory
  <2>8. pc' \in [Sessions -> PCs] /\ loc' \in [Sessions -> Locals] /\ RowIsFound'
    BY <2>5, <2>6, <2>7, GotoRow
  <2> QED BY <1>11, <2>2, <2>8 DEF DispatchPlan, TypeOK, tables
<1>12. ASSUME NEW s \in Sessions, DispatchCommit(s) PROVE TypeInv'
  <2> DEFINE plan == loc[s].plan
             log == {Dispatched(a) : a \in plan}
             memory == [Blank EXCEPT !.outbox = log]
  <2>1. plan \subseteq Assignment
    BY DEF TypeOK, Locals
  <2>2. log \subseteq EventSet
    BY <2>1, DispatchedType
  <2>3. memory \in Locals /\ ~memory.frees
    BY <2>2, BlankType DEF Blank, Locals
  <2>4. Goto(s, "publish", memory) /\ "publish" \in PCs
    BY <1>12 DEF DispatchCommit, PCs
  <2>5. events' = events \cup log /\ assignments' = assignments \cup plan
    BY <1>12 DEF DispatchCommit, Persisted
  <2> HIDE DEF memory, log
  <2>6. pc' \in [Sessions -> PCs] /\ loc' \in [Sessions -> Locals] /\ RowIsFound'
    BY <2>3, <2>4, GotoRow
  <2>7. report' \in [Reports -> ReportStatus \cup {"ABSENT", "DELETED"}]
    BY <1>12 DEF DispatchCommit, NowAssigned, TypeOK, ReportStatus
  <2>8. unit' \in [Units -> UnitStatus \cup {"ABSENT", "DELETED"}]
    BY <1>12 DEF DispatchCommit, TypeOK, UnitStatus
  <2> QED BY <1>12, <2>1, <2>2, <2>5, <2>6, <2>7, <2>8 DEF DispatchCommit, TypeOK
<1>13. ASSUME NEW s \in Sessions, NEW seeds \in BOOLEAN, ResetReports(s, seeds) PROVE TypeInv'
  <2> DEFINE memory == [Blank EXCEPT !.reports = LiveReports, !.seeds = seeds]
  <2>1. memory \in Locals /\ ~memory.frees
    BY BlankType DEF Blank, Locals, LiveReports
  <2>2. Goto(s, "reset_units", memory) /\ "reset_units" \in PCs
    BY <1>13 DEF ResetReports, PCs
  <2> HIDE DEF memory
  <2>3. pc' \in [Sessions -> PCs] /\ loc' \in [Sessions -> Locals] /\ RowIsFound'
    BY <2>1, <2>2, GotoRow
  <2> QED BY <1>13, <2>3 DEF ResetReports, TypeOK, tables
<1>14. ASSUME NEW s \in Sessions, ResetUnits(s) PROVE TypeInv'
  <2> DEFINE memory == [loc[s] EXCEPT !.units = LiveUnits]
  <2>1. memory \in Locals /\ (memory.frees => memory.row \in Assignment)
    BY DEF TypeOK, Locals, RowIsFound, LiveUnits
  <2>2. Goto(s, "reset_commit", memory) /\ "reset_commit" \in PCs
    BY <1>14 DEF ResetUnits, PCs
  <2> HIDE DEF memory
  <2>3. pc' \in [Sessions -> PCs] /\ loc' \in [Sessions -> Locals] /\ RowIsFound'
    BY <2>1, <2>2, GotoRow
  <2> QED BY <1>14, <2>3 DEF ResetUnits, TypeOK, tables
<1>15. ASSUME NEW s \in Sessions, ResetCommit(s) PROVE TypeInv'
  <2> DEFINE e == Event("SCENARIO_RESET", NoReport, NoUnit, 0)
             memory == [Blank EXCEPT !.outbox = {e}, !.seeds = loc[s].seeds]
  <2>1. e \in EventSet
    BY EventType
  <2>2. memory \in Locals /\ ~memory.frees
    BY <2>1, BlankType DEF Blank, Locals, TypeOK
  <2>3. Goto(s, "publish", memory) /\ "publish" \in PCs
    BY <1>15 DEF ResetCommit, PCs
  <2>4. events' = events \cup {e}
    BY <1>15 DEF ResetCommit
  <2> HIDE DEF memory, e
  <2>5. pc' \in [Sessions -> PCs] /\ loc' \in [Sessions -> Locals] /\ RowIsFound'
    BY <2>2, <2>3, GotoRow
  <2>6. /\ report' \in [Reports -> ReportStatus \cup {"ABSENT", "DELETED"}]
        /\ unit' \in [Units -> UnitStatus \cup {"ABSENT", "DELETED"}]
    BY <1>15 DEF ResetCommit, TypeOK
  <2>7. trust' \in [Reports -> Nat] /\ confirmations' \in [Reports -> Nat]
    BY <1>15 DEF ResetCommit, TypeOK
  <2>8. assignments' \subseteq Assignment /\ UNCHANGED <<published, clock>>
    BY <1>15 DEF ResetCommit, TypeOK
  <2> QED BY <2>1, <2>4, <2>5, <2>6, <2>7, <2>8 DEF TypeOK
<1>16. ASSUME NEW s \in Sessions, SeedFleet(s) PROVE TypeInv'
  <2>1. unit' \in [Units -> UnitStatus \cup {"ABSENT", "DELETED"}]
    BY <1>16 DEF SeedFleet, TypeOK, UnitStatus
  <2> QED BY <1>16, <2>1, FinishRow DEF SeedFleet, TypeOK
<1>17. ASSUME NEW s \in Sessions, RollBack(s) \/ Crash(s) PROVE TypeInv'
  BY <1>17, FinishRow DEF RollBack, Crash, TypeOK, tables
<1>18. ASSUME NEW s \in Sessions, Refresh(s) PROVE TypeInv'
  <2>1. CASE Finish(s)
    BY <1>18, <2>1, FinishRow DEF Refresh, TypeOK, tables
  <2>2. CASE Goto(s, "publish", loc[s])
    <3>1. loc[s] \in Locals /\ "publish" \in PCs
          /\ (loc[s].frees => loc[s].row \in Assignment)
      BY DEF TypeOK, RowIsFound, PCs
    <3> QED BY <1>18, <2>2, <3>1, GotoRow DEF Refresh, TypeOK, tables
  <2> QED BY <1>18, <2>1, <2>2 DEF Refresh
<1>19. ASSUME NEW s \in Sessions, Publish(s) PROVE TypeInv'
  <2>1. PICK e \in loc[s].outbox :
          /\ published' = published \cup {e}
          /\ \/ Goto(s, "publish", [loc[s] EXCEPT !.outbox = LeftToAnnounce(s, e)])
             \/ Goto(s, "seed", [Blank EXCEPT !.seeds = TRUE])
             \/ Finish(s)
    BY <1>19 DEF Publish
  <2>2. e \in EventSet
    BY DEF TypeOK, Locals
  <2>3. UNCHANGED <<tables, clock>>
    BY <1>19 DEF Publish
  <2> SUFFICES pc' \in [Sessions -> PCs] /\ loc' \in [Sessions -> Locals] /\ RowIsFound'
    BY <2>1, <2>2, <2>3 DEF TypeOK, tables
  <2>4. CASE Goto(s, "publish", [loc[s] EXCEPT !.outbox = LeftToAnnounce(s, e)])
    <3> DEFINE memory == [loc[s] EXCEPT !.outbox = LeftToAnnounce(s, e)]
    <3>a. loc[s] \in Locals /\ LeftToAnnounce(s, e) \in SUBSET EventSet
      BY DEF TypeOK, Locals, LeftToAnnounce
    <3>b. memory \in Locals /\ memory.frees = loc[s].frees /\ memory.row = loc[s].row
      BY <3>a DEF Locals
    <3>1. memory \in Locals /\ (memory.frees => memory.row \in Assignment)
      BY <3>b DEF RowIsFound
    <3>2. Goto(s, "publish", memory) /\ "publish" \in PCs
      BY <2>4 DEF PCs
    <3> HIDE DEF memory
    <3> QED BY <3>1, <3>2, GotoRow
  <2>5. CASE Goto(s, "seed", [Blank EXCEPT !.seeds = TRUE])
    <3> DEFINE memory == [Blank EXCEPT !.seeds = TRUE]
    <3>1. memory \in Locals /\ ~memory.frees
      BY BlankType DEF Blank, Locals
    <3>2. Goto(s, "seed", memory) /\ "seed" \in PCs
      BY <2>5 DEF PCs
    <3> HIDE DEF memory
    <3> QED BY <3>1, <3>2, GotoRow
  <2>6. CASE Finish(s)
    BY <2>6, FinishRow
  <2> QED BY <2>1, <2>4, <2>5, <2>6
<1> QED
  BY <1>1, <1>2, <1>3, <1>4, <1>5, <1>6, <1>7, <1>8, <1>9, <1>10, <1>11, <1>12, <1>13,
     <1>14, <1>15, <1>16, <1>17, <1>18, <1>19
  DEF Next, Start, Continue

\* Every variable keeps its type, and no resolve frees a unit it has not found.
THEOREM TypeCorrect == Spec => []TypeOK
<1>1. TypeInv => TypeOK
  BY DEF TypeInv
<1> QED BY InitTypes, StepTypes, <1>1, PTL DEF Spec

-----------------------------------------------------------------------------
(* Rows and statuses *)

\* The steps that write the tables.
LEMMA WhoWrites ==
  ASSUME [Next]_vars
  PROVE  \/ UNCHANGED tables
         \/ \E s \in Sessions, r \in Reports : CreateReport(s, r)
         \/ \E s \in Sessions :
              \/ ConfirmCommit(s) \/ ResolveCommit(s) \/ DispatchCommit(s)
              \/ ResetCommit(s) \/ SeedFleet(s)
<1>1. CASE UNCHANGED vars
  BY <1>1 DEF vars, tables
<1>2. CASE Next
  <2>1. PICK s \in Sessions : Start(s) \/ Continue(s) \/ Crash(s)
    BY <1>2 DEF Next
  <2>2. CASE Start(s)
    <3>1. ASSUME NEW r \in Reports, ConfirmRead(s, r) \/ ResolveRead(s, r)
          PROVE  UNCHANGED tables
      BY <3>1 DEF ConfirmRead, ResolveRead
    <3>2. ASSUME NEW scope \in Scopes, DispatchRead(s, scope)
          PROVE  UNCHANGED tables
      BY <3>2 DEF DispatchRead
    <3>3. ASSUME NEW seeds \in BOOLEAN, ResetReports(s, seeds)
          PROVE  UNCHANGED tables
      BY <3>3 DEF ResetReports
    <3> QED BY <2>2, <3>1, <3>2, <3>3 DEF Start
  <2>3. CASE Continue(s)
    <3>1. CASE ResolveFindRow(s) \/ ResolveFindUnit(s)
      BY <3>1 DEF ResolveFindRow, ResolveFindUnit
    <3>2. CASE DispatchReadUnits(s) \/ DispatchPlan(s) \/ ResetUnits(s)
      BY <3>2 DEF DispatchReadUnits, DispatchPlan, ResetUnits
    <3>3. CASE RollBack(s) \/ Refresh(s) \/ Publish(s)
      BY <3>3 DEF RollBack, Refresh, Publish
    <3> QED BY <2>3, <3>1, <3>2, <3>3 DEF Continue
  <2>4. CASE Crash(s)
    BY <2>4 DEF Crash
  <2> QED BY <2>1, <2>2, <2>3, <2>4
<1> QED BY <1>1, <1>2

\* A dispatch commits only while every report and unit of its plan exists.
LEMMA PlanIsLive ==
  ASSUME TypeOK, NEW s \in Sessions, DispatchCommit(s), NEW a \in loc[s].plan
  PROVE  a \in Assignment /\ a.sos \in LiveReports /\ a.unit \in LiveUnits
<1>1. a \in Assignment
  BY DEF TypeOK, Locals
<1>2. {a.sos, a.unit} \subseteq WrittenRows(s)
  BY DEF DispatchCommit, WrittenRows
<1>3. WrittenRows(s) \subseteq LiveRows
  BY DEF DispatchCommit, CanFlush
<1>4. a.sos \in Reports /\ a.unit \in Units
  BY <1>1 DEF Assignment
<1>5. a.sos \in LiveReports
  BY <1>2, <1>3, <1>4, IdsAreDistinct DEF LiveRows, LiveUnits
<1>6. a.unit \in LiveUnits
  BY <1>2, <1>3, <1>4, IdsAreDistinct DEF LiveRows, LiveReports
<1> QED BY <1>1, <1>5, <1>6

\* A confirmation commits only while its report exists.
LEMMA ConfirmedIsLive ==
  ASSUME TypeOK, NEW s \in Sessions, ConfirmCommit(s)
  PROVE  loc[s].sos \in LiveReports
<1>1. loc[s].sos \in LiveRows
  BY DEF ConfirmCommit, CanFlush, WrittenRows
<1>2. loc[s].sos \in Reports \cup {NoReport}
  BY DEF TypeOK, Locals
<1>3. loc[s].sos \notin Units
  BY <1>2, IdsAreDistinct DEF Rows
<1> QED BY <1>1, <1>3 DEF LiveRows, LiveUnits

\* A resolve that changes the status commits only while its report exists.
LEMMA ResolvedIsLive ==
  ASSUME TypeOK, NEW s \in Sessions, ResolveCommit(s), loc[s].status # "RESOLVED"
  PROVE  loc[s].sos \in LiveReports
<1>1. loc[s].sos \in LiveRows
  BY DEF ResolveCommit, CanFlush, WrittenRows
<1>2. loc[s].sos \in Reports \cup {NoReport}
  BY DEF TypeOK, Locals
<1>3. loc[s].sos \notin Units
  BY <1>2, IdsAreDistinct DEF Rows
<1> QED BY <1>1, <1>3 DEF LiveRows, LiveUnits

TablesInv == PendingIsUnassigned /\ RowsHaveParents

LEMMA InitTables == Init => TablesInv
BY DEF Init, TablesInv, PendingIsUnassigned, RowsHaveParents

LEMMA StepTables == TypeInv /\ TablesInv /\ [Next]_vars => TablesInv'
<1> SUFFICES ASSUME TypeInv, TablesInv, [Next]_vars PROVE TablesInv'
  OBVIOUS
<1>t. TypeOK /\ RowIsFound /\ PendingIsUnassigned /\ RowsHaveParents
  BY DEF TypeInv, TablesInv
<1>a. assignments \subseteq Assignment
  BY <1>t DEF TypeOK
<1> SUFFICES PendingIsUnassigned' /\ RowsHaveParents'
  BY DEF TablesInv
<1>1. CASE UNCHANGED tables
  BY <1>1, <1>t DEF tables, PendingIsUnassigned, RowsHaveParents, LiveReports, LiveUnits
<1>2. ASSUME NEW s \in Sessions, NEW r \in Reports, CreateReport(s, r)
      PROVE  PendingIsUnassigned' /\ RowsHaveParents'
  <2>1. r \notin LiveReports
    BY <1>2 DEF CreateReport, LiveReports, ReportStatus
  <2>2. \A a \in assignments : a.sos # r
    BY <1>t, <2>1 DEF RowsHaveParents
  <2> QED BY <1>2, <1>t, <1>a, <2>2
        DEF CreateReport, PendingIsUnassigned, RowsHaveParents, LiveReports, LiveUnits,
            ReportStatus, TypeOK
<1>3. ASSUME NEW s \in Sessions, ConfirmCommit(s)
      PROVE  PendingIsUnassigned' /\ RowsHaveParents'
  <2>1. UNCHANGED <<report, unit, assignments>>
    BY <1>3 DEF ConfirmCommit
  <2>2. loc[s].sos \in LiveReports
    BY <1>3, <1>t, ConfirmedIsLive
  <2>3. \A r \in Reports : confirmations'[r] > 0 => confirmations[r] > 0 \/ r = loc[s].sos
    BY <1>3, <1>t DEF ConfirmCommit, Recorded, TypeOK
  <2> QED BY <2>1, <2>2, <2>3, <1>t
        DEF PendingIsUnassigned, RowsHaveParents, LiveReports, LiveUnits
<1>4. ASSUME NEW s \in Sessions, ResolveCommit(s)
      PROVE  PendingIsUnassigned' /\ RowsHaveParents'
  <2>1. UNCHANGED <<assignments, confirmations>>
    BY <1>4 DEF ResolveCommit
  <2>2. \A r \in Reports : report'[r] = report[r] \/ (r \in LiveReports /\ report'[r] = "RESOLVED")
    BY <1>4, <1>t, ResolvedIsLive DEF ResolveCommit, TypeOK
  <2>3. \A u \in LiveUnits : unit'[u] \in UnitStatus
    BY <1>4 DEF ResolveCommit, LiveUnits, UnitStatus
  <2>4. \A a \in assignments : a.sos \in Reports /\ a.unit \in Units
    BY <1>a DEF Assignment
  <2>5. LiveReports' = LiveReports
    BY <2>2 DEF LiveReports, ReportStatus
  <2>6. LiveUnits \subseteq LiveUnits'
    BY <2>3 DEF LiveUnits
  <2> QED BY <1>t, <2>1, <2>2, <2>4, <2>5, <2>6 DEF PendingIsUnassigned, RowsHaveParents
<1>5. ASSUME NEW s \in Sessions, DispatchCommit(s)
      PROVE  PendingIsUnassigned' /\ RowsHaveParents'
  <2>1. /\ assignments' = assignments \cup loc[s].plan
        /\ UNCHANGED confirmations
    BY <1>5 DEF DispatchCommit, Persisted
  <2>2. \A r \in Reports : report'[r] = IF \E a \in loc[s].plan : a.sos = r
                                        THEN "ASSIGNED" ELSE report[r]
    BY <1>5 DEF DispatchCommit, NowAssigned
  <2>3. \A a \in loc[s].plan : a \in Assignment /\ a.sos \in LiveReports /\ a.unit \in LiveUnits
    BY <1>5, <1>t, PlanIsLive
  <2>4. LiveReports' = LiveReports
    BY <2>2, <2>3 DEF LiveReports, ReportStatus
  <2>5. LiveUnits \subseteq LiveUnits'
    BY <1>5 DEF DispatchCommit, LiveUnits, UnitStatus
  <2>6. \A a \in assignments' : a.sos \in Reports
    BY <1>a, <2>1, <2>3 DEF Assignment
  <2>7. RowsHaveParents'
    BY <1>t, <2>1, <2>3, <2>4, <2>5 DEF RowsHaveParents
  <2>8. PendingIsUnassigned'
    BY <1>t, <2>1, <2>2, <2>6 DEF PendingIsUnassigned
  <2> QED BY <2>7, <2>8
<1>6. ASSUME NEW s \in Sessions, ResetCommit(s)
      PROVE  PendingIsUnassigned' /\ RowsHaveParents'
  <2> DEFINE rs == loc[s].reports
             us == loc[s].units
  <2>1. /\ report' = [r \in Reports |-> IF r \in rs THEN "DELETED" ELSE report[r]]
        /\ unit' = [u \in Units |-> IF u \in us THEN "DELETED" ELSE unit[u]]
        /\ confirmations' = [r \in Reports |-> IF r \in rs THEN 0 ELSE confirmations[r]]
        /\ assignments' = {a \in assignments : a.sos \notin rs /\ a.unit \notin us}
    BY <1>6 DEF ResetCommit
  <2>2. \A a \in assignments : a.sos \in Reports /\ a.unit \in Units
    BY <1>a DEF Assignment
  <2> HIDE DEF rs, us
  <2>3. PendingIsUnassigned'
    BY <1>t, <2>1, <2>2 DEF PendingIsUnassigned
  <2>4. RowsHaveParents'
    BY <1>t, <2>1, <2>2 DEF RowsHaveParents, LiveReports, LiveUnits
  <2> QED BY <2>3, <2>4
<1>7. ASSUME NEW s \in Sessions, SeedFleet(s)
      PROVE  PendingIsUnassigned' /\ RowsHaveParents'
  <2>1. UNCHANGED <<report, assignments, confirmations>>
    BY <1>7 DEF SeedFleet
  <2>2. LiveUnits \subseteq LiveUnits'
    BY <1>7 DEF SeedFleet, LiveUnits, UnitStatus
  <2> QED BY <1>t, <2>1, <2>2 DEF PendingIsUnassigned, RowsHaveParents, LiveReports
<1> QED BY WhoWrites, <1>1, <1>2, <1>3, <1>4, <1>5, <1>6, <1>7

\* Whatever requests overlap, crash or reset the tables: no assigned report is
\* ever PENDING again, so no later round picks it up.
THEOREM PendingStaysUnassigned == Spec => []PendingIsUnassigned
<1>1. TablesInv => PendingIsUnassigned
  BY DEF TablesInv
<1> QED BY InitTypes, StepTypes, InitTables, StepTables, <1>1, PTL DEF Spec

\* Whatever requests overlap, crash or reset the tables: assignments and
\* confirmations belong to rows that exist.
THEOREM RowsKeepParents == Spec => []RowsHaveParents
<1>1. TablesInv => RowsHaveParents
  BY DEF TablesInv
<1> QED BY InitTypes, StepTypes, InitTables, StepTables, <1>1, PTL DEF Spec
=============================================================================
