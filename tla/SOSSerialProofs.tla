---------------------------- MODULE SOSSerialProofs ----------------------------
(***************************************************************************)
(* What holds of SOSDispatch under a condition on how it is run: with one  *)
(* dispatcher, where nobody resets or crashes, and with one request at a   *)
(* time, which then implements the promises of DispatchContract.           *)
(***************************************************************************)
EXTENDS SOSRoundProofs, MCSOSDispatch, FiniteSetTheorems

-----------------------------------------------------------------------------
(* Steps                                                                    *)

\* The session that takes a step, and the step that takes it to each await.
OthersKeep(s) == \A t \in Sessions : t # s => pc'[t] = pc[t] /\ loc'[t] = loc[t]

Arrives(s) ==
  \/ pc'[s] \in {"idle", "refresh", "publish", "seed"}
  \/ pc'[s] = "confirm" /\ \E r \in Reports : ConfirmRead(s, r)
  \/ pc'[s] = "resolve_row" /\ \E r \in Reports : ResolveRead(s, r)
  \/ pc'[s] = "resolve_unit" /\ ResolveFindRow(s)
  \/ pc'[s] = "resolve_commit" /\ (ResolveFindRow(s) \/ ResolveFindUnit(s))
  \/ pc'[s] = "dispatch_units" /\ \E scope \in Scopes : DispatchRead(s, scope)
  \/ pc'[s] = "dispatch_plan" /\ DispatchReadUnits(s)
  \/ pc'[s] = "dispatch_commit" /\ DispatchPlan(s)
  \/ pc'[s] = "reset_units" /\ \E seeds \in BOOLEAN : ResetReports(s, seeds)
  \/ pc'[s] = "reset_commit" /\ ResetUnits(s)

LEMMA StepArrives ==
  ASSUME TypeOK, NEW s \in Sessions, Start(s) \/ Continue(s) \/ Crash(s)
  PROVE  OthersKeep(s) /\ Arrives(s)
<1>k. ASSUME NEW label, NEW memory, Goto(s, label, memory)
      PROVE  OthersKeep(s) /\ pc'[s] = label
  BY <1>k, Moved DEF OthersKeep
<1>f. Finish(s) => OthersKeep(s) /\ pc'[s] = "idle"
  BY <1>k DEF Finish
<1>1. ASSUME NEW r \in Reports, CreateReport(s, r) PROVE OthersKeep(s) /\ Arrives(s)
  BY <1>1, <1>k DEF CreateReport, Arrives
<1>2. ASSUME NEW r \in Reports, ConfirmRead(s, r) PROVE OthersKeep(s) /\ Arrives(s)
  <2>1. OthersKeep(s) /\ pc'[s] = "confirm"
    BY <1>2, <1>k DEF ConfirmRead
  <2> QED BY <1>2, <2>1 DEF Arrives
<1>3. ASSUME NEW r \in Reports, ResolveRead(s, r) PROVE OthersKeep(s) /\ Arrives(s)
  <2>1. OthersKeep(s) /\ pc'[s] = "resolve_row"
    BY <1>3, <1>k DEF ResolveRead
  <2> QED BY <1>3, <2>1 DEF Arrives
<1>4. ASSUME NEW scope \in Scopes, DispatchRead(s, scope) PROVE OthersKeep(s) /\ Arrives(s)
  <2>1. OthersKeep(s) /\ pc'[s] = "dispatch_units"
    BY <1>4, <1>k DEF DispatchRead
  <2> QED BY <1>4, <2>1 DEF Arrives
<1>5. ASSUME NEW seeds \in BOOLEAN, ResetReports(s, seeds) PROVE OthersKeep(s) /\ Arrives(s)
  <2>1. OthersKeep(s) /\ pc'[s] = "reset_units"
    BY <1>5, <1>k DEF ResetReports
  <2> QED BY <1>5, <2>1 DEF Arrives
<1>6. CASE ConfirmCommit(s) \/ ResolveCommit(s)
  BY <1>6, <1>k DEF ConfirmCommit, ResolveCommit, Arrives
<1>7. CASE DispatchCommit(s) \/ ResetCommit(s)
  BY <1>7, <1>k DEF DispatchCommit, ResetCommit, Arrives
<1>8. CASE ResolveFindRow(s)
  <2>1. OthersKeep(s) /\ pc'[s] \in {"resolve_unit", "resolve_commit"}
    BY <1>8, <1>k DEF ResolveFindRow
  <2> QED BY <1>8, <2>1 DEF Arrives
<1>9. CASE ResolveFindUnit(s)
  <2>1. OthersKeep(s) /\ pc'[s] = "resolve_commit"
    BY <1>9, <1>k DEF ResolveFindUnit
  <2> QED BY <1>9, <2>1 DEF Arrives
<1>10. CASE DispatchReadUnits(s)
  <2>1. OthersKeep(s) /\ pc'[s] \in {"idle", "dispatch_plan"}
    BY <1>10, <1>k, <1>f DEF DispatchReadUnits
  <2> QED BY <1>10, <2>1 DEF Arrives
<1>11. CASE DispatchPlan(s)
  <2>1. OthersKeep(s) /\ pc'[s] = "dispatch_commit"
    BY <1>11, <1>k DEF DispatchPlan
  <2> QED BY <1>11, <2>1 DEF Arrives
<1>12. CASE ResetUnits(s)
  <2>1. OthersKeep(s) /\ pc'[s] = "reset_commit"
    BY <1>12, <1>k DEF ResetUnits
  <2> QED BY <1>12, <2>1 DEF Arrives
<1>13. CASE SeedFleet(s) \/ RollBack(s) \/ Crash(s)
  BY <1>13, <1>f DEF SeedFleet, RollBack, Crash, Arrives
<1>14. CASE Refresh(s)
  BY <1>14, <1>f, <1>k DEF Refresh, Arrives
<1>15. CASE Publish(s)
  BY <1>15, <1>f, <1>k DEF Publish, Arrives
<1> QED
  BY <1>1, <1>2, <1>3, <1>4, <1>5, <1>6, <1>7, <1>8, <1>9, <1>10, <1>11, <1>12, <1>13, <1>14, <1>15
  DEF Start, Continue

-----------------------------------------------------------------------------
(* One dispatcher                                                           *)

OneDispatcher == \A s, t \in Dispatchers : s = t

\* What a round holds in memory is still free for it: no other round has sent
\* anything to its reports, nor its units to anyone.
IsUnsent(r) == \A a \in assignments : a.sos # r
IsIdle(u) == unit[u] \in {"AVAILABLE", "DELETED"}

RoundIsAlone(s) ==
  /\ pc[s] \in {"dispatch_units", "dispatch_plan", "dispatch_commit"} => s \in Dispatchers
  /\ pc[s] \in {"dispatch_units", "dispatch_plan"} => \A r \in loc[s].reports : IsUnsent(r)
  /\ pc[s] = "dispatch_plan" => \A u \in loc[s].units : IsIdle(u)
  /\ pc[s] = "dispatch_commit" => \A a \in loc[s].plan : IsUnsent(a.sos) /\ IsIdle(a.unit)

DispatcherInv ==
  /\ \A s \in Sessions : RoundIsAlone(s)
  /\ OneRowPerReport

\* A step of another session than the dispatcher's takes nothing from its round.
LEMMA OthersDispatchNothing ==
  ASSUME OneDispatcher, TypeOK, DispatcherInv, NEW s \in Sessions, [Next]_vars,
         pc[s] \in {"dispatch_units", "dispatch_plan", "dispatch_commit"},
         ~DispatchCommit(s)
  PROVE  /\ \A r \in Reports : IsUnsent(r) => IsUnsent(r)'
         /\ \A u \in Units : IsIdle(u) => IsIdle(u)'
<1>1. ASSUME NEW t \in Sessions, DispatchCommit(t) PROVE t = s
  BY <1>1 DEF DispatchCommit, DispatcherInv, RoundIsAlone, OneDispatcher
<1>2. CASE UNCHANGED tables
  BY <1>2 DEF tables, IsUnsent, IsIdle
<1>3. ASSUME NEW t \in Sessions,
             (\E r \in Reports : CreateReport(t, r)) \/ ConfirmCommit(t)
      PROVE  UNCHANGED <<assignments, unit>>
  BY <1>3 DEF CreateReport, ConfirmCommit
<1>4. ASSUME NEW t \in Sessions, ResolveCommit(t) \/ ResetCommit(t) \/ SeedFleet(t)
      PROVE  /\ assignments' \subseteq assignments
             /\ \A u \in Units : IsIdle(u) => IsIdle(u)'
  BY <1>4 DEF ResolveCommit, ResetCommit, SeedFleet, IsIdle
<1> QED BY WhoWrites, <1>1, <1>2, <1>3, <1>4 DEF IsUnsent, IsIdle

LEMMA StepDispatcher ==
  ASSUME OneDispatcher
  PROVE  TypeOK /\ TablesInv /\ RoundInv /\ DispatcherInv /\ [Next]_vars => DispatcherInv'
<1> SUFFICES ASSUME TypeOK, TablesInv, RoundInv, DispatcherInv, [Next]_vars PROVE DispatcherInv'
  OBVIOUS
<1>t. \A t \in Sessions : /\ loc[t] \in Locals /\ loc[t].reports \subseteq Reports
                          /\ loc[t].units \subseteq Units /\ loc[t].plan \subseteq Assignment
  BY DEF TypeOK, Locals
<1>1. OneRowPerReport'
  <2>1. CASE assignments' \subseteq assignments
    BY <2>1 DEF DispatcherInv, OneRowPerReport
  <2>2. ASSUME NEW s \in Sessions, DispatchCommit(s) PROVE OneRowPerReport'
    <3>1. assignments' = assignments \cup loc[s].plan
      BY <2>2 DEF DispatchCommit, Persisted
    <3>2. \A a \in loc[s].plan : IsUnsent(a.sos)
      BY <2>2 DEF DispatchCommit, DispatcherInv, RoundIsAlone
    <3>3. \A a, b \in loc[s].plan : a.sos = b.sos => a = b
      BY DEF RoundInv
    <3> QED BY <3>1, <3>2, <3>3 DEF DispatcherInv, OneRowPerReport, IsUnsent
  <2> QED
    BY <2>1, <2>2, WhoWrites
    DEF tables, CreateReport, ConfirmCommit, ResolveCommit, ResetCommit, SeedFleet
<1>2. ASSUME NEW s \in Sessions, pc'[s] = pc[s], loc'[s] = loc[s], ~DispatchCommit(s)
      PROVE  RoundIsAlone(s)'
  <2>1. RoundIsAlone(s)
    BY DEF DispatcherInv
  <2>2. pc[s] \in {"dispatch_units", "dispatch_plan", "dispatch_commit"} =>
          /\ \A r \in Reports : IsUnsent(r) => IsUnsent(r)'
          /\ \A u \in Units : IsIdle(u) => IsIdle(u)'
    BY <1>2, OthersDispatchNothing
  <2>3. loc[s].reports \subseteq Reports /\ loc[s].units \subseteq Units
        /\ \A a \in loc[s].plan : a.sos \in Reports /\ a.unit \in Units
    BY <1>t DEF Assignment
  <2> QED BY <1>2, <2>1, <2>2, <2>3 DEF RoundIsAlone
<1>3. CASE UNCHANGED vars
  <2>1. \A s \in Sessions : RoundIsAlone(s)'
    BY <1>3 DEF vars, DispatcherInv, RoundIsAlone, IsUnsent, IsIdle
  <2> QED BY <1>1, <2>1 DEF DispatcherInv
<1>4. ASSUME NEW s \in Sessions, Start(s) \/ Continue(s) \/ Crash(s) PROVE RoundIsAlone(s)'
  <2>1. ASSUME NEW scope \in Scopes, DispatchRead(s, scope) PROVE RoundIsAlone(s)'
    <3> DEFINE memory == [Blank EXCEPT !.scope = scope, !.reports = Waiting(scope)]
    <3>0. Goto(s, "dispatch_units", memory) /\ s \in Dispatchers /\ assignments' = assignments
      BY <2>1 DEF DispatchRead, tables
    <3>m. memory.reports = Waiting(scope)
      BY DEF Blank
    <3> HIDE DEF memory
    <3>1. /\ pc'[s] = "dispatch_units" /\ loc'[s].reports = Waiting(scope)
          /\ s \in Dispatchers /\ assignments' = assignments
      BY <3>0, <3>m, Moved
    <3>2. \A r \in Waiting(scope) : IsUnsent(r)
      BY DEF Waiting, IsUnsent, TablesInv, PendingIsUnassigned
    <3> QED BY <3>1, <3>2 DEF RoundIsAlone, IsUnsent
  <2>2. CASE DispatchReadUnits(s) /\ pc'[s] = "dispatch_plan"
    <3>1. /\ pc[s] = "dispatch_units" /\ UNCHANGED <<assignments, unit>>
          /\ loc'[s] = [loc[s] EXCEPT !.units = Free(loc[s].scope)]
      BY <2>2, Moved DEF DispatchReadUnits, tables, Finish
    <3>2. loc'[s].reports = loc[s].reports /\ loc'[s].units = Free(loc[s].scope)
      BY <3>1, <1>t DEF Locals
    <3> QED BY <3>1, <3>2, <2>2 DEF RoundIsAlone, DispatcherInv, IsUnsent, IsIdle, Free
  <2>3. CASE DispatchPlan(s)
    <3>1. PICK m \in Matchings(loc[s].reports, loc[s].units) :
            Goto(s, "dispatch_commit",
                 [loc[s] EXCEPT !.plan =
                    {[sos |-> p[1], unit |-> p[2], at |-> clock + 1] : p \in m}])
      BY <2>3 DEF DispatchPlan
    <3> DEFINE plan == {[sos |-> p[1], unit |-> p[2], at |-> clock + 1] : p \in m}
    <3>2. /\ pc'[s] = "dispatch_commit" /\ pc[s] = "dispatch_plan"
          /\ loc'[s].plan = plan /\ UNCHANGED <<assignments, unit>>
      BY <2>3, <3>1, <1>t, Moved DEF DispatchPlan, tables, Locals
    <3>3. \A a \in plan : a.sos \in loc[s].reports /\ a.unit \in loc[s].units
      BY DEF Matchings
    <3> HIDE DEF plan
    <3> QED BY <3>2, <3>3 DEF RoundIsAlone, DispatcherInv, IsUnsent, IsIdle
  <2> QED BY <1>4, StepArrives, <2>1, <2>2, <2>3 DEF Arrives, RoundIsAlone
<1>5. ASSUME NEW s \in Sessions, Start(s) \/ Continue(s) \/ Crash(s), NEW t \in Sessions
      PROVE  RoundIsAlone(t)'
  <2>1. t # s => pc'[t] = pc[t] /\ loc'[t] = loc[t]
    BY <1>5, StepArrives DEF OthersKeep
  <2>2. ~DispatchCommit(t) \/ t = s
    BY <2>1 DEF DispatchCommit, Goto, TypeOK
  <2> QED BY <1>4, <1>5, <1>2, <2>1, <2>2
<1> QED BY <1>1, <1>3, <1>5 DEF Next, DispatcherInv

LEMMA InitDispatcher == Init => DispatcherInv
BY DEF Init, DispatcherInv, RoundIsAlone, OneRowPerReport

\* With one dispatch round at a time, a report is sent at most one unit in its
\* life, whatever is resolved, confirmed, reset or crashes around the round.
THEOREM OneDispatcherOneRow ==
  ASSUME OneDispatcher
  PROVE  Spec => []OneRowPerReport
<1>1. TypeInv => TypeOK
  BY DEF TypeInv
<1>2. DispatcherInv => OneRowPerReport
  BY DEF DispatcherInv
<1>3. TypeOK /\ TablesInv /\ RoundInv /\ DispatcherInv /\ [Next]_vars => DispatcherInv'
  BY StepDispatcher
<1> QED
  BY InitTypes, StepTypes, InitTables, StepTables, InitRounds, StepRounds, InitDispatcher,
     <1>1, <1>2, <1>3, PTL DEF Spec

\* With one dispatch round at a time, every unit a round sends out is free at
\* that moment: the blind UPDATE of its status overwrites AVAILABLE.
THEOREM OneDispatcherTakesFreeUnits ==
  ASSUME OneDispatcher
  PROVE  Spec => RoundsTakeFreeUnits
<1>1. TypeInv => TypeOK
  BY DEF TypeInv
<1>2. TypeOK /\ DispatcherInv /\ [Next]_vars =>
        [\A a \in assignments' \ assignments : unit[a.unit] = "AVAILABLE"]_vars
  <2> SUFFICES ASSUME TypeOK, DispatcherInv, [Next]_vars, NEW a \in assignments' \ assignments
               PROVE  unit[a.unit] = "AVAILABLE"
    OBVIOUS
  <2>1. PICK s \in Sessions : DispatchCommit(s)
    BY WhoWrites
    DEF tables, CreateReport, ConfirmCommit, ResolveCommit, ResetCommit, SeedFleet
  <2>2. a \in loc[s].plan
    BY <2>1 DEF DispatchCommit, Persisted
  <2>3. IsIdle(a.unit)
    BY <2>1, <2>2 DEF DispatchCommit, DispatcherInv, RoundIsAlone
  <2>4. a.unit \in LiveUnits
    BY <2>1, <2>2, PlanIsLive
  <2> QED BY <2>3, <2>4 DEF IsIdle, LiveUnits, UnitStatus
<1>3. TypeOK /\ TablesInv /\ RoundInv /\ DispatcherInv /\ [Next]_vars => DispatcherInv'
  BY StepDispatcher
<1> QED
  BY InitTypes, StepTypes, InitTables, StepTables, InitRounds, StepRounds, InitDispatcher,
     <1>1, <1>2, <1>3, PTL DEF Spec, RoundsTakeFreeUnits

-----------------------------------------------------------------------------
(* Announcements                                                            *)

\* A request that has not committed has nothing to announce, and its report
\* exists from the first read to the refresh after the commit.
IsConsistent(s) ==
  /\ pc[s] \notin {"refresh", "publish"} => loc[s].outbox = {}
  /\ pc[s] \in {"resolve_row", "resolve_unit", "resolve_commit", "refresh"} =>
       loc[s].sos \in LiveReports

IsAnnounced(e) == e \in published \/ \E s \in Sessions : e \in loc[s].outbox

AnnounceInv ==
  /\ NoReset
  /\ \A s \in Sessions : IsConsistent(s)
  /\ \A e : e \in events <=> IsAnnounced(e)

\* Where nothing is reset, a report that exists stays.
LEMMA ReportsStay ==
  ASSUME TypeOK, NoReset, [Next]_vars
  PROVE  LiveReports \subseteq LiveReports'
<1>1. CASE UNCHANGED tables
  BY <1>1 DEF tables, LiveReports
<1>2. ASSUME NEW s \in Sessions, NEW r \in Reports, CreateReport(s, r)
      PROVE  LiveReports \subseteq LiveReports'
  BY <1>2 DEF CreateReport, LiveReports, ReportStatus, TypeOK
<1>3. ASSUME NEW s \in Sessions, ConfirmCommit(s) \/ SeedFleet(s) PROVE report' = report
  BY <1>3 DEF ConfirmCommit, SeedFleet
<1>4. ASSUME NEW s \in Sessions, ResolveCommit(s) \/ DispatchCommit(s)
      PROVE  LiveReports \subseteq LiveReports'
  BY <1>4 DEF ResolveCommit, DispatchCommit, NowAssigned, LiveReports, ReportStatus, TypeOK
<1>5. ASSUME NEW s \in Sessions, ResetCommit(s) PROVE FALSE
  BY <1>5 DEF ResetCommit, NoReset
<1> QED BY WhoWrites, <1>1, <1>2, <1>3, <1>4, <1>5 DEF LiveReports

\* A step keeps the log announced if it moves the events of its own session on.
LEMMA AnnouncedStep ==
  ASSUME AnnounceInv, NEW s \in Sessions, OthersKeep(s),
         \/ /\ UNCHANGED <<events, published>>
            /\ loc'[s].outbox = loc[s].outbox
         \/ /\ loc[s].outbox = {} /\ events' = events \cup loc'[s].outbox
            /\ published' = published
         \/ \E e \in loc[s].outbox :
              /\ published' = published \cup {e} /\ loc'[s].outbox = loc[s].outbox \ {e}
              /\ events' = events
  PROVE  \A e : e \in events' <=> IsAnnounced(e)'
<1>1. \A e : e \in events <=> IsAnnounced(e)
  BY DEF AnnounceInv
<1>2. \A e : IsAnnounced(e) <=>
        \/ e \in published \/ e \in loc[s].outbox
        \/ \E t \in Sessions : t # s /\ e \in loc[t].outbox
  BY DEF IsAnnounced
<1>3. \A e : IsAnnounced(e)' <=>
        \/ e \in published' \/ e \in loc'[s].outbox
        \/ \E t \in Sessions : t # s /\ e \in loc[t].outbox
  BY DEF IsAnnounced, OthersKeep
<1>4. CASE UNCHANGED <<events, published>> /\ loc'[s].outbox = loc[s].outbox
  BY <1>4, <1>1, <1>2, <1>3
<1>5. CASE loc[s].outbox = {} /\ events' = events \cup loc'[s].outbox /\ published' = published
  BY <1>5, <1>1, <1>2, <1>3
<1>6. ASSUME NEW x \in loc[s].outbox, published' = published \cup {x}, events' = events,
             loc'[s].outbox = loc[s].outbox \ {x}
      PROVE  \A e : e \in events' <=> IsAnnounced(e)'
  BY <1>6, <1>1, <1>2, <1>3
<1> QED BY <1>4, <1>5, <1>6

LEMMA StepAnnounces ==
  ASSUME Environment = "production", ~MayCrash
  PROVE  TypeOK /\ AnnounceInv /\ [Next]_vars => AnnounceInv'
<1> SUFFICES ASSUME TypeOK, AnnounceInv, [Next]_vars PROVE AnnounceInv'
  OBVIOUS
<1>0. NoReset' /\ LiveReports \subseteq LiveReports'
  BY NobodyResets, ReportsStay DEF AnnounceInv
<1>1. CASE UNCHANGED vars
  <2>1. \A s \in Sessions : IsConsistent(s)'
    BY <1>1 DEF vars, AnnounceInv, IsConsistent, LiveReports
  <2>2. \A e : IsAnnounced(e)' <=> IsAnnounced(e)
    BY <1>1 DEF vars, IsAnnounced
  <2> QED BY <1>0, <1>1, <2>1, <2>2 DEF vars, AnnounceInv
<1>2. ASSUME NEW s \in Sessions, Start(s) \/ Continue(s) PROVE AnnounceInv'
  <2>0. OthersKeep(s)
    BY <1>2, StepArrives
  <2>i. IsConsistent(s) /\ loc[s] \in Locals
    BY DEF AnnounceInv, TypeOK
  <2>b. Blank.outbox = {}
    BY DEF Blank
  <2>k. ASSUME IsConsistent(s)',
               \/ /\ UNCHANGED <<events, published>>
                  /\ loc'[s].outbox = loc[s].outbox
               \/ /\ loc[s].outbox = {} /\ events' = events \cup loc'[s].outbox
                  /\ published' = published
               \/ \E e \in loc[s].outbox :
                    /\ published' = published \cup {e} /\ loc'[s].outbox = loc[s].outbox \ {e}
                    /\ events' = events
        PROVE  AnnounceInv'
    <3>1. \A e : e \in events' <=> IsAnnounced(e)'
      BY <2>k, <2>0, AnnouncedStep
    <3>2. \A t \in Sessions : IsConsistent(t)'
      BY <1>0, <2>0, <2>k DEF AnnounceInv, IsConsistent, OthersKeep
    <3> QED BY <1>0, <3>1, <3>2 DEF AnnounceInv
  <2>q. ASSUME NEW label \in {"confirm", "resolve_row", "dispatch_units", "idle"},
               NEW memory, Goto(s, label, memory),
               memory.outbox = {}, loc[s].outbox = {}, UNCHANGED <<events, published>>,
               label = "resolve_row" => memory.sos \in LiveReports
        PROVE  AnnounceInv'
    <3>1. pc'[s] = label /\ loc'[s] = memory
      BY <2>q, Moved
    <3> QED BY <1>0, <2>q, <3>1, <2>k DEF IsConsistent
  <2>c. ASSUME NEW label \in {"refresh", "publish"}, NEW r, NEW new,
               Goto(s, label, [Blank EXCEPT !.sos = r, !.outbox = new]),
               loc[s].outbox = {}, events' = events \cup new, published' = published,
               label = "refresh" => r \in LiveReports'
        PROVE  AnnounceInv'
    <3> DEFINE memory == [Blank EXCEPT !.sos = r, !.outbox = new]
    <3>1. memory.outbox = new /\ memory.sos = r
      BY DEF Blank
    <3>2. Goto(s, label, memory)
      BY <2>c
    <3> HIDE DEF memory
    <3>3. pc'[s] = label /\ loc'[s] = memory
      BY <3>2, Moved
    <3> QED BY <2>c, <3>1, <3>3, <2>k DEF IsConsistent
  <2>m. ASSUME NEW label \in {"resolve_unit", "resolve_commit", "dispatch_plan", "dispatch_commit"},
               NEW memory, Goto(s, label, memory),
               memory.outbox = loc[s].outbox, memory.sos = loc[s].sos,
               UNCHANGED <<events, published>>,
               IF label \in {"resolve_unit", "resolve_commit"}
                 THEN pc[s] \in {"resolve_row", "resolve_unit"}
                 ELSE pc[s] \in {"dispatch_units", "dispatch_plan"}
        PROVE  AnnounceInv'
    <3>1. pc'[s] = label /\ loc'[s] = memory
      BY <2>m, Moved
    <3> QED BY <1>0, <2>m, <3>1, <2>i, <2>k DEF IsConsistent
  <2>1. ASSUME NEW r \in Reports, CreateReport(s, r) PROVE AnnounceInv'
    <3>1. r \in LiveReports'
      BY <2>1 DEF CreateReport, LiveReports, ReportStatus, TypeOK
    <3> QED BY <2>1, <3>1, <2>c, <2>i DEF CreateReport, IsConsistent
  <2>2. ASSUME NEW r \in Reports, ConfirmRead(s, r) PROVE AnnounceInv'
    <3> DEFINE memory == [Blank EXCEPT !.sos = r, !.trust = trust[r]]
    <3>1. memory.outbox = {} /\ Goto(s, "confirm", memory)
      BY <2>2 DEF ConfirmRead, Blank
    <3> HIDE DEF memory
    <3> QED BY <2>2, <3>1, <2>q, <2>i DEF ConfirmRead, IsConsistent, tables
  <2>3. ASSUME NEW r \in Reports, ResolveRead(s, r) PROVE AnnounceInv'
    <3> DEFINE memory == [Blank EXCEPT !.sos = r, !.status = report[r]]
    <3>1. memory.outbox = {} /\ memory.sos = r /\ Goto(s, "resolve_row", memory)
      BY <2>3 DEF ResolveRead, Blank
    <3> HIDE DEF memory
    <3> QED BY <2>3, <3>1, <2>q, <2>i DEF ResolveRead, IsConsistent, tables
  <2>4. ASSUME NEW scope \in Scopes, DispatchRead(s, scope) PROVE AnnounceInv'
    <3> DEFINE memory == [Blank EXCEPT !.scope = scope, !.reports = Waiting(scope)]
    <3>1. memory.outbox = {} /\ Goto(s, "dispatch_units", memory)
      BY <2>4 DEF DispatchRead, Blank
    <3> HIDE DEF memory
    <3> QED BY <2>4, <3>1, <2>q, <2>i DEF DispatchRead, IsConsistent, tables
  <2>5. ASSUME NEW seeds \in BOOLEAN, ResetReports(s, seeds) PROVE AnnounceInv'
    BY <2>5 DEF ResetReports
  <2>6. CASE ConfirmCommit(s)
    BY <2>6, <1>0, <2>c, <2>i, ConfirmedIsLive DEF ConfirmCommit, IsConsistent
  <2>7. CASE ResolveFindRow(s) \/ ResolveFindUnit(s)
    <3>1. pc[s] \in {"resolve_row", "resolve_unit"} /\ UNCHANGED <<events, published>>
      BY <2>7 DEF ResolveFindRow, ResolveFindUnit, tables
    <3>2. CASE Goto(s, "resolve_commit", loc[s])
      BY <3>1, <3>2, <2>m
    <3>3. ASSUME NEW row, Goto(s, "resolve_unit", [loc[s] EXCEPT !.row = row])
          PROVE  AnnounceInv'
      <4> DEFINE memory == [loc[s] EXCEPT !.row = row]
      <4>1. memory.outbox = loc[s].outbox /\ memory.sos = loc[s].sos
        BY <2>i DEF Locals
      <4>2. Goto(s, "resolve_unit", memory)
        BY <3>3
      <4> HIDE DEF memory
      <4> QED BY <3>1, <4>1, <4>2, <2>m
    <3>4. CASE ResolveFindUnit(s)
      <4> DEFINE found == (unit[loc[s].row.unit] = "DISPATCHED")
                 memory == [loc[s] EXCEPT !.frees = found]
      <4>1. Goto(s, "resolve_commit", memory)
        BY <3>4 DEF ResolveFindUnit
      <4> HIDE DEF found
      <4>2. memory.outbox = loc[s].outbox /\ memory.sos = loc[s].sos
        BY <2>i DEF Locals
      <4> HIDE DEF memory
      <4> QED BY <3>1, <4>1, <4>2, <2>m
    <3> QED BY <2>7, <3>2, <3>3, <3>4 DEF ResolveFindRow
  <2>8. CASE ResolveCommit(s)
    BY <2>8, <1>0, <2>c, <2>i DEF ResolveCommit, IsConsistent
  <2>9. CASE DispatchReadUnits(s) \/ DispatchPlan(s)
    <3>1. pc[s] \in {"dispatch_units", "dispatch_plan"} /\ UNCHANGED <<events, published>>
      BY <2>9 DEF DispatchReadUnits, DispatchPlan, tables
    <3>2. CASE Goto(s, "idle", Blank)
      BY <3>1, <3>2, <2>i, <2>b, <2>q DEF IsConsistent
    <3>3. ASSUME NEW us, Goto(s, "dispatch_plan", [loc[s] EXCEPT !.units = us])
          PROVE  AnnounceInv'
      <4> DEFINE memory == [loc[s] EXCEPT !.units = us]
      <4>1. memory.outbox = loc[s].outbox /\ memory.sos = loc[s].sos
        BY <2>i DEF Locals
      <4>2. Goto(s, "dispatch_plan", memory)
        BY <3>3
      <4> HIDE DEF memory
      <4> QED BY <3>1, <4>1, <4>2, <2>m
    <3>4. ASSUME NEW plan, Goto(s, "dispatch_commit", [loc[s] EXCEPT !.plan = plan])
          PROVE  AnnounceInv'
      <4> DEFINE memory == [loc[s] EXCEPT !.plan = plan]
      <4>1. memory.outbox = loc[s].outbox /\ memory.sos = loc[s].sos
        BY <2>i DEF Locals
      <4>2. Goto(s, "dispatch_commit", memory)
        BY <3>4
      <4> HIDE DEF memory
      <4> QED BY <3>1, <4>1, <4>2, <2>m
    <3> QED BY <2>9, <3>2, <3>3, <3>4 DEF DispatchReadUnits, DispatchPlan, Finish
  <2>10. CASE DispatchCommit(s)
    <3> DEFINE log == {Dispatched(a) : a \in loc[s].plan}
               memory == [Blank EXCEPT !.outbox = log]
    <3>1. Goto(s, "publish", memory) /\ events' = events \cup log /\ UNCHANGED published
      BY <2>10 DEF DispatchCommit
    <3>2. memory.outbox = log
      BY DEF Blank
    <3> HIDE DEF memory, log
    <3>3. pc'[s] = "publish" /\ loc'[s] = memory
      BY <3>1, Moved
    <3> QED BY <2>10, <3>1, <3>2, <3>3, <2>i, <2>k DEF DispatchCommit, IsConsistent
  <2>11. CASE ResetUnits(s) \/ ResetCommit(s)
    BY <2>11 DEF ResetUnits, ResetCommit, AnnounceInv, NoReset
  <2>12. CASE SeedFleet(s) \/ RollBack(s)
    BY <2>12, <2>i, <2>b, <2>q DEF SeedFleet, RollBack, IsConsistent, tables, Finish
  <2>13. CASE Refresh(s)
    <3>1. Goto(s, "publish", loc[s]) /\ UNCHANGED <<events, published>>
      BY <2>13, <2>i DEF Refresh, IsConsistent, tables
    <3>2. pc'[s] = "publish" /\ loc'[s] = loc[s]
      BY <3>1, Moved
    <3> QED BY <3>1, <3>2, <2>k DEF IsConsistent
  <2>14. CASE Publish(s)
    <3>1. PICK e \in loc[s].outbox :
            /\ published' = published \cup {e} /\ events' = events
            /\ LET rest == loc[s].outbox \ {e} IN
                 \/ rest # {} /\ Goto(s, "publish", [loc[s] EXCEPT !.outbox = rest])
                 \/ rest = {} /\ Goto(s, "seed", [Blank EXCEPT !.seeds = TRUE])
                 \/ rest = {} /\ Goto(s, "idle", Blank)
      BY <2>14 DEF Publish, LeftToAnnounce, tables, Finish
    <3>2. [Blank EXCEPT !.seeds = TRUE].outbox = {} /\ Blank.outbox = {}
      BY DEF Blank
    <3>4. \A rest : [loc[s] EXCEPT !.outbox = rest].outbox = rest
      BY <2>i DEF Locals
    <3>5. \A label, memory : Goto(s, label, memory) => pc'[s] = label /\ loc'[s] = memory
      BY Moved
    <3>3. /\ loc'[s].outbox = loc[s].outbox \ {e}
          /\ pc'[s] \in {"publish", "seed", "idle"}
          /\ pc'[s] # "publish" => loc'[s].outbox = {}
      BY <3>1, <3>2, <3>4, <3>5
    <3> QED BY <3>1, <3>3, <2>k DEF IsConsistent
  <2> QED
    BY <1>2, <2>1, <2>2, <2>3, <2>4, <2>5, <2>6, <2>7, <2>8, <2>9, <2>10, <2>11, <2>12, <2>13, <2>14
    DEF Start, Continue
<1> QED BY <1>1, <1>2 DEF Next, Crash

LEMMA InitAnnounces == Init => AnnounceInv
BY DEF Init, AnnounceInv, NoReset, IsConsistent, IsAnnounced, Blank

\* Where nothing is reset and no worker dies, the live feed is told exactly what
\* the log holds, but for what a request is still about to announce.
THEOREM LogStaysAnnounced ==
  ASSUME Environment = "production", ~MayCrash
  PROVE  Spec => []LogIsAnnounced
<1>1. TypeInv => TypeOK
  BY DEF TypeInv
<1>2. AnnounceInv => LogIsAnnounced
  BY DEF AnnounceInv, LogIsAnnounced, IsAnnounced
<1>3. TypeOK /\ AnnounceInv /\ [Next]_vars => AnnounceInv'
  BY StepAnnounces
<1> QED BY InitTypes, StepTypes, InitAnnounces, <1>1, <1>2, <1>3, PTL DEF Spec

-----------------------------------------------------------------------------
(* One request at a time                                                    *)

OneRequest == \A s, t \in Sessions : s = t

\* The rows a round plans at time t for the pairs it sends.
Planned(sent, t) == {[sos |-> p[1], unit |-> p[2], at |-> t] : p \in sent}

\* Alone, a request commits what it has read: its reads still hold.
ReadsHold(s) ==
  /\ pc[s] \in {"confirm", "resolve_row", "resolve_unit", "resolve_commit"} =>
       loc[s].sos \in LiveReports
  /\ pc[s] = "confirm" => loc[s].trust = trust[loc[s].sos]
  /\ pc[s] \in {"resolve_row", "resolve_unit", "resolve_commit"} =>
       loc[s].status = report[loc[s].sos]
  /\ pc[s] = "resolve_row" => ~loc[s].frees
  /\ pc[s] = "resolve_unit" => loc[s].row \in LatestRows(loc[s].sos)
  /\ pc[s] = "resolve_commit" =>
       \/ RowsOf(loc[s].sos) = {} /\ ~loc[s].frees
       \/ /\ loc[s].row \in LatestRows(loc[s].sos)
          /\ loc[s].frees <=> unit[loc[s].row.unit] = "DISPATCHED"
  /\ pc[s] \in {"dispatch_units", "dispatch_plan"} =>
       loc[s].scope \in Scopes /\ loc[s].reports = Waiting(loc[s].scope) /\ clock < MaxRounds
  /\ pc[s] = "dispatch_plan" =>
       loc[s].units = Free(loc[s].scope) /\ loc[s].reports # {} /\ loc[s].units # {}
  /\ pc[s] = "dispatch_commit" =>
       /\ loc[s].scope \in Scopes /\ clock \in 1 .. MaxRounds
       /\ \E sent \in Matchings(Waiting(loc[s].scope), Free(loc[s].scope)) :
            sent # {} /\ loc[s].plan = Planned(sent, clock)
       /\ \A a \in assignments : a.at < clock
  /\ pc[s] \in {"reset_units", "reset_commit"} => loc[s].reports = LiveReports
  /\ pc[s] = "reset_commit" => loc[s].units = LiveUnits
  /\ loc[s].seeds \/ pc[s] \in {"reset_units", "reset_commit", "seed"} =>
       Environment # "production"

\* A session that arrives where nothing read is held any more.
LEMMA NothingHeld ==
  ASSUME NEW s \in Sessions, pc'[s] \in {"idle", "refresh", "publish", "seed"},
         loc'[s].seeds \/ pc'[s] = "seed" => Environment # "production"
  PROVE  ReadsHold(s)'
BY DEF ReadsHold

LEMMA StepHolds ==
  ASSUME TypeOK, RoundInv, NEW s \in Sessions, ReadsHold(s), Start(s) \/ Continue(s) \/ Crash(s)
  PROVE  ReadsHold(s)'
<1>l. loc[s] \in Locals /\ clock \in Nat /\ MaxRounds \in Nat
  BY BoundsAreNumbers DEF TypeOK
<1>b. Blank.seeds = FALSE /\ Blank.frees = FALSE
  BY DEF Blank
<1>h. loc[s].seeds \/ pc[s] \in {"reset_units", "reset_commit", "seed"} =>
        Environment # "production"
  BY DEF ReadsHold
<1>g. \A label, memory : Goto(s, label, memory) => pc'[s] = label /\ loc'[s] = memory
  BY Moved
<1>f. Finish(s) => ReadsHold(s)'
  BY <1>b, <1>g, NothingHeld DEF Finish
<1>n. ASSUME NEW label \in {"refresh", "publish"}, NEW memory, Goto(s, label, memory),
             memory.seeds => Environment # "production"
      PROVE  ReadsHold(s)'
  BY <1>n, <1>g, NothingHeld
<1>2. ASSUME NEW r \in Reports, ConfirmRead(s, r) PROVE ReadsHold(s)'
  <2> DEFINE memory == [Blank EXCEPT !.sos = r, !.trust = trust[r]]
  <2>1. /\ memory.seeds = FALSE /\ memory.sos = r /\ memory.trust = trust[r]
        /\ Goto(s, "confirm", memory) /\ UNCHANGED tables /\ r \in LiveReports
    BY <1>2 DEF ConfirmRead, Blank
  <2> HIDE DEF memory
  <2> QED BY <2>1, <1>g DEF ReadsHold, tables, LiveReports
<1>3. ASSUME NEW r \in Reports, ResolveRead(s, r) PROVE ReadsHold(s)'
  <2> DEFINE memory == [Blank EXCEPT !.sos = r, !.status = report[r]]
  <2>1. /\ memory.seeds = FALSE /\ memory.sos = r /\ memory.status = report[r] /\ ~memory.frees
        /\ Goto(s, "resolve_row", memory) /\ UNCHANGED tables /\ r \in LiveReports
    BY <1>3 DEF ResolveRead, Blank
  <2> HIDE DEF memory
  <2> QED BY <2>1, <1>g DEF ReadsHold, tables, LiveReports
<1>4. ASSUME NEW scope \in Scopes, DispatchRead(s, scope) PROVE ReadsHold(s)'
  <2> DEFINE memory == [Blank EXCEPT !.scope = scope, !.reports = Waiting(scope)]
  <2>1. /\ memory.seeds = FALSE /\ memory.scope = scope /\ memory.reports = Waiting(scope)
        /\ Goto(s, "dispatch_units", memory)
        /\ UNCHANGED <<tables, clock>> /\ clock < MaxRounds
    BY <1>4 DEF DispatchRead, Blank
  <2> HIDE DEF memory
  <2> QED BY <2>1, <1>g DEF ReadsHold, tables, Waiting
<1>5. ASSUME NEW seeds \in BOOLEAN, ResetReports(s, seeds) PROVE ReadsHold(s)'
  <2> DEFINE memory == [Blank EXCEPT !.reports = LiveReports, !.seeds = seeds]
  <2>1. /\ memory.reports = LiveReports /\ Environment # "production"
        /\ Goto(s, "reset_units", memory) /\ UNCHANGED tables
    BY <1>5 DEF ResetReports, Blank
  <2> HIDE DEF memory
  <2> QED BY <2>1, <1>g DEF ReadsHold, tables, LiveReports
<1>6. CASE ResolveFindRow(s)
  <2>0. /\ pc[s] = "resolve_row" /\ UNCHANGED tables
        /\ loc[s].sos \in LiveReports /\ loc[s].status = report[loc[s].sos] /\ ~loc[s].frees
    BY <1>6 DEF ResolveFindRow, ReadsHold
  <2>1. CASE RowsOf(loc[s].sos) = {} /\ Goto(s, "resolve_commit", loc[s])
    BY <2>0, <2>1, <1>g, <1>h DEF ReadsHold, tables, LiveReports, RowsOf
  <2>2. ASSUME NEW row \in LatestRows(loc[s].sos),
               Goto(s, "resolve_unit", [loc[s] EXCEPT !.row = row])
        PROVE  ReadsHold(s)'
    <3> DEFINE memory == [loc[s] EXCEPT !.row = row]
    <3>1. /\ memory.sos = loc[s].sos /\ memory.status = loc[s].status /\ memory.row = row
          /\ memory.seeds = loc[s].seeds /\ Goto(s, "resolve_unit", memory)
      BY <2>2, <1>l DEF Locals
    <3> HIDE DEF memory
    <3> QED BY <2>0, <3>1, <1>g, <1>h DEF ReadsHold, tables, LiveReports, RowsOf, LatestRows
  <2> QED BY <1>6, <2>1, <2>2 DEF ResolveFindRow
<1>7. CASE ResolveFindUnit(s)
  <2>0. /\ pc[s] = "resolve_unit" /\ UNCHANGED tables
        /\ loc[s].sos \in LiveReports /\ loc[s].status = report[loc[s].sos]
        /\ loc[s].row \in LatestRows(loc[s].sos)
    BY <1>7 DEF ResolveFindUnit, ReadsHold
  <2> DEFINE found == (unit[loc[s].row.unit] = "DISPATCHED")
             memory == [loc[s] EXCEPT !.frees = found]
  <2>1. Goto(s, "resolve_commit", memory)
    BY <1>7 DEF ResolveFindUnit
  <2> HIDE DEF found
  <2>2. /\ memory.sos = loc[s].sos /\ memory.status = loc[s].status /\ memory.row = loc[s].row
        /\ memory.seeds = loc[s].seeds /\ memory.frees = found
    BY <1>l DEF Locals
  <2> HIDE DEF memory
  <2>3. memory.frees <=> unit[loc[s].row.unit] = "DISPATCHED"
    BY <2>2 DEF found
  <2> QED BY <2>0, <2>1, <2>2, <2>3, <1>g, <1>h
        DEF ReadsHold, tables, LiveReports, RowsOf, LatestRows
<1>8. CASE DispatchReadUnits(s)
  <2>0. /\ pc[s] = "dispatch_units" /\ UNCHANGED <<tables, clock>>
        /\ loc[s].scope \in Scopes /\ loc[s].reports = Waiting(loc[s].scope) /\ clock < MaxRounds
    BY <1>8 DEF DispatchReadUnits, ReadsHold
  <2> DEFINE found == Free(loc[s].scope)
             memory == [loc[s] EXCEPT !.units = found]
  <2>1. CASE loc[s].reports # {} /\ found # {} /\ Goto(s, "dispatch_plan", memory)
    <3> HIDE DEF found
    <3>1. /\ memory.scope = loc[s].scope /\ memory.reports = loc[s].reports
          /\ memory.units = found /\ memory.seeds = loc[s].seeds
      BY <1>l DEF Locals
    <3>2. Goto(s, "dispatch_plan", memory)
      BY <2>1
    <3> HIDE DEF memory
    <3>3. pc'[s] = "dispatch_plan" /\ loc'[s] = memory
      BY <3>2, <1>g
    <3> QED BY <2>0, <2>1, <3>1, <3>3, <1>h DEF ReadsHold, tables, Waiting, Free, found
  <2> QED BY <1>8, <2>1, <1>f DEF DispatchReadUnits
<1>9. CASE DispatchPlan(s)
  <2>0. /\ pc[s] = "dispatch_plan" /\ UNCHANGED tables /\ clock' = clock + 1
        /\ loc[s].scope \in Scopes /\ loc[s].reports = Waiting(loc[s].scope) /\ clock < MaxRounds
        /\ loc[s].units = Free(loc[s].scope) /\ loc[s].reports # {} /\ loc[s].units # {}
    BY <1>9 DEF DispatchPlan, ReadsHold
  <2>1. PICK m \in Matchings(loc[s].reports, loc[s].units) :
          Goto(s, "dispatch_commit", [loc[s] EXCEPT !.plan = Planned(m, clock + 1)])
    BY <1>9 DEF DispatchPlan, Planned
  <2> DEFINE plan == Planned(m, clock + 1)
             memory == [loc[s] EXCEPT !.plan = plan]
  <2>2. m # {}
    BY <2>0 DEF Matchings, IsFull
  <2>3. clock' \in 1 .. MaxRounds /\ \A a \in assignments' : a.at < clock'
    <3>1. \A a \in assignments : a.at \in Nat /\ a.at <= clock
      BY DEF RoundInv, TypeOK, Assignment
    <3> QED BY <2>0, <3>1, <1>l DEF tables
  <2>4. m \in Matchings(Waiting(loc[s].scope), Free(loc[s].scope))' /\ plan = Planned(m, clock')
    <3>1. Waiting(loc[s].scope)' = Waiting(loc'[s].scope) /\ Free(loc[s].scope)' = Free(loc'[s].scope)
      BY <2>0 DEF tables, Waiting, Free
    <3>2. loc'[s].scope = loc[s].scope
      BY <2>1, <1>g, <1>l DEF Locals
    <3> QED BY <3>1, <3>2, <2>0 DEF Matchings, IsMatching, IsFull
  <2> HIDE DEF plan
  <2>5. /\ memory.scope = loc[s].scope /\ memory.plan = plan /\ memory.seeds = loc[s].seeds
    BY <1>l DEF Locals
  <2>6. Goto(s, "dispatch_commit", memory)
    BY <2>1 DEF plan
  <2> HIDE DEF memory
  <2>7. pc'[s] = "dispatch_commit" /\ loc'[s] = memory
    BY <2>6, <1>g
  <2> QED BY <2>0, <2>2, <2>3, <2>4, <2>5, <2>7, <1>h DEF ReadsHold
<1>10. CASE ResetUnits(s)
  <2>0. /\ pc[s] = "reset_units" /\ UNCHANGED tables
        /\ loc[s].reports = LiveReports /\ Environment # "production"
    BY <1>10 DEF ResetUnits, ReadsHold
  <2> DEFINE memory == [loc[s] EXCEPT !.units = LiveUnits]
  <2>1. /\ memory.reports = loc[s].reports /\ memory.units = LiveUnits
        /\ Goto(s, "reset_commit", memory)
    BY <1>10, <1>l DEF ResetUnits, Locals
  <2> HIDE DEF memory
  <2> QED BY <2>0, <2>1, <1>g DEF ReadsHold, tables, LiveReports, LiveUnits
<1>11. CASE ConfirmCommit(s) \/ ResolveCommit(s) \/ \E r \in Reports : CreateReport(s, r)
  <2>1. \E r, e : Goto(s, "refresh", [Blank EXCEPT !.sos = r, !.outbox = {e}])
    BY <1>11 DEF ConfirmCommit, ResolveCommit, CreateReport
  <2>2. PICK r, e : Goto(s, "refresh", [Blank EXCEPT !.sos = r, !.outbox = {e}])
    BY <2>1
  <2> DEFINE memory == [Blank EXCEPT !.sos = r, !.outbox = {e}]
  <2>3. memory.seeds = FALSE /\ Goto(s, "refresh", memory)
    BY <2>2 DEF Blank
  <2> HIDE DEF memory
  <2> QED BY <2>3, <1>n
<1>12. CASE DispatchCommit(s)
  <2> DEFINE memory == [Blank EXCEPT !.outbox = {Dispatched(a) : a \in loc[s].plan}]
  <2>1. memory.seeds = FALSE /\ Goto(s, "publish", memory)
    BY <1>12 DEF DispatchCommit, Blank
  <2> HIDE DEF memory
  <2> QED BY <2>1, <1>n
<1>13. CASE ResetCommit(s)
  <2> DEFINE memory == [Blank EXCEPT !.outbox = {Event("SCENARIO_RESET", NoReport, NoUnit, 0)},
                                     !.seeds = loc[s].seeds]
  <2>1. memory.seeds = loc[s].seeds /\ Goto(s, "publish", memory)
    BY <1>13 DEF ResetCommit, Blank
  <2> HIDE DEF memory
  <2> QED BY <2>1, <1>n, <1>h
<1>14. CASE SeedFleet(s) \/ RollBack(s) \/ Crash(s)
  BY <1>14, <1>f DEF SeedFleet, RollBack, Crash
<1>15. CASE Refresh(s)
  BY <1>15, <1>f, <1>n, <1>h DEF Refresh
<1>16. CASE Publish(s)
  <2>1. PICK rest : \/ Goto(s, "publish", [loc[s] EXCEPT !.outbox = rest])
                    \/ loc[s].seeds /\ Goto(s, "seed", [Blank EXCEPT !.seeds = TRUE])
                    \/ Finish(s)
    BY <1>16 DEF Publish
  <2> DEFINE memory == [loc[s] EXCEPT !.outbox = rest]
  <2>2. memory.seeds = loc[s].seeds
    BY <1>l DEF Locals
  <2>3. CASE Goto(s, "publish", memory)
    <3>1. Goto(s, "publish", memory)
      BY <2>3
    <3> HIDE DEF memory
    <3> QED BY <3>1, <2>2, <1>n, <1>h
  <2>4. CASE loc[s].seeds /\ Goto(s, "seed", [Blank EXCEPT !.seeds = TRUE])
    BY <2>4, <1>g, <1>h, NothingHeld
  <2> QED BY <2>1, <2>3, <2>4, <1>f
<1> QED
  BY <1>2, <1>3, <1>4, <1>5, <1>6, <1>7, <1>8, <1>9, <1>10, <1>11, <1>12, <1>13, <1>14, <1>15, <1>16
  DEF Start, Continue

\* A report's latest row is one: rounds have times of their own.
LEMMA LatestIsOne ==
  ASSUME TypeOK, RoundInv, NEW r, NEW a \in LatestRows(r), NEW b \in LatestRows(r)
  PROVE  a = b
<1>1. a.at \in Nat /\ b.at \in Nat
  BY DEF TypeOK, LatestRows, RowsOf, Assignment
<1>2. a.at = b.at
  BY <1>1 DEF LatestRows, RowsOf
<1> QED BY <1>2 DEF RoundInv, RoundsAreMatchings, LatestRows, RowsOf

\* The unit a resolve frees, in terms of the tables alone.
LEMMA FreedIsLatest ==
  ASSUME TypeOK, RoundInv, NEW s \in Sessions, ReadsHold(s), pc[s] = "resolve_commit",
         NEW u \in Units
  PROVE  u = FreedUnit(s) <=>
           unit[u] = "DISPATCHED" /\ \E a \in LatestRows(loc[s].sos) : a.unit = u
<1>1. u # NoUnit
  BY IdsAreDistinct DEF Rows
<1>2. CASE RowsOf(loc[s].sos) = {} /\ ~loc[s].frees
  BY <1>1, <1>2 DEF FreedUnit, LatestRows
<1>3. CASE /\ loc[s].row \in LatestRows(loc[s].sos)
           /\ loc[s].frees <=> unit[loc[s].row.unit] = "DISPATCHED"
  <2>1. \A a \in LatestRows(loc[s].sos) : a = loc[s].row
    BY <1>3, LatestIsOne
  <2> QED BY <1>1, <1>3, <2>1 DEF FreedUnit
<1> QED BY <1>2, <1>3 DEF ReadsHold

LEMMA StepStrands ==
  ASSUME TypeOK, TablesInv, RoundInv, NEW s \in Sessions, ReadsHold(s), NoUnitIsStranded,
         Start(s) \/ Continue(s) \/ Crash(s), OneRequest
  PROVE  NoUnitIsStranded'
<1>a. /\ assignments \subseteq Assignment
      /\ \A a \in assignments : a.sos \in Reports /\ a.unit \in Units /\ a.at \in Nat
  BY DEF TypeOK, Assignment
<1>s. \A t \in Sessions : t = s
  BY DEF OneRequest
<1>1. CASE UNCHANGED tables
  BY <1>1 DEF tables, NoUnitIsStranded, LatestRows, RowsOf
<1>2. ASSUME NEW r \in Reports, CreateReport(s, r) PROVE NoUnitIsStranded'
  <2>1. /\ UNCHANGED <<unit, assignments>> /\ report[r] = "ABSENT"
        /\ \A x \in Reports : x # r => report'[x] = report[x]
    BY <1>2 DEF CreateReport, TypeOK
  <2> QED BY <2>1, <1>a DEF NoUnitIsStranded, LatestRows, RowsOf
<1>3. CASE ConfirmCommit(s)
  BY <1>3 DEF ConfirmCommit, NoUnitIsStranded, LatestRows, RowsOf
<1>4. CASE ResolveCommit(s)
  <2>1. /\ pc[s] = "resolve_commit" /\ assignments' = assignments
        /\ \A x \in Reports : x # loc[s].sos => report'[x] = report[x]
        /\ \A u \in Units : unit'[u] = IF u = FreedUnit(s) THEN "AVAILABLE" ELSE unit[u]
    BY <1>4 DEF ResolveCommit, TypeOK
  <2>2. ASSUME NEW u \in Units, unit'[u] = "DISPATCHED"
        PROVE  \E a \in assignments : a.unit = u /\ report'[a.sos] = "ASSIGNED" /\ a \in LatestRows(a.sos)
    <3>1. unit[u] = "DISPATCHED" /\ u # FreedUnit(s)
      BY <2>1, <2>2
    <3>2. PICK a \in assignments : a.unit = u /\ report[a.sos] = "ASSIGNED" /\ a \in LatestRows(a.sos)
      BY <3>1 DEF NoUnitIsStranded
    <3>3. a.sos # loc[s].sos
      BY <3>1, <3>2, <2>1, FreedIsLatest
    <3> QED BY <3>2, <3>3, <2>1, <1>a
  <2> QED BY <2>1, <2>2 DEF NoUnitIsStranded, LatestRows, RowsOf
<1>5. CASE DispatchCommit(s)
  <2>1. /\ assignments' = assignments \cup loc[s].plan
        /\ \A r \in Reports : report'[r] = IF \E a \in loc[s].plan : a.sos = r
                                             THEN "ASSIGNED" ELSE report[r]
        /\ \A u \in Units : unit'[u] = IF \E a \in loc[s].plan : a.unit = u
                                         THEN "DISPATCHED" ELSE unit[u]
    BY <1>5 DEF DispatchCommit, NowAssigned, Persisted
  <2>2. PICK sent \in Matchings(Waiting(loc[s].scope), Free(loc[s].scope)) :
          loc[s].plan = Planned(sent, clock)
    BY <1>5 DEF DispatchCommit, ReadsHold
  <2>3. \A a \in loc[s].plan : a.sos \in Reports /\ a.sos \in Waiting(loc[s].scope) /\ a.at = clock
    BY <2>2 DEF Matchings, Planned, Waiting
  <2>4. \A a \in loc[s].plan : RowsOf(a.sos) = {} /\ report[a.sos] = "PENDING"
    BY <2>3 DEF Waiting, TablesInv, PendingIsUnassigned, RowsOf
  <2>5. \A a, b \in loc[s].plan : a.sos = b.sos => a = b
    BY DEF RoundInv
  <2>6. ASSUME NEW a \in loc[s].plan
        PROVE  a \in LatestRows(a.sos)' /\ report'[a.sos] = "ASSIGNED" /\ a \in assignments'
    <3>1. \A b \in assignments' : b.sos = a.sos => b = a
      BY <2>1, <2>4, <2>5 DEF RowsOf
    <3>2. a.at <= a.at
      BY <2>3 DEF TypeOK
    <3> QED BY <3>1, <3>2, <2>1, <2>3 DEF LatestRows, RowsOf
  <2>7. ASSUME NEW a \in assignments, report[a.sos] = "ASSIGNED", a \in LatestRows(a.sos)
        PROVE  a \in LatestRows(a.sos)' /\ report'[a.sos] = "ASSIGNED" /\ a \in assignments'
    <3>1. \A b \in loc[s].plan : b.sos # a.sos
      BY <2>4, <2>7
    <3> QED BY <3>1, <2>1, <2>7, <1>a DEF LatestRows, RowsOf
  <2>8. ASSUME NEW u \in Units, unit'[u] = "DISPATCHED"
        PROVE  \E a \in assignments' : a.unit = u /\ report'[a.sos] = "ASSIGNED" /\ a \in LatestRows(a.sos)'
    <3>1. CASE \E a \in loc[s].plan : a.unit = u
      BY <3>1, <2>6
    <3>2. CASE unit[u] = "DISPATCHED"
      BY <3>2, <2>7 DEF NoUnitIsStranded
    <3> QED BY <3>1, <3>2, <2>1, <2>8
  <2> QED BY <2>8 DEF NoUnitIsStranded
<1>6. CASE ResetCommit(s)
  <2>1. loc[s].units = LiveUnits
    BY <1>6 DEF ResetCommit, ReadsHold
  <2>2. \A u \in Units : unit'[u] # "DISPATCHED"
    BY <1>6, <2>1 DEF ResetCommit, LiveUnits, UnitStatus
  <2> QED BY <2>2 DEF NoUnitIsStranded
<1>7. CASE SeedFleet(s)
  <2>1. /\ UNCHANGED <<report, assignments>>
        /\ \A u \in Units : unit'[u] = "DISPATCHED" => unit[u] = "DISPATCHED"
    BY <1>7 DEF SeedFleet
  <2> QED BY <2>1 DEF NoUnitIsStranded, LatestRows, RowsOf
<1>8. [Next]_vars
  BY DEF Next
<1> QED BY <1>1, <1>2, <1>3, <1>4, <1>5, <1>6, <1>7, <1>8, <1>s, WhoWrites

SerialInv == (\A s \in Sessions : ReadsHold(s)) /\ NoUnitIsStranded

LEMMA InitSerial == Init => SerialInv
<1> SUFFICES ASSUME Init PROVE SerialInv
  OBVIOUS
<1>1. \A s \in Sessions : ReadsHold(s)
  BY DEF Init, ReadsHold, Blank
<1>2. NoUnitIsStranded
  BY DEF Init, NoUnitIsStranded
<1> QED BY <1>1, <1>2 DEF SerialInv

LEMMA StepSerial ==
  ASSUME OneRequest
  PROVE  TypeOK /\ TablesInv /\ RoundInv /\ SerialInv /\ [Next]_vars => SerialInv'
<1> SUFFICES ASSUME TypeOK, TablesInv, RoundInv, SerialInv, [Next]_vars PROVE SerialInv'
  OBVIOUS
<1>1. CASE UNCHANGED vars
  <2>1. \A s \in Sessions : ReadsHold(s)'
    BY <1>1 DEF vars, SerialInv, ReadsHold, LiveReports, LiveUnits, LatestRows, RowsOf,
                Waiting, Free, Matchings, IsMatching, IsFull
  <2>2. NoUnitIsStranded'
    BY <1>1 DEF vars, SerialInv, NoUnitIsStranded, LatestRows, RowsOf
  <2> QED BY <2>1, <2>2 DEF SerialInv
<1>2. ASSUME NEW s \in Sessions, Start(s) \/ Continue(s) \/ Crash(s) PROVE SerialInv'
  <2>1. ReadsHold(s)'
    BY <1>2, StepHolds DEF SerialInv
  <2>2. NoUnitIsStranded'
    BY <1>2, StepStrands DEF SerialInv
  <2> QED BY <2>1, <2>2 DEF SerialInv, OneRequest
<1> QED BY <1>1, <1>2 DEF Next

\* Requests that do not overlap strand no unit: whatever is created, dispatched,
\* resolved, reset or crashes, the report a DISPATCHED unit serves can give it back.
THEOREM SerialStrandsNoUnit ==
  ASSUME OneRequest
  PROVE  Spec => []NoUnitIsStranded
<1>1. TypeInv => TypeOK
  BY DEF TypeInv
<1>2. SerialInv => NoUnitIsStranded
  BY DEF SerialInv
<1>3. TypeOK /\ TablesInv /\ RoundInv /\ SerialInv /\ [Next]_vars => SerialInv'
  BY StepSerial
<1> QED
  BY InitTypes, StepTypes, InitTables, StepTables, InitRounds, StepRounds, InitSerial,
     <1>1, <1>2, <1>3, PTL DEF Spec

-----------------------------------------------------------------------------
(* The contract                                                             *)

\* A matching that is full has as many pairs as the side that runs out.
LEMMA FullMatchingCounts ==
  ASSUME NEW rs, NEW us, IsFiniteSet(rs), IsFiniteSet(us), NEW m \in Matchings(rs, us)
  PROVE  Cardinality(m) \in {Cardinality(rs), Cardinality(us)}
<1>1. m \subseteq rs \X us /\ IsMatching(m) /\ IsFull(m, rs, us)
  BY DEF Matchings
<1>2. CASE {p[1] : p \in m} = rs
  <2> DEFINE pairOf == [r \in rs |-> CHOOSE p \in m : p[1] = r]
  <2>1. \A r \in rs : pairOf[r] \in m /\ pairOf[r][1] = r
    BY <1>2
  <2>2. pairOf \in [rs -> m]
    BY <2>1
  <2>3. \A p \in m : p[1] \in rs /\ pairOf[p[1]] = p
    BY <1>1, <1>2, <2>1 DEF IsMatching
  <2> HIDE DEF pairOf
  <2>4. pairOf \in Bijection(rs, m)
    BY <2>1, <2>2, <2>3 DEF Bijection, Injection, IsInjective, Surjection
  <2>5. ExistsBijection(rs, m)
    BY <2>4 DEF ExistsBijection
  <2> QED BY <2>5, FS_Bijection
<1>3. CASE {p[2] : p \in m} = us
  <2> DEFINE pairOf == [u \in us |-> CHOOSE p \in m : p[2] = u]
  <2>1. \A u \in us : pairOf[u] \in m /\ pairOf[u][2] = u
    BY <1>3
  <2>2. pairOf \in [us -> m]
    BY <2>1
  <2>3. \A p \in m : p[2] \in us /\ pairOf[p[2]] = p
    BY <1>1, <1>3, <2>1 DEF IsMatching
  <2> HIDE DEF pairOf
  <2>4. pairOf \in Bijection(us, m)
    BY <2>1, <2>2, <2>3 DEF Bijection, Injection, IsInjective, Surjection
  <2>5. ExistsBijection(us, m)
    BY <2>4 DEF ExistsBijection
  <2> QED BY <2>5, FS_Bijection
<1> QED BY <1>1, <1>2, <1>3 DEF IsFull

\* A row that exists, in the words of the contract.
LEMMA ExistsIsLive ==
  ASSUME TypeOK, NEW r \in Reports
  PROVE  Contract!Exists(r) <=> r \in LiveReports
BY DEF TypeOK, Contract!Exists, LiveReports, ReportStatus

LEMMA CreateImplements ==
  ASSUME NEW s, NEW r \in Reports, CreateReport(s, r)
  PROVE  Contract!Next
BY DEF CreateReport, Contract!Next, Contract!Create

LEMMA ConfirmImplements ==
  ASSUME TypeOK, NEW s \in Sessions, ReadsHold(s), ConfirmCommit(s)
  PROVE  Contract!Next
<1>1. loc[s].sos \in LiveReports /\ loc[s].sos \in Reports /\ loc[s].trust = trust[loc[s].sos]
  BY DEF ConfirmCommit, ReadsHold, LiveReports
<1>2. Contract!Confirm(loc[s].sos)
  BY <1>1, ExistsIsLive DEF ConfirmCommit, Trusted, Recorded, Contract!Confirm
<1> QED BY <1>1, <1>2 DEF Contract!Next

LEMMA ResolveImplements ==
  ASSUME TypeOK, RoundInv, NEW s \in Sessions, ReadsHold(s), ResolveCommit(s)
  PROVE  Contract!Next
<1> DEFINE r == loc[s].sos
<1>1. /\ pc[s] = "resolve_commit" /\ r \in LiveReports /\ r \in Reports /\ loc[s].status = report[r]
  BY DEF ResolveCommit, ReadsHold, LiveReports
<1>2. report' = [report EXCEPT ![r] = "RESOLVED"]
  BY <1>1 DEF ResolveCommit, TypeOK
<1>3. \A u \in Units : u = FreedUnit(s) <=>
        /\ unit[u] = "DISPATCHED"
        /\ \E a \in assignments : /\ a.sos = r /\ a.unit = u
                                  /\ \A b \in assignments : b.sos = r => b.at <= a.at
  BY <1>1, FreedIsLatest DEF LatestRows, RowsOf
<1>4. unit' = [u \in Units |-> IF u = FreedUnit(s) THEN "AVAILABLE" ELSE unit[u]]
  BY DEF ResolveCommit
<1>5. UNCHANGED <<trust, confirmations, assignments>>
  BY DEF ResolveCommit
<1> HIDE DEF r
<1>6. Contract!Resolve(r)
  BY <1>1, <1>2, <1>3, <1>4, <1>5, ExistsIsLive DEF Contract!Resolve
<1> QED BY <1>1, <1>6 DEF Contract!Next

\* Counting is the same in the contract.
LEMMA SameCount ==
  ASSUME NEW S
  PROVE  Contract!Cardinality(S) = Cardinality(S)
BY DEF Contract!Cardinality, Cardinality

LEMMA DispatchImplements ==
  ASSUME TypeOK, IsFiniteSet(Reports), IsFiniteSet(Units),
         NEW s \in Sessions, ReadsHold(s), DispatchCommit(s)
  PROVE  Contract!Next
<1> DEFINE scope == loc[s].scope
           waiting == Waiting(scope)
           free == Free(scope)
<1>1. /\ scope \in Scopes /\ clock \in 1 .. MaxRounds /\ \A a \in assignments : a.at < clock
  BY DEF DispatchCommit, ReadsHold
<1>2. PICK sent \in Matchings(waiting, free) : sent # {} /\ loc[s].plan = Planned(sent, clock)
  BY DEF DispatchCommit, ReadsHold
<1>3. sent \in SUBSET (waiting \X free) /\ IsMatching(sent)
  BY <1>2 DEF Matchings
<1>4. \A p, q \in sent : p[1] = q[1] <=> p[2] = q[2]
  BY <1>3 DEF IsMatching
<1>5. IsFiniteSet(waiting) /\ IsFiniteSet(free)
  <2>1. waiting \subseteq Reports /\ free \subseteq Units
    BY DEF Waiting, Free
  <2> QED BY <2>1, FS_Subset
<1>6. Cardinality(sent) \in {Cardinality(waiting), Cardinality(free)}
  BY <1>2, <1>5, FullMatchingCounts
<1>p. PICK plan : /\ plan = loc[s].plan
                  /\ plan = {[sos |-> p[1], unit |-> p[2], at |-> clock] : p \in sent}
  BY <1>2 DEF Planned
<1>r. /\ \A r : (\E a \in plan : a.sos = r) <=> \E p \in sent : p[1] = r
      /\ \A u : (\E a \in plan : a.unit = u) <=> \E p \in sent : p[2] = u
  <2>1. \A p \in sent : \E a \in plan : a.sos = p[1] /\ a.unit = p[2]
    <3> SUFFICES ASSUME NEW p \in sent PROVE \E a \in plan : a.sos = p[1] /\ a.unit = p[2]
      OBVIOUS
    <3>1. [sos |-> p[1], unit |-> p[2], at |-> clock] \in plan
      BY <1>p
    <3> QED BY <3>1
  <2>2. \A a \in plan : \E p \in sent : a.sos = p[1] /\ a.unit = p[2]
    BY <1>p
  <2>3. ASSUME NEW r PROVE (\E a \in plan : a.sos = r) <=> \E p \in sent : p[1] = r
    BY ONLY <2>1, <2>2
  <2>4. ASSUME NEW u PROVE (\E a \in plan : a.unit = u) <=> \E p \in sent : p[2] = u
    BY ONLY <2>1, <2>2
  <2> QED BY <2>3, <2>4
<1>c. /\ report' = [r \in Reports |-> IF \E a \in plan : a.sos = r THEN "ASSIGNED" ELSE report[r]]
      /\ unit' = [u \in Units |-> IF \E a \in plan : a.unit = u THEN "DISPATCHED" ELSE unit[u]]
      /\ assignments' = assignments \cup plan
      /\ UNCHANGED <<trust, confirmations>>
  BY <1>p DEF DispatchCommit, NowAssigned, Persisted
<1>8. /\ report' = [r \in Reports |-> IF \E p \in sent : p[1] = r THEN "ASSIGNED" ELSE report[r]]
      /\ unit' = [u \in Units |-> IF \E p \in sent : p[2] = u THEN "DISPATCHED" ELSE unit[u]]
      /\ assignments' = assignments \cup {[sos |-> p[1], unit |-> p[2], at |-> clock] : p \in sent}
      /\ UNCHANGED <<trust, confirmations>>
  BY <1>c, <1>p, <1>r
<1>9. /\ waiting = {r \in Reports \cap scope : report[r] = "PENDING"}
      /\ free = {u \in Units \cap scope : unit[u] = "AVAILABLE"}
  BY DEF Waiting, Free
<1> HIDE DEF waiting, free, scope
<1>10. Contract!Dispatch(scope)
  <2> SUFFICES \E m \in SUBSET (waiting \X free), t \in 1 .. MaxRounds :
        /\ m # {}
        /\ \A p, q \in m : (p[1] = q[1]) <=> (p[2] = q[2])
        /\ Cardinality(m) \in {Cardinality(waiting), Cardinality(free)}
        /\ report' = [r \in Reports |-> IF \E p \in m : p[1] = r THEN "ASSIGNED" ELSE report[r]]
        /\ unit' = [u \in Units |-> IF \E p \in m : p[2] = u THEN "DISPATCHED" ELSE unit[u]]
        /\ \A a \in assignments : a.at < t
        /\ assignments' = assignments \cup {[sos |-> p[1], unit |-> p[2], at |-> t] : p \in m}
        /\ UNCHANGED <<trust, confirmations>>
    BY <1>9, SameCount DEF Contract!Dispatch
  <2>1. sent \in SUBSET (waiting \X free) /\ clock \in 1 .. MaxRounds
    BY <1>1, <1>3
  <2> QED BY <2>1, <1>1, <1>2, <1>4, <1>6, <1>8
<1> QED BY <1>1, <1>10 DEF Contract!Next

LEMMA ResetImplements ==
  ASSUME TypeOK, TablesInv, TrustIsEarned, NEW s \in Sessions, ReadsHold(s), ResetCommit(s)
  PROVE  Contract!Next
<1>1. loc[s].reports = LiveReports /\ loc[s].units = LiveUnits /\ Environment # "production"
  BY DEF ResetCommit, ReadsHold
<1>2. \A r \in Reports : r \notin LiveReports => trust[r] = 0 /\ confirmations[r] = 0
  BY DEF TablesInv, RowsHaveParents, TrustIsEarned, TypeOK
<1>3. \A a \in assignments : a.sos \in LiveReports
  BY DEF TablesInv, RowsHaveParents
<1>4. /\ report' = [r \in Reports |-> IF Contract!Exists(r) THEN "DELETED" ELSE report[r]]
      /\ trust' = [r \in Reports |-> 0] /\ confirmations' = [r \in Reports |-> 0]
      /\ assignments' = {}
  BY <1>1, <1>2, <1>3, ExistsIsLive DEF ResetCommit
<1>5. unit' = [u \in Units |-> IF unit[u] = "ABSENT" THEN "ABSENT" ELSE "DELETED"]
  BY <1>1 DEF ResetCommit, LiveUnits, UnitStatus, TypeOK
<1>6. Contract!Reset
  BY <1>1, <1>4, <1>5 DEF Contract!Reset
<1> QED BY <1>6 DEF Contract!Next

LEMMA SeedImplements ==
  ASSUME NEW s \in Sessions, ReadsHold(s), SeedFleet(s)
  PROVE  Contract!Next
<1>1. Environment # "production"
  BY DEF SeedFleet, ReadsHold
<1>2. PICK us \in SUBSET {u \in Units : unit[u] = "ABSENT"} :
        /\ Cardinality(us) = FleetSize
        /\ unit' = [u \in Units |-> IF u \in us THEN "AVAILABLE" ELSE unit[u]]
  BY DEF SeedFleet
<1>3. UNCHANGED <<report, trust, confirmations, assignments>>
  BY DEF SeedFleet
<1>4. Contract!Seed
  BY <1>1, <1>2, <1>3, SameCount DEF Contract!Seed
<1> QED BY <1>4 DEF Contract!Next

LEMMA StepImplements ==
  ASSUME IsFiniteSet(Reports), IsFiniteSet(Units)
  PROVE  TypeOK /\ TablesInv /\ RoundInv /\ TrustIsEarned /\ SerialInv /\ [Next]_vars
           => [Contract!Next]_(Contract!vars)
<1> SUFFICES ASSUME TypeOK, TablesInv, RoundInv, TrustIsEarned, SerialInv, [Next]_vars
             PROVE  Contract!Next \/ UNCHANGED Contract!vars
  OBVIOUS
<1>1. CASE UNCHANGED tables
  BY <1>1 DEF tables, Contract!vars
<1> QED
  BY <1>1, WhoWrites, CreateImplements, ConfirmImplements, ResolveImplements, DispatchImplements,
     ResetImplements, SeedImplements
  DEF SerialInv

\* Requests that do not overlap implement the promises of the endpoints, each
\* as one indivisible operation, also where workers die and requests roll back.
\* (Ids are uuids: there are finitely many.)
THEOREM SerialImplementsContract ==
  ASSUME OneRequest, IsFiniteSet(Reports), IsFiniteSet(Units)
  PROVE  Spec => ImplementsContract
<1>1. TypeInv => TypeOK
  BY DEF TypeInv
<1>2. Init => Contract!Init
  BY DEF Init, Contract!Init
<1>3. TypeOK /\ TablesInv /\ RoundInv /\ SerialInv /\ [Next]_vars => SerialInv'
  BY StepSerial
<1>4. TypeOK /\ TablesInv /\ RoundInv /\ TrustIsEarned /\ SerialInv /\ [Next]_vars
        => [Contract!Next]_(Contract!vars)
  BY StepImplements
<1>5. ConfirmInv => TrustIsEarned
  BY DEF ConfirmInv
<1> QED
  BY InitTypes, StepTypes, InitTables, StepTables, InitRounds, StepRounds, InitConfirms,
     StepConfirms, InitSerial, <1>1, <1>2, <1>3, <1>4, <1>5, PTL
  DEF Spec, ImplementsContract, Contract!Spec

=============================================================================
