---------------------------- MODULE DashboardProofs ----------------------------
(***************************************************************************)
(* Theorems about Dashboard, for any reports, budgets, runs and sockets:   *)
(* its feed is the one of WebSocketHook, the route in the navigation card  *)
(* is the focused assignment's, and the page is never ahead of the log     *)
(* nor misses what the tables hold.                                        *)
(***************************************************************************)
EXTENDS Dashboard, WebSocketHookProofs

-----------------------------------------------------------------------------
(* The feed                                                                 *)

\* A toggle is a rerun with one of the handlers.
LEMMA TogglesAreHandlers ==
  ASSUME HookTypeOK
  PROVE  /\ [handler[run] EXCEPT !.isMuted = ~isMuted] \in Handlers
         /\ \A active \in BOOLEAN : [handler[run] EXCEPT !.isReplayMode = active] \in Handlers
<1>1. handler[run] \in Handlers
  BY DEF HookTypeOK
<1>. QED  BY <1>1 DEF Handlers, isMuted, isReplayMode

\* Every step of the dashboard is a step of its hook, or leaves it alone.
LEMMA DashboardHookStep == HookTypeOK /\ [Next]_vars => [HookNext]_hookVars
<1>. SUFFICES ASSUME HookTypeOK, [Next]_vars PROVE [HookNext]_hookVars
  OBVIOUS
<1>1. CASE UNCHANGED vars
  BY <1>1 DEF vars
<1>2. CASE Feed
  BY <1>2 DEF Feed, SocketOpened, SocketDropped, SocketClosed, HookNext
<1>3. CASE ToggleMute
  BY <1>3, TogglesAreHandlers DEF ToggleMute, HookNext
<1>4. CASE Replay
  <2>1. ASSUME NEW active \in BOOLEAN, SetReplayMode(active) PROVE [HookNext]_hookVars
    BY <2>1, TogglesAreHandlers DEF SetReplayMode, HookNext
  <2>2. ASSUME NEW q, ReplayLoaded(q) \/ ReplayFailed(q) PROVE [HookNext]_hookVars
    BY <2>1, <2>2 DEF ReplayLoaded, ReplayFailed
  <2>3. ASSUME NEW byTour, EnterReplay(byTour) \/ LeaveReplay PROVE [HookNext]_hookVars
    BY <2>1, <2>3 DEF EnterReplay, LeaveReplay
  <2>4. ASSUME NEW events, SelectReplay(events) \/ TourScrubs(events) PROVE [HookNext]_hookVars
    BY <2>4 DEF SelectReplay, TourScrubs
  <2>. QED  BY <1>4, <2>2, <2>3, <2>4 DEF Replay
<1>5. CASE Server \/ (\E e \in unannounced : Publish(e)) \/ SirenEnds
           \/ (\E s \in Sockets : Deliver(s)) \/ Hydrate
  BY <1>5 DEF Server, Publish, SirenEnds, Deliver, Hydrate, HydrationRead, HydrationAnswered
<1>6. CASE Dispatch \/ Navigate \/ Arrives \/ MarkedArrived
  BY <1>6 DEF Dispatch, RunDispatch, Round, DispatchAnswered, Navigate, Arrives, MarkedArrived
<1>7. CASE Scenario
  BY <1>7 DEF Scenario, AskTrigger, TriggerDone, TriggerAnswered, TriggerFailed, TriggerReleased,
              AskReset, ResetDone, ResetAnswered, ResetFailed
<1>. QED  BY <1>1, <1>2, <1>3, <1>4, <1>5, <1>6, <1>7 DEF Next

\* The dashboard uses the hook as HookSpec describes it, whatever the officer,
\* the server and the network do (useWebSocket.ts in page.tsx).
THEOREM DashboardRunsHook == Spec => HookSpec
<1>1. Init => HookInit
  BY DEF Init
<1>2. ChainInv => HookTypeOK
  BY DEF ChainInv
<1>3. ChainInv /\ [Next]_vars => ChainInv'
  BY <1>2, DashboardHookStep, ChainStep
<1>. QED  BY <1>1, <1>2, <1>3, ChainInit, DashboardHookStep, PTL DEF Spec, HookSpec

\* Each run of the page's feed reconnects along one chain.
THEOREM DashboardChainsStaySingle == Spec => []OneChainPerRun
<1>. QED  BY DashboardRunsHook, ChainsStaySingle, PTL

\* While the page shows its feed as down, it is trying to connect.
THEOREM DashboardKeepsTrying == Spec => []ConnectedOrTrying
<1>. QED  BY DashboardRunsHook, FeedKeepsTrying, PTL

-----------------------------------------------------------------------------
(* The navigation card                                                      *)

\* What makes RouteIsOfTheFocused inductive: only a request for the focused
\* assignment may still be answered, and none once the card is closed.
FocusInv ==
  /\ RouteIsOfTheFocused
  /\ routeFetches \subseteq {focused} \ {NoReport}

\* Opening a card, or closing it, establishes the invariant.
LEMMA SetFocusEstablishes == ASSUME NEW a, SetFocus(a) PROVE FocusInv'
  BY DEF SetFocus, FocusInv, RouteIsOfTheFocused, Unsubscribed

\* The steps that touch the card.
LEMMA WhoNavigates ==
  [Next]_vars => Navigate \/ MarkedArrived \/ UNCHANGED focusVars
<1>. SUFFICES ASSUME [Next]_vars, ~Navigate, ~MarkedArrived PROVE UNCHANGED focusVars
  OBVIOUS
<1>1. CASE UNCHANGED vars
  BY <1>1 DEF vars
<1>2. CASE Server \/ (\E e \in unannounced : Publish(e)) \/ SirenEnds
           \/ (\E s \in Sockets : Deliver(s)) \/ Hydrate
  BY <1>2 DEF Server, Publish, SirenEnds, Deliver, Hydrate, HydrationRead, HydrationAnswered
<1>3. CASE Feed \/ ToggleMute
  BY <1>3 DEF Feed, ToggleMute
<1>4. CASE Dispatch \/ Arrives
  BY <1>4 DEF Dispatch, RunDispatch, Round, DispatchAnswered, Arrives
<1>5. CASE Scenario
  BY <1>5 DEF Scenario, AskTrigger, TriggerDone, TriggerAnswered, TriggerFailed, TriggerReleased,
              AskReset, ResetDone, ResetAnswered, ResetFailed
<1>6. CASE Replay
  BY <1>6 DEF Replay, EnterReplay, LeaveReplay, ReplayLoaded, ReplayFailed, SelectReplay, TourScrubs
<1>. QED  BY <1>1, <1>2, <1>3, <1>4, <1>5, <1>6 DEF Next

LEMMA FocusStep == FocusInv /\ [Next]_vars => FocusInv'
<1>. SUFFICES ASSUME FocusInv, [Next]_vars PROVE FocusInv'
  OBVIOUS
<1>1. CASE UNCHANGED focusVars
  BY <1>1 DEF focusVars, FocusInv, RouteIsOfTheFocused
<1>2. ASSUME NEW r, Focus(r) PROVE FocusInv'
  BY <1>2, SetFocusEstablishes DEF Focus
<1>3. CASE CloseNavigation \/ MarkedArrived
  BY <1>3, SetFocusEstablishes DEF CloseNavigation, MarkedArrived, ArrivalConfirmed
<1>4. ASSUME NEW r, RouteAnswered(r) PROVE FocusInv'
  <2>1. r = focused /\ focused # NoReport /\ focused' = focused
    BY <1>4 DEF RouteAnswered, FocusInv
  <2>2. route' = focused' \/ routeError'
    BY <1>4, <2>1 DEF RouteAnswered, ShowRoute, ShowError
  <2>3. routeFetches' \subseteq {focused'} \ {NoReport}
    BY <1>4, <2>1 DEF RouteAnswered, FocusInv
  <2>. QED  BY <2>1, <2>2, <2>3 DEF FocusInv, RouteIsOfTheFocused
<1>5. CASE MarkArrived \/ ArrivalFailed
  BY <1>5 DEF MarkArrived, ArrivalFailed, FocusInv, RouteIsOfTheFocused
<1>. QED  BY <1>1, <1>2, <1>3, <1>4, <1>5, WhoNavigates DEF Navigate

\* However late the answers come, the route or the error in the card is that
\* of the assignment it shows (the route effect of page.tsx).
THEOREM RouteStaysOfTheFocused == Spec => []RouteIsOfTheFocused
<1>1. Init => FocusInv
  BY DEF Init, FocusInit, FocusInv, RouteIsOfTheFocused
<1>2. FocusInv => RouteIsOfTheFocused
  BY DEF FocusInv
<1>. QED  BY <1>1, <1>2, FocusStep, PTL DEF Spec

-----------------------------------------------------------------------------
-----------------------------------------------------------------------------
(* Types                                                                    *)

\* What a hydration answers.
Answers == [Reports -> Absent .. RESOLVED]

\* The events the server does announce.
News ==
  {Event("SOS_CREATED", r) : r \in Reports} \cup {Event("UNIT_DISPATCHED", r) : r \in Reports}
    \cup {Event("SCENARIO_RESET", NoReport), Event("SIMULATION_COMPLETE", NoReport)}

IsRound(q) ==
  /\ q = [number |-> q.number, sim |-> q.sim, stage |-> q.stage, rows |-> q.rows]
  /\ q.stage \in {"asked", "read", "done"} /\ q.rows \subseteq Reports

IsTrigger(q) ==
  /\ q = [number |-> q.number, isMuted |-> q.isMuted, sim |-> q.sim]
  /\ q.isMuted \in BOOLEAN /\ q.sim \in Nat

\* TypeOK is not inductive: a dispatched report is queued, so an event must name
\* one; the log and the replay hold what is announced.
PageTypes ==
  /\ FocusTypeOK
  /\ status \in Answers /\ shown \in Answers
  /\ simOf \in [Reports -> Nat] /\ scenarios \in Nat /\ activeSimId \in Nat
  /\ wiped \subseteq Reports /\ queue \subseteq Reports /\ readByOthers \subseteq Reports
  /\ unannounced \subseteq News /\ log \subseteq News /\ replayEvents \subseteq News
  /\ inbox \in [Sockets -> Seq(News)]
  /\ hydrations \subseteq {<<>>} \cup {<<a>> : a \in Answers}
  /\ (\A q \in dispatches : IsRound(q)) /\ (\A q \in triggers : IsTrigger(q))
  /\ resetting \in {"idle", "asked", "done"} /\ releases \in Nat
  /\ hydrated \in BOOLEAN /\ isTriggering \in BOOLEAN /\ arrived \in BOOLEAN /\ siren \in BOOLEAN

PageInv == ChainInv /\ PageTypes

\* The steps of the feed, grouped by what they leave alone: nothing but the
\* hook, the messages on its sockets, the requests of a replay and the hydration
\* changes.
FeedMoves ==
  /\ UNCHANGED <<focusVars, serverVars, readByOthers, listVars, activeSimId, replayEvents,
                 requestVars, siren>>
  /\ inbox' \in {inbox} \cup {[inbox EXCEPT ![s] = <<>>] : s \in Sockets}
  /\ inbox' # inbox => ~isConnected'
  /\ \A q \in loads' : q \in loads \/ q.seen = replayEvents
  /\ \A seen \in scrubs' : seen \in scrubs \/ \E q \in loads : seen = q.seen
  /\ Rehydrated

LEMMA WhoMoves ==
  [Next]_vars =>
    \/ UNCHANGED vars \/ Server \/ (\E e \in unannounced : Publish(e))
    \/ FeedMoves \/ (\E s \in Sockets : Deliver(s)) \/ SirenEnds
    \/ Hydrate \/ Dispatch \/ Navigate \/ Arrives \/ MarkedArrived \/ Scenario
    \/ (\E q \in loads : ReplayLoaded(q)) \/ (\E events \in SUBSET replayEvents : SelectReplay(events))
    \/ (\E seen \in scrubs : TourScrubs(seen))
<1>. SUFFICES ASSUME \/ Feed \/ ToggleMute \/ LeaveReplay
                     \/ \E byTour \in BOOLEAN : EnterReplay(byTour)
                     \/ \E q \in loads : ReplayFailed(q)
              PROVE  FeedMoves
  BY DEF Next, Replay
<1>1. CASE Feed
  BY <1>1 DEF Feed, FeedMoves, SocketOpened, SocketDropped, SocketClosed, Dropped, ClosedByPage,
                Closed, replayVars
<1>2. CASE ToggleMute
  BY <1>2 DEF ToggleMute, FeedMoves, replayVars
<1>3. CASE LeaveReplay
  BY <1>3 DEF LeaveReplay, FeedMoves, replayVars
<1>4. CASE \E byTour \in BOOLEAN : EnterReplay(byTour)
  BY <1>4 DEF EnterReplay, FeedMoves
<1>5. CASE \E q \in loads : ReplayFailed(q)
  BY <1>5 DEF ReplayFailed, LoadEnds, FeedMoves
<1>. QED  BY <1>1, <1>2, <1>3, <1>4, <1>5

\* The hydration effect only drops requests, or makes a new one.
LEMMA RehydratedAsks ==
  ASSUME Rehydrated
  PROVE  hydrations' \in {hydrations, {<<>>}, {}} /\ hydrated' \in {hydrated, FALSE}
BY DEF Rehydrated, Cancelled

LEMMA ActiveIsAnswer == ASSUME PageTypes PROVE ActiveReports \in Answers
BY DEF PageTypes, ActiveReports, Answers, Absent, RESOLVED

LEMMA AnswerExcept ==
  ASSUME NEW f \in Answers, NEW r, NEW v \in Absent .. RESOLVED
  PROVE  [f EXCEPT ![r] = v] \in Answers
BY DEF Answers

LEMMA NewsType ==
  ASSUME NEW e \in News
  PROVE  /\ e \in Events
         /\ e.type \in {"SOS_CREATED", "UNIT_DISPATCHED", "SIMULATION_COMPLETE", "SCENARIO_RESET"}
         /\ e.type \in {"SOS_CREATED", "UNIT_DISPATCHED"} =>
              e.sos \in Reports /\ e = Event(e.type, e.sos)
BY DEF News, Event, Events

\* What a write of the server leaves in its tables and its log.
TablesTyped ==
  /\ status' \in Answers /\ simOf' \in [Reports -> Nat] /\ wiped' \subseteq Reports
  /\ unannounced' \subseteq News /\ log' \subseteq News

LEMMA WritesAreTyped ==
  ASSUME PageTypes,
         \/ \E r \in Reports : ReportFiled(r) \/ Resolve(r)
         \/ \E R \in SUBSET Reports : Assign(R)
         \/ Wipe \/ Complete
  PROVE  TablesTyped
<1>. USE DEF PageTypes, TablesTyped
<1>1. ASSUME NEW r \in Reports, ReportFiled(r) PROVE TablesTyped
  <2>1. status' \in Answers
    <3>1. PENDING \in Absent .. RESOLVED
      BY DEF Absent, PENDING, RESOLVED
    <3>. QED  BY <1>1, <3>1, AnswerExcept DEF ReportFiled
  <2>2. simOf' \in [Reports -> Nat]
    BY <1>1 DEF ReportFiled, NoSim
  <2>. QED  BY <1>1, <2>1, <2>2 DEF ReportFiled, Logged, News
<1>2. ASSUME NEW r \in Reports, Resolve(r) PROVE TablesTyped
  <2>1. RESOLVED \in Absent .. RESOLVED
    BY DEF Absent, RESOLVED
  <2>. QED  BY <1>2, <2>1, AnswerExcept DEF Resolve
<1>3. ASSUME NEW R \in SUBSET Reports, Assign(R) PROVE TablesTyped
  <2>1. status' \in Answers
    BY <1>3 DEF Assign, Answers, Absent, ASSIGNED, RESOLVED
  <2>. QED  BY <1>3, <2>1 DEF Assign, Logged, News
<1>4. CASE Wipe \/ Complete
  BY <1>4 DEF Wipe, Complete, Logged, News
<1>. QED  BY <1>1, <1>2, <1>3, <1>4

LEMMA PageTypesSuffice == PageInv => TypeOK
<1>. SUFFICES ASSUME PageInv PROVE TypeOK
  OBVIOUS
<1>1. HookTypeOK /\ PageTypes
  BY DEF PageInv, ChainInv
<1>2. News \subseteq Events
  BY NewsType
<1>3. inbox \in [Sockets -> Seq(Events)]
  BY <1>1, <1>2 DEF PageTypes
<1>4. hydrations \in SUBSET ({<<>>} \cup Seq(Answers))
  <2>1. \A a \in Answers : <<a>> \in Seq(Answers)
    OBVIOUS
  <2>. QED  BY <1>1, <2>1 DEF PageTypes
<1>. QED  BY <1>1, <1>2, <1>3, <1>4 DEF PageTypes, TypeOK, Answers, IsRound, IsTrigger

\* The navigation card keeps its types: the queue holds reports.
LEMMA FocusTypes ==
  ASSUME FocusTypeOK, queue \subseteq Reports, Navigate \/ MarkedArrived
  PROVE  FocusTypeOK'
<1>. USE DEF FocusTypeOK
<1>1. ASSUME NEW r, r \in Reports \cup {NoReport}, SetFocus(r), marking' \in {marking, NoReport}
      PROVE  FocusTypeOK'
  BY <1>1 DEF SetFocus, Unsubscribed
<1>2. CASE \E r \in queue : Focus(r)
  BY <1>1, <1>2 DEF Focus
<1>3. CASE CloseNavigation \/ ArrivalConfirmed
  BY <1>1, <1>3 DEF CloseNavigation, ArrivalConfirmed
<1>4. CASE \E r \in Reports : RouteAnswered(r)
  BY <1>4 DEF RouteAnswered, ShowRoute, ShowError
<1>5. CASE MarkArrived \/ ArrivalFailed
  BY <1>5 DEF MarkArrived, ArrivalFailed
<1>. QED  BY <1>2, <1>3, <1>4, <1>5 DEF Navigate, MarkedArrived

LEMMA PageInit == Init => PageInv
<1>. SUFFICES ASSUME Init PROVE PageInv
  OBVIOUS
<1>1. ChainInv
  BY ChainInit DEF Init
<1>2. FocusTypeOK
  BY DEF Init, FocusInit, FocusTypeOK
<1>3. inbox \in [Sockets -> Seq(News)]
  BY DEF Init
<1>4. status \in Answers /\ shown \in Answers /\ simOf \in [Reports -> Nat]
  BY DEF Init, Answers, Absent, RESOLVED, NoSim
<1>. QED  BY <1>1, <1>2, <1>3, <1>4 DEF Init, PageInv, PageTypes, NoSim

LEMMA PageStep == PageInv /\ [Next]_vars => PageInv'
<1>. SUFFICES ASSUME PageInv, [Next]_vars PROVE PageTypes'
  BY DashboardHookStep, ChainStep DEF PageInv, ChainInv
<1>t. PageTypes /\ FocusTypeOK
  BY DEF PageInv, PageTypes
<1>f. UNCHANGED focusVars => FocusTypeOK'
  BY <1>t DEF focusVars, FocusTypeOK
<1>. USE DEF serverVars, listVars, scenarioVars, requestVars, replayVars, hydrationVars
<1>1. CASE UNCHANGED vars
  BY <1>1, <1>t, <1>f DEF vars, PageTypes
<1>2. CASE Server
  <2>1. scenarios' = scenarios /\ readByOthers' \subseteq Reports
    BY <1>2, <1>t DEF Server, ReportFiled, OthersRead, OthersWrite, Assign, Resolve, Complete, PageTypes
  <2>2. TablesTyped \/ UNCHANGED serverVars
    BY <1>2, <1>t, WritesAreTyped DEF Server, OthersRead, OthersWrite
  <2>. QED  BY <1>2, <1>t, <1>f, <2>1, <2>2 DEF Server, PageTypes, TablesTyped
<1>3. ASSUME NEW e \in unannounced, Publish(e) PROVE PageTypes'
  <2>1. e \in News
    BY <1>t DEF PageTypes
  <2>2. inbox' \in [Sockets -> Seq(News)]
    BY <1>3, <2>1, <1>t DEF Publish, PageTypes
  <2>. QED  BY <1>3, <1>t, <1>f, <2>2 DEF Publish, PageTypes
<1>4. CASE FeedMoves
  <2>1. inbox' \in [Sockets -> Seq(News)]
    <3>1. \A s \in Sockets : [inbox EXCEPT ![s] = <<>>] \in [Sockets -> Seq(News)]
      BY <1>t DEF PageTypes
    <3>. QED  BY <1>4, <1>t, <3>1 DEF FeedMoves, PageTypes
  <2>2. hydrations' \subseteq {<<>>} \cup {<<a>> : a \in Answers} /\ hydrated' \in BOOLEAN
    BY <1>4, <1>t, RehydratedAsks DEF FeedMoves, PageTypes
  <2>. QED  BY <1>4, <1>t, <1>f, <2>1, <2>2 DEF FeedMoves, PageTypes
<1>5. ASSUME NEW s \in Sockets, Deliver(s) PROVE PageTypes'
  <2>1. inbox[s] # <<>> /\ inbox[s] \in Seq(News) /\ inbox' = [inbox EXCEPT ![s] = Tail(@)]
    BY <1>5, <1>t DEF Deliver, PageTypes
  <2>2. inbox' \in [Sockets -> Seq(News)] /\ Head(inbox[s]) \in News
    BY <2>1, <1>t DEF PageTypes
  <2>3. shown' \in Answers /\ queue' \subseteq Reports /\ siren' \in BOOLEAN /\ isTriggering' \in BOOLEAN
    <3>1. CASE UNCHANGED <<listVars, isTriggering, siren>>
      BY <3>1, <1>t DEF listVars, PageTypes
    <3>2. ASSUME NEW muted, Head(inbox[s]).type = "SOS_CREATED", ShowCreated(Head(inbox[s]).sos, muted)
          PROVE  shown' \in Answers /\ queue' \subseteq Reports /\ siren' \in BOOLEAN
      <4>1. siren' \in BOOLEAN
        BY <3>2, <1>t DEF ShowCreated, Sounds, PageTypes
      <4>2. shown' \in Answers
        <5> DEFINE r == Head(inbox[s]).sos
        <5>1. r \in Reports
          BY <3>2, <2>2, NewsType
        <5>2. shown[r] \in Absent .. RESOLVED
          BY <5>1, <1>t DEF PageTypes, Answers
        <5>3. PENDING \in Absent .. RESOLVED
          BY DEF Absent, PENDING, RESOLVED
        <5>4. shown' = [shown EXCEPT ![r] = IF shown[r] = Absent THEN PENDING ELSE shown[r]]
          BY <3>2 DEF ShowCreated
        <5> HIDE DEF r
        <5>. QED  BY <5>2, <5>3, <5>4, <1>t, AnswerExcept DEF PageTypes
      <4>. QED  BY <3>2, <4>1, <4>2, <1>t DEF ShowCreated, PageTypes
    <3>3. CASE ShowReset
      <4>1. shown' \in Answers /\ queue' \subseteq Reports
        BY <3>3 DEF ShowReset, ClearLists, Answers, Absent, RESOLVED
      <4>. QED  BY <3>3, <4>1, <1>t DEF ShowReset, PageTypes
    <3>4. CASE Head(inbox[s]).type = "UNIT_DISPATCHED" /\ ShowDispatched(Head(inbox[s]).sos)
      <4>1. Head(inbox[s]).sos \in Reports
        BY <3>4, <2>2, NewsType
      <4>. QED
        BY <3>4, <4>1, <1>t DEF ShowDispatched, PageTypes, Answers, Absent, ASSIGNED, RESOLVED
    <3>5. CASE ShowComplete
      BY <3>5, <1>t DEF ShowComplete, PageTypes
    <3>6. \A r, muted : ShowCreated(r, muted) => isTriggering' = isTriggering
      BY DEF ShowCreated
    <3>. QED  BY <1>5, <1>t, <3>1, <3>2, <3>3, <3>4, <3>5, <3>6 DEF Deliver, PageTypes
  <2>. QED  BY <1>5, <1>t, <1>f, <2>2, <2>3 DEF Deliver, PageTypes
<1>6. CASE SirenEnds
  BY <1>6, <1>t, <1>f DEF SirenEnds, PageTypes
<1>7. ASSUME NEW h \in hydrations, HydrationRead(h) PROVE PageTypes'
  <2>1. hydrations' \subseteq {<<>>} \cup {<<a>> : a \in Answers}
    BY <1>7, <1>t, ActiveIsAnswer DEF HydrationRead, PageTypes
  <2>. QED  BY <1>7, <1>t, <1>f, <2>1 DEF HydrationRead, PageTypes
<1>8. ASSUME NEW h \in hydrations, HydrationAnswered(h) PROVE PageTypes'
  <2>1. PICK a \in Answers : h = <<a>>
    BY <1>8, <1>t DEF HydrationAnswered, PageTypes
  <2>2. shown' \in Answers /\ hydrated' \in BOOLEAN
    BY <1>8, <1>t, <2>1 DEF HydrationAnswered, PageTypes, Answers
  <2>. QED  BY <1>8, <1>t, <1>f, <2>2 DEF HydrationAnswered, PageTypes
<1>9. CASE RunDispatch
  <2>1. \A q \in dispatches' : IsRound(q)
    BY <1>9, <1>t DEF RunDispatch, PageTypes, IsRound
  <2>. QED  BY <1>9, <1>t, <1>f, <2>1 DEF RunDispatch, PageTypes
<1>10. ASSUME NEW q \in dispatches, Round(q) PROVE PageTypes'
  <2>1. IsRound(q)
    BY <1>t DEF PageTypes
  <2>2. PICK R \in SUBSET Reports, stage \in {"read", "done"} :
          /\ dispatches' = Replace(dispatches, q, stage, R)
          /\ UNCHANGED serverVars \/ Assign(R)
    <3>1. CASE RoundReads(q)
      BY <3>1 DEF RoundReads, Scope
    <3>2. CASE RoundWrites(q)
      BY <3>2, <2>1 DEF RoundWrites, IsRound
    <3>. QED  BY <1>10, <3>1, <3>2 DEF Round
  <2>3. IsRound([number |-> q.number, sim |-> q.sim, stage |-> stage, rows |-> R])
    BY DEF IsRound
  <2>4. \A p \in dispatches' : IsRound(p)
    BY <2>2, <2>3, <1>t DEF Replace, PageTypes
  <2>5. (TablesTyped /\ scenarios' = scenarios) \/ UNCHANGED serverVars
    BY <2>2, <1>t, WritesAreTyped DEF Assign
  <2>. QED  BY <1>10, <1>t, <1>f, <2>4, <2>5 DEF Round, PageTypes, TablesTyped
<1>11. ASSUME NEW q \in dispatches, DispatchAnswered(q) PROVE PageTypes'
  <2>1. q.rows \subseteq Reports
    BY <1>t DEF PageTypes, IsRound
  <2>2. shown' \in Answers /\ queue' \subseteq Reports
    BY <1>11, <1>t, <2>1
    DEF DispatchAnswered, PageTypes, Answers, listVars, Absent, ASSIGNED, RESOLVED
  <2>. QED  BY <1>11, <1>t, <1>f, <2>2 DEF DispatchAnswered, PageTypes
<1>12. CASE Navigate
  <2>1. FocusTypeOK'
    BY <1>12, <1>t, FocusTypes DEF PageTypes
  <2>2. arrived' \in BOOLEAN
    BY <1>12, <1>t DEF Navigate, PageTypes
  <2>. QED  BY <1>12, <1>t, <2>1, <2>2 DEF Navigate, PageTypes
<1>13. CASE Arrives
  <2>1. marking \in Reports
    BY <1>13, <1>t DEF Arrives, FocusTypeOK
  <2>2. TablesTyped /\ scenarios' = scenarios
    BY <1>13, <1>t, <2>1, WritesAreTyped DEF Arrives, Resolve
  <2>. QED  BY <1>13, <1>t, <1>f, <2>2 DEF Arrives, PageTypes, TablesTyped
<1>14. CASE MarkedArrived
  <2>1. FocusTypeOK'
    BY <1>14, <1>t, FocusTypes DEF PageTypes
  <2>2. shown' \in Answers
    <3>1. marking \in Reports
      BY <1>14, <1>t DEF MarkedArrived, Arrived, FocusTypeOK
    <3>2. shown[marking] \in Absent .. RESOLVED /\ RESOLVED \in Absent .. RESOLVED
      BY <3>1, <1>t DEF PageTypes, Answers, Absent, RESOLVED
    <3>3. shown' = [shown EXCEPT ![marking] = IF shown[marking] = Absent THEN shown[marking] ELSE RESOLVED]
      BY <1>14 DEF MarkedArrived
    <3>. QED  BY <3>2, <3>3, <1>t, AnswerExcept DEF PageTypes
  <2>. QED  BY <1>14, <1>t, <2>1, <2>2 DEF MarkedArrived, PageTypes
<1>15. CASE AskTrigger
  <2>1. isMuted \in BOOLEAN
    BY DEF PageInv, ChainInv, HookTypeOK, Handlers, isMuted
  <2>2. \A q \in triggers' : IsTrigger(q)
    BY <1>15, <1>t, <2>1 DEF AskTrigger, PageTypes, IsTrigger, NoSim
  <2>. QED  BY <1>15, <1>t, <1>f, <2>2 DEF AskTrigger, PageTypes
<1>16. ASSUME NEW q \in triggers, TriggerDone(q) PROVE PageTypes'
  <2>1. TablesTyped /\ scenarios' \in Nat
    BY <1>16, <1>t, WritesAreTyped DEF TriggerDone, PageTypes
  <2>2. \A p \in triggers' : IsTrigger(p)
    BY <1>16, <1>t DEF TriggerDone, PageTypes, IsTrigger
  <2>. QED  BY <1>16, <1>t, <1>f, <2>1, <2>2 DEF TriggerDone, PageTypes, TablesTyped
<1>17. ASSUME NEW q \in triggers, TriggerAnswered(q) PROVE PageTypes'
  <2>1. hydrations' \subseteq {<<>>} \cup {<<a>> : a \in Answers} /\ hydrated' \in BOOLEAN
    BY <1>17, <1>t, RehydratedAsks DEF TriggerAnswered, PageTypes
  <2>2. siren' \in BOOLEAN
    BY <1>17 DEF TriggerAnswered, Sounds
  <2>3. activeSimId' \in Nat /\ releases' \in Nat /\ \A p \in triggers' : IsTrigger(p)
    BY <1>17, <1>t DEF TriggerAnswered, PageTypes, IsTrigger
  <2>. QED  BY <1>17, <1>t, <1>f, <2>1, <2>2, <2>3 DEF TriggerAnswered, PageTypes
<1>18. ASSUME NEW q \in triggers, TriggerFailed(q) PROVE PageTypes'
  BY <1>18, <1>t, <1>f DEF TriggerFailed, PageTypes
<1>19. CASE TriggerReleased
  <2>1. releases \in Nat
    BY <1>t DEF PageTypes
  <2>2. releases' \in Nat
    BY <1>19, <2>1 DEF TriggerReleased
  <2>3. isTriggering' = FALSE /\ UNCHANGED <<hookVars, focusVars, serverVars, readByOthers, inbox,
          listVars, hydrationVars, replayVars, dispatches, triggers, resetting, arrived, siren>>
    BY <1>19 DEF TriggerReleased
  <2>. QED  BY <2>2, <2>3, <1>t, <1>f DEF PageTypes
<1>20. CASE AskReset \/ ResetFailed
  BY <1>20, <1>t, <1>f DEF AskReset, ResetFailed, PageTypes
<1>21. CASE ResetDone
  <2>1. TablesTyped
    BY <1>21, <1>t, WritesAreTyped DEF ResetDone
  <2>. QED  BY <1>21, <1>t, <1>f, <2>1 DEF ResetDone, PageTypes, TablesTyped
<1>22. CASE ResetAnswered
  <2>1. hydrations' \subseteq {<<>>} \cup {<<a>> : a \in Answers} /\ hydrated' \in BOOLEAN
    BY <1>22, <1>t, RehydratedAsks DEF ResetAnswered, PageTypes
  <2>2. shown' \in Answers /\ queue' \subseteq Reports
    BY <1>22 DEF ResetAnswered, ClearLists, Answers, Absent, RESOLVED
  <2>. QED  BY <1>22, <1>t, <1>f, <2>1, <2>2 DEF ResetAnswered, NoSim, PageTypes
<1>23. ASSUME NEW q \in loads, ReplayLoaded(q) PROVE PageTypes'
  <2>1. replayEvents' \subseteq News
    BY <1>23, <1>t DEF ReplayLoaded, ReplayRange, PageTypes
  <2>. QED  BY <1>23, <1>t, <1>f, <2>1 DEF ReplayLoaded, PageTypes
<1>24. ASSUME NEW events, Rebuilt(events) PROVE shown' \in Answers /\ queue' \subseteq Reports
  BY <1>24 DEF Rebuilt, Reconstructed, Answers, Absent, PENDING, ASSIGNED, RESOLVED
<1>25. ASSUME NEW events, SelectReplay(events) \/ TourScrubs(events) PROVE PageTypes'
  <2>1. shown' \in Answers /\ queue' \subseteq Reports
    BY <1>24, <1>25, <1>t DEF SelectReplay, TourScrubs, PageTypes
  <2>. QED  BY <1>25, <1>t, <1>f, <2>1 DEF SelectReplay, TourScrubs, PageTypes
<1>. QED
  BY <1>1, <1>2, <1>3, <1>4, <1>5, <1>6, <1>7, <1>8, <1>9, <1>10, <1>11, <1>12, <1>13, <1>14,
     <1>15, <1>16, <1>17, <1>18, <1>19, <1>20, <1>21, <1>22, <1>23, <1>25, WhoMoves
  DEF Hydrate, Dispatch, Scenario

\* Every variable of the dashboard keeps its type; in particular what is queued
\* for an officer is a report (handleWebSocketMessage, mergeDispatchAssignments).
THEOREM DashboardTypeCorrect == Spec => []TypeOK
<1>. QED  BY PageInit, PageStep, PageTypesSuffice, PTL DEF Spec

-----------------------------------------------------------------------------
(* The page and the log                                                     *)

\* The steps that write the server's tables or its log.
Writes ==
  \/ Server
  \/ \E q \in dispatches : Round(q)
  \/ Arrives
  \/ (\E q \in triggers : TriggerDone(q)) \/ ResetDone

\* The others leave the tables and the log alone, but for what is to be announced.
LEMMA WhoWrites ==
  [Next]_vars => Writes \/ UNCHANGED <<status, simOf, wiped, log, scenarios, resolved>>
<1>. SUFFICES ASSUME [Next]_vars, ~Writes
              PROVE  UNCHANGED <<status, simOf, wiped, log, scenarios, resolved>>
  OBVIOUS
<1>. USE DEF serverVars
<1>1. CASE UNCHANGED vars
  BY <1>1 DEF vars
<1>2. CASE (\E e \in unannounced : Publish(e)) \/ FeedMoves \/ SirenEnds
           \/ (\E s \in Sockets : Deliver(s)) \/ Navigate \/ MarkedArrived
  BY <1>2 DEF Publish, FeedMoves, SirenEnds, Deliver, Navigate, MarkedArrived
<1>3. CASE Hydrate \/ Dispatch
  BY <1>3 DEF Writes, Hydrate, HydrationRead, HydrationAnswered, Dispatch, RunDispatch, DispatchAnswered
<1>4. CASE Scenario
  BY <1>4 DEF Writes, Scenario, AskTrigger, TriggerAnswered, TriggerFailed, TriggerReleased,
              AskReset, ResetAnswered, ResetFailed
<1>5. ASSUME NEW x, ReplayLoaded(x) \/ SelectReplay(x) \/ TourScrubs(x)
      PROVE  UNCHANGED <<status, simOf, wiped, log, scenarios, resolved>>
  BY <1>5 DEF ReplayLoaded, SelectReplay, TourScrubs
<1>. QED  BY <1>1, <1>2, <1>3, <1>4, <1>5, WhoMoves DEF Writes

\* What has been logged stays logged, and what has been resolved has been resolved.
LEMMA LogGrows == [Next]_vars => log \subseteq log' /\ resolved \subseteq resolved'
<1>. SUFFICES ASSUME Writes PROVE log \subseteq log' /\ resolved \subseteq resolved'
  BY WhoWrites
<1>. USE DEF serverVars, Logged
<1>1. CASE Server
  BY <1>1 DEF Server, ReportFiled, OthersRead, OthersWrite, Assign, Resolve, Wipe, Complete
<1>2. CASE (\E q \in dispatches : Round(q)) \/ Arrives
  BY <1>2 DEF Round, RoundReads, RoundWrites, Assign, Arrives, Resolve
<1>3. CASE (\E q \in triggers : TriggerDone(q)) \/ ResetDone
  BY <1>3 DEF TriggerDone, ResetDone, Wipe
<1>. QED  BY <1>1, <1>2, <1>3 DEF Writes

\* What an event says is in the log, if a page shows it.
IsTold(e, events) == e.type \in {"SOS_CREATED", "UNIT_DISPATCHED"} => e \in events

\* The events, and the resolutions done, bear out that r is as far as v.
Backed(v, r, events, done) ==
  /\ v # Absent => Event("SOS_CREATED", r) \in events
  /\ v = ASSIGNED => Event("UNIT_DISPATCHED", r) \in events
  /\ v = RESOLVED => r \in done

\* What makes NeverAhead inductive: nothing in the tables, and nothing on its way
\* to the page, by whichever way, says more than has been logged and resolved.
NewsInv ==
  /\ \A r \in Reports : Backed(shown[r], r, log, resolved) /\ Backed(status[r], r, log, resolved)
  /\ \A r \in Reports : r \in queue => Event("UNIT_DISPATCHED", r) \in log
  /\ \A e \in unannounced \cup replayEvents : IsTold(e, log)
  /\ \A q \in loads : \A e \in q.seen : IsTold(e, log)
  /\ \A seen \in scrubs : \A e \in seen : IsTold(e, log)
  /\ \A s \in Sockets : \A i \in 1 .. Len(inbox[s]) : IsTold(inbox[s][i], log)
  /\ \A a \in Answers : <<a>> \in hydrations => \A r \in Reports : Backed(a[r], r, log, resolved)
  /\ \A q \in dispatches : q.stage = "done" => \A r \in q.rows : Event("UNIT_DISPATCHED", r) \in log
  /\ arrived /\ marking # NoReport => marking \in resolved

LEMMA BackedStays ==
  ASSUME NEW v, NEW r, NEW e1, NEW e2, NEW d1, NEW d2, e1 \subseteq e2, d1 \subseteq d2,
         Backed(v, r, e1, d1)
  PROVE  Backed(v, r, e2, d2)
BY DEF Backed

\* A step keeps the invariant if what it adds is borne out.
LEMMA NewsKept ==
  ASSUME PageInv, NewsInv, [Next]_vars,
         \A r \in Reports : shown'[r] = shown[r] \/ Backed(shown'[r], r, log, resolved),
         \A r \in Reports : status'[r] = status[r] \/ Backed(status'[r], r, log', resolved'),
         \A r \in Reports : r \in queue' => r \in queue \/ Event("UNIT_DISPATCHED", r) \in log,
         \A e \in unannounced' : e \in unannounced \/ IsTold(e, log'),
         \A e \in replayEvents' : e \in replayEvents \/ e \in log,
         \A q \in loads' : q \in loads \/ q.seen = replayEvents,
         \A seen \in scrubs' : seen \in scrubs \/ \E q \in loads : seen = q.seen,
         \A s \in Sockets : \A i \in 1 .. Len(inbox'[s]) :
           \/ \E j \in 1 .. Len(inbox[s]) : inbox'[s][i] = inbox[s][j]
           \/ inbox'[s][i] \in unannounced,
         \A a \in Answers : <<a>> \in hydrations' =>
           <<a>> \in hydrations \/ \A r \in Reports : Backed(a[r], r, log, resolved),
         \A q \in dispatches' : q.stage = "done" =>
           q \in dispatches \/ \A r \in q.rows : Event("UNIT_DISPATCHED", r) \in log',
         arrived' /\ marking' # NoReport => (arrived /\ marking' = marking) \/ marking' \in resolved'
  PROVE  NewsInv'
<1>1. log \subseteq log' /\ resolved \subseteq resolved'
  BY LogGrows
<1>2. \A r \in Reports : \A v : Backed(v, r, log, resolved) => Backed(v, r, log', resolved')
  BY <1>1, BackedStays
<1>3. \A e : IsTold(e, log) => IsTold(e, log')
  BY <1>1 DEF IsTold
<1>4. \A r \in Reports :
        Backed(shown'[r], r, log', resolved') /\ Backed(status'[r], r, log', resolved')
  BY <1>2 DEF NewsInv
<1>5. \A r \in Reports : r \in queue' => Event("UNIT_DISPATCHED", r) \in log'
  BY <1>1 DEF NewsInv
<1>6. \A e \in unannounced' \cup replayEvents' : IsTold(e, log')
  BY <1>1, <1>3 DEF NewsInv, IsTold
<1>7. /\ \A q \in loads' : \A e \in q.seen : IsTold(e, log')
      /\ \A seen \in scrubs' : \A e \in seen : IsTold(e, log')
  BY <1>3 DEF NewsInv
<1>8. \A s \in Sockets : \A i \in 1 .. Len(inbox'[s]) : IsTold(inbox'[s][i], log')
  BY <1>3 DEF NewsInv
<1>9. \A a \in Answers : <<a>> \in hydrations' => \A r \in Reports : Backed(a[r], r, log', resolved')
  BY <1>2 DEF NewsInv
<1>10. \A q \in dispatches' : q.stage = "done" =>
         \A r \in q.rows : Event("UNIT_DISPATCHED", r) \in log'
  BY <1>1 DEF NewsInv
<1>11. arrived' /\ marking' # NoReport => marking' \in resolved'
  BY <1>1 DEF NewsInv
<1>. QED  BY <1>4, <1>5, <1>6, <1>7, <1>8, <1>9, <1>10, <1>11 DEF NewsInv, Event

\* What a write of the server leaves in its tables and announces is borne out.
WritesBacked ==
  /\ \A r \in Reports : status'[r] = status[r] \/ Backed(status'[r], r, log', resolved')
  /\ \A e \in unannounced' : e \in unannounced \/ IsTold(e, log')

LEMMA WritesAreBacked ==
  ASSUME PageTypes, NewsInv,
         \/ \E r \in Reports : ReportFiled(r) \/ Resolve(r)
         \/ \E R \in SUBSET Reports : Assign(R)
         \/ Wipe \/ Complete
  PROVE  WritesBacked
<1>. USE DEF WritesBacked, Logged, Absent, PENDING, ASSIGNED, RESOLVED
<1>s. \A r \in Reports : Backed(status[r], r, log, resolved)
  BY DEF NewsInv
<1>1. ASSUME NEW x \in Reports, ReportFiled(x) PROVE WritesBacked
  <2>1. \A r \in Reports : status'[r] = IF r = x THEN PENDING ELSE status[r]
    BY <1>1 DEF ReportFiled, PageTypes, Answers
  <2>2. Event("SOS_CREATED", x) \in log'
    BY <1>1 DEF ReportFiled
  <2>3. \A e \in unannounced' : e \in unannounced \/ e = Event("SOS_CREATED", x)
    BY <1>1 DEF ReportFiled
  <2>. QED  BY <2>1, <2>2, <2>3 DEF Backed, IsTold
<1>2. ASSUME NEW x \in Reports, Resolve(x) PROVE WritesBacked
  <2>1. \A r \in Reports : status'[r] = IF r = x THEN RESOLVED ELSE status[r]
    BY <1>2 DEF Resolve, PageTypes, Answers
  <2>2. status[x] # Absent /\ x \in resolved' /\ log' = log /\ unannounced' = unannounced
    BY <1>2 DEF Resolve, Present
  <2>3. Event("SOS_CREATED", x) \in log'
    BY <2>2, <1>s DEF Backed
  <2>. QED  BY <2>1, <2>2, <2>3 DEF Backed
<1>3. ASSUME NEW R \in SUBSET Reports, Assign(R) PROVE WritesBacked
  <2>1. \A r \in Reports : status'[r] = IF r \in R THEN ASSIGNED ELSE status[r]
    BY <1>3 DEF Assign
  <2>2. /\ log' = log \cup {Event("UNIT_DISPATCHED", r) : r \in R}
        /\ unannounced' = unannounced \cup {Event("UNIT_DISPATCHED", r) : r \in R}
        /\ \A r \in R : status[r] # Absent
    BY <1>3 DEF Assign, Present
  <2>3. \A r \in R : Event("SOS_CREATED", r) \in log' /\ Event("UNIT_DISPATCHED", r) \in log'
    BY <2>2, <1>s DEF Backed
  <2>. QED  BY <2>1, <2>2, <2>3 DEF Backed, IsTold
<1>4. CASE Wipe \/ Complete
  BY <1>4 DEF Wipe, Complete, Event, IsTold
<1>. QED  BY <1>1, <1>2, <1>3, <1>4

LEMMA NewsStep == PageInv /\ NewsInv /\ [Next]_vars => NewsInv'
<1>. SUFFICES ASSUME PageInv, NewsInv, [Next]_vars PROVE NewsInv'
  OBVIOUS
<1>. USE DEF serverVars, listVars, scenarioVars, requestVars, replayVars, hydrationVars
<1>t. PageTypes
  BY DEF PageInv
<1>a. UNCHANGED focusVars => marking' = marking
  BY DEF focusVars
<1>1. CASE UNCHANGED vars
  BY <1>1, <1>a, NewsKept DEF vars
<1>2. CASE Server
  <2>1. WritesBacked \/ UNCHANGED serverVars
    BY <1>2, <1>t, WritesAreBacked DEF Server, OthersRead, OthersWrite
  <2>. QED  BY <1>2, <1>a, <2>1, NewsKept DEF Server, WritesBacked
<1>3. ASSUME NEW e \in unannounced, Publish(e) PROVE NewsInv'
  <2>1. \A s \in Sockets : inbox'[s] = inbox[s] \/ inbox'[s] = Append(inbox[s], e)
    BY <1>3 DEF Publish
  <2>2. \A s \in Sockets : inbox[s] \in Seq(News)
    BY <1>t DEF PageTypes
  <2>3. \A s \in Sockets : \A i \in 1 .. Len(inbox'[s]) :
          (\E j \in 1 .. Len(inbox[s]) : inbox'[s][i] = inbox[s][j]) \/ inbox'[s][i] \in unannounced
    <3>. SUFFICES ASSUME NEW s \in Sockets, NEW i \in 1 .. Len(inbox'[s]), inbox'[s] = Append(inbox[s], e)
                  PROVE  (\E j \in 1 .. Len(inbox[s]) : inbox'[s][i] = inbox[s][j]) \/ inbox'[s][i] = e
      BY <2>1
    <3>1. inbox[s] \in Seq(News) /\ e \in News
      BY <2>2, <1>t DEF PageTypes
    <3>2. i = Len(inbox[s]) + 1 \/ (i \in 1 .. Len(inbox[s]) /\ inbox'[s][i] = inbox[s][i])
      BY <3>1
    <3>. QED  BY <3>1, <3>2
  <2>. QED  BY <1>3, <1>a, <2>3, NewsKept DEF Publish
<1>4. CASE FeedMoves
  <2>1. \A s \in Sockets : inbox'[s] = inbox[s] \/ inbox'[s] = <<>>
    BY <1>4, <1>t DEF FeedMoves, PageTypes
  <2>2. \A a \in Answers : <<a>> \in hydrations' => <<a>> \in hydrations
    BY <1>4, RehydratedAsks DEF FeedMoves
  <2>3. \A s \in Sockets : \A i \in 1 .. Len(inbox'[s]) :
          (\E j \in 1 .. Len(inbox[s]) : inbox'[s][i] = inbox[s][j]) \/ inbox'[s][i] \in unannounced
    BY <2>1
  <2>. QED  BY <1>4, <1>a, <2>2, <2>3, NewsKept DEF FeedMoves
<1>5. ASSUME NEW s \in Sockets, Deliver(s) PROVE NewsInv'
  <2>0. inbox[s] # <<>> /\ inbox[s] \in Seq(News) /\ inbox' = [inbox EXCEPT ![s] = Tail(@)]
    BY <1>5, <1>t DEF Deliver, PageTypes
  <2>1. \A x \in Sockets : \A i \in 1 .. Len(inbox'[x]) :
          (\E j \in 1 .. Len(inbox[x]) : inbox'[x][i] = inbox[x][j]) \/ inbox'[x][i] \in unannounced
    <3>1. \A i \in 1 .. Len(Tail(inbox[s])) :
            i + 1 \in 1 .. Len(inbox[s]) /\ Tail(inbox[s])[i] = inbox[s][i + 1]
      BY <2>0
    <3>2. \A x \in Sockets : inbox'[x] = IF x = s THEN Tail(inbox[s]) ELSE inbox[x]
      BY <2>0, <1>t DEF PageTypes
    <3>. QED  BY <3>1, <3>2
  <2> DEFINE e == Head(inbox[s])
  <2>2. e \in News /\ IsTold(e, log)
    <3>1. e = inbox[s][1] /\ 1 \in 1 .. Len(inbox[s])
      BY <2>0
    <3>. QED  BY <3>1, <2>0 DEF NewsInv
  <2>3. e.type \in {"SOS_CREATED", "UNIT_DISPATCHED"} => e.sos \in Reports /\ Event(e.type, e.sos) \in log
    BY <2>2, NewsType DEF IsTold
  <2>s. \A r \in Reports : Backed(shown[r], r, log, resolved)
    BY DEF NewsInv
  <2>4. /\ \A r \in Reports : shown'[r] = shown[r] \/ Backed(shown'[r], r, log, resolved)
        /\ \A r \in Reports : r \in queue' => r \in queue \/ Event("UNIT_DISPATCHED", r) \in log
    <3>. USE DEF Absent, PENDING, ASSIGNED, RESOLVED
    <3>1. CASE UNCHANGED <<listVars, isTriggering, siren>> \/ ShowComplete
      BY <3>1 DEF ShowComplete
    <3>2. ASSUME NEW muted, e.type = "SOS_CREATED", ShowCreated(e.sos, muted)
          PROVE  <2>4!1 /\ <2>4!2
      BY <3>2, <2>3, <1>t DEF ShowCreated, PageTypes, Answers, Backed
    <3>3. CASE e.type = "UNIT_DISPATCHED" /\ ShowDispatched(e.sos)
      BY <3>3, <2>3, <2>s, <1>t DEF ShowDispatched, PageTypes, Answers, Backed
    <3>4. CASE ShowReset
      BY <3>4 DEF ShowReset, ClearLists, Backed
    <3>. QED  BY <1>5, <3>1, <3>2, <3>3, <3>4 DEF Deliver
  <2>. QED  BY <1>5, <1>a, <2>1, <2>4, NewsKept DEF Deliver
<1>6. CASE SirenEnds
  BY <1>6, <1>a, NewsKept DEF SirenEnds
<1>7. ASSUME NEW h \in hydrations, HydrationRead(h) PROVE NewsInv'
  <2>1. \A r \in Reports : Backed(ActiveReports[r], r, log, resolved)
    BY DEF NewsInv, ActiveReports, Backed, Absent, PENDING, ASSIGNED, RESOLVED
  <2>2. \A a \in Answers : <<a>> \in hydrations' => <<a>> \in hydrations \/ a = ActiveReports
    BY <1>7 DEF HydrationRead
  <2>. QED  BY <1>7, <1>a, <2>1, <2>2, NewsKept DEF HydrationRead
<1>8. ASSUME NEW h \in hydrations, HydrationAnswered(h) PROVE NewsInv'
  <2>1. PICK a \in Answers : h = <<a>>
    BY <1>8, <1>t DEF HydrationAnswered, PageTypes
  <2>2. \A r \in Reports : Backed(a[r], r, log, resolved)
    BY <2>1, <1>8 DEF NewsInv
  <2>3. \A r \in Reports : shown'[r] = shown[r] \/ Backed(shown'[r], r, log, resolved)
    BY <1>8, <2>1, <2>2 DEF HydrationAnswered
  <2>. QED  BY <1>8, <1>a, <2>3, NewsKept DEF HydrationAnswered
<1>9. CASE RunDispatch
  <2>1. \A q \in dispatches' : q.stage = "done" => q \in dispatches
    BY <1>9 DEF RunDispatch
  <2>. QED  BY <1>9, <1>a, <2>1, NewsKept DEF RunDispatch
<1>10. ASSUME NEW q \in dispatches, Round(q) PROVE NewsInv'
  <2>1. CASE RoundReads(q)
    <3>1. \A p \in dispatches' : p.stage = "done" => p \in dispatches
      BY <2>1 DEF RoundReads, Replace
    <3>. QED  BY <1>10, <1>a, <2>1, <3>1, NewsKept DEF Round, RoundReads
  <2>2. CASE RoundWrites(q)
    <3>1. PICK R \in SUBSET Reports : Assign(R) /\ dispatches' = Replace(dispatches, q, "done", R)
      BY <2>2, <1>t DEF RoundWrites, PageTypes, IsRound
    <3>2. WritesBacked
      BY <3>1, <1>t, WritesAreBacked
    <3>3. \A r \in R : Event("UNIT_DISPATCHED", r) \in log'
      BY <3>1 DEF Assign, Logged
    <3>4. \A p \in dispatches' : p.stage = "done" =>
            p \in dispatches \/ \A r \in p.rows : Event("UNIT_DISPATCHED", r) \in log'
      BY <3>1, <3>3 DEF Replace
    <3>. QED  BY <1>10, <1>a, <3>2, <3>4, NewsKept DEF Round, WritesBacked
  <2>. QED  BY <1>10, <2>1, <2>2 DEF Round
<1>11. ASSUME NEW q \in dispatches, DispatchAnswered(q) PROVE NewsInv'
  <2>1. q.stage = "done" => \A r \in q.rows : Event("UNIT_DISPATCHED", r) \in log
    BY DEF NewsInv
  <2>s. \A r \in Reports : Backed(shown[r], r, log, resolved)
    BY DEF NewsInv
  <2>2. /\ \A r \in Reports : shown'[r] = shown[r] \/ Backed(shown'[r], r, log, resolved)
        /\ \A r \in Reports : r \in queue' => r \in queue \/ Event("UNIT_DISPATCHED", r) \in log
    BY <1>11, <2>1, <2>s DEF DispatchAnswered, Backed, Absent, PENDING, ASSIGNED, RESOLVED
  <2>. QED  BY <1>11, <1>a, <2>2, NewsKept DEF DispatchAnswered
<1>12. CASE Navigate
  <2>1. arrived' /\ marking' # NoReport => arrived /\ marking' = marking
    BY <1>12 DEF Navigate, Focus, CloseNavigation, RouteAnswered, MarkArrived, ArrivalFailed
  <2>. QED  BY <1>12, <2>1, NewsKept DEF Navigate
<1>13. CASE Arrives
  <2>1. marking \in Reports /\ marking \in resolved'
    BY <1>13, <1>t DEF Arrives, Resolve, PageTypes, FocusTypeOK
  <2>2. WritesBacked
    BY <1>13, <1>t, <2>1, WritesAreBacked DEF Arrives
  <2>. QED  BY <1>13, <1>a, <2>1, <2>2, NewsKept DEF Arrives, WritesBacked
<1>14. CASE MarkedArrived
  <2>1. marking \in Reports /\ marking \in resolved /\ ~arrived'
    BY <1>14, <1>t DEF MarkedArrived, Arrived, NewsInv, PageTypes, FocusTypeOK
  <2>s. \A r \in Reports : Backed(shown[r], r, log, resolved)
    BY DEF NewsInv
  <2>2. \A r \in Reports : shown'[r] = shown[r] \/ Backed(shown'[r], r, log, resolved)
    BY <1>14, <2>1, <2>s, <1>t DEF MarkedArrived, PageTypes, Answers, Backed, Absent, ASSIGNED, RESOLVED
  <2>. QED  BY <1>14, <2>1, <2>2, NewsKept DEF MarkedArrived
<1>15. CASE AskTrigger
  BY <1>15, <1>a, NewsKept DEF AskTrigger
<1>16. ASSUME NEW q \in triggers, TriggerDone(q) PROVE NewsInv'
  <2>1. WritesBacked
    BY <1>16, <1>t, WritesAreBacked DEF TriggerDone
  <2>. QED  BY <1>16, <1>a, <2>1, NewsKept DEF TriggerDone, WritesBacked
<1>17. ASSUME NEW q \in triggers, TriggerAnswered(q) PROVE NewsInv'
  <2>1. \A a \in Answers : <<a>> \in hydrations' => <<a>> \in hydrations
    BY <1>17, RehydratedAsks DEF TriggerAnswered
  <2>. QED  BY <1>17, <1>a, <2>1, NewsKept DEF TriggerAnswered
<1>18. ASSUME NEW q \in triggers, TriggerFailed(q) PROVE NewsInv'
  BY <1>18, <1>a, NewsKept DEF TriggerFailed
<1>19. CASE TriggerReleased \/ AskReset \/ ResetFailed
  BY <1>19, <1>a, NewsKept DEF TriggerReleased, AskReset, ResetFailed
<1>20. CASE ResetDone
  <2>1. WritesBacked
    BY <1>20, <1>t, WritesAreBacked DEF ResetDone
  <2>. QED  BY <1>20, <1>a, <2>1, NewsKept DEF ResetDone, WritesBacked
<1>21. CASE ResetAnswered
  <2>1. \A a \in Answers : <<a>> \in hydrations' => <<a>> \in hydrations
    BY <1>21, RehydratedAsks DEF ResetAnswered
  <2>2. \A r \in Reports : shown'[r] = Absent /\ queue' = {}
    BY <1>21 DEF ResetAnswered, ClearLists
  <2>3. \A r \in Reports : Backed(Absent, r, log, resolved)
    BY DEF Backed, Absent, ASSIGNED, RESOLVED
  <2>. QED  BY <1>21, <1>a, <2>1, <2>2, <2>3, NewsKept DEF ResetAnswered
<1>22. ASSUME NEW q \in loads, ReplayLoaded(q) PROVE NewsInv'
  BY <1>22, <1>a, NewsKept DEF ReplayLoaded, LoadEnds, ReplayRange
<1>23. ASSUME NEW events, \A e \in events : IsTold(e, log), Rebuilt(events)
       PROVE  /\ \A r \in Reports : Backed(shown'[r], r, log, resolved)
              /\ \A r \in Reports : r \in queue' => Event("UNIT_DISPATCHED", r) \in log
  <2>1. \A r \in Reports :
          /\ Event("SOS_CREATED", r) \in events => Event("SOS_CREATED", r) \in log
          /\ Event("UNIT_DISPATCHED", r) \in events => Event("UNIT_DISPATCHED", r) \in log
    BY <1>23 DEF IsTold, Event
  <2>. QED  BY <1>23, <2>1 DEF Rebuilt, Reconstructed, Backed, Absent, PENDING, ASSIGNED, RESOLVED
<1>24. ASSUME NEW events \in SUBSET replayEvents, SelectReplay(events) PROVE NewsInv'
  <2>1. \A e \in events : IsTold(e, log)
    BY DEF NewsInv
  <2>. QED  BY <1>23, <1>24, <1>a, <2>1, NewsKept DEF SelectReplay
<1>25. ASSUME NEW seen \in scrubs, TourScrubs(seen) PROVE NewsInv'
  <2>1. \A events \in SUBSET seen : \A e \in events : IsTold(e, log)
    BY DEF NewsInv
  <2>2. /\ \A r \in Reports : shown'[r] = shown[r] \/ Backed(shown'[r], r, log, resolved)
        /\ \A r \in Reports : r \in queue' => r \in queue \/ Event("UNIT_DISPATCHED", r) \in log
    BY <1>23, <1>25, <2>1 DEF TourScrubs
  <2>. QED  BY <1>25, <1>a, <2>2, NewsKept DEF TourScrubs
<1>. QED
  BY <1>1, <1>2, <1>3, <1>4, <1>5, <1>6, <1>7, <1>8, <1>9, <1>10, <1>11, <1>12, <1>13, <1>14, <1>15,
     <1>16, <1>17, <1>18, <1>19, <1>20, <1>21, <1>22, <1>24, <1>25, WhoMoves
  DEF Hydrate, Dispatch, Scenario

\* Whether news comes from a socket, a hydration, a request or a replay, in any
\* order: the page shows of the server's reports nothing that was not logged or
\* done (page.tsx).
THEOREM DashboardIsNeverAhead == Spec => []NeverAhead
<1>1. Init => NewsInv
  BY DEF Init, FocusInit, NewsInv, Backed, Absent, ASSIGNED, RESOLVED
<1>2. NewsInv => NeverAhead
  BY DEF NewsInv, NeverAhead, Backed, Absent, ASSIGNED, RESOLVED
<1>. QED  BY <1>1, <1>2, PageInit, PageStep, NewsStep, PTL DEF Spec

-----------------------------------------------------------------------------
(* Nothing is missed                                                        *)

IsMissing(r) == ActiveReports[r] # Absent /\ shown[r] = Absent

\* The announcement of r is among messages.
Announces(messages, r) == \E i \in 1 .. Len(messages) : messages[i] = Event("SOS_CREATED", r)

\* How a report that is not shown will be: by its announcement, or by a
\* hydration, which is under way or follows the next change of the connection.
IsComing(r) ==
  \/ Event("SOS_CREATED", r) \in unannounced
  \/ \E s \in Sockets : socket[s] = "open" /\ Announces(inbox[s], r)
  \/ ~IsConnected \/ \E s \in Sockets : socket[s] = "closing"
  \/ ~hydrated /\ \A a \in Answers : <<a>> \in hydrations => a[r] # Absent

\* What makes NothingMissed inductive: while the dashboard catches up, a report
\* it does not show is on its way to it.
CatchUpInv ==
  /\ hydrated \/ hydrations # {} => IsConnected
  /\ \A r \in Reports \ excused : IsMissing(r) => IsComing(r)

\* A write makes a report active by filing it, or by re-opening it.
LEMMA WritesActivate ==
  ASSUME PageTypes, NEW r \in Reports, activeSimId' = activeSimId, ActiveReports'[r] # Absent,
         \/ \E x \in Reports : ReportFiled(x) \/ Resolve(x)
         \/ \E R \in SUBSET Reports : Assign(R)
         \/ Wipe \/ Complete
  PROVE  ActiveReports[r] # Absent \/ Event("SOS_CREATED", r) \in unannounced' \/ r \in excused'
<1>. USE DEF Absent, PENDING, ASSIGNED, RESOLVED, Scope, Present
<1>1. /\ r \in Scope(activeSimId)' /\ status'[r] # 0 /\ status'[r] # 3 /\ r \notin wiped'
      /\ r \in Scope(activeSimId) /\ status[r] # 0 /\ status[r] # 3 /\ r \notin wiped =>
           ActiveReports[r] # Absent
  BY DEF ActiveReports
<1>2. ASSUME NEW x \in Reports, ReportFiled(x)
      PROVE  ActiveReports[r] # Absent \/ Event("SOS_CREATED", r) \in unannounced'
  <2>1. CASE x = r
    BY <1>2, <2>1 DEF ReportFiled, Logged
  <2>2. CASE x # r
    BY <1>1, <1>2, <2>2 DEF ReportFiled, PageTypes, Answers
  <2>. QED  BY <2>1, <2>2
<1>3. ASSUME NEW x \in Reports, Resolve(x) PROVE ActiveReports[r] # Absent
  BY <1>1, <1>3 DEF Resolve, PageTypes, Answers
<1>4. ASSUME NEW R \in SUBSET Reports, Assign(R) PROVE ActiveReports[r] # Absent \/ r \in excused'
  <2>1. status'[r] = IF r \in R THEN ASSIGNED ELSE status[r]
    BY <1>4 DEF Assign
  <2>2. simOf' = simOf /\ wiped' = wiped /\ (r \in R => status[r] # 0)
    BY <1>4 DEF Assign
  <2>3. r \in R /\ status[r] = 3 => r \in excused'
    BY <1>4 DEF Assign
  <2>. QED  BY <1>1, <2>1, <2>2, <2>3
<1>5. CASE Wipe
  BY <1>1, <1>5 DEF Wipe
<1>6. CASE Complete
  BY <1>1, <1>6 DEF Complete
<1>. QED  BY <1>2, <1>3, <1>4, <1>5, <1>6

\* A report becomes active by being filed or re-opened, unless the scope changes.
LEMMA ActiveBecause ==
  ASSUME PageTypes, [Next]_vars, NEW r \in Reports, activeSimId' = activeSimId,
         ActiveReports'[r] # Absent
  PROVE  ActiveReports[r] # Absent \/ Event("SOS_CREATED", r) \in unannounced' \/ r \in excused'
<1>1. CASE UNCHANGED <<status, simOf, wiped>>
  BY <1>1 DEF ActiveReports, Present, Scope
<1>2. CASE Server
  BY <1>1, <1>2, WritesActivate DEF Server, OthersRead, OthersWrite, serverVars
<1>3. ASSUME NEW q \in dispatches, Round(q)
      PROVE  UNCHANGED <<status, simOf, wiped>> \/ \E R \in SUBSET Reports : Assign(R)
  BY <1>3 DEF Round, RoundReads, RoundWrites, serverVars, PageTypes, IsRound
<1>4. CASE Arrives
  <2>1. marking \in Reports
    BY <1>4 DEF Arrives, PageTypes, FocusTypeOK
  <2>. QED  BY <1>4, <2>1, WritesActivate DEF Arrives
<1>5. CASE (\E q \in triggers : TriggerDone(q)) \/ ResetDone
  BY <1>5, WritesActivate DEF TriggerDone, ResetDone
<1>. QED  BY <1>1, <1>2, <1>3, <1>4, <1>5, WhoWrites, WritesActivate DEF Writes

\* A step that leaves the connection alone keeps the invariant if it loses no
\* announcement, no answer and no report that is shown.
LEMMA CatchUpKept ==
  ASSUME PageInv, CatchUpInv, [Next]_vars, activeSimId' = activeSimId,
         IsConnected' = IsConnected,
         hydrated' \/ hydrations' # {} => hydrated \/ hydrations # {},
         \A s \in Sockets : socket[s] = "closing" => socket'[s] = "closing" \/ ~IsConnected',
         \A r \in Reports \ excused' : r \in excused => ~IsMissing(r)',
         \A r \in Reports \ excused' : IsMissing(r)' =>
           /\ shown[r] = Absent
           /\ Event("SOS_CREATED", r) \in unannounced => IsComing(r)'
           /\ \A s \in Sockets : socket[s] = "open" /\ Announces(inbox[s], r) => IsComing(r)'
           /\ ~hydrated /\ (\A a \in Answers : <<a>> \in hydrations => a[r] # Absent) => IsComing(r)'
  PROVE  CatchUpInv'
<1>1. ASSUME NEW r \in Reports \ excused', IsMissing(r)' PROVE IsComing(r)'
  <2>1. r \notin excused /\ shown[r] = Absent
    BY <1>1
  <2>2. CASE ActiveReports[r] # Absent
    <3>1. IsComing(r)
      BY <2>1, <2>2 DEF CatchUpInv, IsMissing
    <3>2. ASSUME NEW s \in Sockets, socket[s] = "closing" PROVE IsComing(r)'
      BY <3>2 DEF IsComing
    <3>3. ~IsConnected => IsComing(r)'
      BY DEF IsComing
    <3>. QED  BY <1>1, <3>1, <3>2, <3>3 DEF IsComing
  <2>3. CASE Event("SOS_CREATED", r) \in unannounced'
    BY <2>3 DEF IsComing
  <2>. QED  BY <1>1, <2>2, <2>3, ActiveBecause DEF PageInv, IsMissing
<1>. QED  BY <1>1 DEF CatchUpInv

\* When the connection or the scope changes, the page hydrates again.
LEMMA CatchUpAfterChange ==
  ASSUME PageInv, CatchUpInv, Rehydrated, HydrationChanged
  PROVE  CatchUpInv'
<1>1. hydrated' = FALSE /\ hydrations' = IF IsConnected' /\ ~isReplayMode' THEN {<<>>} ELSE {}
  BY DEF Rehydrated, Cancelled
<1>2. \A a \in Answers : <<a>> \notin hydrations'
  BY <1>1
<1>3. hydrations' # {} => IsConnected'
  BY <1>1
<1>. QED  BY <1>1, <1>2, <1>3 DEF CatchUpInv, IsComing

\* The steps that leave the feed and its messages alone.
LEMMA CatchUpQuiet ==
  ASSUME PageInv, CatchUpInv, [Next]_vars,
         UNCHANGED <<hookVars, inbox, hydrationVars>>,
         unannounced \subseteq unannounced',
         excused \subseteq excused',
         \A r \in Reports \ excused' : IsMissing(r)' => shown[r] = Absent
  PROVE  CatchUpInv'
<1>1. IsConnected' = IsConnected /\ socket' = socket
  BY DEF IsConnected, hookVars
<1>2. \A r \in Reports :
        /\ Event("SOS_CREATED", r) \in unannounced => IsComing(r)'
        /\ \A s \in Sockets : socket[s] = "open" /\ Announces(inbox[s], r) => IsComing(r)'
        /\ ~hydrated /\ (\A a \in Answers : <<a>> \in hydrations => a[r] # Absent) => IsComing(r)'
  BY <1>1 DEF IsComing, hydrationVars, Announces
<1>. QED  BY <1>1, <1>2, CatchUpKept DEF hydrationVars

\* The hook moves, and neither the connection nor the scope changes.
LEMMA CatchUpWhileHooked ==
  ASSUME PageInv, FeedInv, CatchUpInv, [Next]_vars, Rehydrated, ~HydrationChanged,
         inbox' # inbox => ~isConnected',
         unannounced' = unannounced,
         excused \subseteq excused',
         \A r \in Reports \ excused' : IsMissing(r)' => shown[r] = Absent
  PROVE  CatchUpInv'
<1>1. /\ IsConnected' = IsConnected /\ activeSimId' = activeSimId
      /\ hydrations' = hydrations /\ hydrated' = hydrated
  BY DEF Rehydrated, HydrationChanged
<1>2. [HookNext]_hookVars
  BY DashboardHookStep DEF PageInv, ChainInv
<1>3. IsConnected' => isConnected'
  BY DEF IsConnected
<1>4. \A s \in Sockets : IsConnected' =>
        /\ socket[s] = "closing" => socket'[s] = "closing"
        /\ socket[s] = "open" => socket'[s] \in {"open", "closing"}
  BY <1>2, <1>3, SocketsLast DEF PageInv
<1>5. ASSUME NEW r \in Reports
      PROVE  /\ Event("SOS_CREATED", r) \in unannounced => IsComing(r)'
             /\ \A s \in Sockets : socket[s] = "open" /\ Announces(inbox[s], r) => IsComing(r)'
             /\ ~hydrated /\ (\A a \in Answers : <<a>> \in hydrations => a[r] # Absent) => IsComing(r)'
  <2>1. ASSUME NEW s \in Sockets, socket[s] = "open", Announces(inbox[s], r) PROVE IsComing(r)'
    BY <2>1, <1>3, <1>4 DEF IsComing, Announces
  <2>. QED  BY <2>1, <1>1 DEF IsComing
<1>. QED  BY <1>1, <1>4, <1>5, CatchUpKept

\* A write shows nothing and announces more.
LEMMA WritesAnnounce ==
  ASSUME \/ \E r \in Reports : ReportFiled(r) \/ Resolve(r)
         \/ \E R \in SUBSET Reports : Assign(R)
         \/ Wipe \/ Complete
  PROVE  unannounced \subseteq unannounced'
BY DEF ReportFiled, Resolve, Assign, Wipe, Complete, Logged

LEMMA CatchUpStep == PageInv /\ FeedInv /\ CatchUpInv /\ [Next]_vars => CatchUpInv'
<1>. SUFFICES ASSUME PageInv, FeedInv, CatchUpInv, [Next]_vars PROVE CatchUpInv'
  OBVIOUS
<1>. USE DEF serverVars, listVars, scenarioVars, requestVars, replayVars
<1>t. PageTypes
  BY DEF PageInv
<1>1. CASE UNCHANGED vars \/ Server
  <2>1. UNCHANGED <<hookVars, inbox, hydrationVars, shown>> /\ excused \subseteq excused'
    BY <1>1 DEF vars, Server, ReportFiled, OthersRead, OthersWrite, Assign, Complete
  <2>2. unannounced \subseteq unannounced'
    BY <1>1, WritesAnnounce DEF vars, Server, OthersRead, OthersWrite
  <2>. QED  BY <2>1, <2>2, CatchUpQuiet DEF IsMissing
<1>2. ASSUME NEW e \in unannounced, Publish(e) PROVE CatchUpInv'
  <2>1. /\ UNCHANGED <<hookVars, hydrationVars, listVars>>
        /\ IsConnected' = IsConnected /\ socket' = socket
        /\ unannounced' = unannounced \ {e}
        /\ \A s \in Sockets : inbox'[s] = IF socket[s] = "open" THEN Append(inbox[s], e) ELSE inbox[s]
    BY <1>2 DEF Publish, IsConnected, hookVars
  <2>2. \A s \in Sockets : inbox[s] \in Seq(News)
    BY <1>t DEF PageTypes
  <2>3. ASSUME NEW r \in Reports, NEW s \in Sockets, Announces(inbox[s], r) PROVE Announces(inbox'[s], r)
    <3>1. PICK i \in 1 .. Len(inbox[s]) : inbox[s][i] = Event("SOS_CREATED", r)
      BY <2>3 DEF Announces
    <3>2. inbox[s] \in Seq(News) /\ e \in News
      BY <2>2, <1>t DEF PageTypes
    <3>3. inbox'[s] = inbox[s] \/ inbox'[s] = Append(inbox[s], e)
      BY <2>1
    <3>4. i \in 1 .. Len(inbox'[s]) /\ inbox'[s][i] = inbox[s][i]
      BY <3>2, <3>3
    <3>. QED  BY <3>1, <3>4 DEF Announces
  <2>4. ASSUME NEW r \in Reports, Event("SOS_CREATED", r) \in unannounced PROVE IsComing(r)'
    <3>1. CASE e # Event("SOS_CREATED", r)
      BY <3>1, <2>1, <2>4 DEF IsComing
    <3>2. CASE e = Event("SOS_CREATED", r) /\ IsConnected
      <4>1. PICK s \in Sockets : socket[s] \in {"open", "closing"}
        BY <3>2 DEF FeedInv, IsConnected
      <4>2. CASE socket[s] = "open"
        <5>1. inbox'[s] = Append(inbox[s], e) /\ inbox[s] \in Seq(News)
          BY <4>2, <2>1, <2>2
        <5>2. Len(inbox[s]) + 1 \in 1 .. Len(inbox'[s]) /\ inbox'[s][Len(inbox[s]) + 1] = e
          BY <5>1
        <5>. QED  BY <5>2, <4>2, <3>2, <2>1 DEF IsComing, Announces
      <4>. QED  BY <4>1, <4>2, <2>1 DEF IsComing
    <3>. QED  BY <3>1, <3>2, <2>1 DEF IsComing
  <2>5. \A r \in Reports :
          /\ Event("SOS_CREATED", r) \in unannounced => IsComing(r)'
          /\ \A s \in Sockets : socket[s] = "open" /\ Announces(inbox[s], r) => IsComing(r)'
          /\ ~hydrated /\ (\A a \in Answers : <<a>> \in hydrations => a[r] # Absent) => IsComing(r)'
    BY <2>1, <2>3, <2>4 DEF IsComing, hydrationVars
  <2>. QED  BY <2>1, <2>5, CatchUpKept DEF hydrationVars, IsMissing
<1>3. CASE FeedMoves
  BY <1>3, CatchUpAfterChange, CatchUpWhileHooked DEF FeedMoves, IsMissing
<1>4. ASSUME NEW s \in Sockets, Deliver(s) PROVE CatchUpInv'
  <2>1. /\ UNCHANGED <<hookVars, serverVars, hydrationVars>>
        /\ IsConnected' = IsConnected /\ socket' = socket /\ unannounced' = unannounced
        /\ inbox[s] # <<>> /\ inbox[s] \in Seq(News) /\ InUse(s) /\ runOf[s] \in Runs
        /\ \A x \in Sockets : inbox'[x] = IF x = s THEN Tail(inbox[s]) ELSE inbox[x]
    BY <1>4, <1>t DEF Deliver, PageTypes, IsConnected, hookVars, InUse, PageInv, ChainInv, HookTypeOK
  <2>2. ~handler[runOf[s]].isReplayMode
    BY <2>1 DEF FeedInv, Enabled
  <2> DEFINE e == Head(inbox[s])
  <2>3. e \in News /\ (e.type \in {"SOS_CREATED", "UNIT_DISPATCHED"} => e.sos \in Reports /\ e = Event(e.type, e.sos))
    <3>1. e \in News
      BY <2>1
    <3>. QED  BY <3>1, NewsType
  <2>4. \/ e.type = "SOS_CREATED" /\ \E muted : ShowCreated(e.sos, muted)
        \/ e.type = "UNIT_DISPATCHED" /\ ShowDispatched(e.sos)
        \/ e.type = "SIMULATION_COMPLETE" /\ ShowComplete
        \/ e.type = "SCENARIO_RESET" /\ ShowReset
    BY <1>4, <2>2 DEF Deliver
  <2>5. /\ excused \subseteq excused'
        /\ \A r \in Reports \ excused' :
             IsMissing(r)' => shown[r] = Absent /\ e # Event("SOS_CREATED", r)
    <3>1. CASE e.type = "SOS_CREATED" /\ \E muted : ShowCreated(e.sos, muted)
      <4>1. /\ excused' = excused
            /\ \A r \in Reports : shown'[r] = IF r = e.sos /\ shown[r] = Absent THEN PENDING ELSE shown[r]
        BY <3>1, <2>3, <1>t DEF ShowCreated, PageTypes, Answers
      <4>. QED  BY <4>1 DEF IsMissing, Event, PENDING, Absent
    <3>2. CASE e.type = "UNIT_DISPATCHED" /\ ShowDispatched(e.sos)
      <4>1. /\ excused' = excused
            /\ \A r \in Reports : shown'[r] = Absent => shown[r] = Absent
        BY <3>2, <2>3, <1>t DEF ShowDispatched, PageTypes, Answers, Absent, ASSIGNED
      <4>. QED  BY <3>2, <4>1 DEF IsMissing, Event
    <3>3. CASE e.type = "SCENARIO_RESET" /\ ShowReset
      BY <3>3 DEF ShowReset, ClearLists, Taken, IsMissing, Event
    <3>4. CASE e.type = "SIMULATION_COMPLETE" /\ ShowComplete
      BY <3>4 DEF ShowComplete, IsMissing, Event
    <3>. QED  BY <2>4, <3>1, <3>2, <3>3, <3>4
  <2>6. ASSUME NEW r \in Reports, e # Event("SOS_CREATED", r), NEW x \in Sockets,
               socket[x] = "open", Announces(inbox[x], r)
        PROVE  IsComing(r)'
    <3>1. Announces(inbox'[x], r)
      <4>1. CASE x # s
        BY <4>1, <2>1, <2>6
      <4>2. CASE x = s
        <5>1. PICK i \in 1 .. Len(inbox[s]) : inbox[s][i] = Event("SOS_CREATED", r)
          BY <4>2, <2>6 DEF Announces
        <5>2. i # 1
          BY <5>1, <2>1, <2>6
        <5>3. i - 1 \in 1 .. Len(Tail(inbox[s])) /\ Tail(inbox[s])[i - 1] = inbox[s][i]
          BY <5>1, <5>2, <2>1
        <5>. QED  BY <5>1, <5>3, <4>2, <2>1 DEF Announces
      <4>. QED  BY <4>1, <4>2
    <3>. QED  BY <3>1, <2>1, <2>6 DEF IsComing
  <2>7. \A r \in Reports :
          /\ Event("SOS_CREATED", r) \in unannounced => IsComing(r)'
          /\ ~hydrated /\ (\A a \in Answers : <<a>> \in hydrations => a[r] # Absent) => IsComing(r)'
    BY <2>1 DEF IsComing, hydrationVars
  <2> HIDE DEF e
  <2>. QED  BY <2>1, <2>5, <2>6, <2>7, CatchUpKept DEF hydrationVars
<1>5. CASE SirenEnds \/ RunDispatch \/ Navigate \/ \E q \in loads : ReplayLoaded(q)
  BY <1>5, CatchUpQuiet DEF SirenEnds, RunDispatch, Navigate, ReplayLoaded, IsMissing
<1>6. ASSUME NEW h \in hydrations, HydrationRead(h) PROVE CatchUpInv'
  <2>1. /\ UNCHANGED <<hookVars, serverVars, inbox, listVars, hydrated, activeSimId>>
        /\ IsConnected' = IsConnected /\ socket' = socket
        /\ hydrations' = (hydrations \ {<<>>}) \cup {<<ActiveReports>>} /\ hydrations # {}
    BY <1>6 DEF HydrationRead, IsConnected, hookVars
  <2>2. ASSUME NEW r \in Reports, IsMissing(r)'
        PROVE  /\ Event("SOS_CREATED", r) \in unannounced => IsComing(r)'
               /\ \A s \in Sockets : socket[s] = "open" /\ Announces(inbox[s], r) => IsComing(r)'
               /\ ~hydrated /\ (\A a \in Answers : <<a>> \in hydrations => a[r] # Absent) => IsComing(r)'
    <3>1. ActiveReports[r] # Absent
      BY <2>1, <2>2 DEF IsMissing, ActiveReports, Present, Scope
    <3>2. \A a \in Answers : <<a>> \in hydrations' => <<a>> \in hydrations \/ a = ActiveReports
      BY <2>1
    <3>. QED  BY <2>1, <3>1, <3>2 DEF IsComing
  <2>. QED  BY <2>1, <2>2, CatchUpKept DEF IsMissing
<1>7. ASSUME NEW h \in hydrations, HydrationAnswered(h) PROVE CatchUpInv'
  <2>1. PICK a \in Answers : h = <<a>> /\ <<a>> \in hydrations
    BY <1>7, <1>t DEF HydrationAnswered, PageTypes
  <2>2. /\ UNCHANGED <<hookVars, serverVars, inbox, activeSimId>>
        /\ IsConnected' = IsConnected /\ socket' = socket
        /\ hydrations' \subseteq hydrations
    BY <1>7 DEF HydrationAnswered, IsConnected, hookVars
  <2>3. \/ UNCHANGED <<shown, hydrated, excused>>
        \/ /\ shown' = [r \in Reports |-> IF a[r] # Absent THEN a[r] ELSE shown[r]]
           /\ excused' = {r \in excused : a[r] = Absent}
    BY <1>7, <2>1 DEF HydrationAnswered
  <2>4. ASSUME NEW r \in Reports \ excused', IsMissing(r)'
        PROVE  /\ r \notin excused /\ shown[r] = Absent
               /\ Event("SOS_CREATED", r) \in unannounced => IsComing(r)'
               /\ \A s \in Sockets : socket[s] = "open" /\ Announces(inbox[s], r) => IsComing(r)'
               /\ ~hydrated /\ (\A b \in Answers : <<b>> \in hydrations => b[r] # Absent) => IsComing(r)'
    <3>1. CASE UNCHANGED <<shown, hydrated, excused>>
      BY <3>1, <2>2, <2>4 DEF IsComing, IsMissing
    <3>2. CASE a[r] = Absent /\ shown'[r] = shown[r] /\ r \notin excused
      BY <3>2, <2>1, <2>2, <2>4 DEF IsComing, IsMissing
    <3>. QED  BY <2>3, <2>4, <3>1, <3>2 DEF IsMissing
  <2>5. hydrated \/ hydrations # {}
    BY <1>7
  <2>. QED  BY <2>2, <2>4, <2>5, CatchUpKept
<1>8. CASE (\E q \in dispatches : Round(q)) \/ Arrives
  <2>1. UNCHANGED <<hookVars, inbox, hydrationVars, shown>> /\ excused \subseteq excused'
    BY <1>8 DEF Round, RoundReads, RoundWrites, Assign, Arrives
  <2>2. unannounced \subseteq unannounced'
    BY <1>8 DEF Round, RoundReads, RoundWrites, Assign, Logged, Arrives, Resolve
  <2>. QED  BY <2>1, <2>2, CatchUpQuiet DEF IsMissing
<1>9. ASSUME NEW q \in dispatches, DispatchAnswered(q) PROVE CatchUpInv'
  <2>1. \A r \in Reports : shown'[r] = Absent => shown[r] = Absent
    BY <1>9 DEF DispatchAnswered, Absent, ASSIGNED
  <2>. QED  BY <1>9, <2>1, CatchUpQuiet DEF DispatchAnswered, IsMissing
<1>10. CASE MarkedArrived
  <2>1. \A r \in Reports : shown'[r] = Absent => shown[r] = Absent
    BY <1>10, <1>t DEF MarkedArrived, Absent, RESOLVED, PageTypes, Answers
  <2>. QED  BY <1>10, <2>1, CatchUpQuiet DEF MarkedArrived, IsMissing
<1>11. CASE (\E q \in triggers : TriggerDone(q)) \/ ResetDone
  <2>1. UNCHANGED <<hookVars, inbox, hydrationVars, listVars>> /\ unannounced \subseteq unannounced'
    BY <1>11, WritesAnnounce DEF TriggerDone, ResetDone
  <2>. QED  BY <2>1, CatchUpQuiet DEF IsMissing
<1>12. CASE AskTrigger \/ (\E q \in triggers : TriggerFailed(q)) \/ TriggerReleased
            \/ AskReset \/ ResetFailed
  <2>1. UNCHANGED <<hookVars, inbox, hydrationVars, listVars, unannounced>>
    BY <1>12 DEF AskTrigger, TriggerFailed, TriggerReleased, AskReset, ResetFailed
  <2>. QED  BY <2>1, CatchUpQuiet DEF IsMissing
<1>13. ASSUME NEW q \in triggers, TriggerAnswered(q) PROVE CatchUpInv'
  BY <1>13, CatchUpAfterChange, CatchUpWhileHooked DEF TriggerAnswered, IsMissing
<1>14. CASE ResetAnswered
  <2>1. excused \subseteq excused' /\ \A r \in Reports \ excused' : IsMissing(r)' => shown[r] = Absent
    BY <1>14 DEF ResetAnswered, ClearLists, Taken, IsMissing
  <2>. QED  BY <1>14, <2>1, CatchUpAfterChange, CatchUpWhileHooked DEF ResetAnswered
<1>15. CASE isReplayMode /\ UNCHANGED <<hookVars, hydrationVars>>
  <2>1. ~IsConnected' /\ UNCHANGED <<hydrations, hydrated>> /\ IsConnected' = IsConnected
    BY <1>15 DEF isReplayMode, IsConnected, Enabled, hookVars, hydrationVars
  <2>. QED  BY <2>1 DEF CatchUpInv, IsComing
<1>16. ASSUME NEW events, SelectReplay(events) PROVE CatchUpInv'
  BY <1>15, <1>16 DEF SelectReplay
<1>17. ASSUME NEW seen \in scrubs, TourScrubs(seen) PROVE CatchUpInv'
  <2>1. UNCHANGED <<hookVars, inbox, hydrationVars, unannounced>>
    BY <1>17 DEF TourScrubs
  <2>2. CASE ~isReplayMode
    <3>1. excused \subseteq excused' /\ \A r \in Reports \ excused' : shown'[r] = Absent => shown[r] = Absent
      BY <1>17, <2>2 DEF TourScrubs, Rebuilt, Taken
    <3>. QED  BY <2>1, <3>1, CatchUpQuiet DEF IsMissing
  <2>. QED  BY <1>15, <2>1, <2>2
<1>. QED
  BY <1>1, <1>2, <1>3, <1>4, <1>5, <1>6, <1>7, <1>8, <1>9, <1>10, <1>11, <1>12, <1>13, <1>14,
     <1>16, <1>17, WhoMoves
  DEF Hydrate, Dispatch, Scenario

\* Once the live dashboard has caught up it shows every active report, whatever
\* drops, toggles, replays and orders came before (useWebSocket.ts and the
\* hydration effect of page.tsx).
THEOREM DashboardMissesNothing == Spec => []NothingMissed
<1>1. Init => FeedInv /\ CatchUpInv
  <2>. SUFFICES ASSUME Init PROVE CatchUpInv
    BY FeedInit DEF Init
  <2>1. \A r \in Reports : ActiveReports[r] = Absent
    BY DEF Init, ActiveReports, Present
  <2>. QED  BY <2>1 DEF Init, CatchUpInv, IsMissing
<1>2. PageInv /\ FeedInv /\ [Next]_vars => FeedInv'
  BY DashboardHookStep, FeedStep DEF PageInv, ChainInv
<1>3. CatchUpInv => NothingMissed
  BY DEF CatchUpInv, NothingMissed, CaughtUp, IsMissing, IsComing, Announces
<1>. QED  BY <1>1, <1>2, <1>3, PageInit, PageStep, CatchUpStep, PTL DEF Spec

=============================================================================
