------------------------------ MODULE Dashboard ------------------------------
(***************************************************************************)
(* One officer's dashboard (app/dashboard/page.tsx): the reports and the   *)
(* dispatch queue it shows are fed by the sockets of WebSocketHook, by the *)
(* hydration request, by the answers to the officer's own requests, and by *)
(* the replay of the event log.  Commits and their announcements are       *)
(* separate, as in SOSDispatch, and so are what a round of dispatch reads  *)
(* and what it writes.  React renders between any two events of the page.  *)
(* The guided tour presses the page's buttons whether or not they are      *)
(* disabled.  The report it makes up in its step 4, which no table has, is *)
(* left out: Reports are those the server has been given.                  *)
(***************************************************************************)
EXTENDS WebSocketHook, FocusedRoute, Sequences

CONSTANTS
  Critical,     \* the reports whose severity is CRITICAL_TRAPPED
  Budgets       \* bounds: how often each of the named things may happen

\* A report's progress; the first value means that it is not there.
Absent == 0
PENDING == 1
ASSIGNED == 2
RESOLVED == 3

\* Scenarios are numbered as they are triggered.
NoSim == 0

VARIABLES
  status,       \* status[r]: the report in the database, the last one if wiped
  simOf,        \* simOf[r]: the scenario it belongs to, NoSim if none
  wiped,        \* the reports a reset has deleted
  log,          \* the events logged so far, their order left out
  unannounced,  \* committed events that are not published yet
  scenarios,    \* how many have been triggered
  resolved,     \* history: the reports that have been resolved
  readByOthers, \* the pending reports that rounds of other officers have read
  inbox,        \* inbox[s]: messages on their way to the page on socket s
  shown,        \* sosReports
  queue,        \* dispatchAssignments, keyed by report
  excused,      \* history: the reports NothingMissed does not speak of
  hydrations,   \* hydration requests on their way
  hydrated,     \* the latest hydration has succeeded
  activeSimId,
  replayEvents,
  loads,        \* requests for the replay events
  scrubs,       \* delayed scrubs of the tour: the events their renders had
  dispatches,   \* the officer's requests for a round of dispatch
  triggers,     \* the officer's requests for a scenario
  isTriggering,
  releases,     \* timers that will reset isTriggering
  resetting,    \* the officer's request for a reset
  arrived,      \* the server has resolved the report that is being marked
  siren,        \* the siren sounds
  left          \* what remains of the budget

serverVars == <<status, simOf, wiped, log, unannounced, scenarios, resolved>>
listVars == <<shown, queue, excused>>
scenarioVars == <<triggers, isTriggering, releases, resetting>>
requestVars == <<dispatches, scenarioVars, arrived>>
replayVars == <<replayEvents, loads, scrubs>>
hydrationVars == <<hydrations, hydrated, activeSimId>>
vars == <<hookVars, focusVars, serverVars, readByOthers, inbox, listVars, hydrationVars,
          replayVars, requestVars, siren, left>>

isReplayMode == handler[run].isReplayMode
isMuted == handler[run].isMuted
isResetting == resetting # "idle"

Event(type, r) == [type |-> type, sos |-> r]
Events == [type : {"SOS_CREATED", "UNIT_DISPATCHED", "SIMULATION_COMPLETE", "SCENARIO_RESET"},
           sos : Reports \cup {NoReport}]

Spend(what) == left[what] > 0 /\ left' = [left EXCEPT ![what] = @ - 1]

\* A first visit: the browser has no mute switch or scenario stored.
Init ==
  /\ HookInit /\ FocusInit
  /\ status = [r \in Reports |-> Absent] /\ simOf = [r \in Reports |-> NoSim]
  /\ wiped = {} /\ log = {} /\ unannounced = {} /\ scenarios = 0
  /\ resolved = {} /\ readByOthers = {}
  /\ inbox = [s \in Sockets |-> <<>>]
  /\ shown = [r \in Reports |-> Absent]
  /\ queue = {} /\ excused = {}
  /\ hydrations = {} /\ hydrated = FALSE /\ activeSimId = NoSim
  /\ replayEvents = {} /\ loads = {} /\ scrubs = {}
  /\ dispatches = {} /\ triggers = {} /\ isTriggering = FALSE /\ releases = 0
  /\ resetting = "idle" /\ arrived = FALSE
  /\ siren = FALSE
  /\ left \in Budgets

-----------------------------------------------------------------------------
(* The server.                                                              *)

Present(r) == status[r] # Absent /\ r \notin wiped
Scope(sim) == {r \in Reports : sim = NoSim \/ simOf[r] = sim}
IsPending(r) == Present(r) /\ status[r] = PENDING

\* What GET /sos/active answers: the reports in scope that are not resolved.
ActiveReports ==
  [r \in Reports |-> IF Present(r) /\ r \in Scope(activeSimId) /\ status[r] # RESOLVED
                       THEN status[r] ELSE Absent]

Logged(events) == log' = log \cup events /\ unannounced' = unannounced \cup events

\* A citizen, or the runner of a scenario, files a report.
ReportFiled(r) ==
  /\ status[r] = Absent
  /\ \E sim \in NoSim .. scenarios : simOf' = [simOf EXCEPT ![r] = sim]
  /\ status' = [status EXCEPT ![r] = PENDING]
  /\ Logged({Event("SOS_CREATED", r)})
  /\ UNCHANGED <<wiped, scenarios, resolved, readByOthers, excused>>

\* A round assigns a unit to each of the reports R it has read, whatever became
\* of them since; if one of them is gone nothing is written.
Assign(R) ==
  /\ \A r \in R : Present(r)
  /\ status' = [r \in Reports |-> IF r \in R THEN ASSIGNED ELSE status[r]]
  /\ Logged({Event("UNIT_DISPATCHED", r) : r \in R})
  /\ excused' = excused \cup {r \in R : status[r] = RESOLVED}
  /\ UNCHANGED <<simOf, wiped, scenarios, resolved>>

\* A round of another officer, as far as it concerns r.
OthersRead(r) ==
  /\ IsPending(r)
  /\ readByOthers' = readByOthers \cup {r}
  /\ UNCHANGED <<serverVars, excused>>

OthersWrite(r) ==
  /\ r \in readByOthers
  /\ readByOthers' = readByOthers \ {r}
  /\ Assign({r}) \/ UNCHANGED <<serverVars, excused>>

\* A reset deletes every report, whichever scenario it belongs to.
Wipe ==
  /\ wiped' = {r \in Reports : status[r] # Absent}
  /\ Logged({Event("SCENARIO_RESET", NoReport)})
  /\ UNCHANGED <<status, simOf, resolved>>

\* The runner of a scenario has filed its last report.
Complete ==
  /\ scenarios > 0
  /\ unannounced' = unannounced \cup {Event("SIMULATION_COMPLETE", NoReport)}
  /\ UNCHANGED <<status, simOf, wiped, log, scenarios, resolved, readByOthers, excused>>

\* An officer marks r arrived.
Resolve(r) ==
  /\ Present(r)
  /\ status' = [status EXCEPT ![r] = RESOLVED]
  /\ resolved' = resolved \cup {r}
  /\ UNCHANGED <<simOf, wiped, log, unannounced, scenarios>>

\* ws_manager.publish: the message goes to every socket that is open.
Publish(e) ==
  /\ e \in unannounced
  /\ unannounced' = unannounced \ {e}
  /\ inbox' = [s \in Sockets |-> IF socket[s] = "open" THEN Append(inbox[s], e) ELSE inbox[s]]
  /\ UNCHANGED <<hookVars, focusVars, status, simOf, wiped, log, scenarios, resolved,
                 readByOthers, listVars, hydrationVars, replayVars, requestVars, siren, left>>

\* What citizens, scenarios and other officers do.
Server ==
  /\ \/ \E r \in Reports :
          \/ ReportFiled(r) /\ Spend("reports")
          \/ OthersRead(r) /\ Spend("others")
          \/ OthersWrite(r) /\ UNCHANGED left
          \/ Resolve(r) /\ Spend("others") /\ UNCHANGED <<readByOthers, excused>>
     \/ Wipe /\ Spend("resets") /\ UNCHANGED <<scenarios, readByOthers, excused>>
     \/ Complete /\ Spend("completions")
  /\ UNCHANGED <<hookVars, focusVars, inbox, shown, queue, hydrationVars,
                 replayVars, requestVars, siren>>

-----------------------------------------------------------------------------
(* The live feed.                                                           *)

\* The clean-up of the hydration effect unsubscribes the request it had made.
Cancelled(requests) == {}

\* What the hydration effect depends on has changed.  (Mutant: an effect that
\* has succeeded does not ask again.)
ChangedBeforeHydration ==
  ~hydrated /\ <<IsConnected, activeSimId, isReplayMode>>' # <<IsConnected, activeSimId, isReplayMode>>
HydrationChanged ==
  <<IsConnected, activeSimId, isReplayMode>>' # <<IsConnected, activeSimId, isReplayMode>>

\* The hydration effect, if it runs.
Rehydrated ==
  LET Asks == IsConnected' /\ ~isReplayMode'
  IN IF ~HydrationChanged
       THEN UNCHANGED <<hydrations, hydrated>>
       ELSE /\ hydrations' = Cancelled(hydrations) \cup IF Asks THEN {<<>>} ELSE {}
            /\ hydrated' = FALSE

\* GET /sos/active reads the reports; the answer is on its way.
HydrationRead(h) ==
  /\ h = <<>>
  /\ hydrations' = (hydrations \ {h}) \cup {<<ActiveReports>>}
  /\ UNCHANGED <<hookVars, focusVars, serverVars, readByOthers, inbox, listVars, hydrated,
                 activeSimId, replayVars, requestVars, siren, left>>

\* The answer is merged into what is shown; a failure is only logged.
HydrationAnswered(h) ==
  /\ h # <<>>
  /\ hydrations' = hydrations \ {h}
  /\ \/ /\ shown' = [r \in Reports |-> IF h[1][r] # Absent THEN h[1][r] ELSE shown[r]]
        /\ hydrated' = TRUE
        /\ excused' = {r \in excused : h[1][r] = Absent}
     \/ UNCHANGED <<shown, hydrated, excused>>
  /\ UNCHANGED <<hookVars, focusVars, serverVars, readByOthers, inbox, queue, activeSimId,
                 replayVars, requestVars, siren, left>>

\* The socket changes state; what was on its way to a closed one is lost.
SocketOpened(s) ==
  /\ Opened(s)
  /\ UNCHANGED <<inbox, left>>

SocketDropped(s) ==
  /\ Dropped(s)
  /\ Spend("drops")
  /\ inbox' = [inbox EXCEPT ![s] = <<>>]

SocketClosed(s) ==
  /\ ClosedByPage(s)
  /\ inbox' = [inbox EXCEPT ![s] = <<>>]
  /\ UNCHANGED left

Feed ==
  /\ \/ \E s \in Sockets : SocketOpened(s) \/ SocketDropped(s) \/ SocketClosed(s)
     \/ \E e \in Runs : Reconnect(e) /\ UNCHANGED <<inbox, left>>
  /\ UNCHANGED <<focusVars, serverVars, readByOthers, listVars, activeSimId, replayVars,
                 requestVars, siren>>
  /\ Rehydrated

\* handleToggleMute: the handler is another one, so the effect runs again.
ToggleMute ==
  /\ Spend("mutes")
  /\ Rerun([handler[run] EXCEPT !.isMuted = ~isMuted])
  /\ UNCHANGED <<focusVars, serverVars, readByOthers, inbox, listVars, activeSimId, replayVars,
                 requestVars, siren>>
  /\ Rehydrated

\* playTwoToneEmergencyAlert(muted), with the muted of the handler that calls it.
Sounds(muted) == siren' = (siren \/ ~muted)
SirenEnds ==
  /\ siren
  /\ siren' = FALSE
  /\ UNCHANGED <<hookVars, focusVars, serverVars, readByOthers, inbox, listVars, hydrationVars,
                 replayVars, requestVars, left>>

ShowCreated(r, muted) ==
  /\ shown' = [shown EXCEPT ![r] = IF @ = Absent THEN PENDING ELSE @]
  /\ UNCHANGED <<queue, excused, isTriggering>>
  /\ IF r \in Critical THEN Sounds(muted) ELSE UNCHANGED siren

ShowDispatched(r) ==
  /\ shown' = [shown EXCEPT ![r] = IF @ = Absent THEN @ ELSE ASSIGNED]
  /\ queue' = queue \cup {r}
  /\ UNCHANGED <<excused, isTriggering, siren>>

ShowComplete == isTriggering' = FALSE /\ UNCHANGED <<listVars, siren>>

\* What the page shows it shows no more, though the server may still have it.
Taken == {r \in Reports : shown[r] # Absent /\ shown'[r] = Absent}

ClearLists ==
  /\ shown' = [r \in Reports |-> Absent]
  /\ queue' = {}
  /\ excused' = excused \cup Taken

ShowReset == ClearLists /\ isTriggering' = FALSE /\ UNCHANGED siren

\* handleWebSocketMessage, as the run that opened the socket closed over it.
Deliver(s) ==
  /\ socket[s] = "open" /\ inbox[s] # <<>>
  /\ inbox' = [inbox EXCEPT ![s] = Tail(@)]
  /\ LET h == handler[runOf[s]]
         e == Head(inbox[s])
     IN IF h.isReplayMode
          THEN UNCHANGED <<listVars, isTriggering, siren>>
          ELSE \/ e.type = "SOS_CREATED" /\ ShowCreated(e.sos, h.isMuted)
               \/ e.type = "UNIT_DISPATCHED" /\ ShowDispatched(e.sos)
               \/ e.type = "SIMULATION_COMPLETE" /\ ShowComplete
               \/ e.type = "SCENARIO_RESET" /\ ShowReset
  /\ UNCHANGED <<hookVars, focusVars, serverVars, readByOthers, hydrationVars, replayVars,
                 dispatches, triggers, releases, resetting, arrived, left>>

-----------------------------------------------------------------------------
(* The officer's requests, numbered by what the budget has left.  A request *)
(* may fail at any time, whether or not the server has carried it out.      *)

\* The button is disabled while a round is under way; the tour's step 5 runs
\* another all the same.  The scope is that of the click.
RunDispatch ==
  /\ Spend("dispatches")
  /\ dispatches' = dispatches \cup {[number |-> left["dispatches"], sim |-> activeSimId,
                                     stage |-> "asked", rows |-> {}]}
  /\ UNCHANGED <<hookVars, focusVars, serverVars, readByOthers, inbox, listVars, hydrationVars,
                 replayVars, scenarioVars, arrived, siren>>

Replace(requests, q, stage, rows) ==
  (requests \ {q})
    \cup {[number |-> q.number, sim |-> q.sim, stage |-> stage, rows |-> rows]}

\* The round reads the pending reports in scope, waits for OSRM, and assigns
\* units to some of what it has read.
RoundReads(q) ==
  /\ q.stage = "asked"
  /\ dispatches' = Replace(dispatches, q, "read", {r \in Scope(q.sim) : IsPending(r)})
  /\ UNCHANGED <<serverVars, excused>>

RoundWrites(q) ==
  /\ q.stage = "read"
  /\ \E R \in SUBSET q.rows : Assign(R) /\ dispatches' = Replace(dispatches, q, "done", R)

Round(q) ==
  /\ RoundReads(q) \/ RoundWrites(q)
  /\ UNCHANGED <<hookVars, focusVars, readByOthers, inbox, shown, queue, hydrationVars,
                 replayVars, scenarioVars, arrived, siren, left>>

\* The answer: the assignments are merged; a failure changes nothing, though
\* the server may have dispatched.
DispatchAnswered(q) ==
  /\ dispatches' = dispatches \ {q}
  /\ \/ /\ q.stage = "done"
        /\ shown' = [r \in Reports |-> IF r \in q.rows /\ shown[r] # Absent
                                         THEN ASSIGNED ELSE shown[r]]
        /\ queue' = queue \cup q.rows
        /\ UNCHANGED excused
     \/ UNCHANGED listVars
  /\ UNCHANGED <<hookVars, focusVars, serverVars, readByOthers, inbox, hydrationVars,
                 replayVars, scenarioVars, arrived, siren, left>>

\* The navigation card is opened from the queue, or closed.
Navigate ==
  /\ \/ Spend("focuses") /\ (\E r \in queue : Focus(r)) /\ UNCHANGED arrived
     \/ CloseNavigation /\ UNCHANGED <<left, arrived>>
     \/ (\E r \in Reports : RouteAnswered(r)) /\ UNCHANGED <<left, arrived>>
     \/ MarkArrived /\ arrived' = FALSE /\ UNCHANGED left
     \/ ArrivalFailed /\ UNCHANGED <<left, arrived>>
  /\ UNCHANGED <<hookVars, serverVars, readByOthers, inbox, listVars, hydrationVars,
                 replayVars, dispatches, scenarioVars, siren>>

\* The server resolves the report that the officer is marking.
Arrives ==
  /\ marking # NoReport /\ ~arrived
  /\ Resolve(marking)
  /\ arrived' = TRUE
  /\ UNCHANGED <<hookVars, focusVars, readByOthers, inbox, listVars, hydrationVars,
                 replayVars, dispatches, scenarioVars, siren, left>>

\* Only the server's answer makes the page show the report as resolved.
\* (Mutant: the page does not wait for it.)
Assumed == marking # NoReport
Arrived == marking # NoReport /\ arrived

MarkedArrived ==
  /\ Arrived
  /\ ArrivalConfirmed
  /\ arrived' = FALSE
  /\ shown' = [shown EXCEPT ![marking] = IF @ = Absent THEN @ ELSE RESOLVED]
  /\ UNCHANGED <<hookVars, serverVars, readByOthers, inbox, queue, excused, hydrationVars,
                 replayVars, dispatches, scenarioVars, siren, left>>

\* A scenario may be triggered again before the answer to the first trigger:
\* isTriggering is reset by events of the feed and by timers of earlier ones,
\* and the tour's step 3 does not look at it.
AskTrigger ==
  /\ Spend("triggers")
  /\ triggers' = triggers \cup {[number |-> left["triggers"], isMuted |-> isMuted, sim |-> NoSim]}
  /\ isTriggering' = TRUE
  /\ UNCHANGED <<hookVars, focusVars, serverVars, readByOthers, inbox, listVars, hydrationVars,
                 replayVars, dispatches, releases, resetting, arrived, siren>>

\* The server wipes the tables and starts the scenario.
TriggerDone(q) ==
  /\ q.sim = NoSim
  /\ Wipe
  /\ scenarios' = scenarios + 1
  /\ triggers' = (triggers \ {q}) \cup {[q EXCEPT !.sim = scenarios + 1]}
  /\ UNCHANGED <<hookVars, focusVars, readByOthers, inbox, listVars, hydrationVars,
                 replayVars, dispatches, isTriggering, releases, resetting, arrived, siren, left>>

\* The answer sounds the siren as the mute switch was at the click, and leaves
\* isTriggering to the feed or a timer.
TriggerAnswered(q) ==
  /\ q.sim # NoSim
  /\ triggers' = triggers \ {q}
  /\ activeSimId' = q.sim
  /\ Sounds(q.isMuted)
  /\ releases' = releases + 1
  /\ UNCHANGED <<hookVars, focusVars, serverVars, readByOthers, inbox, listVars, replayVars,
                 dispatches, isTriggering, resetting, arrived, left>>
  /\ Rehydrated

TriggerFailed(q) ==
  /\ triggers' = triggers \ {q}
  /\ isTriggering' = FALSE
  /\ UNCHANGED <<hookVars, focusVars, serverVars, readByOthers, inbox, listVars, hydrationVars,
                 replayVars, dispatches, releases, resetting, arrived, siren, left>>

TriggerReleased ==
  /\ releases > 0
  /\ releases' = releases - 1
  /\ isTriggering' = FALSE
  /\ UNCHANGED <<hookVars, focusVars, serverVars, readByOthers, inbox, listVars, hydrationVars,
                 replayVars, dispatches, triggers, resetting, arrived, siren, left>>

\* The button for a reset, which the tour does not press.
AskReset ==
  /\ ~isTriggering /\ ~isResetting
  /\ Spend("resets")
  /\ resetting' = "asked"
  /\ UNCHANGED <<hookVars, focusVars, serverVars, readByOthers, inbox, listVars, hydrationVars,
                 replayVars, dispatches, triggers, isTriggering, releases, arrived, siren>>

ResetDone ==
  /\ resetting = "asked"
  /\ Wipe
  /\ resetting' = "done"
  /\ UNCHANGED <<hookVars, focusVars, scenarios, readByOthers, inbox, listVars, hydrationVars,
                 replayVars, dispatches, triggers, isTriggering, releases, arrived, siren, left>>

ResetAnswered ==
  /\ resetting = "done"
  /\ resetting' = "idle"
  /\ activeSimId' = NoSim
  /\ ClearLists
  /\ UNCHANGED <<hookVars, focusVars, serverVars, readByOthers, inbox, replayVars, dispatches,
                 triggers, isTriggering, releases, arrived, siren, left>>
  /\ Rehydrated

ResetFailed ==
  /\ isResetting
  /\ resetting' = "idle"
  /\ UNCHANGED <<hookVars, focusVars, serverVars, readByOthers, inbox, listVars, hydrationVars,
                 replayVars, dispatches, triggers, isTriggering, releases, arrived, siren, left>>

-----------------------------------------------------------------------------
(* The replay of the event log.                                             *)

\* setIsReplayMode(TRUE) or setIsReplayMode(FALSE), which changes the handler.
SetReplayMode(active) ==
  IF isReplayMode = active THEN UNCHANGED hookVars
  ELSE Rerun([handler[run] EXCEPT !.isReplayMode = active])

\* handleToggleReplayMode: the events are asked for on the way in.  The button
\* is there outside the mode; the tour's step 7 calls it in either, and its
\* scrub will have the events of the render in which it did.
EnterReplay(byTour) ==
  /\ byTour \/ ~isReplayMode
  /\ Spend("replays")
  /\ SetReplayMode(TRUE)
  /\ loads' = loads \cup {[number |-> left["replays"], sim |-> activeSimId, byTour |-> byTour,
                           seen |-> replayEvents]}
  /\ UNCHANGED <<focusVars, serverVars, readByOthers, inbox, listVars, activeSimId, replayEvents,
                 scrubs, requestVars, siren>>
  /\ Rehydrated

LeaveReplay ==
  /\ isReplayMode
  /\ SetReplayMode(FALSE)
  /\ UNCHANGED <<focusVars, serverVars, readByOthers, inbox, listVars, activeSimId, replayVars,
                 requestVars, siren, left>>
  /\ Rehydrated

\* The log; of a scenario only the events whose payload names it, and neither
\* a report's nor a dispatch's does.
ReplayRange(sim) == IF sim = NoSim THEN log ELSE {}

\* The request ends; the tour then sets the timer of its scrub.
LoadEnds(q) ==
  /\ loads' = loads \ {q}
  /\ scrubs' = IF q.byTour THEN scrubs \cup {q.seen} ELSE scrubs

\* The events arrive, even after the officer has left; a failure ends the mode.
ReplayLoaded(q) ==
  /\ LoadEnds(q)
  /\ replayEvents' = ReplayRange(q.sim)
  /\ UNCHANGED <<hookVars, focusVars, serverVars, readByOthers, inbox, listVars, hydrationVars,
                 requestVars, siren, left>>

ReplayFailed(q) ==
  /\ LoadEnds(q)
  /\ SetReplayMode(FALSE)
  /\ UNCHANGED <<focusVars, serverVars, readByOthers, inbox, listVars, activeSimId, replayEvents,
                 requestVars, siren, left>>
  /\ Rehydrated

\* handleSelectReplayEventIndex: the lists are rebuilt from a prefix of the log.
\* Which prefixes there are is left open, and which dispatches come before the
\* creation of the report they are for: the log is sorted by the times at which
\* the transactions began.
Reconstructed(events, tooEarly) ==
  [r \in Reports |->
     IF Event("SOS_CREATED", r) \notin events THEN Absent
     ELSE IF Event("UNIT_DISPATCHED", r) \in events \ tooEarly THEN ASSIGNED ELSE PENDING]

Rebuilt(events) ==
  /\ \E tooEarly \in SUBSET events : shown' = Reconstructed(events, tooEarly)
  /\ queue' = {r \in Reports : Event("UNIT_DISPATCHED", r) \in events}
  /\ excused' = IF isReplayMode THEN excused ELSE excused \cup Taken

\* The scrubber is there in replay mode.
SelectReplay(events) ==
  /\ isReplayMode
  /\ Rebuilt(events)
  /\ UNCHANGED <<hookVars, focusVars, serverVars, readByOthers, inbox, hydrationVars,
                 replayVars, requestVars, siren, left>>

\* The tour's scrub, to the third event its render had, if it had as many; the
\* page may be live again.
TourScrubs(seen) ==
  /\ scrubs' = scrubs \ {seen}
  /\ (\E events \in SUBSET seen : Rebuilt(events)) \/ UNCHANGED listVars
  /\ UNCHANGED <<hookVars, focusVars, serverVars, readByOthers, inbox, hydrationVars,
                 replayEvents, loads, requestVars, siren, left>>

-----------------------------------------------------------------------------
Hydrate == \E h \in hydrations : HydrationRead(h) \/ HydrationAnswered(h)
Dispatch == RunDispatch \/ \E q \in dispatches : Round(q) \/ DispatchAnswered(q)
Scenario == \/ AskTrigger \/ TriggerReleased
            \/ \E q \in triggers : TriggerDone(q) \/ TriggerAnswered(q) \/ TriggerFailed(q)
            \/ AskReset \/ ResetDone \/ ResetAnswered \/ ResetFailed
Replay == \/ \E byTour \in BOOLEAN : EnterReplay(byTour)
          \/ LeaveReplay
          \/ \E q \in loads : ReplayLoaded(q) \/ ReplayFailed(q)
          \/ \E events \in SUBSET replayEvents : SelectReplay(events)
          \/ \E seen \in scrubs : TourScrubs(seen)

Next ==
  \/ Server \/ (\E e \in unannounced : Publish(e))
  \/ Feed \/ (\E s \in Sockets : Deliver(s)) \/ ToggleMute \/ SirenEnds
  \/ Hydrate \/ Dispatch \/ Navigate \/ Arrives \/ MarkedArrived
  \/ Scenario \/ Replay

\* Sockets open or fail, closes are reported and timers fire; a socket opens
\* if the network lets it (drops are bounded).
Fairness == WF_vars(Feed /\ left' = left)

Spec == Init /\ [][Next]_vars /\ Fairness

-----------------------------------------------------------------------------
TypeOK ==
  /\ HookTypeOK /\ FocusTypeOK
  /\ status \in [Reports -> Absent .. RESOLVED]
  /\ simOf \in [Reports -> Nat] /\ scenarios \in Nat /\ activeSimId \in Nat
  /\ wiped \in SUBSET Reports /\ readByOthers \in SUBSET Reports
  /\ unannounced \in SUBSET Events
  /\ inbox \in [Sockets -> Seq(Events)]
  /\ shown \in [Reports -> Absent .. RESOLVED]
  /\ queue \in SUBSET Reports
  /\ hydrations \in SUBSET ({<<>>} \cup Seq([Reports -> Absent .. RESOLVED]))
  /\ \A q \in dispatches : q.rows \in SUBSET Reports /\ q.stage \in {"asked", "read", "done"}
  /\ \A q \in triggers : q.sim \in Nat /\ q.isMuted \in BOOLEAN
  /\ resetting \in {"idle", "asked", "done"} /\ releases \in Nat
  /\ {hydrated, isTriggering, arrived, siren} \subseteq BOOLEAN

\* Nothing of the live feed is under way and the latest hydration succeeded.
CaughtUp ==
  /\ \A s \in Sockets : socket[s] \in {"open", "closed"} /\ inbox[s] = <<>>
  /\ \A e \in Runs : timers[e] = 0
  /\ unannounced = {}
  /\ ~isReplayMode /\ hydrated

\* Invariant.  When the live dashboard has caught up, every active report in its
\* scope is shown, whatever drops, mute toggles, replays, overlapping requests
\* and orders of commits, announcements and answers came before; except those
\* that, since the latest hydration that had them, a reset's answer or its late
\* announcement has cleared though they were filed after it, a late scrub of the
\* tour has taken from the live page, or a stale round has re-opened.
NothingMissed ==
  CaughtUp =>
    \A r \in Reports \ excused : ActiveReports[r] # Absent => shown[r] # Absent

\* Invariant.  Whether the news came from a socket, a hydration, a request or a
\* replay, and however late: the page shows a report of the server only if one
\* was logged, as assigned or queued for an officer only if a dispatch of it was
\* logged, and as resolved only if it has been resolved.
NeverAhead ==
  \A r \in Reports :
    /\ shown[r] # Absent => Event("SOS_CREATED", r) \in log
    /\ shown[r] = ASSIGNED \/ r \in queue => Event("UNIT_DISPATCHED", r) \in log
    /\ shown[r] = RESOLVED => r \in resolved

\* Outside replay the feed is connected for good once the network stays up,
\* though every change of its handler leaves a reconnecting socket behind.
StaysConnected == <>[](isReplayMode \/ IsConnected)

\* The siren never starts while the officer has muted it.
MutedIsSilent == [][siren' /\ ~siren => ~isMuted]_vars

=============================================================================
