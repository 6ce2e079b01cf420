# SurakshaGrid: verification project

TLA+ models, TLC configurations and TLAPS proofs for the SurakshaGrid flood
response platform: a FastAPI backend on Postgres/PostGIS and Redis, and a
Next.js frontend. Run everything inside `tla/`:

    tlasany SOSDispatch.tla                                  parse a module
    tlc -workers 2 -config production.cfg MCSOSDispatch.tla  check a configuration
    tlapm SOSRoundProofs.tla                                 check the proofs

Each `.cfg` is for the module that `PROJECT.json` names beside it, which also
lists components, mutants, the map from definitions to source lines, findings,
hazards and theorems.

## 1. The system

| Part | State it keeps | Operations | Hard because | Module |
|---|---|---|---|---|
| SOS lifecycle (`app/routers/sos.py`) | `sos_reports`, `sos_confirmations`, `event_log` | create, confirm, resolve | coroutines of several workers interleave between awaits; READ COMMITTED; read-modify-write in memory | `SOSDispatch` |
| Dispatch optimizer (`services/dispatch_optimizer.py`, `routers/dispatch.py`) | `dispatch_assignments`, statuses of reports and units | one round: read, read, ask OSRM, solve, write all, commit, broadcast | the OSRM call (up to 1.5 s) separates what is read from what is written | `SOSDispatch` |
| Demo reset and trigger (`routers/simulation.py`) | the same tables, `flood_zones`, `active_sim_id` in Redis and in each worker | reset, trigger | DELETE statements with separate snapshots, row locks, cascades | `SOSDispatch`, `Simulation` |
| Staggered runner (same file) | nothing of its own; watches `active_sim_id` | inserts with delays, flood zones, completion | check-then-act across workers; Redis outages | `Simulation` |
| Live feed (`services/ws_manager.py`, `routers/ws.py`) | connections, listener task, Redis client, per worker | connect, disconnect, publish, listen | listeners that die, in-memory fallback, duplicated messages | `LiveFeed` |
| Rate limiter (`core/rate_limiter.py`) | a Redis counter per address | check | INCR and EXPIRE are two calls; fail-open | `RateLimiter` |
| Model registry (`services/model_registry.py`) | resident models, locks | get, unload, make room | threads, two kinds of lock, an unlocked fast path | `ModelRegistry` |
| Officer proxy (`frontend/app/api/officer-action/route.ts`) | a module-level cached token | forward an action | shared by overlapping requests; one retry on 401 | `OfficerProxy` |
| Live feed of a dashboard (`hooks/useWebSocket.ts`) | a socket, timers, a handler per run of an effect | connect, reconnect, clean up | a closed socket reports its close after the clean-up | `WebSocketHook` |
| Dashboard (`app/dashboard/page.tsx`) | reports, queue, mode, focused assignment | feed messages, hydration, request results, replay | sources arrive in any order | `FocusedRoute`, `Dashboard` |
| Replay scrubber and guided tour (`ReplayScrubber.tsx`, `useDemoTour.ts`) | position, timers, steps | play, slide, pause, resume, cancel | timers set after an await; stale closures | `ReplayScrubber`, `DemoTour` |
| Risk grid (`page.tsx`, `useDebounce.ts`, `useLiveRainfall.ts`, geolocation of the map) | rainfall, mode, region, reading | slider, mode, region, polls | answers for old inputs | `RiskView` |
| Map (`MapContainer.tsx`) | sources, layers, markers | draw, toggle, switch view | effects run before the map has loaded | `MapLayers` |
| Vehicle on a route (`useAnimatedRouteProgress.ts`) | animation frames | a new route, a frame | a frame for the previous route | `RouteAnimation` |
| Inundation playback (`FloodInundationTelemetryDashboard.tsx`) | hour, zones drawn | play, scrub, remake the map | hour advanced by two; map loads again | `InundationPlayback` |
| Citizen's report (`app/report/page.tsx`, photo, voice) | place, photo, text | locate, compress, dictate, record, send | late answers and stale closures | `ReportForm`, `VoiceDescription` |
| Read models, alerts, AI services, routing, uploads, scripts | none shared | queries, outbound calls, rendering | see section 8 | none |

How they meet: handlers change tables and, after their commit, hand events to
`ws_manager.publish`; the feed carries them to dashboards, which merge them
with what they fetch. The simulation runner creates reports the optimizer then
dispatches. Officer actions reach the backend through the proxy. The dashboard
owns the inputs of the risk grid, the map, the route and the replay, which the
tour steers.

What makes each correct:

- SOS and dispatch: a round takes free units and waiting reports only; a unit
  is out only for a report that still waits for it; trust counts
  confirmations; rows have parents; the feed announces what the log holds;
  requests end.
- Simulation: at most one scenario inserts; a cancelled one stops; its id is
  cleared by its owner only.
- Feed: a client gets each event once, and all clients get them in one order,
  unless a failure fell into the delivery.
- Rate limiter: a counter has an expiry. Registry: no circle of waiting
  threads; the resident cap.
- Proxy: a retry uses a token newer than the rejection.
- Dashboard: it catches up with the tables when nothing is on its way, shows of
  the server's reports nothing that was not logged, and goes on trying to connect.
- The rest of the frontend: what is shown or sent belongs to the latest
  inputs, not to the ones a timer or an answer was started for.

## 2. Modules

**`SOSDispatch`** (core). The tables as variables (`report`, `trust`,
`confirmations`, `unit`, `assignments`, `events`), the feed as the set
`published`, and for every database session its await (`pc`) and what its
coroutine holds in memory (`loc`).

| Code | Actions |
|---|---|
| `create_sos_report` | `CreateReport`, `Refresh`, `Publish` |
| `confirm_sos_report` | `ConfirmRead`, `ConfirmCommit`, `Refresh`, `Publish` |
| `resolve_sos_report` | `ResolveRead`, `ResolveFindRow`, `ResolveFindUnit`, `ResolveCommit`, `Refresh`, `Publish` |
| `optimize_rescue_dispatch` | `DispatchRead`, `DispatchReadUnits`, `DispatchPlan`, `DispatchCommit`, `Publish` |
| `reset_demo_state` | `ResetReports`, `ResetUnits`, `ResetCommit`, `Publish` |
| `trigger_simulation` (after its reset) | `SeedFleet` |
| any handler that fails | `RollBack` (a row it writes is gone), `Crash` (worker dies, database aborts, ValueError) |

How the abstraction works:

- A handler is one action per await that reaches shared state. What lies
  between two such awaits is local and belongs to the following action.
- Sessions have `autoflush=False`, so a handler's changes reach the database
  in its `flush`/`commit`. Flush and commit are one action: until the commit
  nobody else sees the rows, and the row locks held in between only delay
  others. An UPDATE writes the columns the handler changed and no others, by
  primary key; the ORM leaves out a column set to the value it was loaded
  with (`WrittenRows` and `ResolveCommit` depend on it).
- A reset's DELETEs are actions of their own because each has its own
  snapshot. The rows they deleted stay visible and locked until the commit
  (`LockedRows`, `CanFlush`). A session needs all its locks in one step, so a
  lock cycle between a flush and a reset, which Postgres resolves by aborting
  one of them, appears as the `Crash` of that session.
- Durations, severities and positions are abstracted: `Matchings` holds every
  assignment the solver could find optimal, that is every matching that leaves
  no unit idle while a report waits. Reports and units with unparseable
  geometries, and those of another `sim_id`, are left out by `Scopes`.
- `assigned_at` is the logical time of the round (`clock`): two rounds do not
  share an instant.
- Reports are those of `POST /sos`, which start with a `trust_score` of 0. The
  seed script and the simulation insert reports with up to five points and at
  most one confirmation; `TrustIsEarned` says nothing of them.
- `MaxConfirmations`, `MaxRounds` and `FleetIsLeft` bound the counters and the
  supply of ids; they guard the start of requests only.

**`DispatchContract`**: the same endpoints as indivisible operations on the
tables; what a caller would expect of them.

**`MCSOSDispatch`**: the instances for TLC, symmetry sets, and the refinement
`Contract!Spec`.

**`SOSDispatchProofs`, `SOSRoundProofs`, `SOSSerialProofs`**: the theorems.

**`Simulation`**: resets, triggers and the staggered runner. `redis` is the
key `surakshagrid:active_sim_id`, `memory` the global `_active_sim_id` of each
worker, `reports`, `fleets` and `zones` the rows a scenario owns, `announced`
what was given to `ws_manager.publish`, `request` and `runner` where each
handler and background task stands.

| Code | Actions |
|---|---|
| `_get_active_sim_id`, `_set_active_sim_id` | the operators `ActiveIds`, `Stored`: the set of what a call may return, or leave in Redis, under `RedisMode` |
| `reset_demo_state` | `Reset` (memory), `ClearActiveId` (Redis), `DeleteReports`, `DeleteUnits`, `DeleteZones`, `CommitReset`, `AnnounceReset` |
| `trigger_simulation` | the same, then `AnnounceAndDraw`, `Activate`, `SeedUnits` |
| `run_staggered_simulation` | `Check` (three per step), `Insert`, `Announce`, `ExpandZone`, `CheckComplete`, `Complete`, `AnnounceComplete` |
| its `finally` | `Final`, `FinalClear` |
| failures | `FailRequest`, `FailRunner`, `Crash` |

How the abstraction works:

- Delays are left out: every await takes any time. The number of steps and
  which of them bring a confirmation or a zone are constants.
- A row is its scenario and its step; contents, severities and polygons are
  those of the step. The assignments and confirmations a reset deletes with
  the reports are in `SOSDispatch`, as are the locks.
- `cancelled` (scenarios that a reset or a newer trigger was to replace) and `late` (rows
  stored for one of them) are history variables: no action reads them.
- `RedisMode` is "up", "down" or "flaky". While it is flaky every single call
  may fail or succeed: a GET that fails is answered from the worker's memory
  (`ActiveIds`), a SET or DELETE that fails leaves the old id in Redis
  (`Stored`), as the code only logs either.
- The supply of `Sims` bounds the triggers (`IdsAreLeft`); resets are unbounded.

**`MCSimulation`**: its instances.

**`LiveFeed`**: workers, their listeners, the one Redis channel, and clients.
`channel[w]` is what Redis holds for a worker's listener, `relay` the
broadcasts under way: of each listener and of each publisher that falls back.

| Code | Actions |
|---|---|
| `lifespan` (`start_redis_listener`), the end of `_listen_pubsub` | `FeedInit`, `ListenerDies` |
| `connect`, `disconnect` | `Connect`, `Disconnect` |
| `publish` | `PublishReturns`, `PublishFails` (Redis may or may not have accepted it), `FallsBack` |
| `_listen_pubsub`, `broadcast_in_memory` | `Listen`, `Send` (one client at a time) |

`owed` (the clients a message must reach) and `disturbed` (the messages whose
relay a failure fell into) are history variables. A client that leaves is
`Gone`; a reconnect is another client. `stop()` at shutdown and the
back-pressure of a send are left out; any send may take any time.

**`ModelRegistry`**: threads that call `get()`, each suspended at any of its
lock operations (`getting`), `recency` for `last_used_at`, `crowd` the most
threads that were ever between listing the loaded models and the end of their
load. `Get`, `FastReturn`, `LockAndReturn`, `LockAndLoad` are
`LazyModel.get`; `ListOthers`, `ChooseVictim`, `Unload`, `RoomMade` are
`make_room_for`; `Load`, `LoadFails`, `Return` end the call.

**`RateLimiter`**: the counter of one address and the requests that use it:
`Incr`, `Expire`, `Decide`, their failures before or after Redis has acted,
and `WindowEnds`.

**`OfficerProxy`**: requests that share `cachedToken`. `Begin`, `LoginIssued`,
`LoginAnswered`, `CallAnswered`, `CallRejected`, `RetryRejected` are the awaits
of the route handler, `LoginFailed` a login that fails before or after the
backend has issued its token; `CacheExpires` and `TokenRevoked` happen to it. Tokens
are numbered as the backend issues them.

**`WebSocketHook`**: the runs of the hook's effect. Each has its own handler
and timer; `wsRef` and `isConnected` are shared. `Rerun` is a change of the
effect's inputs with the clean-up of the previous run; `Opened`, `Closed`,
`Reconnect` are its callbacks. That the constructor of a WebSocket throws
(`useWebSocket.ts:65`), which ends the chain, is left out: it does so only for a
malformed url, and the url is a constant.

**`FocusedRoute`**: the card, the route effect and `handleMarkArrived`.

**`Dashboard`** extends both and adds a server whose tables are in order, whose
commits and announcements are separate and whose rounds write blindly what they
have read (as `SOSDispatch` has them), the messages on each socket, and the
page's lists.

| Code in `page.tsx` | Actions |
|---|---|
| `handleWebSocketMessage` | `Deliver`: `ShowCreated`, `ShowDispatched`, `ShowComplete`, `ShowReset` |
| hydration effect | `Rehydrated` (part of what changes its inputs), `HydrationRead`, `HydrationAnswered` |
| `handleRunDispatch`, `mergeDispatchAssignments` | `RunDispatch`, the server's `RoundReads` and `RoundWrites`, `DispatchAnswered` |
| `handleTriggerFloodScenario` | `AskTrigger`, the server's `TriggerDone`, `TriggerAnswered`, `TriggerFailed`, `TriggerReleased` |
| `handleResetScenario` | `AskReset`, the server's `ResetDone`, `ResetAnswered`, `ResetFailed` |
| `handleToggleReplayMode`, `handleSelectReplayEventIndex` | `EnterReplay`, `LeaveReplay`, `ReplayLoaded`, `ReplayFailed`, `SelectReplay`, `TourScrubs` |
| focus, `handleMarkArrived` | `Navigate`, the server's `Arrives`, `MarkedArrived` |
| mute toggle, siren | `ToggleMute`, `SirenEnds` |
| `useWebSocket` | `SocketOpened`, `SocketDropped`, `SocketClosed`, `Reconnect` |

- A report is its progress, PENDING, ASSIGNED or RESOLVED, and its scenario.
- Requests overlap as far as the page lets them: the buttons look at
  `isTriggering` and `isResetting`, which the feed, a timer or an earlier answer
  may reset; the tour looks at neither. A request keeps what the closure of its
  click held (`activeSimId`, `isMuted`).
- The log is a set. A position of the replay may stand for any part of it, and
  a dispatch may be replayed before its report: rows are sorted by the start of
  their transactions.
- The report the tour makes up in its step 4 (`useDemoTour.ts:151-164`) is in no
  table and is left out, here and in `DemoTour`: `Reports` are the server's, and
  the properties are about those.
- `excused` (the reports `NothingMissed` does not speak of, see section 6) and
  `resolved` are history variables. React renders between any two events.

**`ReplayScrubber`, `DemoTour`**: the first is the scrubber's effects and
buttons with the page's mode and the log's length; the second extends it with
the tour's chains of steps: `Execute` runs a step and sets its timer or awaits
its request, `Fire` and `StepAnswered` go on, `PauseDemo`, `ResumeDemo`,
`CancelDemo` are the officer's. A step that awaits holds no timer, so the
clean-up does not reach it; `Scrub` is the tour's delayed scrub, which no
clean-up reaches either. `interrupted` is a history variable.

**`RiskView`**: the inputs of the risk request and the requests on their way,
each named by the inputs it was asked with. Polls for the reading that overlap
within one effect ask the same and are one poll after the other
(`useLiveRainfall.ts:36`).

**`MapLayers`**: one kind of thing on the map per behaviour (six sources, five
markers). `data` is a version number; each kind has its own `Picture`, since
the code treats their empty lists and switches differently. `MapLoaded` draws
what the render that created the map had captured (`LoadPicture`: the risk and
flood zones; nothing for the other layers, which stay blank until their effects
run). `early` and `asLoaded` record the two known differences (section 6).

**`RouteAnimation`**: routes as lengths; `Frame` computes the segment and the
step as `interpolateAtDistance` and its caller do.

**`InundationPlayback`**, **`VoiceDescription`**, **`ReportForm`**: as their
headers say. The text of a description is the set of the pieces typed or spoken;
recorders and transcripts under way are the set of the texts they were given,
recorders that the form has lost track of included (`forgotten`).

**`SimulationProofs`, `WebSocketHookProofs`, `DashboardProofs`,
`ServicesProofs`, `ClientProofs`**: the theorems about the modules they are
named after, `ServicesProofs` about the parts of `MCServices` and `ClientProofs`
about those of `MCClient`.

**`MCDashboard`**, **`MCClient`**, **`MCServices`**: instances. The parts in
`MCClient` and `MCServices` share no state, so a behaviour follows one of them;
this checks each part completely and keeps their product out of the state
space.

## 3. Runs

Deadlock is checked for `MCSOSDispatch` and `MCSimulation`. The frontend and
the services may stop when a bound or a budget is used up; `LocksAreOrdered`
excludes a circle of waiting threads, and the progress of the others is stated
by temporal properties. Symmetry is used only in runs without temporal properties, over
interchangeable ids.

| Run | Instance | Shows |
|---|---|---|
| `serial` | 1 session, 3 reports, 3 units, 3 rounds, resets, two scopes | requests that do not overlap implement `DispatchContract` (`ImplementsContract`) and keep `NoUnitIsStranded` |
| `production` | 2 sessions, 2 reports, 2 units, 3 rounds, no resets | `PendingIsUnassigned`, `StatusIsBacked`, `LogIsAnnounced` survive every overlap of two requests |
| `one_dispatcher` | 3 sessions, one of which may dispatch, 2 reports, 2 units, production | `OneRowPerReport`, `RoundsTakeFreeUnits` |
| `development` | 2 sessions, 1 report, 1 unit that a trigger seeds, 2 confirmations, resets, crashes, `FairSpec` | `RowsHaveParents`, `TrustIsEarned` and the types, with resets racing with rounds, confirmations and each other; `RequestsEnd` |
| `sim_consecutive` | Redis up, 1 request at a time, 2 scenarios of 3 steps, `FairSpec` | a cancelled scenario adds at most the rows of one step (`AtMostOneLateStep`); nothing else is left of it (`ResetsLeaveOnlyLateRows`); every stored id belongs to a runner (`ActiveIdHasRunner`), and that ends (`RunnersEnd`) |
| `sim_faults` | Redis flaky, 1 worker, 1 request at a time, database errors, restarts | a completed scenario has announced all it has (`CompleteMeansSpawned`), and the types |
| `dashboard` | 3 runs of the effect, 3 sockets, 2 reports, fourteen mixes of events, `Spec` with its fairness | the page catches up with the tables (`NothingMissed`) and shows nothing that was not logged (`NeverAhead`); the route is that of the card (`RouteIsOfTheFocused`); one chain of reconnections per run (`OneChainPerRun`), and the feed comes back (`StaysConnected`) |
| `client` | two chains of the tour, a log of 3 events, 2 data versions, 2 rainfall levels, 2 proxy requests with 3 tokens, two routes, 2 pieces of text, 3 photos | the rest of the frontend: one property per part, with `TourEnds` and `RoutesCatchUp` as liveness |
| `services` | 2 workers, 2 clients, 2 messages; 3 models, 3 threads, caps 0 to 2; limit 5, 2 submissions | `DeliveredOnce`, `RelayedInOneOrder`; `LocksAreOrdered`, `OverlapsBoundResidents`; `CountersExpire` |
| `double_dispatch`, `sim_lost_id`, `muted_siren` | see section 6 | what a docstring or comment says and the code does not do |

Why the bounds are enough. Two sessions give every pair of overlapping
requests and three every overlap of two with a third that disturbs both; two
reports and two units give unbalanced and balanced matchings, a unit that is
re-deployed and a report that competes for it; two rounds give the second
round that a stale first one can collide with. Two scenarios give one that is
cancelled and one that replaces it, two steps a step after the cancellation
and three one after that. While Redis is up nobody reads a worker's memory, so
`sim_consecutive` has one worker.

Three runs of the effect give a latest one and two that were left behind; each
mix of `dashboard` combines two or three kinds of events that disturb one
another (a drop with a mute, a replay, a trigger or a stale round; two triggers,
or one with a reset; two replays; rounds with one another, with cards and with an
arrival), because all of them at once are too many states. Two
workers give one that relays and one that falls back; two messages an order;
three threads two that load while a third evicts; a limit of 5 and a count up
to 7 both sides of the limit. Two chains of the tour are the one that was left
behind an await and the one that resumed. Two inputs or two versions are an old
one and the latest; three photos are one removed, one that replaces it and one
after that.

`serial` shows that `NoUnitIsStranded` needs an overlap of two requests to
break, `one_dispatcher` that a double dispatch needs two rounds.

Every property of a passing run has a mutant in `PROJECT.json`: a plausible
bug, written beside the definition it replaces, under which TLC must find the
property violated.

## 4. Fairness

`FairSpec` of `SOSDispatch` adds strong fairness of `Continue(s)`, a session's
next step. A coroutine whose await has completed is scheduled by the event
loop; the OSRM call has a timeout; a flush that waits for locks is granted them
in turn. Nothing forces a client to send a request (`Start`) or a worker to
crash.

In `Simulation` weak fairness of each request's and each runner's next step is
enough: no step is disabled by another process once its turn has come. It
stands for the same scheduling; the delays between steps are finite.

In `Dashboard` the steps of the feed that do not spend the budget are weakly
fair: sockets open or report their close, pending timers fire. That a socket
drops is not fair, and it happens boundedly often.

In `MCClient` each chain of the tour is weakly fair (its timers fire, and its
requests have their own timeouts or fail), and so is the page's ten-second
interval that refreshes elapsed times (`ElapsedRefresh`). Nothing the officer
does is fair.

## 5. Proofs

Every safety property that a passing run checks is also a theorem, proved for
any constants that satisfy the named assumptions of their module: ids are
distinct, sets of models and threads are finite, bounds are numbers. A theorem
that needs more says so in an `ASSUME`; it is the condition under which the run
checks the property, and the violating runs or section 6 show what happens
without it.

`SOSDispatchProofs`:

- `TypeCorrect`: `Spec => []TypeOK`. `TypeOK` alone is not inductive: a
  resolve that frees a unit must have found a row, so `TypeInv` adds
  `RowIsFound`. One lemma (`StepTypes`) with one step per action; `GotoRow`
  and `FinishRow` say once what moving a session does.
- `PendingStaysUnassigned`, `RowsKeepParents`: `TablesInv` is their
  conjunction; it is inductive over `TypeInv`, because a flush requires the
  rows it writes to be live (`PlanIsLive`, `ConfirmedIsLive`,
  `ResolvedIsLive`). `WhoWrites` reduces the step to the six actions that
  write a table.

`SOSRoundProofs`:

- `TrustStaysEarned`: `ConfirmInv` adds that a confirmation in flight has read
  no more trust than its report has confirmations, as long as the report
  lives. This is what makes lost updates harmless for the bound.
- `ProductionStaysBacked`: assuming `Environment = "production"`; `BackedInv`
  adds that no session is inside a reset.

`SOSSerialProofs`, each under a condition on how the handlers overlap:

- `OneDispatcherOneRow`, `OneDispatcherTakesFreeUnits` assume `OneDispatcher`,
  that at most one session runs a round at a time; everything else may overlap
  with it, resets and crashes included. `DispatcherInv` says that what the round
  has read still holds when it writes: the reports it saw waiting have no row,
  the units it saw free are free (`RoundIsAlone`). The second theorem is of an
  action property.
- `LogStaysAnnounced` assumes production and no dying workers: `AnnounceInv`
  says of each session which events it has logged and not yet announced
  (`IsConsistent`). A worker that dies between the commit and `publish` loses
  its announcement, and a reset deletes the log.
- `SerialStrandsNoUnit` assumes `OneRequest`, at most one request at a time,
  which may crash or roll back. `ReadsHold` says at each await that what the
  request has read is what the tables hold.
- `SerialImplementsContract` proves the refinement: under `OneRequest` each step
  of `SOSDispatch` is one operation of `DispatchContract` or changes nothing that
  it sees. There is one lemma per operation (`CreateImplements` and so on).
  That the latest row of a report is one row needs `RoundInv` of
  `SOSRoundProofs`: rows of different rounds carry different times, and those of
  one round are a matching. Reports and units are assumed to be finite sets: the
  contract says by cardinalities that a round leaves no unit idle while a report
  waits.

`SimulationProofs`, for any number of workers, open requests, scenarios and
steps (the code has twelve steps; the runs have two or three):

- `SimTypeCorrect`: `TypeOK` is not inductive, because the fleet that a trigger
  stores is that of the id it drew. `SimInv` adds that such a request has an id
  of its own, whose runner waits for it in the same worker (`StartInv`), and
  that runners begin at step 0 (`FirstStepInv`).
- `CompletionFollowsSpawning`, whatever fails: `SpawnInv` says that a runner has
  announced every event of the steps behind it, and of its own step what comes
  before where it stands.
- `LateRowsAreOfOneStep`, assuming that Redis works: a cancelled id is not the
  stored one (`CancelledInv`), so a runner that has stored a late row either
  still announces that step or finds out at its next look (`Stops`). Overlapping
  requests, crashes and database errors are included, which the run leaves out.
- `NoIdIsLeftBehind`, assuming that nothing fails: `ActiveIdHasRunner` is
  inductive over `SimInv`.
- `ConsecutiveResetsLeaveLateRows`, assuming that requests do not overlap and
  that no database call fails and no worker dies, but nothing of Redis: it
  holds in all three modes of Redis, of which the run has one. `LeavesInv`
  follows the reset from one DELETE to the next. From the moment the id is cleared until the next
  one is stored every scenario is cancelled (`AllAreCancelled`), so whatever is
  inserted behind a DELETE is late.

`MovedByRequest`, `RunnerGoes` and `RunnerAnnounces` say once where a step takes
a runner; the theorems use them instead of the actions.

`WebSocketHookProofs`, about `HookSpec`, the hook by itself:

- `HookTypeCorrect`: the types.
- `ChainsStaySingle`: however many runs and sockets there are, each run has at
  most one socket in use or one timer, never both.
- `FeedKeepsTrying`: while the feed is enabled and shown as down, a socket is
  connecting or closing or a timer is pending. It is the invariant behind
  `StaysConnected`, which itself is liveness and model-checked.

`DashboardProofs`, about `Spec` of `Dashboard`, for any number of reports,
sockets and runs of the effect and any budgets:

- `DashboardRunsHook`: `Spec => HookSpec`. Every step of the page is a step of
  the hook or leaves it alone (`DashboardHookStep`), so the theorems above hold
  of the page (`DashboardChainsStaySingle`, `DashboardKeepsTrying`).
- `RouteStaysOfTheFocused`: `FocusInv` adds that only a request for the focused
  assignment may still be answered, and none once the card is closed.
- `DashboardTypeCorrect`: `PageInv` is the hook's invariant with the types of
  everything else (`PageTypes`); `NewsType` says what an event carries.
- `DashboardIsNeverAhead`: `NewsInv` says that nothing on its way to the page
  (an event, a hydration, an answer, a replay, a pending scrub), and nothing a
  round has yet to write, says more than the log does. The tables do move
  backwards, since a stale round re-opens a resolved report; the log only grows,
  so a late message stays true.
- `DashboardMissesNothing`: `CatchUpInv` says of every active report the page
  does not show which way it is coming (`IsComing`): unannounced, in the inbox of
  an open socket, in a hydration under way, or with the next change of the
  connection, which hydrates. `excused` are the exceptions (section 6).

`ServicesProofs`; each service by itself, and `ServicesRunAlone` carries the
results to `MCServices`:

- `FeedDeliversOnce`: `FeedInv` lists the ways on which a message can still
  reach a client, which are its worker's channel, its worker's broadcast, the
  publisher's own broadcast and a publisher about to fall back. They exclude one
  another and a message that has been received (`OneWay`), and whoever is owed a
  message has it or is on one (`SomeWay`). One lemma per operation
  (`AcceptedKeeps`, `ReturnKeeps`, `ListenKeeps`, `SendKeeps` and so on).
- `FeedKeepsOneOrder`: `OrderInv` says that no two messages precede one another,
  where a message precedes another if a client, a channel or a broadcast with
  its channel has them in that order (`Precedes`). No step adds to `Precedes`
  but the one by which Redis accepts a message, which comes last everywhere.
- `LocksStayOrdered`: `RegistryInv` ties each program counter to the locks the
  thread holds (`LockInv`), and it follows that a thread waiting for another's
  lock while holding one waits for a thread that needs no further lock.
- `OverlapsBound`: `CrowdInv` bounds the residents by the cap, the threads past
  their listing and what the listing saw; cardinalities of finite sets are from
  the library's theorems.
- `LimitTypeCorrect` and `CountersGetExpiry`: a request that was answered 1
  stands for the expiry it is about to set.

`ClientProofs`, about `Spec` of `MCClient`; `PartSteps` says that a step of the
client is a step of each part or leaves it alone:

- `ProxyTypeCorrect`, `RetriesStayFresh` (about `ProxySpec`): `RetryInv` adds
  that what a request has seen rejected had been issued.
- `RiskGridIsOfTheInputs`: the only answer the page listens to is that for the
  inputs shown (`RiskInv`).
- `MapTellsTheTruth`: `MapInv` says, for each way of drawing, what a layer has
  before and after the map has loaded: the page's data once its effect has run,
  and until then what the load put there.
- `VehicleIsOnItsRoute`: only a frame of the present route is scheduled
  (`DriveInv`). That the vehicle's segment lies within the route for any distance
  needs the least segment that reaches it (`WellFoundedInduction`), and
  `DrivesAssumption`: segments and steps are sequences of natural numbers.
- `InundationFollowsTheHour`: a map that is not ready has not been drawn on.
- `DescriptionStays`: what is missing from a text that may still be put back
  came while voice input was under way (`VoiceInv`).
- `PhotoSentIsShown`: at most the photo shown is being compressed (`PhotoInv`).
- `TourStepsOnce`: as long as nothing was interrupted, the only chain of a
  running tour is the one whose timer `timerRef` holds (`TourInv`). The type
  correctness of the tour needs that chains are numbered in order.
- `ClientTypeCorrect`: the types of all parts.

Only model-checked: the liveness properties `RequestsEnd`, `RunnersEnd`,
`StaysConnected`, `TourEnds` and `RoutesCatchUp`, because fairness and `ENABLED`
are beyond the prover.

## 6. Hazards and divergences

`PROJECT.json` lists the hazards at their lines, with the properties that cover
them. Three runs find that the code does not do what its documentation says
(`double_dispatch`: two rounds send the same unit; `sim_lost_id`: a cancelled
runner clears the id of the scenario that replaced it; `muted_siren`: the
socket of an earlier run rings while muted). The models also contain the
following behaviours, which have no property because the code has them; where a
line of the repository says otherwise, it is named.

Tables:

- A resolve that reads before a round commits leaves the unit DISPATCHED for a
  RESOLVED report (`sos.py:297`; the docstring, 286-287, says the unit is freed).
- A second resolve of a report frees a unit that by then serves another
  (`sos.py:309`, against 284-286).
- Two overlapping confirmations store the same incremented `trust_score`
  (`sos.py:212`, against 201); `TrustIsEarned` is what remains true.
- An overlapped round re-opens a report that was resolved meanwhile; a resolve
  of a report loaded as RESOLVED then writes no status, so it commits, logs and
  announces SOS_RESOLVED over an ASSIGNED.
- A round between two DELETEs of a reset leaves an ASSIGNED report without unit
  or row (`simulation.py:95`, against 72).
- Two open triggers (`simulation.py:535`) both delete and then both seed, or
  one deletes the rows of the other. `POST /simulation/reset` never passes
  a `sim_id` on, so it wipes every scenario and the baseline with it.
- A call to Redis that fails is only logged: where the DELETE or SET of a reset
  fails while later GETs succeed, or where workers answer from memories that
  differ, the runner of a cancelled scenario goes on to its end. With Redis down
  or flaky `AtMostOneLateStep` does not hold (`simulation.py:51`, 68).
- A worker that dies between a commit and `publish` never announces the event.

Services:

- The registry's fast path may return None after an eviction (`get()` is
  documented to return the loaded model). Overlapping loads exceed
  `MAX_RESIDENT_MODELS`; `OverlapsBoundResidents` says by how many. The
  docstring calls 0 the default, `config.py:73` has 1.
- A limiter whose EXPIRE fails blocks an address until the key is deleted;
  without `REDIS_URL` nothing is limited.
- A publish that raises although Redis has accepted it is told twice.

Dashboard:

- SOS_RESOLVED has no handler, and a hydration that was read earlier may take a
  status back: the page may lag behind.
- A stale round re-opens a resolved report. A dashboard that has not got the
  report does not show it until the next hydration, since UNIT_DISPATCHED only
  changes rows that are there (`page.tsx:332`).
- A reset's answer, or its announcement when it comes late, clears reports that
  were filed after it, until the next hydration. An arrival confirmed closes
  whichever card is open. These, the one before and the late scrub below are
  what `excused` records.
- The tour calls the trigger although its button is disabled, and the feed or a
  timer re-enables the buttons during a request. Answers of two triggers in the
  other order leave the page with the scenario that was wiped.
- The tour's scrub sees the events of the render it was set in, which on a first
  tour are none, so what `README.md:117` describes for the replay does not
  happen then. No cancel clears it, and it rebuilds the lists of a page that is
  live again (`useDemoTour.ts:194`; `page.tsx:548` does not ask for the mode).
- With an active scenario the replay holds none of its reports and dispatches:
  the query asks for events whose payload names the scenario (`replay.py:52`),
  and neither SOS_CREATED nor UNIT_DISPATCHED does.
- The replay sorts by the start of the logging transactions (`event_log.py:19`),
  so a dispatch may precede the creation of its report, which is then PENDING.
- Sockets of earlier runs deliver live events into the replay.
- Nothing in the frontend orders logins; a cache may hold an older token, which
  the retry replaces, and a 401 may clear a newer one.

Map, risk, playback and report:

- A layer toggled before the map has loaded stays visible. After every load the
  layers other than risk and flood zones are blank until their data change, even
  if nothing has changed before: the load adds empty sources
  (`MapContainer.tsx:443-446`, 497-500, 565-591) and runs no effect. Risk and
  flood zones are those of the render that created the map. The tab "radar" turns
  the switch on without showing a hidden layer.
- A geolocation lookup of a removed map may override a chosen region; the
  reading is never cleared.
- From an odd hour the playback passes 68; with a user location the inundation
  map is rebuilt by every render and its zones are missing until the hour changes.
- A late geolocation overwrites an edited place; lists of near reports are
  unordered; a photo that was removed reappears when its compression ends, and
  the photo of the previous report may be sent again; a transcript replaces
  text typed meanwhile, and results of the recognition may repeat.

## 7. What is left to do

Proofs: the invariants behind the remaining liveness properties, as
`FeedKeepsTrying` is for `StaysConnected`; a version of
`ConsecutiveResetsLeaveLateRows` for requests that overlap, which has to say
what two triggers leave of one another's fleets.

Models: `Dashboard` composed with `LiveFeed` instead of its own server; the
rescue units and the n8n feed of the dashboard; the order of the replay query.

## 8. Not modelled

- AI inference (OpenCV, Moondream2, Whisper, NLLB, Kokoro): stateless numeric
  code; its memory management is `ModelRegistry`.
- OSRM routes, Cloudinary, Twilio and n8n calls: outbound I/O whose failures
  are swallowed. That OSRM may fail or answer in part is in `SOSDispatch`.
- The dashboard's list of rescue units, the n8n feed's own reports and queue,
  toasts and session storage: further sources of the same shape as those of
  `Dashboard`, left out to keep its state space finite in minutes.
- The confirmation and broadcast dialogs, landing page, metric cards and charts:
  rendering, or one request each.
- Analytics, risk and flood-zone queries: read-only, cached for seconds, with
  numerical formulas; nothing relates the separate counts to one another.
- Password hashing, JWT encoding and cookies.
- Alembic migrations, the seed, preflight and smoke scripts, deployment files.
- `GET` endpoints without caches: they change nothing.
