---------------------------- MODULE WebSocketHook ----------------------------
(***************************************************************************)
(* The dashboard's live feed: hooks/useWebSocket.ts as the page uses it.   *)
(* Each run of the hook's effect keeps its own reconnection timer and the  *)
(* message handler of the render it belongs to; the runs share wsRef and   *)
(* isConnected.  A socket the clean-up closes still reports its close      *)
(* later, to the run that opened it, and that run then reconnects.         *)
(***************************************************************************)
EXTENDS Naturals

CONSTANTS
  MaxRuns,     \* bound: runs of the effect, one for each change of its inputs
  MaxSockets   \* bound: sockets that are not closed at the same time

ASSUME HookAssumption == MaxRuns \in Nat \ {0} /\ MaxSockets \in Nat \ {0}

VARIABLES
  run,          \* the latest run of the effect
  handler,      \* handler[e]: what the handler of run e closes over
  socket,       \* socket[s]: its ready state; a closed one is free to be reused
  runOf,        \* runOf[s]: the run that opened s
  wsRef,        \* the socket wsRef holds, NoSocket if none or one that is closed
  timers,       \* timers[e]: reconnection timers of run e that are pending
  isConnected

hookVars == <<run, handler, socket, runOf, wsRef, timers, isConnected>>

Runs == 1 .. MaxRuns
Sockets == 1 .. MaxSockets
NoSocket == 0

\* handleWebSocketMessage closes over these two states of the page.
Handlers == [isReplayMode : BOOLEAN, isMuted : BOOLEAN]
Live(h) == [isReplayMode |-> FALSE, isMuted |-> h]

\* The page enables the hook outside replay mode.
Enabled(h) == ~h.isReplayMode

InUse(s) == socket[s] # "closed"

HookTypeOK ==
  /\ run \in Runs
  /\ handler \in [Runs -> Handlers]
  /\ socket \in [Sockets -> {"connecting", "open", "closing", "closed"}]
  /\ runOf \in [Sockets -> Runs]
  /\ wsRef \in Sockets \cup {NoSocket}
  /\ timers \in [Runs -> Nat]
  /\ isConnected \in BOOLEAN

\* The first render: the effect has run and its socket is connecting.
HookInit ==
  /\ run = 1
  /\ handler = [e \in Runs |-> Live(FALSE)]
  /\ socket = [s \in Sockets |-> IF s = 1 THEN "connecting" ELSE "closed"]
  /\ runOf = [s \in Sockets |-> 1]
  /\ wsRef = 1
  /\ timers = [e \in Runs |-> 0]
  /\ isConnected = FALSE

-----------------------------------------------------------------------------
\* ws.close() through wsRef: the socket is closing until its close event.
AfterClose == IF wsRef = NoSocket THEN socket ELSE [socket EXCEPT ![wsRef] = "closing"]

\* connect() of run e, the sockets being in the states ready: wsRef now holds
\* the new socket, whatever it held before.  (The constructor throws only for a
\* malformed url, and the url is a constant of the page: then it would throw in
\* every run and there would be no feed at all.)
Connect(e, ready) ==
  \E s \in {t \in Sockets : ready[t] = "closed"} :
     /\ socket' = [ready EXCEPT ![s] = "connecting"]
     /\ runOf' = [runOf EXCEPT ![s] = e]
     /\ wsRef' = s

\* The clean-up of run e clears the timer of its own closure.
Cleared(e) == [timers EXCEPT ![e] = 0]

\* An input of the effect has changed: the previous run is cleaned up, if it
\* was enabled, and a new run connects with the new handler, or closes.
Rerun(h) ==
  /\ run < MaxRuns
  /\ run' = run + 1
  /\ handler' = [handler EXCEPT ![run + 1] = h]
  /\ timers' = IF Enabled(handler[run]) THEN Cleared(run) ELSE timers
  /\ LET ready == IF Enabled(handler[run]) \/ ~Enabled(h) THEN AfterClose ELSE socket
     IN IF Enabled(h)
          THEN Connect(run + 1, ready)
          ELSE socket' = ready /\ wsRef' = NoSocket /\ runOf' = runOf
  /\ UNCHANGED isConnected

\* ws.onopen
Opened(s) ==
  /\ socket[s] = "connecting"
  /\ socket' = [socket EXCEPT ![s] = "open"]
  /\ isConnected' = TRUE
  /\ UNCHANGED <<run, handler, runOf, wsRef, timers>>

\* The run that opened s sets a timer.
TimerSet(s) == [timers EXCEPT ![runOf[s]] = timers[runOf[s]] + 1]

\* ws.onclose of s, however it came about.
Closed(s) ==
  /\ socket' = [socket EXCEPT ![s] = "closed"]
  /\ wsRef' = IF wsRef = s THEN NoSocket ELSE wsRef
  /\ isConnected' = FALSE
  /\ timers' = TimerSet(s)
  /\ UNCHANGED <<run, handler, runOf>>

\* The network or the server ends s, or refuses it: ws.onerror only closes it.
Dropped(s) == socket[s] \in {"connecting", "open"} /\ Closed(s)

\* A socket the page has closed reports it.
ClosedByPage(s) == socket[s] = "closing" /\ Closed(s)

\* The timer of run e fires once.  (Mutant: it is an interval.)
EveryPeriod(e) == timers
Elapsed(e) == [timers EXCEPT ![e] = timers[e] - 1]

\* A timer fires whether or not its run is the latest.  (Mutant: only then.)
OnlyLatest(e) == timers[e] > 0 /\ e = run
Due(e) == timers[e] > 0

Reconnect(e) ==
  /\ Due(e)
  /\ timers' = Elapsed(e)
  /\ Connect(e, socket)
  /\ UNCHANGED <<run, handler, isConnected>>

HookNext ==
  \/ \E h \in Handlers : Rerun(h)
  \/ \E s \in Sockets : Opened(s) \/ Dropped(s) \/ ClosedByPage(s)
  \/ \E e \in Runs : Reconnect(e)

HookSpec == HookInit /\ [][HookNext]_hookVars

\* What the hook returns.
IsConnected == Enabled(handler[run]) /\ isConnected

-----------------------------------------------------------------------------
\* Invariant.  A run of the effect never has two sockets in use, two timers, or
\* a socket and a timer: though a clean-up leaves the run it ends alive, a run
\* reconnects along one chain, so a page opens at most one socket per run.
OneChainPerRun ==
  /\ \A e \in Runs : timers[e] <= 1
  /\ \A s \in Sockets : InUse(s) => timers[runOf[s]] = 0
  /\ \A s, t \in Sockets : InUse(s) /\ InUse(t) /\ runOf[s] = runOf[t] => s = t

\* Invariant.  While the feed is enabled and shown as down, some attempt to
\* connect is under way: a socket is opening or closing, or a timer is pending.
ConnectedOrTrying ==
  \/ ~Enabled(handler[run])
  \/ isConnected
  \/ \E s \in Sockets : socket[s] \in {"connecting", "closing"}
  \/ \E e \in Runs : timers[e] > 0

=============================================================================
