-------------------------- MODULE WebSocketHookProofs --------------------------
(***************************************************************************)
(* Theorems about WebSocketHook, for any number of runs and sockets.       *)
(***************************************************************************)
EXTENDS WebSocketHook, TLAPS

\* What makes OneChainPerRun inductive: wsRef holds a socket in use, and what
\* there is belongs to runs that have begun.
ChainInv ==
  /\ HookTypeOK
  /\ OneChainPerRun
  /\ \A e \in Runs : e > run => timers[e] = 0
  /\ \A s \in Sockets : InUse(s) => runOf[s] <= run
  /\ wsRef # NoSocket => InUse(wsRef)

\* HookTypeOK holds at the first render.
LEMMA InitType == HookInit => HookTypeOK
<1>. SUFFICES ASSUME HookInit PROVE HookTypeOK
  OBVIOUS
<1>1. 1 \in Runs /\ 1 \in Sockets
  BY HookAssumption DEF Runs, Sockets
<1>2. Live(FALSE) \in Handlers
  BY DEF Live, Handlers
<1>. QED  BY <1>1, <1>2 DEF HookInit, HookTypeOK

\* Closing through wsRef changes the state of no socket that is free.
LEMMA AfterCloseInUse ==
  ASSUME ChainInv
  PROVE  /\ AfterClose \in [Sockets -> {"connecting", "open", "closing", "closed"}]
         /\ \A s \in Sockets : AfterClose[s] # "closed" <=> InUse(s)
BY DEF ChainInv, HookTypeOK, AfterClose, InUse, NoSocket

\* A new run: its socket, if it opens one, is its first, and it has no timer.
LEMMA RerunStep ==
  ASSUME ChainInv, NEW h \in Handlers, Rerun(h)
  PROVE  ChainInv'
<1>1. /\ run + 1 \in Runs /\ run \in Runs /\ run' = run + 1
      /\ handler' \in [Runs -> Handlers] /\ isConnected' \in BOOLEAN
  BY HookAssumption DEF ChainInv, HookTypeOK, Rerun, Runs, InUse
<1>2. /\ timers' \in [Runs -> Nat]
      /\ \A e \in Runs : timers'[e] \in {0, timers[e]}
  BY DEF ChainInv, HookTypeOK, Rerun, Cleared, Runs, InUse
<1>3. PICK ready \in {AfterClose, socket} :
        \/ /\ Enabled(h) /\ Connect(run + 1, ready)
        \/ /\ ~Enabled(h)
           /\ socket' = AfterClose /\ wsRef' = NoSocket /\ runOf' = runOf
  BY DEF Rerun
<1>4. /\ ready \in [Sockets -> {"connecting", "open", "closing", "closed"}]
      /\ \A s \in Sockets : ready[s] # "closed" <=> InUse(s)
  BY AfterCloseInUse DEF ChainInv, HookTypeOK, InUse
<1>5. CASE Enabled(h)
  <2>1. PICK t \in Sockets : /\ ready[t] = "closed"
                             /\ socket' = [ready EXCEPT ![t] = "connecting"]
                             /\ runOf' = [runOf EXCEPT ![t] = run + 1]
                             /\ wsRef' = t
    BY <1>3, <1>5 DEF Connect
  <2>2. \A s \in Sockets : InUse(s)' <=> s = t \/ InUse(s)
    BY <2>1, <1>4 DEF InUse
  <2>3. \A s \in Sockets : runOf'[s] = IF s = t THEN run + 1 ELSE runOf[s]
    BY <2>1 DEF ChainInv, HookTypeOK, InUse
  <2>4. HookTypeOK'
    BY <2>1, <1>1, <1>2, <1>4 DEF ChainInv, HookTypeOK, InUse
  <2>5. /\ \A s \in Sockets : InUse(s) => runOf[s] # run + 1
        /\ timers[run + 1] = 0
    BY <1>1 DEF ChainInv, HookTypeOK, Runs
  <2>6. OneChainPerRun'
    <3>1. \A e \in Runs : timers'[e] <= 1
      BY <1>2 DEF ChainInv, HookTypeOK, OneChainPerRun
    <3>2. ASSUME NEW s \in Sockets, InUse(s)' PROVE timers'[runOf'[s]] = 0
      BY <3>2, <2>2, <2>3, <2>5, <1>1, <1>2 DEF ChainInv, HookTypeOK, OneChainPerRun
    <3>3. ASSUME NEW r \in Sockets, NEW s \in Sockets, InUse(r)', InUse(s)', runOf'[r] = runOf'[s]
          PROVE  r = s
      BY <3>3, <2>2, <2>3, <2>5 DEF ChainInv, OneChainPerRun
    <3>. QED  BY <3>1, <3>2, <3>3 DEF OneChainPerRun, InUse
  <2>7. ASSUME NEW s \in Sockets, InUse(s)' PROVE runOf'[s] <= run'
    <3>1. runOf[s] \in Nat /\ run \in Nat
      BY DEF ChainInv, HookTypeOK, Runs
    <3>2. s # t => runOf[s] <= run
      BY <2>2, <2>7 DEF ChainInv
    <3>. QED  BY <3>1, <3>2, <2>3, <1>1
  <2>8. \A e \in Runs : e > run' => timers'[e] = 0
    BY <1>1, <1>2 DEF ChainInv, HookTypeOK, Runs
  <2>9. InUse(wsRef)'
    BY <2>1, <2>2 DEF InUse
  <2>. QED  BY <2>4, <2>6, <2>7, <2>8, <2>9 DEF ChainInv, InUse
<1>6. CASE ~Enabled(h)
  <2>1. socket' = AfterClose /\ wsRef' = NoSocket /\ runOf' = runOf
    BY <1>3, <1>6
  <2>2. \A s \in Sockets : InUse(s)' <=> InUse(s)
    BY <2>1, AfterCloseInUse DEF InUse
  <2>3. HookTypeOK'
    BY <2>1, <1>1, <1>2, AfterCloseInUse DEF ChainInv, HookTypeOK, InUse
  <2>4. OneChainPerRun'
    <3>1. \A e \in Runs : timers'[e] <= 1
      BY <1>2 DEF ChainInv, HookTypeOK, OneChainPerRun
    <3>2. ASSUME NEW s \in Sockets, InUse(s)' PROVE timers'[runOf'[s]] = 0
      BY <3>2, <2>1, <2>2, <1>2 DEF ChainInv, HookTypeOK, OneChainPerRun
    <3>3. ASSUME NEW r \in Sockets, NEW s \in Sockets, InUse(r)', InUse(s)', runOf'[r] = runOf'[s]
          PROVE  r = s
      BY <3>3, <2>1, <2>2 DEF ChainInv, OneChainPerRun
    <3>. QED  BY <3>1, <3>2, <3>3 DEF OneChainPerRun, InUse
  <2>5. \A s \in Sockets : InUse(s)' => runOf'[s] <= run'
    BY <2>1, <2>2, <1>1 DEF ChainInv, HookTypeOK, Runs
  <2>6. \A e \in Runs : e > run' => timers'[e] = 0
    BY <1>1, <1>2 DEF ChainInv, HookTypeOK, Runs
  <2>. QED  BY <2>1, <2>3, <2>4, <2>5, <2>6 DEF ChainInv, InUse
<1>. QED  BY <1>5, <1>6

\* A socket's end hands its run over to a timer.
LEMMA ClosedStep ==
  ASSUME ChainInv, NEW s \in Sockets, InUse(s), Closed(s)
  PROVE  ChainInv'
<1>1. \A e \in Runs : timers'[e] = IF e = runOf[s] THEN timers[e] + 1 ELSE timers[e]
  BY DEF ChainInv, HookTypeOK, Closed, TimerSet, InUse
<1>2. HookTypeOK'
  <2>1. timers' \in [Runs -> Nat]
    BY <1>1 DEF ChainInv, HookTypeOK, Closed, TimerSet
  <2>. QED  BY <2>1 DEF ChainInv, HookTypeOK, Closed
<1>3. \A t \in Sockets : InUse(t)' <=> t # s /\ InUse(t)
  BY DEF ChainInv, HookTypeOK, Closed, InUse
<1>4. timers[runOf[s]] = 0 /\ runOf[s] \in Runs /\ runOf' = runOf /\ run' = run
  BY DEF ChainInv, HookTypeOK, OneChainPerRun, Closed, InUse
<1>5. OneChainPerRun'
  BY <1>1, <1>3, <1>4 DEF ChainInv, HookTypeOK, OneChainPerRun, InUse
<1>6. \A e \in Runs : e > run' => timers'[e] = 0
  BY <1>1, <1>4 DEF ChainInv, HookTypeOK, Runs, InUse
<1>7. wsRef' # NoSocket => InUse(wsRef)'
  BY <1>3 DEF ChainInv, HookTypeOK, Closed, InUse, NoSocket
<1>. QED  BY <1>2, <1>3, <1>4, <1>5, <1>6, <1>7 DEF ChainInv, InUse

\* A timer hands its run over to a socket.
LEMMA ReconnectStep ==
  ASSUME ChainInv, NEW e \in Runs, Reconnect(e)
  PROVE  ChainInv'
<1>1. timers[e] = 1 /\ run' = run /\ handler' = handler /\ isConnected' = isConnected
  BY DEF ChainInv, HookTypeOK, OneChainPerRun, Reconnect, Due, InUse
<1>2. timers' = [timers EXCEPT ![e] = 0]
  BY <1>1 DEF Reconnect, Elapsed
<1>3. PICK t \in Sockets : /\ socket[t] = "closed"
                           /\ socket' = [socket EXCEPT ![t] = "connecting"]
                           /\ runOf' = [runOf EXCEPT ![t] = e]
                           /\ wsRef' = t
  BY DEF Reconnect, Connect
<1>4. \A s \in Sockets : InUse(s)' <=> s = t \/ InUse(s)
  BY <1>3 DEF ChainInv, HookTypeOK, InUse
<1>5. \A s \in Sockets : runOf'[s] = IF s = t THEN e ELSE runOf[s]
  BY <1>3 DEF ChainInv, HookTypeOK, InUse
<1>6. \A s \in Sockets : InUse(s) => runOf[s] # e
  BY <1>1 DEF ChainInv, OneChainPerRun, InUse
<1>7. e <= run
  BY <1>1 DEF ChainInv, HookTypeOK, Runs, InUse
<1>8. HookTypeOK'
  BY <1>1, <1>2, <1>3 DEF ChainInv, HookTypeOK, InUse
<1>9. OneChainPerRun'
  BY <1>2, <1>4, <1>5, <1>6 DEF ChainInv, HookTypeOK, OneChainPerRun, InUse
<1>. QED
  BY <1>1, <1>2, <1>3, <1>4, <1>5, <1>7, <1>8, <1>9 DEF ChainInv, HookTypeOK, Runs, InUse

\* Init => IInv, and every step keeps it.
LEMMA ChainInit == HookInit => ChainInv
<1>1. SUFFICES ASSUME HookInit PROVE ChainInv
  OBVIOUS
<1>2. \A s \in Sockets : InUse(s) <=> s = 1
  BY <1>1 DEF HookInit, InUse
<1>. QED
  BY <1>1, <1>2, InitType, HookAssumption
  DEF HookInit, ChainInv, OneChainPerRun, Runs, Sockets, InUse, NoSocket

LEMMA ChainStep == ChainInv /\ [HookNext]_hookVars => ChainInv'
<1>. SUFFICES ASSUME ChainInv, [HookNext]_hookVars PROVE ChainInv'
  OBVIOUS
<1>1. CASE UNCHANGED hookVars
  BY <1>1 DEF hookVars, ChainInv, HookTypeOK, OneChainPerRun, InUse
<1>2. ASSUME NEW h \in Handlers, Rerun(h) PROVE ChainInv'
  BY <1>2, RerunStep
<1>3. ASSUME NEW s \in Sockets, Opened(s) PROVE ChainInv'
  <2>1. \A t \in Sockets : InUse(t)' <=> InUse(t)
    BY <1>3 DEF ChainInv, HookTypeOK, Opened, InUse
  <2>2. HookTypeOK'
    BY <1>3 DEF ChainInv, HookTypeOK, Opened, InUse
  <2>. QED
    BY <1>3, <2>1, <2>2 DEF ChainInv, HookTypeOK, OneChainPerRun, Opened, NoSocket, InUse
<1>4. ASSUME NEW s \in Sockets, Dropped(s) \/ ClosedByPage(s) PROVE ChainInv'
  <2>1. InUse(s) /\ Closed(s)
    BY <1>4 DEF Dropped, ClosedByPage, InUse
  <2>. QED  BY <2>1, ClosedStep
<1>5. ASSUME NEW e \in Runs, Reconnect(e) PROVE ChainInv'
  BY <1>5, ReconnectStep
<1>. QED  BY <1>1, <1>2, <1>3, <1>4, <1>5 DEF HookNext

\* However often the inputs change and the network fails, a run of the effect
\* keeps to one socket or one timer (the closures of useWebSocket's effect).
THEOREM ChainsStaySingle == HookSpec => []OneChainPerRun
<1>1. ChainInv => OneChainPerRun
  BY DEF ChainInv
<1>. QED  BY <1>1, ChainInit, ChainStep, PTL DEF HookSpec

\* Every variable of the hook keeps its type.
THEOREM HookTypeCorrect == HookSpec => []HookTypeOK
<1>1. ChainInv => HookTypeOK
  BY DEF ChainInv
<1>. QED  BY <1>1, ChainInit, ChainStep, PTL DEF HookSpec

-----------------------------------------------------------------------------
\* Every step leaves something under way unless the feed is off or connected.
LEMMA TryingStep ==
  HookTypeOK /\ HookTypeOK' /\ ConnectedOrTrying /\ [HookNext]_hookVars => ConnectedOrTrying'
<1>. SUFFICES ASSUME HookTypeOK, HookTypeOK', ConnectedOrTrying, [HookNext]_hookVars
              PROVE  ConnectedOrTrying'
  OBVIOUS
<1>c. ASSUME NEW e, NEW ready, Connect(e, ready), DOMAIN ready = Sockets PROVE ConnectedOrTrying'
  <2>1. PICK s \in Sockets : socket' = [ready EXCEPT ![s] = "connecting"]
    BY <1>c DEF Connect
  <2>2. s \in Sockets /\ socket'[s] = "connecting"
    BY <2>1 DEF HookTypeOK
  <2>. QED  BY <2>2 DEF ConnectedOrTrying
<1>1. CASE UNCHANGED hookVars
  BY <1>1 DEF hookVars, ConnectedOrTrying
<1>2. ASSUME NEW h \in Handlers, Rerun(h) PROVE ConnectedOrTrying'
  <2>1. handler'[run'] = h
    BY <1>2 DEF HookTypeOK, Rerun, Runs
  <2>2. CASE Enabled(h)
    <3>1. PICK ready \in {AfterClose, socket} : Connect(run + 1, ready)
      BY <1>2, <2>2 DEF Rerun
    <3>2. DOMAIN ready = Sockets
      BY DEF HookTypeOK, AfterClose
    <3>. QED  BY <1>c, <3>1, <3>2
  <2>3. CASE ~Enabled(h)
    BY <2>1, <2>3 DEF ConnectedOrTrying, Enabled
  <2>. QED  BY <2>2, <2>3
<1>3. ASSUME NEW s \in Sockets, Opened(s) PROVE ConnectedOrTrying'
  BY <1>3 DEF Opened, ConnectedOrTrying
<1>4. ASSUME NEW s \in Sockets, Closed(s) PROVE ConnectedOrTrying'
  <2>1. timers'[runOf[s]] > 0 /\ runOf[s] \in Runs
    BY <1>4 DEF HookTypeOK, Closed, TimerSet
  <2>. QED  BY <2>1 DEF ConnectedOrTrying
<1>5. ASSUME NEW e \in Runs, Reconnect(e) PROVE ConnectedOrTrying'
  <2>1. Connect(e, socket) /\ DOMAIN socket = Sockets
    BY <1>5 DEF Reconnect, HookTypeOK
  <2>. QED  BY <1>c, <2>1
<1>. QED  BY <1>1, <1>2, <1>3, <1>4, <1>5 DEF HookNext, Dropped, ClosedByPage

\* A dashboard whose feed is enabled and down is always about to try again
\* (ws.onclose sets a timer, whoever closed the socket).
THEOREM FeedKeepsTrying == HookSpec => []ConnectedOrTrying
<1>1. HookInit => ConnectedOrTrying
  BY HookAssumption DEF HookInit, ConnectedOrTrying, Sockets, Runs, Enabled, Live
<1>. QED  BY <1>1, HookTypeCorrect, TryingStep, PTL DEF HookSpec

-----------------------------------------------------------------------------
\* What a socket or a timer belongs to is enabled, and the feed is shown as
\* connected only while some socket is open, or is closing.
FeedInv ==
  /\ \A s \in Sockets : InUse(s) => Enabled(handler[runOf[s]])
  /\ \A e \in Runs : timers[e] > 0 => Enabled(handler[e])
  /\ isConnected => \E s \in Sockets : socket[s] \in {"open", "closing"}

LEMMA FeedInit == HookInit => FeedInv
BY HookAssumption DEF HookInit, FeedInv, Enabled, Live, Runs, Sockets, InUse

\* A connection opened by an enabled run keeps the invariant.
LEMMA ConnectKeepsFeed ==
  ASSUME ChainInv, FeedInv, NEW e \in Runs, Enabled(handler'[e]),
         NEW ready \in {AfterClose, socket}, Connect(e, ready),
         \A d \in Runs : d <= run => handler'[d] = handler[d],
         \A d \in Runs : timers'[d] \in Nat /\ timers'[d] <= timers[d],
         isConnected' = isConnected
  PROVE  FeedInv'
<1>1. PICK t \in Sockets : /\ ready[t] = "closed"
                           /\ socket' = [ready EXCEPT ![t] = "connecting"]
                           /\ runOf' = [runOf EXCEPT ![t] = e]
  BY DEF Connect
<1>2. /\ ready \in [Sockets -> {"connecting", "open", "closing", "closed"}]
      /\ \A s \in Sockets : ready[s] # "closed" <=> InUse(s)
  BY AfterCloseInUse DEF ChainInv, HookTypeOK, InUse
<1>3. \A s \in Sockets : runOf'[s] = IF s = t THEN e ELSE runOf[s]
  BY <1>1 DEF ChainInv, HookTypeOK
<1>4. ASSUME NEW s \in Sockets, InUse(s)' PROVE Enabled(handler'[runOf'[s]])
  <2>1. CASE s = t
    BY <2>1, <1>3
  <2>2. CASE s # t
    <3>1. InUse(s) /\ runOf[s] \in Runs /\ runOf[s] <= run /\ runOf'[s] = runOf[s]
      BY <1>1, <1>2, <1>3, <1>4, <2>2 DEF ChainInv, HookTypeOK, InUse
    <3>. QED  BY <3>1 DEF FeedInv
  <2>. QED  BY <2>1, <2>2
<1>5. ASSUME NEW d \in Runs, timers'[d] > 0 PROVE Enabled(handler'[d])
  <2>0. timers[d] \in Nat /\ timers'[d] \in Nat /\ timers'[d] <= timers[d] /\ d \in Nat /\ run \in Nat
    BY DEF ChainInv, HookTypeOK, Runs
  <2>1. timers[d] > 0 /\ d <= run
    BY <1>5, <2>0 DEF ChainInv
  <2>. QED  BY <2>1 DEF FeedInv
<1>6. isConnected' => \E s \in Sockets : socket'[s] \in {"open", "closing"}
  <2>. SUFFICES ASSUME isConnected PROVE \E s \in Sockets : socket'[s] \in {"open", "closing"}
    OBVIOUS
  <2>1. PICK s \in Sockets : socket[s] \in {"open", "closing"}
    BY DEF FeedInv
  <2>2. ready[s] \in {"open", "closing"}
    BY <2>1 DEF AfterClose, ChainInv, HookTypeOK
  <2>3. socket'[s] = ready[s]
    BY <2>2, <1>1, <1>2
  <2>. QED  BY <2>2, <2>3
<1>. QED  BY <1>4, <1>5, <1>6 DEF FeedInv, InUse

LEMMA FeedStep == ChainInv /\ FeedInv /\ [HookNext]_hookVars => FeedInv'
<1>. SUFFICES ASSUME ChainInv, FeedInv, [HookNext]_hookVars PROVE FeedInv'
  OBVIOUS
<1>t. HookTypeOK
  BY DEF ChainInv
<1>1. CASE UNCHANGED hookVars
  BY <1>1 DEF hookVars, FeedInv, InUse
<1>2. ASSUME NEW h \in Handlers, Rerun(h) PROVE FeedInv'
  <2>1. /\ run + 1 \in Runs /\ isConnected' = isConnected
        /\ handler' = [handler EXCEPT ![run + 1] = h]
    BY <1>2, <1>t, HookAssumption DEF Rerun, HookTypeOK, Runs
  <2>2. /\ handler'[run + 1] = h
        /\ \A d \in Runs : d <= run => handler'[d] = handler[d]
    BY <2>1, <1>t DEF HookTypeOK, Runs
  <2>3. \A d \in Runs : timers'[d] \in Nat /\ timers'[d] <= timers[d]
    BY <1>2, <1>t DEF Rerun, Cleared, HookTypeOK
  <2>4. CASE Enabled(h)
    <3>1. PICK ready \in {AfterClose, socket} : Connect(run + 1, ready)
      BY <1>2, <2>4 DEF Rerun
    <3>. QED  BY <2>1, <2>2, <2>3, <2>4, <3>1, ConnectKeepsFeed
  <2>5. CASE ~Enabled(h)
    <3>1. socket' = AfterClose /\ runOf' = runOf
      BY <1>2, <2>5 DEF Rerun
    <3>2. \A s \in Sockets : InUse(s)' <=> InUse(s)
      BY <3>1, AfterCloseInUse DEF InUse
    <3>3. ASSUME NEW s \in Sockets, InUse(s)' PROVE Enabled(handler'[runOf'[s]])
      <4>1. InUse(s) /\ runOf[s] \in Runs /\ runOf[s] <= run
        BY <3>2, <3>3, <1>t DEF ChainInv, HookTypeOK
      <4>. QED  BY <4>1, <3>1, <2>2 DEF FeedInv
    <3>4. ASSUME NEW d \in Runs, timers'[d] > 0 PROVE Enabled(handler'[d])
      <4>1. timers[d] > 0 /\ d <= run
        BY <3>4, <2>3, <1>t DEF ChainInv, HookTypeOK, Runs
      <4>. QED  BY <4>1, <2>2 DEF FeedInv
    <3>5. \A s \in Sockets : socket[s] \in {"open", "closing"} => socket'[s] \in {"open", "closing"}
      BY <3>1, <1>t DEF AfterClose, HookTypeOK
    <3>. QED  BY <2>1, <3>3, <3>4, <3>5 DEF FeedInv, InUse
  <2>. QED  BY <2>4, <2>5
<1>3. ASSUME NEW s \in Sockets, Opened(s) PROVE FeedInv'
  BY <1>3, <1>t DEF Opened, FeedInv, HookTypeOK, InUse
<1>4. ASSUME NEW s \in Sockets, Dropped(s) \/ ClosedByPage(s) PROVE FeedInv'
  <2>1. InUse(s) /\ Closed(s)
    BY <1>4 DEF Dropped, ClosedByPage, InUse
  <2>2. /\ handler' = handler /\ runOf' = runOf /\ isConnected' = FALSE
        /\ \A t \in Sockets : InUse(t)' => InUse(t)
    BY <2>1, <1>t DEF Closed, HookTypeOK, InUse
  <2>3. \A d \in Runs : timers'[d] = timers[d] \/ d = runOf[s]
    BY <2>1, <1>t DEF Closed, TimerSet, HookTypeOK
  <2>. QED  BY <2>1, <2>2, <2>3 DEF FeedInv
<1>5. ASSUME NEW e \in Runs, Reconnect(e) PROVE FeedInv'
  <2>1. Enabled(handler[e]) /\ handler' = handler /\ isConnected' = isConnected
    BY <1>5 DEF Reconnect, Due, FeedInv
  <2>2. \A d \in Runs : timers'[d] \in Nat /\ timers'[d] <= timers[d]
    BY <1>5, <1>t DEF Reconnect, Due, Elapsed, HookTypeOK
  <2>3. Connect(e, socket)
    BY <1>5 DEF Reconnect
  <2>. QED  BY <2>1, <2>2, <2>3, ConnectKeepsFeed
<1>. QED  BY <1>1, <1>2, <1>3, <1>4, <1>5 DEF HookNext

\* An open socket stays open until the page closes it, and a closing one is
\* closing until its close event, unless the feed is shown as down.
LEMMA SocketsLast ==
  ASSUME ChainInv, [HookNext]_hookVars, isConnected', NEW s \in Sockets
  PROVE  /\ socket[s] = "closing" => socket'[s] = "closing"
         /\ socket[s] = "open" => socket'[s] \in {"open", "closing"}
<1>t. HookTypeOK
  BY DEF ChainInv
<1>0. /\ socket[s] = "closing" => AfterClose[s] = "closing"
      /\ socket[s] = "open" => AfterClose[s] \in {"open", "closing"}
  BY <1>t DEF AfterClose, HookTypeOK
<1>1. ASSUME NEW e, NEW ready \in {AfterClose, socket}, Connect(e, ready)
      PROVE  ready[s] # "closed" => socket'[s] = ready[s]
  BY <1>1, <1>t DEF Connect, AfterClose, HookTypeOK
<1>2. CASE UNCHANGED hookVars
  BY <1>2 DEF hookVars
<1>3. ASSUME NEW h \in Handlers, Rerun(h)
      PROVE  \E ready \in {AfterClose, socket} : ready[s] # "closed" => socket'[s] = ready[s]
  BY <1>3, <1>1 DEF Rerun
<1>4. ASSUME NEW t \in Sockets, Opened(t) PROVE socket[s] # "connecting" => socket'[s] = socket[s]
  BY <1>4, <1>t DEF Opened, HookTypeOK
<1>5. ASSUME NEW e \in Runs, Reconnect(e) PROVE socket[s] # "closed" => socket'[s] = socket[s]
  BY <1>5, <1>1 DEF Reconnect
<1>. QED  BY <1>0, <1>2, <1>3, <1>4, <1>5 DEF HookNext, Dropped, ClosedByPage, Closed

=============================================================================
