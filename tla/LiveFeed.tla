------------------------------- MODULE LiveFeed -------------------------------
(***************************************************************************)
(* The delivery of events to the dashboards (services/ws_manager.py, the   *)
(* lifespan of main.py and routers/ws.py).  Each worker process publishes  *)
(* to one Redis channel; a worker that subscribed to it when it started    *)
(* relays what it hears to its own clients.  Where publishing raises, or   *)
(* no listener runs, a worker tells its own clients itself.                *)
(***************************************************************************)
EXTENDS Naturals, Sequences, FiniteSets

CONSTANTS
  Workers, Clients,
  Messages,     \* what is published, each once
  NoWorker, Gone, NoMessage

ASSUME FeedAssumption ==
  /\ Workers \intersect Messages = {}
  /\ NoMessage \notin Messages
  /\ NoWorker \notin Workers /\ Gone \notin Workers \union {NoWorker}

VARIABLES
  listener,     \* per worker: "none" (Redis did not answer at start), "up" or "done"
  channel,      \* per worker: what Redis holds for its listener
  home,         \* the worker each client is connected to; one that leaves is Gone
  received,     \* what each client has been sent, in order
  publication,  \* per message: its publisher and how far it has got
  relay,        \* the broadcasts under way: of the listeners and of the publishers
  owed,         \* history: the clients each message must reach
  disturbed     \* history: the messages whose relay a failure fell into

feedVars == <<listener, channel, home, received, publication, relay, owed, disturbed>>

Senders == Workers \union Messages
NoRelay == [message |-> NoMessage, left |-> {}]
Unpublished == [at |-> NoWorker, state |-> "new"]
Done(how) == [at |-> NoWorker, state |-> how]

FeedInit ==
  /\ listener \in [Workers -> {"none", "up"}]
  /\ channel = [w \in Workers |-> <<>>]
  /\ home = [c \in Clients |-> NoWorker]
  /\ received = [c \in Clients |-> <<>>]
  /\ publication = [m \in Messages |-> Unpublished]
  /\ relay = [s \in Senders |-> NoRelay]
  /\ owed = [m \in Messages |-> {}] /\ disturbed = {}

IsUp(w) == listener[w] = "up"
ClientsOf(w) == {c \in Clients : home[c] = w}

Connect(c, w) ==
  /\ home[c] = NoWorker
  /\ home' = [home EXCEPT ![c] = w]
  /\ UNCHANGED <<listener, channel, received, publication, relay, owed, disturbed>>

Disconnect(c) ==
  /\ home[c] \in Workers
  /\ home' = [home EXCEPT ![c] = Gone]
  /\ UNCHANGED <<listener, channel, received, publication, relay, owed, disturbed>>

\* publish(): Redis hands the message to every listener.
Accepted(m, w) ==
  /\ publication[m].state = "new"
  /\ publication' = [publication EXCEPT ![m] = [at |-> w, state |-> "accepted"]]
  /\ channel' = [v \in Workers |-> IF IsUp(v) THEN Append(channel[v], m) ELSE channel[v]]
  /\ owed' = [owed EXCEPT ![m] = UNION {ClientsOf(v) : v \in {w} \union {u \in Workers : IsUp(u)}}]
  /\ UNCHANGED <<listener, home, received, relay, disturbed>>

(* (Mutant: only a publish that raised falls back.) *)
IfRaised(w, raised) == raised
(* (Mutant: the publisher's own clients are always told directly.) *)
Always(w, raised) == TRUE
FallsBack(w, raised) == raised \/ ~IsUp(w)

Relay(s, m, cs) == [relay EXCEPT ![s] = IF cs = {} THEN NoRelay ELSE [message |-> m, left |-> cs]]

\* The publisher has Redis' answer, or an exception although Redis may have
\* accepted the message.
PublishReturns(m, raised) ==
  LET w == publication[m].at IN
  /\ publication[m].state = "accepted"
  /\ publication' = [publication EXCEPT ![m] = Done(IF raised \/ ~IsUp(w) THEN "told" ELSE "relayed")]
  /\ relay' = IF FallsBack(w, raised) THEN Relay(m, m, ClientsOf(w)) ELSE relay
  /\ disturbed' = IF raised THEN disturbed \union {m} ELSE disturbed
  /\ UNCHANGED <<listener, channel, home, received, owed>>

\* Redis never gets it: the publisher's own clients are told.
PublishFails(m, w) ==
  /\ publication[m].state = "new"
  /\ publication' = [publication EXCEPT ![m] = Done("told")]
  /\ relay' = IF FallsBack(w, TRUE) THEN Relay(m, m, ClientsOf(w)) ELSE relay
  /\ owed' = [owed EXCEPT ![m] = ClientsOf(w)]
  /\ UNCHANGED <<listener, channel, home, received, disturbed>>

\* The listener takes one message at a time, for the clients it has then.
Listen(w) ==
  /\ IsUp(w) /\ relay[w] = NoRelay /\ channel[w] # <<>>
  /\ channel' = [channel EXCEPT ![w] = Tail(@)]
  /\ relay' = Relay(w, Head(channel[w]), ClientsOf(w))
  /\ UNCHANGED <<listener, home, received, publication, owed, disturbed>>

\* One send of a broadcast; the next one waits for it.  Sending to a client
\* that has gone fails, and that is all.
Send(s, c) ==
  /\ c \in relay[s].left
  /\ relay' = Relay(s, relay[s].message, relay[s].left \ {c})
  /\ received' = IF home[c] = Gone THEN received
                 ELSE [received EXCEPT ![c] = Append(@, relay[s].message)]
  /\ UNCHANGED <<listener, channel, home, publication, owed, disturbed>>

\* The subscription breaks.  Nothing starts the listener again, and what Redis
\* held for it is lost; whether the answers that are still to come find it
\* running is chance.
ListenerDies(w) ==
  /\ IsUp(w) /\ relay[w] = NoRelay
  /\ listener' = [listener EXCEPT ![w] = "done"]
  /\ channel' = [channel EXCEPT ![w] = <<>>]
  /\ disturbed' = disturbed
       \union {channel[w][i] : i \in DOMAIN channel[w]}
       \union {m \in Messages : publication[m] = [at |-> w, state |-> "accepted"]}
  /\ UNCHANGED <<home, received, publication, relay, owed>>

FeedNext ==
  \/ \E c \in Clients : Disconnect(c) \/ \E w \in Workers : Connect(c, w)
  \/ \E m \in Messages :
       \/ \E w \in Workers : Accepted(m, w) \/ PublishFails(m, w)
       \/ \E raised \in BOOLEAN : PublishReturns(m, raised)
  \/ \E w \in Workers : Listen(w) \/ ListenerDies(w)
  \/ \E s \in Senders, c \in Clients : Send(s, c)

FeedSpec == FeedInit /\ [][FeedNext]_feedVars

-----------------------------------------------------------------------------

Times(c, m) == Cardinality({i \in DOMAIN received[c] : received[c][i] = m})

IsDelivered(m) ==
  /\ publication[m].state \in {"told", "relayed"}
  /\ \A w \in Workers : \A i \in DOMAIN channel[w] : channel[w][i] # m
  /\ \A s \in Senders : relay[s].message # m

\* The Redis channel and the fallback complement one another: once a message is
\* through, whoever was connected to its publisher, or to a worker that listens,
\* has it once, unless the publish or the listener failed half-way; then a
\* client may have it twice or not at all.  Nobody else has it twice.
DeliveredOnce ==
  \A m \in Messages \ disturbed, c \in Clients :
    /\ Times(c, m) <= 1
    /\ IsDelivered(m) /\ c \in owed[m] /\ home[c] # Gone => Times(c, m) = 1

ComesBefore(c, m, n) ==
  \E i, j \in DOMAIN received[c] : received[c][i] = m /\ received[c][j] = n /\ i < j

\* Messages that go through Redis reach all clients in one order, whichever
\* worker they are connected to and however slow some of them are; only the
\* fallback's broadcasts overtake one another.
RelayedInOneOrder ==
  \A m, n \in {x \in Messages \ disturbed : publication[x].state \in {"accepted", "relayed"}} :
    \A c, d \in Clients : ~(ComesBefore(c, m, n) /\ ComesBefore(d, n, m))

=============================================================================
