----------------------------- MODULE ServicesProofs -----------------------------
(***************************************************************************)
(* Theorems about the three services of MCServices: LiveFeed, for any      *)
(* workers, clients and messages; ModelRegistry, for any finite set of     *)
(* models and threads and any MAX_RESIDENT_MODELS; RateLimiter, for any    *)
(* limit and any requests.                                                 *)
(***************************************************************************)
EXTENDS MCServices, FiniteSetTheorems, TLAPS

-----------------------------------------------------------------------------
(* Sequences of messages                                                    *)

Occurs(x, seq) == \E i \in DOMAIN seq : seq[i] = x
Follows(x, y, seq) == \E i, j \in DOMAIN seq : seq[i] = x /\ seq[j] = y /\ i < j
AtMostOnce(x, seq) == \A i, j \in DOMAIN seq : seq[i] = x /\ seq[j] = x => i = j

LEMMA EmptyFacts ==
  ASSUME NEW x, NEW y
  PROVE  ~Occurs(x, <<>>) /\ ~Follows(x, y, <<>>) /\ AtMostOnce(x, <<>>)
BY DEF Occurs, Follows, AtMostOnce

LEMMA AppendFacts ==
  ASSUME NEW seq \in Seq(Messages), NEW x \in Messages
  PROVE  /\ Append(seq, x) \in Seq(Messages)
         /\ \A y : Occurs(y, Append(seq, x)) <=> Occurs(y, seq) \/ y = x
         /\ \A y, z : Follows(y, z, Append(seq, x)) <=> Follows(y, z, seq) \/ (z = x /\ Occurs(y, seq))
         /\ \A y : AtMostOnce(y, seq) /\ (y = x => ~Occurs(y, seq)) => AtMostOnce(y, Append(seq, x))
<1> DEFINE new == Append(seq, x)
<1>1. /\ new \in Seq(Messages) /\ Len(seq) \in Nat /\ DOMAIN seq = 1 .. Len(seq)
      /\ DOMAIN new = 1 .. (Len(seq) + 1)
      /\ new[Len(seq) + 1] = x /\ \A i \in 1 .. Len(seq) : new[i] = seq[i]
  OBVIOUS
<1> HIDE DEF new
<1>2. \A y : Occurs(y, new) <=> Occurs(y, seq) \/ y = x
  BY <1>1 DEF Occurs
<1>3. ASSUME NEW y, NEW z
      PROVE  Follows(y, z, new) <=> Follows(y, z, seq) \/ (z = x /\ Occurs(y, seq))
  <2>1. ASSUME Follows(y, z, new) PROVE Follows(y, z, seq) \/ (z = x /\ Occurs(y, seq))
    <3>1. PICK i, j \in DOMAIN new : new[i] = y /\ new[j] = z /\ i < j
      BY <2>1 DEF Follows
    <3>2. CASE j = Len(seq) + 1
      BY <3>1, <3>2, <1>1 DEF Occurs
    <3>3. CASE j # Len(seq) + 1
      BY <3>1, <3>3, <1>1 DEF Follows
    <3> QED BY <3>2, <3>3
  <2>2. ASSUME Follows(y, z, seq) PROVE Follows(y, z, new)
    BY <2>2, <1>1 DEF Follows
  <2>3. ASSUME z = x, Occurs(y, seq) PROVE Follows(y, z, new)
    <3>1. PICK i \in DOMAIN seq : seq[i] = y
      BY <2>3 DEF Occurs
    <3>2. i \in DOMAIN new /\ Len(seq) + 1 \in DOMAIN new /\ new[i] = y /\ new[Len(seq) + 1] = z
          /\ i < Len(seq) + 1
      BY <3>1, <2>3, <1>1
    <3> QED BY <3>2 DEF Follows
  <2> QED BY <2>1, <2>2, <2>3
<1>4. ASSUME NEW y, AtMostOnce(y, seq), y = x => ~Occurs(y, seq)
      PROVE  AtMostOnce(y, new)
  <2> SUFFICES ASSUME NEW i \in DOMAIN new, NEW j \in DOMAIN new, new[i] = y, new[j] = y
               PROVE  i = j
    BY DEF AtMostOnce
  <2>1. CASE y = x
    <3>1. \A k \in 1 .. Len(seq) : new[k] # y
      BY <1>1, <1>4, <2>1 DEF Occurs
    <3> QED BY <3>1, <1>1
  <2>2. CASE y # x
    <3>1. i # Len(seq) + 1 /\ j # Len(seq) + 1
      BY <1>1, <2>2
    <3> QED BY <3>1, <1>1, <1>4 DEF AtMostOnce
  <2> QED BY <2>1, <2>2
<1> QED BY <1>1, <1>2, <1>3, <1>4 DEF new

LEMMA TailFacts ==
  ASSUME NEW seq \in Seq(Messages), seq # <<>>
  PROVE  /\ Tail(seq) \in Seq(Messages) /\ Head(seq) \in Messages
         /\ \A y : Occurs(y, seq) <=> Occurs(y, Tail(seq)) \/ y = Head(seq)
         /\ \A y, z : Follows(y, z, Tail(seq)) => Follows(y, z, seq)
         /\ \A z : Occurs(z, Tail(seq)) => Follows(Head(seq), z, seq)
         /\ \A y : AtMostOnce(y, seq) => AtMostOnce(y, Tail(seq))
         /\ AtMostOnce(Head(seq), seq) => ~Occurs(Head(seq), Tail(seq))
<1> DEFINE new == Tail(seq)
           h == Head(seq)
<1>1. /\ new \in Seq(Messages) /\ Len(seq) \in Nat \ {0} /\ DOMAIN seq = 1 .. Len(seq)
      /\ DOMAIN new = 1 .. (Len(seq) - 1) /\ h = seq[1] /\ h \in Messages
      /\ \A i \in 1 .. (Len(seq) - 1) : new[i] = seq[i + 1]
  OBVIOUS
<1>2. \A i \in DOMAIN new : i + 1 \in DOMAIN seq /\ new[i] = seq[i + 1] /\ i + 1 # 1
  BY <1>1
<1>3. \A i \in DOMAIN seq \ {1} : i - 1 \in DOMAIN new /\ new[i - 1] = seq[i]
  BY <1>1
<1> HIDE DEF new, h
<1>4. ASSUME NEW y PROVE Occurs(y, seq) <=> Occurs(y, new) \/ y = h
  <2>1. ASSUME NEW i \in DOMAIN seq, seq[i] = y PROVE Occurs(y, new) \/ y = h
    <3>1. CASE i = 1
      BY <3>1, <2>1, <1>1
    <3>2. CASE i # 1
      BY <3>2, <2>1, <1>3 DEF Occurs
    <3> QED BY <3>1, <3>2
  <2>2. Occurs(y, new) => Occurs(y, seq)
    BY <1>2 DEF Occurs
  <2>3. y = h => Occurs(y, seq)
    BY <1>1 DEF Occurs
  <2> QED BY <2>1, <2>2, <2>3 DEF Occurs
<1>5. ASSUME NEW y, NEW z, Follows(y, z, new) PROVE Follows(y, z, seq)
  <2>1. PICK i, j \in DOMAIN new : new[i] = y /\ new[j] = z /\ i < j
    BY <1>5 DEF Follows
  <2>2. i + 1 \in DOMAIN seq /\ j + 1 \in DOMAIN seq /\ seq[i + 1] = y /\ seq[j + 1] = z
        /\ i + 1 < j + 1
    BY <2>1, <1>1, <1>2
  <2> QED BY <2>2 DEF Follows
<1>6. ASSUME NEW z, Occurs(z, new) PROVE Follows(h, z, seq)
  <2>1. PICK i \in DOMAIN new : new[i] = z
    BY <1>6 DEF Occurs
  <2>2. 1 \in DOMAIN seq /\ i + 1 \in DOMAIN seq /\ seq[1] = h /\ seq[i + 1] = z /\ 1 < i + 1
    BY <2>1, <1>1, <1>2
  <2> QED BY <2>2 DEF Follows
<1>7. ASSUME NEW y, AtMostOnce(y, seq) PROVE AtMostOnce(y, new)
  <2> SUFFICES ASSUME NEW i \in DOMAIN new, NEW j \in DOMAIN new, new[i] = y, new[j] = y
               PROVE  i = j
    BY DEF AtMostOnce
  <2>1. i + 1 = j + 1
    BY <1>2, <1>7 DEF AtMostOnce
  <2> QED BY <2>1, <1>1
<1>8. AtMostOnce(h, seq) => ~Occurs(h, new)
  <2> SUFFICES ASSUME AtMostOnce(h, seq), NEW i \in DOMAIN new, new[i] = h PROVE FALSE
    BY DEF Occurs
  <2>1. 1 \in DOMAIN seq /\ i + 1 \in DOMAIN seq /\ seq[1] = h /\ seq[i + 1] = h /\ i + 1 # 1
    BY <1>1, <1>2
  <2> QED BY <2>1 DEF AtMostOnce
<1> QED BY <1>1, <1>4, <1>5, <1>6, <1>7, <1>8 DEF new, h

-----------------------------------------------------------------------------
(* The invariant                                                            *)

PublicationSet ==
  [at : Workers \union {NoWorker}, state : {"new", "accepted", "told", "relayed"}]

RelayTypes ==
  /\ relay \in [Senders -> [message : Messages \union {NoMessage}, left : SUBSET Clients]]
  /\ \A s \in Senders : relay[s].left # {} => relay[s].message # NoMessage

FeedTypes ==
  /\ listener \in [Workers -> {"none", "up", "done"}]
  /\ channel \in [Workers -> Seq(Messages)]
  /\ home \in [Clients -> Workers \union {NoWorker, Gone}]
  /\ received \in [Clients -> Seq(Messages)]
  /\ publication \in [Messages -> PublicationSet]
  /\ RelayTypes
  /\ owed \in [Messages -> SUBSET Clients]
  /\ disturbed \in SUBSET Messages

State(m) == publication[m].state

\* The publisher of m, at v, is about to tell its own clients.
Falls(m, v) == publication[m].at = v /\ State(m) = "accepted" /\ ~IsUp(v)

\* s is about to send m to c.
Sends(s, c, m) == relay[s].message = m /\ c \in relay[s].left

\* What a worker's listener has ahead of it holds each message once, and never
\* one that it relays already or whose publisher falls back at this worker.
WorkerInv(v) ==
  /\ IsUp(v) \/ channel[v] = <<>>
  /\ \A m \in Messages :
       /\ AtMostOnce(m, channel[v])
       /\ relay[v].message = m => ~Occurs(m, channel[v])
       /\ m \notin disturbed /\ Falls(m, v) => ~Occurs(m, channel[v]) /\ relay[v].message # m

\* A publisher broadcasts its own message only, when it falls back; a message
\* that is not published yet is nowhere.
MessageInv(m) ==
  /\ relay[m].message \in {m, NoMessage}
  /\ relay[m].message = m => State(m) = "told"
  /\ State(m) = "accepted" => publication[m].at \in Workers
  /\ State(m) = "new" =>
       /\ \A v \in Workers : ~Occurs(m, channel[v])
       /\ \A s \in Senders : relay[s].message # m
       /\ \A c \in Clients : ~Occurs(m, received[c])
       /\ owed[m] = {}

\* Only the worker a client is connected to relays to it.
ClientInv(c) ==
  /\ home[c] = NoWorker => received[c] = <<>> /\ \A s \in Senders : c \notin relay[s].left
  /\ \A v \in Workers : c \in relay[v].left /\ home[c] # Gone => home[c] = v

\* The ways on which m can still reach c, connected to v, exclude one another,
\* and each of them that it has already; and whom it is owed has it or is on one.
OneWay(m, c, v) ==
  /\ Occurs(m, received[c]) =>
       ~Occurs(m, channel[v]) /\ ~Sends(v, c, m) /\ ~Sends(m, c, m) /\ ~Falls(m, v)
  /\ Sends(m, c, m) => ~Occurs(m, channel[v]) /\ ~Sends(v, c, m) /\ ~Falls(m, v)
SomeWay(m, c, v) ==
  \/ Occurs(m, received[c]) \/ Occurs(m, channel[v])
  \/ Sends(v, c, m) \/ Sends(m, c, m) \/ Falls(m, v)

OnceInv(m, c) ==
  /\ AtMostOnce(m, received[c])
  /\ \A v \in Workers : home[c] = v => OneWay(m, c, v)
  /\ State(m) # "new" /\ c \in owed[m] /\ home[c] # Gone =>
       \E v \in Workers : home[c] = v /\ SomeWay(m, c, v)

FeedInv ==
  /\ \A v \in Workers : WorkerInv(v)
  /\ \A m \in Messages : MessageInv(m)
  /\ \A c \in Clients : ClientInv(c)
  /\ \A m \in Messages \ disturbed, c \in Clients : OnceInv(m, c)

\* The messages that go through Redis undisturbed, and what tells their order:
\* a client or a listener's channel has one behind the other, or one is behind
\* in the channel, or in the broadcast, of a worker that has passed the other on.
ThroughRedis == {m \in Messages \ disturbed : State(m) \in {"accepted", "relayed"}}

Ahead(m, n, v) ==
  Follows(m, n, channel[v]) \/ (relay[v].message = m /\ Occurs(n, channel[v]))
HasAhead(m, n, c) ==
  \/ Follows(m, n, received[c])
  \/ /\ Occurs(m, received[c])
     /\ \E v \in Workers : home[c] = v /\ (Occurs(n, channel[v]) \/ Sends(v, c, n))
Precedes(m, n) == (\E v \in Workers : Ahead(m, n, v)) \/ \E c \in Clients : HasAhead(m, n, c)

OrderInv == \A m, n \in ThroughRedis : m # n => ~(Precedes(m, n) /\ Precedes(n, m))

-----------------------------------------------------------------------------
(* Types                                                                    *)

LEMMA FeedInitTypes == FeedInit => FeedTypes
<1>. SUFFICES ASSUME FeedInit PROVE FeedTypes
  OBVIOUS
<1>1. Unpublished \in PublicationSet
  BY DEF Unpublished, PublicationSet
<1>2. NoRelay \in [message : Messages \union {NoMessage}, left : SUBSET Clients]
  BY DEF NoRelay
<1>3. publication \in [Messages -> PublicationSet]
  BY <1>1 DEF FeedInit
<1>4. RelayTypes
  BY <1>2 DEF FeedInit, RelayTypes, NoRelay
<1>5. listener \in [Workers -> {"none", "up", "done"}]
  BY DEF FeedInit
<1> QED BY <1>3, <1>4, <1>5 DEF FeedInit, FeedTypes

LEMMA RelaySets ==
  ASSUME FeedTypes, NEW s \in Senders, NEW m \in Messages, NEW cs \in SUBSET Clients,
         relay' = Relay(s, m, cs)
  PROVE  /\ RelayTypes'
         /\ relay'[s].left = cs
         /\ relay'[s].message = IF cs = {} THEN NoMessage ELSE m
         /\ \A t \in Senders : t # s => relay'[t] = relay[t]
<1> DEFINE new == IF cs = {} THEN NoRelay ELSE [message |-> m, left |-> cs]
<1>1. /\ new \in [message : Messages \union {NoMessage}, left : SUBSET Clients]
      /\ new.left = cs /\ new.message = IF cs = {} THEN NoMessage ELSE m
  BY DEF NoRelay
<1>2. relay' = [relay EXCEPT ![s] = new]
  BY DEF Relay
<1> HIDE DEF new
<1>3. /\ relay' \in [Senders -> [message : Messages \union {NoMessage}, left : SUBSET Clients]]
      /\ relay'[s] = new /\ \A t \in Senders : t # s => relay'[t] = relay[t]
  BY <1>1, <1>2 DEF FeedTypes, RelayTypes
<1>4. RelayTypes'
  BY <1>1, <1>3, FeedAssumption DEF FeedTypes, RelayTypes
<1> QED BY <1>1, <1>3, <1>4

LEMMA FeedTypeStep == FeedTypes /\ [FeedNext]_feedVars => FeedTypes'
<1>. SUFFICES ASSUME FeedTypes, [FeedNext]_feedVars PROVE FeedTypes'
  OBVIOUS
<1>s. Workers \subseteq Senders /\ Messages \subseteq Senders
  BY DEF Senders
<1>w. \A w : ClientsOf(w) \in SUBSET Clients
  BY DEF ClientsOf
<1>0. CASE UNCHANGED feedVars
  BY <1>0 DEF feedVars, FeedTypes, RelayTypes
<1>1. ASSUME NEW c \in Clients, NEW w \in Workers, Connect(c, w) PROVE FeedTypes'
  BY <1>1 DEF Connect, FeedTypes, RelayTypes
<1>2. ASSUME NEW c \in Clients, Disconnect(c) PROVE FeedTypes'
  BY <1>2 DEF Disconnect, FeedTypes, RelayTypes
<1>3. ASSUME NEW m \in Messages, NEW w \in Workers, Accepted(m, w) PROVE FeedTypes'
  <2>1. [at |-> w, state |-> "accepted"] \in PublicationSet
    BY DEF PublicationSet
  <2>2. publication' \in [Messages -> PublicationSet]
    BY <1>3, <2>1 DEF Accepted, FeedTypes, RelayTypes
  <2>3. channel' \in [Workers -> Seq(Messages)]
    BY <1>3 DEF Accepted, FeedTypes, RelayTypes
  <2>4. owed' \in [Messages -> SUBSET Clients]
    <3>1. UNION {ClientsOf(v) : v \in {w} \union {u \in Workers : IsUp(u)}} \in SUBSET Clients
      BY <1>w
    <3> QED BY <1>3, <3>1 DEF Accepted, FeedTypes, RelayTypes
  <2> QED BY <1>3, <2>2, <2>3, <2>4 DEF Accepted, FeedTypes, RelayTypes
<1>4. ASSUME NEW m \in Messages, NEW w \in Workers, PublishFails(m, w) PROVE FeedTypes'
  <2>1. Done("told") \in PublicationSet
    BY DEF Done, PublicationSet
  <2>2. publication' \in [Messages -> PublicationSet]
    BY <1>4, <2>1 DEF PublishFails, FeedTypes
  <2>3. relay' = Relay(m, m, ClientsOf(w))
    BY <1>4 DEF PublishFails, FallsBack
  <2>4. RelayTypes'
    BY <2>3, <1>s, <1>w, RelaySets
  <2> QED BY <1>4, <2>2, <2>4, <1>w DEF PublishFails, FeedTypes
<1>5. ASSUME NEW m \in Messages, NEW raised \in BOOLEAN, PublishReturns(m, raised) PROVE FeedTypes'
  <2> DEFINE w == publication[m].at
  <2>1. \A h \in {"told", "relayed"} :
          Done(h) \in PublicationSet
    BY DEF Done, PublicationSet
  <2>2. PICK h \in {"told", "relayed"} : publication' = [publication EXCEPT ![m] = Done(h)]
    BY <1>5 DEF PublishReturns
  <2>3. publication' \in [Messages -> PublicationSet]
    BY <2>1, <2>2 DEF FeedTypes
  <2>4. relay' = Relay(m, m, ClientsOf(w)) \/ relay' = relay
    BY <1>5 DEF PublishReturns
  <2>5. RelayTypes'
    <3>1. CASE relay' = relay
      BY <3>1 DEF FeedTypes, RelayTypes
    <3>2. CASE relay' = Relay(m, m, ClientsOf(w))
      BY <3>2, <1>s, <1>w, RelaySets
    <3> QED BY <2>4, <3>1, <3>2
  <2>6. disturbed' \in SUBSET Messages
    BY <1>5 DEF PublishReturns, FeedTypes
  <2> QED BY <1>5, <2>3, <2>5, <2>6 DEF PublishReturns, FeedTypes
<1>6. ASSUME NEW w \in Workers, Listen(w) PROVE FeedTypes'
  <2>1. Tail(channel[w]) \in Seq(Messages) /\ Head(channel[w]) \in Messages
    BY <1>6, TailFacts DEF Listen, FeedTypes
  <2>2. RelayTypes'
    BY <1>6, <2>1, <1>s, <1>w, RelaySets DEF Listen
  <2> QED BY <1>6, <2>1, <2>2 DEF Listen, FeedTypes
<1>7. ASSUME NEW w \in Workers, ListenerDies(w) PROVE FeedTypes'
  <2>1. {channel[w][i] : i \in DOMAIN channel[w]} \in SUBSET Messages
    BY DEF FeedTypes
  <2>2. disturbed' \in SUBSET Messages
    BY <1>7, <2>1 DEF ListenerDies, FeedTypes, RelayTypes
  <2> QED BY <1>7, <2>2 DEF ListenerDies, FeedTypes, RelayTypes
<1>8. ASSUME NEW s \in Senders, NEW c \in Clients, Send(s, c) PROVE FeedTypes'
  <2>1. relay[s].left \ {c} \in SUBSET Clients /\ relay[s].message \in Messages
    BY <1>8 DEF Send, FeedTypes, RelayTypes
  <2>2. RelayTypes'
    BY <1>8, <2>1, RelaySets DEF Send
  <2>3. received' \in [Clients -> Seq(Messages)]
    <3>1. CASE home[c] = Gone
      BY <1>8, <3>1 DEF Send, FeedTypes
    <3>2. CASE home[c] # Gone
      <4>1. Append(received[c], relay[s].message) \in Seq(Messages)
        BY <2>1, AppendFacts DEF FeedTypes
      <4> QED BY <1>8, <3>2, <4>1 DEF Send, FeedTypes
    <3> QED BY <3>1, <3>2
  <2> QED BY <1>8, <2>2, <2>3 DEF Send, FeedTypes
<1> QED BY <1>0, <1>1, <1>2, <1>3, <1>4, <1>5, <1>6, <1>7, <1>8 DEF FeedNext

-----------------------------------------------------------------------------
(* Every operation keeps the invariant, and the order                       *)

LEMMA OrderKept ==
  ASSUME OrderInv, ThroughRedis' \subseteq ThroughRedis,
         \A m, n \in ThroughRedis' : m # n /\ Precedes(m, n)' => Precedes(m, n)
  PROVE  OrderInv'
BY DEF OrderInv

LEMMA ConnectKeeps ==
  ASSUME FeedTypes, FeedInv, OrderInv, NEW c \in Clients, NEW w \in Workers, Connect(c, w)
  PROVE  FeedInv' /\ OrderInv'
<1>1. /\ home[c] = NoWorker /\ home'[c] = w /\ \A d \in Clients : d # c => home'[d] = home[d]
      /\ UNCHANGED <<listener, channel, received, publication, relay, owed, disturbed>>
  BY DEF Connect, FeedTypes
<1>2. received[c] = <<>> /\ \A s \in Senders : c \notin relay[s].left
  BY <1>1 DEF FeedInv, ClientInv
<1>3. \A m : ~Occurs(m, received[c]) /\ \A n : ~Follows(m, n, received[c])
  BY <1>2, EmptyFacts
<1>4. \A v \in Workers : WorkerInv(v)'
  BY <1>1 DEF FeedInv, WorkerInv, Falls, State, IsUp
<1>5. \A m \in Messages : MessageInv(m)'
  BY <1>1 DEF FeedInv, MessageInv, State
<1>6. \A d \in Clients : ClientInv(d)'
  BY <1>1, <1>2, FeedAssumption DEF FeedInv, ClientInv, Senders
<1>7. ASSUME NEW m \in Messages \ disturbed, NEW d \in Clients PROVE OnceInv(m, d)'
  <2>0. OnceInv(m, d)
    BY <1>7 DEF FeedInv
  <2>1. CASE d # c
    BY <2>0, <2>1, <1>1 DEF OnceInv, OneWay, SomeWay, Sends, Falls, State, IsUp
  <2>2. CASE d = c
    <3>1. State(m) # "new" => c \notin owed[m]
      BY <2>0, <2>2, <1>1, FeedAssumption DEF OnceInv
    <3>2. \A s \in Senders : ~Sends(s, c, m)
      BY <1>2 DEF Sends
    <3> QED BY <2>0, <2>2, <3>1, <3>2, <1>1, <1>3 DEF OnceInv, OneWay, Sends, State, Senders
  <2> QED BY <2>1, <2>2
<1>8. FeedInv'
  BY <1>1, <1>4, <1>5, <1>6, <1>7 DEF FeedInv
<1>9. ASSUME NEW m, NEW n, Precedes(m, n)' PROVE Precedes(m, n)
  <2>1. \A v \in Workers : Ahead(m, n, v)' => Ahead(m, n, v)
    BY <1>1 DEF Ahead
  <2>2. \A d \in Clients : HasAhead(m, n, d)' => d # c
    BY <1>1, <1>3 DEF HasAhead
  <2>3. \A d \in Clients : d # c /\ HasAhead(m, n, d)' => HasAhead(m, n, d)
    BY <1>1 DEF HasAhead, Sends
  <2> QED BY <2>1, <2>2, <2>3, <1>9 DEF Precedes
<1>10. ThroughRedis' = ThroughRedis
  BY <1>1 DEF ThroughRedis, State
<1> QED BY <1>8, <1>9, <1>10, OrderKept

LEMMA DisconnectKeeps ==
  ASSUME FeedTypes, FeedInv, OrderInv, NEW c \in Clients, Disconnect(c)
  PROVE  FeedInv' /\ OrderInv'
<1>1. /\ home'[c] = Gone /\ \A d \in Clients : d # c => home'[d] = home[d]
      /\ UNCHANGED <<listener, channel, received, publication, relay, owed, disturbed>>
  BY DEF Disconnect, FeedTypes
<1>4. \A v \in Workers : WorkerInv(v)'
  BY <1>1 DEF FeedInv, WorkerInv, Falls, State, IsUp
<1>5. \A m \in Messages : MessageInv(m)'
  BY <1>1 DEF FeedInv, MessageInv, State
<1>6. \A d \in Clients : ClientInv(d)'
  BY <1>1, FeedAssumption DEF FeedInv, ClientInv
<1>7. ASSUME NEW m \in Messages \ disturbed, NEW d \in Clients PROVE OnceInv(m, d)'
  <2>0. OnceInv(m, d)
    BY <1>7 DEF FeedInv
  <2>1. CASE d # c
    BY <2>0, <2>1, <1>1 DEF OnceInv, OneWay, SomeWay, Sends, Falls, State, IsUp
  <2>2. CASE d = c
    BY <2>0, <2>2, <1>1, FeedAssumption DEF OnceInv
  <2> QED BY <2>1, <2>2
<1>8. FeedInv'
  BY <1>1, <1>4, <1>5, <1>6, <1>7 DEF FeedInv
<1>9. ASSUME NEW m, NEW n, Precedes(m, n)' PROVE Precedes(m, n)
  <2>1. \A v \in Workers : Ahead(m, n, v)' => Ahead(m, n, v)
    BY <1>1 DEF Ahead
  <2>2. \A d \in Clients : HasAhead(m, n, d)' => HasAhead(m, n, d)
    BY <1>1, FeedAssumption DEF HasAhead, Sends
  <2> QED BY <2>1, <2>2, <1>9 DEF Precedes
<1>10. ThroughRedis' = ThroughRedis
  BY <1>1 DEF ThroughRedis, State
<1> QED BY <1>8, <1>9, <1>10, OrderKept

LEMMA AcceptedKeeps ==
  ASSUME FeedTypes, FeedInv, OrderInv, NEW m \in Messages, NEW w \in Workers, Accepted(m, w)
  PROVE  FeedInv' /\ OrderInv'
<1>1. /\ State(m) = "new" /\ publication'[m].at = w /\ publication'[m].state = "accepted"
      /\ \A x \in Messages : x # m => publication'[x] = publication[x] /\ owed'[x] = owed[x]
      /\ owed'[m] = UNION {ClientsOf(v) : v \in {w} \union {u \in Workers : IsUp(u)}}
      /\ UNCHANGED <<listener, home, received, relay, disturbed>>
  BY DEF Accepted, FeedTypes, State
<1>2. \A v \in Workers : channel'[v] = IF IsUp(v) THEN Append(channel[v], m) ELSE channel[v]
  BY DEF Accepted
<1>3. MessageInv(m)
  BY DEF FeedInv
<1>4. ASSUME NEW v \in Workers
      PROVE  /\ \A x : x # m => (Occurs(x, channel'[v]) <=> Occurs(x, channel[v]))
             /\ Occurs(m, channel'[v]) <=> IsUp(v)
             /\ \A x : AtMostOnce(x, channel[v]) => AtMostOnce(x, channel'[v])
             /\ \A x, y : x # m /\ y # m => (Follows(x, y, channel'[v]) <=> Follows(x, y, channel[v]))
             /\ \A y : y # m => ~Follows(m, y, channel'[v])
  <2>1. ~Occurs(m, channel[v]) /\ channel[v] \in Seq(Messages)
    BY <1>1, <1>3 DEF MessageInv, FeedTypes
  <2>2. \A y : ~Follows(m, y, channel[v])
    BY <2>1 DEF Follows, Occurs
  <2>3. CASE IsUp(v)
    BY <1>2, <2>1, <2>2, <2>3, AppendFacts
  <2>4. CASE ~IsUp(v)
    BY <1>2, <2>1, <2>2, <2>4
  <2> QED BY <2>3, <2>4
<1>5. \A v \in Workers, x \in Messages : x # m => (Falls(x, v)' <=> Falls(x, v))
  BY <1>1 DEF Falls, State, IsUp
<1>6. \A v \in Workers : WorkerInv(v)'
  <2> SUFFICES ASSUME NEW v \in Workers PROVE WorkerInv(v)'
    OBVIOUS
  <2>1. WorkerInv(v) /\ relay[v].message # m
    BY <1>1, <1>3 DEF FeedInv, MessageInv, Senders
  <2>2. IsUp(v)' = IsUp(v) /\ (~IsUp(v) => channel'[v] = channel[v])
    BY <1>1, <1>2 DEF IsUp
  <2>3. Falls(m, v)' => ~IsUp(v)
    BY <2>2 DEF Falls
  <2> QED BY <1>1, <1>4, <1>5, <2>1, <2>2, <2>3 DEF WorkerInv
<1>7. \A x \in Messages : MessageInv(x)'
  <2> SUFFICES ASSUME NEW x \in Messages PROVE MessageInv(x)'
    OBVIOUS
  <2>1. MessageInv(x)
    BY DEF FeedInv
  <2>2. CASE x = m
    BY <2>2, <1>1, <1>3, FeedAssumption DEF MessageInv, State, Senders
  <2>3. CASE x # m
    BY <2>1, <2>3, <1>1, <1>4 DEF MessageInv, State
  <2> QED BY <2>2, <2>3
<1>8. \A c \in Clients : ClientInv(c)'
  BY <1>1 DEF FeedInv, ClientInv
<1>9. ASSUME NEW x \in Messages \ disturbed, NEW c \in Clients PROVE OnceInv(x, c)'
  <2>0. OnceInv(x, c)
    BY <1>9 DEF FeedInv
  <2>s. \A s \in Senders : Sends(s, c, x)' <=> Sends(s, c, x)
    BY <1>1 DEF Sends
  <2>1. CASE x # m
    BY <2>0, <2>1, <2>s, <1>1, <1>4, <1>5 DEF OnceInv, OneWay, SomeWay, State, Senders
  <2>2. CASE x = m
    <3>1. ~Occurs(m, received[c]) /\ \A s \in Senders : ~Sends(s, c, m)
      BY <1>1, <1>3 DEF MessageInv, Sends
    <3>2. c \in owed'[m] => \E v \in Workers : home[c] = v /\ (IsUp(v) \/ v = w)
      BY <1>1 DEF ClientsOf
    <3>3. Falls(m, w)' <=> ~IsUp(w)
      BY <1>1 DEF Falls, State, IsUp
    <3>4. AtMostOnce(m, received[c])
      BY <2>0, <2>2 DEF OnceInv
    <3>5. \A v \in Workers : OneWay(m, c, v)'
      BY <3>1, <2>2, <2>s, <1>1 DEF OneWay, Senders
    <3>6. \A v \in Workers : IsUp(v) \/ v = w => SomeWay(m, c, v)'
      BY <3>3, <1>4 DEF SomeWay
    <3> QED BY <2>2, <3>2, <3>4, <3>5, <3>6, <1>1 DEF OnceInv
  <2> QED BY <2>1, <2>2
<1>10. FeedInv'
  BY <1>1, <1>6, <1>7, <1>8, <1>9 DEF FeedInv
<1>11. ASSUME NEW y \in Messages, y # m PROVE ~Precedes(m, y)'
  BY <1>1, <1>3, <1>4, <1>11 DEF Precedes, Ahead, HasAhead, MessageInv, Senders, Follows, Occurs
<1>12. ASSUME NEW x, NEW y, x # m, y # m, Precedes(x, y)' PROVE Precedes(x, y)
  <2>1. \A v \in Workers : Ahead(x, y, v)' => Ahead(x, y, v)
    BY <1>1, <1>4, <1>12 DEF Ahead
  <2>2. \A d \in Clients : HasAhead(x, y, d)' => HasAhead(x, y, d)
    BY <1>1, <1>4, <1>12 DEF HasAhead, Sends
  <2> QED BY <2>1, <2>2, <1>12 DEF Precedes
<1>13. ThroughRedis' \subseteq ThroughRedis \union {m} /\ ThroughRedis' \subseteq Messages
  BY <1>1 DEF ThroughRedis, State
<1>14. OrderInv'
  BY <1>11, <1>12, <1>13 DEF OrderInv
<1> QED BY <1>10, <1>14

LEMMA ReturnKeeps ==
  ASSUME FeedTypes, FeedInv, OrderInv, NEW m \in Messages, NEW raised \in BOOLEAN,
         PublishReturns(m, raised)
  PROVE  FeedInv' /\ OrderInv'
<1>1. PICK w \in Workers : publication[m].at = w /\ State(m) = "accepted"
  BY DEF PublishReturns, FeedInv, MessageInv, State
<1>2. /\ \A x \in Messages : x # m => publication'[x] = publication[x]
      /\ publication'[m].state = IF raised \/ ~IsUp(w) THEN "told" ELSE "relayed"
      /\ disturbed \subseteq disturbed' /\ (raised => m \in disturbed')
      /\ UNCHANGED <<listener, channel, home, received, owed>>
  BY <1>1 DEF PublishReturns, FeedTypes, Done
<1>3. relay' = IF raised \/ ~IsUp(w) THEN Relay(m, m, ClientsOf(w)) ELSE relay
  BY <1>1 DEF PublishReturns, FallsBack
<1>4. /\ \A s \in Senders : s # m => relay'[s] = relay[s]
      /\ ~(raised \/ ~IsUp(w)) => relay' = relay
      /\ raised \/ ~IsUp(w) => /\ relay'[m].left = ClientsOf(w)
                               /\ relay'[m].message = IF ClientsOf(w) = {} THEN NoMessage ELSE m
  <2>1. ClientsOf(w) \in SUBSET Clients /\ m \in Senders
    BY DEF ClientsOf, Senders
  <2> QED BY <1>3, <2>1, RelaySets
<1>5. MessageInv(m) /\ relay[m].message # m
  BY <1>1 DEF FeedInv, MessageInv
<1>d. \A v \in Workers : v \in Senders /\ v # m
  BY FeedAssumption DEF Senders
<1>6. \A v \in Workers, x \in Messages : Falls(x, v)' => Falls(x, v) /\ x # m
  BY <1>2 DEF Falls, State, IsUp
<1>7. \A v \in Workers, x \in Messages : x # m => (Falls(x, v)' <=> Falls(x, v))
  BY <1>2 DEF Falls, State, IsUp
<1>8. \A v \in Workers : WorkerInv(v)'
  <2> SUFFICES ASSUME NEW v \in Workers PROVE WorkerInv(v)'
    OBVIOUS
  <2>1. WorkerInv(v) /\ relay'[v] = relay[v] /\ IsUp(v)' = IsUp(v) /\ channel' = channel
    BY <1>2, <1>4, <1>d DEF FeedInv, IsUp
  <2> QED BY <1>2, <1>6, <2>1 DEF WorkerInv
<1>9. \A x \in Messages : MessageInv(x)'
  <2> SUFFICES ASSUME NEW x \in Messages PROVE MessageInv(x)'
    OBVIOUS
  <2>1. MessageInv(x) /\ x \in Senders
    BY DEF FeedInv, Senders
  <2>2. CASE x = m
    BY <2>2, <1>2, <1>4, <1>5 DEF MessageInv, State
  <2>3. CASE x # m
    <3>1. relay'[m].message # x
      BY <1>4, <1>5, <2>3, FeedAssumption DEF MessageInv
    <3>2. \A s \in Senders : relay[s].message # x => relay'[s].message # x
      BY <1>4, <3>1
    <3> QED BY <2>1, <2>3, <3>2, <1>2, <1>4 DEF MessageInv, State
  <2> QED BY <2>2, <2>3
<1>10. \A c \in Clients : ClientInv(c)'
  <2> SUFFICES ASSUME NEW c \in Clients PROVE ClientInv(c)'
    OBVIOUS
  <2>1. ClientInv(c)
    BY DEF FeedInv
  <2>2. home[c] = NoWorker => c \notin relay'[m].left
    BY <2>1, <1>4, FeedAssumption DEF ClientsOf, ClientInv, Senders
  <2>3. \A s \in Senders : c \in relay'[s].left => c \in relay[s].left \/ s = m
    BY <1>4
  <2> QED BY <2>1, <2>2, <2>3, <1>2, <1>d DEF ClientInv
<1>11. ASSUME NEW x \in Messages \ disturbed', NEW c \in Clients PROVE OnceInv(x, c)'
  <2>0. OnceInv(x, c) /\ x \in Messages \ disturbed
    BY <1>2, <1>11 DEF FeedInv
  <2>w. \A v \in Workers : Sends(v, c, x)' <=> Sends(v, c, x)
    BY <1>4, <1>d DEF Sends
  <2>1. CASE x # m
    <3>1. x \in Senders /\ relay'[x] = relay[x]
      BY <2>1, <1>4 DEF Senders
    <3>2. Sends(x, c, x)' <=> Sends(x, c, x)
      BY <3>1 DEF Sends
    <3> QED BY <2>0, <2>1, <2>w, <3>2, <1>2, <1>7 DEF OnceInv, OneWay, SomeWay, State
  <2>2. CASE x = m
    <3>1. ~raised
      BY <1>2, <1>11, <2>2
    <3>2. ~Sends(m, c, m)
      BY <1>5 DEF Sends
    <3>3. \A v \in Workers : Falls(m, v) <=> v = w /\ ~IsUp(w)
      BY <1>1 DEF Falls
    <3>4. Sends(m, c, m)' <=> ~IsUp(w) /\ home[c] = w
      <4>1. CASE IsUp(w)
        BY <4>1, <3>1, <3>2, <1>4 DEF Sends
      <4>2. CASE ~IsUp(w)
        BY <4>2, <1>4 DEF Sends, ClientsOf
      <4> QED BY <4>1, <4>2
    <3>5. WorkerInv(w)
      BY DEF FeedInv
    <3>6. Sends(m, c, m)' => Falls(m, w) /\ ~Occurs(m, channel[w]) /\ ~Sends(w, c, m)
      BY <3>3, <3>4, <3>5, <2>0, <2>2 DEF WorkerInv, Sends
    <3>7. \A v \in Workers : home[c] = v => OneWay(m, c, v)'
      BY <2>0, <2>2, <2>w, <3>3, <3>4, <3>6, <1>2, <1>6 DEF OnceInv, OneWay
    <3>8. \A v \in Workers : home[c] = v /\ SomeWay(m, c, v) => SomeWay(m, c, v)'
      BY <2>2, <2>w, <3>2, <3>3, <3>4, <1>2 DEF SomeWay
    <3> QED BY <2>0, <2>2, <3>7, <3>8, <1>1, <1>2 DEF OnceInv
  <2> QED BY <2>1, <2>2
<1>12. FeedInv'
  BY <1>8, <1>9, <1>10, <1>11 DEF FeedInv
<1>13. ASSUME NEW x, NEW y, Precedes(x, y)' PROVE Precedes(x, y)
  <2>1. \A v \in Workers : Ahead(x, y, v)' => Ahead(x, y, v)
    BY <1>2, <1>4, <1>d DEF Ahead
  <2>2. \A d \in Clients : HasAhead(x, y, d)' => HasAhead(x, y, d)
    BY <1>2, <1>4, <1>d DEF HasAhead, Sends
  <2> QED BY <2>1, <2>2, <1>13 DEF Precedes
<1>14. ThroughRedis' \subseteq ThroughRedis
  BY <1>1, <1>2 DEF ThroughRedis, State
<1> QED BY <1>12, <1>13, <1>14, OrderKept

LEMMA FailKeeps ==
  ASSUME FeedTypes, FeedInv, OrderInv, NEW m \in Messages, NEW w \in Workers, PublishFails(m, w)
  PROVE  FeedInv' /\ OrderInv'
<1>1. /\ State(m) = "new" /\ publication'[m].state = "told"
      /\ \A x \in Messages : x # m => publication'[x] = publication[x] /\ owed'[x] = owed[x]
      /\ owed'[m] = ClientsOf(w)
      /\ UNCHANGED <<listener, channel, home, received, disturbed>>
  BY DEF PublishFails, FeedTypes, State, Done
<1>2. relay' = Relay(m, m, ClientsOf(w))
  BY DEF PublishFails, FallsBack
<1>4. /\ \A s \in Senders : s # m => relay'[s] = relay[s]
      /\ relay'[m].left = ClientsOf(w)
      /\ relay'[m].message = IF ClientsOf(w) = {} THEN NoMessage ELSE m
  <2>1. ClientsOf(w) \in SUBSET Clients /\ m \in Senders
    BY DEF ClientsOf, Senders
  <2> QED BY <1>2, <2>1, RelaySets
<1>5. MessageInv(m) /\ \A s \in Senders : relay[s].message # m
  BY <1>1 DEF FeedInv, MessageInv
<1>d. \A v \in Workers : v \in Senders /\ v # m
  BY FeedAssumption DEF Senders
<1>6. \A v \in Workers, x \in Messages : Falls(x, v)' <=> Falls(x, v)
  BY <1>1 DEF Falls, State, IsUp
<1>8. \A v \in Workers : WorkerInv(v)'
  <2> SUFFICES ASSUME NEW v \in Workers PROVE WorkerInv(v)'
    OBVIOUS
  <2>1. WorkerInv(v) /\ relay'[v] = relay[v] /\ IsUp(v)' = IsUp(v) /\ channel' = channel
    BY <1>1, <1>4, <1>d DEF FeedInv, IsUp
  <2> QED BY <1>1, <1>6, <2>1 DEF WorkerInv
<1>9. \A x \in Messages : MessageInv(x)'
  <2> SUFFICES ASSUME NEW x \in Messages PROVE MessageInv(x)'
    OBVIOUS
  <2>1. MessageInv(x) /\ x \in Senders
    BY DEF FeedInv, Senders
  <2>2. CASE x = m
    BY <2>2, <1>1, <1>4 DEF MessageInv, State
  <2>3. CASE x # m
    <3>1. relay'[m].message # x
      BY <1>4, <2>3, FeedAssumption
    <3>2. \A s \in Senders : relay[s].message # x => relay'[s].message # x
      BY <1>4, <3>1
    <3> QED BY <2>1, <2>3, <3>2, <1>1, <1>4 DEF MessageInv, State
  <2> QED BY <2>2, <2>3
<1>10. \A c \in Clients : ClientInv(c)'
  <2> SUFFICES ASSUME NEW c \in Clients PROVE ClientInv(c)'
    OBVIOUS
  <2>1. ClientInv(c)
    BY DEF FeedInv
  <2>2. home[c] = NoWorker => c \notin relay'[m].left
    BY <1>4, FeedAssumption DEF ClientsOf
  <2>3. \A s \in Senders : c \in relay'[s].left => c \in relay[s].left \/ s = m
    BY <1>4
  <2> QED BY <2>1, <2>2, <2>3, <1>1, <1>d DEF ClientInv
<1>11. ASSUME NEW x \in Messages \ disturbed, NEW c \in Clients PROVE OnceInv(x, c)'
  <2>0. OnceInv(x, c)
    BY <1>11 DEF FeedInv
  <2>w. \A v \in Workers : Sends(v, c, x)' <=> Sends(v, c, x)
    BY <1>4, <1>d DEF Sends
  <2>1. CASE x # m
    <3>1. x \in Senders /\ relay'[x] = relay[x]
      BY <2>1, <1>4 DEF Senders
    <3>2. Sends(x, c, x)' <=> Sends(x, c, x)
      BY <3>1 DEF Sends
    <3> QED BY <2>0, <2>1, <2>w, <3>2, <1>1, <1>6 DEF OnceInv, OneWay, SomeWay, State
  <2>2. CASE x = m
    <3>1. ~Occurs(m, received[c]) /\ \A v \in Workers : ~Occurs(m, channel[v]) /\ ~Sends(v, c, m)
      BY <1>1, <1>5, <1>d DEF MessageInv, Sends
    <3>2. \A v \in Workers : ~Falls(m, v)
      BY <1>1 DEF Falls
    <3>3. home[c] = w => Sends(m, c, m)'
      BY <1>4 DEF Sends, ClientsOf
    <3>4. \A v \in Workers : OneWay(m, c, v)'
      BY <2>2, <2>w, <3>1, <3>2, <1>1, <1>6 DEF OneWay
    <3>5. c \in owed'[m] => home[c] = w /\ SomeWay(m, c, w)'
      BY <3>3, <1>1 DEF SomeWay, ClientsOf
    <3> QED BY <2>0, <2>2, <3>4, <3>5, <1>1 DEF OnceInv
  <2> QED BY <2>1, <2>2
<1>12. FeedInv'
  BY <1>1, <1>8, <1>9, <1>10, <1>11 DEF FeedInv
<1>13. ASSUME NEW x, NEW y, Precedes(x, y)' PROVE Precedes(x, y)
  <2>1. \A v \in Workers : Ahead(x, y, v)' => Ahead(x, y, v)
    BY <1>1, <1>4, <1>d DEF Ahead
  <2>2. \A d \in Clients : HasAhead(x, y, d)' => HasAhead(x, y, d)
    BY <1>1, <1>4, <1>d DEF HasAhead, Sends
  <2> QED BY <2>1, <2>2, <1>13 DEF Precedes
<1>14. ThroughRedis' \subseteq ThroughRedis
  BY <1>1 DEF ThroughRedis, State
<1> QED BY <1>12, <1>13, <1>14, OrderKept

LEMMA ListenKeeps ==
  ASSUME FeedTypes, FeedInv, OrderInv, NEW w \in Workers, Listen(w)
  PROVE  FeedInv' /\ OrderInv'
<1> DEFINE h == Head(channel[w])
<1>1. /\ IsUp(w) /\ relay[w].message = NoMessage /\ channel[w] # <<>> /\ channel[w] \in Seq(Messages)
      /\ channel'[w] = Tail(channel[w]) /\ \A v \in Workers : v # w => channel'[v] = channel[v]
      /\ relay' = Relay(w, h, ClientsOf(w))
      /\ UNCHANGED <<listener, home, received, publication, owed, disturbed>>
  BY DEF Listen, FeedTypes, NoRelay
<1>2. /\ h \in Messages
      /\ \A y : Occurs(y, channel[w]) <=> Occurs(y, channel'[w]) \/ y = h
      /\ \A y, z : Follows(y, z, channel'[w]) => Follows(y, z, channel[w])
      /\ \A z : Occurs(z, channel'[w]) => Follows(h, z, channel[w])
      /\ \A y : AtMostOnce(y, channel[w]) => AtMostOnce(y, channel'[w])
      /\ AtMostOnce(h, channel[w]) => ~Occurs(h, channel'[w])
  BY <1>1, TailFacts
<1> HIDE DEF h
<1>3. /\ \A s \in Senders : s # w => relay'[s] = relay[s]
      /\ relay'[w].left = ClientsOf(w)
      /\ relay'[w].message = IF ClientsOf(w) = {} THEN NoMessage ELSE h
  <2>1. ClientsOf(w) \in SUBSET Clients /\ w \in Senders
    BY DEF ClientsOf, Senders
  <2> QED BY <1>1, <1>2, <2>1, RelaySets
<1>d. \A m \in Messages : m \in Senders /\ m # w /\ m # NoMessage
  BY FeedAssumption DEF Senders
<1>e. \A v \in Workers : v \in Senders
  BY DEF Senders
<1>4. \A v \in Workers : \A x : Falls(x, v)' <=> Falls(x, v)
  BY <1>1 DEF Falls, State, IsUp
<1>5. \A v \in Workers : \A x : Occurs(x, channel'[v]) => Occurs(x, channel[v])
  BY <1>1, <1>2
<1>6. \A v \in Workers : WorkerInv(v)'
  <2> SUFFICES ASSUME NEW v \in Workers PROVE WorkerInv(v)'
    OBVIOUS
  <2>1. WorkerInv(v) /\ (IsUp(v)' <=> IsUp(v))
    BY <1>1 DEF FeedInv, IsUp
  <2>2. CASE v # w
    BY <2>1, <2>2, <1>1, <1>3, <1>4, <1>e DEF WorkerInv
  <2>3. CASE v = w
    <3>1. \A x : ~Falls(x, w)
      BY <1>1 DEF Falls
    <3>2. \A x \in Messages : relay'[w].message = x => x = h
      BY <1>3, <1>d
    <3> QED BY <2>1, <2>3, <3>1, <3>2, <1>1, <1>2, <1>4 DEF WorkerInv
  <2> QED BY <2>2, <2>3
<1>7. \A x \in Messages : MessageInv(x)'
  <2> SUFFICES ASSUME NEW x \in Messages PROVE MessageInv(x)'
    OBVIOUS
  <2>1. MessageInv(x) /\ relay'[x] = relay[x]
    BY <1>3, <1>d DEF FeedInv
  <2>2. ~Occurs(x, channel[w]) => relay'[w].message # x
    BY <1>2, <1>3, <1>d
  <2>3. State(x) = "new" => \A s \in Senders : relay'[s].message # x
    BY <2>1, <2>2, <1>3 DEF MessageInv
  <2> QED BY <2>1, <2>3, <1>1, <1>5 DEF MessageInv, State
<1>8. \A c \in Clients : ClientInv(c)'
  <2> SUFFICES ASSUME NEW c \in Clients PROVE ClientInv(c)'
    OBVIOUS
  <2>1. ClientInv(c)
    BY DEF FeedInv
  <2>2. c \in relay'[w].left => home[c] = w /\ home[c] # NoWorker
    BY <1>3, FeedAssumption DEF ClientsOf
  <2> QED BY <2>1, <2>2, <1>1, <1>3, <1>e DEF ClientInv
<1>9. ASSUME NEW x \in Messages \ disturbed, NEW c \in Clients PROVE OnceInv(x, c)'
  <2>0. OnceInv(x, c)
    BY <1>9 DEF FeedInv
  <2>1. Sends(x, c, x)' <=> Sends(x, c, x)
    BY <1>3, <1>d DEF Sends
  <2>2. \A v \in Workers : v # w => (Sends(v, c, x)' <=> Sends(v, c, x))
    BY <1>3, <1>e DEF Sends
  <2>3. ~Sends(w, c, x) /\ (Sends(w, c, x)' => x = h) /\ (x = h /\ home[c] = w => Sends(w, c, x)')
    <3>1. home[c] = w => c \in ClientsOf(w)
      BY DEF ClientsOf
    <3> QED BY <3>1, <1>1, <1>3, <1>d DEF Sends
  <2>4. \A v \in Workers : OneWay(x, c, v) => OneWay(x, c, v)'
    <3> SUFFICES ASSUME NEW v \in Workers, OneWay(x, c, v) PROVE OneWay(x, c, v)'
      OBVIOUS
    <3>1. Sends(v, c, x)' => Sends(v, c, x) \/ Occurs(x, channel[v])
      BY <2>2, <2>3, <1>2
    <3> QED BY <3>1, <2>1, <1>1, <1>4, <1>5 DEF OneWay
  <2>5. \A v \in Workers : home[c] = v /\ SomeWay(x, c, v) => SomeWay(x, c, v)'
    <3> SUFFICES ASSUME NEW v \in Workers, home[c] = v, SomeWay(x, c, v) PROVE SomeWay(x, c, v)'
      OBVIOUS
    <3>1. Occurs(x, channel[v]) => Occurs(x, channel'[v]) \/ Sends(v, c, x)'
      BY <2>3, <1>1, <1>2
    <3>2. Sends(v, c, x) => Sends(v, c, x)'
      BY <2>2, <2>3
    <3> QED BY <3>1, <3>2, <2>1, <1>1, <1>4 DEF SomeWay
  <2> QED BY <2>0, <2>4, <2>5, <1>1 DEF OnceInv, State
<1>10. FeedInv'
  BY <1>1, <1>6, <1>7, <1>8, <1>9 DEF FeedInv
<1>11. ASSUME NEW x \in Messages, NEW y \in Messages, Precedes(x, y)' PROVE Precedes(x, y)
  <2>1. \A v \in Workers : Ahead(x, y, v)' => Ahead(x, y, v)
    <3> SUFFICES ASSUME NEW v \in Workers, Ahead(x, y, v)' PROVE Ahead(x, y, v)
      OBVIOUS
    <3>1. CASE v # w
      BY <3>1, <1>1, <1>3, <1>e DEF Ahead
    <3>2. CASE v = w
      BY <3>2, <1>1, <1>2, <1>3, <1>d DEF Ahead
    <3> QED BY <3>1, <3>2
  <2>2. \A d \in Clients, v \in Workers : Sends(v, d, y)' => Sends(v, d, y) \/ Occurs(y, channel[v])
    BY <1>2, <1>3, <1>d, <1>e DEF Sends
  <2>3. \A d \in Clients : HasAhead(x, y, d)' => HasAhead(x, y, d)
    BY <2>2, <1>1, <1>5 DEF HasAhead
  <2> QED BY <2>1, <2>3, <1>11 DEF Precedes
<1>12. ThroughRedis' = ThroughRedis /\ ThroughRedis \subseteq Messages
  BY <1>1 DEF ThroughRedis, State
<1> QED BY <1>10, <1>11, <1>12, OrderKept

LEMMA DieKeeps ==
  ASSUME FeedTypes, FeedInv, OrderInv, NEW w \in Workers, ListenerDies(w)
  PROVE  FeedInv' /\ OrderInv'
<1>1. /\ IsUp(w) /\ listener'[w] = "done" /\ \A v \in Workers : v # w => listener'[v] = listener[v]
      /\ channel'[w] = <<>> /\ \A v \in Workers : v # w => channel'[v] = channel[v]
      /\ UNCHANGED <<home, received, publication, relay, owed>>
  BY DEF ListenerDies, FeedTypes
<1>2. /\ disturbed \subseteq disturbed'
      /\ \A x : Occurs(x, channel[w]) => x \in disturbed'
  BY DEF ListenerDies, Occurs
<1>3. \A x \in Messages : State(x) = "accepted" /\ publication[x].at = w => x \in disturbed'
  <2> SUFFICES ASSUME NEW x \in Messages, State(x) = "accepted", publication[x].at = w
               PROVE  x \in disturbed'
    OBVIOUS
  <2>1. publication[x] \in PublicationSet
    BY DEF FeedTypes
  <2>2. publication[x] = [at |-> w, state |-> "accepted"]
    BY <2>1 DEF PublicationSet, State
  <2> QED BY <2>2 DEF ListenerDies
<1>4. \A x : ~Occurs(x, channel'[w]) /\ AtMostOnce(x, channel'[w]) /\ \A y : ~Follows(x, y, channel'[w])
  BY <1>1, EmptyFacts
<1>5. \A v \in Workers, x \in Messages : x \notin disturbed' => (Falls(x, v)' <=> Falls(x, v))
  BY <1>1, <1>3 DEF Falls, State, IsUp
<1>6. \A v \in Workers : WorkerInv(v)'
  <2> SUFFICES ASSUME NEW v \in Workers PROVE WorkerInv(v)'
    OBVIOUS
  <2>1. WorkerInv(v)
    BY DEF FeedInv
  <2>2. CASE v # w
    <3>1. IsUp(v)' <=> IsUp(v)
      BY <2>2, <1>1 DEF IsUp
    <3> QED BY <3>1, <2>1, <2>2, <1>1, <1>2, <1>5 DEF WorkerInv
  <2>3. CASE v = w
    <3>1. \A x : ~Falls(x, w)
      BY <1>1 DEF Falls
    <3> QED BY <2>1, <2>3, <3>1, <1>1, <1>2, <1>4, <1>5 DEF WorkerInv
  <2> QED BY <2>2, <2>3
<1>7. \A x \in Messages : MessageInv(x)'
  BY <1>1, <1>4 DEF FeedInv, MessageInv, State
<1>8. \A c \in Clients : ClientInv(c)'
  BY <1>1 DEF FeedInv, ClientInv
<1>9. ASSUME NEW x \in Messages \ disturbed', NEW c \in Clients PROVE OnceInv(x, c)'
  <2>0. OnceInv(x, c)
    BY <1>2, <1>9 DEF FeedInv
  <2>1. \A s : Sends(s, c, x)' <=> Sends(s, c, x)
    BY <1>1 DEF Sends
  <2>2. \A v \in Workers : Occurs(x, channel'[v]) <=> Occurs(x, channel[v])
    BY <1>1, <1>2, <1>4, <1>9
  <2>3. \A v \in Workers : OneWay(x, c, v) => OneWay(x, c, v)'
    BY <2>1, <2>2, <1>1, <1>5, <1>9 DEF OneWay
  <2>4. \A v \in Workers : SomeWay(x, c, v) => SomeWay(x, c, v)'
    BY <2>1, <2>2, <1>1, <1>5, <1>9 DEF SomeWay
  <2> QED BY <2>0, <2>3, <2>4, <1>1 DEF OnceInv, State
<1>10. FeedInv'
  BY <1>6, <1>7, <1>8, <1>9 DEF FeedInv
<1>11. ASSUME NEW x, NEW y, Precedes(x, y)' PROVE Precedes(x, y)
  <2>1. \A v \in Workers : Ahead(x, y, v)' => Ahead(x, y, v)
    BY <1>1, <1>4 DEF Ahead
  <2>2. \A d \in Clients : HasAhead(x, y, d)' => HasAhead(x, y, d)
    BY <1>1, <1>4 DEF HasAhead, Sends
  <2> QED BY <2>1, <2>2, <1>11 DEF Precedes
<1>12. ThroughRedis' \subseteq ThroughRedis
  BY <1>1, <1>2 DEF ThroughRedis, State
<1> QED BY <1>10, <1>11, <1>12, OrderKept

LEMMA SendKeeps ==
  ASSUME FeedTypes, FeedInv, OrderInv, NEW s \in Senders, NEW c \in Clients, Send(s, c)
  PROVE  FeedInv' /\ OrderInv'
<1> DEFINE rest == relay[s].left \ {c}
<1>k. PICK k \in Messages : relay[s].message = k
  BY DEF Send, FeedTypes, RelayTypes
<1>1. /\ c \in relay[s].left /\ relay' = Relay(s, k, rest)
      /\ home[c] = Gone => received' = received
      /\ home[c] # Gone => received'[c] = Append(received[c], k)
      /\ \A d \in Clients : d # c => received'[d] = received[d]
      /\ received[c] \in Seq(Messages)
      /\ UNCHANGED <<listener, channel, home, publication, owed, disturbed>>
  BY <1>k DEF Send, FeedTypes
<1>2. k \in Messages /\ rest \in SUBSET Clients
  BY DEF FeedTypes, RelayTypes
<1>m. Sends(s, c, k) /\ \A x : Sends(s, c, x) => x = k
  BY <1>k, <1>1 DEF Sends
<1> HIDE DEF rest
<1>r. /\ relay'[s].left = rest /\ relay'[s].message = IF rest = {} THEN NoMessage ELSE k
      /\ \A t \in Senders : t # s => relay'[t] = relay[t]
  BY <1>1, <1>2, RelaySets
<1>3. /\ \A t \in Senders : t # s => relay'[t] = relay[t]
      /\ relay'[s].left = relay[s].left \ {c}
      /\ relay'[s].message \in {NoMessage, k}
  BY <1>r DEF rest
<1>d. /\ \A v \in Workers : v \in Senders /\ v \notin Messages
      /\ \A m \in Messages : m \in Senders /\ m # NoMessage
  BY FeedAssumption DEF Senders
<1>4. home[c] # Gone => home[c] \in Workers /\ (s \in Workers => home[c] = s)
  BY <1>1 DEF FeedInv, FeedTypes, ClientInv
<1>5. s \in Messages => k = s /\ State(k) = "told"
  BY <1>2, <1>k, <1>d DEF FeedInv, MessageInv
<1>6. \A x \in Messages, t \in Senders : relay'[t].message = x => relay[t].message = x
  BY <1>3, <1>k, <1>d
<1>7. \A t \in Senders, d \in Clients : \A x :
        Sends(t, d, x)' <=> Sends(t, d, x) /\ ~(t = s /\ d = c)
  <2> SUFFICES ASSUME NEW t \in Senders, NEW d \in Clients, NEW x
               PROVE  Sends(t, d, x)' <=> Sends(t, d, x) /\ ~(t = s /\ d = c)
    OBVIOUS
  <2>1. CASE t # s
    BY <2>1, <1>3 DEF Sends
  <2>2. CASE t = s
    <3>1. relay'[s].left # {} => relay'[s].message = k
      BY <1>r
    <3> QED BY <3>1, <2>2, <1>3, <1>k DEF Sends
  <2> QED BY <2>1, <2>2
<1>8. /\ \A y : Occurs(y, Append(received[c], k)) <=> Occurs(y, received[c]) \/ y = k
      /\ \A y, z : Follows(y, z, Append(received[c], k))
           <=> Follows(y, z, received[c]) \/ (z = k /\ Occurs(y, received[c]))
      /\ \A y : AtMostOnce(y, received[c]) /\ (y = k => ~Occurs(y, received[c]))
           => AtMostOnce(y, Append(received[c], k))
  BY <1>1, <1>2, AppendFacts
<1>9. \A v \in Workers : \A x : Falls(x, v)' <=> Falls(x, v)
  BY <1>1 DEF Falls, State, IsUp
<1>10. \A v \in Workers : WorkerInv(v)'
  <2> SUFFICES ASSUME NEW v \in Workers PROVE WorkerInv(v)'
    OBVIOUS
  <2>1. WorkerInv(v) /\ (IsUp(v)' <=> IsUp(v))
    BY <1>1 DEF FeedInv, IsUp
  <2> QED BY <2>1, <1>1, <1>6, <1>9, <1>d DEF WorkerInv
<1>11. \A x \in Messages : MessageInv(x)'
  <2> SUFFICES ASSUME NEW x \in Messages PROVE MessageInv(x)'
    OBVIOUS
  <2>1. MessageInv(x) /\ x \in Senders
    BY <1>d DEF FeedInv
  <2>2. relay'[x].message \in {x, NoMessage}
    BY <2>1, <1>3, <1>k DEF MessageInv
  <2>3. State(x) = "new" => \A d \in Clients : ~Occurs(x, received'[d])
    <3>1. SUFFICES ASSUME State(x) = "new", NEW d \in Clients PROVE ~Occurs(x, received'[d])
      OBVIOUS
    <3>2. x # k
      BY <2>1, <3>1, <1>k DEF MessageInv
    <3> QED BY <2>1, <3>1, <3>2, <1>1, <1>8 DEF MessageInv
  <2> QED BY <2>1, <2>2, <2>3, <1>1, <1>6 DEF MessageInv, State
<1>12. \A d \in Clients : ClientInv(d)'
  <2> SUFFICES ASSUME NEW d \in Clients PROVE ClientInv(d)'
    OBVIOUS
  <2>1. ClientInv(d) /\ (home[c] = NoWorker => FALSE)
    BY <1>1 DEF FeedInv, ClientInv
  <2>2. \A t \in Senders : d \in relay'[t].left => d \in relay[t].left
    BY <1>3
  <2> QED BY <2>1, <2>2, <1>1, <1>d DEF ClientInv
<1>13. ASSUME NEW x \in Messages \ disturbed, NEW d \in Clients PROVE OnceInv(x, d)'
  <2>0. OnceInv(x, d)
    BY DEF FeedInv
  <2>u. \A v \in Workers : Falls(x, v)' <=> Falls(x, v)
    BY <1>9
  <2>1. CASE d # c
    <3>1. \A t \in Senders : Sends(t, d, x)' <=> Sends(t, d, x)
      BY <2>1, <1>7
    <3> QED BY <2>0, <2>1, <2>u, <3>1, <1>1, <1>d DEF OnceInv, OneWay, SomeWay, State
  <2>2. CASE d = c /\ home[c] = Gone
    <3>1. \A v \in Workers : home[c] # v
      BY <2>2, FeedAssumption
    <3> QED BY <2>0, <2>2, <3>1, <1>1 DEF OnceInv
  <2>3. CASE d = c /\ home[c] # Gone /\ x # k
    <3>1. \A t \in Senders : Sends(t, c, x)' <=> Sends(t, c, x)
      BY <2>3, <1>7, <1>m
    <3>2. Occurs(x, received'[c]) <=> Occurs(x, received[c])
      BY <2>3, <1>1, <1>8
    <3>3. AtMostOnce(x, received[c]) => AtMostOnce(x, received'[c])
      BY <2>3, <1>1, <1>8
    <3> QED BY <2>0, <2>3, <2>u, <3>1, <3>2, <3>3, <1>1, <1>d DEF OnceInv, OneWay, SomeWay, State
  <2>4. CASE d = c /\ home[c] # Gone /\ x = k
    <3>1. PICK v \in Workers : home[c] = v /\ (s = v \/ s = k)
      BY <2>4, <1>4, <1>5 DEF Senders
    <3>2. OneWay(k, c, v)
      BY <2>0, <2>4, <3>1 DEF OnceInv
    <3>3. ~Occurs(k, received[c])
      BY <3>1, <3>2, <1>m DEF OneWay
    <3>4. AtMostOnce(k, received'[c]) /\ Occurs(k, received'[c])
      BY <2>0, <2>4, <3>3, <1>1, <1>8 DEF OnceInv
    <3>5. ~Occurs(k, channel[v]) /\ ~Falls(k, v) /\ (s = v => ~Sends(k, c, k)) /\ (s = k => ~Sends(v, c, k))
      <4>1. CASE s = v
        <5>1. WorkerInv(v) /\ relay[v].message = k
          BY <3>1, <4>1, <1>k DEF FeedInv
        <5> QED BY <2>4, <3>1, <3>2, <4>1, <5>1, <1>2, <1>m DEF WorkerInv, OneWay
      <4>2. CASE s = k
        BY <3>1, <3>2, <4>2, <1>2, <1>d, <1>m DEF OneWay
      <4> QED BY <3>1, <4>1, <4>2
    <3>6. ~Sends(v, c, k)' /\ ~Sends(k, c, k)'
      BY <3>1, <3>5, <1>2, <1>7, <1>d
    <3>7. OneWay(k, c, v)'
      BY <2>4, <2>u, <3>1, <3>5, <3>6, <1>1 DEF OneWay
    <3>8. SomeWay(k, c, v)'
      BY <3>4 DEF SomeWay
    <3> QED BY <2>4, <3>1, <3>4, <3>7, <3>8, <1>1 DEF OnceInv
  <2> QED BY <2>1, <2>2, <2>3, <2>4
<1>14. FeedInv'
  BY <1>1, <1>10, <1>11, <1>12, <1>13 DEF FeedInv
<1>15. ThroughRedis' = ThroughRedis /\ ThroughRedis \subseteq Messages
  BY <1>1 DEF ThroughRedis, State
<1>16. ASSUME NEW x \in ThroughRedis, NEW y \in ThroughRedis, x # y, Precedes(x, y)'
       PROVE  Precedes(x, y)
  <2>1. x \in Messages /\ y \in Messages /\ (k \in {x, y} => s \in Workers)
    BY <1>5, <1>15 DEF ThroughRedis, Senders
  <2>2. ASSUME NEW v \in Workers, Ahead(x, y, v)' PROVE Ahead(x, y, v)
    BY <2>1, <2>2, <1>1, <1>6, <1>d DEF Ahead
  <2>3. ASSUME NEW d \in Clients, HasAhead(x, y, d)', d # c \/ home[c] = Gone
        PROVE  HasAhead(x, y, d)
    <3>1. received'[d] = received[d] /\ home' = home /\ channel' = channel
      BY <2>3, <1>1
    <3>2. \A v \in Workers : Sends(v, d, y)' => Sends(v, d, y)
      BY <1>7, <1>d
    <3> QED BY <2>3, <3>1, <3>2 DEF HasAhead
  <2>4. ASSUME HasAhead(x, y, c)', home[c] # Gone
        PROVE  HasAhead(x, y, c) \/ \E v \in Workers : Ahead(x, y, v)
    <3>1. home[c] \in Workers /\ (k \in {x, y} => home[c] = s)
      BY <2>1, <2>4, <1>4
    <3>2. CASE Follows(x, y, received'[c])
      <4>1. Follows(x, y, received[c]) \/ (y = k /\ Occurs(x, received[c]))
        BY <3>2, <2>4, <1>1, <1>8
      <4> QED BY <4>1, <3>1, <1>m DEF HasAhead
    <3>3. ASSUME Occurs(x, received'[c]), NEW v \in Workers, home[c] = v,
                 Occurs(y, channel[v]) \/ Sends(v, c, y)'
          PROVE  HasAhead(x, y, c) \/ Ahead(x, y, v)
      <4>1. Occurs(x, received[c]) \/ x = k
        BY <3>3, <2>4, <1>1, <1>8
      <4>2. CASE Occurs(x, received[c])
        BY <4>2, <3>3, <1>7, <1>d DEF HasAhead
      <4>3. CASE x = k
        <5>1. v = s /\ ~Sends(v, c, y)'
          BY <4>3, <3>1, <3>3, <1>7
        <5> QED BY <4>3, <5>1, <3>3, <1>k DEF Ahead
      <4> QED BY <4>1, <4>2, <4>3
    <3> QED BY <2>4, <3>2, <3>3, <1>1 DEF HasAhead
  <2> QED BY <2>2, <2>3, <2>4, <1>16 DEF Precedes
<1> QED BY <1>14, <1>15, <1>16, OrderKept

LEMMA FeedInvInit == FeedInit => FeedInv /\ OrderInv
<1>. SUFFICES ASSUME FeedInit PROVE FeedInv /\ OrderInv
  OBVIOUS
<1>1. /\ \A w \in Workers : channel[w] = <<>>
      /\ \A c \in Clients : home[c] = NoWorker /\ received[c] = <<>>
      /\ \A m \in Messages : State(m) = "new" /\ owed[m] = {}
      /\ \A s \in Senders : relay[s].message = NoMessage /\ relay[s].left = {}
  BY DEF FeedInit, State, Unpublished, NoRelay
<1>2. \A x, y : ~Occurs(x, <<>>) /\ ~Follows(x, y, <<>>) /\ AtMostOnce(x, <<>>)
  BY EmptyFacts
<1>3. \A m \in Messages : m \in Senders /\ m # NoMessage
  BY FeedAssumption DEF Senders
<1>w. \A v \in Workers : v \in Senders /\ v # NoWorker
  BY FeedAssumption DEF Senders
<1>4. \A v \in Workers : WorkerInv(v)
  BY <1>1, <1>2, <1>3, <1>w DEF WorkerInv
<1>5. \A m \in Messages : MessageInv(m)
  BY <1>1, <1>2, <1>3 DEF MessageInv
<1>6. \A c \in Clients : ClientInv(c)
  BY <1>1, <1>w DEF ClientInv
<1>7. \A m \in Messages, c \in Clients : OnceInv(m, c)
  BY <1>1, <1>2, <1>w DEF OnceInv
<1>8. ThroughRedis = {}
  BY <1>1 DEF ThroughRedis
<1> QED BY <1>4, <1>5, <1>6, <1>7, <1>8 DEF FeedInv, OrderInv

LEMMA FeedStep ==
  ASSUME FeedTypes, FeedInv, OrderInv, [FeedNext]_feedVars
  PROVE  FeedTypes' /\ FeedInv' /\ OrderInv'
<1>1. FeedTypes'
  BY FeedTypeStep
<1>2. CASE UNCHANGED feedVars
  <2>1. FeedInv'
    BY <1>2 DEF feedVars, FeedInv, WorkerInv, MessageInv, ClientInv, OnceInv, OneWay, SomeWay,
                Sends, Falls, State, IsUp
  <2>2. ThroughRedis' = ThroughRedis /\ \A x, y : Precedes(x, y)' <=> Precedes(x, y)
    BY <1>2 DEF feedVars, ThroughRedis, State, Precedes, Ahead, HasAhead, Sends
  <2>3. OrderInv'
    BY <2>2 DEF OrderInv
  <2> QED BY <1>1, <2>1, <2>3
<1>3. CASE FeedNext
  BY <1>1, <1>3, ConnectKeeps, DisconnectKeeps, AcceptedKeeps, ReturnKeeps, FailKeeps,
     ListenKeeps, DieKeeps, SendKeeps DEF FeedNext
<1> QED BY <1>2, <1>3

-----------------------------------------------------------------------------
(* What follows from it                                                     *)

LEMMA TimesOfOnce ==
  ASSUME FeedTypes, NEW c \in Clients, NEW m \in Messages, AtMostOnce(m, received[c])
  PROVE  /\ Times(c, m) <= 1
         /\ Occurs(m, received[c]) => Times(c, m) = 1
<1> DEFINE places == {i \in DOMAIN received[c] : received[c][i] = m}
<1>1. CASE Occurs(m, received[c])
  <2>1. PICK i \in DOMAIN received[c] : received[c][i] = m
    BY <1>1 DEF Occurs
  <2>2. places = {i}
    BY <2>1 DEF AtMostOnce
  <2>3. Cardinality(places) = 1
    BY <2>2, FS_Singleton
  <2> QED BY <2>3 DEF Times
<1>2. CASE ~Occurs(m, received[c])
  <2>1. places = {}
    BY <1>2 DEF Occurs
  <2>2. Cardinality(places) = 0
    BY <2>1, FS_EmptySet
  <2> QED BY <1>2, <2>2 DEF Times
<1> QED BY <1>1, <1>2

LEMMA DeliveredOnceHolds == FeedTypes /\ FeedInv => DeliveredOnce
<1>. SUFFICES ASSUME FeedTypes, FeedInv, NEW m \in Messages \ disturbed, NEW c \in Clients
              PROVE  /\ Times(c, m) <= 1
                     /\ IsDelivered(m) /\ c \in owed[m] /\ home[c] # Gone => Times(c, m) = 1
  BY DEF DeliveredOnce
<1>1. OnceInv(m, c)
  BY DEF FeedInv
<1>2. Times(c, m) <= 1 /\ (Occurs(m, received[c]) => Times(c, m) = 1)
  BY <1>1, TimesOfOnce DEF OnceInv
<1>3. ASSUME IsDelivered(m), c \in owed[m], home[c] # Gone PROVE Occurs(m, received[c])
  <2>1. State(m) \in {"told", "relayed"}
    BY <1>3 DEF IsDelivered, State
  <2>2. PICK v \in Workers : home[c] = v /\ SomeWay(m, c, v)
    BY <1>1, <1>3, <2>1 DEF OnceInv
  <2>3. ~Occurs(m, channel[v]) /\ ~Sends(v, c, m) /\ ~Sends(m, c, m)
    BY <1>3 DEF IsDelivered, Occurs, Sends, Senders
  <2>4. ~Falls(m, v)
    BY <2>1 DEF Falls
  <2> QED BY <2>2, <2>3, <2>4 DEF SomeWay
<1> QED BY <1>2, <1>3

LEMMA OneOrderHolds == FeedTypes /\ FeedInv /\ OrderInv => RelayedInOneOrder
<1>. SUFFICES ASSUME FeedTypes, FeedInv, OrderInv, NEW m \in ThroughRedis, NEW n \in ThroughRedis,
                     NEW c \in Clients, NEW d \in Clients,
                     ComesBefore(c, m, n), ComesBefore(d, n, m)
              PROVE  FALSE
  BY DEF RelayedInOneOrder, ThroughRedis, State
<1>1. Follows(m, n, received[c]) /\ Follows(n, m, received[d])
  BY DEF ComesBefore, Follows
<1>2. CASE m = n
  <2>1. AtMostOnce(m, received[c])
    BY DEF FeedInv, OnceInv, ThroughRedis
  <2>2. PICK i, j \in DOMAIN received[c] : received[c][i] = m /\ received[c][j] = m /\ i < j
    BY <1>1, <1>2 DEF Follows
  <2>3. i = j /\ i \in Nat
    BY <2>1, <2>2 DEF AtMostOnce, FeedTypes
  <2> QED BY <2>2, <2>3
<1>3. CASE m # n
  <2>1. Precedes(m, n) /\ Precedes(n, m)
    BY <1>1 DEF Precedes, HasAhead
  <2> QED BY <1>3, <2>1 DEF OrderInv
<1> QED BY <1>2, <1>3

LEMMA FeedAlways == FeedSpec => [](FeedTypes /\ FeedInv /\ OrderInv)
<1>1. FeedInit => FeedTypes /\ FeedInv /\ OrderInv
  BY FeedInitTypes, FeedInvInit
<1>2. FeedTypes /\ FeedInv /\ OrderInv /\ [FeedNext]_feedVars => (FeedTypes /\ FeedInv /\ OrderInv)'
  BY FeedStep
<1> QED BY <1>1, <1>2, PTL DEF FeedSpec

\* However the clients come and go, the listeners die and the publishes fail,
\* nobody has a message twice and whoever is owed it has it once, unless a
\* failure fell into its own relay (ws_manager's publish, _listen_pubsub and
\* broadcast_in_memory).
THEOREM FeedDeliversOnce == FeedSpec => []DeliveredOnce
BY FeedAlways, DeliveredOnceHolds, PTL

\* Whatever worker they are connected to, and however slow the others are, two
\* clients never have two messages that went through Redis in opposite orders
\* (each listener takes one message at a time).
THEOREM FeedKeepsOneOrder == FeedSpec => []RelayedInOneOrder
BY FeedAlways, OneOrderHolds, PTL

-----------------------------------------------------------------------------
(* The model registry                                                       *)

Calls == [pc : {"idle", "hit", "lock", "room", "evict", "unload", "load", "loaded"},
          model : Models \union {NoModel}, others : SUBSET Models,
          victim : Models \union {NoModel}]

\* A thread between get()'s first look and its return.
Asks(g) == g.pc # "idle" => g.model \in Models

\* A thread that holds its model's lock, and one that has yet to load it.
Holds(g) == g.pc \in {"room", "evict", "unload", "load", "loaded"}
HasToLoad(g) == g.pc \in {"room", "evict", "unload", "load"}
Evicts(g) == g.pc \in {"evict", "unload"}

RegistryTypes ==
  /\ cap \in Nat /\ crowd \in Nat
  /\ resident \subseteq Models
  /\ lock \in [Models -> Threads \union {NoThread}]
  /\ getting \in [Threads -> Calls]
  /\ \A t \in Threads : Asks(getting[t])

\* Locks are held by the steps that need them; a model that is being loaded is
\* not resident, and what a thread finds loaded stays so while it evicts, since
\* only the holder of the manager's lock unloads.
LockInv ==
  /\ \A t \in Threads : Holds(getting[t]) => lock[getting[t].model] = t
  /\ \A m \in Models, t \in Threads :
       lock[m] = t => getting[t].model = m /\ Holds(getting[t])
  /\ \A t \in Threads : HasToLoad(getting[t]) => getting[t].model \notin resident
  /\ \A t \in Threads : Evicts(getting[t]) => manager = t /\ getting[t].others \subseteq resident
  /\ \A t \in Threads : getting[t].pc = "unload" => getting[t].victim \in getting[t].others

RegistryInv == RegistryTypes /\ LockInv

\* What a step of one thread does to the records of all.
LEMMA Went ==
  ASSUME RegistryTypes, NEW t \in Threads, NEW step \in Calls, Asks(step), Goes(t, step)
  PROVE  /\ getting' \in [Threads -> Calls]
         /\ \A u \in Threads : getting'[u] = IF u = t THEN step ELSE getting[u]
         /\ \A u \in Threads : Asks(getting'[u])
         /\ crowd' \in Nat /\ crowd' >= crowd
         /\ Cardinality(PastListing(getting')) <= crowd'
<1>1. /\ getting' \in [Threads -> Calls]
      /\ \A u \in Threads : getting'[u] = IF u = t THEN step ELSE getting[u]
  BY DEF RegistryTypes, Goes
<1>2. Cardinality(PastListing(getting')) \in Nat
  <2>1. PastListing(getting') \in SUBSET Threads
    BY DEF PastListing
  <2>. QED  BY <2>1, RegistryAssumption, FS_Subset, FS_CardinalityType
<1>. QED  BY <1>1, <1>2 DEF RegistryTypes, Goes

LEMMA RegistryInvInit == RegistryInit => RegistryInv
BY RegistryAssumption
DEF RegistryInit, RegistryInv, RegistryTypes, LockInv, Idle, At, Calls, Asks, Holds, HasToLoad, Evicts

LEMMA RegistryStep == RegistryInv /\ [RegistryNext]_registryVars => RegistryInv'
<1>. SUFFICES ASSUME RegistryInv, [RegistryNext]_registryVars PROVE RegistryInv'
  OBVIOUS
<1>. USE DEF RegistryInv, LockInv, Holds, HasToLoad, Evicts
<1>1. CASE UNCHANGED registryVars
  BY <1>1 DEF registryVars, RegistryTypes
<1>2. CASE RegistryNext
  <2>. PICK t \in Threads :
         \/ \E m \in Models : Get(t, m)
         \/ FastReturn(t) \/ LockAndReturn(t) \/ LockAndLoad(t)
         \/ ListOthers(t) \/ ChooseVictim(t) \/ Unload(t) \/ RoomMade(t)
         \/ Load(t) \/ LoadFails(t) \/ Return(t)
    BY <1>2 DEF RegistryNext
  <2>g. /\ getting[t] \in Calls /\ Asks(getting[t])
        /\ getting[t].model \in Models \union {NoModel}
        /\ getting[t].others \in SUBSET Models
    BY DEF RegistryTypes, Calls
  <2>i. Idle \in Calls /\ Asks(Idle)
    BY DEF Idle, At, Calls, Asks
  <2>1. ASSUME NEW m \in Models, Get(t, m) PROVE RegistryInv'
    <3> DEFINE step == At(IF m \in resident THEN "hit" ELSE "lock", m, {}, NoModel)
    <3>1. step \in Calls /\ Asks(step) /\ ~Holds(step) /\ Goes(t, step) /\ getting[t].pc = "idle"
      BY <2>1 DEF Get, At, Calls, Asks
    <3>. HIDE DEF step
    <3>2. UNCHANGED <<cap, resident, lock, manager>>
      BY <2>1 DEF Get
    <3>. QED  BY <3>1, <3>2, Went DEF RegistryTypes
  <2>2. CASE FastReturn(t)
    BY <2>2, <2>i, Went DEF FastReturn, RegistryTypes, Idle, At
  <2>3. CASE LockAndReturn(t)
    BY <2>3, <2>i, Went DEF LockAndReturn, RegistryTypes, Idle, At
  <2>4. CASE LockAndLoad(t)
    <3> DEFINE m == getting[t].model
    <3> DEFINE step == At(IF cap = 0 THEN "load" ELSE "room", m, {}, NoModel)
    <3>1. /\ getting[t].pc = "lock" /\ m \in Models
          /\ lock[m] = NoThread /\ m \notin resident
      BY <2>4, <2>g DEF LockAndLoad, Asks
    <3>2. /\ step \in Calls /\ Asks(step) /\ HasToLoad(step) /\ ~Evicts(step)
          /\ step.model = m /\ step.pc # "unload" /\ Goes(t, step)
      BY <2>4, <3>1 DEF LockAndLoad, At, Calls, Asks
    <3>3. \A n \in Models : lock'[n] = IF n = m THEN t ELSE lock[n]
      BY <2>4 DEF LockAndLoad, RegistryTypes
    <3>4. UNCHANGED <<cap, resident, manager>> /\ lock' \in [Models -> Threads \union {NoThread}]
      BY <2>4 DEF LockAndLoad, RegistryTypes
    <3>. HIDE DEF step
    <3>5. \A u \in Threads : Holds(getting[u]) => getting[u].model \in Models \ {m}
      BY <3>1, RegistryAssumption DEF RegistryTypes, Asks
    <3>. QED  BY <3>1, <3>2, <3>3, <3>4, <3>5, Went, RegistryAssumption DEF RegistryTypes
  <2>5. CASE ListOthers(t)
    <3> DEFINE step == At("evict", getting[t].model, Others(getting[t].model), NoModel)
    <3>1. /\ step \in Calls /\ Asks(step) /\ step.pc = "evict" /\ Goes(t, step)
          /\ step.model = getting[t].model /\ step.others \subseteq resident
      BY <2>5, <2>g DEF ListOthers, At, Calls, Asks, Others, RegistryTypes
    <3>. HIDE DEF step
    <3>2. /\ getting[t].pc = "room" /\ manager = NoThread /\ manager' = t
          /\ UNCHANGED <<cap, resident, lock>>
      BY <2>5 DEF ListOthers
    <3>. QED  BY <3>1, <3>2, Went, RegistryAssumption DEF RegistryTypes
  <2>6. CASE ChooseVictim(t)
    <3>1. PICK v \in getting[t].others :
            Goes(t, [getting[t] EXCEPT !.pc = "unload", !.victim = v])
      BY <2>6 DEF ChooseVictim
    <3> DEFINE step == [getting[t] EXCEPT !.pc = "unload", !.victim = v]
    <3>2. /\ step \in Calls /\ Asks(step) /\ step.pc = "unload" /\ step.victim = v
          /\ step.model = getting[t].model /\ step.others = getting[t].others
          /\ Goes(t, step)
      BY <3>1, <2>6, <2>g DEF ChooseVictim, Calls, Asks
    <3>. HIDE DEF step
    <3>3. getting[t].pc = "evict" /\ UNCHANGED <<cap, resident, lock, manager>>
      BY <2>6 DEF ChooseVictim
    <3>. QED  BY <3>2, <3>3, Went DEF RegistryTypes
  <2>7. CASE Unload(t)
    <3> DEFINE v == getting[t].victim
    <3> DEFINE step == At("evict", getting[t].model, getting[t].others \ {v}, NoModel)
    <3>1. /\ step \in Calls /\ Asks(step) /\ step.pc = "evict" /\ Goes(t, step)
          /\ step.model = getting[t].model /\ step.others = getting[t].others \ {v}
      BY <2>7, <2>g DEF Unload, At, Calls, Asks
    <3>. HIDE DEF step
    <3>2. /\ getting[t].pc = "unload" /\ resident' = resident \ {v}
          /\ UNCHANGED <<cap, lock, manager>>
      BY <2>7 DEF Unload
    <3>. QED  BY <3>1, <3>2, Went DEF RegistryTypes
  <2>8. CASE RoomMade(t)
    <3> DEFINE step == At("load", getting[t].model, {}, NoModel)
    <3>1. /\ step \in Calls /\ Asks(step) /\ step.pc = "load" /\ Goes(t, step)
          /\ step.model = getting[t].model
      BY <2>8, <2>g DEF RoomMade, At, Calls, Asks
    <3>. HIDE DEF step
    <3>2. /\ getting[t].pc = "evict" /\ manager' = NoThread
          /\ UNCHANGED <<cap, resident, lock>>
      BY <2>8 DEF RoomMade
    <3>. QED  BY <3>1, <3>2, Went DEF RegistryTypes
  <2>9. CASE Load(t)
    <3> DEFINE step == [getting[t] EXCEPT !.pc = "loaded"]
    <3>1. /\ step \in Calls /\ Asks(step) /\ step.pc = "loaded" /\ Goes(t, step)
          /\ step.model = getting[t].model
      BY <2>9, <2>g DEF Load, Calls, Asks
    <3>. HIDE DEF step
    <3>2. /\ getting[t].pc = "load" /\ resident' = resident \union {getting[t].model}
          /\ UNCHANGED <<cap, lock, manager>> /\ getting[t].model \in Models
      BY <2>9, <2>g DEF Load, Asks
    <3>3. \A u \in Threads \ {t} : HasToLoad(getting[u]) => getting[u].model # getting[t].model
      BY <3>2
    <3>. QED  BY <3>1, <3>2, <3>3, Went DEF RegistryTypes
  <2>10. CASE LoadFails(t) \/ Return(t)
    <3>1. /\ Goes(t, Idle) /\ Holds(getting[t]) /\ ~Evicts(getting[t])
          /\ lock' = [lock EXCEPT ![getting[t].model] = NoThread]
          /\ UNCHANGED <<cap, resident, manager>> /\ getting[t].model \in Models
      BY <2>10, <2>g DEF LoadFails, Return, Asks
    <3>2. \A n \in Models : lock'[n] = IF n = getting[t].model THEN NoThread ELSE lock[n]
      BY <3>1 DEF RegistryTypes
    <3>3. \A u \in Threads \ {t} :
            Holds(getting[u]) => getting[u].model \in Models /\ getting[u].model # getting[t].model
      BY <3>1 DEF RegistryTypes, Asks
    <3>4. lock' \in [Models -> Threads \union {NoThread}] /\ Idle.pc = "idle"
      BY <3>1 DEF RegistryTypes, Idle, At
    <3>. QED  BY <3>1, <3>2, <3>3, <3>4, <2>i, Went, RegistryAssumption DEF RegistryTypes
  <2>. QED  BY <2>1, <2>2, <2>3, <2>4, <2>5, <2>6, <2>7, <2>8, <2>9, <2>10
<1>. QED  BY <1>1, <1>2

\* A thread that waits while it evicts waits for one that is about to return:
\* get() and make_room_for() cannot deadlock, with however many threads.
THEOREM LocksStayOrdered == RegistrySpec => []LocksAreOrdered
<1>1. RegistryInv => LocksAreOrdered
  <2>. SUFFICES ASSUME RegistryInv, NEW t \in Threads, NEW u \in Threads,
                       getting[t].pc = "unload", lock[getting[t].victim] = u
                PROVE  getting[u].pc = "loaded"
    BY DEF LocksAreOrdered
  <2>1. getting[t].victim \in resident /\ getting[t].victim \in Models
    BY DEF RegistryInv, RegistryTypes, LockInv, Evicts
  <2>2. getting[u].model = getting[t].victim /\ Holds(getting[u])
    BY <2>1 DEF RegistryInv, LockInv
  <2>3. ~HasToLoad(getting[u])
    BY <2>1, <2>2 DEF RegistryInv, LockInv
  <2>. QED  BY <2>2, <2>3 DEF Holds, HasToLoad
<1>. QED  BY <1>1, RegistryInvInit, RegistryStep, PTL DEF RegistrySpec

-----------------------------------------------------------------------------
(* How many models can be resident.                                         *)

Loading(g) == {t \in Threads : g[t].pc = "load"}

\* The loads under way will exceed the configured number by less than the
\* threads that have listed the loaded models at the same time: a list misses
\* what was loaded after it was taken, by threads that were past theirs then.
CrowdInv ==
  cap > 0 =>
    /\ Cardinality(resident) + Cardinality(Loading(getting)) < cap + crowd
    /\ \A t \in Threads : Evicts(getting[t]) =>
         Cardinality(resident \ getting[t].others) + Cardinality(Loading(getting)) < crowd

\* The sets counted are finite.
LEMMA Countable ==
  ASSUME RegistryTypes
  PROVE  /\ IsFiniteSet(resident) /\ Cardinality(resident) \in Nat
         /\ IsFiniteSet(Loading(getting)) /\ Cardinality(Loading(getting)) \in Nat
         /\ \A S : /\ IsFiniteSet(resident \ S)
                   /\ Cardinality(resident \ S) \in Nat
<1>1. resident \in SUBSET Models /\ Loading(getting) \in SUBSET Threads
  BY DEF RegistryTypes, Loading
<1>2. IsFiniteSet(resident) /\ IsFiniteSet(Loading(getting))
  BY <1>1, FS_Subset, RegistryAssumption
<1>3. \A S : IsFiniteSet(resident \ S)
  BY <1>2, FS_Difference
<1>. QED  BY <1>2, <1>3, FS_CardinalityType

\* How a step of one thread changes the number of those that load.
LEMMA LoadingChanges ==
  ASSUME RegistryTypes, NEW t \in Threads, NEW step,
         \A u \in Threads : getting'[u] = IF u = t THEN step ELSE getting[u]
  PROVE  /\ (getting[t].pc = "load" <=> step.pc = "load") =>
              Loading(getting') = Loading(getting)
         /\ getting[t].pc # "load" /\ step.pc = "load" =>
              Cardinality(Loading(getting')) = Cardinality(Loading(getting)) + 1
         /\ getting[t].pc = "load" /\ step.pc # "load" =>
              Cardinality(Loading(getting')) = Cardinality(Loading(getting)) - 1
<1>1. CASE getting[t].pc = "load" <=> step.pc = "load"
  BY <1>1 DEF Loading
<1>2. CASE getting[t].pc # "load" /\ step.pc = "load"
  <2>1. Loading(getting') = Loading(getting) \union {t} /\ t \notin Loading(getting)
    BY <1>2 DEF Loading
  <2>. QED  BY <1>2, <2>1, Countable, FS_AddElement
<1>3. CASE getting[t].pc = "load" /\ step.pc # "load"
  <2>1. Loading(getting') = Loading(getting) \ {t} /\ t \in Loading(getting)
    BY <1>3 DEF Loading
  <2>. QED  BY <1>3, <2>1, Countable, FS_RemoveElement
<1>. QED  BY <1>1, <1>2, <1>3

\* Steps that neither load nor list nor unload.
LEMMA QuietStep ==
  ASSUME RegistryInv, CrowdInv, NEW t \in Threads, NEW step \in Calls, Asks(step), Goes(t, step),
         UNCHANGED <<cap, resident>>,
         step.pc # "load",
         Evicts(step) => Evicts(getting[t]) /\ step.others = getting[t].others
  PROVE  CrowdInv'
<1>1. /\ \A u \in Threads : getting'[u] = IF u = t THEN step ELSE getting[u]
      /\ crowd' \in Nat /\ crowd' >= crowd /\ crowd \in Nat /\ cap \in Nat
  BY Went DEF RegistryInv, RegistryTypes
<1>2. /\ Cardinality(Loading(getting')) \in Nat
      /\ Cardinality(Loading(getting')) <= Cardinality(Loading(getting))
      /\ Cardinality(Loading(getting)) \in Nat /\ Cardinality(resident) \in Nat
  <2>1. getting[t].pc = "load" => Cardinality(Loading(getting)) # 0
    <3>1. getting[t].pc = "load" => Loading(getting) # {}
      BY DEF Loading
    <3>. QED  BY <3>1, Countable, FS_EmptySet DEF RegistryInv
  <2>. QED  BY <1>1, <2>1, LoadingChanges, Countable DEF RegistryInv
<1>3. ASSUME cap > 0, NEW u \in Threads, Evicts(getting'[u])
      PROVE  Cardinality(resident \ getting'[u].others) + Cardinality(Loading(getting')) < crowd'
  <2>1. Evicts(getting[u]) /\ getting'[u].others = getting[u].others
    BY <1>1, <1>3
  <2>2. Cardinality(resident \ getting[u].others) \in Nat
    BY Countable DEF RegistryInv
  <2>. QED  BY <1>1, <1>2, <1>3, <2>1, <2>2 DEF CrowdInv
<1>. QED  BY <1>1, <1>2, <1>3 DEF CrowdInv

LEMMA CrowdStep == RegistryInv /\ RegistryInv' /\ CrowdInv /\ [RegistryNext]_registryVars => CrowdInv'
<1>. SUFFICES ASSUME RegistryInv, RegistryInv', CrowdInv, [RegistryNext]_registryVars
              PROVE  CrowdInv'
  OBVIOUS
<1>1. CASE UNCHANGED registryVars
  BY <1>1 DEF registryVars, CrowdInv, Loading
<1>2. CASE RegistryNext
  <2>. PICK t \in Threads :
         \/ \E m \in Models : Get(t, m)
         \/ FastReturn(t) \/ LockAndReturn(t) \/ LockAndLoad(t)
         \/ ListOthers(t) \/ ChooseVictim(t) \/ Unload(t) \/ RoomMade(t)
         \/ Load(t) \/ LoadFails(t) \/ Return(t)
    BY <1>2 DEF RegistryNext
  <2>. DEFINE g == getting[t]
              L == Cardinality(Loading(getting))
              L2 == Cardinality(Loading(getting'))
              R == Cardinality(resident)
  <2>g. /\ g \in Calls /\ Asks(g) /\ g.model \in Models \union {NoModel} /\ g.others \in SUBSET Models
    BY DEF RegistryInv, RegistryTypes, Calls
  <2>i. Idle \in Calls /\ Asks(Idle) /\ Idle.pc = "idle"
    BY DEF Idle, At, Calls, Asks
  <2>n. L \in Nat /\ R \in Nat /\ crowd \in Nat /\ cap \in Nat
    BY Countable DEF RegistryInv, RegistryTypes
  <2>1. ASSUME NEW m \in Models, Get(t, m) PROVE CrowdInv'
    <3> DEFINE step == At(IF m \in resident THEN "hit" ELSE "lock", m, {}, NoModel)
    <3>1. /\ step \in Calls /\ Asks(step) /\ Goes(t, step) /\ step.pc \in {"hit", "lock"}
          /\ UNCHANGED <<cap, resident>>
      BY <2>1 DEF Get, At, Calls, Asks
    <3>. QED  BY <3>1, QuietStep DEF Evicts
  <2>2. CASE FastReturn(t) \/ LockAndReturn(t) \/ LoadFails(t) \/ Return(t)
    <3>1. Goes(t, Idle) /\ UNCHANGED <<cap, resident>>
      BY <2>2 DEF FastReturn, LockAndReturn, LoadFails, Return
    <3>. QED  BY <3>1, <2>i, QuietStep DEF Evicts
  <2>3. CASE LockAndLoad(t)
    <3>1. CASE cap = 0
      BY <2>3, <3>1 DEF LockAndLoad, CrowdInv
    <3>2. CASE cap # 0
      <4> DEFINE step == At("room", g.model, {}, NoModel)
      <4>1. /\ step \in Calls /\ Asks(step) /\ Goes(t, step) /\ step.pc = "room"
            /\ UNCHANGED <<cap, resident>>
        BY <2>3, <2>g, <3>2 DEF LockAndLoad, At, Calls, Asks
      <4>. QED  BY <4>1, QuietStep DEF Evicts
    <3>. QED  BY <3>1, <3>2
  <2>4. CASE ChooseVictim(t)
    <3>1. PICK v \in g.others : Goes(t, [g EXCEPT !.pc = "unload", !.victim = v])
      BY <2>4 DEF ChooseVictim
    <3> DEFINE step == [g EXCEPT !.pc = "unload", !.victim = v]
    <3>2. /\ step \in Calls /\ Asks(step) /\ Goes(t, step) /\ step.pc = "unload"
          /\ step.others = g.others /\ g.pc = "evict" /\ UNCHANGED <<cap, resident>>
      BY <3>1, <2>4, <2>g DEF ChooseVictim, Calls, Asks
    <3>. HIDE DEF step
    <3>. QED  BY <3>2, QuietStep DEF Evicts
  <2>5. CASE ListOthers(t)
    <3> DEFINE step == At("evict", g.model, Others(g.model), NoModel)
    <3>1. /\ step \in Calls /\ Asks(step) /\ step.pc = "evict" /\ Goes(t, step)
          /\ step.others = resident \ {g.model} /\ g.pc = "room" /\ manager = NoThread
          /\ UNCHANGED <<cap, resident>>
      BY <2>5, <2>g DEF ListOthers, At, Calls, Asks, Others, RegistryInv, RegistryTypes
    <3>. HIDE DEF step
    <3>2. /\ \A u \in Threads : getting'[u] = IF u = t THEN step ELSE getting[u]
          /\ crowd' \in Nat /\ crowd' >= crowd
          /\ Cardinality(PastListing(getting')) <= crowd'
      BY <3>1, Went DEF RegistryInv
    <3>3. Loading(getting') = Loading(getting) /\ t \notin Loading(getting)
      BY <3>1, <3>2 DEF Loading
    <3>4. L + 1 <= crowd'
      <4>1. Loading(getting) \union {t} \in SUBSET PastListing(getting')
        BY <3>1, <3>2, <3>3 DEF Loading, PastListing
      <4>2. IsFiniteSet(PastListing(getting')) /\ Cardinality(PastListing(getting')) \in Nat
        <5>1. PastListing(getting') \in SUBSET Threads
          BY DEF PastListing
        <5>. QED  BY <5>1, FS_Subset, FS_CardinalityType, RegistryAssumption
      <4>3. Cardinality(Loading(getting) \union {t}) = L + 1
        BY <3>3, Countable, FS_AddElement DEF RegistryInv
      <4>4. Cardinality(Loading(getting) \union {t}) <= Cardinality(PastListing(getting'))
        BY <4>1, <4>2, FS_Subset
      <4>. QED  BY <4>2, <4>3, <4>4, <3>2, <2>n
    <3>5. \A u \in Threads : Evicts(getting'[u]) => u = t
      BY <3>1, <3>2, RegistryAssumption DEF RegistryInv, LockInv
    <3>6. resident \ step.others = {}
      BY <3>1, <2>g DEF RegistryInv, LockInv, HasToLoad
    <3>7. Cardinality(resident \ step.others) = 0
      BY <3>6, FS_EmptySet
    <3>8. L2 = L /\ cap' = cap /\ resident' = resident /\ getting'[t].others = step.others
      BY <3>1, <3>2, <3>3
    <3>9. cap > 0 => R + L < cap + crowd
      BY DEF CrowdInv
    <3>10. cap > 0 => R + L2 < cap + crowd'
      BY <3>2, <3>8, <3>9, <2>n
    <3>11. 0 + L2 < crowd'
      BY <3>2, <3>4, <3>8, <2>n
    <3>. QED  BY <3>5, <3>7, <3>8, <3>10, <3>11 DEF CrowdInv
  <2>6. CASE Unload(t)
    <3> DEFINE v == g.victim
    <3> DEFINE step == At("evict", g.model, g.others \ {v}, NoModel)
    <3>1. /\ step \in Calls /\ Asks(step) /\ step.pc = "evict" /\ Goes(t, step)
          /\ step.others = g.others \ {v} /\ g.pc = "unload"
          /\ resident' = resident \ {v} /\ cap' = cap
      BY <2>6, <2>g DEF Unload, At, Calls, Asks
    <3>. HIDE DEF step
    <3>2. /\ \A u \in Threads : getting'[u] = IF u = t THEN step ELSE getting[u]
          /\ crowd' \in Nat /\ crowd' >= crowd
      BY <3>1, Went DEF RegistryInv
    <3>3. Loading(getting') = Loading(getting)
      BY <3>1, <3>2 DEF Loading
    <3>4. v \in g.others /\ v \in resident /\ Evicts(g)
      BY <3>1 DEF RegistryInv, LockInv, Evicts
    <3>5. \A u \in Threads : Evicts(getting'[u]) => u = t
      BY <3>1, <3>2, <3>4, RegistryAssumption DEF RegistryInv, LockInv
    <3>6. resident' \ step.others = resident \ g.others
      BY <3>1, <3>4
    <3>7. Cardinality(resident') = R - 1
      BY <3>1, <3>4, Countable, FS_RemoveElement DEF RegistryInv
    <3>8. Cardinality(resident \ g.others) \in Nat
      BY Countable DEF RegistryInv
    <3>9. cap > 0 => R + L < cap + crowd /\ Cardinality(resident \ g.others) + L < crowd
      BY <3>4 DEF CrowdInv
    <3>10. L2 = L /\ getting'[t].others = step.others
      BY <3>2, <3>3
    <3>11. cap > 0 => Cardinality(resident') + L2 < cap + crowd'
      BY <3>2, <3>7, <3>9, <3>10, <2>n
    <3>12. cap > 0 => Cardinality(resident' \ step.others) + L2 < crowd'
      <4>1. Cardinality(resident' \ step.others) = Cardinality(resident \ g.others)
        BY <3>6
      <4>. HIDE DEF g, L, L2
      <4>. QED  BY <4>1, <3>2, <3>8, <3>9, <3>10, <2>n
    <3>. QED  BY <3>1, <3>5, <3>10, <3>11, <3>12 DEF CrowdInv
  <2>7. CASE RoomMade(t)
    <3> DEFINE step == At("load", g.model, {}, NoModel)
    <3>1. /\ step \in Calls /\ Asks(step) /\ step.pc = "load" /\ Goes(t, step)
          /\ g.pc = "evict" /\ ~IsFull(g.others) /\ UNCHANGED <<cap, resident>>
      BY <2>7, <2>g DEF RoomMade, At, Calls, Asks
    <3>. HIDE DEF step
    <3>2. /\ \A u \in Threads : getting'[u] = IF u = t THEN step ELSE getting[u]
          /\ crowd' \in Nat /\ crowd' >= crowd
      BY <3>1, Went DEF RegistryInv
    <3>3. L2 = L + 1
      BY <3>1, <3>2, LoadingChanges DEF RegistryInv
    <3>4. Evicts(g) /\ g.others \subseteq resident
      BY <3>1 DEF RegistryInv, LockInv, Evicts
    <3>5. \A u \in Threads : ~Evicts(getting'[u])
      BY <3>1, <3>2, <3>4, RegistryAssumption DEF RegistryInv, LockInv, Evicts
    <3>6. R = Cardinality(g.others) + Cardinality(resident \ g.others)
      <4>1. resident \intersect g.others = g.others
        BY <3>4
      <4>2. IsFiniteSet(g.others)
        BY <3>4, Countable, FS_Subset DEF RegistryInv
      <4>3. Cardinality(resident \ g.others) = R - Cardinality(resident \intersect g.others)
        BY Countable, FS_Difference DEF RegistryInv
      <4>4. Cardinality(g.others) \in Nat
        BY <4>2, FS_CardinalityType
      <4>5. Cardinality(resident \intersect g.others) = Cardinality(g.others)
        BY <4>1
      <4>. HIDE DEF g, R
      <4>. QED  BY <4>3, <4>4, <4>5, <2>n
    <3>7. Cardinality(g.others) \in Nat /\ Cardinality(resident \ g.others) \in Nat
      <4>1. IsFiniteSet(g.others)
        BY <3>4, Countable, FS_Subset DEF RegistryInv
      <4>. QED  BY <4>1, Countable, FS_CardinalityType DEF RegistryInv
    <3>8. Cardinality(g.others) < cap
      BY <3>1, <3>7, <2>n DEF IsFull
    <3>9. cap > 0 => Cardinality(resident \ g.others) + L < crowd
      BY <3>4 DEF CrowdInv
    <3>10. cap > 0 => R + L2 < cap + crowd'
      BY <3>2, <3>3, <3>6, <3>7, <3>8, <3>9, <2>n
    <3>. QED  BY <3>1, <3>5, <3>10 DEF CrowdInv
  <2>8. CASE Load(t)
    <3> DEFINE m == g.model
    <3> DEFINE step == [g EXCEPT !.pc = "loaded"]
    <3>1. /\ step \in Calls /\ Asks(step) /\ step.pc = "loaded" /\ Goes(t, step)
          /\ g.pc = "load" /\ resident' = resident \union {m} /\ cap' = cap
      BY <2>8, <2>g DEF Load, Calls, Asks
    <3>. HIDE DEF step
    <3>2. /\ \A u \in Threads : getting'[u] = IF u = t THEN step ELSE getting[u]
          /\ crowd' \in Nat /\ crowd' >= crowd
      BY <3>1, Went DEF RegistryInv
    <3>3. L2 = L - 1
      BY <3>1, <3>2, LoadingChanges DEF RegistryInv
    <3>4. m \notin resident
      BY <3>1 DEF RegistryInv, LockInv, HasToLoad
    <3>5. Cardinality(resident') = R + 1
      BY <3>1, <3>4, Countable, FS_AddElement DEF RegistryInv
    <3>6. ASSUME cap > 0, NEW u \in Threads, Evicts(getting'[u])
          PROVE  Cardinality(resident' \ getting'[u].others) + L2 < crowd'
      <4>1. Evicts(getting[u]) /\ getting'[u].others = getting[u].others
        BY <3>1, <3>2, <3>6 DEF Evicts
      <4>2. getting[u].others \subseteq resident
        BY <4>1 DEF RegistryInv, LockInv
      <4>3. resident' \ getting[u].others = (resident \ getting[u].others) \union {m}
        BY <3>1, <3>4, <4>2
      <4>4. Cardinality(resident' \ getting[u].others) = Cardinality(resident \ getting[u].others) + 1
        BY <3>4, <4>3, Countable, FS_AddElement DEF RegistryInv
      <4>5. Cardinality(resident \ getting[u].others) \in Nat
        BY Countable DEF RegistryInv
      <4>6. Cardinality(resident \ getting[u].others) + L < crowd
        BY <3>6, <4>1 DEF CrowdInv
      <4>. QED  BY <3>2, <3>3, <4>1, <4>4, <4>5, <4>6, <2>n
    <3>7. cap > 0 => Cardinality(resident') + L2 < cap' + crowd'
      BY <3>1, <3>2, <3>3, <3>5, <2>n DEF CrowdInv
    <3>. QED  BY <3>1, <3>6, <3>7 DEF CrowdInv
  <2>. QED  BY <2>1, <2>2, <2>3, <2>4, <2>5, <2>6, <2>7, <2>8
<1>. QED  BY <1>1, <1>2

\* MAX_RESIDENT_MODELS is exceeded by less than the number of threads that were
\* ever past their list of loaded models at once (model_registry's make_room_for
\* runs before the load, under a lock the load does not hold).
THEOREM OverlapsBound == RegistrySpec => []OverlapsBoundResidents
<1>1. RegistryInit => CrowdInv
  <2>. SUFFICES ASSUME RegistryInit PROVE CrowdInv
    OBVIOUS
  <2>1. Loading(getting) = {} /\ resident = {} /\ crowd = 0
        /\ \A t \in Threads : ~Evicts(getting[t])
    BY DEF RegistryInit, Loading, Idle, At, Evicts
  <2>2. cap \in Nat
    BY RegistryAssumption DEF RegistryInit
  <2>. QED  BY <2>1, <2>2, FS_EmptySet DEF CrowdInv
<1>2. RegistryInv /\ CrowdInv => OverlapsBoundResidents
  <2>. SUFFICES ASSUME RegistryInv, CrowdInv PROVE OverlapsBoundResidents
    OBVIOUS
  <2>1. /\ Cardinality(resident) \in Nat /\ Cardinality(Loading(getting)) \in Nat
        /\ cap \in Nat /\ crowd \in Nat
    BY Countable DEF RegistryInv, RegistryTypes
  <2>. QED  BY <2>1 DEF CrowdInv, OverlapsBoundResidents
<1>. QED  BY <1>1, <1>2, RegistryInvInit, RegistryStep, CrowdStep, PTL DEF RegistrySpec

-----------------------------------------------------------------------------
(* The rate limiter                                                         *)

\* A request that moves keeps the others where they are.
LEMMA Moved ==
  ASSUME LimitTypeOK, NEW q \in Submissions, NEW pc, NEW n, Moves(q, pc, n),
         pc \in {"idle", "expire", "close", "admitted", "refused"}, n \in 0..MaxCount
  PROVE  /\ submission' \in [Submissions -> Progress]
         /\ submission'[q].pc = pc
         /\ \A p \in Submissions \ {q} : submission'[p] = submission[p]
<1>1. [pc |-> pc, count |-> n] \in Progress
  BY DEF Progress
<1>. QED  BY <1>1 DEF Moves, LimitTypeOK

LEMMA LimitTypeStep == LimitTypeOK /\ [LimitNext]_limitVars => LimitTypeOK'
<1>. SUFFICES ASSUME LimitTypeOK, [LimitNext]_limitVars PROVE LimitTypeOK'
  OBVIOUS
<1>0. /\ count \in 0..MaxCount /\ 0 \in 0..MaxCount
      /\ count < MaxCount => count + 1 \in 0..MaxCount
      /\ \A q \in Submissions : submission[q].count \in 0..MaxCount
  BY LimitAssumption DEF LimitTypeOK, Progress
<1>1. CASE UNCHANGED limitVars
  BY <1>1 DEF limitVars, LimitTypeOK
<1>2. CASE WindowEnds
  BY <1>0, <1>2 DEF WindowEnds, LimitTypeOK
<1>3. ASSUME NEW q \in Submissions, Incr(q) PROVE LimitTypeOK'
  <2>1. count' \in 0..MaxCount /\ UNCHANGED <<hasExpiry, leaked>>
    BY <1>0, <1>3 DEF Incr
  <2>2. PICK pc \in {"expire", "close"} : Moves(q, pc, count')
    BY <1>3 DEF Incr
  <2>. QED  BY <2>1, <2>2, Moved DEF LimitTypeOK
<1>4. ASSUME NEW q \in Submissions, IncrFails(q) PROVE LimitTypeOK'
  BY <1>0, <1>4, Moved DEF IncrFails, LimitTypeOK
<1>5. ASSUME NEW q \in Submissions, Expire(q) PROVE LimitTypeOK'
  BY <1>0, <1>5, Moved DEF Expire, LimitTypeOK
<1>6. ASSUME NEW q \in Submissions, ExpireFails(q) PROVE LimitTypeOK'
  <2>1. submission' \in [Submissions -> Progress]
    BY <1>0, <1>6, Moved DEF ExpireFails
  <2>2. \/ leaked' = TRUE /\ UNCHANGED hasExpiry
        \/ hasExpiry' = (count > 0) /\ UNCHANGED leaked
    BY <1>6, Zenon DEF ExpireFails
  <2>3. hasExpiry' \in BOOLEAN /\ leaked' \in BOOLEAN
    <3>1. CASE leaked' = TRUE /\ hasExpiry' = hasExpiry
      BY <3>1 DEF LimitTypeOK
    <3>2. CASE hasExpiry' = (count > 0) /\ leaked' = leaked
      <4>1. (count > 0) \in BOOLEAN
        OBVIOUS
      <4>. QED  BY <3>2, <4>1, Zenon DEF LimitTypeOK
    <3>. QED  BY <2>2, <3>1, <3>2
  <2>4. count' = count
    BY <1>6 DEF ExpireFails
  <2>. QED  BY <2>1, <2>3, <2>4 DEF LimitTypeOK
<1>7. ASSUME NEW q \in Submissions, Decide(q) PROVE LimitTypeOK'
  <2>1. PICK pc \in {"refused", "admitted"} : Moves(q, pc, submission[q].count)
    BY <1>7 DEF Decide
  <2>2. submission' \in [Submissions -> Progress]
    BY <1>0, <2>1, Moved
  <2>3. UNCHANGED <<count, hasExpiry, leaked>>
    BY <1>7 DEF Decide
  <2>. QED  BY <2>2, <2>3 DEF LimitTypeOK
<1>8. ASSUME NEW q \in Submissions, CloseFails(q) PROVE LimitTypeOK'
  BY <1>0, <1>8, Moved DEF CloseFails, LimitTypeOK
<1>. QED  BY <1>1, <1>2, <1>3, <1>4, <1>5, <1>6, <1>7, <1>8 DEF LimitNext

\* Every variable keeps its type.
THEOREM LimitTypeCorrect == LimitSpec => []LimitTypeOK
<1>1. LimitInit => LimitTypeOK
  <2>1. NotSubmitted \in Progress /\ 0 \in 0..MaxCount
    BY LimitAssumption DEF NotSubmitted, Progress
  <2>. QED  BY <2>1 DEF LimitInit, LimitTypeOK
<1>. QED  BY <1>1, LimitTypeStep, PTL DEF LimitSpec

LEMMA ExpiryStep ==
  LimitTypeOK /\ CountersExpire /\ [LimitNext]_limitVars => CountersExpire'
<1>. SUFFICES ASSUME LimitTypeOK, CountersExpire, [LimitNext]_limitVars PROVE CountersExpire'
  OBVIOUS
<1>. USE DEF CountersExpire, LimitTypeOK, Moves, IsOpen
<1>1. CASE UNCHANGED limitVars
  BY <1>1 DEF limitVars
<1>2. CASE WindowEnds
  BY <1>2 DEF WindowEnds
<1>3. ASSUME NEW q \in Submissions, Incr(q) PROVE CountersExpire'
  <2>1. CASE count = 0
    <3>1. submission'[q].pc = "expire"
      BY <1>3, <2>1 DEF Incr, IsFirst
    <3>. QED  BY <3>1
  <2>2. CASE count # 0
    <3>1. \A p \in Submissions : submission[p].pc = "expire" => submission'[p].pc = "expire"
      BY <1>3 DEF Incr
    <3>. QED  BY <1>3, <2>2, <3>1 DEF Incr
  <2>. QED  BY <2>1, <2>2
<1>4. ASSUME NEW q \in Submissions, IncrFails(q) PROVE CountersExpire'
  <2>1. \A p \in Submissions : submission[p].pc = "expire" => submission'[p].pc = "expire"
    BY <1>4 DEF IncrFails
  <2>2. hasExpiry' = hasExpiry
    BY <1>4 DEF IncrFails
  <2>3. CASE UNCHANGED <<count, leaked>>
    BY <2>1, <2>2, <2>3
  <2>4. CASE count' = count + 1 /\ leaked' = (leaked \/ count = 0)
    <3>1. CASE count = 0
      BY <2>4, <3>1
    <3>2. CASE count # 0
      <4>1. leaked => leaked'
        BY <2>4
      <4>. QED  BY <2>1, <2>2, <3>2, <4>1
    <3>. QED  BY <3>1, <3>2
  <2>. QED  BY <1>4, <2>3, <2>4 DEF IncrFails
<1>5. ASSUME NEW q \in Submissions, Expire(q) \/ ExpireFails(q) PROVE CountersExpire'
  <2>1. leaked' = TRUE \/ hasExpiry' = (count > 0)
    BY <1>5, Zenon DEF Expire, ExpireFails
  <2>2. count' = count
    BY <1>5 DEF Expire, ExpireFails
  <2>3. CASE leaked' = TRUE
    BY <2>3
  <2>4. CASE hasExpiry' = (count > 0)
    <3>1. SUFFICES ASSUME count > 0 PROVE hasExpiry'
      BY <2>2
    <3>2. (count > 0) = TRUE
      BY <3>1
    <3>. QED  BY <2>4, <3>2, Zenon
  <2>. QED  BY <2>1, <2>3, <2>4
<1>6. ASSUME NEW q \in Submissions, Decide(q) \/ CloseFails(q) PROVE CountersExpire'
  <2>1. \A p \in Submissions : submission[p].pc = "expire" => submission'[p].pc = "expire"
    BY <1>6 DEF Decide, CloseFails
  <2>. QED  BY <1>6, <2>1 DEF Decide, CloseFails
<1>. QED  BY <1>1, <1>2, <1>3, <1>4, <1>5, <1>6 DEF LimitNext

\* However many submissions of an address overlap, its counter has an expiry
\* or gets one, unless a call to Redis has failed (check_sos_rate_limit sets it
\* only with the first INCR).
THEOREM CountersGetExpiry == LimitSpec => []CountersExpire
<1>1. LimitInit => CountersExpire
  BY DEF LimitInit, CountersExpire
<1>. QED  BY <1>1, LimitTypeCorrect, ExpiryStep, PTL DEF LimitSpec

-----------------------------------------------------------------------------

\* The services share nothing (ws_manager, model_registry and rate_limiter have
\* no state in common): in any behaviour of the three, each behaves as it does
\* alone, so that what is proved of it holds of all of them together.
THEOREM ServicesRunAlone == Spec => FeedSpec /\ RegistrySpec /\ LimitSpec
<1>1. Init => FeedInit /\ RegistryInit /\ LimitInit
  BY DEF Init
<1>2. [Next]_vars => [FeedNext]_feedVars /\ [RegistryNext]_registryVars /\ [LimitNext]_limitVars
  BY DEF Next, vars
<1> QED BY <1>1, <1>2, PTL DEF Spec, FeedSpec, RegistrySpec, LimitSpec

=============================================================================
