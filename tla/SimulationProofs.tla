--------------------------- MODULE SimulationProofs ---------------------------
(***************************************************************************)
(* Theorems about Simulation, for any number of workers, of open requests, *)
(* of scenarios and of their steps.                                        *)
(***************************************************************************)
EXTENDS Simulation, TLAPS

-----------------------------------------------------------------------------
(* What moving a request or a runner does                                   *)

LEMMA RequestMoves ==
  ASSUME TypeOK, NEW q \in Requests, NEW l \in RequestPCs, RequestTo(q, l)
  PROVE  /\ request' \in [Requests -> RequestSet]
         /\ request'[q] = [request[q] EXCEPT !.pc = l]
         /\ \A p \in Requests : p # q => request'[p] = request[p]
BY DEF TypeOK, RequestTo, RequestSet

LEMMA RunnerMoves ==
  ASSUME TypeOK, NEW x \in Sims, NEW l \in RunnerPCs, RunnerTo(x, l)
  PROVE  /\ runner' \in [Sims -> RunnerSet]
         /\ runner'[x] = [runner[x] EXCEPT !.pc = l]
         /\ \A y \in Sims : y # x => runner'[y] = runner[y]
BY DEF TypeOK, RunnerTo, RunnerSet

LEMMA IdleIsRequest == Idle \in RequestSet
BY DEF Idle, RequestSet, RequestPCs, SimOrNone

\* A request is over.
LEMMA RequestEnds ==
  ASSUME TypeOK, NEW q \in Requests, request' = [request EXCEPT ![q] = Idle]
  PROVE  /\ request' \in [Requests -> RequestSet]
         /\ request'[q] = Idle
         /\ \A p \in Requests : p # q => request'[p] = request[p]
BY IdleIsRequest DEF TypeOK

\* The next step of a runner that has announced what belongs to this one.
LEMMA AdvancedRunner ==
  ASSUME NEW r \in RunnerSet
  PROVE  /\ Advanced(r) \in RunnerSet
         /\ \/ Advanced(r).pc = "check" /\ Advanced(r).step = r.step + 1
            \/ Advanced(r).pc = "check_complete" /\ Advanced(r).step = r.step
               /\ r.step = Steps - 1
<1>1. r.step \in 0 .. Steps - 1 /\ Steps \in Nat
  BY StepsAreNumbers DEF RunnerSet, StepSet
<1>2. CASE r.step + 1 < Steps
  <2>1. Advanced(r) = [r EXCEPT !.pc = "check", !.step = r.step + 1]
    BY <1>2 DEF Advanced
  <2>2. r.step + 1 \in StepSet
    BY <1>1, <1>2 DEF StepSet
  <2>3. /\ [r EXCEPT !.pc = "check", !.step = r.step + 1] \in RunnerSet
        /\ [r EXCEPT !.pc = "check", !.step = r.step + 1].pc = "check"
        /\ [r EXCEPT !.pc = "check", !.step = r.step + 1].step = r.step + 1
    BY <2>2 DEF RunnerSet, RunnerPCs
  <2>. QED  BY <2>1, <2>3
<1>3. CASE ~(r.step + 1 < Steps)
  <2>1. Advanced(r) = [r EXCEPT !.pc = "check_complete"]
    BY <1>3 DEF Advanced
  <2>2. r.step = Steps - 1
    BY <1>1, <1>3
  <2>3. /\ [r EXCEPT !.pc = "check_complete"] \in RunnerSet
        /\ [r EXCEPT !.pc = "check_complete"].pc = "check_complete"
        /\ [r EXCEPT !.pc = "check_complete"].step = r.step
    BY DEF RunnerSet, RunnerPCs
  <2>. QED  BY <2>1, <2>2, <2>3
<1>. QED  BY <1>2, <1>3

-----------------------------------------------------------------------------
(* Types                                                                    *)

\* A request that is about to start a scenario has drawn an id of its own, whose
\* runner waits for it in its own worker.  (SeedUnits stores the fleet of that
\* id: without this TypeOK is not inductive.)
Starts(q) == request[q].pc \in {"activate", "seed"}

Waiting(q) == IF request[q].pc = "activate" THEN "drawn" ELSE "active"

StartInv ==
  \A q \in Requests :
    /\ ~Starts(q) => request[q].sim = NoSim
    /\ Starts(q) =>
         /\ request[q].sim \in Sims
         /\ runner[request[q].sim].pc = Waiting(q)
         /\ runner[request[q].sim].worker = request[q].worker
         /\ \A p \in Requests \ {q} : request[p].sim # request[q].sim

\* A runner that has not begun is at its first step.
NotBegun(x) == runner[x].pc \in {"none", "drawn", "active"}
FirstStepInv == \A x \in Sims : NotBegun(x) => runner[x].step = 0

SimInv == TypeOK /\ StartInv /\ FirstStepInv

LEMMA SimTypeInit == Init => TypeOK
<1>. SUFFICES ASSUME Init PROVE TypeOK
  OBVIOUS
<1>1. NotStarted \in RunnerSet
  BY StepsAreNumbers DEF NotStarted, RunnerSet, RunnerPCs, StepSet
<1>. QED  BY <1>1, IdleIsRequest DEF Init, TypeOK, SimOrNone, Inserts

\* The steps of requests.
LEMMA RequestTypes ==
  ASSUME SimInv, NEW q \in Requests, RequestStep(q) \/ FailRequest(q)
  PROVE  TypeOK'
<1>. USE DEF SimInv
<1>0. request[q] \in RequestSet /\ StepSet \subseteq Nat /\ 0 \in StepSet
  BY StepsAreNumbers DEF TypeOK, StepSet
<1>1. CASE ClearActiveId(q)
  <2>1. request' \in [Requests -> RequestSet]
    BY <1>1, RequestMoves DEF ClearActiveId, RequestPCs
  <2>. QED  BY <1>1, <2>1 DEF ClearActiveId, TypeOK, Stored, AnswersMay, FailsMay, SimOrNone, Cancels, tables
<1>2. CASE DeleteReports(q) \/ DeleteUnits(q) \/ DeleteZones(q)
  <2>1. request' \in [Requests -> RequestSet]
    <3>1. CASE DeleteReports(q)
      BY <1>0, <3>1 DEF DeleteReports, DeletedReports, TypeOK, RequestSet, RequestPCs
    <3>2. CASE DeleteUnits(q)
      BY <1>0, <3>2 DEF DeleteUnits, DeletedFleets, TypeOK, RequestSet, RequestPCs
    <3>3. CASE DeleteZones(q)
      BY <1>0, <3>3 DEF DeleteZones, TypeOK, RequestSet, RequestPCs
    <3>. QED  BY <1>2, <3>1, <3>2, <3>3
  <2>. QED  BY <1>2, <2>1 DEF DeleteReports, DeleteUnits, DeleteZones, TypeOK, tables
<1>3. CASE CommitReset(q)
  <2>1. request' \in [Requests -> RequestSet]
    BY <1>3, RequestMoves DEF CommitReset, RequestPCs
  <2>. QED  BY <1>3, <2>1 DEF CommitReset, TypeOK, tables
<1>4. CASE AnnounceReset(q)
  <2>1. request' \in [Requests -> RequestSet]
    BY <1>4, RequestEnds DEF AnnounceReset
  <2>2. announced' \subseteq MessageSet
    BY <1>4, <1>0 DEF AnnounceReset, TypeOK, Message, MessageSet, SimOrNone
  <2>. QED  BY <1>4, <2>1, <2>2 DEF AnnounceReset, TypeOK, tables
<1>5. ASSUME NEW x \in Sims, AnnounceAndDraw(q, x) PROVE TypeOK'
  <2>1. request' \in [Requests -> RequestSet]
    BY <1>5, <1>0 DEF AnnounceAndDraw, TypeOK, RequestSet, RequestPCs, SimOrNone
  <2>2. runner' \in [Sims -> RunnerSet]
    <3>1. request[q].worker \in Workers \cup {NoWorker}
      BY <1>0 DEF RequestSet
    <3>. QED  BY <1>5, <3>1 DEF AnnounceAndDraw, TypeOK, RunnerSet, RunnerPCs
  <2>3. announced' \subseteq MessageSet
    BY <1>5, <1>0 DEF AnnounceAndDraw, TypeOK, Message, MessageSet, SimOrNone
  <2>4. memory' \in [Workers -> SimOrNone]
    BY <1>5 DEF AnnounceAndDraw, TypeOK, SimOrNone
  <2>. QED  BY <1>5, <2>1, <2>2, <2>3, <2>4 DEF AnnounceAndDraw, TypeOK, tables
<1>6. CASE Activate(q)
  <2>1. request' \in [Requests -> RequestSet]
    BY <1>6, RequestMoves DEF Activate, RequestPCs
  <2>2. runner' \in [Sims -> RunnerSet]
    BY <1>6 DEF Activate, RunnerTo, TypeOK, RunnerSet, RunnerPCs
  <2>3. redis' \in SimOrNone
    BY <1>6, <1>0 DEF Activate, TypeOK, Stored, AnswersMay, FailsMay, RequestSet
  <2>4. cancelled' \subseteq Sims
    BY <1>6 DEF Activate, TypeOK, Cancels
  <2>. QED  BY <1>6, <2>1, <2>2, <2>3, <2>4 DEF Activate, TypeOK, tables
<1>7. CASE SeedUnits(q)
  <2>1. request' \in [Requests -> RequestSet]
    BY <1>7, RequestEnds DEF SeedUnits
  <2>2. runner' \in [Sims -> RunnerSet]
    BY <1>7 DEF SeedUnits, RunnerTo, TypeOK, RunnerSet, RunnerPCs
  <2>3. request[q].sim \in Sims
    BY <1>7 DEF SeedUnits, StartInv, Starts
  <2>. QED  BY <1>7, <2>1, <2>2, <2>3 DEF SeedUnits, TypeOK
<1>8. CASE FailRequest(q)
  <2>1. request' \in [Requests -> RequestSet]
    BY <1>8, RequestEnds DEF FailRequest
  <2>2. runner' \in [Sims -> RunnerSet]
    BY <1>8 DEF FailRequest, TypeOK, RunnerSet, RunnerPCs
  <2>. QED  BY <1>8, <2>1, <2>2 DEF FailRequest, TypeOK, tables
<1>. QED  BY <1>1, <1>2, <1>3, <1>4, <1>5, <1>6, <1>7, <1>8 DEF RequestStep

\* The steps of runners.
LEMMA RunnerTypes ==
  ASSUME TypeOK, NEW x \in Sims, RunnerStep(x) \/ FailRunner(x)
  PROVE  TypeOK'
<1>0. runner[x] \in RunnerSet /\ runner[x].step \in StepSet /\ 0 \in StepSet
  BY StepsAreNumbers DEF TypeOK, RunnerSet, StepSet
<1>1. CASE Check(x) \/ CheckComplete(x) \/ FailRunner(x) \/ Complete(x)
  <2>1. PICK l \in RunnerPCs : RunnerTo(x, l)
    BY <1>1 DEF Check, CheckComplete, FailRunner, Complete, RunnerPCs
  <2>2. runner' \in [Sims -> RunnerSet]
    BY <2>1, RunnerMoves
  <2>. QED  BY <1>1, <2>2 DEF Check, CheckComplete, FailRunner, Complete, TypeOK, tables
<1>2. CASE Insert(x)
  <2>1. runner' \in [Sims -> RunnerSet]
    BY <1>2, RunnerMoves DEF Insert, RunnerPCs
  <2>2. reports' \subseteq Inserts
    BY <1>2, <1>0 DEF Insert, Committed, TypeOK, Inserts
  <2>3. late' \subseteq {"report", "zone"} \X Sims \X StepSet
    BY <1>2, <1>0 DEF Insert, Late, TypeOK
  <2>. QED  BY <1>2, <2>1, <2>2, <2>3 DEF Insert, TypeOK
<1>3. CASE ExpandZone(x)
  <2>1. runner' \in [Sims -> RunnerSet]
    BY <1>3, RunnerMoves DEF ExpandZone, RunnerPCs
  <2>2. zones' \subseteq Inserts
    BY <1>3, <1>0 DEF ExpandZone, TypeOK, Inserts
  <2>3. late' \subseteq {"report", "zone"} \X Sims \X StepSet
    BY <1>3, <1>0 DEF ExpandZone, Late, TypeOK
  <2>. QED  BY <1>3, <2>1, <2>2, <2>3 DEF ExpandZone, TypeOK
<1>4. CASE Announce(x)
  <2>1. runner' \in [Sims -> RunnerSet]
    <3>1. PICK r \in RunnerSet : runner' = [runner EXCEPT ![x] = r]
      BY <1>4, <1>0, AdvancedRunner, [runner[x] EXCEPT !.pc = "announce_confirmed"] \in RunnerSet,
         [runner[x] EXCEPT !.pc = "zone"] \in RunnerSet DEF Announce, RunnerSet, RunnerPCs
    <3>. QED  BY <3>1 DEF TypeOK
  <2>2. announced' \subseteq MessageSet
    BY <1>4, <1>0 DEF Announce, TypeOK, Message, MessageSet, SimOrNone
  <2>. QED  BY <1>4, <2>1, <2>2 DEF Announce, TypeOK, tables
<1>5. CASE AnnounceComplete(x)
  <2>1. runner' \in [Sims -> RunnerSet]
    BY <1>5, RunnerMoves DEF AnnounceComplete, RunnerPCs
  <2>2. announced' \subseteq MessageSet
    BY <1>5, <1>0 DEF AnnounceComplete, TypeOK, Message, MessageSet, SimOrNone
  <2>. QED  BY <1>5, <2>1, <2>2 DEF AnnounceComplete, TypeOK, tables
<1>6. CASE Final(x) \/ FinalClear(x)
  <2>1. PICK l \in RunnerPCs : RunnerTo(x, l)
    BY <1>6 DEF Final, FinalClear, RunnerPCs
  <2>2. runner' \in [Sims -> RunnerSet]
    BY <2>1, RunnerMoves
  <2>3. memory' \in [Workers -> SimOrNone] /\ redis' \in SimOrNone
    BY <1>6 DEF Final, FinalClear, TypeOK, SimOrNone, Stored, AnswersMay, FailsMay
  <2>. QED  BY <1>6, <2>2, <2>3 DEF Final, FinalClear, TypeOK, tables
<1>. QED  BY <1>1, <1>2, <1>3, <1>4, <1>5, <1>6 DEF RunnerStep

\* A new request, and the death of a worker.
LEMMA ResetTypes ==
  ASSUME TypeOK, NEW q \in Requests, NEW w \in Workers, NEW triggers \in BOOLEAN,
         Reset(q, w, triggers)
  PROVE  TypeOK'
<1>1. [Idle EXCEPT !.pc = "clear", !.worker = w, !.triggers = triggers] \in RequestSet
  BY DEF Idle, RequestSet, RequestPCs, SimOrNone
<1>2. request' \in [Requests -> RequestSet]
  BY <1>1 DEF Reset, TypeOK
<1>3. memory' \in [Workers -> SimOrNone]
  BY DEF Reset, TypeOK, SimOrNone
<1>. QED  BY <1>2, <1>3 DEF Reset, TypeOK, tables

LEMMA CrashTypes == ASSUME TypeOK, NEW w \in Workers, Crash(w) PROVE TypeOK'
<1>1. request' \in [Requests -> RequestSet]
  BY IdleIsRequest DEF Crash, TypeOK
<1>2. runner' \in [Sims -> RunnerSet]
  BY DEF Crash, TypeOK, RunnerSet, RunnerPCs
<1>3. memory' \in [Workers -> SimOrNone]
  BY DEF Crash, TypeOK, SimOrNone
<1>. QED  BY <1>1, <1>2, <1>3 DEF Crash, TypeOK, tables

-----------------------------------------------------------------------------
(* Requests and the runners they start                                      *)

\* A runner moves only once it has begun, and moves nothing else.
LEMMA RunnerStepIsLocal ==
  ASSUME TypeOK, NEW x \in Sims, RunnerStep(x) \/ FailRunner(x)
  PROVE  /\ ~NotBegun(x) /\ ~NotBegun(x)'
         /\ \A y \in Sims : y # x => runner'[y] = runner[y]
         /\ request' = request
<1>1. runner[x] \in RunnerSet
  BY DEF TypeOK
<1>2. CASE Announce(x)
  <2>1. /\ [runner[x] EXCEPT !.pc = "announce_confirmed"].pc = "announce_confirmed"
        /\ [runner[x] EXCEPT !.pc = "zone"].pc = "zone"
    BY <1>1 DEF RunnerSet
  <2>2. PICK r : /\ runner' = [runner EXCEPT ![x] = r]
                 /\ r.pc \in {"announce_confirmed", "zone", "check", "check_complete"}
    BY <1>1, <1>2, <2>1, AdvancedRunner DEF Announce
  <2>. QED  BY <1>2, <2>2 DEF Announce, NotBegun, TypeOK
<1>3. CASE ~Announce(x)
  <2>1. PICK l \in RunnerPCs \ {"none", "drawn", "active"} : RunnerTo(x, l)
    BY <1>3 DEF RunnerStep, FailRunner, Check, Insert, ExpandZone, CheckComplete, Complete,
                AnnounceComplete, Final, FinalClear, RunnerPCs
  <2>2. ~NotBegun(x) /\ request' = request
    BY <1>3 DEF RunnerStep, FailRunner, Check, Insert, ExpandZone, CheckComplete, Complete,
                AnnounceComplete, Final, FinalClear, NotBegun
  <2>3. /\ runner'[x] = [runner[x] EXCEPT !.pc = l]
        /\ \A y \in Sims : y # x => runner'[y] = runner[y]
    BY <2>1, RunnerMoves
  <2>4. runner'[x].pc = l
    BY <1>1, <2>3 DEF RunnerSet
  <2>. QED  BY <2>1, <2>2, <2>3, <2>4 DEF NotBegun
<1>. QED  BY <1>2, <1>3

LEMMA StartOfRunnerStep ==
  ASSUME SimInv, NEW x \in Sims, RunnerStep(x) \/ FailRunner(x)
  PROVE  StartInv' /\ FirstStepInv'
<1>1. \A q \in Requests : Starts(q) => request[q].sim # x
  BY RunnerStepIsLocal DEF SimInv, StartInv, Waiting, NotBegun
<1>2. StartInv'
  BY <1>1, RunnerStepIsLocal DEF SimInv, StartInv, Starts, Waiting
<1>3. FirstStepInv'
  <2>. SUFFICES ASSUME NEW y \in Sims, NotBegun(y)' PROVE runner'[y].step = 0
    BY DEF FirstStepInv
  <2>. QED  BY RunnerStepIsLocal DEF SimInv, FirstStepInv, NotBegun
<1>. QED  BY <1>2, <1>3

\* A step of a request that leaves the runners alone and keeps it from starting.
LEMMA StartOfQuietStep ==
  ASSUME SimInv, NEW q \in Requests, runner' = runner,
         request'[q].pc \notin {"activate", "seed"}, request'[q].sim = NoSim,
         \A p \in Requests : p # q => request'[p] = request[p]
  PROVE  StartInv' /\ FirstStepInv'
<1>1. FirstStepInv'
  BY DEF SimInv, FirstStepInv, NotBegun
<1>2. ASSUME NEW p \in Requests, Starts(p)'
      PROVE  p # q /\ Starts(p)
  BY <1>2 DEF Starts
<1>3. StartInv'
  <2>1. \A p \in Requests : ~Starts(p)' => request'[p].sim = NoSim
    BY DEF SimInv, StartInv, Starts, Waiting
  <2>2. ASSUME NEW p \in Requests, Starts(p)'
        PROVE  /\ request'[p].sim \in Sims
               /\ runner'[request'[p].sim].pc = Waiting(p)'
               /\ runner'[request'[p].sim].worker = request'[p].worker
               /\ \A o \in Requests \ {p} : request'[o].sim # request'[p].sim
    BY <1>2, <2>2, NoSimIsNoId DEF SimInv, StartInv, Waiting
  <2>. QED  BY <2>1, <2>2 DEF StartInv
<1>. QED  BY <1>1, <1>3

LEMMA StartOfRequestStep ==
  ASSUME SimInv, NEW q \in Requests, RequestStep(q) \/ FailRequest(q)
  PROVE  StartInv' /\ FirstStepInv'
<1>0. TypeOK /\ request[q] \in RequestSet /\ StartInv /\ FirstStepInv
  BY DEF SimInv, TypeOK
<1>1. CASE ClearActiveId(q) \/ CommitReset(q)
  <2>1. PICK l \in {"reports", "announce"} : RequestTo(q, l)
    BY <1>1 DEF ClearActiveId, CommitReset
  <2>2. /\ request'[q] = [request[q] EXCEPT !.pc = l]
        /\ \A p \in Requests : p # q => request'[p] = request[p]
    BY <1>0, <2>1, RequestMoves DEF RequestPCs
  <2>3. request'[q].pc = l /\ request'[q].sim = request[q].sim
    BY <1>0, <2>2 DEF RequestSet
  <2>4. request[q].sim = NoSim /\ runner' = runner
    BY <1>0, <1>1 DEF ClearActiveId, CommitReset, StartInv, Starts
  <2>. QED  BY <2>2, <2>3, <2>4, StartOfQuietStep
<1>2. CASE DeleteReports(q) \/ DeleteUnits(q) \/ DeleteZones(q)
  <2>1. /\ request'[q].pc \in {"units", "zones", "commit"}
        /\ request'[q].sim = request[q].sim
        /\ \A p \in Requests : p # q => request'[p] = request[p]
    BY <1>0, <1>2 DEF DeleteReports, DeleteUnits, DeleteZones, TypeOK, RequestSet
  <2>2. request[q].sim = NoSim /\ runner' = runner
    BY <1>0, <1>2 DEF DeleteReports, DeleteUnits, DeleteZones, StartInv, Starts
  <2>. QED  BY <2>1, <2>2, StartOfQuietStep
<1>3. CASE AnnounceReset(q)
  <2>1. request' = [request EXCEPT ![q] = Idle] /\ runner' = runner
    BY <1>3 DEF AnnounceReset
  <2>. QED  BY <1>0, <2>1, RequestEnds, StartOfQuietStep DEF Idle
<1>4. ASSUME NEW x \in Sims, AnnounceAndDraw(q, x)
      PROVE  StartInv' /\ FirstStepInv'
  <2>1. /\ request'[q].pc = "activate" /\ request'[q].sim = x
        /\ request'[q].worker = request[q].worker
        /\ \A p \in Requests : p # q => request'[p] = request[p]
    BY <1>0, <1>4 DEF AnnounceAndDraw, TypeOK, RequestSet
  <2>2. /\ runner[x].pc = "none"
        /\ runner'[x].pc = "drawn" /\ runner'[x].step = runner[x].step
        /\ runner'[x].worker = request[q].worker
        /\ \A y \in Sims : y # x => runner'[y] = runner[y]
    BY <1>0, <1>4 DEF AnnounceAndDraw, TypeOK, RunnerSet
  <2>3. \A p \in Requests : request[p].sim # x
    BY <1>0, <2>2, NoSimIsNoId DEF StartInv, Waiting
  <2>4. FirstStepInv'
    BY <1>0, <2>2 DEF FirstStepInv, NotBegun
  <2>5. StartInv'
    BY <1>0, <2>1, <2>2, <2>3 DEF StartInv, Starts, Waiting
  <2>. QED  BY <2>4, <2>5
<1>5. CASE Activate(q)
  <2>. DEFINE x == request[q].sim
  <2>1. x \in Sims /\ runner[x].pc = "drawn"
    BY <1>0, <1>5 DEF Activate, StartInv, Starts, Waiting
  <2>2. /\ request'[q] = [request[q] EXCEPT !.pc = "seed"]
        /\ \A p \in Requests : p # q => request'[p] = request[p]
    BY <1>0, <1>5, RequestMoves DEF Activate, RequestPCs
  <2>3. /\ request'[q].pc = "seed" /\ request'[q].sim = x
        /\ request'[q].worker = request[q].worker
    BY <1>0, <2>2 DEF RequestSet
  <2>4. /\ runner'[x].pc = "active" /\ runner'[x].step = runner[x].step
        /\ runner'[x].worker = runner[x].worker
        /\ \A y \in Sims : y # x => runner'[y] = runner[y]
    BY <1>0, <1>5, <2>1 DEF Activate, RunnerTo, TypeOK, RunnerSet
  <2>5. FirstStepInv'
    BY <1>0, <2>1, <2>4 DEF FirstStepInv, NotBegun
  <2>6. \A p \in Requests : Starts(p)' <=> Starts(p)
    BY <1>5, <2>2, <2>3 DEF Starts, Activate
  <2>7. \A p \in Requests : request'[p].sim = request[p].sim
                            /\ request'[p].worker = request[p].worker
    BY <2>2, <2>3
  <2>8. \A p \in Requests \ {q} : request[p].sim # x /\ Waiting(p)' = Waiting(p)
    BY <1>0, <1>5, <2>2 DEF StartInv, Starts, Activate, Waiting
  <2>10. Waiting(q)' = "active"
    BY <2>3 DEF Waiting
  <2>9. StartInv'
    BY <1>0, <2>1, <2>3, <2>4, <2>6, <2>7, <2>8, <2>10 DEF StartInv
  <2>. QED  BY <2>5, <2>9
<1>6. CASE SeedUnits(q) \/ FailRequest(q)
  <2>1. /\ request'[q] = Idle
        /\ \A p \in Requests : p # q => request'[p] = request[p]
    BY <1>0, <1>6, RequestEnds DEF SeedUnits, FailRequest
  <2>2. ASSUME NEW y \in Sims, y # request[q].sim PROVE runner'[y] = runner[y]
    BY <1>0, <1>6, <2>2 DEF SeedUnits, FailRequest, RunnerTo, TypeOK
  <2>3. ASSUME NEW y \in Sims, y = request[q].sim PROVE ~NotBegun(y)'
    BY <1>0, <1>6, <2>3 DEF SeedUnits, FailRequest, RunnerTo, TypeOK, RunnerSet, NotBegun
  <2>4. FirstStepInv'
    BY <1>0, <2>2, <2>3 DEF FirstStepInv, NotBegun
  <2>5. ASSUME NEW p \in Requests, Starts(p)'
        PROVE  p # q /\ Starts(p) /\ request[p].sim # request[q].sim
    BY <1>0, <2>1, <2>5 DEF Starts, Idle, StartInv
  <2>6. StartInv'
    BY <1>0, <2>1, <2>2, <2>5, NoSimIsNoId DEF StartInv, Starts, Waiting, Idle
  <2>. QED  BY <2>4, <2>6
<1>. QED  BY <1>1, <1>2, <1>3, <1>4, <1>5, <1>6 DEF RequestStep

LEMMA StartOfReset ==
  ASSUME SimInv, NEW q \in Requests, NEW w \in Workers, NEW triggers \in BOOLEAN,
         Reset(q, w, triggers)
  PROVE  StartInv' /\ FirstStepInv'
<1>1. /\ request'[q].pc = "clear" /\ request'[q].sim = NoSim /\ runner' = runner
      /\ \A p \in Requests : p # q => request'[p] = request[p]
  BY DEF Reset, SimInv, TypeOK, Idle
<1>. QED  BY <1>1, StartOfQuietStep

LEMMA StartOfCrash ==
  ASSUME SimInv, NEW w \in Workers, Crash(w) PROVE StartInv' /\ FirstStepInv'
<1>1. \A x \in Sims : IF runner[x].worker = w THEN runner'[x].pc = "done"
                                              ELSE runner'[x] = runner[x]
  BY DEF Crash, SimInv, TypeOK, RunnerSet
<1>2. FirstStepInv'
  BY <1>1 DEF SimInv, FirstStepInv, NotBegun
<1>3. \A q \in Requests : request'[q] = IF request[q].worker = w THEN Idle ELSE request[q]
  BY DEF Crash
<1>4. StartInv'
  BY <1>1, <1>3, NoSimIsNoId DEF SimInv, StartInv, Starts, Waiting, Idle
<1>. QED  BY <1>2, <1>4

LEMMA SimInit == Init => SimInv
<1>. SUFFICES ASSUME Init PROVE SimInv
  OBVIOUS
<1>. QED  BY SimTypeInit DEF Init, SimInv, StartInv, Starts, Waiting, FirstStepInv, Idle, NotStarted

LEMMA SimStep == SimInv /\ [Next]_vars => SimInv'
<1>. SUFFICES ASSUME SimInv, [Next]_vars PROVE SimInv'
  OBVIOUS
<1>1. CASE UNCHANGED vars
  BY <1>1 DEF vars, tables, SimInv, TypeOK, StartInv, Starts, Waiting, FirstStepInv, NotBegun
<1>2. ASSUME NEW q \in Requests, NEW w \in Workers, NEW triggers \in BOOLEAN,
             Reset(q, w, triggers)
      PROVE  SimInv'
  BY <1>2, ResetTypes, StartOfReset DEF SimInv
<1>3. ASSUME NEW q \in Requests, RequestStep(q) \/ FailRequest(q) PROVE SimInv'
  BY <1>3, RequestTypes, StartOfRequestStep DEF SimInv
<1>4. ASSUME NEW x \in Sims, RunnerStep(x) \/ FailRunner(x) PROVE SimInv'
  BY <1>4, RunnerTypes, StartOfRunnerStep DEF SimInv
<1>5. ASSUME NEW w \in Workers, Crash(w) PROVE SimInv'
  BY <1>5, CrashTypes, StartOfCrash DEF SimInv
<1>. QED  BY <1>1, <1>2, <1>3, <1>4, <1>5 DEF Next

\* Every variable keeps its type, whatever fails and whichever requests overlap.
THEOREM SimTypeCorrect == Spec => []TypeOK
<1>1. SimInv => TypeOK
  BY DEF SimInv
<1>. QED  BY <1>1, SimInit, SimStep, PTL DEF Spec

-----------------------------------------------------------------------------
(* What a step does to the runners, as far as the theorems need it          *)

InStep == {"check", "check_slept", "check_insert", "insert", "announce",
           "announce_confirmed", "zone", "announce_zone"}

MovedByRequest(x) ==
  \/ runner'[x] = runner[x]
  \/ NotBegun(x) /\ NotBegun(x)'
  \/ NotBegun(x) /\ runner'[x].pc = "done" /\ MayFail
  \/ NotBegun(x) /\ runner'[x].pc = "check" /\ runner'[x].step = 0

\* Requests start runners at their first step or end them; they store no late
\* rows and complete nothing.
LEMMA RequestsMoveRunners ==
  ASSUME SimInv, NEW q \in Requests, RequestStep(q) \/ FailRequest(q)
  PROVE  /\ late' = late /\ announced \subseteq announced'
         /\ \A x \in Sims : Completed(x)' => Completed(x)
         /\ \A x \in Sims : MovedByRequest(x)
<1>0. TypeOK /\ request[q] \in RequestSet /\ StartInv /\ FirstStepInv
  BY DEF SimInv, TypeOK
<1>1. late' = late
  BY DEF RequestStep, FailRequest, ClearActiveId, DeleteReports, DeleteUnits, DeleteZones,
         CommitReset, AnnounceReset, AnnounceAndDraw, Activate, SeedUnits
<1>2. announced' = announced \/ announced' = announced \cup {Message("SCENARIO_RESET", NoSim, 0)}
  BY DEF RequestStep, FailRequest, ClearActiveId, DeleteReports, DeleteUnits, DeleteZones,
         CommitReset, AnnounceReset, AnnounceAndDraw, Activate, SeedUnits
<1>3. ASSUME NEW x \in Sims, Completed(x)' PROVE Completed(x)
  BY <1>2, <1>3 DEF Completed, Message
<1>4. ASSUME NEW x \in Sims PROVE MovedByRequest(x)
  <2>. USE DEF MovedByRequest
  <2>1. CASE runner' = runner
    BY <2>1
  <2>2. ASSUME NEW y \in Sims, AnnounceAndDraw(q, y) PROVE MovedByRequest(x)
    BY <1>0, <2>2 DEF AnnounceAndDraw, TypeOK, RunnerSet, NotBegun
  <2>3. CASE Activate(q) \/ SeedUnits(q) \/ FailRequest(q)
    <3>1. CASE x # request[q].sim
      BY <1>0, <2>3, <3>1 DEF Activate, SeedUnits, FailRequest, RunnerTo, TypeOK
    <3>2. CASE x = request[q].sim
      <4>1. NotBegun(x) /\ runner[x].step = 0 /\ runner[x] \in RunnerSet
        BY <1>0, <3>2, NoSimIsNoId DEF StartInv, Waiting, NotBegun, FirstStepInv, TypeOK
      <4>2. CASE Activate(q)
        BY <1>0, <3>2, <4>1, <4>2 DEF Activate, RunnerTo, TypeOK, RunnerSet, NotBegun
      <4>3. CASE SeedUnits(q)
        BY <1>0, <3>2, <4>1, <4>3 DEF SeedUnits, RunnerTo, TypeOK, RunnerSet
      <4>4. CASE FailRequest(q)
        BY <1>0, <3>2, <4>1, <4>4 DEF FailRequest, TypeOK, RunnerSet
      <4>. QED  BY <2>3, <4>2, <4>3, <4>4
    <3>. QED  BY <3>1, <3>2
  <2>. QED  BY <2>1, <2>2, <2>3 DEF RequestStep, ClearActiveId, DeleteReports, DeleteUnits,
                                   DeleteZones, CommitReset, AnnounceReset
<1>. QED  BY <1>1, <1>2, <1>3, <1>4

\* Where a runner goes, announcing the events of its step aside.
LEMMA RunnerGoes ==
  ASSUME TypeOK, NEW x \in Sims, RunnerStep(x) \/ FailRunner(x), ~Announce(x)
  PROVE  /\ runner'[x].step = runner[x].step
         /\ \/ /\ runner'[x].pc \in {"final", "final_clear"}
               /\ late' = late
            \/ Final(x) /\ runner'[x].pc = "done" /\ late' = late
                        /\ \E id \in ActiveIds(runner[x].worker) : id # x
            \/ FinalClear(x) /\ runner'[x].pc = "done" /\ late' = late
            \/ /\ runner[x].pc \in {"check", "check_slept", "check_insert"}
               /\ runner'[x].pc \in {"check_slept", "check_insert", "insert"}
               /\ x \in ActiveIds(runner[x].worker) /\ late' = late
            \/ runner[x].pc = "insert" /\ runner'[x].pc = "announce"
                                       /\ late' = Late("report", x)
            \/ runner[x].pc = "zone" /\ runner'[x].pc = "announce_zone"
                                     /\ late' = Late("zone", x)
            \/ /\ runner[x].pc = "check_complete" /\ runner'[x].pc = "complete"
               /\ x \in ActiveIds(runner[x].worker) /\ late' = late
            \/ runner[x].pc = "complete" /\ runner'[x].pc = "announce_complete" /\ late' = late
<1>0. runner[x] \in RunnerSet
  BY DEF TypeOK
<1>1. ASSUME NEW l \in RunnerPCs, RunnerTo(x, l)
      PROVE  runner'[x].pc = l /\ runner'[x].step = runner[x].step
  BY <1>0, <1>1, RunnerMoves DEF RunnerSet
<1>2. CASE Check(x)
  BY <1>1, <1>2 DEF Check, IsActive, RunnerPCs
<1>3. CASE Insert(x) \/ ExpandZone(x)
  BY <1>1, <1>3 DEF Insert, ExpandZone, RunnerPCs
<1>4. CASE CheckComplete(x) \/ Complete(x) \/ AnnounceComplete(x) \/ FailRunner(x)
  BY <1>1, <1>4 DEF CheckComplete, Complete, AnnounceComplete, FailRunner, IsActive, RunnerPCs
<1>5. CASE Final(x) \/ FinalClear(x)
  BY <1>1, <1>5 DEF Final, FinalClear, Clears, RunnerPCs
<1>. QED  BY <1>2, <1>3, <1>4, <1>5 DEF RunnerStep

\* Where it goes when it has announced an event.
LEMMA RunnerAnnounces ==
  ASSUME TypeOK, NEW x \in Sims, Announce(x)
  PROVE  /\ late' = late /\ redis' = redis /\ cancelled' = cancelled
         /\ \/ /\ runner[x].pc = "announce" /\ runner'[x].pc = "announce_confirmed"
               /\ runner'[x].step = runner[x].step
            \/ /\ runner[x].pc = "announce" /\ runner'[x].pc = "zone"
               /\ runner'[x].step = runner[x].step /\ runner[x].step \notin ConfirmedSteps
            \/ /\ runner[x].pc = "announce_confirmed" /\ runner'[x].pc = "zone"
               /\ runner'[x].step = runner[x].step
            \/ /\ \/ /\ runner[x].pc = "announce"
                     /\ runner[x].step \notin ConfirmedSteps \cup ZoneSteps
                  \/ runner[x].pc = "announce_confirmed" /\ runner[x].step \notin ZoneSteps
                  \/ runner[x].pc = "announce_zone"
               /\ \/ runner'[x].pc = "check" /\ runner'[x].step = runner[x].step + 1
                  \/ runner'[x].pc = "check_complete" /\ runner[x].step = Steps - 1
<1>0. runner[x] \in RunnerSet
  BY DEF TypeOK
<1>1. /\ [runner[x] EXCEPT !.pc = "announce_confirmed"].pc = "announce_confirmed"
      /\ [runner[x] EXCEPT !.pc = "announce_confirmed"].step = runner[x].step
      /\ [runner[x] EXCEPT !.pc = "zone"].pc = "zone"
      /\ [runner[x] EXCEPT !.pc = "zone"].step = runner[x].step
  BY <1>0 DEF RunnerSet
<1>2. \A r : runner' = [runner EXCEPT ![x] = r] => runner'[x] = r
  BY DEF TypeOK
<1>3. CASE runner[x].pc = "announce" /\ runner[x].step \in ConfirmedSteps
  BY <1>1, <1>2, <1>3 DEF Announce
<1>4. CASE runner[x].pc # "announce_zone" /\ runner[x].step \in ZoneSteps
           /\ ~(runner[x].pc = "announce" /\ runner[x].step \in ConfirmedSteps)
  BY <1>1, <1>2, <1>4 DEF Announce
<1>5. CASE \/ runner[x].pc = "announce_zone"
           \/ /\ runner[x].step \notin ZoneSteps
              /\ ~(runner[x].pc = "announce" /\ runner[x].step \in ConfirmedSteps)
  <2>1. runner'[x] = Advanced(runner[x])
    BY <1>2, <1>5 DEF Announce
  <2>2. \/ runner'[x].pc = "check" /\ runner'[x].step = runner[x].step + 1
        \/ runner'[x].pc = "check_complete" /\ runner[x].step = Steps - 1
    BY <1>0, <2>1, AdvancedRunner
  <2>. QED  BY <1>5, <2>2 DEF Announce
<1>. QED  BY <1>3, <1>4, <1>5

-----------------------------------------------------------------------------
(* A completed scenario has announced all it has                            *)

Spawned(x, k) ==
  /\ Message("SOS_CREATED", x, k) \in announced
  /\ k \in ConfirmedSteps => Message("SOS_CONFIRMED", x, k) \in announced
  /\ k \in ZoneSteps => Message("ZONE_EXPANDED", x, k) \in announced

\* What makes CompleteMeansSpawned inductive: a runner has announced all of the
\* steps behind it, and of its own step what comes before where it stands.
SpawnedBefore(x) ==
  runner[x].pc \in InStep => \A k \in StepSet : k < runner[x].step => Spawned(x, k)
SpawnedAll(x) ==
  runner[x].pc \in {"check_complete", "complete", "announce_complete"} =>
    \A k \in StepSet : Spawned(x, k)
SpawnedSoFar(x) ==
  /\ runner[x].pc \in {"announce_confirmed", "zone", "announce_zone"} =>
       Message("SOS_CREATED", x, runner[x].step) \in announced
  /\ runner[x].pc \in {"zone", "announce_zone"} /\ runner[x].step \in ConfirmedSteps =>
       Message("SOS_CONFIRMED", x, runner[x].step) \in announced
CompletedIsSpawned(x) == Completed(x) => \A k \in StepSet : Spawned(x, k)

SpawnInvOf(x) ==
  SpawnedBefore(x) /\ SpawnedAll(x) /\ SpawnedSoFar(x) /\ CompletedIsSpawned(x)

\* What has been announced stays announced: a runner that does not move, or has
\* nothing to show, keeps its part of the invariant.
LEMMA SpawnedStays ==
  ASSUME NEW x \in Sims, SpawnInvOf(x), announced \subseteq announced',
         Completed(x)' => Completed(x),
         \/ runner'[x] = runner[x]
         \/ runner'[x].pc \notin InStep \cup {"check_complete", "complete", "announce_complete"}
         \/ runner'[x].pc = "check" /\ runner'[x].step = 0
  PROVE  SpawnInvOf(x)'
<1>1. \A k : Spawned(x, k) => Spawned(x, k)'
  BY DEF Spawned
<1>2. CompletedIsSpawned(x)'
  BY <1>1 DEF SpawnInvOf, CompletedIsSpawned
<1>3. CASE runner'[x] = runner[x]
  BY <1>1, <1>2, <1>3 DEF SpawnInvOf, SpawnedBefore, SpawnedAll, SpawnedSoFar
<1>4. CASE runner'[x].pc \notin InStep \cup {"check_complete", "complete", "announce_complete"}
  BY <1>2, <1>4 DEF SpawnInvOf, SpawnedBefore, SpawnedAll, SpawnedSoFar, InStep
<1>5. CASE runner'[x].pc = "check" /\ runner'[x].step = 0
  <2>1. \A k \in StepSet : ~(k < 0)
    BY StepsAreNumbers DEF StepSet
  <2>2. SpawnedBefore(x)'
    BY <1>5, <2>1 DEF SpawnedBefore
  <2>3. SpawnedAll(x)' /\ SpawnedSoFar(x)'
    BY <1>5 DEF SpawnedAll, SpawnedSoFar
  <2>. QED  BY <1>2, <2>2, <2>3 DEF SpawnInvOf
<1>. QED  BY <1>3, <1>4, <1>5

\* The runner of x announces an event of its step.
LEMMA SpawnedByAnnounce ==
  ASSUME TypeOK, NEW x \in Sims, SpawnInvOf(x), Announce(x) PROVE SpawnInvOf(x)'
<1>0. runner[x].step \in StepSet /\ announced \subseteq announced'
  BY DEF TypeOK, RunnerSet, Announce
<1>1. /\ runner[x].pc = "announce" =>
             Message("SOS_CREATED", x, runner[x].step) \in announced'
      /\ runner[x].pc = "announce_confirmed" =>
             Message("SOS_CONFIRMED", x, runner[x].step) \in announced'
      /\ runner[x].pc = "announce_zone" =>
             Message("ZONE_EXPANDED", x, runner[x].step) \in announced'
  BY DEF Announce
<1>2. Completed(x)' => Completed(x)
  BY DEF Announce, Completed, Message
<1>3. \A k : Spawned(x, k) => Spawned(x, k)'
  BY <1>0 DEF Spawned
<1>4. CompletedIsSpawned(x)'
  BY <1>2, <1>3 DEF SpawnInvOf, CompletedIsSpawned
<1>5. \A k \in StepSet : k < runner[x].step => Spawned(x, k)'
  BY <1>3, RunnerAnnounces DEF SpawnInvOf, SpawnedBefore, InStep
<1>6. CASE runner'[x].pc \in {"announce_confirmed", "zone"}
  <2>1. runner'[x].step = runner[x].step
    BY <1>6, RunnerAnnounces
  <2>2. SpawnedSoFar(x)'
    BY <1>0, <1>1, <1>6, <2>1, RunnerAnnounces DEF SpawnInvOf, SpawnedSoFar
  <2>. QED  BY <1>4, <1>5, <1>6, <2>1, <2>2 DEF SpawnInvOf, SpawnedBefore, SpawnedAll
<1>7. CASE runner'[x].pc \in {"check", "check_complete"}
  <2>0. PICK i \in StepSet : i = runner[x].step
    BY <1>0
  <2>1. Spawned(x, i)'
    BY <1>0, <1>1, <1>7, <2>0, RunnerAnnounces DEF SpawnInvOf, SpawnedSoFar, Spawned
  <2>2. \A k \in StepSet : k < runner[x].step + 1 => Spawned(x, k)'
    <3>1. \A k \in StepSet : k < i + 1 => k < i \/ k = i
      BY StepsAreNumbers DEF StepSet
    <3>. QED  BY <1>5, <2>0, <2>1, <3>1
  <2>3. runner'[x].pc = "check" => runner'[x].step = runner[x].step + 1
    BY <1>7, RunnerAnnounces
  <2>4. runner'[x].pc = "check_complete" => \A k \in StepSet : k < runner[x].step + 1
    BY <1>7, RunnerAnnounces, StepsAreNumbers DEF StepSet
  <2>. QED  BY <1>4, <1>7, <2>2, <2>3, <2>4
            DEF SpawnInvOf, SpawnedBefore, SpawnedAll, SpawnedSoFar
<1>. QED  BY <1>6, <1>7, RunnerAnnounces

\* It takes any other step.
LEMMA SpawnedByOther ==
  ASSUME TypeOK, NEW x \in Sims, SpawnInvOf(x), RunnerStep(x) \/ FailRunner(x), ~Announce(x)
  PROVE  SpawnInvOf(x)'
<1>1. \/ announced' = announced
      \/ runner[x].pc = "announce_complete"
         /\ announced' = announced \cup {Message("SIMULATION_COMPLETE", x, 0)}
  BY DEF RunnerStep, FailRunner, Check, Insert, ExpandZone, CheckComplete, Complete,
         AnnounceComplete, Final, FinalClear
<1>2. \A k : Spawned(x, k) => Spawned(x, k)'
  BY <1>1 DEF Spawned
<1>3. CompletedIsSpawned(x)'
  BY <1>1, <1>2 DEF SpawnInvOf, CompletedIsSpawned, SpawnedAll, Completed
<1>4. SpawnedBefore(x)'
  BY <1>2, RunnerGoes DEF SpawnInvOf, SpawnedBefore, InStep
<1>5. SpawnedAll(x)'
  BY <1>2, RunnerGoes DEF SpawnInvOf, SpawnedAll
<1>6. SpawnedSoFar(x)'
  BY <1>1, RunnerGoes DEF SpawnInvOf, SpawnedSoFar
<1>. QED  BY <1>3, <1>4, <1>5, <1>6 DEF SpawnInvOf

SpawnInv == \A x \in Sims : SpawnInvOf(x)

LEMMA SpawnStep == SimInv /\ SpawnInv /\ [Next]_vars => SpawnInv'
<1>. SUFFICES ASSUME SimInv, SpawnInv, [Next]_vars, NEW x \in Sims PROVE SpawnInvOf(x)'
  BY DEF SpawnInv
<1>0. TypeOK /\ SpawnInvOf(x)
  BY DEF SimInv, SpawnInv
<1>1. CASE runner' = runner /\ announced' = announced
  BY <1>0, <1>1, SpawnedStays DEF Completed
<1>2. ASSUME NEW q \in Requests, RequestStep(q) \/ FailRequest(q) PROVE SpawnInvOf(x)'
  <2>1. announced \subseteq announced' /\ (Completed(x)' => Completed(x)) /\ MovedByRequest(x)
    BY <1>2, RequestsMoveRunners
  <2>2. \/ runner'[x] = runner[x]
        \/ runner'[x].pc \notin InStep \cup {"check_complete", "complete", "announce_complete"}
        \/ runner'[x].pc = "check" /\ runner'[x].step = 0
    BY <2>1 DEF MovedByRequest, NotBegun, InStep
  <2>. QED  BY <1>0, <2>1, <2>2, SpawnedStays
<1>3. ASSUME NEW y \in Sims, RunnerStep(y) \/ FailRunner(y) PROVE SpawnInvOf(x)'
  <2>1. CASE y = x
    BY <1>0, <1>3, <2>1, SpawnedByAnnounce, SpawnedByOther
  <2>2. CASE y # x
    <3>1. runner'[x] = runner[x]
      BY <1>0, <1>3, <2>2, RunnerStepIsLocal
    <3>2. announced \subseteq announced'
      BY <1>3 DEF RunnerStep, FailRunner, Check, Insert, Announce, ExpandZone, CheckComplete,
                  Complete, AnnounceComplete, Final, FinalClear
    <3>3. Completed(x)' => Completed(x)
      BY <1>3, <2>2 DEF RunnerStep, FailRunner, Check, Insert, Announce, ExpandZone,
             CheckComplete, Complete, AnnounceComplete, Final, FinalClear, Completed, Message
    <3>. QED  BY <1>0, <3>1, <3>2, <3>3, SpawnedStays
  <2>. QED  BY <2>1, <2>2
<1>4. ASSUME NEW w \in Workers, Crash(w) PROVE SpawnInvOf(x)'
  <2>1. runner'[x] = runner[x] \/ runner'[x].pc = "done"
    BY <1>0, <1>4 DEF Crash, TypeOK, RunnerSet
  <2>. QED  BY <1>0, <1>4, <2>1, SpawnedStays DEF Crash, Completed, InStep
<1>. QED  BY <1>1, <1>2, <1>3, <1>4 DEF Next, Reset, vars

\* However many scenarios, workers and failures there are, SIMULATION_COMPLETE
\* follows every event of its scenario (run_staggered_simulation).
THEOREM CompletionFollowsSpawning == Spec => []CompleteMeansSpawned
<1>1. Init => SpawnInv
  BY DEF Init, SpawnInv, SpawnInvOf, SpawnedBefore, SpawnedAll, SpawnedSoFar,
         CompletedIsSpawned, Completed, NotStarted, InStep
<1>2. SpawnInv => CompleteMeansSpawned
  BY DEF SpawnInv, SpawnInvOf, CompletedIsSpawned, CompleteMeansSpawned, Spawned
<1>. QED  BY <1>1, <1>2, SimInit, SimStep, SpawnStep, PTL DEF Spec

-----------------------------------------------------------------------------
(* A cancelled scenario stores the rows of one step at most                 *)

\* While Redis works, a cancelled id is not the stored one, and is not drawn again.
CancelledInv ==
  \A x \in cancelled : redis # x /\ runner[x].pc \notin {"none", "drawn"}

\* A runner that has stored a late row is still announcing that step, is about
\* to look at the active id again, or is past its loop.
Stops(x, k) ==
  \/ runner[x].pc \in {"announce", "announce_confirmed", "zone", "announce_zone"}
     /\ runner[x].step = k
  \/ runner[x].pc = "check" /\ runner[x].step = k + 1
  \/ runner[x].pc \in {"check_complete", "final", "final_clear", "done"}

LateInvOf(x) ==
  \A s, t \in {"report", "zone"}, j, k \in StepSet :
    /\ <<s, x, j>> \in late => x \in cancelled /\ Stops(x, j)
    /\ <<s, x, j>> \in late /\ <<t, x, k>> \in late => j = k

LateInv == \A x \in Sims : LateInvOf(x)

LEMMA CancelledStep ==
  ASSUME RedisMode = "up"
  PROVE  SimInv /\ CancelledInv /\ [Next]_vars => CancelledInv'
<1>. SUFFICES ASSUME SimInv, CancelledInv, [Next]_vars PROVE CancelledInv'
  OBVIOUS
<1>0. TypeOK /\ StartInv
  BY DEF SimInv
<1>1. CASE UNCHANGED <<redis, runner, cancelled>>
  BY <1>1 DEF CancelledInv
<1>2. ASSUME NEW q \in Requests, RequestStep(q) \/ FailRequest(q) PROVE CancelledInv'
  <2>1. CASE ClearActiveId(q)
    BY <1>0, <2>1, NoSimIsNoId DEF ClearActiveId, Stored, AnswersMay, FailsMay, Cancels, CancelledInv, TypeOK
  <2>2. ASSUME NEW x \in Sims, AnnounceAndDraw(q, x) PROVE CancelledInv'
    BY <1>0, <2>2 DEF AnnounceAndDraw, CancelledInv, TypeOK
  <2>3. CASE Activate(q)
    <3>. DEFINE x == request[q].sim
    <3>1. x \in Sims /\ runner[x].pc = "drawn" /\ x \notin cancelled
      BY <1>0, <2>3 DEF Activate, StartInv, Starts, Waiting, CancelledInv
    <3>2. /\ \A y \in Sims : y # x => runner'[y] = runner[y]
          /\ redis' = x
          /\ cancelled' = cancelled \cup
                {y \in Sims \ {x} : runner[y].pc \notin {"none", "drawn"}}
      BY <1>0, <2>3, <3>1 DEF Activate, RunnerTo, TypeOK, Stored, AnswersMay, FailsMay, Cancels
    <3>. QED  BY <1>0, <3>1, <3>2 DEF CancelledInv, TypeOK
  <2>4. CASE SeedUnits(q) \/ FailRequest(q)
    <3>1. redis' = redis /\ cancelled' = cancelled
      BY <2>4 DEF SeedUnits, FailRequest
    <3>2. \A x \in Sims : runner'[x] = runner[x] \/ runner'[x].pc \in {"check", "done"}
      BY <1>0, <2>4 DEF SeedUnits, FailRequest, RunnerTo, TypeOK, RunnerSet
    <3>. QED  BY <1>0, <3>1, <3>2 DEF CancelledInv, TypeOK
  <2>. QED  BY <1>1, <1>2, <2>1, <2>2, <2>3, <2>4
            DEF RequestStep, DeleteReports, DeleteUnits, DeleteZones, CommitReset, AnnounceReset
<1>3. ASSUME NEW x \in Sims, RunnerStep(x) \/ FailRunner(x) PROVE CancelledInv'
  <2>1. cancelled' = cancelled /\ (redis' = redis \/ redis' = NoSim)
    BY <1>3 DEF RunnerStep, FailRunner, Check, Insert, Announce, ExpandZone, CheckComplete,
                Complete, AnnounceComplete, Final, FinalClear, Stored, AnswersMay, FailsMay
  <2>. QED  BY <1>0, <1>3, <2>1, RunnerStepIsLocal, NoSimIsNoId DEF CancelledInv, TypeOK, NotBegun
<1>4. ASSUME NEW w \in Workers, Crash(w) PROVE CancelledInv'
  BY <1>0, <1>4 DEF Crash, CancelledInv, TypeOK, RunnerSet
<1>. QED  BY <1>1, <1>2, <1>3, <1>4 DEF Next, Reset, vars

\* Who stores no row and does not move back keeps the invariant.
LEMMA LateStays ==
  ASSUME NEW x \in Sims, LateInvOf(x), late' = late, cancelled \subseteq cancelled',
         runner'[x] = runner[x] \/ runner'[x].pc \in {"final", "final_clear", "done"}
           \/ \A k \in StepSet : ~Stops(x, k)
  PROVE  LateInvOf(x)'
<1>1. \A k \in StepSet : Stops(x, k) => Stops(x, k)'
  BY DEF Stops
<1>. QED  BY <1>1 DEF LateInvOf

LEMMA CancelledGrows == [Next]_vars => cancelled \subseteq cancelled'
BY DEF Next, vars, Reset, RequestStep, FailRequest, RunnerStep, FailRunner, Crash,
       ClearActiveId, DeleteReports, DeleteUnits, DeleteZones, CommitReset, AnnounceReset,
       AnnounceAndDraw, Activate, SeedUnits, Cancels, Check, Insert, Announce, ExpandZone,
       CheckComplete, Complete, AnnounceComplete, Final, FinalClear

\* The runner of x takes a step: it stores a row for a step it had none for, or
\* looks at the active id and finds another.
LEMMA LateRunnerStep ==
  ASSUME RedisMode = "up", TypeOK, CancelledInv, NEW x \in Sims, LateInvOf(x),
         RunnerStep(x) \/ FailRunner(x)
  PROVE  LateInvOf(x)'
<1>0. runner[x].step \in StepSet /\ cancelled' = cancelled
  BY DEF TypeOK, RunnerSet, RunnerStep, FailRunner, Check, Insert, Announce, ExpandZone,
         CheckComplete, Complete, AnnounceComplete, Final, FinalClear
<1>1. x \in cancelled => x \notin ActiveIds(runner[x].worker)
  BY DEF CancelledInv, ActiveIds, FailsMay
<1>2. CASE Announce(x)
  <2>1. late' = late
    BY <1>2, RunnerAnnounces
  <2>2. \A k \in StepSet : Stops(x, k) => Stops(x, k)'
    BY <1>2, RunnerAnnounces DEF Stops
  <2>. QED  BY <1>0, <2>1, <2>2 DEF LateInvOf
<1>3. CASE ~Announce(x) /\ runner[x].pc = "insert" /\ runner'[x].pc = "announce"
           /\ late' = Late("report", x) /\ runner'[x].step = runner[x].step
  <2>1. \A s \in {"report", "zone"}, j \in StepSet : <<s, x, j>> \notin late
    BY <1>3 DEF LateInvOf, Stops
  <2>2. \A s \in {"report", "zone"}, j \in StepSet :
           <<s, x, j>> \in late' => x \in cancelled /\ j = runner[x].step
    BY <1>3, <2>1 DEF Late
  <2>. QED  BY <1>0, <1>3, <2>2 DEF LateInvOf, Stops
<1>4. CASE ~Announce(x) /\ runner[x].pc = "zone" /\ runner'[x].pc = "announce_zone"
           /\ late' = Late("zone", x) /\ runner'[x].step = runner[x].step
  <2>1. \A s \in {"report", "zone"}, j \in StepSet :
           <<s, x, j>> \in late => x \in cancelled /\ j = runner[x].step
    BY <1>4 DEF LateInvOf, Stops
  <2>2. \A s \in {"report", "zone"}, j \in StepSet :
           <<s, x, j>> \in late' => x \in cancelled /\ j = runner[x].step
    BY <1>4, <2>1 DEF Late
  <2>. QED  BY <1>0, <1>4, <2>2 DEF LateInvOf, Stops
<1>5. CASE late' = late /\ runner'[x].pc \in {"final", "final_clear", "done"}
  BY <1>0, <1>5, LateStays
<1>6. CASE late' = late /\ runner[x].pc \in {"check", "check_slept", "check_insert",
                                           "check_complete", "complete"}
           /\ (runner[x].pc # "complete" => x \in ActiveIds(runner[x].worker))
  <2>1. \A s \in {"report", "zone"}, j \in StepSet : <<s, x, j>> \notin late
    BY <1>1, <1>6 DEF LateInvOf, Stops
  <2>. QED  BY <1>6, <2>1 DEF LateInvOf
<1>. QED  BY <1>2, <1>3, <1>4, <1>5, <1>6, RunnerGoes

LEMMA LateStep ==
  ASSUME RedisMode = "up"
  PROVE  SimInv /\ CancelledInv /\ LateInv /\ [Next]_vars => LateInv'
<1>. SUFFICES ASSUME SimInv, CancelledInv, LateInv, [Next]_vars, NEW x \in Sims
              PROVE  LateInvOf(x)'
  BY DEF LateInv
<1>0. TypeOK /\ LateInvOf(x) /\ cancelled \subseteq cancelled'
  BY CancelledGrows DEF SimInv, LateInv
<1>1. CASE runner' = runner /\ late' = late
  BY <1>0, <1>1, LateStays
<1>2. ASSUME NEW q \in Requests, RequestStep(q) \/ FailRequest(q) PROVE LateInvOf(x)'
  <2>1. late' = late /\ MovedByRequest(x)
    BY <1>2, RequestsMoveRunners
  <2>2. NotBegun(x) => \A k \in StepSet : ~Stops(x, k)
    BY DEF NotBegun, Stops
  <2>. QED  BY <1>0, <2>1, <2>2, LateStays DEF MovedByRequest
<1>3. ASSUME NEW y \in Sims, RunnerStep(y) \/ FailRunner(y) PROVE LateInvOf(x)'
  <2>1. CASE y = x
    BY <1>0, <1>3, <2>1, LateRunnerStep
  <2>2. CASE y # x
    <3>1. runner'[x] = runner[x]
      BY <1>0, <1>3, <2>2, RunnerStepIsLocal
    <3>2. late' = late \/ late' = late \cup {<<"report", y, runner[y].step>>}
                       \/ late' = late \cup {<<"zone", y, runner[y].step>>}
      BY <1>3 DEF RunnerStep, FailRunner, Check, Insert, Announce, ExpandZone, CheckComplete,
                  Complete, AnnounceComplete, Final, FinalClear, Late
    <3>3. \A s \in {"report", "zone"}, j \in StepSet : <<s, x, j>> \in late' => <<s, x, j>> \in late
      BY <2>2, <3>2
    <3>. QED  BY <1>0, <3>1, <3>3 DEF LateInvOf, Stops
  <2>. QED  BY <2>1, <2>2
<1>4. ASSUME NEW w \in Workers, Crash(w) PROVE LateInvOf(x)'
  <2>1. late' = late /\ (runner'[x] = runner[x] \/ runner'[x].pc = "done")
    BY <1>0, <1>4 DEF Crash, TypeOK, RunnerSet
  <2>. QED  BY <1>0, <2>1, LateStays
<1>. QED  BY <1>1, <1>2, <1>3, <1>4 DEF Next, Reset, vars

\* While Redis works, a scenario that was cancelled stores the rows of one step
\* at most, for any number of workers and requests, overlapping ones included,
\* and whatever else fails (the checks in run_staggered_simulation).
THEOREM LateRowsAreOfOneStep ==
  ASSUME RedisMode = "up"
  PROVE  Spec => []AtMostOneLateStep
<1>1. Init => CancelledInv /\ LateInv
  BY DEF Init, CancelledInv, LateInv, LateInvOf
<1>2. TypeOK /\ LateInv => AtMostOneLateStep
  BY DEF TypeOK, LateInv, LateInvOf, AtMostOneLateStep
<1>3. SimInv => TypeOK
  BY DEF SimInv
<1>4. SimInv /\ CancelledInv /\ [Next]_vars => CancelledInv'
  BY CancelledStep
<1>5. SimInv /\ CancelledInv /\ LateInv /\ [Next]_vars => LateInv'
  BY LateStep
<1>. QED  BY <1>1, <1>2, <1>3, <1>4, <1>5, SimInit, SimStep, PTL DEF Spec

-----------------------------------------------------------------------------
(* The stored id belongs to a runner                                        *)

LEMMA ActiveStep ==
  ASSUME RedisMode = "up", ~MayFail
  PROVE  SimInv /\ ActiveIdHasRunner /\ [Next]_vars => ActiveIdHasRunner'
<1>. SUFFICES ASSUME SimInv, ActiveIdHasRunner, [Next]_vars, redis' # NoSim
              PROVE  Running(redis)' \/ runner'[redis'].pc = "active"
  BY DEF ActiveIdHasRunner
<1>0. TypeOK /\ StartInv
  BY DEF SimInv
<1>1. CASE UNCHANGED <<redis, runner>>
  BY <1>1 DEF ActiveIdHasRunner, Running
<1>2. ASSUME NEW q \in Requests, RequestStep(q)
      PROVE  Running(redis)' \/ runner'[redis'].pc = "active"
  <2>1. CASE ClearActiveId(q)
    BY <2>1 DEF ClearActiveId, Stored, AnswersMay, FailsMay
  <2>2. CASE Activate(q)
    BY <1>0, <2>2 DEF Activate, Stored, AnswersMay, FailsMay, RunnerTo, StartInv, Starts, TypeOK, RunnerSet
  <2>3. CASE redis' = redis /\ ~Activate(q)
    <3>1. redis \in Sims
      BY <1>0, <2>3 DEF TypeOK, SimOrNone
    <3>2. CASE NotBegun(redis)
      <4>1. runner[redis].pc = "active"
        BY <2>3, <3>2 DEF ActiveIdHasRunner, Running, NotBegun
      <4>2. ASSUME NEW x \in Sims, AnnounceAndDraw(q, x) PROVE runner'[redis] = runner[redis]
        BY <1>0, <3>1, <4>1, <4>2 DEF AnnounceAndDraw, TypeOK
      <4>3. CASE SeedUnits(q)
        <5>1. request[q].sim \in Sims
          BY <1>0, <4>3 DEF SeedUnits, StartInv, Starts
        <5>2. runner'[redis] = runner[redis] \/ runner'[redis].pc = "check"
          BY <1>0, <3>1, <4>3, <5>1 DEF SeedUnits, RunnerTo, TypeOK, RunnerSet
        <5>. QED  BY <2>3, <4>1, <5>2 DEF Running
      <4>4. CASE runner' = runner
        BY <2>3, <4>1, <4>4
      <4>. QED  BY <1>2, <2>3, <4>1, <4>2, <4>3, <4>4
                DEF RequestStep, DeleteReports, DeleteUnits, DeleteZones, CommitReset,
                    AnnounceReset, ClearActiveId
    <3>3. CASE ~NotBegun(redis)
      BY <1>2, <2>3, <3>1, <3>3, RequestsMoveRunners
         DEF ActiveIdHasRunner, Running, NotBegun, MovedByRequest
    <3>. QED  BY <3>2, <3>3
  <2>. QED  BY <1>2, <2>1, <2>2, <2>3
            DEF RequestStep, DeleteReports, DeleteUnits, DeleteZones, CommitReset,
                AnnounceReset, AnnounceAndDraw, SeedUnits
<1>3. ASSUME NEW x \in Sims, RunnerStep(x)
      PROVE  Running(redis)' \/ runner'[redis'].pc = "active"
  <2>1. redis' = redis
    BY <1>3 DEF RunnerStep, Check, Insert, Announce, ExpandZone, CheckComplete,
                Complete, AnnounceComplete, Final, FinalClear, Stored, AnswersMay, FailsMay
  <2>2. redis \in Sims
    BY <1>0, <2>1 DEF TypeOK, SimOrNone
  <2>3. CASE redis = x
    <3>1. ~NotBegun(x)' /\ ~FinalClear(x)
      BY <1>0, <1>3, <2>1, RunnerStepIsLocal DEF FinalClear, Stored, AnswersMay, FailsMay
    <3>2. runner'[x].pc # "done"
      BY <1>0, <1>3, <2>3, <3>1, RunnerGoes, RunnerAnnounces DEF ActiveIds, FailsMay
    <3>. QED  BY <2>1, <2>3, <3>1, <3>2 DEF Running, NotBegun
  <2>4. CASE redis # x
    BY <1>0, <1>3, <2>1, <2>2, <2>4, RunnerStepIsLocal DEF ActiveIdHasRunner, Running
  <2>. QED  BY <2>3, <2>4
<1>. QED  BY <1>1, <1>2, <1>3 DEF Next, Reset, FailRequest, FailRunner, Crash, vars

\* While Redis and the database work, no id is left behind without a runner,
\* for any number of workers and requests, overlapping ones included.
THEOREM NoIdIsLeftBehind ==
  ASSUME RedisMode = "up", ~MayFail
  PROVE  Spec => []ActiveIdHasRunner
<1>1. Init => ActiveIdHasRunner
  BY DEF Init, ActiveIdHasRunner
<1>2. SimInv /\ ActiveIdHasRunner /\ [Next]_vars => ActiveIdHasRunner'
  BY ActiveStep
<1>. QED  BY <1>1, <1>2, SimInit, SimStep, PTL DEF Spec

-----------------------------------------------------------------------------
(* A reset leaves only late rows, where requests do not overlap             *)

\* The rows that the request's DELETE statements have not taken yet.
KeptReports(r) == IF r.pc \in {"units", "zones", "commit"} THEN reports \ r.reports ELSE reports
KeptFleets(r) == IF r.pc \in {"zones", "commit"} THEN fleets \ r.fleets ELSE fleets
KeptZones(r) == IF r.pc = "commit" THEN zones \ r.zones ELSE zones

\* Once a table has been gone through, what is kept of a cancelled scenario is
\* late.
ReportsAreLate(r) ==
  r.pc # "reports" =>
    \A x \in cancelled, k \in StepSet : <<x, k>> \in KeptReports(r) => <<"report", x, k>> \in late
FleetsAreGone(r) == r.pc \notin {"reports", "units"} => KeptFleets(r) \cap cancelled = {}
ZonesAreLate(r) ==
  r.pc \notin {"reports", "units", "zones"} =>
    \A x \in cancelled, k \in StepSet : <<x, k>> \in KeptZones(r) => <<"zone", x, k>> \in late

\* From the moment the stored id is cleared until the next one is stored, every
\* scenario that has one is cancelled; the one that is stored then is not.
Begun(x) == runner[x].pc \notin {"none", "drawn"}
AllAreCancelled(r) ==
  r.pc \in {"reports", "units", "zones", "commit", "announce", "activate"} =>
    \A x \in Sims : Begun(x) => x \in cancelled
StartsItsOwn(r) == r.pc = "seed" => r.sim \notin cancelled

LeavesInv(q) ==
  /\ ReportsAreLate(request[q]) /\ FleetsAreGone(request[q]) /\ ZonesAreLate(request[q])
  /\ AllAreCancelled(request[q]) /\ StartsItsOwn(request[q])
  /\ \A x \in cancelled : Begun(x)

\* A scenario that stores a row after it was cancelled stores a late one.
LEMMA LeavesOfRunner ==
  ASSUME SimInv, NEW q \in Requests, LeavesInv(q), NEW y \in Sims, RunnerStep(y)
  PROVE  LeavesInv(q)'
<1>1. /\ request' = request /\ cancelled' = cancelled /\ fleets' = fleets /\ late \subseteq late'
      /\ \A x, k : <<x, k>> \in reports' => \/ <<x, k>> \in reports
                                            \/ x \in cancelled => <<"report", x, k>> \in late'
      /\ \A x, k : <<x, k>> \in zones' => \/ <<x, k>> \in zones
                                          \/ x \in cancelled => <<"zone", x, k>> \in late'
  BY DEF RunnerStep, Check, Insert, Announce, ExpandZone, CheckComplete, Complete,
         AnnounceComplete, Final, FinalClear, Committed, Late, tables
<1>2. \A x \in Sims : Begun(x)' <=> Begun(x)
  <2>1. ~NotBegun(y) /\ ~NotBegun(y)' /\ \A x \in Sims : x # y => runner'[x] = runner[x]
    BY RunnerStepIsLocal DEF SimInv
  <2> QED BY <2>1 DEF NotBegun, Begun
<1>3. cancelled \subseteq Sims
  BY DEF SimInv, TypeOK
<1>4. PICK r : r = request[q] /\ r = request'[q]
  BY <1>1
<1>5. ReportsAreLate(r)'
  BY <1>1, <1>4 DEF LeavesInv, ReportsAreLate, KeptReports
<1>6. ZonesAreLate(r)'
  BY <1>1, <1>4 DEF LeavesInv, ZonesAreLate, KeptZones
<1>7. FleetsAreGone(r)' /\ AllAreCancelled(r)' /\ StartsItsOwn(r)'
  BY <1>1, <1>2, <1>4 DEF LeavesInv, FleetsAreGone, KeptFleets, AllAreCancelled, StartsItsOwn
<1> QED BY <1>1, <1>2, <1>3, <1>4, <1>5, <1>6, <1>7 DEF LeavesInv

\* A request empties one table after the other of what it has cancelled.
LEMMA LeavesOfRequest ==
  ASSUME SimInv, NEW q \in Requests, LeavesInv(q), RequestStep(q)
  PROVE  LeavesInv(q)'
<1>0. /\ TypeOK /\ request[q] \in RequestSet /\ cancelled \subseteq Sims
      /\ StartInv /\ q \in DOMAIN request
  BY DEF SimInv, TypeOK
<1> DEFINE r == request[q]
           s == request'[q]
<1>a. /\ ReportsAreLate(r) /\ FleetsAreGone(r) /\ ZonesAreLate(r) /\ AllAreCancelled(r)
      /\ StartsItsOwn(r) /\ \A x \in cancelled : Begun(x)
  BY DEF LeavesInv
<1> USE DEF ReportsAreLate, FleetsAreGone, ZonesAreLate, AllAreCancelled, StartsItsOwn, Begun,
            KeptReports, KeptFleets, KeptZones
<1>1. CASE ClearActiveId(q)
  <2>1. s.pc = "reports" /\ runner' = runner /\ cancelled' = Cancels(NoSim)
    BY <1>0, <1>1 DEF ClearActiveId, RequestTo, RequestSet
  <2>2. \A x \in Sims : x \in cancelled' <=> x \in cancelled \/ Begun(x)
    BY <2>1, NoSimIsNoId DEF Cancels
  <2>3. cancelled' \subseteq Sims
    BY <1>0, <2>1 DEF Cancels
  <2> QED BY <1>a, <2>1, <2>2, <2>3 DEF LeavesInv
<1>2. CASE DeleteReports(q)
  <2>1. /\ r.pc = "reports" /\ s.pc = "units" /\ s.reports = reports
        /\ UNCHANGED <<runner, cancelled, late, reports, fleets, zones>>
    BY <1>0, <1>2 DEF DeleteReports, DeletedReports, RequestSet, tables
  <2> QED BY <1>a, <2>1 DEF LeavesInv
<1>3. CASE DeleteUnits(q)
  <2>1. /\ r.pc = "units" /\ s.pc = "zones" /\ s.reports = r.reports /\ s.fleets = fleets
        /\ UNCHANGED <<runner, cancelled, late, reports, fleets, zones>>
    BY <1>0, <1>3 DEF DeleteUnits, DeletedFleets, RequestSet, tables
  <2> QED BY <1>a, <2>1 DEF LeavesInv
<1>4. CASE DeleteZones(q)
  <2>1. /\ r.pc = "zones" /\ s.pc = "commit" /\ s.reports = r.reports /\ s.fleets = r.fleets
        /\ s.zones = zones /\ UNCHANGED <<runner, cancelled, late, reports, fleets, zones>>
    BY <1>0, <1>4 DEF DeleteZones, RequestSet, tables
  <2> QED BY <1>a, <2>1 DEF LeavesInv
<1>5. CASE CommitReset(q)
  <2>1. /\ r.pc = "commit" /\ s.pc = "announce"
        /\ reports' = reports \ r.reports /\ fleets' = fleets \ r.fleets /\ zones' = zones \ r.zones
        /\ UNCHANGED <<runner, cancelled, late>>
    BY <1>0, <1>5 DEF CommitReset, RequestTo, RequestSet
  <2> QED BY <1>a, <2>1 DEF LeavesInv
<1>6. CASE AnnounceReset(q)
  <2>1. /\ r.pc = "announce" /\ s.pc = "idle"
        /\ UNCHANGED <<runner, cancelled, late, reports, fleets, zones>>
    BY <1>0, <1>6 DEF AnnounceReset, Idle, tables
  <2> QED BY <1>a, <2>1 DEF LeavesInv
<1>7. ASSUME NEW x \in Sims, AnnounceAndDraw(q, x) PROVE LeavesInv(q)'
  <2>1. /\ r.pc = "announce" /\ s.pc = "activate"
        /\ runner[x].pc = "none" /\ runner'[x].pc = "drawn"
        /\ \A y \in Sims : y # x => runner'[y] = runner[y]
        /\ UNCHANGED <<cancelled, late, reports, fleets, zones>>
    BY <1>0, <1>7 DEF AnnounceAndDraw, TypeOK, RequestSet, RunnerSet, tables
  <2>2. \A y \in Sims : Begun(y)' <=> Begun(y)
    BY <2>1
  <2> QED BY <1>0, <1>a, <2>1, <2>2 DEF LeavesInv
<1>8. CASE Activate(q)
  <2>1. /\ r.pc = "activate" /\ s.pc = "seed" /\ s.sim = r.sim /\ cancelled' = Cancels(r.sim)
        /\ UNCHANGED <<late, reports, fleets, zones>>
    BY <1>0, <1>8 DEF Activate, RequestTo, RequestSet, tables
  <2>2. r.sim \in Sims /\ runner[r.sim].pc = "drawn"
    BY <1>0, <2>1 DEF StartInv, Starts, Waiting
  <2>3. cancelled' = cancelled
    BY <1>0, <1>a, <2>1 DEF Cancels
  <2>4. r.sim \notin cancelled
    BY <1>a, <2>2
  <2>5. \A y \in Sims : y # r.sim => runner'[y] = runner[y]
    BY <1>0, <1>8 DEF Activate, RunnerTo, TypeOK
  <2> QED BY <1>0, <1>a, <2>1, <2>3, <2>4, <2>5 DEF LeavesInv
<1>9. CASE SeedUnits(q)
  <2>1. /\ r.pc = "seed" /\ s.pc = "idle" /\ fleets' = fleets \cup {r.sim}
        /\ UNCHANGED <<cancelled, late, reports, zones>>
    BY <1>0, <1>9 DEF SeedUnits, Idle
  <2>2. r.sim \notin cancelled
    BY <1>a, <2>1
  <2>3. \A y \in Sims : y # r.sim => runner'[y] = runner[y]
    BY <1>0, <1>9 DEF SeedUnits, RunnerTo, TypeOK
  <2> QED BY <1>0, <1>a, <2>1, <2>2, <2>3 DEF LeavesInv
<1> QED BY <1>1, <1>2, <1>3, <1>4, <1>5, <1>6, <1>7, <1>8, <1>9 DEF RequestStep

\* Where requests follow one another and nothing fails, a reset deletes all that
\* a cancelled scenario had: afterwards its rows are those it stored late, in the
\* one step AtMostOneLateStep leaves it (reset_demo_state clears the id before it
\* deletes, and run_staggered_simulation looks at the id before it inserts).
THEOREM ConsecutiveResetsLeaveLateRows ==
  ASSUME NEW q, Requests = {q}, ~MayFail
  PROVE  Spec => []ResetsLeaveOnlyLateRows
<1>1. Init => LeavesInv(q)
  BY DEF Init, LeavesInv, ReportsAreLate, FleetsAreGone, ZonesAreLate, AllAreCancelled, StartsItsOwn,
         KeptReports, KeptFleets, KeptZones, Idle
<1>2. SimInv /\ LeavesInv(q) /\ [Next]_vars => LeavesInv(q)'
  <2>. SUFFICES ASSUME SimInv, LeavesInv(q), [Next]_vars PROVE LeavesInv(q)'
    OBVIOUS
  <2>0. q \in Requests
    OBVIOUS
  <2> USE DEF LeavesInv, ReportsAreLate, FleetsAreGone, ZonesAreLate, AllAreCancelled, StartsItsOwn,
              KeptReports, KeptFleets, KeptZones, Begun
  <2>1. CASE UNCHANGED vars
    BY <2>1 DEF vars, tables
  <2>2. ASSUME NEW w \in Workers, NEW triggers \in BOOLEAN, Reset(q, w, triggers)
        PROVE  LeavesInv(q)'
    <3>1. /\ request[q].pc = "idle" /\ request'[q].pc = "clear"
          /\ UNCHANGED <<runner, cancelled, late, reports, fleets, zones>>
      BY <2>0, <2>2 DEF Reset, Idle, SimInv, TypeOK, tables
    <3> QED BY <3>1
  <2>3. CASE RequestStep(q)
    BY <2>0, <2>3, LeavesOfRequest
  <2>4. ASSUME NEW x \in Sims, RunnerStep(x) PROVE LeavesInv(q)'
    BY <2>0, <2>4, LeavesOfRunner
  <2> QED BY <2>1, <2>2, <2>3, <2>4 DEF Next, FailRequest, FailRunner, Crash
<1>3. LeavesInv(q) => ResetsLeaveOnlyLateRows
  BY DEF LeavesInv, ReportsAreLate, FleetsAreGone, ZonesAreLate, KeptReports, KeptFleets, KeptZones,
         ResetsLeaveOnlyLateRows, NoRequestIsOpen
<1>. QED  BY <1>1, <1>2, <1>3, SimInit, SimStep, PTL DEF Spec

=============================================================================
