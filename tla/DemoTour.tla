------------------------------- MODULE DemoTour -------------------------------
(***************************************************************************)
(* The guided tour (hooks/useDemoTour.ts) and the replay it opens.  Each   *)
(* start or resumption begins a chain of steps; a step that awaits a       *)
(* request holds no timer meanwhile, so that clearTimers does not reach it.*)
(***************************************************************************)
EXTENDS ReplayScrubber, FiniteSets

CONSTANT MaxChains   \* bound: chains that are started

ASSUME ChainsAssumption == MaxChains \in Nat \ {0}

VARIABLES
  isRunning, isPaused, currentStepIndex,
  started,      \* chains started so far
  chain,        \* chain[c]: what it waits for, and in which step
  timerRef,     \* the chain whose timer timerRef holds
  scrubs,       \* pending scrubs of step 7: the events their renders had
  interrupted   \* history: the officer paused or cancelled while a step awaited

tourVars == <<isRunning, isPaused, currentStepIndex, started, chain, timerRef,
              scrubs, interrupted>>
\* Step k of the code, counted from 0, and the number of steps.
LastStep == 6
Steps == 0 .. LastStep
ScenarioStep == 2
DispatchStep == 4
ReplayStep == 6
Awaited == {ScenarioStep, DispatchStep, ReplayStep}

Chains == 1 .. MaxChains
NoChain == 0
NotPending == [at |-> "done", step |-> 0, events |-> 0]

TourTypeOK ==
  /\ {isReplayMode, isPlaying, rebuilt, isRunning, isPaused, interrupted} \subseteq BOOLEAN
  /\ currentStepIndex \in Steps
  /\ chain \in [Chains -> [at : {"done", "await", "timer"}, step : Steps,
                           events : Lengths \cup {0}]]
  /\ timerRef \in Chains \cup {NoChain}
  /\ loading \in Nat /\ events \in Lengths \cup {0} /\ currentIndex \in Nat
  /\ ScrubberIsInLog

TourInit ==
  /\ ReplayInit
  /\ isRunning = FALSE /\ isPaused = FALSE /\ currentStepIndex = 0
  /\ started = 0
  /\ chain = [c \in Chains |-> NotPending]
  /\ timerRef = NoChain
  /\ scrubs = {}
  /\ interrupted = FALSE

-----------------------------------------------------------------------------
\* clearTimers: the timer that timerRef holds, if it has not fired.  (Mutant:
\* nothing is cleared.)
NotCleared == chain
Cleared ==
  [c \in Chains |-> IF c = timerRef /\ chain[c].at = "timer" THEN NotPending ELSE chain[c]]

\* The tour is complete.  (Mutant: it stays on its last step.)
StaysOpen == UNCHANGED isRunning /\ isPaused' = FALSE
Completed == isRunning' = FALSE /\ isPaused' = FALSE

\* executeStep(k) in chain c, the other chains being as in others.  What a step
\* only shows is left out: the map's camera, the slider of step 2, the report
\* that step 4 makes up for the list (lines 151-164) and the card of step 6.
Execute(c, k, others) ==
  IF k > LastStep
    THEN /\ Completed
         /\ chain' = [others EXCEPT ![c] = NotPending]
         /\ UNCHANGED <<currentStepIndex, timerRef, replayVars>>
    ELSE /\ currentStepIndex' = k
         /\ chain' = [others EXCEPT ![c] =
                        [at |-> IF k \in Awaited THEN "await" ELSE "timer",
                         step |-> k, events |-> events]]
         /\ timerRef' = IF k \in Awaited THEN timerRef ELSE c
         /\ IF k = ReplayStep
              THEN EnterReplay /\ UNCHANGED <<events, currentIndex, isPlaying, rebuilt>>
              ELSE UNCHANGED replayVars
         /\ UNCHANGED <<isRunning, isPaused>>

\* startDemo; the button is there while no tour runs.
StartDemo ==
  /\ ~isRunning
  /\ started < MaxChains
  /\ started' = started + 1
  /\ isRunning' = TRUE /\ isPaused' = FALSE /\ currentStepIndex' = 0
  /\ chain' = [Cleared EXCEPT ![started + 1] = [at |-> "timer", step |-> 0, events |-> events]]
  /\ timerRef' = started + 1
  /\ UNCHANGED <<replayVars, scrubs, interrupted>>

\* A step's timer fires: the next step, or the end.  A complete tour clears
\* whatever timerRef holds.
Fire(c) ==
  /\ chain[c].at = "timer"
  /\ Execute(c, chain[c].step + 1, IF chain[c].step = LastStep THEN Cleared ELSE chain)
  /\ UNCHANGED <<started, scrubs, interrupted>>

\* The request of a step is answered: the timer of the next one is set, whether
\* or not the tour is still running.  Step 7 also sets the timer of its scrub,
\* with the callback of the render the step began in.
StepAnswered(c) ==
  /\ chain[c].at = "await"
  /\ chain' = [chain EXCEPT ![c].at = "timer"]
  /\ timerRef' = c
  /\ scrubs' = IF chain[c].step = ReplayStep THEN scrubs \cup {chain[c].events} ELSE scrubs
  /\ IF chain[c].step = ReplayStep THEN Loaded ELSE UNCHANGED replayVars
  /\ UNCHANGED <<isRunning, isPaused, currentStepIndex, started, interrupted>>

\* selectReplayIndex(2) of that render, live or not, tour or not.
Scrub(n) ==
  /\ n \in scrubs
  /\ scrubs' = scrubs \ {n}
  /\ Select(2, n)
  /\ UNCHANGED <<isReplayMode, events, currentIndex, isPlaying, loading>>
  /\ UNCHANGED <<isRunning, isPaused, currentStepIndex, started, chain, timerRef, interrupted>>

Awaits == \E c \in Chains : chain[c].at = "await"

PauseDemo ==
  /\ isRunning /\ ~isPaused
  /\ chain' = Cleared
  /\ isPaused' = TRUE
  /\ interrupted' = (interrupted \/ Awaits)
  /\ UNCHANGED <<replayVars, isRunning, currentStepIndex, started, timerRef, scrubs>>

\* resumeDemo: a timer of its own for the step after the one shown.
ResumeDemo ==
  /\ isRunning /\ isPaused
  /\ started < MaxChains
  /\ started' = started + 1
  /\ isPaused' = FALSE
  /\ chain' = [chain EXCEPT ![started + 1] =
                 [at |-> "timer", step |-> currentStepIndex, events |-> events]]
  /\ timerRef' = started + 1
  /\ UNCHANGED <<replayVars, isRunning, currentStepIndex, scrubs, interrupted>>

CancelDemo ==
  /\ isRunning
  /\ chain' = Cleared
  /\ isRunning' = FALSE /\ isPaused' = FALSE /\ currentStepIndex' = 0
  /\ LeaveReplay
  /\ interrupted' = (interrupted \/ Awaits)
  /\ UNCHANGED <<events, currentIndex, isPlaying, rebuilt, started, timerRef, scrubs>>

\* The request of an officer who entered the replay by its button.
OtherLoad ==
  /\ loading > Cardinality({c \in Chains : chain[c].at = "await" /\ chain[c].step = ReplayStep})
  /\ Loaded
  /\ UNCHANGED tourVars

ChainStep(c) == Fire(c) \/ StepAnswered(c)

TourNext ==
  \/ StartDemo \/ PauseDemo \/ ResumeDemo \/ CancelDemo
  \/ \E c \in Chains : ChainStep(c)
  \/ \E n \in scrubs : Scrub(n)
  \/ OtherLoad
  \/ Scrubber /\ UNCHANGED tourVars

-----------------------------------------------------------------------------
Pending == {c \in Chains : chain[c].at # "done"}

\* Invariant.  Unless it was paused or cancelled while a step awaited its
\* request, a tour is one chain of steps, and one that has ended, or is paused,
\* has none: no step runs twice, and none runs behind the officer's back.
OneStepAtATime ==
  ~interrupted => Cardinality(Pending) = IF isRunning /\ ~isPaused THEN 1 ELSE 0

\* Whatever the officer pauses, resumes and cancels, and however many chains
\* that leaves, the tour ends unless it is left paused.
TourEnds == <>[](~isRunning \/ isPaused)

=============================================================================
