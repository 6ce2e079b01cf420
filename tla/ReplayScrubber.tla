---------------------------- MODULE ReplayScrubber ----------------------------
(***************************************************************************)
(* The replay of the incident log on the dashboard: the page's mode and    *)
(* events (app/dashboard/page.tsx) and the scrubber that plays them        *)
(* (components/ReplayScrubber.tsx).  Events are counted, not told apart.   *)
(***************************************************************************)
EXTENDS Naturals

CONSTANTS
  Lengths,   \* how many events a request for the log may find
  MaxLoads   \* bound: requests for the log that are on their way

ASSUME LengthsAssumption == Lengths \subseteq Nat /\ MaxLoads \in Nat

VARIABLES
  isReplayMode,
  events,       \* the length of the page's replayEvents
  currentIndex, \* the scrubber's position
  isPlaying,
  loading,      \* requests for the events that are on their way
  rebuilt       \* the page's lists were rebuilt from the events

replayVars == <<isReplayMode, events, currentIndex, isPlaying, loading, rebuilt>>

ReplayInit ==
  /\ isReplayMode = FALSE
  /\ events = 0
  /\ currentIndex = 0
  /\ isPlaying = FALSE
  /\ loading = 0
  /\ rebuilt = FALSE

\* While there are events the scrubber stands on one of them, though a shorter
\* log may arrive during playback or after the mode was left.
ScrubberIsInLog == events > 0 => currentIndex < events

-----------------------------------------------------------------------------
\* handleToggleReplayMode: the mode changes at once, the events follow.
EnterReplay == isReplayMode' = TRUE /\ loading' = loading + 1
LeaveReplay == isReplayMode' = FALSE /\ loading' = loading

\* Where the scrubber stands after a render with n events, if they are new.
Jumped(n) == IF n > 0 THEN n - 1 ELSE currentIndex

\* The events arrive; a failure puts the live mode back.
EventsLoaded(n) ==
  /\ loading > 0
  /\ loading' = loading - 1
  /\ events' = n
  /\ currentIndex' = Jumped(n)
  /\ UNCHANGED <<isReplayMode, isPlaying, rebuilt>>

EventsFailed ==
  /\ loading > 0
  /\ loading' = loading - 1
  /\ isReplayMode' = FALSE
  /\ UNCHANGED <<events, currentIndex, isPlaying, rebuilt>>

\* handleSelectReplayEventIndex of a render that had n events.
Select(i, n) == rebuilt' = (rebuilt \/ i < n)

-----------------------------------------------------------------------------
\* The scrubber's button while the mode is off, and the one that leaves it.
EnterButton ==
  /\ ~isReplayMode /\ loading < MaxLoads
  /\ EnterReplay
  /\ UNCHANGED <<events, currentIndex, isPlaying, rebuilt>>

ExitButton ==
  /\ isReplayMode
  /\ isPlaying' = FALSE
  /\ LeaveReplay
  /\ UNCHANGED <<events, currentIndex, rebuilt>>

PlayButton ==
  /\ isReplayMode /\ events > 0
  /\ isPlaying' = ~isPlaying
  /\ UNCHANGED <<isReplayMode, events, currentIndex, loading, rebuilt>>

\* The restart button and the slider; the slider's range has one place at least.
Slide(i) ==
  /\ isReplayMode
  /\ i < events \/ i = 0
  /\ currentIndex' = i
  /\ Select(i, events)
  /\ UNCHANGED <<isReplayMode, events, isPlaying, loading>>

\* Playback has reached the latest event.  (Mutant: it goes one further.)
PastEnd == currentIndex >= events
AtEnd == currentIndex + 1 >= events

\* The interval: one event further, or the end of the playback.
Tick ==
  /\ isPlaying /\ isReplayMode /\ events > 0
  /\ IF AtEnd
       THEN isPlaying' = FALSE /\ UNCHANGED <<currentIndex, rebuilt>>
       ELSE /\ currentIndex' = currentIndex + 1
            /\ Select(currentIndex + 1, events)
            /\ UNCHANGED isPlaying
  /\ UNCHANGED <<isReplayMode, events, loading>>

Scrubber ==
  \/ EnterButton \/ ExitButton \/ PlayButton \/ Tick
  \/ \E i \in 0 .. events : Slide(i)

Loaded == EventsFailed \/ \E n \in Lengths : EventsLoaded(n)

=============================================================================
