---------------------------- MODULE RouteAnimation ----------------------------
(***************************************************************************)
(* The vehicle that moves along the focused route                          *)
(* (hooks/useAnimatedRouteProgress.ts).  A route is the lengths of its     *)
(* segments, the lengths of its steps, and how long it takes, in numbers   *)
(* small enough to check; the page gives no real-time position.            *)
(***************************************************************************)
EXTENDS Naturals, Sequences, SequencesExt, FiniteSetsExt

CONSTANTS
  Drives,    \* routes: [segments, steps : sequences of lengths, duration : Nat]
  NoDrive

ASSUME DrivesAssumption ==
  /\ NoDrive \notin Drives
  /\ \A d \in Drives : d.segments \in Seq(Nat) /\ d.steps \in Seq(Nat) /\ d.duration \in Nat

VARIABLES
  drive,      \* the route of the latest render
  startTime,  \* startTimeRef is set
  elapsed,    \* time since then, in the last frame
  frames,     \* the routes whose next frame is scheduled
  progress    \* what the hook returns: of which route, and where on it

driveVars == <<drive, startTime, elapsed, frames, progress>>

Total(lengths) == FoldLeft(LAMBDA sum, length : sum + length, 0, lengths)

\* buildCumulativeDistances, and the bounds of the steps.
DistanceFromStart(d, i) == Total(SubSeq(d.segments, 1, i))
StepEnd(d, i) == Total(SubSeq(d.steps, 1, i))

\* traveledMeters after e of the route's duration, times the duration.
Duration(d) == IF d.duration = 0 THEN 1 ELSE d.duration
Traveled(d, e) == e * Total(d.segments)

\* interpolateAtDistance: the first segment that ends at or after the distance.
Segment(d, e) ==
  LET ahead == {i \in 1 .. Len(d.segments) :
                  DistanceFromStart(d, i) * Duration(d) >= Traveled(d, e)}
  IN IF ahead = {} THEN Len(d.segments) ELSE Min(ahead)

\* The first step that ends after the distance, counted from 0; or the first of
\* all when none does.
CurrentStep(d, e) ==
  LET ahead == {i \in 1 .. Len(d.steps) : Traveled(d, e) < StepEnd(d, i) * Duration(d)}
  IN IF ahead = {} THEN 0 ELSE Min(ahead) - 1

Progress(d, e) ==
  [of |-> d, elapsed |-> e, segment |-> Segment(d, e), step |-> CurrentStep(d, e)]
Nothing == [of |-> NoDrive, elapsed |-> 0, segment |-> 0, step |-> 0]

DriveTypeOK ==
  /\ drive \in Drives \cup {NoDrive}
  /\ startTime \in BOOLEAN
  /\ elapsed \in Nat
  /\ frames \in SUBSET Drives
  /\ progress.of \in Drives \cup {NoDrive}
  /\ {progress.elapsed, progress.segment, progress.step} \subseteq Nat

DriveInit ==
  /\ drive = NoDrive
  /\ startTime = FALSE /\ elapsed = 0
  /\ frames = {}
  /\ progress = Nothing

-----------------------------------------------------------------------------
\* The clean-up cancels the frame that is scheduled.  (Mutant: it has none.)
StillScheduled(scheduled) == scheduled
CancelledFrames(scheduled) == {}

\* The page's route is another one, or none.  The progress of the previous one
\* stays until the first frame of a new one.
DriveChanges(d) ==
  /\ d # drive
  /\ drive' = d
  /\ IF d = NoDrive
       THEN /\ frames' = CancelledFrames(frames)
            /\ progress' = Nothing
            /\ UNCHANGED <<startTime, elapsed>>
       ELSE /\ frames' = CancelledFrames(frames) \cup {d}
            /\ startTime' = FALSE
            /\ elapsed' = 0
            /\ UNCHANGED progress

\* A frame of d, at e since the start; frames may be late.
Frame(d, e) ==
  /\ d \in frames
  /\ IF startTime THEN e \in elapsed .. Duration(d) ELSE e = 0
  /\ startTime' = TRUE
  /\ elapsed' = e
  /\ progress' = Progress(d, e)
  /\ frames' = IF e < Duration(d) THEN frames ELSE frames \ {d}
  /\ UNCHANGED drive

DriveNext ==
  \/ \E d \in Drives \cup {NoDrive} : DriveChanges(d)
  \/ \E d \in frames : \E e \in 0 .. Duration(d) : Frame(d, e)

-----------------------------------------------------------------------------
\* Invariant.  From the first frame of a route on, the vehicle, the distance and
\* the step are those of that route: no frame of a route opened before comes in
\* between, nor moves the vehicle when the card is closed.
AnimationShowsItsRoute ==
  /\ startTime /\ drive # NoDrive => progress.of = drive /\ progress.elapsed = elapsed
  /\ drive = NoDrive => progress = Nothing

=============================================================================
