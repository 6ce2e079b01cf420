-------------------------- MODULE InundationPlayback --------------------------
(***************************************************************************)
(* The flood inundation map of the telemetry view                          *)
(* (components/FloodInundationTelemetryDashboard.tsx): its hour, played or *)
(* scrubbed, and the zones drawn for it.                                   *)
(***************************************************************************)
EXTENDS Naturals

VARIABLES
  currentHour,
  isPropagating, \* the component's isPlaying
  canvas,        \* the map: "loading" or "ready"
  zones,         \* the zones its source holds, by the hour they start
  freshCanvas    \* history: the hour has not changed since the map was ready

inundationVars == <<currentHour, isPropagating, canvas, zones, freshCanvas>>

\* SAMPLE_INUNDATION_ZONES: when each zone starts; and INUNDATION_TIME_BANDS: when
\* each band ends.
ZoneStarts == {0, 10, 20, 30, 40, 50}
BandEnds == {10, 20, 30, 40, 50, 68}
LastHour == 68

ActiveZones(hour) == {start \in ZoneStarts : start <= hour}

InundationTypeOK ==
  /\ currentHour \in 0 .. LastHour + 1
  /\ {isPropagating, freshCanvas} \subseteq BOOLEAN
  /\ canvas \in {"loading", "ready"}
  /\ zones \in SUBSET ZoneStarts

InundationInit ==
  /\ currentHour = 24
  /\ isPropagating = FALSE
  /\ canvas = "loading" /\ zones = {} /\ freshCanvas = TRUE

-----------------------------------------------------------------------------
\* The effect of the hour, which finds no source until the map is ready.
\* (Mutant: it does not depend on the hour.)
StaysDrawn(hour) == UNCHANGED zones /\ freshCanvas' = FALSE
DrawZones(hour) == zones' = ActiveZones(hour) /\ freshCanvas' = FALSE

HourBecomes(hour) ==
  /\ currentHour' = hour
  /\ IF canvas = "ready" /\ hour # currentHour
       THEN DrawZones(hour)
       ELSE UNCHANGED <<zones, freshCanvas>>

\* The interval: two hours further, past the last one from an odd hour; or the
\* end of the playback.
PropagationTick ==
  /\ isPropagating
  /\ IF currentHour >= LastHour
       THEN HourBecomes(LastHour) /\ isPropagating' = FALSE
       ELSE HourBecomes(currentHour + 2) /\ UNCHANGED isPropagating
  /\ UNCHANGED canvas

PropagationButton ==
  /\ isPropagating' = ~isPropagating
  /\ UNCHANGED <<currentHour, canvas, zones, freshCanvas>>

\* The slider, the reset button and the bands of the legend.
ScrubHour(hour) == HourBecomes(hour) /\ UNCHANGED <<isPropagating, canvas>>

\* The map has loaded with an empty source.
CanvasLoaded ==
  /\ canvas = "loading"
  /\ canvas' = "ready"
  /\ UNCHANGED <<currentHour, isPropagating, zones, freshCanvas>>

\* mapCenter is another array, as it is in every render of the page once it has
\* a location: the map is removed and made again.
CanvasRemade ==
  /\ canvas' = "loading" /\ zones' = {} /\ freshCanvas' = TRUE
  /\ UNCHANGED <<currentHour, isPropagating>>

InundationNext ==
  \/ PropagationTick \/ PropagationButton \/ CanvasLoaded \/ CanvasRemade
  \/ \E hour \in 0 .. LastHour : ScrubHour(hour)
  \/ \E hour \in BandEnds : ScrubHour(hour)

-----------------------------------------------------------------------------
\* Invariant.  Once the hour has changed on a map, played, scrubbed forward or
\* back, past the end or while the map was loading again, the map shows exactly
\* the zones that have flooded by the hour shown; before that it shows none.
InundationIsCurrent ==
  zones = IF canvas = "ready" /\ ~freshCanvas THEN ActiveZones(currentHour) ELSE {}

=============================================================================
