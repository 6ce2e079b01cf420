------------------------------- MODULE RiskView -------------------------------
(***************************************************************************)
(* The risk grid and the flood zones of the dashboard and what they depend *)
(* on: the rainfall slider behind its debounce, the mode, the scenario,    *)
(* the region the map has found or the officer has chosen, the live        *)
(* reading for it, and the n8n feed that moves the slider                  *)
(* (app/dashboard/page.tsx, useDebounce, useLiveRainfall, useN8nLiveFeed,  *)
(* the geolocation in MapContainer.tsx).                                   *)
(***************************************************************************)
EXTENDS Naturals

CONSTANTS
  Levels,     \* rainfall intensities
  Readings,   \* live readings
  Cities,     \* the regions the officer can choose
  Sims,       \* scenarios
  Here,       \* where the browser says the officer is
  Nowhere     \* no location yet

ASSUME RiskAssumption ==
  /\ 0 \in Levels
  /\ Here \notin Cities /\ Nowhere \notin Cities \cup {Here}
  /\ "none" \notin Readings \cup Sims

VARIABLES
  rainfall, debounced,
  riskMode,
  activeSimId,
  userLocation,
  reading,      \* liveWeatherInfo
  readingPolls, \* places the polls on their way, whose effect still runs, ask for
  lookups,      \* geolocation lookups on their way: of this map, of a removed one
  chosen,       \* isUserSelectedRegionRef of this map
  riskFetches,  \* requests on their way whose effect is still subscribed
  riskFor,      \* the inputs the risk grid was computed from, if any
  gridZones,    \* the flood zones shown are those that came with the grid
  failed        \* the latest request failed

riskVars == <<rainfall, debounced, riskMode, activeSimId, userLocation, reading,
              readingPolls, lookups, chosen, riskFetches, riskFor, gridZones, failed>>

Places == Cities \cup {Here, Nowhere}
AllInputs == [rainfall : Levels, mode : {"simulated", "live"}, sim : Sims \cup {"none"},
              place : Places, reading : Readings \cup {"none"}]

\* What the effect that asks for the grid depends on.
Inputs == [rainfall |-> debounced, mode |-> riskMode, sim |-> activeSimId,
           place |-> userLocation, reading |-> reading]
NoInputs == [rainfall |-> "none"]

RiskTypeOK ==
  /\ rainfall \in Levels /\ debounced \in Levels
  /\ riskMode \in {"simulated", "live"}
  /\ activeSimId \in Sims \cup {"none"}
  /\ userLocation \in Places
  /\ reading \in Readings \cup {"none"}
  /\ readingPolls \in SUBSET Places
  /\ lookups \in SUBSET {"map", "removed"}
  /\ riskFetches \in SUBSET AllInputs
  /\ riskFor \in AllInputs \cup {NoInputs}
  /\ {chosen, gridZones, failed} \subseteq BOOLEAN

RiskInit ==
  /\ rainfall = 0 /\ debounced = 0
  /\ riskMode = "simulated" /\ activeSimId = "none"
  /\ userLocation = Nowhere
  /\ reading = "none" /\ readingPolls = {}
  /\ lookups = {"map"} /\ chosen = FALSE
  /\ riskFetches = {Inputs} /\ riskFor = NoInputs /\ gridZones = FALSE /\ failed = FALSE

-----------------------------------------------------------------------------
\* The effect's clean-up unsubscribes the request.  (Mutant: it has none.)
StillAwaited(fetches) == fetches
Forgotten(fetches) == {}

\* The effect runs: the grid and the zones are asked for.
AskRisk == riskFetches' = Forgotten(riskFetches) \cup {Inputs'} /\ failed' = FALSE
AskRiskIf(changed) == IF changed THEN AskRisk ELSE UNCHANGED <<riskFetches, failed>>

\* Both answers are there, or one of the requests has failed.
RiskAnswered(i) ==
  /\ i \in riskFetches
  /\ riskFetches' = riskFetches \ {i}
  /\ \/ riskFor' = i /\ gridZones' = TRUE /\ UNCHANGED failed
     \/ failed' = TRUE /\ UNCHANGED <<riskFor, gridZones>>
  /\ UNCHANGED <<rainfall, debounced, riskMode, activeSimId, userLocation, reading, readingPolls,
                 lookups, chosen>>

\* ZONE_EXPANDED replaces the zones; a reset, or a replay without one, removes
\* them.
ZonesReplaced ==
  /\ gridZones' = FALSE
  /\ UNCHANGED <<rainfall, debounced, riskMode, activeSimId, userLocation, reading, readingPolls,
                 lookups, chosen, riskFetches, riskFor, failed>>

\* The slider, or the guided tour.
RainfallChange(v) ==
  /\ rainfall' = v
  /\ UNCHANGED <<debounced, riskMode, activeSimId, userLocation, reading, readingPolls,
                 lookups, chosen, riskFetches, riskFor, gridZones, failed>>

\* useDebounce: the slider has rested.
DebounceFires ==
  /\ debounced # rainfall
  /\ debounced' = rainfall
  /\ UNCHANGED <<rainfall, riskMode, activeSimId, userLocation, reading, readingPolls,
                 lookups, chosen, riskFor, gridZones>>
  /\ AskRisk

-----------------------------------------------------------------------------
\* useLiveRainfall's effect runs, in live mode: its clean-up unsubscribes the
\* polls of the previous one and it polls at once for the new place.
Polled(mode, place) == IF mode = "live" THEN {place} ELSE {}

RiskModeChange ==
  /\ riskMode' = IF riskMode = "live" THEN "simulated" ELSE "live"
  /\ readingPolls' = Polled(riskMode', userLocation)
  /\ UNCHANGED <<rainfall, debounced, activeSimId, userLocation, reading, lookups, chosen,
                 riskFor, gridZones>>
  /\ AskRisk

\* A scenario has begun, or a reset has ended it.
ScenarioChanges(sim) ==
  /\ sim # activeSimId
  /\ activeSimId' = sim
  /\ UNCHANGED <<rainfall, debounced, riskMode, userLocation, reading, readingPolls,
                 lookups, chosen, riskFor, gridZones>>
  /\ AskRisk

\* The interval, or LIVE_RAINFALL_UPDATED.  Polls of one effect that overlap ask
\* the same: one is on its way until it is answered, and the next one is
\* another PollReading.
PollReading ==
  /\ riskMode = "live"
  /\ readingPolls' = Polled(riskMode, userLocation)
  /\ UNCHANGED <<rainfall, debounced, riskMode, activeSimId, userLocation, reading, lookups, chosen,
                 riskFetches, riskFor, gridZones, failed>>

\* A reading arrives: a new object, so the grid is asked for again even if it
\* says the same; there may be none for the place, or a failure.
ReadingAnswered(p, r) ==
  /\ p \in readingPolls
  /\ readingPolls' = readingPolls \ {p}
  /\ reading' = IF r = "none" THEN reading ELSE r
  /\ UNCHANGED <<rainfall, debounced, riskMode, activeSimId, userLocation, lookups, chosen,
                 riskFor, gridZones>>
  /\ AskRiskIf(r # "none")

-----------------------------------------------------------------------------
\* onLocationResolved: the page's location is a new object.
Located(place) ==
  /\ userLocation' = place
  /\ readingPolls' = IF place = userLocation THEN readingPolls ELSE Polled(riskMode, place)
  /\ UNCHANGED <<rainfall, debounced, riskMode, activeSimId, reading, riskFor, gridZones>>
  /\ AskRisk

\* A lookup is answered, or fails: this map ignores it once a city was chosen.
LookupAnswered(l) ==
  /\ l \in lookups
  /\ lookups' = lookups \ {l}
  /\ UNCHANGED chosen
  /\ \/ Located(Here) /\ ~(l = "map" /\ chosen)
     \/ UNCHANGED <<rainfall, debounced, riskMode, activeSimId, userLocation, reading, readingPolls,
                    riskFetches, riskFor, gridZones, failed>>

\* handleCityChange
CityChange(c) ==
  /\ chosen' = TRUE
  /\ UNCHANGED lookups
  /\ Located(c)

\* Another focus module: the map is removed and made again, with a lookup and a
\* flag of its own; the lookup of the old one is still answered, and heeded
\* unless a city had been chosen on the old one.
MapRemade ==
  /\ lookups' = {"map"} \cup IF lookups = {} \/ (lookups = {"map"} /\ chosen)
                               THEN {} ELSE {"removed"}
  /\ chosen' = FALSE
  /\ UNCHANGED <<rainfall, debounced, riskMode, activeSimId, userLocation, reading, readingPolls,
                 riskFetches, riskFor, gridZones, failed>>

-----------------------------------------------------------------------------
\* A poll of the n8n webhooks is answered: telemetry moves the slider wherever
\* the officer has left it; without any, or in vain, nothing moves.
N8nAnswered == (\E v \in Levels : RainfallChange(v)) \/ UNCHANGED riskVars

RiskNext ==
  \/ \E i \in riskFetches : RiskAnswered(i)
  \/ ZonesReplaced
  \/ \E v \in Levels : RainfallChange(v)
  \/ N8nAnswered
  \/ DebounceFires \/ RiskModeChange \/ PollReading
  \/ \E sim \in Sims \cup {"none"} : ScenarioChanges(sim)
  \/ \E p \in readingPolls, r \in Readings \cup {"none"} : ReadingAnswered(p, r)
  \/ \E l \in lookups : LookupAnswered(l)
  \/ (\E c \in Cities : CityChange(c)) \/ MapRemade

-----------------------------------------------------------------------------
\* Invariant.  When nothing is under way and the latest request has not failed,
\* the risk grid is that of the rainfall, mode, region and reading shown, in
\* whatever order they changed and the answers came.
RiskIsOfTheInputs ==
  riskFetches = {} /\ ~failed => riskFor = Inputs

=============================================================================
