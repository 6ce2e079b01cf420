------------------------------ MODULE MapLayers ------------------------------
(***************************************************************************)
(* What the command map draws (components/MapContainer.tsx) of what the    *)
(* page knows (app/dashboard/page.tsx).  A behaviour follows one kind of   *)
(* thing on the map, the kinds do not meet.  Sources and their layers are  *)
(* added when the map has loaded; until then the effects that feed them    *)
(* find nothing to draw on, and nothing runs them again when it has.       *)
(* Markers need no source and are drawn as soon as there is a map.         *)
(***************************************************************************)
EXTENDS Naturals

CONSTANT MaxData   \* bound: how many different states of the data are told apart

ASSUME MaxDataAssumption == MaxData \in Nat \ {0}

Sources == {"radar", "soil", "risk", "flood", "routes", "active"}
Markers == {"stations", "wind", "reports", "units", "vehicle"}
Kinds == Sources \cup Markers

\* The page always has telemetry and a city; the rest may be empty.
NeverEmpty == {"radar", "soil", "stations", "wind"}
Empty == 0

VARIABLES
  kind,         \* the kind that is followed
  view,         \* the page's focus module
  map,          \* the map of the view: "none", "loading" or "ready"
  data,         \* what the page has for the map, a version number
  captured,     \* data in the render that created the map
  drawn,        \* what the source, or the markers, hold
  isOn,         \* the kind's switch in layersVisible
  layerOn,      \* the layer's visibility property
  early,        \* history: the switch differs from the layer since before the load
  asLoaded      \* history: since the load the kind's effect has not run

mapVars == <<kind, view, map, data, captured, drawn, isOn, layerOn, early, asLoaded>>

Views == {"overview", "map", "other"}
HasMap(v) == v # "other"

MapTypeOK ==
  /\ kind \in Kinds /\ view \in Views
  /\ map \in {"none", "loading", "ready"}
  /\ {data, captured, drawn} \subseteq Empty .. MaxData
  /\ {isOn, layerOn, early, asLoaded} \subseteq BOOLEAN

\* The first render, in the overview.
MapInit ==
  /\ kind \in Kinds
  /\ view = "overview" /\ map = "loading"
  /\ data = IF kind \in NeverEmpty THEN 1 ELSE Empty
  /\ captured = data
  /\ drawn = IF kind \in Markers THEN data ELSE Empty
  /\ isOn = TRUE /\ layerOn = FALSE /\ early = FALSE /\ asLoaded = FALSE

-----------------------------------------------------------------------------
(* What each effect draws when it runs, given the switch and the data.      *)

RadarPicture(on, d) == IF on THEN d ELSE Empty
SoilPicture(on, d) == IF on THEN d ELSE Empty
RiskPicture(on, d) == IF d = Empty THEN drawn ELSE d

\* Flood zones may be taken away again.  (Mutant: as with the risk grid.)
OnlyZones(on, d) == IF d = Empty THEN drawn ELSE d
FloodPicture(on, d) == d
RoutesPicture(on, d) == d
ActivePicture(on, d) == d
StationMarkers(on, d) == IF on THEN d ELSE Empty
WindMarkers(on, d) == IF on THEN d ELSE Empty
VehicleMarker(on, d) == d
ReportMarkers(on, d) == IF on THEN d ELSE Empty
UnitMarkers(on, d) == IF on THEN d ELSE Empty

Picture(on, d) ==
  CASE kind = "radar" -> RadarPicture(on, d)
    [] kind = "soil" -> SoilPicture(on, d)
    [] kind = "risk" -> RiskPicture(on, d)
    [] kind = "flood" -> FloodPicture(on, d)
    [] kind = "routes" -> RoutesPicture(on, d)
    [] kind = "active" -> ActivePicture(on, d)
    [] kind = "stations" -> StationMarkers(on, d)
    [] kind = "wind" -> WindMarkers(on, d)
    [] kind = "vehicle" -> VehicleMarker(on, d)
    [] kind = "reports" -> ReportMarkers(on, d)
    [] kind = "units" -> UnitMarkers(on, d)

\* There is something to draw on.
CanDraw == map = "ready" \/ (map = "loading" /\ kind \in Markers)

\* The kind's effect runs.
Redraw ==
  IF CanDraw
    THEN drawn' = Picture(isOn', data') /\ asLoaded' = FALSE
    ELSE UNCHANGED <<drawn, asLoaded>>

\* The switch is among what the kind's effect depends on.
WatchesSwitch == kind \notin {"risk", "flood", "routes", "active", "vehicle"}

-----------------------------------------------------------------------------
\* What the page has for the map changes.
DataChanges(d) ==
  /\ d # data /\ (kind \in NeverEmpty \cup {"risk"} => d # Empty)
  /\ data' = d
  /\ isOn' = isOn
  /\ Redraw
  /\ UNCHANGED <<kind, view, map, captured, layerOn, early>>

\* Every ten seconds the page makes a new list of the reports, and the effects
\* that depend on it run.  (Mutant: the routes do not.)
DependsOnAssignments == kind \in {"reports", "units"}
DependsOnReports == kind \in {"reports", "units", "routes"}

ElapsedRefresh ==
  /\ DependsOnReports
  /\ UNCHANGED <<data, isOn>>
  /\ Redraw
  /\ UNCHANGED <<kind, view, map, captured, layerOn, early>>

\* What the load puts into a source: of the risk grid and the flood zones what
\* the render had that created the map, of the others nothing, whatever there is.
LoadPicture == IF kind \in {"risk", "flood"} THEN captured ELSE Empty

\* map.on('load'): the sources and the layers are added, visible as the switches
\* were in the first render.
MapLoaded ==
  /\ map = "loading"
  /\ map' = "ready"
  /\ layerOn' = TRUE
  /\ IF kind \in Sources
       THEN drawn' = LoadPicture /\ asLoaded' = TRUE
       ELSE UNCHANGED <<drawn, asLoaded>>
  /\ UNCHANGED <<kind, view, data, captured, isOn, early>>

\* Another focus module: the map, if any, is removed with its markers, and a
\* module with a map makes a new one.
SwitchView(v) ==
  /\ v # view
  /\ view' = v
  /\ map' = IF HasMap(v) THEN "loading" ELSE "none"
  /\ captured' = data
  /\ drawn' = IF HasMap(v) /\ kind \in Markers THEN data ELSE Empty
  /\ isOn' = TRUE /\ layerOn' = FALSE /\ early' = FALSE /\ asLoaded' = FALSE
  /\ UNCHANGED <<kind, data>>

\* toggleLayer: the layer follows the switch once it exists.
LayerFollows == isOn'
ToggleLayer ==
  /\ map # "none" /\ kind # "vehicle"
  /\ isOn' = ~isOn
  /\ UNCHANGED data
  /\ IF map = "ready"
       THEN layerOn' = LayerFollows /\ early' = FALSE
       ELSE UNCHANGED layerOn /\ early' = ~early
  /\ IF WatchesSwitch THEN Redraw ELSE UNCHANGED <<drawn, asLoaded>>
  /\ UNCHANGED <<kind, view, map, captured>>

\* handleSelectViewTab turns the switch of three kinds on, not their layer.
SelectViewTab ==
  /\ map # "none"
  /\ kind \in {"wind", "radar", "stations"}
  /\ isOn' = TRUE
  /\ UNCHANGED data
  /\ IF isOn THEN UNCHANGED <<drawn, asLoaded>> ELSE Redraw
  /\ UNCHANGED <<kind, view, map, captured, layerOn, early>>

MapNext ==
  \/ \E d \in Empty .. MaxData : DataChanges(d)
  \/ ElapsedRefresh \/ MapLoaded \/ ToggleLayer \/ SelectViewTab
  \/ \E v \in Views : SwitchView(v)

-----------------------------------------------------------------------------
\* Radar and soil are emptied as well as hidden, so they need no exception.
Emptied == {"radar", "soil"} \cup Markers
Visible == drawn # Empty /\ (kind \in Sources => layerOn)

\* Invariant.  What is switched off is not seen, unless it was switched before
\* the map had loaded and not since.  What is switched on is drawn as the page has
\* it once its effect has run on the loaded map; until then the risk grid and the
\* flood zones are those of the render that created the map, and the other layers
\* are blank even where nothing has changed (the load's addSource calls).
MapIsTruthful ==
  CanDraw =>
    /\ ~isOn /\ (early => kind \in Emptied) => ~Visible
    /\ isOn => drawn = IF asLoaded THEN LoadPicture ELSE data

\* Routes that were assigned before the map had loaded are drawn in the end: the
\* refresh of the reports draws what the load has missed.
RoutesCatchUp == [](kind = "routes" => <>(map # "ready" \/ drawn = data))

=============================================================================
