----------------------------- MODULE ClientProofs -----------------------------
(***************************************************************************)
(* Theorems about the parts of the frontend that MCClient composes, for    *)
(* any values of their constants: the tour, the map, the risk view, the    *)
(* officer's proxy, the vehicle, the inundation map, the description and   *)
(* the report form.                                                        *)
(***************************************************************************)
EXTENDS MCClient, FiniteSetTheorems, WellFoundedInduction, TLAPS

-----------------------------------------------------------------------------
(* A step of the client is a step of each part, or leaves it alone          *)

LEMMA PartSteps ==
  [Next]_vars =>
    /\ [TourNext]_<<replayVars, tourVars>> /\ [MapNext]_mapVars /\ [RiskNext]_riskVars
    /\ [ProxyNext]_proxyVars /\ [DriveNext]_driveVars /\ [InundationNext]_inundationVars
    /\ [VoiceNext]_voiceVars /\ [FormNext]_formVars
BY DEF Next, vars, Tour, Map, RestOf

LEMMA PartInits ==
  Init => /\ ReplayInit /\ TourInit /\ MapInit /\ RiskInit /\ ProxyInit /\ DriveInit
          /\ InundationInit /\ VoiceInit /\ FormInit
BY DEF Init

-----------------------------------------------------------------------------
(* The officer's proxy                                                      *)

LEMMA ProxyTypeStep == ProxyTypeOK /\ [ProxyNext]_proxyVars => ProxyTypeOK'
<1>. SUFFICES ASSUME ProxyTypeOK, [ProxyNext]_proxyVars PROVE ProxyTypeOK'
  OBVIOUS
<1>. USE DEF ProxyTypeOK, Waits
<1>1. CASE UNCHANGED proxyVars
  BY <1>1 DEF proxyVars
<1>2. ASSUME NEW q \in OfficerRequests, Begin(q) PROVE ProxyTypeOK'
  BY <1>2 DEF Begin, TokenFor
<1>3. ASSUME NEW q \in OfficerRequests, LoginIssued(q) PROVE ProxyTypeOK'
  BY <1>3 DEF LoginIssued
<1>4. ASSUME NEW q \in OfficerRequests, LoginAnswered(q) PROVE ProxyTypeOK'
  BY <1>4 DEF LoginAnswered
<1>5. ASSUME NEW q \in OfficerRequests, CallRejected(q) PROVE ProxyTypeOK'
  BY <1>5 DEF CallRejected, TokenFor, ClearedCache
<1>6. ASSUME NEW q \in OfficerRequests, NEW s \in {200, 400, 401, 500, 502},
             RetryRejected(q) \/ Refuse(q, s) \/ LoginFailed(q, s) \/ CallAnswered(q, s)
      PROVE  ProxyTypeOK'
  <2>1. PICK a \in {200, 400, 401, 500, 502} : Answer(q, a)
    BY <1>6 DEF RetryRejected, Refuse, LoginFailed, CallAnswered
  <2>2. UNCHANGED <<cachedToken, cacheIsFresh, issued, accepted>>
    BY <1>6 DEF RetryRejected, Refuse, LoginFailed, CallAnswered
  <2>3. pc' \in [OfficerRequests -> Waits]
    BY <2>1 DEF Answer
  <2>4. httpStatus' \in [OfficerRequests -> {0, 200, 400, 401, 500, 502}]
    BY <2>1 DEF Answer
  <2>5. token' \in [OfficerRequests -> Nat] /\ rejected' \in [OfficerRequests -> Nat]
    BY <2>1 DEF Answer
  <2>. QED  BY <2>2, <2>3, <2>4, <2>5
<1>7. CASE CacheExpires
  BY <1>7 DEF CacheExpires
<1>8. ASSUME NEW t \in accepted, TokenRevoked(t) PROVE ProxyTypeOK'
  <2>1. accepted' \in SUBSET Nat
    BY <1>8 DEF TokenRevoked
  <2>2. UNCHANGED <<pc, token, cachedToken, cacheIsFresh, issued, rejected, httpStatus>>
    BY <1>8 DEF TokenRevoked
  <2>. QED  BY <2>1, <2>2
<1>. QED  BY <1>1, <1>2, <1>3, <1>4, <1>5, <1>6, <1>7, <1>8 DEF ProxyNext

LEMMA ProxyInitTypes == ProxyInit => ProxyTypeOK
<1>. SUFFICES ASSUME ProxyInit PROVE ProxyTypeOK
  OBVIOUS
<1>1. /\ token = [q \in OfficerRequests |-> 0] /\ rejected = [q \in OfficerRequests |-> 0]
      /\ httpStatus = [q \in OfficerRequests |-> 0] /\ pc = [q \in OfficerRequests |-> "idle"]
  BY DEF ProxyInit
<1>2. /\ token \in [OfficerRequests -> Nat] /\ rejected \in [OfficerRequests -> Nat]
  BY <1>1
<1>3. /\ httpStatus \in [OfficerRequests -> {0, 200, 400, 401, 500, 502}]
      /\ pc \in [OfficerRequests -> Waits]
  BY <1>1 DEF Waits
<1>. QED  BY <1>2, <1>3 DEF ProxyInit, ProxyTypeOK

\* Every variable keeps its type.
THEOREM ProxyTypeCorrect == ProxySpec => []ProxyTypeOK
BY ProxyInitTypes, ProxyTypeStep, PTL DEF ProxySpec

\* What makes RetryIsFresh inductive: the rejection a retry follows lies in the
\* past, so that a token issued now is newer.
RetryInv ==
  /\ RetryIsFresh
  /\ \A q \in OfficerRequests : rejected[q] <= issued

LEMMA RetryStep == ProxyTypeOK /\ RetryInv /\ [ProxyNext]_proxyVars => RetryInv'
<1>. SUFFICES ASSUME ProxyTypeOK, RetryInv, [ProxyNext]_proxyVars PROVE RetryInv'
  OBVIOUS
<1>. USE DEF ProxyTypeOK, RetryInv, RetryIsFresh
<1>1. CASE UNCHANGED proxyVars
  BY <1>1 DEF proxyVars
<1>2. ASSUME NEW q \in OfficerRequests, Begin(q) PROVE RetryInv'
  BY <1>2 DEF Begin, TokenFor
<1>3. ASSUME NEW q \in OfficerRequests, LoginIssued(q) PROVE RetryInv'
  BY <1>3 DEF LoginIssued
<1>4. ASSUME NEW q \in OfficerRequests, LoginAnswered(q) PROVE RetryInv'
  BY <1>4 DEF LoginAnswered
<1>5. ASSUME NEW q \in OfficerRequests, CallRejected(q) PROVE RetryInv'
  <2>1. pc'[q] = "relogin" /\ rejected'[q] = issued /\ issued' = issued
    BY <1>5 DEF CallRejected, TokenFor, ClearedCache
  <2>2. \A p \in OfficerRequests \ {q} :
          pc'[p] = pc[p] /\ token'[p] = token[p] /\ rejected'[p] = rejected[p]
    BY <1>5 DEF CallRejected, TokenFor, ClearedCache
  <2>. QED  BY <2>1, <2>2
<1>6. ASSUME NEW q \in OfficerRequests, NEW s,
             RetryRejected(q) \/ Refuse(q, s) \/ LoginFailed(q, s) \/ CallAnswered(q, s)
      PROVE  RetryInv'
  <2>1. Answer(q, s) \/ Answer(q, 401)
    BY <1>6 DEF RetryRejected, Refuse, LoginFailed, CallAnswered
  <2>2. pc'[q] = "idle" /\ rejected'[q] = 0 /\ issued' = issued
    BY <1>6, <2>1 DEF RetryRejected, Refuse, LoginFailed, CallAnswered, Answer
  <2>3. \A p \in OfficerRequests \ {q} :
          pc'[p] = pc[p] /\ token'[p] = token[p] /\ rejected'[p] = rejected[p]
    BY <2>1 DEF Answer
  <2>. QED  BY <2>2, <2>3
<1>7. CASE CacheExpires \/ \E t \in accepted : TokenRevoked(t)
  BY <1>7 DEF CacheExpires, TokenRevoked
<1>. QED  BY <1>1, <1>2, <1>3, <1>4, <1>5, <1>6, <1>7 DEF ProxyNext

\* A retry after a 401 never uses a token that was issued before the 401,
\* whatever the requests that share the cache do (route.ts clears the cache
\* before it asks for a token again).
THEOREM RetriesStayFresh == ProxySpec => []RetryIsFresh
<1>1. ProxyInit => RetryInv
  BY DEF ProxyInit, RetryInv, RetryIsFresh
<1>2. RetryInv => RetryIsFresh
  BY DEF RetryInv
<1>. QED  BY <1>1, <1>2, ProxyTypeCorrect, RetryStep, PTL DEF ProxySpec

-----------------------------------------------------------------------------
(* The risk view                                                            *)

LEMMA RiskInitTypes == RiskInit => RiskTypeOK
<1>. SUFFICES ASSUME RiskInit PROVE RiskTypeOK
  OBVIOUS
<1>1. Inputs \in AllInputs
  BY RiskAssumption DEF RiskInit, Inputs, AllInputs, Places
<1>2. riskFetches = {Inputs} /\ riskFor = NoInputs
  BY DEF RiskInit
<1>. HIDE DEF Inputs, NoInputs
<1>. QED BY <1>1, <1>2, RiskAssumption DEF RiskInit, RiskTypeOK, Places

LEMMA RiskTypeStep == RiskTypeOK /\ [RiskNext]_riskVars => RiskTypeOK'
<1>. SUFFICES ASSUME RiskTypeOK, [RiskNext]_riskVars PROVE RiskTypeOK'
  OBVIOUS
<1>. USE DEF RiskTypeOK, Places
<1>i. Inputs \in AllInputs
  BY DEF Inputs, AllInputs
<1>a. ASSUME AskRisk, rainfall' \in Levels, debounced' \in Levels, riskMode' \in {"simulated", "live"},
             activeSimId' \in Sims \cup {"none"}, userLocation' \in Places,
             reading' \in Readings \cup {"none"}
      PROVE  riskFetches' \in SUBSET AllInputs /\ failed' \in BOOLEAN
  <2>1. Inputs' \in AllInputs
    BY <1>a DEF Inputs, AllInputs
  <2> QED BY <1>a, <2>1 DEF AskRisk, Forgotten
<1>1. CASE UNCHANGED riskVars
  BY <1>1 DEF riskVars
<1>2. ASSUME NEW i \in riskFetches, RiskAnswered(i) PROVE RiskTypeOK'
  BY <1>2 DEF RiskAnswered
<1>3. CASE ZonesReplaced
  BY <1>3 DEF ZonesReplaced
<1>4. ASSUME NEW v \in Levels, RainfallChange(v) PROVE RiskTypeOK'
  BY <1>4 DEF RainfallChange
<1>5. CASE DebounceFires
  BY <1>5, <1>a DEF DebounceFires
<1>6. CASE RiskModeChange
  BY <1>6, <1>a DEF RiskModeChange, Polled
<1>7. CASE PollReading
  BY <1>7 DEF PollReading, Polled
<1>8. ASSUME NEW sim \in Sims \cup {"none"}, ScenarioChanges(sim) PROVE RiskTypeOK'
  BY <1>8, <1>a DEF ScenarioChanges
<1>9. ASSUME NEW p \in readingPolls, NEW r \in Readings \cup {"none"}, ReadingAnswered(p, r)
      PROVE  RiskTypeOK'
  <2>1. CASE r = "none"
    BY <1>9, <2>1 DEF ReadingAnswered, AskRiskIf
  <2>2. CASE r # "none"
    BY <1>9, <2>2, <1>a DEF ReadingAnswered, AskRiskIf
  <2> QED BY <2>1, <2>2
<1>b. ASSUME NEW pl \in Places, Located(pl), lookups' \subseteq lookups, chosen' \in BOOLEAN
      PROVE  RiskTypeOK'
  BY <1>b, <1>a DEF Located, Polled
<1>10. ASSUME NEW l \in lookups, LookupAnswered(l) PROVE RiskTypeOK'
  <2>1. CASE Located(Here)
    BY <1>10, <2>1, <1>b DEF LookupAnswered
  <2>2. CASE ~Located(Here)
    BY <1>10, <2>2 DEF LookupAnswered
  <2> QED BY <2>1, <2>2
<1>11. ASSUME NEW c \in Cities, CityChange(c) PROVE RiskTypeOK'
  BY <1>11, <1>b DEF CityChange
<1>12. CASE MapRemade
  BY <1>12 DEF MapRemade
<1> QED BY <1>1, <1>2, <1>3, <1>4, <1>5, <1>6, <1>7, <1>8, <1>9, <1>10, <1>11, <1>12
        DEF RiskNext, N8nAnswered

\* What makes RiskIsOfTheInputs inductive: the only answer the page still
\* listens to is that for the inputs shown.
RiskInv == riskFetches \subseteq {Inputs} /\ RiskIsOfTheInputs

LEMMA RiskStep == RiskInv /\ [RiskNext]_riskVars => RiskInv'
<1>. SUFFICES ASSUME RiskInv, [RiskNext]_riskVars PROVE RiskInv'
  OBVIOUS
<1>. USE DEF RiskInv, RiskIsOfTheInputs
<1>a. CASE AskRisk
  BY <1>a DEF AskRisk, Forgotten
<1>u. CASE UNCHANGED <<debounced, riskMode, activeSimId, userLocation, reading, riskFetches,
                       riskFor, failed>>
  BY <1>u DEF Inputs
<1>1. ASSUME NEW i \in riskFetches, RiskAnswered(i) PROVE RiskInv'
  <2>1. i = Inputs /\ riskFetches' = {} /\ Inputs' = Inputs
    BY <1>1 DEF RiskAnswered, Inputs
  <2> QED BY <1>1, <2>1 DEF RiskAnswered
<1> QED BY <1>a, <1>u, <1>1
        DEF RiskNext, riskVars, ZonesReplaced, RainfallChange, N8nAnswered, DebounceFires,
            RiskModeChange, PollReading, ScenarioChanges, ReadingAnswered, AskRiskIf,
            LookupAnswered, Located, CityChange, MapRemade

\* When nothing is under way and the latest request has not failed, the risk grid
\* is that of the inputs shown, for any levels, readings, regions and scenarios:
\* whatever the effect of page.tsx depends on, its clean-up unsubscribes the
\* request of the inputs before.
THEOREM RiskGridIsOfTheInputs == Spec => []RiskIsOfTheInputs
<1>1. Init => RiskInv
  BY PartInits DEF RiskInit, RiskInv, RiskIsOfTheInputs
<1>2. RiskInv => RiskIsOfTheInputs
  BY DEF RiskInv
<1> QED BY <1>1, <1>2, PartSteps, RiskStep, PTL DEF Spec

-----------------------------------------------------------------------------
(* The report form                                                          *)

LEMMA FormTypeStep == FormTypeOK /\ [FormNext]_formVars => FormTypeOK'
<1>. SUFFICES ASSUME FormTypeOK, [FormNext]_formVars PROVE FormTypeOK'
  OBVIOUS
<1>. USE FormAssumption DEF FormTypeOK, FormPlaces, Photos, NoPhoto
<1>1. CASE UNCHANGED formVars
  BY <1>1 DEF formVars
<1>2. CASE Geolocated \/ EditLink \/ EditPlace \/ \E p \in nearbyFetches : NearbyAnswered(p)
  BY <1>2 DEF Geolocated, EditLink, EditPlace, NearbyAnswered, Placed
<1>3. CASE ChoosePhoto \/ RemovePhoto \/ \E k \in compressing : PhotoCompressed(k)
  <2>1. CASE ChoosePhoto
    <3>1. photos + 1 \in Photos /\ photos' \in 0 .. MaxPhotos
      BY <2>1 DEF ChoosePhoto
    <3> HIDE DEF Photos
    <3> QED BY <2>1, <3>1 DEF ChoosePhoto
  <2>2. CASE RemovePhoto
    BY <2>2 DEF RemovePhoto, Detached
  <2>3. ASSUME NEW k \in compressing, PhotoCompressed(k) PROVE FormTypeOK'
    <3>1. overtaken' \in BOOLEAN
      BY <2>3 DEF PhotoCompressed
    <3> QED BY <2>3, <3>1 DEF PhotoCompressed
  <2> QED BY <1>3, <2>1, <2>2, <2>3
<1>4. CASE SendReport \/ ReportAnswered \/ AnotherReport
  BY <1>4 DEF SendReport, ReportAnswered, AnotherReport
<1> QED BY <1>1, <1>2, <1>3, <1>4 DEF FormNext

\* What makes PhotoShownIsSent inductive: as long as nothing was overtaken, at
\* most the photo that is shown is being compressed, and a form that has given
\* way to its report shows none and leaves none.
PhotoInv ==
  /\ sent => preview = NoPhoto
  /\ ~overtaken => \/ compressing = {} /\ photo = preview
                   \/ ~sent /\ preview # NoPhoto /\ compressing = {preview}

LEMMA PhotoStep == FormTypeOK /\ PhotoInv /\ [FormNext]_formVars => PhotoInv'
<1>. SUFFICES ASSUME FormTypeOK, PhotoInv, [FormNext]_formVars PROVE PhotoInv'
  OBVIOUS
<1>. USE DEF PhotoInv
<1>1. CASE UNCHANGED <<sent, preview, overtaken, compressing, photo>>
  BY <1>1
<1>2. CASE ChoosePhoto
  BY <1>2, FormAssumption DEF ChoosePhoto, FormTypeOK, NoPhoto
<1>3. CASE RemovePhoto
  BY <1>3 DEF RemovePhoto, Detached
<1>4. ASSUME NEW k \in compressing, PhotoCompressed(k) PROVE PhotoInv'
  <2>1. k # NoPhoto
    BY <1>4, FormAssumption DEF FormTypeOK, Photos, NoPhoto
  <2>2. ~overtaken => k = preview /\ compressing' = {}
    BY <1>4 DEF PhotoCompressed
  <2>3. ~overtaken' => k = preview /\ compressing' = {}
    BY <1>4, <2>2 DEF PhotoCompressed
  <2> QED BY <1>4, <2>1, <2>3 DEF PhotoCompressed
<1>5. CASE ReportAnswered
  <2>1. CASE sent' = TRUE /\ preview' = NoPhoto /\ overtaken' = (overtaken \/ photo # NoPhoto \/ compressing # {})
    BY <1>5, <2>1 DEF ReportAnswered
  <2>2. CASE UNCHANGED <<sent, preview, overtaken>>
    BY <1>5, <2>2 DEF ReportAnswered
  <2> QED BY <1>5, <2>1, <2>2 DEF ReportAnswered
<1>6. CASE AnotherReport
  BY <1>6 DEF AnotherReport
<1> QED BY <1>1, <1>2, <1>3, <1>4, <1>5, <1>6
        DEF FormNext, formVars, Geolocated, EditLink, EditPlace, NearbyAnswered, SendReport

LEMMA FormTypeCorrect == Spec => []FormTypeOK
<1>1. Init => FormTypeOK
  <2>1. 0 \in 0 .. MaxPhotos
    BY FormAssumption
  <2> QED BY <2>1, PartInits DEF FormInit, FormTypeOK, FormPlaces, Photos, NoPhoto
<1> QED BY <1>1, PartSteps, FormTypeStep, PTL DEF Spec

\* The photo a report would be sent with is the one the form shows, for any
\* number of photos, unless a removal or a report overtook a compression
\* (report/page.tsx holds the photo that ImageCompressorInput compresses).
THEOREM PhotoSentIsShown == Spec => []PhotoShownIsSent
<1>1. Init => PhotoInv
  BY PartInits DEF FormInit, PhotoInv
<1>2. PhotoInv => PhotoShownIsSent
  BY DEF PhotoInv, PhotoShownIsSent
<1> QED BY <1>1, <1>2, PartSteps, PhotoStep, FormTypeCorrect, PTL DEF Spec

-----------------------------------------------------------------------------
(* The inundation map                                                       *)

LEMMA InundationTypeStep ==
  InundationTypeOK /\ [InundationNext]_inundationVars => InundationTypeOK'
<1>. SUFFICES ASSUME InundationTypeOK, [InundationNext]_inundationVars PROVE InundationTypeOK'
  OBVIOUS
<1>. USE DEF InundationTypeOK, LastHour
<1>a. ASSUME NEW hour \in 0 .. LastHour + 1, HourBecomes(hour),
             canvas' = canvas, isPropagating' \in BOOLEAN
      PROVE  InundationTypeOK'
  <2>1. ActiveZones(hour) \subseteq ZoneStarts
    BY DEF ActiveZones
  <2> HIDE DEF LastHour
  <2> QED BY <1>a, <2>1 DEF HourBecomes, DrawZones
<1>1. CASE UNCHANGED inundationVars
  BY <1>1 DEF inundationVars
<1>2. CASE PropagationTick
  <2>1. CASE currentHour >= LastHour
    <3>1. HourBecomes(LastHour) /\ canvas' = canvas /\ isPropagating' \in BOOLEAN
      BY <1>2, <2>1 DEF PropagationTick
    <3>2. LastHour \in 0 .. LastHour + 1
      OBVIOUS
    <3> HIDE DEF LastHour, InundationTypeOK
    <3> QED BY <3>1, <3>2, <1>a
  <2>2. CASE ~(currentHour >= LastHour)
    BY <1>2, <2>2, <1>a DEF PropagationTick
  <2> QED BY <2>1, <2>2
<1>3. CASE PropagationButton \/ CanvasLoaded \/ CanvasRemade
  BY <1>3 DEF PropagationButton, CanvasLoaded, CanvasRemade
<1>4. ASSUME NEW hour \in (0 .. LastHour) \cup BandEnds, ScrubHour(hour) PROVE InundationTypeOK'
  BY <1>4, <1>a DEF ScrubHour, BandEnds
<1> QED BY <1>1, <1>2, <1>3, <1>4 DEF InundationNext

\* What makes InundationIsCurrent inductive: a map that is not ready has not
\* been drawn on.
InundationInv == InundationIsCurrent /\ (canvas # "ready" => freshCanvas)

LEMMA InundationStep == InundationInv /\ [InundationNext]_inundationVars => InundationInv'
<1>. SUFFICES ASSUME InundationInv, [InundationNext]_inundationVars PROVE InundationInv'
  OBVIOUS
<1>. USE DEF InundationInv, InundationIsCurrent
<1>a. ASSUME NEW hour, HourBecomes(hour), canvas' = canvas PROVE InundationInv'
  <2>1. CASE canvas = "ready" /\ hour # currentHour
    BY <1>a, <2>1 DEF HourBecomes, DrawZones
  <2>2. CASE ~(canvas = "ready" /\ hour # currentHour)
    <3>1. zones' = zones /\ freshCanvas' = freshCanvas /\ currentHour' = hour
      BY <1>a, <2>2 DEF HourBecomes
    <3>2. canvas = "ready" => ActiveZones(currentHour)' = ActiveZones(currentHour)
      BY <2>2, <3>1 DEF ActiveZones
    <3> QED BY <1>a, <3>1, <3>2
  <2> QED BY <2>1, <2>2
<1>1. CASE UNCHANGED inundationVars
  BY <1>1 DEF inundationVars, ActiveZones
<1>2. CASE PropagationTick
  BY <1>2, <1>a DEF PropagationTick
<1>3. CASE PropagationButton \/ CanvasLoaded \/ CanvasRemade
  BY <1>3 DEF PropagationButton, CanvasLoaded, CanvasRemade, ActiveZones
<1>4. ASSUME NEW hour, ScrubHour(hour) PROVE InundationInv'
  BY <1>4, <1>a DEF ScrubHour
<1> QED BY <1>1, <1>2, <1>3, <1>4 DEF InundationNext

\* The inundation map shows exactly the zones that have flooded by the hour
\* shown, however the hour is played and scrubbed and the map removed and made
\* again (the effect of FloodInundationTelemetryDashboard.tsx).
THEOREM InundationFollowsTheHour == Spec => []InundationIsCurrent
<1>1. Init => InundationInv
  BY PartInits DEF InundationInit, InundationInv, InundationIsCurrent
<1>2. InundationInv => InundationIsCurrent
  BY DEF InundationInv
<1> QED BY <1>1, <1>2, PartSteps, InundationStep, PTL DEF Spec

-----------------------------------------------------------------------------
(* The description                                                          *)

\* The texts that something under way would append to.
Bases == {asks[i] : i \in 1 .. Len(asks)} \cup Recorders \cup transcribing \cup late

\* What makes DescriptionIsKept inductive: what is missing from a text that is
\* still to be put back came while voice input was under way.
VoiceInv ==
  /\ DescriptionIsKept
  /\ \A base \in Bases : kept \ base \subseteq exposed /\ base \subseteq 1 .. pieces

LEMMA UnderWayOrNoBase == VoiceTypeOK /\ Bases # {} => VoiceUnderWay
BY DEF Bases, VoiceUnderWay, VoiceTypeOK, Recorders

LEMMA Added ==
  ASSUME VoiceTypeOK, VoiceInv, NEW base, Add(base),
         \/ base = text
         \/ base \in Bases,
         NEW B, B = Bases', B \subseteq Bases
  PROVE  /\ DescriptionIsKept'
         /\ \A b \in B : kept' \ b \subseteq exposed' /\ b \subseteq 1 .. pieces'
         /\ pieces' \in 0 .. MaxPieces
         /\ \A set \in {text', kept', exposed'} : set \in SUBSET (1 .. pieces')
<1>. USE DEF VoiceInv, DescriptionIsKept
<1>n. pieces \in Nat /\ pieces' = pieces + 1 /\ pieces' \in 0 .. MaxPieces
  BY DescriptionAssumption DEF VoiceTypeOK, Add
<1>1. 1 .. pieces \subseteq 1 .. pieces' /\ pieces' \in 1 .. pieces'
  BY <1>n
<1>2. base \subseteq 1 .. pieces
  BY DEF VoiceTypeOK
<1>3. kept \ base \subseteq exposed
  OBVIOUS
<1>4. /\ text' = base \cup {pieces'} /\ kept' = kept \cup {pieces'}
      /\ exposed \subseteq exposed' /\ exposed' \subseteq exposed \cup {pieces'}
      /\ VoiceUnderWay => pieces' \in exposed'
  BY <1>n DEF Add
<1>5. DescriptionIsKept'
  BY <1>3, <1>4
<1>6. \A b \in B : kept' \ b \subseteq exposed' /\ b \subseteq 1 .. pieces'
  BY <1>1, <1>4, UnderWayOrNoBase
<1>7. text' \subseteq 1 .. pieces' /\ kept' \subseteq 1 .. pieces' /\ exposed' \subseteq 1 .. pieces'
  BY <1>1, <1>2, <1>4 DEF VoiceTypeOK
<1> QED BY <1>n, <1>5, <1>6, <1>7

LEMMA VoiceStep ==
  VoiceTypeOK /\ VoiceInv /\ [VoiceNext]_voiceVars => VoiceTypeOK' /\ VoiceInv'
<1>. SUFFICES ASSUME VoiceTypeOK, VoiceInv, [VoiceNext]_voiceVars
              PROVE  VoiceTypeOK' /\ VoiceInv'
  OBVIOUS
<1>. USE DEF recorderVars
<1>p. pieces \in Nat /\ 1 .. pieces \subseteq Pieces
  BY DescriptionAssumption DEF VoiceTypeOK, Pieces
<1>1. CASE UNCHANGED voiceVars
  BY <1>1 DEF voiceVars, VoiceTypeOK, VoiceInv, DescriptionIsKept, Bases, Recorders
<1>2. CASE Type
  <2>1. Add(text) /\ Bases' = Bases
    BY <1>2 DEF Type, Bases, Recorders
  <2>2. UNCHANGED <<isSupported, dictation, recorderVars>>
    BY <1>2 DEF Type
  <2> QED BY <2>1, <2>2, Added DEF VoiceInv, VoiceTypeOK
<1>3. CASE Recognised
  <2>1. Add(text) /\ Bases' = Bases
    BY <1>3 DEF Recognised, CurrentValue, Bases, Recorders
  <2>2. UNCHANGED <<isSupported, dictation, recorderVars>>
    BY <1>3 DEF Recognised
  <2> QED BY <2>1, <2>2, Added DEF VoiceInv, VoiceTypeOK
<1>4. CASE Erase
  <2>1. Bases' = Bases
    BY <1>4 DEF Erase, Bases, Recorders
  <2>2. VoiceInv'
    BY <1>4, <2>1 DEF Erase, VoiceInv, DescriptionIsKept
  <2> QED BY <1>4, <2>2 DEF Erase, VoiceTypeOK
<1>5. CASE ToggleListening \/ RecognitionEnds
  <2>1. Bases' = Bases
    BY <1>5 DEF ToggleListening, RecognitionEnds, Bases, Recorders
  <2>2. VoiceInv'
    BY <1>5, <2>1 DEF ToggleListening, RecognitionEnds, VoiceInv, DescriptionIsKept
  <2> QED BY <1>5, <2>2 DEF ToggleListening, RecognitionEnds, VoiceTypeOK
<1>b. ASSUME NEW B, B = Bases', B \subseteq Bases \cup {text}, UNCHANGED <<text, pieces, kept, exposed>>
      PROVE  VoiceInv'
  <2>1. \A b \in B : kept \ b \subseteq exposed /\ b \subseteq 1 .. pieces
    BY <1>b DEF VoiceInv, DescriptionIsKept, VoiceTypeOK
  <2> QED BY <1>b, <2>1 DEF VoiceInv, DescriptionIsKept
<1>q. asks \in Seq(SUBSET Pieces) /\ Len(asks) \in Nat
  BY DEF VoiceTypeOK
<1>6. CASE StartRecording
  <2>1. asks' = Append(asks, text) /\ Len(asks) < MaxAsks /\ text \in SUBSET Pieces
    BY <1>6, <1>p DEF StartRecording, VoiceTypeOK
  <2>2. asks' \in Seq(SUBSET Pieces) /\ Len(asks') = Len(asks) + 1
    BY <2>1, <1>q
  <2>3. \A i \in 1 .. Len(asks') : asks'[i] \in {asks[j] : j \in 1 .. Len(asks)} \cup {text}
    BY <2>1, <2>2, <1>q
  <2>4. UNCHANGED <<isSupported, dictation, text, pieces, recording, forgotten, transcribing,
                    isTranscribing, late, kept, exposed>>
    BY <1>6 DEF StartRecording
  <2>5. Bases' \subseteq Bases \cup {text}
    BY <2>3, <2>4 DEF Bases, Recorders
  <2>6. VoiceInv'
    BY <1>b, <2>4, <2>5
  <2>7. Len(asks') <= MaxAsks
    BY <2>1, <2>2, <1>q, DescriptionAssumption
  <2> QED BY <2>2, <2>4, <2>6, <2>7 DEF VoiceTypeOK
<1>7. CASE MicrophoneAnswered
  <2>1. asks' = Tail(asks) /\ asks # <<>> /\ recording' \in {asks[1], NoRecording}
    BY <1>7 DEF MicrophoneAnswered
  <2>2. /\ asks' \in Seq(SUBSET Pieces) /\ Len(asks') = Len(asks) - 1 /\ 1 \in 1 .. Len(asks)
        /\ \A i \in 1 .. Len(asks') : asks'[i] = asks[i + 1] /\ i + 1 \in 1 .. Len(asks)
    BY <2>1, <1>q
  <2>3. /\ UNCHANGED <<isSupported, dictation, text, pieces, transcribing, isTranscribing, late,
                       kept, exposed>>
        /\ forgotten' = Recorders /\ Recorders \in SUBSET SUBSET Pieces
    BY <1>7 DEF MicrophoneAnswered, Recorders, VoiceTypeOK
  <2>4. Bases' \subseteq Bases
    BY <2>1, <2>2, <2>3 DEF Bases, Recorders
  <2>5. VoiceInv'
    BY <1>b, <2>3, <2>4
  <2>6. recording' \in (SUBSET Pieces) \cup {NoRecording} /\ Len(asks') <= MaxAsks
    BY <2>1, <2>2, <1>q, DescriptionAssumption DEF VoiceTypeOK
  <2> QED BY <2>2, <2>3, <2>5, <2>6 DEF VoiceTypeOK
<1>8. CASE RecordingStops
  <2>1. PICK base \in Recorders :
          /\ recording' = NoRecording /\ forgotten' \subseteq Recorders
          /\ transcribing' \subseteq transcribing \cup {base}
          /\ isTranscribing' \in {isTranscribing, TRUE}
          /\ UNCHANGED <<isSupported, dictation, text, pieces, asks, late, kept, exposed>>
    BY <1>8 DEF RecordingStops, OneLess
  <2>2. Bases' \subseteq Bases
    BY <2>1 DEF Bases, Recorders
  <2>3. VoiceInv'
    BY <1>b, <2>1, <2>2
  <2>4. Recorders \in SUBSET SUBSET Pieces /\ Len(asks') <= MaxAsks
    BY <2>1 DEF Recorders, VoiceTypeOK
  <2>5. forgotten' \cup transcribing' \cup late' \subseteq SUBSET Pieces
    BY <2>1, <2>4 DEF VoiceTypeOK
  <2>6. isTranscribing' \in BOOLEAN
    BY <2>1 DEF VoiceTypeOK
  <2> QED BY <2>1, <2>3, <2>4, <2>5, <2>6 DEF VoiceTypeOK
<1>9. ASSUME NEW base, TranscriptEnds(base),
             Add(base) \/ UNCHANGED <<text, pieces, kept, exposed>>
      PROVE  VoiceTypeOK' /\ VoiceInv'
  <2>1. /\ UNCHANGED <<isSupported, dictation, asks, recording, forgotten>>
        /\ base \in transcribing \cup late
        /\ transcribing' \subseteq transcribing /\ late' \subseteq late
        /\ isTranscribing' \in {isTranscribing, FALSE}
    BY <1>9 DEF TranscriptEnds, OneLess
  <2>2. base \in Bases /\ Bases' \subseteq Bases
    BY <2>1 DEF Bases, Recorders
  <2>3. CASE Add(base)
    BY <2>1, <2>2, <2>3, Added DEF VoiceInv, VoiceTypeOK
  <2>4. CASE UNCHANGED <<text, pieces, kept, exposed>>
    <3>1. VoiceInv'
      BY <1>b, <2>2, <2>4
    <3> QED BY <2>1, <2>4, <3>1 DEF VoiceTypeOK
  <2> QED BY <1>9, <2>3, <2>4
<1>10. CASE FormRemade
  <2>1. Bases' \subseteq Bases \cup {text} /\ UNCHANGED <<text, pieces, kept, exposed>>
    BY <1>10 DEF FormRemade, Bases, Recorders
  <2>2. VoiceInv'
    BY <1>b, <2>1
  <2>3. text \in SUBSET Pieces
    BY <1>p DEF VoiceTypeOK
  <2>4. late' \in SUBSET SUBSET Pieces
    BY <1>10, <2>3, <1>q DEF FormRemade, Recorders, VoiceTypeOK
  <2>5. /\ asks' = <<>> /\ recording' = NoRecording /\ forgotten' = {}
        /\ transcribing' = {} /\ isTranscribing' = FALSE
        /\ dictation' = "off" /\ isSupported' = isSupported
    BY <1>10 DEF FormRemade
  <2>6. asks' \in Seq(SUBSET Pieces) /\ Len(asks') <= MaxAsks
    BY <2>5, DescriptionAssumption
  <2> QED BY <2>1, <2>2, <2>4, <2>5, <2>6 DEF VoiceTypeOK
<1> QED BY <1>1, <1>2, <1>3, <1>4, <1>5, <1>6, <1>7, <1>8, <1>9, <1>10
  DEF VoiceNext, Transcribed, TranscriptionFails

LEMMA VoiceInits == Init => VoiceTypeOK /\ VoiceInv
<1>. SUFFICES ASSUME VoiceInit PROVE VoiceTypeOK /\ VoiceInv
  BY PartInits
<1>1. asks = <<>> /\ recording = NoRecording /\ forgotten = {} /\ transcribing = {} /\ late = {}
  BY DEF VoiceInit
<1>2. Bases = {}
  BY <1>1 DEF Bases, Recorders
<1>3. VoiceInv
  BY <1>2 DEF VoiceInv, VoiceInit, DescriptionIsKept
<1>4. asks \in Seq(SUBSET Pieces) /\ Len(asks) <= MaxAsks
  BY <1>1, DescriptionAssumption
<1>5. VoiceTypeOK
  <2>1. pieces \in 0 .. MaxPieces /\ \A set \in {text, kept, exposed} : set \in SUBSET (1 .. pieces)
    BY DescriptionAssumption DEF VoiceInit
  <2>2. isSupported \in BOOLEAN /\ dictation \in {"off", "on", "ending"} /\ isTranscribing \in BOOLEAN
    BY DEF VoiceInit
  <2> QED BY <1>1, <1>4, <2>1, <2>2 DEF VoiceTypeOK
<1> QED BY <1>3, <1>5

LEMMA VoiceCorrect == Spec => [](VoiceTypeOK /\ VoiceInv)
BY VoiceInits, VoiceStep, PartSteps, PTL DEF Spec

\* What the citizen types and dictates stays in the description, for any number
\* of pieces and of open requests for the microphone, save what came while voice
\* input was under way (VoiceToTextInput.tsx appends to valueRef; VoiceSOSRecorder
\* appends to the text its recording began with).
THEOREM DescriptionStays == Spec => []DescriptionIsKept
<1>1. VoiceTypeOK /\ VoiceInv => DescriptionIsKept
  BY DEF VoiceInv
<1> QED BY <1>1, VoiceCorrect, PTL

-----------------------------------------------------------------------------
(* The map                                                                  *)

\* The kinds by how they are drawn: with a source whose effect does not depend on
\* the switch; with a source that is emptied; with markers.
Layered == {"risk", "flood", "routes", "active"}

\* What the effect of each kind draws.
LEMMA Pictures ==
  ASSUME kind \in Kinds, NEW on, NEW d
  PROVE  /\ kind \in {"flood", "routes", "active", "vehicle"} => Picture(on, d) = d
         /\ kind = "risk" => Picture(on, d) = IF d = Empty THEN drawn ELSE d
         /\ kind \in {"radar", "soil", "stations", "wind", "reports", "units"} =>
              Picture(on, d) = IF on THEN d ELSE Empty
<1>1. kind = "radar" => Picture(on, d) = IF on THEN d ELSE Empty
  BY DEF Picture, RadarPicture
<1>2. kind = "soil" => Picture(on, d) = IF on THEN d ELSE Empty
  BY DEF Picture, SoilPicture
<1>3. kind = "stations" => Picture(on, d) = IF on THEN d ELSE Empty
  BY DEF Picture, StationMarkers
<1>4. kind = "wind" => Picture(on, d) = IF on THEN d ELSE Empty
  BY DEF Picture, WindMarkers
<1>5. kind = "reports" => Picture(on, d) = IF on THEN d ELSE Empty
  BY DEF Picture, ReportMarkers
<1>6. kind = "units" => Picture(on, d) = IF on THEN d ELSE Empty
  BY DEF Picture, UnitMarkers
<1>7. kind = "risk" => Picture(on, d) = IF d = Empty THEN drawn ELSE d
  BY DEF Picture, RiskPicture
<1>8. kind = "flood" => Picture(on, d) = d
  BY DEF Picture, FloodPicture
<1>9. kind = "routes" => Picture(on, d) = d
  BY DEF Picture, RoutesPicture
<1>10. kind = "active" => Picture(on, d) = d
  BY DEF Picture, ActivePicture
<1>11. kind = "vehicle" => Picture(on, d) = d
  BY DEF Picture, VehicleMarker
<1> QED BY <1>1, <1>2, <1>3, <1>4, <1>5, <1>6, <1>7, <1>8, <1>9, <1>10, <1>11

LEMMA MapTypeStep == MapTypeOK /\ [MapNext]_mapVars => MapTypeOK'
<1>. SUFFICES ASSUME MapTypeOK, [MapNext]_mapVars PROVE MapTypeOK'
  OBVIOUS
<1>. USE MaxDataAssumption DEF MapTypeOK, Empty
<1>p. ASSUME NEW on, NEW d \in Empty .. MaxData PROVE Picture(on, d) \in Empty .. MaxData
  BY Pictures DEF Kinds, Sources, Markers
<1>r. ASSUME Redraw, data' \in Empty .. MaxData
      PROVE  drawn' \in Empty .. MaxData /\ asLoaded' \in BOOLEAN
  BY <1>r, <1>p DEF Redraw
<1>1. CASE UNCHANGED mapVars
  BY <1>1 DEF mapVars
<1>2. ASSUME NEW d \in Empty .. MaxData, DataChanges(d) PROVE MapTypeOK'
  BY <1>2, <1>r DEF DataChanges
<1>3. CASE ElapsedRefresh
  BY <1>3, <1>r DEF ElapsedRefresh
<1>4. CASE MapLoaded
  <2>1. LoadPicture \in Empty .. MaxData
    BY DEF LoadPicture
  <2>2. drawn' \in Empty .. MaxData /\ asLoaded' \in BOOLEAN
    BY <1>4, <2>1 DEF MapLoaded
  <2> QED BY <1>4, <2>2 DEF MapLoaded
<1>5. CASE ToggleLayer
  <2>1. drawn' \in Empty .. MaxData /\ asLoaded' \in BOOLEAN
    BY <1>5, <1>r DEF ToggleLayer
  <2>2. layerOn' \in BOOLEAN /\ early' \in BOOLEAN /\ isOn' \in BOOLEAN
    BY <1>5 DEF ToggleLayer, LayerFollows
  <2> QED BY <1>5, <2>1, <2>2 DEF ToggleLayer
<1>6. CASE SelectViewTab
  <2>1. drawn' \in Empty .. MaxData /\ asLoaded' \in BOOLEAN
    BY <1>6, <1>r DEF SelectViewTab
  <2> QED BY <1>6, <2>1 DEF SelectViewTab
<1>7. ASSUME NEW v \in Views, SwitchView(v) PROVE MapTypeOK'
  <2>1. map' \in {"none", "loading", "ready"} /\ drawn' \in Empty .. MaxData
    BY <1>7 DEF SwitchView
  <2> QED BY <1>7, <2>1 DEF SwitchView
<1> QED BY <1>1, <1>2, <1>3, <1>4, <1>5, <1>6, <1>7 DEF MapNext

\* What makes MapIsTruthful inductive, for each way of drawing: until the map has
\* loaded, early tells that a layer's switch is off; from then on a layer follows
\* its switch unless it was early; what is emptied is empty while it is off; and
\* markers are at any time what the page has, or none.
MapInv ==
  /\ kind \in Layered => /\ map # "ready" => early = ~isOn
                         /\ map = "ready" => /\ layerOn = isOn \/ early
                                             /\ drawn = IF asLoaded THEN LoadPicture ELSE data
  /\ kind \in {"radar", "soil"} /\ map = "ready" =>
       drawn = IF ~isOn THEN Empty ELSE IF asLoaded THEN LoadPicture ELSE data
  /\ kind \in Markers => ~asLoaded
  /\ kind \in Markers /\ CanDraw => drawn = IF isOn THEN data ELSE Empty
  /\ kind = "vehicle" => isOn

LEMMA MapInvSuffices == MapTypeOK /\ MapInv => MapIsTruthful
BY DEF MapTypeOK, MapInv, MapIsTruthful, CanDraw, Visible, Emptied, Markers, Sources, Kinds, Layered

LEMMA MapStep == MapTypeOK /\ MapInv /\ [MapNext]_mapVars => MapInv'
<1>. SUFFICES ASSUME MapTypeOK, MapInv, [MapNext]_mapVars PROVE MapInv'
  OBVIOUS
<1>. USE DEF MapTypeOK, MapInv, CanDraw, Markers, Sources, Kinds, Layered, LoadPicture
<1>p. \A on, d :
        /\ kind \in {"flood", "routes", "active", "vehicle"} => Picture(on, d) = d
        /\ kind = "risk" => Picture(on, d) = IF d = Empty THEN drawn ELSE d
        /\ kind \in {"radar", "soil", "stations", "wind", "reports", "units"} =>
             Picture(on, d) = IF on THEN d ELSE Empty
  BY Pictures
<1>1. CASE UNCHANGED mapVars
  BY <1>1 DEF mapVars
<1>2. ASSUME NEW d \in Empty .. MaxData, DataChanges(d) PROVE MapInv'
  BY <1>2, <1>p DEF DataChanges, Redraw, NeverEmpty
<1>3. CASE ElapsedRefresh
  BY <1>3, <1>p DEF ElapsedRefresh, Redraw, DependsOnReports
<1>4. CASE MapLoaded
  BY <1>4 DEF MapLoaded
<1>5. CASE ToggleLayer
  BY <1>5, <1>p DEF ToggleLayer, LayerFollows, Redraw, WatchesSwitch
<1>6. CASE SelectViewTab
  BY <1>6, <1>p DEF SelectViewTab, Redraw
<1>7. ASSUME NEW v \in Views, SwitchView(v) PROVE MapInv'
  BY <1>7 DEF SwitchView, HasMap, Views
<1> QED BY <1>1, <1>2, <1>3, <1>4, <1>5, <1>6, <1>7 DEF MapNext

LEMMA MapInits == Init => MapTypeOK /\ MapInv
<1>. SUFFICES ASSUME MapInit PROVE MapTypeOK /\ MapInv
  BY PartInits
<1>. USE MaxDataAssumption DEF MapInit, Kinds, Sources, Markers, Empty
<1>1. MapTypeOK
  <2>1. 0 \in 0 .. MaxData /\ 1 \in 0 .. MaxData
    OBVIOUS
  <2>2. data \in 0 .. MaxData /\ captured \in 0 .. MaxData /\ drawn \in 0 .. MaxData
    BY <2>1
  <2> QED BY <2>2 DEF MapTypeOK, Views
<1>2. MapInv
  BY DEF MapInv, CanDraw, Layered
<1> QED BY <1>1, <1>2

LEMMA MapTypeCorrect == Spec => []MapTypeOK
BY MapInits, MapTypeStep, PartSteps, PTL DEF Spec

\* For any number of changes of the data: what is switched off is not seen, unless
\* it was switched before the map had loaded and not since; what is switched on is
\* drawn as the page has it, once its effect has run on the loaded map, and until
\* then as the load draws it (MapContainer.tsx: its effects, its load handler,
\* which leaves all layers but two blank, and toggleLayer).
THEOREM MapTellsTheTruth == Spec => []MapIsTruthful
BY MapInits, MapTypeCorrect, MapStep, MapInvSuffices, PartSteps, PTL DEF Spec

-----------------------------------------------------------------------------
(* The vehicle on the focused route                                         *)

\* A set of natural numbers has a least one.
LEMMA LeastOfNaturals ==
  ASSUME NEW S \in SUBSET Nat, S # {}
  PROVE  Min(S) \in S
<1>1. IsWellFoundedOn({ss \in Nat \X Nat : ss[1] < ss[2]}, Nat)
  BY NatLessThanWellFounded DEF OpToRel
<1>2. PICK x \in S : \A y \in S : <<y, x>> \notin {ss \in Nat \X Nat : ss[1] < ss[2]}
  BY <1>1, WFMin
<1>3. ASSUME NEW y \in S PROVE x <= y
  <2>1. x \in Nat /\ y \in Nat /\ <<y, x>> \notin {ss \in Nat \X Nat : ss[1] < ss[2]}
    BY <1>2
  <2>2. ~(y < x)
    BY <2>1
  <2> QED BY <2>1, <2>2
<1> QED BY <1>3 DEF Min

LEMMA ProgressType ==
  ASSUME NEW d \in Drives, NEW e \in Nat
  PROVE  Segment(d, e) \in Nat /\ CurrentStep(d, e) \in Nat
<1>1. Len(d.segments) \in Nat /\ Len(d.steps) \in Nat
  BY DrivesAssumption
<1>2. Segment(d, e) \in Nat
  <2> DEFINE ahead == {i \in 1 .. Len(d.segments) :
                         DistanceFromStart(d, i) * Duration(d) >= Traveled(d, e)}
  <2>1. ahead \in SUBSET Nat
    BY <1>1
  <2>2. Segment(d, e) = IF ahead = {} THEN Len(d.segments) ELSE Min(ahead)
    BY DEF Segment
  <2> HIDE DEF ahead
  <2> QED BY <1>1, <2>1, <2>2, LeastOfNaturals
<1>3. CurrentStep(d, e) \in Nat
  <2> DEFINE ahead == {i \in 1 .. Len(d.steps) : Traveled(d, e) < StepEnd(d, i) * Duration(d)}
  <2>1. ahead \in SUBSET (Nat \ {0})
    BY <1>1
  <2>2. CurrentStep(d, e) = IF ahead = {} THEN 0 ELSE Min(ahead) - 1
    BY DEF CurrentStep
  <2> HIDE DEF ahead
  <2>3. ahead # {} => Min(ahead) \in Nat \ {0}
    BY <2>1, LeastOfNaturals
  <2> QED BY <2>2, <2>3
<1> QED BY <1>2, <1>3

\* What makes AnimationShowsItsRoute inductive: only a frame of the present route
\* is ever scheduled.
DriveInv == AnimationShowsItsRoute /\ frames \subseteq {drive} \ {NoDrive}

LEMMA DriveStep ==
  DriveTypeOK /\ DriveInv /\ [DriveNext]_driveVars => DriveTypeOK' /\ DriveInv'
<1>. SUFFICES ASSUME DriveTypeOK, DriveInv, [DriveNext]_driveVars
              PROVE  DriveTypeOK' /\ DriveInv'
  OBVIOUS
<1>. USE DrivesAssumption DEF DriveTypeOK, DriveInv, AnimationShowsItsRoute
<1>1. CASE UNCHANGED driveVars
  BY <1>1 DEF driveVars
<1>2. ASSUME NEW d \in Drives \cup {NoDrive}, DriveChanges(d) PROVE DriveTypeOK' /\ DriveInv'
  <2>1. CASE d = NoDrive
    BY <1>2, <2>1 DEF DriveChanges, CancelledFrames, Nothing
  <2>2. CASE d # NoDrive
    <3>1. drive' = d /\ frames' = {d} /\ startTime' = FALSE /\ elapsed' = 0 /\ progress' = progress
      BY <1>2, <2>2 DEF DriveChanges, CancelledFrames
    <3> QED BY <2>2, <3>1
  <2> QED BY <2>1, <2>2
<1>3. ASSUME NEW d \in frames, NEW e \in 0 .. Duration(d), Frame(d, e)
      PROVE  DriveTypeOK' /\ DriveInv'
  <2>1. d = drive /\ d \in Drives /\ d # NoDrive
    BY <1>3
  <2>2. e \in Nat
    BY <2>1 DEF Duration
  <2>3. /\ progress'.of = d /\ progress'.elapsed = e
        /\ progress'.segment = Segment(d, e) /\ progress'.step = CurrentStep(d, e)
    BY <1>3 DEF Frame, Progress
  <2>4. drive' = drive /\ elapsed' = e /\ startTime' = TRUE /\ frames' \subseteq frames
    BY <1>3 DEF Frame
  <2>5. Segment(d, e) \in Nat /\ CurrentStep(d, e) \in Nat
    BY <2>1, <2>2, ProgressType
  <2> QED BY <2>1, <2>2, <2>3, <2>4, <2>5
<1> QED BY <1>1, <1>2, <1>3 DEF DriveNext

LEMMA DriveCorrect == Spec => [](DriveTypeOK /\ DriveInv)
<1>1. Init => DriveTypeOK /\ DriveInv
  <2>1. Nothing.of = NoDrive /\ {Nothing.elapsed, Nothing.segment, Nothing.step} \subseteq Nat
    BY DEF Nothing
  <2>2. Init => drive = NoDrive /\ startTime = FALSE /\ elapsed = 0 /\ frames = {} /\ progress = Nothing
    BY PartInits DEF DriveInit
  <2>3. Init => progress.of = NoDrive /\ {progress.elapsed, progress.segment, progress.step} \subseteq Nat
    BY <2>1, <2>2
  <2>4. Init => DriveTypeOK
    <3> SUFFICES ASSUME Init PROVE DriveTypeOK
      OBVIOUS
    <3>1. drive \in Drives \cup {NoDrive} /\ progress.of \in Drives \cup {NoDrive}
      BY <2>2, <2>3
    <3>2. startTime \in BOOLEAN
      BY <2>2
    <3>3. elapsed \in Nat /\ frames \in SUBSET Drives
      BY <2>2
    <3> QED BY <2>3, <3>1, <3>2, <3>3 DEF DriveTypeOK
  <2>5. Init => DriveInv
    BY <2>2 DEF DriveInv, AnimationShowsItsRoute
  <2> QED BY <2>4, <2>5
<1> QED BY <1>1, PartSteps, DriveStep, PTL DEF Spec

\* From the first frame of a route on the vehicle is on that route, and a closed
\* card has none, for any routes: useAnimatedRouteProgress.ts cancels the frame
\* that is scheduled whenever its route changes.
THEOREM VehicleIsOnItsRoute == Spec => []AnimationShowsItsRoute
<1>1. DriveTypeOK /\ DriveInv => AnimationShowsItsRoute
  BY DEF DriveInv
<1> QED BY <1>1, DriveCorrect, PTL

-----------------------------------------------------------------------------
(* The guided tour                                                          *)

\* What the tour's type correctness needs besides: chains are numbered as they
\* are started.
TourTypes == TourTypeOK /\ started \in 0 .. MaxChains

ReplayFlags == isReplayMode \in BOOLEAN /\ isPlaying \in BOOLEAN /\ rebuilt \in BOOLEAN
ReplayCounts ==
  /\ loading \in Nat /\ events \in Lengths \cup {0} /\ currentIndex \in Nat
  /\ ScrubberIsInLog
ReplayTypes == ReplayFlags /\ ReplayCounts

ChainSet == [at : {"done", "await", "timer"}, step : Steps, events : Lengths \cup {0}]

LEMMA ScrubberTypes ==
  ReplayTypes /\ (Scrubber \/ Loaded) => ReplayTypes'
<1>. SUFFICES ASSUME ReplayTypes, Scrubber \/ Loaded PROVE ReplayTypes'
  OBVIOUS
<1>. USE DEF ReplayTypes
<1>1. ReplayFlags'
  <2>. USE DEF ReplayFlags
  <2>1. CASE Scrubber
    <3>1. /\ isReplayMode' \in {isReplayMode, TRUE, FALSE}
          /\ isPlaying' \in {isPlaying, ~isPlaying, FALSE}
      BY <2>1 DEF Scrubber, EnterButton, ExitButton, PlayButton, Tick, Slide, EnterReplay, LeaveReplay
    <3>2. rebuilt' = rebuilt \/ rebuilt' \in BOOLEAN
      BY <2>1 DEF Scrubber, EnterButton, ExitButton, PlayButton, Tick, Slide, Select
    <3> QED BY <3>1, <3>2
  <2>2. CASE Loaded
    BY <2>2 DEF Loaded, EventsLoaded, EventsFailed
  <2> QED BY <2>1, <2>2
<1>2. ReplayCounts'
  <2>. USE LengthsAssumption DEF ReplayCounts, ScrubberIsInLog
  <2>1. ASSUME NEW n \in Lengths, EventsLoaded(n) PROVE ReplayCounts'
    BY <2>1 DEF EventsLoaded, Jumped
  <2>2. CASE EventsFailed
    BY <2>2 DEF EventsFailed
  <2>3. CASE EnterButton \/ ExitButton \/ PlayButton
    BY <2>3 DEF EnterButton, ExitButton, PlayButton, EnterReplay, LeaveReplay
  <2>4. CASE Tick
    <3>1. \/ currentIndex' = currentIndex
          \/ currentIndex' = currentIndex + 1 /\ ~AtEnd
      BY <2>4 DEF Tick
    <3>2. events' = events /\ loading' = loading
      BY <2>4 DEF Tick
    <3> QED BY <3>1, <3>2 DEF AtEnd
  <2>5. ASSUME NEW i \in 0 .. events, Slide(i) PROVE ReplayCounts'
    BY <2>5 DEF Slide
  <2> QED BY <2>1, <2>2, <2>3, <2>4, <2>5 DEF Scrubber, Loaded
<1> QED BY <1>1, <1>2

LEMMA ClearedChains ==
  ASSUME chain \in [Chains -> ChainSet]
  PROVE  Cleared \in [Chains -> ChainSet]
<1>1. NotPending \in ChainSet
  BY DEF NotPending, ChainSet, Steps, LastStep
<1> QED BY <1>1 DEF Cleared

LEMMA ExecuteTypes ==
  ASSUME TourTypes, NEW c \in Chains, NEW others \in [Chains -> ChainSet],
         NEW k \in 0 .. LastStep + 1, Execute(c, k, others)
  PROVE  /\ isRunning' \in BOOLEAN /\ isPaused' \in BOOLEAN /\ currentStepIndex' \in Steps
         /\ chain' \in [Chains -> ChainSet] /\ timerRef' \in Chains \cup {NoChain}
         /\ ReplayTypes'
<1>. USE DEF TourTypes, TourTypeOK
<1>n. NotPending \in ChainSet
  BY DEF NotPending, ChainSet, Steps, LastStep
<1>r. ReplayTypes
  BY DEF ReplayTypes, ReplayFlags, ReplayCounts
<1>1. CASE k > LastStep
  <2>1. chain' = [others EXCEPT ![c] = NotPending]
    BY <1>1 DEF Execute
  <2>2. chain' \in [Chains -> ChainSet]
    BY <2>1, <1>n
  <2>3. UNCHANGED <<currentStepIndex, timerRef, replayVars>> /\ isRunning' = FALSE /\ isPaused' = FALSE
    BY <1>1 DEF Execute, Completed
  <2>4. ReplayTypes'
    BY <2>3, <1>r DEF replayVars, ReplayTypes, ReplayFlags, ReplayCounts, ScrubberIsInLog
  <2> QED BY <2>2, <2>3, <2>4
<1>2. CASE ~(k > LastStep)
  <2> DEFINE waits == IF k \in Awaited THEN "await" ELSE "timer"
  <2>0. k \in Steps
    BY <1>2 DEF Steps, LastStep
  <2>1. chain' = [others EXCEPT ![c] = [at |-> waits, step |-> k, events |-> events]]
    BY <1>2 DEF Execute
  <2>2. [at |-> waits, step |-> k, events |-> events] \in ChainSet
    BY <2>0 DEF ChainSet
  <2>3. chain' \in [Chains -> ChainSet]
    BY <2>1, <2>2
  <2>4. currentStepIndex' = k /\ timerRef' \in {timerRef, c} /\ UNCHANGED <<isRunning, isPaused>>
    BY <1>2 DEF Execute
  <2>5. \/ EnterReplay /\ UNCHANGED <<events, currentIndex, isPlaying, rebuilt>>
        \/ UNCHANGED replayVars
    BY <1>2 DEF Execute
  <2>6. ReplayTypes'
    <3>1. ReplayFlags'
      BY <2>5, <1>r DEF EnterReplay, replayVars, ReplayTypes, ReplayFlags
    <3>2. ReplayCounts'
      BY <2>5, <1>r DEF EnterReplay, replayVars, ReplayTypes, ReplayCounts, ScrubberIsInLog
    <3> QED BY <3>1, <3>2 DEF ReplayTypes
  <2> QED BY <2>0, <2>3, <2>4, <2>6
<1> QED BY <1>1, <1>2

LEMMA TourTypeStep == TourTypes /\ [TourNext]_<<replayVars, tourVars>> => TourTypes'
<1>. SUFFICES ASSUME TourTypes, [TourNext]_<<replayVars, tourVars>> PROVE TourTypes'
  OBVIOUS
<1>t. /\ ReplayTypes /\ isRunning \in BOOLEAN /\ isPaused \in BOOLEAN /\ interrupted \in BOOLEAN
      /\ currentStepIndex \in Steps /\ chain \in [Chains -> ChainSet]
      /\ timerRef \in Chains \cup {NoChain} /\ started \in 0 .. MaxChains
  BY DEF TourTypes, TourTypeOK, ReplayTypes, ReplayFlags, ReplayCounts, ChainSet
<1>s. ASSUME ReplayTypes', isRunning' \in BOOLEAN, isPaused' \in BOOLEAN, interrupted' \in BOOLEAN,
             currentStepIndex' \in Steps, chain' \in [Chains -> ChainSet],
             timerRef' \in Chains \cup {NoChain}, started' \in 0 .. MaxChains
      PROVE  TourTypes'
  BY <1>s DEF TourTypes, TourTypeOK, ReplayTypes, ReplayFlags, ReplayCounts, ChainSet
<1>k. Cleared \in [Chains -> ChainSet]
  BY <1>t, ClearedChains
<1>e. events \in Lengths \cup {0}
  BY <1>t DEF ReplayTypes, ReplayCounts
<1>u. UNCHANGED replayVars => ReplayTypes'
  BY <1>t DEF ReplayTypes, ReplayFlags, ReplayCounts, ScrubberIsInLog, replayVars
<1>n. started < MaxChains => started + 1 \in Chains /\ started + 1 \in 0 .. MaxChains
  BY <1>t, ChainsAssumption DEF Chains
<1>0. 0 \in Steps
  BY DEF Steps, LastStep
<1>1. CASE UNCHANGED <<replayVars, tourVars>>
  BY <1>1, <1>s, <1>t, <1>u DEF tourVars
<1>2. CASE (Scrubber \/ OtherLoad) /\ UNCHANGED tourVars
  <2>1. ReplayTypes'
    BY <1>2, <1>t, ScrubberTypes DEF OtherLoad
  <2> QED BY <2>1, <1>2, <1>s, <1>t DEF tourVars
<1>3. CASE StartDemo
  <2>1. chain' = [Cleared EXCEPT ![started + 1] = [at |-> "timer", step |-> 0, events |-> events]]
    BY <1>3 DEF StartDemo
  <2>2. [at |-> "timer", step |-> 0, events |-> events] \in ChainSet
    BY <1>0, <1>e DEF ChainSet
  <2>3. chain' \in [Chains -> ChainSet]
    BY <2>1, <2>2, <1>k
  <2>4. started' \in 0 .. MaxChains /\ timerRef' \in Chains \cup {NoChain} /\ currentStepIndex' \in Steps
    BY <1>3, <1>n, <1>0 DEF StartDemo
  <2>5. isRunning' = TRUE /\ isPaused' = FALSE /\ interrupted' = interrupted /\ UNCHANGED replayVars
    BY <1>3 DEF StartDemo
  <2> QED BY <2>3, <2>4, <2>5, <1>s, <1>t, <1>u
<1>4. CASE ResumeDemo
  <2>1. chain' = [chain EXCEPT ![started + 1] = [at |-> "timer", step |-> currentStepIndex, events |-> events]]
    BY <1>4 DEF ResumeDemo
  <2>2. [at |-> "timer", step |-> currentStepIndex, events |-> events] \in ChainSet
    BY <1>t, <1>e DEF ChainSet
  <2>3. chain' \in [Chains -> ChainSet]
    BY <2>1, <2>2, <1>t
  <2>4. started' \in 0 .. MaxChains /\ timerRef' \in Chains \cup {NoChain} /\ currentStepIndex' \in Steps
    BY <1>4, <1>n, <1>t DEF ResumeDemo
  <2>5. isRunning' = isRunning /\ isPaused' = FALSE /\ interrupted' = interrupted /\ UNCHANGED replayVars
    BY <1>4 DEF ResumeDemo
  <2> QED BY <2>3, <2>4, <2>5, <1>s, <1>t, <1>u
<1>5. CASE PauseDemo
  <2>1. chain' \in [Chains -> ChainSet]
    BY <1>5, <1>k DEF PauseDemo
  <2>2. isPaused' = TRUE /\ interrupted' \in BOOLEAN
    BY <1>5 DEF PauseDemo
  <2>3. UNCHANGED <<replayVars, isRunning, currentStepIndex, started, timerRef, scrubs>>
    BY <1>5 DEF PauseDemo
  <2> QED BY <2>1, <2>2, <2>3, <1>s, <1>t, <1>u
<1>6. CASE CancelDemo
  <2>1. chain' \in [Chains -> ChainSet] /\ currentStepIndex' = 0
    BY <1>6, <1>k DEF CancelDemo
  <2>2. isRunning' = FALSE /\ isPaused' = FALSE /\ interrupted' \in BOOLEAN
    BY <1>6 DEF CancelDemo
  <2>3. UNCHANGED <<events, currentIndex, isPlaying, rebuilt, loading, started, timerRef>>
        /\ isReplayMode' = FALSE
    BY <1>6 DEF CancelDemo, LeaveReplay
  <2>4. ReplayFlags'
    BY <2>3, <1>t DEF ReplayTypes, ReplayFlags
  <2>5. ReplayCounts'
    BY <2>3, <1>t DEF ReplayTypes, ReplayCounts, ScrubberIsInLog
  <2> QED BY <2>1, <2>2, <2>3, <2>4, <2>5, <1>0, <1>s, <1>t DEF ReplayTypes
<1>7. ASSUME NEW c \in Chains, Fire(c) PROVE TourTypes'
  <2>1. PICK others \in [Chains -> ChainSet] : Execute(c, chain[c].step + 1, others)
    BY <1>7, <1>t, <1>k DEF Fire
  <2>2. chain[c].step + 1 \in 0 .. LastStep + 1
    BY <1>t DEF ChainSet, Steps, LastStep
  <2>3. UNCHANGED <<started, interrupted>>
    BY <1>7 DEF Fire
  <2> QED BY <2>1, <2>2, <2>3, ExecuteTypes, <1>s, <1>t
<1>8. ASSUME NEW c \in Chains, StepAnswered(c) PROVE TourTypes'
  <2>1. chain' = [chain EXCEPT ![c].at = "timer"] /\ timerRef' = c
    BY <1>8 DEF StepAnswered
  <2>2. chain' \in [Chains -> ChainSet]
    BY <2>1, <1>t DEF ChainSet
  <2>3. UNCHANGED <<isRunning, isPaused, currentStepIndex, started, interrupted>>
    BY <1>8 DEF StepAnswered
  <2>4. Loaded \/ UNCHANGED replayVars
    BY <1>8 DEF StepAnswered
  <2>5. ReplayTypes'
    BY <2>4, <1>t, <1>u, ScrubberTypes
  <2> QED BY <2>1, <2>2, <2>3, <2>5, <1>s, <1>t
<1>9. ASSUME NEW n \in scrubs, Scrub(n) PROVE TourTypes'
  <2>1. UNCHANGED <<isReplayMode, events, currentIndex, isPlaying, loading>> /\ rebuilt' \in BOOLEAN
    BY <1>9 DEF Scrub, Select
  <2>2. UNCHANGED <<isRunning, isPaused, currentStepIndex, started, chain, timerRef, interrupted>>
    BY <1>9 DEF Scrub
  <2>3. ReplayFlags'
    BY <2>1, <1>t DEF ReplayTypes, ReplayFlags
  <2>4. ReplayCounts'
    BY <2>1, <1>t DEF ReplayTypes, ReplayCounts, ScrubberIsInLog
  <2> QED BY <2>2, <2>3, <2>4, <1>s, <1>t DEF ReplayTypes
<1> QED BY <1>1, <1>2, <1>3, <1>4, <1>5, <1>6, <1>7, <1>8, <1>9 DEF TourNext, ChainStep, OtherLoad

LEMMA TourInits == Init => TourTypes
<1>. SUFFICES ASSUME Init PROVE TourTypes
  OBVIOUS
<1>1. ReplayInit /\ TourInit
  BY PartInits
<1>2. NotPending \in [at : {"done", "await", "timer"}, step : Steps, events : Lengths \cup {0}]
  BY DEF NotPending, Steps, LastStep
<1>3. chain \in [Chains -> [at : {"done", "await", "timer"}, step : Steps, events : Lengths \cup {0}]]
  BY <1>1, <1>2 DEF TourInit
<1>4. /\ {isReplayMode, isPlaying, rebuilt, isRunning, isPaused, interrupted} \subseteq BOOLEAN
  BY <1>1 DEF ReplayInit, TourInit
<1>5. /\ currentStepIndex \in Steps /\ timerRef \in Chains \cup {NoChain} /\ started \in 0 .. MaxChains
      /\ loading \in Nat /\ events \in Lengths \cup {0} /\ currentIndex \in Nat
      /\ ScrubberIsInLog
  BY <1>1, ChainsAssumption DEF ReplayInit, TourInit, Steps, LastStep, ScrubberIsInLog
<1> QED BY <1>3, <1>4, <1>5 DEF TourTypes, TourTypeOK

LEMMA TourTypeCorrect == Spec => []TourTypes
BY TourInits, TourTypeStep, PartSteps, PTL DEF Spec

\* What makes OneStepAtATime inductive: as long as nothing was interrupted, the
\* one chain of a running tour is the one whose timer timerRef holds, so that
\* clearTimers reaches it.
TourInv ==
  ~interrupted =>
    IF isRunning /\ ~isPaused
      THEN \E c \in Chains : Pending = {c} /\ (chain[c].at = "timer" => timerRef = c)
      ELSE Pending = {}

LEMMA TourInvSuffices == TourInv => OneStepAtATime
<1>1. \A c : Cardinality({c}) = 1
  BY FS_Singleton
<1>2. Cardinality({}) = 0
  BY FS_EmptySet
<1> QED BY <1>1, <1>2 DEF TourInv, OneStepAtATime

LEMMA TourStep ==
  TourTypes /\ TourInv /\ [TourNext]_<<replayVars, tourVars>> => TourInv'
<1>. SUFFICES ASSUME TourTypes, TourInv, [TourNext]_<<replayVars, tourVars>> PROVE TourInv'
  OBVIOUS
<1>t. chain \in [Chains -> ChainSet] /\ Cleared \in [Chains -> ChainSet] /\ NotPending.at = "done"
  <2>1. chain \in [Chains -> ChainSet]
    BY DEF TourTypes, TourTypeOK, ChainSet
  <2> QED BY <2>1, ClearedChains DEF NotPending
<1>n. started < MaxChains => started + 1 \in Chains
  BY ChainsAssumption DEF TourTypes, Chains
<1>. HIDE DEF NotPending
<1>c. \A c \in Chains : /\ Cleared[c].at = "done" \/ Cleared[c] = chain[c]
                        /\ c = timerRef /\ chain[c].at = "timer" => Cleared[c].at = "done"
  BY <1>t DEF Cleared
<1>1. CASE UNCHANGED <<isRunning, isPaused, chain, timerRef, interrupted>>
  BY <1>1 DEF TourInv, Pending
<1>2. CASE StartDemo
  <2>1. chain' = [Cleared EXCEPT ![started + 1] = [at |-> "timer", step |-> 0, events |-> events]]
        /\ started + 1 \in Chains
    BY <1>2, <1>n DEF StartDemo
  <2>2. /\ chain'[started + 1].at = "timer"
        /\ \A c \in Chains : c # started + 1 => chain'[c] = Cleared[c]
    BY <2>1, <1>t
  <2>3. isRunning' = TRUE /\ isPaused' = FALSE /\ interrupted' = interrupted /\ timerRef' = started + 1
        /\ ~isRunning
    BY <1>2 DEF StartDemo
  <2>4. ~interrupted => Pending' = {started + 1}
    BY <2>1, <2>2, <2>3, <1>c DEF TourInv, Pending
  <2> QED BY <2>1, <2>3, <2>4 DEF TourInv
<1>3. CASE ResumeDemo
  <2>1. chain' = [chain EXCEPT ![started + 1] = [at |-> "timer", step |-> currentStepIndex, events |-> events]]
        /\ started + 1 \in Chains
    BY <1>3, <1>n DEF ResumeDemo
  <2>2. /\ chain'[started + 1].at = "timer"
        /\ \A c \in Chains : c # started + 1 => chain'[c] = chain[c]
    BY <2>1, <1>t
  <2>3. isRunning' = isRunning /\ isPaused' = FALSE /\ interrupted' = interrupted
        /\ timerRef' = started + 1 /\ isRunning /\ isPaused
    BY <1>3 DEF ResumeDemo
  <2>4. ~interrupted => Pending' = {started + 1}
    BY <2>1, <2>2, <2>3 DEF TourInv, Pending
  <2> QED BY <2>1, <2>3, <2>4 DEF TourInv
<1>4. CASE PauseDemo \/ CancelDemo
  <2>1. /\ chain' = Cleared /\ ~(isRunning' /\ ~isPaused')
        /\ interrupted' = (interrupted \/ Awaits)
    BY <1>4 DEF PauseDemo, CancelDemo
  <2>2. ~interrupted' => \A c \in Pending : chain[c].at = "timer" /\ timerRef = c
    BY <2>1, <1>t DEF TourInv, Pending, Awaits, ChainSet
  <2>3. ~interrupted' => Pending' = {}
    BY <2>1, <2>2, <1>c DEF Pending
  <2> QED BY <2>1, <2>3 DEF TourInv
<1>5. ASSUME NEW c \in Chains, Fire(c) PROVE TourInv'
  <2>1. chain[c].at = "timer" /\ interrupted' = interrupted
    BY <1>5 DEF Fire
  <2>2. ~interrupted => isRunning /\ ~isPaused /\ Pending = {c} /\ timerRef = c
    BY <2>1 DEF TourInv, Pending
  <2> DEFINE k == chain[c].step + 1
             others == IF chain[c].step = LastStep THEN Cleared ELSE chain
  <2>3. Execute(c, k, others)
    BY <1>5 DEF Fire
  <2>4. others \in [Chains -> ChainSet]
        /\ \A b \in Chains : others[b].at = "done" \/ others[b] = chain[b]
    BY <1>t, <1>c
  <2>. HIDE DEF k, others
  <2>5. CASE k > LastStep
    <3>1. chain' = [others EXCEPT ![c] = NotPending] /\ isRunning' = FALSE
      BY <2>3, <2>5 DEF Execute, Completed
    <3>2. chain'[c].at = "done" /\ \A b \in Chains : b # c => chain'[b] = others[b]
      BY <3>1, <2>4, <1>t
    <3>3. ~interrupted => Pending' = {}
      BY <3>2, <2>2, <2>4 DEF Pending
    <3> QED BY <3>1, <3>3, <2>1 DEF TourInv
  <2>6. CASE ~(k > LastStep)
    <3> DEFINE waits == IF k \in Awaited THEN "await" ELSE "timer"
    <3>1. /\ chain' = [others EXCEPT ![c] = [at |-> waits, step |-> k, events |-> events]]
          /\ timerRef' = (IF k \in Awaited THEN timerRef ELSE c)
          /\ UNCHANGED <<isRunning, isPaused>>
      BY <2>3, <2>6 DEF Execute
    <3>2. chain'[c].at # "done" /\ \A b \in Chains : b # c => chain'[b] = others[b]
      BY <3>1, <2>4
    <3>3. ~interrupted => Pending' = {c} /\ timerRef' = c
      BY <3>1, <3>2, <2>2, <2>4 DEF Pending
    <3> QED BY <3>1, <3>3, <2>1, <2>2 DEF TourInv
  <2> QED BY <2>5, <2>6
<1>6. ASSUME NEW c \in Chains, StepAnswered(c) PROVE TourInv'
  <2>1. chain' = [chain EXCEPT ![c].at = "timer"] /\ timerRef' = c /\ chain[c].at = "await"
        /\ UNCHANGED <<isRunning, isPaused, interrupted>>
    BY <1>6 DEF StepAnswered
  <2>2. chain'[c].at = "timer" /\ \A b \in Chains : b # c => chain'[b] = chain[b]
    BY <2>1, <1>t DEF ChainSet
  <2>3. Pending' = Pending /\ c \in Pending
    BY <2>1, <2>2 DEF Pending
  <2> QED BY <2>1, <2>3 DEF TourInv
<1> QED BY <1>1, <1>2, <1>3, <1>4, <1>5, <1>6
        DEF TourNext, ChainStep, OtherLoad, Scrub, tourVars

\* Unless it was paused or cancelled while a step awaited its request, a tour is
\* one chain of steps and one that has ended, or is paused, has none, for any
\* number of starts and resumptions (useDemoTour.ts: clearTimers reaches only the
\* timer of timerRef).
THEOREM TourStepsOnce == Spec => []OneStepAtATime
<1>1. Init => TourInv
  <2>1. Init => chain = [c \in Chains |-> NotPending] /\ isRunning = FALSE
    BY PartInits DEF TourInit
  <2> QED BY <2>1 DEF TourInv, Pending, NotPending
<1> QED BY <1>1, TourTypeCorrect, TourStep, TourInvSuffices, PartSteps, PTL DEF Spec

-----------------------------------------------------------------------------
(* The whole client                                                         *)

\* Every variable of every part of the frontend keeps its type.
THEOREM ClientTypeCorrect == Spec => []ClientTypeOK
<1>1. Init => ProxyTypeOK /\ RiskTypeOK /\ InundationTypeOK
  <2>1. Init => RiskTypeOK
    BY PartInits, RiskInitTypes
  <2>2. Init => InundationTypeOK
    <3> SUFFICES ASSUME Init PROVE InundationTypeOK
      OBVIOUS
    <3>1. {isPropagating, freshCanvas} \subseteq BOOLEAN
      BY PartInits DEF InundationInit
    <3>2. currentHour \in 0 .. LastHour + 1 /\ canvas \in {"loading", "ready"} /\ zones \in SUBSET ZoneStarts
      BY PartInits DEF InundationInit, LastHour
    <3> QED BY <3>1, <3>2 DEF InundationTypeOK
  <2>3. Init => ProxyTypeOK
    BY PartInits, ProxyInitTypes
  <2> QED BY <2>1, <2>2, <2>3
<1>2. TourTypes /\ MapTypeOK /\ RiskTypeOK /\ ProxyTypeOK /\ DriveTypeOK /\ InundationTypeOK
        /\ VoiceTypeOK /\ FormTypeOK => ClientTypeOK
  BY DEF TourTypes, ClientTypeOK
<1> QED BY <1>1, <1>2, TourTypeCorrect, MapTypeCorrect, RiskTypeStep, ProxyTypeStep, DriveCorrect,
           InundationTypeStep, VoiceCorrect, FormTypeCorrect, PartSteps, PTL DEF Spec

=============================================================================
