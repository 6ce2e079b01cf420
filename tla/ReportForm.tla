------------------------------ MODULE ReportForm ------------------------------
(***************************************************************************)
(* The rest of a citizen's report (app/report/page.tsx): the place, found  *)
(* by the browser or edited, the reports near it, the photo and its        *)
(* compression (components/ImageCompressorInput.tsx,                       *)
(* utils/imageCompression.ts), and sending it.                             *)
(***************************************************************************)
EXTENDS Naturals

CONSTANT MaxPhotos   \* bound: photos that are chosen

ASSUME FormAssumption == MaxPhotos \in Nat

VARIABLES
  place,         \* latitude and longitude: which they are
  geolocation,   \* the browser's answer is awaited
  isManual,
  nearby,        \* the place the list of near reports is of
  nearbyFetches, \* places whose lists are on their way
  photos,        \* photos chosen so far
  preview,       \* the photo the form shows
  compressing,   \* photos that are being compressed
  photo,         \* compressedImage: what is sent
  isSubmitting,
  sent,          \* submittedReport: the form has given way to it
  overtaken      \* history: the shown photo was removed, or its form sent, while
                 \* or after it was compressed, and no later one completed

formVars == <<place, geolocation, isManual, nearby, nearbyFetches, photos, preview,
              compressing, photo, isSubmitting, sent, overtaken>>

FormPlaces == {"none", "default", "found", "edited"}
NoPhoto == 0
Photos == 1 .. MaxPhotos

FormTypeOK ==
  /\ {place, nearby} \subseteq FormPlaces
  /\ nearbyFetches \subseteq FormPlaces \ {"none"}
  /\ photos \in 0 .. MaxPhotos
  /\ compressing \subseteq Photos
  /\ {preview, photo} \subseteq Photos \cup {NoPhoto}
  /\ {geolocation, isManual, isSubmitting, sent, overtaken} \subseteq BOOLEAN

FormInit ==
  /\ place = "none" /\ geolocation = TRUE /\ isManual = FALSE
  /\ nearby = "none" /\ nearbyFetches = {}
  /\ photos = 0 /\ preview = NoPhoto /\ compressing = {} /\ photo = NoPhoto
  /\ isSubmitting = FALSE /\ sent = FALSE /\ overtaken = FALSE

-----------------------------------------------------------------------------
\* The place is set: the reports near it are asked for; earlier requests stay.
Placed(p) == place' = p /\ nearbyFetches' = nearbyFetches \cup {p}

\* The browser's position, or none: an answer that comes after the citizen has
\* edited the place overwrites it.
Geolocated ==
  /\ geolocation
  /\ geolocation' = FALSE
  /\ \/ Placed("found") /\ UNCHANGED isManual
     \/ Placed("default") /\ isManual' = TRUE
  /\ UNCHANGED <<nearby, photos, preview, compressing, photo, isSubmitting, sent, overtaken>>

EditLink ==
  /\ ~sent
  /\ isManual' = TRUE
  /\ UNCHANGED <<place, geolocation, nearby, nearbyFetches, photos, preview, compressing,
                 photo, isSubmitting, sent, overtaken>>

EditPlace ==
  /\ ~sent /\ isManual
  /\ Placed("edited")
  /\ UNCHANGED <<geolocation, isManual, nearby, photos, preview, compressing, photo,
                 isSubmitting, sent, overtaken>>

\* The answer of any of the requests, or its failure.
NearbyAnswered(p) ==
  /\ p \in nearbyFetches
  /\ nearbyFetches' = nearbyFetches \ {p}
  /\ nearby' \in {p, nearby}
  /\ UNCHANGED <<place, geolocation, isManual, photos, preview, compressing, photo,
                 isSubmitting, sent, overtaken>>

-----------------------------------------------------------------------------
\* handleFileChange; the input is shown while no photo is.
ChoosePhoto ==
  /\ ~sent /\ preview = NoPhoto /\ photos < MaxPhotos
  /\ photos' = photos + 1
  /\ preview' = photos + 1
  /\ compressing' = compressing \cup {photos + 1}
  /\ UNCHANGED <<place, geolocation, isManual, nearby, nearbyFetches, photo, isSubmitting,
                 sent, overtaken>>

\* The compressed photo, or the original if that failed, goes to the page,
\* whether or not the form still shows it.
PhotoCompressed(k) ==
  /\ k \in compressing
  /\ compressing' = compressing \ {k}
  /\ photo' = k
  /\ overtaken' = (overtaken /\ ~(k = preview /\ compressing' = {}))
  /\ UNCHANGED <<place, geolocation, isManual, nearby, nearbyFetches, photos, preview,
                 isSubmitting, sent>>

\* handleRemoveImage tells the page too.  (Mutant: only the form forgets it.)
FormForgets == UNCHANGED photo
Detached == photo' = NoPhoto

RemovePhoto ==
  /\ ~sent /\ preview # NoPhoto
  /\ preview' = NoPhoto
  /\ Detached
  /\ overtaken' = (overtaken \/ compressing # {})
  /\ UNCHANGED <<place, geolocation, isManual, nearby, nearbyFetches, photos, compressing,
                 isSubmitting, sent>>

-----------------------------------------------------------------------------
\* handleSubmit: nothing is sent without a place; the form stays as it is and
\* can be edited meanwhile.
SendReport ==
  /\ ~sent /\ ~isSubmitting
  /\ place # "none"
  /\ isSubmitting' = TRUE
  /\ UNCHANGED <<place, geolocation, isManual, nearby, nearbyFetches, photos, preview,
                 compressing, photo, sent, overtaken>>

\* The report is stored and takes the form's place, with its preview; or it is
\* refused and the form is there to send again.
ReportAnswered ==
  /\ isSubmitting
  /\ isSubmitting' = FALSE
  /\ \/ sent' = TRUE /\ preview' = NoPhoto
        /\ overtaken' = (overtaken \/ photo # NoPhoto \/ compressing # {})
     \/ UNCHANGED <<sent, preview, overtaken>>
  /\ UNCHANGED <<place, geolocation, isManual, nearby, nearbyFetches, photos, compressing,
                 photo>>

\* Submit Another Report: place, text and photo are still the page's.
AnotherReport ==
  /\ sent
  /\ sent' = FALSE
  /\ UNCHANGED <<place, geolocation, isManual, nearby, nearbyFetches, photos, preview,
                 compressing, photo, isSubmitting, overtaken>>

FormNext ==
  \/ Geolocated \/ EditLink \/ EditPlace
  \/ \E p \in nearbyFetches : NearbyAnswered(p)
  \/ ChoosePhoto \/ RemovePhoto
  \/ \E k \in compressing : PhotoCompressed(k)
  \/ SendReport \/ ReportAnswered \/ AnotherReport

-----------------------------------------------------------------------------
\* Invariant.  The photo a report would be sent with is the one the form shows,
\* unless one was removed while it, or an earlier one, was being compressed or
\* was left by the report before; then it is again once the next is compressed.
PhotoShownIsSent ==
  ~sent /\ compressing = {} /\ ~overtaken => photo = preview

=============================================================================
