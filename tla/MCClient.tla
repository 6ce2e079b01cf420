------------------------------- MODULE MCClient -------------------------------
(***************************************************************************)
(* The parts of the frontend that share no state with the live feed, each  *)
(* for itself in one run: a behaviour is one of the part it begins with.   *)
(***************************************************************************)
EXTENDS DemoTour, MapLayers, RiskView, OfficerProxy, RouteAnimation,
        InundationPlayback, VoiceDescription, ReportForm

VARIABLE part

Parts == {"tour", "map", "risk", "proxy", "drive", "inundation", "voice", "form"}

vars == <<part, replayVars, tourVars, mapVars, riskVars, proxyVars, driveVars,
          inundationVars, voiceVars, formVars>>

\* Two routes: segments and steps of different lengths, the second route's
\* steps ending elsewhere than its only segment does.
TwoDrives == {[segments |-> <<2, 2>>, steps |-> <<1, 3>>, duration |-> 4],
              [segments |-> <<3>>, steps |-> <<2, 2, 1>>, duration |-> 3]}

Init ==
  /\ part \in Parts
  /\ ReplayInit /\ TourInit /\ RiskInit /\ ProxyInit /\ DriveInit /\ InundationInit
  /\ FormInit
  /\ MapInit /\ (part # "map" => kind = "radar")
  /\ VoiceInit /\ (part # "voice" => isSupported)

Tour(A) == part = "tour" /\ A /\ UNCHANGED <<part, mapVars, riskVars, proxyVars, driveVars,
                                             inundationVars, voiceVars, formVars>>
Map(A) == part = "map" /\ A /\ UNCHANGED <<part, replayVars, tourVars, riskVars, proxyVars,
                                           driveVars, inundationVars, voiceVars, formVars>>

RestOf(p) ==
  /\ UNCHANGED <<part, replayVars, tourVars, mapVars>>
  /\ p = "risk" \/ UNCHANGED riskVars
  /\ p = "proxy" \/ UNCHANGED proxyVars
  /\ p = "drive" \/ UNCHANGED driveVars
  /\ p = "inundation" \/ UNCHANGED inundationVars
  /\ p = "voice" \/ UNCHANGED voiceVars
  /\ p = "form" \/ UNCHANGED formVars

Next ==
  \/ Tour(TourNext)
  \/ Map(MapNext)
  \/ part = "risk" /\ RiskNext /\ RestOf("risk")
  \/ part = "proxy" /\ ProxyNext /\ RestOf("proxy")
  \/ part = "drive" /\ DriveNext /\ RestOf("drive")
  \/ part = "inundation" /\ InundationNext /\ RestOf("inundation")
  \/ part = "voice" /\ VoiceNext /\ RestOf("voice")
  \/ part = "form" /\ FormNext /\ RestOf("form")

\* The tour's timers fire and its requests are answered; the page's interval
\* that refreshes the elapsed times fires.
Fairness ==
  /\ \A c \in Chains : WF_vars(Tour(ChainStep(c)))
  /\ WF_vars(Map(ElapsedRefresh))

Spec == Init /\ [][Next]_vars /\ Fairness

\* Invariant.  Every variable of every part keeps its type.
ClientTypeOK ==
  /\ TourTypeOK /\ MapTypeOK /\ RiskTypeOK /\ ProxyTypeOK
  /\ DriveTypeOK /\ InundationTypeOK /\ VoiceTypeOK /\ FormTypeOK

=============================================================================
