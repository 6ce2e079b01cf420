----------------------------- MODULE FocusedRoute -----------------------------
(***************************************************************************)
(* The assignment an officer opens from the dispatch queue: its route is   *)
(* fetched, and it can be marked arrived or closed while answers are still *)
(* on their way (app/dashboard/page.tsx, DispatchNavigationCard.tsx).      *)
(* The row of the queue is identified with the report it is for.           *)
(***************************************************************************)
EXTENDS Naturals

CONSTANTS Reports, NoReport

ASSUME NoReportAssumption == NoReport \notin Reports

VARIABLES
  focused,      \* the assignment in the navigation card
  route,        \* the assignment whose route is drawn
  routeError,   \* the card says the route is unavailable
  isLoading,    \* isLoadingFocusedRoute
  routeFetches, \* route requests on their way whose effect is still subscribed
  marking       \* the report whose resolution has been asked for

focusVars == <<focused, route, routeError, isLoading, routeFetches, marking>>

FocusTypeOK ==
  /\ focused \in Reports \cup {NoReport}
  /\ route \in Reports \cup {NoReport}
  /\ routeError \in BOOLEAN
  /\ isLoading \in BOOLEAN
  /\ routeFetches \in SUBSET Reports
  /\ marking \in Reports \cup {NoReport}

FocusInit ==
  /\ focused = NoReport
  /\ route = NoReport
  /\ routeError = FALSE
  /\ isLoading = FALSE
  /\ routeFetches = {}
  /\ marking = NoReport

-----------------------------------------------------------------------------
\* The effect's clean-up unsubscribes what it had asked for.  (Mutant: it has none.)
StillSubscribed(fetches) == fetches
Unsubscribed(fetches) == {}

\* setFocusedAssignment(a) and the effect that follows it.  Closing the card
\* clears the route but leaves isLoading as it is.  (Mutant: no early return.)
FetchAlways(a) ==
  /\ focused' = a
  /\ routeError' = FALSE
  /\ routeFetches' = {a}
  /\ isLoading' = TRUE
  /\ route' = route

SetFocus(a) ==
  /\ focused' = a
  /\ routeError' = FALSE
  /\ IF a = NoReport
       THEN /\ route' = NoReport
            /\ routeFetches' = Unsubscribed(routeFetches)
            /\ isLoading' = isLoading
       ELSE /\ routeFetches' = Unsubscribed(routeFetches) \cup {a}
            /\ isLoading' = TRUE
            /\ route' = route

\* A row of the queue is opened; the queue holds a new object for it whenever
\* it has been merged again.
Focus(a) == a \in Reports /\ SetFocus(a) /\ UNCHANGED marking

CloseNavigation == focused # NoReport /\ SetFocus(NoReport) /\ UNCHANGED marking

\* The answer to a request for a route; a failure is shown instead.
ShowRoute(a) == route' = a /\ isLoading' = FALSE /\ UNCHANGED routeError
ShowError == route' = NoReport /\ routeError' = TRUE /\ isLoading' = FALSE

RouteAnswered(a) ==
  /\ a \in routeFetches
  /\ routeFetches' = routeFetches \ {a}
  /\ ShowRoute(a) \/ ShowError
  /\ UNCHANGED <<focused, marking>>

\* handleMarkArrived: the button is disabled while a resolution is under way,
\* the queue is not.
MarkArrived ==
  /\ focused # NoReport
  /\ marking = NoReport
  /\ marking' = focused
  /\ UNCHANGED <<focused, route, routeError, isLoading, routeFetches>>

\* The report is resolved: the card is closed, whichever it now shows.
ArrivalConfirmed == marking # NoReport /\ SetFocus(NoReport) /\ marking' = NoReport

ArrivalFailed ==
  /\ marking # NoReport
  /\ marking' = NoReport
  /\ UNCHANGED <<focused, route, routeError, isLoading, routeFetches>>

-----------------------------------------------------------------------------
\* Invariant.  Once the card has stopped loading, the route, or the error, it
\* shows is the focused assignment's, whatever was opened and closed while the
\* answers were on their way; a closed card leaves no route behind.
RouteIsOfTheFocused ==
  /\ focused = NoReport => route = NoReport /\ ~routeError
  /\ focused # NoReport /\ ~isLoading => route = focused \/ routeError

=============================================================================
