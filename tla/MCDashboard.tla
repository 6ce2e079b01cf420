----------------------------- MODULE MCDashboard -----------------------------
(***************************************************************************)
(* Instances of Dashboard for TLC.                                         *)
(***************************************************************************)
EXTENDS Dashboard

\* What each behaviour of the run may mix; what a budget does not name it forbids.
Budget(some) ==
  [what \in {"reports", "drops", "mutes", "replays", "dispatches", "focuses", "triggers",
             "resets", "completions", "others"} |->
     IF what \in DOMAIN some THEN some[what] ELSE 0]

\* The last ones are about the feed alone: what starts its effect again, or ends
\* its sockets.
Mixes ==
  {Budget([reports |-> 1, drops |-> 1, mutes |-> 1]),
   Budget([reports |-> 1, drops |-> 1, replays |-> 1]),
   Budget([reports |-> 1, drops |-> 1, others |-> 2]),
   Budget([reports |-> 1, drops |-> 1, triggers |-> 1]),
   Budget([reports |-> 1, triggers |-> 2]),
   Budget([reports |-> 1, triggers |-> 1, resets |-> 1, completions |-> 1]),
   Budget([reports |-> 1, replays |-> 2]),
   Budget([reports |-> 2, dispatches |-> 1]),
   Budget([reports |-> 1, dispatches |-> 2]),
   Budget([reports |-> 1, dispatches |-> 1, focuses |-> 2]),
   Budget([reports |-> 1, dispatches |-> 1, focuses |-> 1, others |-> 1]),
   Budget([drops |-> 2, mutes |-> 1]),
   Budget([drops |-> 1, mutes |-> 2]),
   Budget([drops |-> 1, mutes |-> 1, replays |-> 1])}

\* A report filed while the officer mutes the siren.
Muting == {Budget([reports |-> 1, mutes |-> 1])}

=============================================================================
