------------------------------ MODULE MCServices ------------------------------
(***************************************************************************)
(* Three services of the backend that share no state with the tables or    *)
(* with one another, each for itself in one run: a behaviour is one of the *)
(* service it begins with.                                                 *)
(***************************************************************************)
EXTENDS LiveFeed, ModelRegistry, RateLimiter, TLC

CONSTANTS vlm, whisper, nllb

VARIABLE service

vars == <<service, feedVars, registryVars, limitVars>>

\* The order in which main.py's routers import them does not matter here.
AllModels == <<nllb, vlm, whisper>>

Interchangeable ==
  Permutations(Workers) \union Permutations(Clients) \union Permutations(Messages)

Init ==
  /\ service \in {"feed", "registry", "limiter"}
  /\ FeedInit /\ (service # "feed" => \A w \in Workers : IsUp(w))
  /\ RegistryInit /\ (service # "registry" => cap = 1)
  /\ LimitInit

Next ==
  \/ service = "feed" /\ FeedNext /\ UNCHANGED <<service, registryVars, limitVars>>
  \/ service = "registry" /\ RegistryNext /\ UNCHANGED <<service, feedVars, limitVars>>
  \/ service = "limiter" /\ LimitNext /\ UNCHANGED <<service, feedVars, registryVars>>

Spec == Init /\ [][Next]_vars

=============================================================================
