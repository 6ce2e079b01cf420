---------------------------- MODULE MCSimulation ----------------------------
(***************************************************************************)
(* Instances of Simulation for TLC.                                        *)
(***************************************************************************)
EXTENDS Simulation, TLC

\* Ids and requests are interchangeable; so are workers where there are two.
Interchangeable ==
  Permutations(Sims) \cup Permutations(Requests) \cup Permutations(Workers)

FirstStep == {0}
SecondStep == {1}
=============================================================================
