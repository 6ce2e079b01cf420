---------------------------- MODULE MCSOSDispatch ----------------------------
(***************************************************************************)
(* Instances of SOSDispatch for TLC.                                       *)
(***************************************************************************)
EXTENDS SOSDispatch, TLC

\* A single request at a time implements the endpoints' promises.
Contract == INSTANCE DispatchContract WITH Times <- 1 .. MaxRounds

\* Requests that do not overlap behave as the indivisible operations of
\* DispatchContract: reading, planning and committing in several steps is not
\* visible in the tables.
ImplementsContract == Contract!Spec

\* One scope: every row may be used.
AllRows == {Rows}
\* Two scopes: every row, or the first simulation's only.
CONSTANT SimulationRows
TwoScopes == {Rows, SimulationRows}

Interchangeable == Permutations(Reports) \cup Permutations(Units) \cup Permutations(Sessions)
InterchangeableRows == Permutations(Reports) \cup Permutations(Units)
=============================================================================
