------------------------------ MODULE MCPhases ------------------------------
(***************************************************************************)
(* Phases on a small instance.                                             *)
(***************************************************************************)
EXTENDS PhasesProperties, TLC

\* Ids are compared only for equality.
Ids == Permutations(Phase) \cup Permutations(Version) \cup Permutations(Proc)
=============================================================================
