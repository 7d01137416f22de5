---------------------------- MODULE MCRsmSimulator ----------------------------
(***************************************************************************)
(* The runs of the simulation worker: threads are interchangeable within   *)
(* their kind, so a run of safety properties may use the symmetry.         *)
(***************************************************************************)
EXTENDS RsmSimulator, TLC

ThreadSymmetry == Permutations(Workers) \cup Permutations(Clients)
===============================================================================
