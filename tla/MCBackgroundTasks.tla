-------------------------- MODULE MCBackgroundTasks --------------------------
(***************************************************************************)
(* Instances of BackgroundTasks for TLC.                                   *)
(***************************************************************************)
EXTENDS BackgroundTasks, TLC

TaskSymmetry == Permutations(Tasks)
=============================================================================
