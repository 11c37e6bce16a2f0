--------------------------- MODULE MCSubagentSpawn ---------------------------
(***************************************************************************)
(* Instances of SubagentSpawn for TLC.                                     *)
(***************************************************************************)
EXTENDS SubagentSpawn, TLC

ASSUME InstanceAssumption == OneListenerEach

AgentSymmetry == Permutations(Tasks)
=============================================================================
