----------------------------- MODULE MCRecording -----------------------------
(***************************************************************************)
(* Instances of Recording for TLC.                                         *)
(***************************************************************************)
EXTENDS Recording, TLC

Names == Permutations(Sessions) \cup Permutations(Mains)

\* Only the last process writes a file: it is not shared between processes.
LastWrites == step' = "opened" => starts = MaxStarts

MCSpec == Init /\ [][Next /\ LastWrites]_vars
=============================================================================
