---------------------------- MODULE MCAvailableNow ---------------------------
(* Small instances of AvailableNow. *)
EXTENDS AvailableNow, TLC

Executions == Permutations(Run)

=============================================================================
