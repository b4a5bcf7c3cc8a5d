----------------------------- MODULE MCIngestRun -----------------------------
(* Small instances of IngestRun. *)
EXTENDS IngestRun, TLC

CONSTANTS r1, r2, r3

\* No run has a key; all runs share one.
NoKeys == [r \in Run |-> None]
SameKey == [r \in Run |-> "k"]

\* Runs that start alike are interchangeable.
FirstTwo == Permutations({r1, r2})

=============================================================================
