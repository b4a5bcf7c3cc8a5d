---------------------------- MODULE MCIngestLock -----------------------------
(* Three executions, a lease of two ticks, a clock of six. *)
EXTENDS IngestLock
=============================================================================
