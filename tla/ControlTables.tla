---------------------------- MODULE ControlTables ----------------------------
(***************************************************************************)
(* The SQL statements that ContractForge's Databricks adapter issues        *)
(* against its control tables, as functions of the row they touch.  Every  *)
(* statement is one Delta commit, so a component that runs one of them     *)
(* takes one atomic step.  A target table owns at most one row of the lock *)
(* table and one row of the state table.                                   *)
(***************************************************************************)
EXTENDS Naturals

CONSTANTS Run,    \* run ids, one per execution (uuid4 unless the caller fixes one)
          None,   \* SQL NULL
          TTL     \* the minutes a lock is granted for, in clock ticks

ASSUME TTLAssumption == TTL \in Nat \ {0}
ASSUME NoneAssumption == None \notin Run /\ None \notin Nat

-----------------------------------------------------------------------------
(* ctrl_ingestion_locks *)

LockRow == [run: Run \cup {None}, status: {"ABSENT", "ACTIVE", "RELEASED"}, expires: Nat]

NoLockRow == [run |-> None, status |-> "ABSENT", expires |-> 0]

\* Mutant: the expiry is compared the wrong way round by a tick.
AcquirableEarly(row, now) == row.status # "ACTIVE" \/ row.expires <= now + 1

\* Mutant: OR t.expires_at_utc < current_timestamp() is lost.
AcquirableOnceReleased(row, now) == row.status # "ACTIVE"

\* The WHEN MATCHED / WHEN NOT MATCHED conditions of the lock MERGE.
Acquirable(row, now) == row.status # "ACTIVE" \/ row.expires < now

\* MERGE INTO ctrl_ingestion_locks: takes the row when it may, else leaves it.
AcquireLock(row, r, now) ==
    IF Acquirable(row, now)
    THEN [run |-> r, status |-> "ACTIVE", expires |-> now + TTL]
    ELSE row

\* Mutant: the read-back checks the status only.
LockConfirmedForAnyone(row, r) == row.status = "ACTIVE"

\* The read-back after the MERGE: the row names this run and is ACTIVE.
LockConfirmed(row, r) == row.run = r /\ row.status = "ACTIVE"

\* UPDATE ... SET status = 'RELEASED' WHERE target_table = .. AND run_id = ..
ReleaseLock(row, r) ==
    IF row.run = r THEN [row EXCEPT !.status = "RELEASED"] ELSE row

-----------------------------------------------------------------------------
(* ctrl_ingestion_runs *)

Status == {"SUCCESS", "FAILED", "SKIPPED"}

\* Mutant: a FAILED row of the key hides its SUCCESS.
FindUnfailedRun(runs, key) ==
    {row \in runs: /\ row.key = key /\ row.status = "SUCCESS"
                   /\ \A other \in runs: other.key = key => other.status # "FAILED"}

\* SELECT ... WHERE target_table, idempotency_key AND status = 'SUCCESS'.
FindIdempotentRun(runs, key) == {row \in runs: row.key = key /\ row.status = "SUCCESS"}

\* The run-log row of run_payload: write_committed is derived from the status.
RunLogRow(r, key, status) ==
    [run |-> r, key |-> key, status |-> status, committed |-> status = "SUCCESS"]

-----------------------------------------------------------------------------
(* ctrl_ingestion_state *)

NoStateRow == [watermark |-> None, run |-> None, status |-> None]

\* MERGE INTO ctrl_ingestion_state: every column of the row is overwritten,
\* the watermark with whatever the run has, NULL included.
UpsertState(row, r, status, watermark) ==
    [watermark |-> watermark, run |-> r, status |-> status]

=============================================================================
