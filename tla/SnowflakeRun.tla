---------------------------- MODULE SnowflakeRun -----------------------------
(***************************************************************************)
(* run_snowflake_contract: look-up of the idempotency key, lock, execution *)
(* of the contract (state filter, quality rules, one write statement,      *)
(* state row), release, and only then the SUCCESS row of the run log.      *)
(* Every statement reads the source anew: rows that arrive in between are  *)
(* seen by the later statements and not by the earlier ones.               *)
(***************************************************************************)
EXTENDS PlatformTables

Working == {"locked", "ready", "gate", "quarantining", "written", "measured", "stated"}
Failed == {"failing", "failStated", "failed"}
Terminal == {"done", "leaked", "crashed"}
Pc == {"idle", "skipping", "checked", "merged", "released"} \cup Working \cup Failed \cup Terminal

Init == Fresh("snowflake", {c \in Contracts: ~c.stream})

\* find_idempotent_run, before the try block: fail_if_success raises without
\* evidence, the other policies skip.
LookUp(r) ==
    /\ pc[r] = "idle"
    /\ LET found == contract.policy # "always_run" /\ \E row \in runLog: row.status = "SUCCESS"
       IN Goto(r, IF ~found THEN "checked"
                  ELSE IF contract.policy = "fail_if_success" THEN "done" ELSE "skipping")
    /\ UNCHANGED <<data, control, locals, late>>

\* The SKIPPED row; a skipped run leaves no state row.
LogSkip(r) ==
    /\ pc[r] = "skipping"
    /\ Goto(r, "done")
    /\ LogRun(r, "SKIPPED", 0)
    /\ UNCHANGED <<data, locking, now, stateLog,
                   progress, locals, late>>

-----------------------------------------------------------------------------
(* The lock *)

Unlocked(r) ==
    /\ pc[r] = "checked"
    /\ ~contract.lock
    /\ Goto(r, "locked")
    /\ UNCHANGED <<data, control, locals, late>>

\* The MERGE of acquire_snowflake_lock.
Acquire(r) ==
    /\ pc[r] = "checked"
    /\ contract.lock
    /\ Goto(r, "merged")
    /\ lock' = AcquireLock(lock, r, now)
    /\ lease' = [lease EXCEPT ![r] = IF Acquirable(lock, now) THEN now + TTL ELSE 0]
    /\ UNCHANGED <<data, held, now, stateLog, runLog,
                   progress, locals, late>>

\* What _row_mapping finds under STATUS: the status in a row that is a mapping; in
\* a tuple the second column of the query, which is lock_owner ("OWNER") or NULL.
StatusRead(row) == {row.status, "OWNER", None}

\* Mutant: the read-back compares the status only.
ConfirmedForAnyone(row, status, r) == status \in {None, "ABSENT", "ACTIVE"}

\* The read-back refuses a row of another run and a status that is not ACTIVE; a
\* row that is not found (ABSENT) and a status that is NULL confirm.
Confirmed(row, status, r) == row.run \in {None, r} /\ status \in {None, "ABSENT", "ACTIVE"}

\* lock_commands is set only if acquire_snowflake_lock returns.
ReadBack(r) ==
    /\ pc[r] = "merged"
    /\ \E status \in StatusRead(lock):
          /\ Goto(r, IF Confirmed(lock, status, r) THEN "locked" ELSE "failing")
          /\ held' = [held EXCEPT ![r] = Confirmed(lock, status, r)]
    /\ UNCHANGED <<data, lock, lease, now, stateLog, runLog,
                   progress, locals, late>>

-----------------------------------------------------------------------------
(* execute_snowflake_contract *)

\* apply_snowflake_state_filter: the latest SUCCESS row gives the lower bound;
\* a NULL in it filters nothing.
ReadState(r) ==
    /\ pc[r] = "locked"
    /\ Goto(r, "ready")
    /\ LET previous == WatermarkAt(Len(stateLog))
       IN low' = [low EXCEPT ![r] = IF previous = None THEN 0 ELSE previous]
    /\ base' = [base EXCEPT ![r] = Len(stateLog)]
    /\ UNCHANGED <<data, control, top, step, applied, cand, late>>

\* Target bootstrap, schema policy, key validation, and the row count.
Count(r) ==
    /\ pc[r] = "ready"
    /\ Goto(r, "gate")
    /\ top' = [top EXCEPT ![r] = source]
    /\ UNCHANGED <<data, control, low, base, step, applied, cand, late>>

\* apply_quality_rules counts the rows that fail the next rule.
Evaluate(r) ==
    /\ pc[r] = "gate" /\ step[r] <= Len(contract.rules)
    /\ LET severity == contract.rules[step[r]].severity
           passes == Failing(r, source) = {} \/ severity = "warn"
       IN /\ Goto(r, IF passes THEN "gate"
                     ELSE IF severity = "abort" THEN "failing" ELSE "quarantining")
          /\ step' = [step EXCEPT ![r] = IF passes THEN @ + 1 ELSE @]
    /\ UNCHANGED <<data, control, low, base, top, applied, cand, late>>

\* Mutant: the rows are filtered out, and the evidence of them is left out.
QuarantineDrops(r) ==
    /\ pc[r] = "quarantining"
    /\ Goto(r, "gate")
    /\ applied' = [applied EXCEPT ![r] = @ \cup {step[r]}]
    /\ step' = [step EXCEPT ![r] = @ + 1]
    /\ UNCHANGED <<data, control, low, base, top, cand, late>>

\* The rows that fail now go to the quarantine table, by one INSERT ... SELECT,
\* and the rule becomes a filter of the source.
Quarantine(r) ==
    /\ pc[r] = "quarantining"
    /\ Goto(r, "gate")
    /\ quarantined' = [quarantined EXCEPT ![r] = @ \cup Failing(r, source)]
    /\ applied' = [applied EXCEPT ![r] = @ \cup {step[r]}]
    /\ step' = [step EXCEPT ![r] = @ + 1]
    /\ UNCHANGED <<given, source, wrote, locking, now, stateLog, runLog, progress,
                   low, base, top, cand, late>>

\* The write statement reads the filtered source once more.
Write(r) ==
    /\ pc[r] = "gate" /\ step[r] > Len(contract.rules)
    /\ Goto(r, "written")
    /\ wrote' = [wrote EXCEPT ![r] = View(r, source)]
    /\ late' = late \cup Arrived(r)
    /\ UNCHANGED <<given, source, quarantined, locking, now, stateLog, runLog, progress,
                   locals>>

\* record_snowflake_state, first statement: MAX over the filtered source.
Measure(r) ==
    /\ pc[r] = "written"
    /\ Goto(r, "measured")
    /\ cand' = [cand EXCEPT ![r] = MaxWatermark(View(r, source))]
    /\ late' = late \cup Arrived(r)
    /\ UNCHANGED <<data, control, low, base, top, step, applied>>

\* Its second statement: the SUCCESS row, with a NULL watermark if no row is left.
RecordState(r) ==
    /\ pc[r] = "measured"
    /\ Goto(r, "stated")
    /\ AppendState(r, "SUCCESS", cand[r])
    /\ UNCHANGED <<data, locking, now, runLog, progress,
                   locals, late>>

-----------------------------------------------------------------------------
(* except and finally *)

\* A statement raises before it takes effect; the read-back, a hook of the
\* target, or an evidence row of the execution may be that statement.
Raise(r) ==
    /\ pc[r] \in {"merged", "locked", "ready", "gate", "quarantining", "written", "measured"}
    /\ Goto(r, "failing")
    /\ UNCHANGED <<data, control, locals, late>>

\* The except block: an error row, a FAILED state row without watermark, ...
FailState(r) ==
    /\ pc[r] = "failing"
    /\ Goto(r, "failStated")
    /\ AppendState(r, "FAILED", None)
    /\ UNCHANGED <<data, locking, now, runLog, progress,
                   locals, late>>

\* ... and the FAILED row of the run log.
FailRun(r) ==
    /\ pc[r] = "failStated"
    /\ Goto(r, "failed")
    /\ LogRun(r, "FAILED", 0)
    /\ UNCHANGED <<data, locking, now, stateLog, progress,
                   locals, late>>

\* The except block itself raises and leaves the rest of its evidence out.
HandlerRaises(r) ==
    /\ pc[r] \in {"failing", "failStated"}
    /\ Goto(r, "failed")
    /\ UNCHANGED <<data, control, locals, late>>

\* The finally block.
Release(r) ==
    /\ pc[r] \in {"stated", "failed"}
    /\ Goto(r, IF pc[r] = "stated" THEN "released" ELSE "done")
    /\ lock' = IF held[r] THEN ReleaseLock(lock, r) ELSE lock
    /\ held' = [held EXCEPT ![r] = FALSE]
    /\ UNCHANGED <<data, lease, now, stateLog, runLog, progress,
                   locals, late>>

\* release_snowflake_lock turns its exception into a warning.
ReleaseFails(r) ==
    /\ pc[r] \in {"stated", "failed"} /\ held[r]
    /\ Goto(r, IF pc[r] = "stated" THEN "released" ELSE "leaked")
    /\ UNCHANGED <<data, control, locals, late>>

\* After the finally block: the SUCCESS row.
LogSuccess(r) ==
    /\ pc[r] = "released"
    /\ Goto(r, IF held[r] THEN "leaked" ELSE "done")
    /\ LogRun(r, "SUCCESS", 0)
    /\ UNCHANGED <<data, locking, now, stateLog, progress,
                   locals, late>>

\* The insert raises outside the try block: a success that only the state shows.
LogSuccessFails(r) ==
    /\ pc[r] = "released"
    /\ Goto(r, IF held[r] THEN "leaked" ELSE "done")
    /\ UNCHANGED <<data, control, locals, late>>

Next ==
    \/ \E r \in Run:
          \/ LookUp(r) \/ LogSkip(r) \/ Unlocked(r) \/ Acquire(r) \/ ReadBack(r)
          \/ ReadState(r) \/ Count(r) \/ Evaluate(r) \/ Quarantine(r) \/ Write(r)
          \/ Measure(r) \/ RecordState(r)
          \/ Raise(r) \/ FailState(r) \/ FailRun(r) \/ HandlerRaises(r)
          \/ Release(r) \/ ReleaseFails(r) \/ LogSuccess(r) \/ LogSuccessFails(r)
          \/ Crash(r)
    \/ Arrive
    \/ Tick

Spec == Init /\ [][Next]_vars

=============================================================================
