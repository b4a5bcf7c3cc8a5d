------------------------------ MODULE IngestRun ------------------------------
(***************************************************************************)
(* The life of concurrent executions of one Databricks contract: source    *)
(* preparation (prepare_contract_source_view), then                        *)
(* ingest_databricks_contract with its idempotency look-up, target lock,   *)
(* write flow, success, skip and failure finalization, and its finally     *)
(* block.  Every SQL statement that touches shared state is a step of its  *)
(* own; another run, a new source row, a raised exception or the death of  *)
(* the driver may come between any two of them.                            *)
(*                                                                         *)
(* The source delivers rows 1, 2, 3, ... in the order of their watermark   *)
(* column; the target is written in append mode, so that a row is          *)
(* duplicated when two runs write it.                                      *)
(***************************************************************************)
EXTENDS ControlTables

CONSTANTS
    MaxTime,      \* bound of the clock
    MaxRow,       \* bound of the source
    Valueless,    \* a watermark payload without "value": MAX over no rows, through to_json
    KeyOf,        \* the idempotency key of each run, or None
    Policy,       \* idempotency_policy
    LockEnabled,  \* lock_enabled
    DryRun,       \* the runs with dry_run
    Cached,       \* the runs whose prepared view is cached (cache_source; none by default)
    MayRaise      \* whether statements, hooks and gates may raise in this instance

ASSUME MaxTimeAssumption == MaxTime \in Nat
ASSUME MaxRowAssumption == MaxRow \in Nat
ASSUME ValuelessAssumption == Valueless \notin Nat /\ Valueless # None
ASSUME PolicyAssumption ==
    Policy \in {"always_run", "skip_if_success", "rerun_if_failed", "fail_if_success"}
ASSUME DryRunAssumption == DryRun \subseteq Run
ASSUME CachedAssumption == Cached \subseteq Run
ASSUME FlagsAssumption ==
    LockEnabled \in BOOLEAN /\ MayRaise \in BOOLEAN

VARIABLES
    lock, now, lockPc, lease,   \* the target lock, as in IngestLock
    pc,          \* the statement each run is about to issue
    source,      \* how many rows have arrived at the source
    runs,        \* the rows of ctrl_ingestion_runs
    state,       \* the row of ctrl_ingestion_state
    prev,        \* watermark_previous of each run, read at preparation
    wrote,       \* the rows each run committed to the target
    cand,        \* the watermark candidate each run computed
    committed,   \* history: the runs whose target write committed
    succeeded,   \* history: the runs whose success reached the state row
    earlier,     \* history: the runs in "succeeded" when each run prepared
    cleared,     \* history: the watermark was lowered or set to NULL
    raced        \* history: the rows that arrived between the write and the MAX of a lazy view

lockVars == <<lock, now, lockPc, lease>>
tables == <<runs, state>>
locals == <<prev, wrote, cand>>
history == <<committed, succeeded, earlier, cleared, raced>>
vars == <<lockVars, pc, source, tables, locals, history>>

Lock == INSTANCE IngestLock WITH pc <- lockPc

Row == 1..MaxRow
Watermark == Nat \cup {None, Valueless}

\* Mutant: >= instead of > in render_watermark_filter_predicate.
ViewInclusive(p) == {n \in 1..source: p = None \/ n >= p}

\* The rows a view over the current source shows beyond a previous watermark.
View(p) == {n \in 1..source: p = None \/ n > p}

Locks(r) == LockEnabled /\ r \notin DryRun

Starting == {"idle", "prepared", "checked", "acquiring"}
Skipping == {"skipping", "skipLogged"}
Writing == {"locked", "written"}
Finalizing == {"measured", "logged", "finalized"}
Failing == {"failing", "failLogged"}
Terminal == {"done", "aborted", "crashed"}
Pc == Starting \cup Skipping \cup Writing \cup Finalizing \cup Failing \cup {"closing"} \cup Terminal

Goto(r, label) == pc' = [pc EXCEPT ![r] = label]

Init ==
    /\ Lock!Init
    /\ pc = [r \in Run |-> "idle"]
    /\ source = 0
    /\ runs = {}
    /\ state = NoStateRow
    /\ prev = [r \in Run |-> None]
    /\ wrote = [r \in Run |-> {}]
    /\ cand = [r \in Run |-> None]
    /\ committed = {}
    /\ succeeded = {}
    /\ earlier = [r \in Run |-> {}]
    /\ cleared = FALSE
    /\ raced = {}

-----------------------------------------------------------------------------
(* Preparation, before the orchestrator is entered *)

\* The watermark of the state row becomes the lower bound of the source view.
\* A payload without "value" does not decode.
Prepare(r) ==
    /\ pc[r] = "idle"
    /\ state.watermark # Valueless
    /\ Goto(r, "prepared")
    /\ prev' = [prev EXCEPT ![r] = state.watermark]
    /\ earlier' = [earlier EXCEPT ![r] = succeeded]
    /\ UNCHANGED <<lockVars, source, tables, wrote, cand, committed, succeeded, cleared, raced>>

\* An unreadable source or watermark: no run, no evidence.
PrepareFails(r) ==
    /\ pc[r] = "idle"
    /\ MayRaise \/ state.watermark = Valueless
    /\ Goto(r, "aborted")
    /\ UNCHANGED <<lockVars, source, tables, locals, history>>

-----------------------------------------------------------------------------
(* The try block up to the write *)

\* A run that leaves the try block without the lock still runs the release.
LeaveUnlocked(r) == IF Locks(r) THEN Lock!GivesUp(r) ELSE UNCHANGED lockVars

\* _idempotency_skip: look for a SUCCESS row of the same target and key.
CheckKey(r) ==
    LET guarded == KeyOf[r] # None /\ Policy # "always_run"
        found   == guarded /\ FindIdempotentRun(runs, KeyOf[r]) # {}
    IN  /\ pc[r] = "prepared"
        /\ IF ~found
           THEN Goto(r, "checked") /\ UNCHANGED lockVars
           ELSE /\ Goto(r, IF Policy = "fail_if_success" THEN "failing" ELSE "skipping")
                /\ LeaveUnlocked(r)
        /\ UNCHANGED <<source, tables, locals, history>>

\* _acquire_lock, first statement; a run without the lock goes straight on.
Acquire(r) ==
    /\ pc[r] = "checked"
    /\ IF Locks(r)
       THEN Lock!Merge(r) /\ Goto(r, "acquiring")
       ELSE UNCHANGED lockVars /\ Goto(r, "locked")
    /\ UNCHANGED <<source, tables, locals, history>>

\* Mutant: a busy lock is polled instead of refused.
ConfirmOrWait(r) ==
    /\ pc[r] = "acquiring"
    /\ IF LockConfirmed(lock, r)
       THEN Lock!ReadBack(r) /\ Goto(r, "locked")
       ELSE UNCHANGED <<lockVars, pc>>
    /\ UNCHANGED <<source, tables, locals, history>>

\* _acquire_lock, second statement: "Lock is busy" unless the row is the run's.
Confirm(r) ==
    /\ pc[r] = "acquiring"
    /\ Lock!ReadBack(r)
    /\ Goto(r, IF lockPc'[r] = "held" THEN "locked" ELSE "failing")
    /\ UNCHANGED <<source, tables, locals, history>>

\* A dry run previews the schema, writes no evidence and no state.
EndDryRun(r) ==
    /\ pc[r] = "locked" /\ r \in DryRun
    /\ Goto(r, "finalized")
    /\ UNCHANGED <<lockVars, source, tables, locals, history>>

-----------------------------------------------------------------------------
(* The write flow and the success path *)

\* The lazy view is evaluated by the write, which is one Delta commit.
Write(r) ==
    /\ pc[r] = "locked" /\ r \notin DryRun
    /\ Goto(r, "written")
    /\ wrote' = [wrote EXCEPT ![r] = View(prev[r])]
    /\ committed' = committed \cup {r}
    /\ UNCHANGED <<lockVars, source, tables, prev, cand, succeeded, earlier, cleared, raced>>

\* Mutant: MAX over the source table instead of the prepared view.
CandidateOfSource(r) ==
    /\ pc[r] = "written"
    /\ Goto(r, "measured")
    /\ cand' = [cand EXCEPT ![r] = IF source = 0 THEN Valueless ELSE source]
    /\ UNCHANGED <<lockVars, source, tables, prev, wrote, history>>

\* After maintenance, governance and the after_write hook: MAX of the
\* watermark column over the view.  Unless the view is cached it is evaluated
\* once more, and shows the rows that arrived since the write, too.
Candidate(r) ==
    LET view == IF r \in Cached THEN wrote[r] ELSE View(prev[r])
    IN  /\ pc[r] = "written"
        /\ Goto(r, "measured")
        /\ \/ view = {} /\ cand' = [cand EXCEPT ![r] = Valueless]
           \/ \E m \in view: /\ \A n \in view: n <= m
                             /\ cand' = [cand EXCEPT ![r] = m]
        /\ UNCHANGED <<lockVars, source, tables, prev, wrote, history>>

\* finalize_ingest, write_run_log.
LogSuccess(r) ==
    /\ pc[r] = "measured"
    /\ Goto(r, "logged")
    /\ runs' = runs \cup {RunLogRow(r, KeyOf[r], "SUCCESS")}
    /\ UNCHANGED <<lockVars, source, state, locals, history>>

Lowers(old, new) == old \in Nat /\ (new \in Nat => new < old)

WriteState(r, status, watermark) ==
    /\ state' = UpsertState(state, r, status, watermark)
    /\ cleared' = (cleared \/ Lowers(state.watermark, watermark))

\* finalize_ingest, upsert_state of a SUCCESS.
RecordSuccess(r) ==
    /\ pc[r] = "logged"
    /\ Goto(r, "finalized")
    /\ WriteState(r, "SUCCESS", cand[r])
    /\ succeeded' = succeeded \cup {r}
    /\ UNCHANGED <<lockVars, source, runs, locals, committed, earlier, raced>>

-----------------------------------------------------------------------------
(* The skip path, inside the try block, and the except block *)

LogSkip(r) ==
    /\ pc[r] = "skipping"
    /\ IF r \in DryRun
       THEN Goto(r, "finalized") /\ UNCHANGED runs
       ELSE /\ Goto(r, "skipLogged")
            /\ runs' = runs \cup {RunLogRow(r, KeyOf[r], "SKIPPED")}
    /\ UNCHANGED <<lockVars, source, state, locals, history>>

\* upsert_state of a SKIPPED: no watermark is passed, so NULL is stored.
RecordSkip(r) ==
    /\ pc[r] = "skipLogged"
    /\ Goto(r, "finalized")
    /\ WriteState(r, "SKIPPED", None)
    /\ UNCHANGED <<lockVars, source, runs, locals, committed, succeeded, earlier, raced>>

\* Planning, a hook, a quality gate, a statement: whatever raises inside the
\* try block, even after_finalize once the success is recorded.
Raise(r) ==
    /\ MayRaise
    /\ pc[r] \in Starting \cup Skipping \cup Writing \cup Finalizing
    /\ pc[r] # "idle"
    /\ Goto(r, "failing")
    /\ IF Locks(r) /\ lockPc[r] = "idle" THEN Lock!GivesUp(r)
       ELSE IF lockPc[r] = "merged" THEN Lock!ReadBackFails(r)
       ELSE UNCHANGED lockVars
    /\ UNCHANGED <<source, tables, locals, history>>

\* finalize_failure_result: the error log and the FAILED row.
LogFailure(r) ==
    /\ pc[r] = "failing"
    /\ IF r \in DryRun
       THEN Goto(r, "closing") /\ UNCHANGED runs
       ELSE /\ Goto(r, "failLogged")
            /\ runs' = runs \cup {RunLogRow(r, KeyOf[r], "FAILED")}
    /\ UNCHANGED <<lockVars, source, state, locals, history>>

\* upsert_state of a FAILED: no watermark is passed, so NULL is stored.
RecordFailure(r) ==
    /\ pc[r] = "failLogged"
    /\ Goto(r, "closing")
    /\ WriteState(r, "FAILED", None)
    /\ UNCHANGED <<lockVars, source, runs, locals, committed, succeeded, earlier, raced>>

\* An exception of the except block's own statements propagates.
FailureEvidenceFails(r) ==
    /\ MayRaise
    /\ pc[r] \in Failing
    /\ Goto(r, "closing")
    /\ UNCHANGED <<lockVars, source, tables, locals, history>>

\* Mutant: the release deletes the row of the target, whoever owns it.
ReleaseDeletes(r) ==
    /\ pc[r] \in {"finalized", "closing"}
    /\ Goto(r, "done")
    /\ lock' = IF Locks(r) THEN NoLockRow ELSE lock
    /\ lockPc' = [lockPc EXCEPT ![r] = IF Locks(r) THEN "done" ELSE @]
    /\ UNCHANGED <<now, lease, source, tables, locals, history>>

\* The finally block.
Release(r) ==
    /\ pc[r] \in {"finalized", "closing"}
    /\ Goto(r, "done")
    /\ IF Locks(r)
       THEN Lock!Release(r) \/ (MayRaise /\ Lock!ReleaseFails(r))
       ELSE UNCHANGED lockVars
    /\ UNCHANGED <<source, tables, locals, history>>

-----------------------------------------------------------------------------
(* The environment *)

\* The driver dies: no except block, no finally block.
Crash(r) ==
    /\ MayRaise
    /\ pc[r] \notin Terminal \cup {"idle"}
    /\ Goto(r, "crashed")
    /\ IF lockPc[r] # "idle" THEN Lock!Crash(r) ELSE UNCHANGED lockVars
    /\ UNCHANGED <<source, tables, locals, history>>

Arrive ==
    /\ source < MaxRow
    /\ source' = source + 1
    /\ raced' = IF \E r \in Run \ Cached: pc[r] = "written" THEN raced \cup {source'} ELSE raced
    /\ UNCHANGED <<lockVars, pc, tables, locals, committed, succeeded, earlier, cleared>>

Tick ==
    /\ Lock!Tick
    /\ UNCHANGED <<pc, source, tables, locals, history>>

Finished ==
    /\ \A r \in Run: pc[r] \in Terminal
    /\ UNCHANGED vars

Step(r) ==
    \/ Prepare(r) \/ PrepareFails(r) \/ CheckKey(r) \/ Acquire(r) \/ Confirm(r)
    \/ EndDryRun(r) \/ Write(r) \/ Candidate(r) \/ LogSuccess(r) \/ RecordSuccess(r)
    \/ LogSkip(r) \/ RecordSkip(r) \/ LogFailure(r) \/ RecordFailure(r) \/ Release(r)

Next ==
    \/ \E r \in Run: Step(r) \/ Raise(r) \/ FailureEvidenceFails(r) \/ Crash(r)
    \/ Arrive \/ Tick \/ Finished

Spec == Init /\ [][Next]_vars

\* A live driver goes on to its next statement.
FairSpec == Spec /\ \A r \in Run: WF_vars(Step(r))


-----------------------------------------------------------------------------

\* Every variable has the type its table, option or local gives it.
TypeOK ==
    /\ Lock!TypeOK
    /\ pc \in [Run -> Pc]
    /\ source \in 0..MaxRow
    /\ state.watermark \in Watermark
    /\ prev \in [Run -> Nat \cup {None}]
    /\ wrote \in [Run -> SUBSET Row]
    /\ cand \in [Run -> Watermark]
    /\ committed \subseteq Run
    /\ succeeded \subseteq Run
    /\ earlier \in [Run -> SUBSET Run]
    /\ cleared \in BOOLEAN
    /\ raced \subseteq Row

Delivered == UNION {wrote[r]: r \in Run}

\* No data loss but one: a row up to the watermark that the state table offers
\* to the next run has been written by some run, whatever failed, died or
\* overlapped in between, or it arrived between the write of a run whose view
\* is lazy and that run's MAX, which counts it although nobody wrote it.
WatermarkCoversDelivery ==
    state.watermark \in Nat => 1..state.watermark \subseteq Delivered \cup raced

\* A row is written twice only by two runs neither of which could see the
\* other's recorded success when it prepared, or after the watermark of the
\* target was lowered or cleared.
DuplicatesNeedOverlapOrReset ==
    \A a, b \in Run:
        a # b /\ wrote[a] \cap wrote[b] # {}
        => cleared \/ (a \notin earlier[b] /\ b \notin earlier[a])

\* A replay of a key whose success was recorded before the replay prepared
\* never writes, even if the first run failed later in after_finalize.
ReplayDeliversNothing ==
    \A a, b \in Run:
        a \in earlier[b] /\ KeyOf[a] = KeyOf[b] /\ KeyOf[a] # None /\ Policy # "always_run"
        => b \notin committed

\* A run is skipped only if a run of the same key has committed its data.
SkippedMeansDelivered ==
    \A row \in runs:
        row.status = "SKIPPED" => \E q \in committed: KeyOf[q] = row.key

\* The state row never tells more than the run log: it names a run whose row
\* of that status is in the log, and a SUCCESS whose write committed.
StateFollowsLog ==
    state.run # None =>
        /\ \E row \in runs: row.run = state.run /\ row.status = state.status
        /\ state.status = "SUCCESS" => state.run \in committed

\* With the lock, two runs are inside the write flow together only if one of
\* them has outlived its lease.
WritesAreExclusive ==
    LockEnabled =>
        \A a, b \in {r \in Run \ DryRun: pc[r] \in Writing}:
            a = b \/ a \in Lock!Lapsed \/ b \in Lock!Lapsed

\* A run that came to its end with a working finally block leaves no lock,
\* whichever statement raised before.
EndedRunsHoldNoLock ==
    \A r \in Run:
        pc[r] = "done" /\ lockPc[r] # "leaked" => ~LockConfirmed(lock, r)

\* A dry run leaves no trace in the target or the control tables.
DryRunLeavesNoTrace ==
    \A r \in DryRun:
        /\ r \notin committed /\ wrote[r] = {}
        /\ state.run # r /\ lock.run # r
        /\ \A row \in runs: row.run # r

\* With the lock, successes record watermarks in order, although a run reads
\* its previous watermark before it asks for the lock: the success of a run
\* within its lease never stores a smaller watermark over that of another one.
SuccessesMoveForward ==
    [][\A r \in Run \ Lock!Lapsed:
          /\ LockEnabled
          /\ pc[r] = "logged" /\ pc'[r] = "finalized"
          /\ state.status = "SUCCESS" /\ state.run \notin Lock!Lapsed
          /\ state.watermark \in Nat /\ state'.watermark \in Nat
          => state.watermark <= state'.watermark]_vars

\* What the run does with the lock row is what IngestLock does.
LockSpec == Lock!Spec

\* Every run that was prepared comes to its end, whoever crashed, failed or
\* holds the lock.
EveryRunEnds == \A r \in Run: pc[r] = "prepared" ~> pc[r] \in Terminal

=============================================================================
