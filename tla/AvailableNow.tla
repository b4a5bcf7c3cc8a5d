---------------------------- MODULE AvailableNow -----------------------------
(***************************************************************************)
(* Executions of an available-now stream: run_available_now_stream starts  *)
(* a Structured Streaming query over the rows available at its start,      *)
(* whose foreachBatch callback ingests every micro-batch through           *)
(* ingest_databricks_contract (_ingest_available_now_bundle), and records  *)
(* the execution in ctrl_ingestion_streams.  Spark keeps the position of   *)
(* the stream in the checkpoint: the offset log is written before a batch  *)
(* runs, the commit log after its callback returned, and a batch without   *)
(* a commit is run again, with the same rows, by the next execution.       *)
(*                                                                         *)
(* One checkpoint serves one execution at a time.  The steps inside a      *)
(* batch are those of IngestRun that the position of the stream depends    *)
(* on; the target is written in append mode.                               *)
(***************************************************************************)
EXTENDS ControlTables, Sequences, FiniteSets

CONSTANTS
    MaxRow,       \* bound of the source
    MaxBatch,     \* the rows a trigger takes at most
    OptionsKey,   \* opts.idempotency_key after effective_ingest_options, or None
    Policy,       \* idempotency_policy
    DryRun,       \* the executions with dry_run
    MayFail       \* whether anything raises or dies in this instance

ASSUME MaxRowAssumption == MaxRow \in Nat
ASSUME MaxBatchAssumption == MaxBatch \in Nat \ {0}
ASSUME PolicyAssumption ==
    Policy \in {"always_run", "skip_if_success", "rerun_if_failed", "fail_if_success"}
ASSUME DryRunAssumption == DryRun \subseteq Run
ASSUME NullAssumption == None \notin {"RUNNING", "SUCCESS", "FAILED"}
ASSUME MayFailAssumption == MayFail \in BOOLEAN

VARIABLES
    source,     \* how many rows have arrived
    offsets,    \* offset log: the last row of each planned batch
    commits,    \* commit log: how many batches are committed
    target,     \* how many copies of each row the target holds
    runs,       \* rows of ctrl_ingestion_runs, one child run per batch
    streams,    \* the status of each execution in ctrl_ingestion_streams, or None
    pc,         \* where each execution is
    upto,       \* the last row that was available when the execution started
    status      \* the local variable of run_available_now_stream

checkpoint == <<offsets, commits>>
tables == <<runs, streams>>
vars == <<source, checkpoint, target, tables, pc, upto, status>>

Row == 1..MaxRow
Batch == 1..MaxRow

InBatch == {"batch", "checked", "skipping", "written", "logged", "failing"}
Alive == InBatch \cup {"streaming", "returned", "stopping"}
Terminal == {"done", "crashed"}
Pc == {"idle"} \cup Alive \cup Terminal

Goto(e, label) == pc' = [pc EXCEPT ![e] = label]

\* The last row of batch b, and the rows of the batch at work.
End(b) == IF b = 0 THEN 0 ELSE offsets[b]
Current == commits + 1

\* Mutants: a bound of the batch is taken the wrong way.
BatchRowsWithLast == {n \in Row: End(commits) <= n /\ n <= End(Current)}
BatchRowsShort == {n \in Row: End(commits) < n /\ n < End(Current)}

BatchRows == {n \in Row: End(commits) < n /\ n <= End(Current)}

\* effective_ingest_options: a key in the options wins over the contract's.
EffectiveKey(optionsKey, contractKey) ==
    IF optionsKey # None THEN optionsKey ELSE contractKey

\* ingest_batch: the child contract gets a key of its own, and is then run
\* under the options of the parent.
BatchKey(b) ==
    EffectiveKey(OptionsKey, IF OptionsKey # None THEN <<OptionsKey, b>> ELSE None)

ChildRow(e, s) == RunLogRow(<<e, Current>>, BatchKey(Current), s)

Init ==
    /\ source = 0
    /\ offsets = <<>>
    /\ commits = 0
    /\ target = [n \in Row |-> 0]
    /\ runs = {}
    /\ streams = [e \in Run |-> None]
    /\ pc = [e \in Run |-> "idle"]
    /\ upto = [e \in Run |-> 0]
    /\ status = [e \in Run |-> "SUCCESS"]

-----------------------------------------------------------------------------
(* The execution and its query *)

\* The RUNNING row, then the start of the query.
Start(e) ==
    /\ pc[e] = "idle"
    /\ \A f \in Run: pc[f] \notin Alive
    /\ Goto(e, "streaming")
    /\ upto' = [upto EXCEPT ![e] = source]
    /\ streams' = [streams EXCEPT ![e] = IF e \in DryRun THEN None ELSE "RUNNING"]
    /\ UNCHANGED <<source, checkpoint, target, runs, status>>

\* Spark finds a planned batch without a commit and runs it again.
ReplayBatch(e) ==
    /\ pc[e] = "streaming"
    /\ commits < Len(offsets)
    /\ Goto(e, "batch")
    /\ UNCHANGED <<source, checkpoint, target, tables, upto, status>>

\* Spark plans the next batch out of the rows that were available at the start.
PlanBatch(e) ==
    /\ pc[e] = "streaming"
    /\ commits = Len(offsets)
    /\ \E end \in Row:
          /\ End(commits) < end /\ end <= End(commits) + MaxBatch /\ end <= upto[e]
          /\ offsets' = Append(offsets, end)
    /\ Goto(e, "batch")
    /\ UNCHANGED <<source, commits, target, tables, upto, status>>

\* awaitTermination returns.
Exhausted(e) ==
    /\ pc[e] = "streaming"
    /\ commits = Len(offsets) /\ End(commits) >= upto[e]
    /\ Goto(e, "stopping")
    /\ UNCHANGED <<source, checkpoint, target, tables, upto, status>>

-----------------------------------------------------------------------------
(* process_batch and the ingestion of the batch *)

\* The idempotency look-up of the child run.
CheckBatch(e) ==
    LET key     == BatchKey(Current)
        guarded == key # None /\ Policy # "always_run"
        found   == guarded /\ FindIdempotentRun(runs, key) # {}
    IN  /\ pc[e] = "batch"
        /\ Goto(e, IF ~found THEN "checked"
                   ELSE IF Policy = "fail_if_success" THEN "failing" ELSE "skipping")
        /\ UNCHANGED <<source, checkpoint, target, tables, upto, status>>

SkipBatch(e) ==
    /\ pc[e] = "skipping"
    /\ Goto(e, "returned")
    /\ runs' = IF e \in DryRun THEN runs ELSE runs \cup {ChildRow(e, "SKIPPED")}
    /\ UNCHANGED <<source, checkpoint, target, streams, upto, status>>

\* A dry run returns after the schema preview.
PreviewBatch(e) ==
    /\ pc[e] = "checked" /\ e \in DryRun
    /\ Goto(e, "returned")
    /\ UNCHANGED <<source, checkpoint, target, tables, upto, status>>

WriteBatch(e) ==
    /\ pc[e] = "checked" /\ e \notin DryRun
    /\ Goto(e, "written")
    /\ target' = [n \in Row |-> IF n \in BatchRows THEN target[n] + 1 ELSE target[n]]
    /\ UNCHANGED <<source, checkpoint, tables, upto, status>>

LogBatch(e) ==
    /\ pc[e] = "written"
    /\ Goto(e, "logged")
    /\ runs' = runs \cup {ChildRow(e, "SUCCESS")}
    /\ UNCHANGED <<source, checkpoint, target, streams, upto, status>>

\* The state row and the hooks are through, the result is not FAILED.
ReturnBatch(e) ==
    /\ pc[e] = "logged"
    /\ Goto(e, "returned")
    /\ UNCHANGED <<source, checkpoint, target, tables, upto, status>>

RaiseInBatch(e) ==
    /\ MayFail
    /\ pc[e] \in InBatch \ {"failing"}
    /\ Goto(e, "failing")
    /\ UNCHANGED <<source, checkpoint, target, tables, upto, status>>

\* Mutant: a failed batch is tried again by the callback.
RetryBatch(e) ==
    /\ pc[e] = "failing"
    /\ Goto(e, "batch")
    /\ UNCHANGED <<source, checkpoint, target, tables, upto, status>>

\* The FAILED result, or an exception of the failure path itself, makes the
\* callback raise; the query dies with it.
FailBatch(e) ==
    /\ pc[e] = "failing"
    /\ Goto(e, "stopping")
    /\ status' = [status EXCEPT ![e] = "FAILED"]
    /\ \/ runs' = IF e \in DryRun THEN runs ELSE runs \cup {ChildRow(e, "FAILED")}
       \/ MayFail /\ runs' = runs
    /\ UNCHANGED <<source, checkpoint, target, streams, upto>>

\* Spark writes the commit log once the callback returned.
CommitBatch(e) ==
    /\ pc[e] = "returned"
    /\ Goto(e, "streaming")
    /\ commits' = commits + 1
    /\ UNCHANGED <<source, offsets, target, tables, upto, status>>

-----------------------------------------------------------------------------
(* The end of an execution, and the environment *)

\* The query itself fails: a reader, the cluster, the checkpoint.
QueryFails(e) ==
    /\ MayFail
    /\ pc[e] \in {"streaming", "returned"}
    /\ Goto(e, "stopping")
    /\ status' = [status EXCEPT ![e] = "FAILED"]
    /\ UNCHANGED <<source, checkpoint, target, tables, upto>>

\* Mutant: the finish statement always reports SUCCESS.
FinishAsSuccess(e) ==
    /\ pc[e] = "stopping"
    /\ Goto(e, "done")
    /\ streams' = [streams EXCEPT ![e] = IF e \in DryRun THEN None ELSE "SUCCESS"]
    /\ UNCHANGED <<source, checkpoint, target, runs, upto, status>>

\* finish_stream_log.
Finish(e) ==
    /\ pc[e] = "stopping"
    /\ Goto(e, "done")
    /\ streams' = [streams EXCEPT ![e] = IF e \in DryRun THEN None ELSE status[e]]
    /\ UNCHANGED <<source, checkpoint, target, runs, upto, status>>

\* The driver dies, or a statement outside the try block raises.
Crash(e) ==
    /\ MayFail
    /\ pc[e] \in Alive
    /\ Goto(e, "crashed")
    /\ UNCHANGED <<source, checkpoint, target, tables, upto, status>>

Arrive ==
    /\ source < MaxRow
    /\ source' = source + 1
    /\ UNCHANGED <<checkpoint, target, tables, pc, upto, status>>

Finished ==
    /\ \A e \in Run: pc[e] \in Terminal
    /\ source = MaxRow
    /\ UNCHANGED vars

Step(e) ==
    \/ ReplayBatch(e) \/ PlanBatch(e) \/ Exhausted(e)
    \/ CheckBatch(e) \/ SkipBatch(e) \/ PreviewBatch(e) \/ WriteBatch(e)
    \/ LogBatch(e) \/ ReturnBatch(e) \/ FailBatch(e) \/ CommitBatch(e) \/ Finish(e)

Next ==
    \/ \E e \in Run: Start(e) \/ Step(e) \/ RaiseInBatch(e) \/ QueryFails(e) \/ Crash(e)
    \/ Arrive \/ Finished

Spec == Init /\ [][Next]_vars

\* The driver and Spark go on with a live execution.
FairSpec == Spec /\ \A e \in Run: WF_vars(Step(e))

-----------------------------------------------------------------------------

\* The types, and the shape of the checkpoint that Spark guarantees.
TypeOK ==
    /\ source \in 0..MaxRow
    /\ offsets \in Seq(Row)
    /\ commits \in 0..Len(offsets) /\ Len(offsets) <= commits + 1
    /\ target \in [Row -> Nat]
    /\ streams \in [Run -> {None, "RUNNING", "SUCCESS", "FAILED"}]
    /\ pc \in [Run -> Pc]
    /\ upto \in [Run -> 0..MaxRow]
    /\ status \in [Run -> {"SUCCESS", "FAILED"}]

Delivered == {n \in Row: target[n] > 0}

\* What the checkpoint has passed is in the target: a row is consumed only
\* together with its delivery.
ConsumedIsDelivered == 1..End(commits) \subseteq Delivered

\* A row has a second copy only through an execution that broke down: every
\* further copy costs one failed or crashed execution.
EveryCopyCostsAFailure ==
    \A n \in Row:
        target[n] <= 1 + Cardinality({e \in Run: pc[e] = "crashed" \/ status[e] = "FAILED"})

\* An execution that reports SUCCESS has taken the checkpoint past every row
\* that was available when it started.
SuccessMeansCaughtUp ==
    \A e \in Run: streams[e] = "SUCCESS" => End(commits) >= upto[e]

\* A committed batch has a child run that ended well: a batch whose only runs
\* FAILED is never passed over.
CommitsHaveEvidence ==
    DryRun = {} =>
        \A b \in 1..commits:
            \E row \in runs: row.run[2] = b /\ row.status \in {"SUCCESS", "SKIPPED"}

\* Every execution ends once it has started.
EveryStreamEnds == \A e \in Run: pc[e] = "streaming" ~> pc[e] \in Terminal

-----------------------------------------------------------------------------
\* Without a key in force and outside dry runs the stream delivers at least once.

Delivery == INSTANCE AtLeastOnce WITH
    consumed  <- End(commits),
    delivered <- Delivered

DeliverySpec == Delivery!Spec

=============================================================================
