--------------------------- MODULE PlatformTables ----------------------------
(***************************************************************************)
(* What the batch runners of the Snowflake, Fabric and AWS adapters and    *)
(* the window loop of the Databricks adapter have in common: a source that *)
(* grows, a target that rows are appended to, quality rules that split the *)
(* rows, and the control tables.  Snowflake, Fabric and AWS append to the  *)
(* state table where Databricks overwrites one row.  Each runner is a      *)
(* module of its own over these variables; Platforms puts them together.   *)
(* A row of the source is its position in the order of the watermark       *)
(* column.  Rows are appended, so a row written twice stays visible.       *)
(***************************************************************************)
EXTENDS ControlTables, Sequences, FiniteSets

CONSTANTS MaxRow,      \* bound of the source
          MaxTime,     \* bound of the clock
          Contracts    \* the data contracts that an instance looks at

Row == 1..MaxRow

Severity == {"warn", "quarantine", "abort"}

Policy == {"always_run", "skip_if_success", "fail_if_success"}

\* A quality rule: the rows that fail it, what a failure leads to, and whether
\* it is a SQL expression, which AWS evaluates apart from its other rules.
Rule == [severity: Severity, bad: SUBSET Row, expression: BOOLEAN]

\* What a contract says to the runners: its rules in the order of the YAML,
\* the idempotency policy of its key (no key: always_run), whether the target
\* is locked, and whether the source is an available-now stream.
Contract == [rules: Seq(Rule), policy: Policy, lock: BOOLEAN, stream: BOOLEAN]

ASSUME ContractsAssumption == Contracts \subseteq Contract
ASSUME MaxRowAssumption == MaxRow \in Nat
ASSUME MaxTimeAssumption == MaxTime \in Nat

VARIABLES
    platform,      \* the runner whose execution this is
    contract,      \* the contract it runs
    source,        \* rows 1..source have arrived
    wrote,         \* the target: the rows that each run appended
    quarantined,   \* ctrl_ingestion_quarantine: the rows each run put aside
    lock,          \* the target's row of ctrl_ingestion_locks
    now,           \* current_timestamp()
    lease,         \* when the lease each run's MERGE obtained runs out; 0: none
    stateLog,      \* ctrl_ingestion_state, in the order of last_updated_at_utc
    runLog,        \* ctrl_ingestion_runs
    bookmark,      \* the position of the bookmark, or of the stream's commit log
    planned,       \* the position of the stream's offset log
    staged,        \* the rows at the path where Fabric materializes its stream
    reads,         \* whether the run's dataframe reads that path
    pc,            \* where each run is
    held,          \* the runner's local that makes its finally block release
    low,           \* the rows up to here are filtered out of the run's source
    base,          \* the state rows that existed when the run read its state
    top,           \* the rows that had arrived when the run first looked
    step,          \* the quality rule, or the window, the run is at
    applied,       \* the rules whose failing rows the run filters out
    cand,          \* the watermark candidate of the run
    late           \* rows that came, or that another run cleared away, while a
                   \* run was between two evaluations of its source

given == <<platform, contract>>
data == <<given, source, wrote, quarantined>>
locking == <<lock, lease, held>>
progress == <<bookmark, planned, staged, reads>>
control == <<locking, now, stateLog, runLog, progress>>
locals == <<low, base, top, step, applied, cand>>
vars == <<data, control, pc, locals, late>>

Goto(r, label) == pc' = [pc EXCEPT ![r] = label]

StateRow == [run: Run, status: Status, watermark: Row \cup {None}]

\* "part" numbers the window of a windowed run; 0: the run is not a window.
RunRow == [run: Run, status: Status, part: Nat]

\* The tables and locals before the first execution of a runner.
Fresh(p, contracts) ==
    /\ platform = p
    /\ contract \in contracts
    /\ source = 0
    /\ wrote = [r \in Run |-> {}]
    /\ quarantined = [r \in Run |-> {}]
    /\ lock = NoLockRow
    /\ now = 0
    /\ lease = [r \in Run |-> 0]
    /\ stateLog = <<>>
    /\ runLog = {}
    /\ bookmark = 0
    /\ planned = 0
    /\ staged = {}
    /\ reads = [r \in Run |-> FALSE]
    /\ pc = [r \in Run |-> "idle"]
    /\ held = [r \in Run |-> FALSE]
    /\ low = [r \in Run |-> 0]
    /\ base = [r \in Run |-> 0]
    /\ top = [r \in Run |-> 0]
    /\ step = [r \in Run |-> 1]
    /\ applied = [r \in Run |-> {}]
    /\ cand = [r \in Run |-> None]
    /\ late = {}

\* A row arrives at the source.
Arrive ==
    /\ source < MaxRow
    /\ source' = source + 1
    /\ UNCHANGED <<given, wrote, quarantined, control, pc, locals, late>>

\* Time passes; only the lock looks at it.
Tick ==
    /\ contract.lock /\ now < MaxTime
    /\ now' = now + 1
    /\ UNCHANGED <<data, locking, stateLog, runLog, progress, pc, locals, late>>

\* The process dies between two statements.
Crash(r) ==
    /\ pc[r] \notin {"idle", "done", "leaked", "crashed"}
    /\ Goto(r, "crashed")
    /\ UNCHANGED <<data, control, locals, late>>

-----------------------------------------------------------------------------
(* The source as a run sees it *)

\* The rows of the first n that fail a rule which the run filters by.
Filtered(r, n) == {m \in 1..n: \E i \in applied[r]: m \in contract.rules[i].bad}

\* Mutant: >= instead of > in the watermark filter.
ViewInclusive(r, n) == {m \in 1..n: m >= low[r]} \ Filtered(r, n)

\* The rows that the run's source query returns when n rows have arrived.
View(r, n) == (low[r] + 1)..n \ Filtered(r, n)

\* The rows of that view which fail the rule the run is at.
Failing(r, n) == View(r, n) \cap contract.rules[step[r]].bad

\* MAX of a set of watermark values: NULL over no rows.
MaxWatermark(S) == IF S = {} THEN None ELSE CHOOSE n \in S: \A m \in S: m <= n

\* The rows that arrived since the run first looked at its source.
Arrived(r) == (top[r] + 1)..source

-----------------------------------------------------------------------------
(* State log *)

Successes(n) == {i \in 1..n: stateLog[i].status = "SUCCESS"}

\* The watermark that the first n state rows offer to the next run.
WatermarkAt(n) ==
    LET found == MaxWatermark(Successes(n))
    IN IF found = None THEN None ELSE stateLog[found].watermark

AppendState(r, status, watermark) ==
    stateLog' = Append(stateLog, [run |-> r, status |-> status, watermark |-> watermark])

LogRun(r, status, part) ==
    runLog' = runLog \cup {[run |-> r, status |-> status, part |-> part]}

-----------------------------------------------------------------------------
(* What the runners that append to the state table have in common *)

Runners == {"snowflake", "fabric", "aws"}

\* Every variable has the type its table or local gives it.
TypeOK ==
    /\ platform \in Runners \cup {"databricks"}
    /\ source \in 0..MaxRow
    /\ wrote \in [Run -> SUBSET Row] /\ quarantined \in [Run -> SUBSET Row]
    /\ lock \in LockRow /\ now \in Nat /\ lease \in [Run -> Nat] /\ held \in [Run -> BOOLEAN]
    /\ stateLog \in Seq(StateRow) /\ runLog \subseteq RunRow
    /\ bookmark \in 0..MaxRow /\ planned \in 0..MaxRow
    /\ staged \subseteq Row /\ reads \in [Run -> BOOLEAN]
    /\ low \in [Run -> 0..MaxRow] /\ top \in [Run -> 0..MaxRow]
    /\ base \in [Run -> Nat] /\ step \in [Run -> Nat \ {0}]
    /\ applied \in [Run -> SUBSET Nat] /\ cand \in [Run -> Row \cup {None}]
    /\ late \subseteq Row

\* Every row is in the target or was put aside as a bad one.
Accounted == UNION {wrote[r] \cup quarantined[r]: r \in Run}

Streaming == platform \in Runners /\ contract.stream

\* The rows that runs without a success have taken off the stream.
InHand ==
    UNION {(low[r] + 1)..top[r]: r \in {q \in Run: \A row \in runLog:
                                            row.run = q => row.status # "SUCCESS"}}

\* The watermark that the state table offers to the next run passes over a
\* row that no run wrote or quarantined only if the row arrived while a run
\* was between two evaluations of its source, or if a run that did not succeed
\* has taken it off a stream.
WatermarkCoversDelivery ==
    platform \in Runners /\ WatermarkAt(Len(stateLog)) # None
    => 1..WatermarkAt(Len(stateLog)) \subseteq
           Accounted \cup late \cup (IF Streaming THEN InHand ELSE {})

\* A Fabric notebook takes its rows off the stream before it writes them, and
\* the next notebook clears them away.  A row that the checkpoint passed is
\* missing only if the run that took it did not succeed, or if another run came
\* between: with a lock, only after a lease has lapsed.
CheckpointLosesOnlyLostRuns ==
    platform = "fabric" /\ Streaming =>
        /\ 1..bookmark \subseteq Accounted \cup InHand \cup late
        /\ contract.lock /\ late # {} => \E r \in Run: lease[r] # 0 /\ lease[r] < now

\* A row that fails an abort or a quarantine rule gets into the target only if
\* it arrived after the run had started to count, and no run puts a row both
\* into the target and into quarantine, in whichever order a runner evaluates
\* the rules.  (A row that an abort rule refuses does not always abort the run:
\* it may be in quarantine by the time the rule is evaluated.)
GateHolds ==
    platform \in Runners =>
        \A r \in Run:
            /\ wrote[r] \cap quarantined[r] = {}
            /\ \A i \in DOMAIN contract.rules:
                  contract.rules[i].severity # "warn"
                  => wrote[r] \cap contract.rules[i].bad \subseteq late

\* A run is logged as SUCCESS only after its state row, and when each row that
\* it found at its start, or took off the stream, has gone to the target or into
\* quarantine, unless another run cleared it away.
SuccessAccountsForItsRows ==
    platform \in Runners =>
        \A row \in runLog: row.status = "SUCCESS" =>
            /\ \E i \in Successes(Len(stateLog)): stateLog[i].run = row.run
            /\ (low[row.run] + 1)..top[row.run] \subseteq
                   wrote[row.run] \cup quarantined[row.run] \cup (IF Streaming THEN late ELSE {})

\* A row is written twice only by two runs neither of which found the other's
\* success in the state table, or after a success that stored a NULL or a
\* lower watermark: an idle run forgets the watermark.
Reset(n) ==
    \E i, j \in Successes(n):
        /\ i < j /\ stateLog[i].watermark # None
        /\ stateLog[j].watermark = None \/ stateLog[j].watermark < stateLog[i].watermark

Found(a, b) == \E i \in Successes(base[b]): stateLog[i].run = a

CopiesNeedOverlapOrReset ==
    platform = "snowflake" =>
        \A a, b \in Run:
            a # b /\ wrote[a] \cap wrote[b] # {}
            => \/ ~Found(a, b) /\ ~Found(b, a)
               \/ Reset(base[a]) \/ Reset(base[b])

\* The runs that were told they own the target, and have not left.
Told == {r \in Run: held[r] /\ pc[r] \notin {"crashed", "leaked", "released"}}

\* Both lock protocols keep the promise of a lease.
Lease == INSTANCE TargetLease WITH
    holder <- IF lock.status = "ACTIVE" THEN lock.run ELSE None,
    told   <- Told,
    lapsed <- {r \in Run: lease[r] # 0 /\ lease[r] < now}

LeaseSpec == Lease!Spec

\* The Glue bookmark, and the checkpoint of a Glue stream, deliver at least once:
\* they pass a row only when it is in the target or in quarantine, and neither is
\* taken back.  (Fabric's checkpoint does not: CheckpointLosesOnlyLostRuns.)
Delivery == INSTANCE AtLeastOnce WITH
    consumed  <- IF platform = "fabric" THEN 0 ELSE bookmark,
    delivered <- Accounted

BookmarkDelivers == Delivery!Spec

=============================================================================
