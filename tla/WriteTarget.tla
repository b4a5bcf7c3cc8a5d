----------------------------- MODULE WriteTarget -----------------------------
(***************************************************************************)
(* What the write modes of the Databricks, Fabric, AWS and Snowflake       *)
(* adapters have in common: a target of rows with a merge key, a source    *)
(* that another system changes, and the statements of the write.  The      *)
(* source is a lazy dataframe, a view or a subquery on every platform, so  *)
(* each statement evaluates it anew; nothing holds it still between the    *)
(* key guard of a run and its MERGE.  The platforms' statements are        *)
(* external: a statement is one step, which commits whole or raises.       *)
(*                                                                         *)
(* Each adapter is a module of its own over these variables; TargetWrites  *)
(* puts them together.                                                     *)
(***************************************************************************)
EXTENDS Naturals, FiniteSets

CONSTANTS
    Run,
    Key,           \* the values of the merge key, Null among them if it occurs
    Val,           \* the values of the other columns
    Null,          \* SQL NULL
    Partition(_),  \* the partition column, one of the other columns; may be Null
    Sources,       \* the contents the source may have
    Contracts,     \* the contracts that an instance looks at
    MaxChange,     \* bound on the changes of the source
    MaxStart,      \* bound on the executions
    MaxAttempts    \* retry_attempts

SourceRow == [key: Key, val: Val]

\* "born" tells the copies of a row apart: the commit that inserted it, and
\* the source row it inserted.  "active" is the is_active of a snapshot.
TargetRow == [key: Key, val: Val, active: BOOLEAN, born: (Nat \ {0}) \X SourceRow]

Engine == {"databricks", "fabric", "aws", "snowflake"}

\* The two merge strategies of scd1_upsert that look at partitions are modes
\* of their own: partition (delta_by_partition) and replace (replace_partitions).
Mode == {"append", "overwrite", "upsert", "hash_diff", "snapshot", "partition", "replace"}

\* What matters on Databricks only: "metrics", the prepared rows are counted;
\* "ruled", a unique_key rule on the merge keys; "ordered", a column of the
\* target orders the versions of a key.
Contract == [engine: Engine, mode: Mode, metrics: BOOLEAN, ruled: BOOLEAN, ordered: BOOLEAN]

ASSUME SourcesAssumption == \A rs \in Sources: rs \subseteq SourceRow /\ IsFiniteSet(rs)
ASSUME ContractsAssumption == Contracts \subseteq Contract
ASSUME BoundsAssumption == {MaxChange, MaxStart} \subseteq Nat /\ MaxAttempts \in Nat \ {0}

VARIABLES
    contract,   \* the contract of the target's runs
    source,     \* what a statement that reads the source finds
    changes,    \* how often the source changed
    exists,     \* the target's table is in the catalog
    rows,       \* the rows of the target
    commits,    \* how many commits the target has had
    starts,     \* how many executions have started
    pc,         \* where each run is
    counted,    \* rows_read of each run
    trusted,    \* the run's unique_key rule passed
    scope,      \* the partition values of the run's predicate
    scanned,    \* the rows an INSERT has selected and not committed
    compared,   \* df has been bound to the comparison with the target
    attempt,    \* the attempt of with_delta_retry the run is at
    guarded,    \* history: "changes" when the run first checked its keys
    clean,      \* history: nothing else changed source or target since the start
    settled,    \* history: the source whose undisturbed write came last, in a set
    measured    \* what df holds after the write

table == <<exists, rows, commits>>
locals == <<counted, trusted, scope, scanned, compared, attempt>>
history == <<guarded, clean, settled, measured>>
vars == <<contract, source, changes, table, starts, pc, locals, history>>

Goto(r, label) == pc' = [pc EXCEPT ![r] = label]

Ended == {"idle", "done", "skipped", "failed"}

\* Nothing has been written yet.
Empty ==
    /\ changes = 0
    /\ exists = FALSE
    /\ rows = {}
    /\ commits = 0
    /\ starts = 0
    /\ pc = [r \in Run |-> "idle"]
    /\ counted = [r \in Run |-> 0]
    /\ trusted = [r \in Run |-> FALSE]
    /\ scope = [r \in Run |-> {}]
    /\ scanned = [r \in Run |-> {}]
    /\ compared = [r \in Run |-> FALSE]
    /\ attempt = [r \in Run |-> 1]
    /\ guarded = [r \in Run |-> 0]
    /\ clean = [r \in Run |-> FALSE]
    /\ settled = {}
    /\ measured = [r \in Run |-> {}]

Init == contract \in Contracts /\ source \in Sources /\ Empty

\* The system that owns the source changes it.
Change ==
    /\ changes < MaxChange
    /\ changes' = changes + 1
    /\ source' \in Sources \ {source}
    /\ clean' = [r \in Run |-> FALSE]
    /\ UNCHANGED <<contract, table, starts, pc, locals, guarded, settled, measured>>

\* An execution begins, with its first look at the source.
Begin(r, label) ==
    /\ pc[r] \in Ended
    /\ starts < MaxStart
    /\ starts' = starts + 1
    /\ Goto(r, label)
    /\ counted' = [counted EXCEPT ![r] = IF contract.metrics THEN Cardinality(source) ELSE 0]
    /\ scope' = [scope EXCEPT ![r] = {}]
    /\ scanned' = [scanned EXCEPT ![r] = {}]
    /\ compared' = [compared EXCEPT ![r] = FALSE]
    /\ attempt' = [attempt EXCEPT ![r] = 1]
    /\ guarded' = [guarded EXCEPT ![r] = changes]
    /\ clean' = [clean EXCEPT ![r] = TRUE]
    /\ measured' = [measured EXCEPT ![r] = {}]
    /\ UNCHANGED <<contract, source, changes, rows, commits, settled>>

-----------------------------------------------------------------------------
(* Predicates of the statements *)

NullKeys == {s \in source: s.key = Null}

DuplicateKeys == \E s, t \in source: s # t /\ s.key = t.key

\* Databricks joins on <=>, for which NULL equals NULL; the others on =.
Same(t, s) == t.key = s.key /\ (s.key = Null => contract.engine = "databricks")

\* row_hash covers the columns that are not merge keys.
Differs(t, s) == t.val # s.val

\* The comparison of hash-diff: source LEFT JOIN target, where no target row
\* is joined or its hash differs.
Changed(s) == {t \in rows: Same(t, s) /\ Differs(t, s)}

Candidates == {s \in source: Changed(s) # {} \/ \A t \in rows: ~Same(t, s)}

\* A source row that joins several target rows is a candidate several times.
CandidateTwice == \E s \in source: Cardinality(Changed(s)) > 1

\* A statement looks at the source and either goes on or fails the run.
Check(r, from, bad, to) ==
    /\ pc[r] = from
    /\ Goto(r, IF bad THEN "failed" ELSE to)
    /\ guarded' = [guarded EXCEPT ![r] = IF from = "nulls" /\ ~trusted[r] THEN changes ELSE @]
    /\ UNCHANGED <<contract, source, changes, table, starts, locals, clean, settled, measured>>

-----------------------------------------------------------------------------
(* Statements that commit *)

Inserted(s) == [key |-> s.key, val |-> s.val, active |-> TRUE, born |-> <<commits + 1, s>>]

InsertedAll(new) == {Inserted(s): s \in new}

Updated(t, s) == [t EXCEPT !.val = s.val, !.active = TRUE]

\* MERGE: "on" matches target and source rows, "when" is the condition of
\* WHEN MATCHED THEN UPDATE, the rest is WHEN NOT MATCHED THEN INSERT.
Merged(new, On(_, _), When(_, _)) ==
    {IF \E s \in new: On(t, s) /\ When(t, s)
     THEN Updated(t, CHOOSE s \in new: On(t, s) /\ When(t, s))
     ELSE t: t \in rows}
    \cup InsertedAll({s \in new: \A t \in rows: ~On(t, s)})

\* A MERGE raises if two source rows update one target row.
Ambiguous(new, On(_, _), When(_, _)) ==
    \E t \in rows: \E s, u \in new:
       s # u /\ On(t, s) /\ On(t, u) /\ When(t, s) /\ When(t, u)

\* The commit of a run leaves the rows "new" and the run at "label".
Commit(r, new, label) ==
    /\ exists' = TRUE
    /\ rows' = new
    /\ commits' = commits + 1
    /\ clean' = [x \in Run |-> clean[x] /\ (x = r \/ new = rows)]
    /\ settled' = IF clean[r] THEN {source} ELSE IF new = rows THEN settled ELSE {}
    /\ Goto(r, label)

\* A statement or the driver raises, and the run fails.
Fail(r) ==
    /\ pc[r] \notin Ended
    /\ Goto(r, "failed")
    /\ UNCHANGED <<contract, source, changes, table, starts, locals, history>>

=============================================================================
