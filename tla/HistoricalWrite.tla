--------------------------- MODULE HistoricalWrite ---------------------------
(***************************************************************************)
(* The historical (scd2_historical) write of the Databricks adapter:       *)
(* validate_merge_source_safety, then execute_scd2_merge under             *)
(* with_delta_retry, by executions that may interleave.  The write is not  *)
(* one commit: deletes are merged first; the changed rows are merged after *)
(* that, out of a temporary view that reads the target when the second     *)
(* MERGE runs.  A failure in between, or after the second MERGE, starts    *)
(* the whole write again or fails the run.                                 *)
(*                                                                         *)
(* Time is counted in commits of the target: the clock reads commits + 1   *)
(* in the MERGE that makes the next one.  valid_to is the time of the      *)
(* MERGE.  valid_from is not: it is a column of the source, or the         *)
(* current_timestamp() of the prepared view, which is evaluated at some    *)
(* time between the preparation and the MERGE.  row_hash stands for the    *)
(* values of the change columns.  A MERGE is one step: Delta commits it    *)
(* whole, or raises it as a conflict.                                      *)
(***************************************************************************)
EXTENDS Naturals

CONSTANTS
    Run,
    Key,           \* the values of the merge key, NullKey among them if it occurs
    NullKey,       \* SQL NULL, which <=> compares like a value
    Hash,
    MaxSeq,        \* bound of scd2_sequence_by; 0 stands for NULL
    Batch,         \* the prepared source views: sets of source rows
    Preflight,     \* query_one is configured and the prepared rows were counted
    MaxAttempts,   \* retry_attempts of the contract each run was deployed with
    MayRaise,      \* whether statements may raise in this instance
    None

\* since is the value of scd2_effective_from_column, 0 if it does not cast.
SourceRow == [key: Key, hash: Hash, seq: 0..MaxSeq, since: Nat, delete: BOOLEAN]

\* from and to are valid_from and valid_to; to = 0 is is_current.  born is the
\* commit that inserted the row, which the table's history tells.
Version == [key: Key, hash: Hash, seq: 0..MaxSeq, born: Nat \ {0}, from: Nat, to: Nat]

ASSUME BatchAssumption == Batch \subseteq SUBSET SourceRow
ASSUME NoneAssumption == None \notin Version
ASSUME MaxAssumption == MaxSeq \in Nat /\ MaxAttempts \in [Run -> Nat \ {0}]
ASSUME FlagsAssumption == Preflight \in BOOLEAN /\ MayRaise \in BOOLEAN

VARIABLES
    policy,     \* scd2_late_arriving_policy of the contract
    effective,  \* whether the contract has a scd2_effective_from_column
    versions,   \* the rows of the target
    commits,    \* how many commits changed the target
    pc,
    batch,      \* the source view of each run
    staged,     \* the time at which each run had prepared its view
    attempt,    \* the attempt of with_delta_retry each run is at
    clean,      \* history: no other run changed the target since the attempt began
    applied     \* history: the batch whose undisturbed write came last, or {}

table == <<versions, commits>>
contract == <<policy, effective>>
vars == <<contract, table, pc, batch, staged, attempt, clean, applied>>

Pc == {"idle", "deleting", "merging", "dropping", "done", "failed"}

Goto(r, label) == pc' = [pc EXCEPT ![r] = label]

Init ==
    /\ policy \in {"apply", "ignore", "reject"}
    /\ effective \in BOOLEAN
    /\ versions = {}
    /\ commits = 0
    /\ pc = [r \in Run |-> "idle"]
    /\ batch = [r \in Run |-> {}]
    /\ staged = [r \in Run |-> 0]
    /\ attempt = [r \in Run |-> 1]
    /\ clean = [r \in Run |-> TRUE]
    /\ applied = {}

-----------------------------------------------------------------------------
(* Preparation of the view and validate_merge_source_safety, before the retries *)

DuplicateKeys(b) == \E s, t \in b: s # t /\ s.key = t.key

\* Mutant: the duplicate probe is left out.
UnsafeIfNull(b) == b # {} /\ \A s \in b: s.key = NullKey

Unsafe(b) == b # {} /\ ((\A s \in b: s.key = NullKey) \/ DuplicateKeys(b))

Start(r) ==
    /\ pc[r] = "idle"
    /\ \E b \in Batch:
          /\ batch' = [batch EXCEPT ![r] = b]
          /\ Goto(r, IF Preflight /\ Unsafe(b) THEN "failed" ELSE "deleting")
    /\ staged' = [staged EXCEPT ![r] = commits]
    /\ clean' = [clean EXCEPT ![r] = TRUE]
    /\ UNCHANGED <<contract, table, attempt, applied>>

-----------------------------------------------------------------------------
(* The SQL of the write, over the versions a statement sees *)

Current == {v \in versions: v.to = 0}

\* target_current joined to the left of some source rows.
Joined(rows) ==
    {j \in rows \X Current: j[1].key = j[2].key}
    \cup {<<s, None>>: s \in {s \in rows: \A v \in Current: s.key # v.key}}

\* Mutant: a row as old as the version is not late.
LateIfOlder(j) == j[2] # None /\ j[2].seq # 0 /\ j[1].seq < j[2].seq

\* late_arriving_condition: a NULL sequence of the source is late, one of the
\* target makes nothing late.
Late(j) == j[2] # None /\ j[2].seq # 0 /\ j[1].seq <= j[2].seq

Rejected(joined) == policy = "reject" /\ \E j \in joined: Late(j)

OnTime(joined) == {j \in joined: policy = "apply" \/ ~Late(j)}

\* The MERGE of the deletes: its source, and the versions it closes.
DeleteJoin(r) ==
    Joined({[key |-> s.key, seq |-> s.seq]: s \in {s \in batch[r]: s.delete}})

Deleted(r) == {v \in Current: \E j \in OnTime(DeleteJoin(r)): j[1].key = v.key}

\* Mutant: the delete rows are not filtered out of the staging view.
StageJoinOfAll(r) == Joined(batch[r])

\* The staging view of the upserts.  Each changed row is staged for insertion
\* under a NULL merge key, and again under its own if it has a current version.
StageJoin(r) == Joined({s \in batch[r]: ~s.delete})

\* Mutant: rows with the hash of the current version are staged as well.
ChangedOrNot(r) == OnTime(StageJoin(r))

Changed(r) == {j \in OnTime(StageJoin(r)): j[2] = None \/ j[1].hash # j[2].hash}

\* Mutant: the update side is left out.
StageInserts(r) == {[row |-> j, mergeKey |-> NullKey, side |-> "insert"]: j \in Changed(r)}

Stage(r) ==
    {[row |-> j, mergeKey |-> NullKey, side |-> "insert"]: j \in Changed(r)}
    \cup {[row |-> j, mergeKey |-> j[1].key, side |-> "update"]:
             j \in {j \in Changed(r): j[2] # None}}

\* The clause WHEN MATCHED AND t.row_hash <> s.row_hash.
Updates(x, v) == x.mergeKey = v.key /\ x.row[1].hash # v.hash

Expired(r) == {v \in Current: \E x \in Stage(r): Updates(x, v)}

\* The row that a source row becomes, in a view evaluated at "time".
NewVersion(s, time) ==
    [key |-> s.key, hash |-> s.hash, seq |-> s.seq,
     born |-> commits + 1, from |-> IF effective THEN s.since ELSE time, to |-> 0]

\* The clause WHEN NOT MATCHED.
Inserted(r, time) ==
    {NewVersion(x.row[1], time):
        x \in {x \in Stage(r): \A v \in Current: v.key # x.mergeKey}}

\* A MERGE raises when two source rows update one target row.
DeleteAmbiguous(r) ==
    \E v \in Deleted(r): \E j, k \in OnTime(DeleteJoin(r)):
       j # k /\ j[1].key = v.key /\ k[1].key = v.key

MergeAmbiguous(r) ==
    \E v \in Expired(r): \E x, y \in Stage(r): x # y /\ Updates(x, v) /\ Updates(y, v)

-----------------------------------------------------------------------------
(* execute_scd2_merge under with_delta_retry *)

Closing(hits) == {IF v \in hits THEN [v EXCEPT !.to = commits + 1] ELSE v: v \in versions}

\* One commit of r, which leaves the versions "new".
Commit(r, new) ==
    /\ versions' = new
    /\ commits' = IF new = versions THEN commits ELSE commits + 1
    /\ clean' = [x \in Run |-> clean[x] /\ (x = r \/ new = versions)]

\* Expires the current versions of the deleted keys; rows are not inserted.
DeleteMerge(r) ==
    /\ pc[r] = "deleting"
    /\ ~Rejected(DeleteJoin(r)) /\ ~DeleteAmbiguous(r)
    /\ Commit(r, Closing(Deleted(r)))
    /\ applied' = IF versions' = versions THEN applied ELSE {}
    /\ Goto(r, "merging")
    /\ UNCHANGED <<contract, batch, staged, attempt>>

\* The staging view is evaluated by the MERGE that reads it; the prepared view
\* below it may have been cached at any time since it was there.
Merge(r) ==
    /\ pc[r] = "merging"
    /\ ~Rejected(StageJoin(r)) /\ ~MergeAmbiguous(r)
    /\ \E time \in staged[r]..(commits + 1):
          Commit(r, Closing(Expired(r)) \cup Inserted(r, time))
    /\ applied' = IF clean[r] THEN batch[r] ELSE {}
    /\ Goto(r, "dropping")
    /\ UNCHANGED <<contract, batch, staged, attempt>>

DropStage(r) ==
    /\ pc[r] = "dropping"
    /\ Goto(r, "done")
    /\ UNCHANGED <<contract, table, batch, staged, attempt, clean, applied>>

\* Late rows under "reject" divide by zero in the guard of either statement.
StatementRaises(r) ==
    \/ MayRaise
    \/ pc[r] = "deleting" /\ (Rejected(DeleteJoin(r)) \/ DeleteAmbiguous(r))
    \/ pc[r] = "merging" /\ (Rejected(StageJoin(r)) \/ MergeAmbiguous(r))

\* A raised exception that looks like a conflict starts the write again from
\* the deletes, while attempts are left; any other one ends it.
Raise(r) ==
    /\ pc[r] \in {"deleting", "merging", "dropping"}
    /\ StatementRaises(r)
    /\ \/ /\ attempt[r] < MaxAttempts[r]
          /\ attempt' = [attempt EXCEPT ![r] = @ + 1]
          /\ clean' = [clean EXCEPT ![r] = TRUE]
          /\ Goto(r, "deleting")
       \/ /\ Goto(r, "failed")
          /\ UNCHANGED <<attempt, clean>>
    /\ UNCHANGED <<contract, table, batch, staged, applied>>

Next == \E r \in Run: Start(r) \/ DeleteMerge(r) \/ Merge(r) \/ DropStage(r) \/ Raise(r)

Spec == Init /\ [][Next]_vars

-----------------------------------------------------------------------------
(* Properties *)

(* The run variables, the versions and the history are of their types. *)
TypeOK ==
    /\ policy \in {"apply", "ignore", "reject"}
    /\ effective \in BOOLEAN
    /\ versions \subseteq Version
    /\ commits \in Nat
    /\ staged \in [Run -> Nat]
    /\ pc \in [Run -> Pc]
    /\ batch \in [Run -> Batch \cup {{}}]
    /\ attempt \in [Run -> Nat \ {0}]
    /\ clean \in [Run -> BOOLEAN]
    /\ applied \in Batch \cup {{}}

Precedes(v, w) == v.to # 0 /\ v.to <= w.born

(* One version of a key at a time: a version is inserted when no other one   *)
(* of its key is current, whatever runs interleave, fail and retry, so that  *)
(* they follow each other in the table's history.  The staging view promises *)
(* it for one MERGE; the MERGE of another run may come between the two of a  *)
(* write.  The windows that the rows state may still overlap, for valid_from *)
(* is older than the MERGE; but without a column for it none is inverted.    *)
OneVersionAtATime ==
    /\ \A v, w \in versions: v.key = w.key => v = w \/ Precedes(v, w) \/ Precedes(w, v)
    /\ ~effective => \A v \in versions: v.to # 0 => v.from < v.to

(* Under "ignore" and "reject" a version with a sequence is ended only by a  *)
(* run whose source has a newer row of the same key: neither an older delete *)
(* nor an older upsert may end it, however its write is split and retried.   *)
VersionsEndByNewerRows ==
    [][policy # "apply" =>
         \A v \in Current: v.seq # 0 /\ v \notin versions' =>
            \E r \in Run: /\ pc'[r] # pc[r]
                          /\ \E s \in batch[r]: s.key = v.key /\ s.seq > v.seq]_vars

\* A row took effect: its key is current with its values, or not at all if it
\* is a delete, unless "ignore" kept a version the row is late for.
Reflects(s) ==
    \/ policy = "ignore" /\ \E v \in Current: v.key = s.key /\ Late(<<s, v>>)
    \/ IF s.delete
       THEN \A v \in Current: v.key # s.key
       ELSE \E v \in Current: v.key = s.key /\ v.hash = s.hash

(* While nothing else was written since, every row of a batch whose write    *)
(* ended undisturbed is in effect: no new key and no change got lost between *)
(* the insert side and the update side of the staging view.                  *)
AppliedBatchIsCurrent == \A s \in applied: Reflects(s)

(* Writing the batch again that was written last changes nothing: a replay,  *)
(* or a retry after the commit, adds no version and ends none.               *)
ReplayAddsNothing ==
    [][\A r \in Run: pc[r] \in {"deleting", "merging"} /\ pc'[r] # pc[r]
                       /\ batch[r] = applied => versions' = versions]_vars

=============================================================================
