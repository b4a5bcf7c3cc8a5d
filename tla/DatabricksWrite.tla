--------------------------- MODULE DatabricksWrite ---------------------------
(***************************************************************************)
(* The write of a Databricks run, scd2_historical aside (HistoricalWrite): *)
(* the MERGE preflight, and execute_prepared_write under with_delta_retry. *)
(* The table is created before, and query_one is configured.               *)
(***************************************************************************)
EXTENDS WriteTarget

MERGE_WRITE_MODES == {"upsert", "partition", "replace", "snapshot"}

\* Where execute_prepared_write begins, with each attempt.
Attempt ==
    CASE contract.mode \in {"partition", "replace"} -> "scope"
      [] contract.mode = "hash_diff" -> "validate"
      [] OTHER -> "write"

\* Counting the prepared rows, the quality rules, CREATE TABLE IF NOT EXISTS.
\* The preflight is left out if no rows were counted.
Prepare(r) ==
    /\ LET checks == contract.mode \in MERGE_WRITE_MODES /\ contract.metrics /\ source # {}
       IN  Begin(r, IF checks THEN "nulls" ELSE Attempt)
    /\ exists' = TRUE
    /\ trusted' = [trusted EXCEPT ![r] = contract.ruled /\ ~DuplicateKeys]

\* Only a source whose keys are all NULL is refused.
CheckNulls(r) ==
    Check(r, "nulls", Cardinality(NullKeys) = counted[r],
          IF trusted[r] THEN Attempt ELSE "duplicates")

\* GROUP BY puts the rows with a NULL key into one group.
CheckDuplicates(r) == Check(r, "duplicates", DuplicateKeys, Attempt)

-----------------------------------------------------------------------------

PartitionsOf(rs) == {Partition(x.val): x \in rs} \ {Null}

\* collect_set over the source, for the predicate of either strategy; NULL is
\* not collected, and a predicate without values raises.
FindScope(r) ==
    /\ pc[r] = "scope"
    /\ scope' = [scope EXCEPT ![r] = PartitionsOf(source)]
    /\ Goto(r, IF PartitionsOf(source) = {} THEN "failed" ELSE "write")
    /\ UNCHANGED <<contract, source, changes, table, starts, counted, trusted, scanned,
                   compared, attempt, history>>

\* Mutant: keys are compared with =.
OnEqualKey(r, t, s) ==
    /\ Same(t, s) /\ s.key # Null
    /\ contract.mode = "partition" => Partition(t.val) \in scope[r]

\* The ON clause, with the target partition predicate if there is one.
OnKey(r, t, s) ==
    Same(t, s) /\ (contract.mode = "partition" => Partition(t.val) \in scope[r])

\* Mutant: a row that comes back stays inactive if its hash is the same.
WhenHashDiffers(t, s) == contract.mode = "snapshot" => Differs(t, s)

WhenMatched(t, s) == contract.mode = "snapshot" => Differs(t, s) \/ ~t.active

Deactivated(merged) ==
    {IF contract.mode = "snapshot" /\ \A s \in source: ~Same(t, s)
     THEN [t EXCEPT !.active = FALSE] ELSE t: t \in merged}

Merge(r) ==
    LET On(t, s) == OnKey(r, t, s)
    IN  /\ ~Ambiguous(source, On, WhenMatched)
        /\ Commit(r, Deactivated(Merged(source, On, WhenMatched)), "done")

\* REPLACE WHERE removes what the predicate selects; a new row outside of it
\* raises.
ReplacePartitions(r) ==
    /\ \A s \in source: Partition(s.val) \in scope[r]
    /\ Commit(r, {t \in rows: Partition(t.val) \notin scope[r]} \cup InsertedAll(source), "done")

\* The statement of the write, hash-diff aside.
Write(r) ==
    /\ pc[r] = "write"
    /\ \/ contract.mode = "append" /\ Commit(r, rows \cup InsertedAll(source), "done")
       \/ contract.mode = "overwrite" /\ Commit(r, InsertedAll(source), "done")
       \/ contract.mode \in {"upsert", "partition", "snapshot"} /\ Merge(r)
       \/ contract.mode = "replace" /\ ReplacePartitions(r)
    /\ UNCHANGED <<contract, source, changes, starts, locals, guarded, measured>>

-----------------------------------------------------------------------------
(* Hash-diff appends the rows that differ from the latest version *)

Versions(k) == {t \in rows: t.key = k}

\* Without a column that orders versions, a key must not have two of them.
Validate(r) ==
    /\ pc[r] = "validate"
    /\ LET unordered == ~contract.ordered /\ \E t \in rows: Cardinality(Versions(t.key)) > 1
       IN  Goto(r, IF unordered THEN "failed" ELSE "scan")
    /\ UNCHANGED <<contract, source, changes, table, starts, locals, history>>

Latest(k) == {t \in Versions(k): \A u \in Versions(k): u.born[1] <= t.born[1]}

\* The WHERE of the INSERT, given the versions it joins.  t.key IS NULL holds
\* for a key without a version and for a NULL key.
IsNew(s, latest) ==
    LET joined == {t \in latest: t.key = s.key}
    IN  s.key = Null \/ joined = {} \/ \E t \in joined: Differs(t, s)

\* One version of each key, any one among those of the last commit.
LatestChoices ==
    LET newest == UNION {Latest(t.key): t \in rows}
    IN  {c \in SUBSET newest: \A t \in newest: Cardinality({u \in c: u.key = t.key}) = 1}

\* The INSERT reads its source and the target's snapshot.  (A row that the
\* join lists twice, next to unordered versions, counts once here.)
Scan(r) ==
    /\ pc[r] = "scan"
    /\ \E latest \in (IF contract.ordered THEN LatestChoices ELSE {rows}):
          scanned' = [scanned EXCEPT ![r] = {s \in source: IsNew(s, latest)}]
    /\ Goto(r, "insert")
    /\ UNCHANGED <<contract, source, changes, table, starts, counted, trusted, scope,
                   compared, attempt, history>>

\* The INSERT commits its rows.  Whether Delta lets it pass if another commit
\* came in between depends on the isolation level.
Insert(r) ==
    /\ pc[r] = "insert"
    /\ Commit(r, rows \cup InsertedAll(scanned[r]), "done")
    /\ UNCHANGED <<contract, source, changes, starts, locals, guarded, measured>>

\* A conflict starts the write again, while attempts are left.
Retry(r) ==
    /\ pc[r] \in {"scope", "validate", "scan", "write", "insert"}
    /\ attempt[r] < MaxAttempts
    /\ attempt' = [attempt EXCEPT ![r] = @ + 1]
    /\ Goto(r, Attempt)
    /\ UNCHANGED <<contract, source, changes, table, starts, counted, trusted, scope, scanned,
                   compared, history>>

Next ==
    \E r \in Run:
       \/ Prepare(r) \/ CheckNulls(r) \/ CheckDuplicates(r) \/ FindScope(r) \/ Write(r)
       \/ Validate(r) \/ Scan(r) \/ Insert(r) \/ Retry(r) \/ Fail(r)

=============================================================================
