------------------------------ MODULE AwsWrite -------------------------------
(***************************************************************************)
(* The Iceberg write of a Glue job: the merge key guard, then create() if  *)
(* describing the table finds no schema, and append or MERGE if it does.   *)
(* Hash-diff binds df to the comparison with the target, and a count of 0  *)
(* ends the write as SKIPPED.  The watermark is a MAX over df.             *)
(***************************************************************************)
EXTENDS WriteTarget

Start(r) ==
    /\ Begin(r, CASE contract.mode = "append" -> "lookup"
                  [] contract.mode = "overwrite" -> "write"
                  [] OTHER -> "nulls")
    /\ UNCHANGED <<exists, trusted>>

CheckNulls(r) == Check(r, "nulls", NullKeys # {}, "duplicates")

CheckDuplicates(r) == Check(r, "duplicates", DuplicateKeys, "lookup")

\* _cf_describe_table_schema
DescribeTable(r) ==
    /\ pc[r] = "lookup"
    /\ Goto(r, IF ~exists THEN "create"
               ELSE IF contract.mode = "hash_diff" THEN "compare" ELSE "write")
    /\ UNCHANGED <<contract, source, changes, table, starts, locals, history>>

\* create() raises if the table has come into being since.
Create(r) ==
    /\ pc[r] = "create"
    /\ ~exists
    /\ Commit(r, InsertedAll(source), "written")
    /\ UNCHANGED <<contract, source, changes, starts, locals, guarded, measured>>

\* df becomes the candidates, and is counted.
Compare(r) ==
    /\ pc[r] = "compare"
    /\ compared' = [compared EXCEPT ![r] = TRUE]
    /\ Goto(r, IF Candidates = {} THEN "unchanged" ELSE "write")
    /\ UNCHANGED <<contract, source, changes, table, starts, counted, trusted, scope,
                   scanned, attempt, history>>

WhenMatched(t, s) == contract.mode = "hash_diff" => Differs(t, s)

\* The MERGE evaluates df again.
Merge(r) ==
    LET df == IF compared[r] THEN Candidates ELSE source
    IN  /\ ~Ambiguous(df, Same, WhenMatched)
        /\ compared[r] => ~CandidateTwice
        /\ Commit(r, Merged(df, Same, WhenMatched), "written")

\* append(), createOrReplace(), or the MERGE.
Write(r) ==
    /\ pc[r] = "write"
    /\ \/ contract.mode = "append" /\ Commit(r, rows \cup InsertedAll(source), "written")
       \/ contract.mode = "overwrite" /\ Commit(r, InsertedAll(source), "written")
       \/ contract.mode \in {"upsert", "hash_diff"} /\ Merge(r)
    /\ UNCHANGED <<contract, source, changes, starts, locals, guarded, measured>>

\* The candidate of the state row.
Measure(r) ==
    /\ pc[r] \in {"written", "unchanged"}
    /\ measured' = [measured EXCEPT ![r] = IF compared[r] THEN Candidates ELSE source]
    /\ Goto(r, IF pc[r] = "unchanged" THEN "skipped" ELSE "done")
    /\ UNCHANGED <<contract, source, changes, table, starts, locals, guarded, clean, settled>>

Next ==
    \E r \in Run:
       \/ Start(r) \/ CheckNulls(r) \/ CheckDuplicates(r) \/ DescribeTable(r) \/ Create(r)
       \/ Compare(r) \/ Write(r) \/ Measure(r) \/ Fail(r)

=============================================================================
