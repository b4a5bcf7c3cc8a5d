--------------------------- MODULE SnowflakeWrite ----------------------------
(***************************************************************************)
(* The write of a Snowflake run: the empty target, the merge source checks *)
(* before the quality rules, the candidate count of hash-diff, which only  *)
(* feeds a metric, and one statement.                                      *)
(***************************************************************************)
EXTENDS WriteTarget

\* The rows are counted, and CREATE TABLE IF NOT EXISTS makes an empty target,
\* except for overwrite.
Start(r) ==
    /\ Begin(r, IF contract.mode \in {"append", "overwrite"} THEN "write" ELSE "nulls")
    /\ exists' = (exists \/ contract.mode # "overwrite")
    /\ UNCHANGED trusted

CheckNulls(r) == Check(r, "nulls", NullKeys # {}, "duplicates")

CheckDuplicates(r) == Check(r, "duplicates", DuplicateKeys, "write")

WhenMatched(t, s) == contract.mode = "hash_diff" => Differs(t, s)

\* INSERT INTO, CREATE OR REPLACE TABLE, or MERGE.
Write(r) ==
    /\ pc[r] = "write"
    /\ \/ contract.mode = "append" /\ Commit(r, rows \cup InsertedAll(source), "done")
       \/ contract.mode = "overwrite" /\ Commit(r, InsertedAll(source), "done")
       \/ /\ contract.mode \in {"upsert", "hash_diff"}
          /\ ~Ambiguous(source, Same, WhenMatched)
          /\ Commit(r, Merged(source, Same, WhenMatched), "done")
    /\ UNCHANGED <<contract, source, changes, starts, locals, guarded, measured>>

Next ==
    \E r \in Run: Start(r) \/ CheckNulls(r) \/ CheckDuplicates(r) \/ Write(r) \/ Fail(r)

=============================================================================
