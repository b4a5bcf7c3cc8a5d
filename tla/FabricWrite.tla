----------------------------- MODULE FabricWrite -----------------------------
(***************************************************************************)
(* The write statements of a Fabric notebook: the merge key guard, then    *)
(* either the first write of the table, with mode("overwrite"), or a Delta *)
(* MERGE.  df is lazy; hash-diff binds it to the comparison with the       *)
(* target, and what the notebook measures after the write is df.           *)
(***************************************************************************)
EXTENDS WriteTarget

Start(r) ==
    /\ Begin(r, IF contract.mode \in {"append", "overwrite"} THEN "write" ELSE "nulls")
    /\ UNCHANGED <<exists, trusted>>

\* Mutant: the guard accepts NULL keys.
CheckNoNulls(r) == Check(r, "nulls", FALSE, "duplicates")

CheckNulls(r) == Check(r, "nulls", NullKeys # {}, "duplicates")

CheckDuplicates(r) == Check(r, "duplicates", DuplicateKeys, "lookup")

\* spark.catalog.tableExists
LookUpTable(r) ==
    /\ pc[r] = "lookup"
    /\ Goto(r, IF ~exists THEN "create"
               ELSE IF contract.mode = "hash_diff" THEN "compare" ELSE "write")
    /\ UNCHANGED <<contract, source, changes, table, starts, locals, history>>

\* The first write.  If the table has come into being since, its rows are gone.
Create(r) ==
    /\ pc[r] = "create"
    /\ Commit(r, InsertedAll(source), "written")
    /\ UNCHANGED <<contract, source, changes, starts, locals, guarded, measured>>

\* df becomes the candidates, and is counted.
Compare(r) ==
    /\ pc[r] = "compare"
    /\ compared' = [compared EXCEPT ![r] = TRUE]
    /\ Goto(r, IF Candidates = {} THEN "written" ELSE "write")
    /\ UNCHANGED <<contract, source, changes, table, starts, counted, trusted, scope,
                   scanned, attempt, history>>

WhenMatched(t, s) ==
    CASE contract.mode = "hash_diff" -> Differs(t, s)
      [] contract.mode = "snapshot" -> Differs(t, s) \/ ~t.active
      [] OTHER -> TRUE

\* The clause WHEN NOT MATCHED BY SOURCE of a snapshot.
Deactivated(merged) ==
    {IF contract.mode = "snapshot" /\ \A s \in source: ~Same(t, s)
     THEN [t EXCEPT !.active = FALSE] ELSE t: t \in merged}

\* The MERGE evaluates df again.
Merge(r) ==
    LET df == IF compared[r] THEN Candidates ELSE source
    IN  /\ ~Ambiguous(df, Same, WhenMatched)
        /\ compared[r] => ~CandidateTwice
        /\ Commit(r, Deactivated(Merged(df, Same, WhenMatched)), "written")

\* Append, overwrite, or the MERGE.
Write(r) ==
    /\ pc[r] = "write"
    /\ \/ contract.mode = "append" /\ Commit(r, rows \cup InsertedAll(source), "written")
       \/ contract.mode = "overwrite" /\ Commit(r, InsertedAll(source), "written")
       \/ contract.mode \in {"upsert", "hash_diff", "snapshot"} /\ Merge(r)
    /\ UNCHANGED <<contract, source, changes, starts, locals, guarded, measured>>

\* df.count() is rows_written, and the watermark is a MAX over df.
Measure(r) ==
    /\ pc[r] = "written"
    /\ measured' = [measured EXCEPT ![r] = IF compared[r] THEN Candidates ELSE source]
    /\ Goto(r, "done")
    /\ UNCHANGED <<contract, source, changes, table, starts, locals, guarded, clean, settled>>

Next ==
    \E r \in Run:
       \/ Start(r) \/ CheckNulls(r) \/ CheckDuplicates(r) \/ LookUpTable(r) \/ Create(r)
       \/ Compare(r) \/ Write(r) \/ Measure(r) \/ Fail(r)

=============================================================================
