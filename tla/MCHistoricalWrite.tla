-------------------------- MODULE MCHistoricalWrite --------------------------
(* Small instances of HistoricalWrite. *)
EXTENDS HistoricalWrite, TLC

CONSTANTS k1, k2, a, b, r1, r2, r3

\* The effective-from column is the sequence, NULL where that is.
Upsert(k, h, n) == [key |-> k, hash |-> h, seq |-> n, since |-> n, delete |-> FALSE]
Delete(k, n) == [key |-> k, hash |-> a, seq |-> n, since |-> n, delete |-> TRUE]

\* Changes and deletes of one key, of both keys, and of one key twice.
Batches ==
    {{Upsert(k1, a, 1)}, {Upsert(k1, a, 0)},
     {Delete(k1, 2), Upsert(k2, b, 1)},
     {Upsert(k1, b, 2), Upsert(k2, b, 2)},
     {Upsert(k1, a, 1), Upsert(k1, b, 2)}}

\* One run may try again.
OneRetries == [r \in Run |-> IF r = r1 THEN 2 ELSE 1]

OtherTwo == Permutations({r2, r3})

=============================================================================
