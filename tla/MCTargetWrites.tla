---------------------------- MODULE MCTargetWrites ----------------------------
(* Small instances of TargetWrites. *)
EXTENDS TargetWrites, TLC

CONSTANTS r1, r2, k1, k2, a, b, p, q

Row(k, v) == [key |-> k, val |-> v]

\* The value c has no partition.
PartitionOf(v) == CASE v = a -> p [] v = b -> q [] OTHER -> Null

\* Nothing; a key in either partition; two keys; a key twice; a NULL key.
SomeSources ==
    {{}, {Row(k1, a)}, {Row(k1, b), Row(k2, a)}, {Row(k1, a), Row(k1, b)},
     {Row(Null, a), Row(k1, b)}}

SourcesWithNullPartition == SomeSources \cup {{Row(k1, a), Row(k2, Null)}}

Of(e, modes) ==
    {[engine |-> e, mode |-> m, metrics |-> TRUE, ruled |-> FALSE, ordered |-> FALSE]: m \in modes}

SomeContracts ==
    Of("databricks", Mode)
    \cup {[c EXCEPT !.metrics = FALSE]: c \in Of("databricks", {"upsert", "snapshot"})}
    \cup {[c EXCEPT !.ruled = TRUE]: c \in Of("databricks", {"upsert"})}
    \cup {[c EXCEPT !.ordered = TRUE]: c \in Of("databricks", {"hash_diff"})}
    \cup Of("fabric", Mode \ {"partition", "replace"})
    \cup Of("aws", {"append", "overwrite", "upsert", "hash_diff"})
    \cup Of("snowflake", {"append", "overwrite", "upsert", "hash_diff"})

Col(n, t) == [name |-> n, type |-> t]

Base == <<Col(1, "int"), Col(2, "int")>>

\* The columns of the target as the source has them; two more; two more, out of
\* order; the columns swapped; one fewer; a wider type; another type; types that
\* Snowflake does not tell from others.
SomeLayouts ==
    {Base, Base \o <<Col(3, "string"), Col(4, "string")>>, Base \o <<Col(4, "string"), Col(3, "string")>>,
     <<Base[2], Base[1]>>, <<Base[1]>>, <<Base[1], Col(2, "bigint")>>, <<Base[1], Col(2, "string")>>,
     <<Col(1, "variant"), Col(2, "varchar")>>}

\* No table; one as the source; one with a column of the framework's.
SomeTables == {<<>>, Base, Base \o <<Col(5, "string")>>}

SomeIgnored == {5}

Agreed(engines, modes, policies, widening) ==
    [engine: engines, mode: modes, policy: policies, widening: widening]

Policies == {"strict", "additive_only", "permissive"}

SomeAgreements ==
    Agreed({"databricks", "snowflake", "fabric", "aws"}, {"append", "overwrite", "upsert"}, Policies, {FALSE})
    \cup Agreed({"gcp"}, {"append", "overwrite"}, Policies, {FALSE})
    \cup Agreed({"databricks", "fabric"}, {"append"}, {"additive_only"}, {TRUE})

AllRuns == Permutations(Run)

=============================================================================
