---------------------------- MODULE TargetWrites -----------------------------
(***************************************************************************)
(* The write modes of four adapters over one target: several executions,   *)
(* without a lock, while the source changes between their statements.      *)
(*                                                                         *)
(* What the schema policies do to the columns of the target is a part of   *)
(* its own, SchemaWrites, which reads none of the rows.  A behaviour is    *)
(* one of the rows, with a contract, or one of the columns, with what was  *)
(* agreed for them; the other half rests.                                  *)
(***************************************************************************)
EXTENDS WriteTarget, Sequences

CONSTANTS
    Layouts,       \* the columns that the source may have
    Tables,        \* the columns that the target may have at first
    Ignored,       \* the columns of a target that the comparison ignores
    Agreements,    \* the contracts that the columns are looked at under
    MaxRedefine,   \* bound on the redefinitions of the source's columns
    MaxBegin       \* bound on the executions that look at columns

VARIABLES
    agreed, layout, redefined, columns, probe, stage, begun, expects, found, todo,
    claimed, altered, blind, displaced, orderly    \* see SchemaWrites

columnVars == <<agreed, layout, redefined, columns, probe, stage, begun, expects, found, todo,
                claimed, altered, blind, displaced, orderly>>

Databricks == INSTANCE DatabricksWrite
Fabric == INSTANCE FabricWrite
Aws == INSTANCE AwsWrite
Snowflake == INSTANCE SnowflakeWrite
Columns == INSTANCE SchemaWrites

ASSUME LayoutsAssumption ==
    Layouts \subseteq Columns!Shape \ {<<>>} /\ Tables \subseteq Columns!Shape
ASSUME AgreementsAssumption == Agreements \subseteq Columns!Agreement
ASSUME IgnoredAssumption == Ignored \subseteq Nat
ASSUME ColumnBoundsAssumption == {MaxRedefine, MaxBegin} \subseteq Nat

RowsInit ==
    /\ Init
    /\ agreed = Null /\ layout = <<>> /\ columns = <<>> /\ orderly = FALSE /\ Columns!Untouched

ColumnsInit ==
    /\ contract = Null /\ source = {} /\ Empty
    /\ Columns!SchemaInit

RowsNext ==
    /\ contract # Null
    /\ \/ Change
       \/ contract.engine = "databricks" /\ Databricks!Next
       \/ contract.engine = "fabric" /\ Fabric!Next
       \/ contract.engine = "aws" /\ Aws!Next
       \/ contract.engine = "snowflake" /\ Snowflake!Next
    /\ UNCHANGED columnVars

ColumnsNext ==
    /\ agreed # Null
    /\ Columns!SchemaNext
    /\ UNCHANGED vars

Next == RowsNext \/ ColumnsNext

Spec == (RowsInit \/ ColumnsInit) /\ [][Next]_<<vars, columnVars>>

-----------------------------------------------------------------------------
(* Properties *)

\* Hash-diff of Databricks appends versions of a key; the other keyed modes,
\* partition replacement aside, are to keep one row of each.
Versioned == contract.engine = "databricks" /\ contract.mode = "hash_diff"

OneRowPerKey == contract.mode \in {"upsert", "hash_diff", "snapshot", "partition"} /\ ~Versioned

KeysAreUnique == \A t, u \in rows: t.key = u.key => t = u

Commits(r) == commits' # commits /\ pc'[r] # pc[r]

Born(t) == t.born[1] = commits'

(* A commit gives a key a second row only if the source has changed since    *)
(* the run checked its keys, if the key moved to another partition under     *)
(* delta_by_partition, where its old row is outside of the MERGE's           *)
(* predicate, or if Databricks did not count the prepared rows: it checks    *)
(* the keys only of rows it has counted, and it does not count by default.   *)
(* And outside of overwrite and replace_partitions a row of the target is    *)
(* never removed, except by a first write on Fabric that found no table,     *)
(* while another first write made it.                                        *)
RowsAreKeptOnce ==
    [][\A r \in Run: Commits(r) =>
          /\ OneRowPerKey =>
                \A t, u \in rows': t # u /\ t.key = u.key /\ Born(t) =>
                   \/ changes # guarded[r]
                   \/ contract.mode = "partition" /\ Partition(u.val) \notin scope[r]
                   \/ ~contract.metrics /\ DuplicateKeys
          /\ contract.mode \notin {"overwrite", "replace"} =>
                \/ \A t \in rows: \E u \in rows': u.born = t.born
                \/ contract.engine = "fabric" /\ pc[r] = "create" /\ exists]_vars

Pairs(rs) == {<<x.key, x.val>>: x \in rs}

Visible(rs) == Pairs({t \in rs: t.active})

Newest(rs) == {t \in rs: \A u \in rs: u.key = t.key => u.born[1] <= t.born[1]}

\* What a row of "pairs" becomes that the source does not replace.
Others(pairs) == {p \in pairs: \A s \in source: s.key # p[1]}

\* What each mode says of the visible rows before and after its commit.
Means(before, after) ==
    CASE contract.mode = "append" ->
            /\ before \subseteq after
            /\ Cardinality(after) = Cardinality(before) + Cardinality(source)
      [] contract.mode = "overwrite" ->
            Visible(after) = Pairs(source) /\ Cardinality(after) = Cardinality(source)
      [] contract.mode = "replace" ->
            LET replaced == {Partition(s.val): s \in source}
            IN  Visible(after) =
                   Pairs(source) \cup {p \in Visible(before): Partition(p[2]) \notin replaced}
      [] contract.mode = "snapshot" ->
            /\ Visible(after) = Pairs(source)
            /\ \A t \in before: \E u \in after: u.key = t.key
      [] Versioned ->
            /\ before \subseteq after
            /\ Visible(Newest(after)) = Pairs(source) \cup Others(Visible(Newest(before)))
      [] OTHER -> Visible(after) = Pairs(source) \cup Others(Visible(before))

\* A source that a mode with a key can take in whole.
OneVersionEach == Versioned => ~DuplicateKeys /\ \A k \in Key: Cardinality({t \in Newest(rows): t.key = k}) <= 1

(* An execution that nothing disturbed leaves the target as its mode says,   *)
(* whichever path it took: first write, MERGE, comparison, count of 0.       *)
(* Under delta_by_partition that is so for keys that keep their partition.   *)
(* On Fabric and AWS rows_written and the watermark are then taken from df:  *)
(* it still holds what the run was to write, except after a comparison with  *)
(* the target, when it holds nothing, however much the MERGE wrote.          *)
CommitMeansMode ==
    [][\A r \in Run:
          /\ /\ Commits(r) /\ clean[r] /\ OneVersionEach
             /\ OneRowPerKey => KeysAreUnique /\ (contract.metrics \/ ~DuplicateKeys)
             /\ contract.mode = "partition" =>
                   \A t \in rows, s \in source: t.key = s.key => Partition(t.val) \in scope[r]
             => Means(rows, rows')
          /\ pc'[r] # pc[r] /\ pc'[r] \in {"done", "skipped"} /\ clean'[r] /\ contract.engine \in {"fabric", "aws"} =>
                measured'[r] = IF compared'[r] THEN {} ELSE source]_vars

(* Writing the source again whose undisturbed write came last changes        *)
(* nothing, so that a replay, or a retry of a commit that only looked like a *)
(* failure, is harmless in the modes with a key.  Two inserts of the code    *)
(* break it: hash-diff on Databricks takes a NULL key for a new one, and a   *)
(* MERGE by partition never matches a row outside of its predicate, such as  *)
(* a row without a partition.  So does an update: where Databricks did not   *)
(* count the prepared rows, a snapshot of a source with a key twice gives    *)
(* the row of the key now the one version, now the other.  (A second first   *)
(* write on Fabric is the subject of RowsAreKeptOnce.)  Nor does hash-diff   *)
(* on Databricks insert a row that equals the newest version of its key,     *)
(* next to others that changed, unless another run committed since its       *)
(* snapshot was read.                                                        *)
ReplayWritesNothing ==
    [][\A r \in Run: Commits(r) =>
          /\ /\ settled = {source} /\ pc[r] # "create"
             /\ OneRowPerKey \/ (Versioned /\ clean[r] /\ OneVersionEach /\ NullKeys = {})
             /\ contract.mode = "partition" =>
                   KeysAreUnique /\ \A s \in source: Partition(s.val) \in scope[r]
             /\ contract.mode = "snapshot" => contract.metrics \/ ~DuplicateKeys
             => Pairs(rows') = Pairs(rows) /\ Cardinality(rows') = Cardinality(rows)
          /\ Versioned /\ clean[r] =>
                \A t \in rows' \ rows, u \in Newest(rows):
                   u.key = t.key /\ t.key # Null => t.val # u.val \/ ~OneVersionEach]_vars

(* The properties of the columns are stated in SchemaWrites.               *)

(* ALTER TABLE only adds columns at the end, or widens one where that was    *)
(* agreed, and never under strict; and what is then written agrees with the  *)
(* policy, unless the look failed or source or target changed since.         *)
SchemaFollowsPolicy == [][Columns!FollowsPolicy]_columnVars

(* A value ends up in a column of another name only where statements match   *)
(* by position and the source did more than grow at its end.                 *)
ValuesKeepTheirColumn == Columns!ValuesKeepTheirColumn

(* Evidence of a change of a column is the evidence of the run that made it, *)
(* but for the exceptions that are named: Fabric's is of changes that nobody *)
(* has made.                                                                 *)
EvidenceIsOwn == Columns!EvidenceIsOwn

=============================================================================
