----------------------------- MODULE SchemaWrites -----------------------------
(***************************************************************************)
(* The columns of a target, and what the schema policies of five adapters  *)
(* let a run do to them: the look at source and target, the comparison,    *)
(* ALTER TABLE, the rows of schema-change evidence and the write, which    *)
(* matches columns by name or by position.  The owner of the source        *)
(* redefines it at any time.  A dataframe keeps the columns it was made    *)
(* with; Snowflake and BigQuery evaluate the source again in the write.    *)
(*                                                                         *)
(* Only columns are modelled here: which column of the source a column of  *)
(* the target takes its values from.  What an engine accepts is external:  *)
(* a statement that it refuses is never executed, and the run can only     *)
(* fail.  TargetWrites is about the rows; it instantiates this module,     *)
(* which shares no variable with them.                                     *)
(***************************************************************************)
EXTENDS Naturals, Sequences, FiniteSets

CONSTANTS
    Run,
    Layouts,       \* the columns that the source may have, in order
    Tables,        \* the columns that the target may have at first; <<>> is no table
    Ignored,       \* the columns that only a target has: IGNORED_TARGET_ONLY_COLUMNS
    Agreements,    \* the contracts that an instance looks at
    MaxRedefine,   \* bound on the redefinitions of the source
    MaxBegin       \* bound on the executions

\* The names of columns are numbers, whose order is the alphabetical one.
\* "varchar" is a string of some given length.
Type == {"int", "bigint", "double", "string", "varchar", "variant"}

ColumnOf == [name: Nat, type: Type]

\* No two columns have one name.
Shape == {l \in Seq(ColumnOf): \A i, j \in DOMAIN l: l[i].name = l[j].name => i = j}

\* The keys of a contract that matter here; "widening" is allow_type_widening.
Agreement ==
    [engine: {"databricks", "snowflake", "fabric", "aws", "gcp"},
     mode: {"append", "overwrite", "upsert"},
     policy: {"strict", "additive_only", "permissive"}, widening: BOOLEAN]

VARIABLES
    agreed,     \* the contract
    layout,     \* the columns of the source
    redefined,  \* how often they were redefined
    columns,    \* the columns of the target
    probe,      \* the columns of the probe table that runs on BigQuery share
    stage,      \* where each run is
    begun,      \* how many executions have begun
    expects,    \* the columns of the source, as each run has seen them
    found,      \* the columns of the target, as each run has seen them
    todo,       \* the statements of ALTER TABLE that a run has still to execute
    claimed,    \* the columns whose change a run's evidence calls applied
    altered,    \* history: the columns that a run added or changed
    blind,      \* history: the runs whose look at the target failed
    displaced,  \* history: <<t, s>>, values of column s went to column t
    orderly     \* history: the source has only grown at its end, in alphabetical order

world == <<agreed, layout, redefined>>
looks == <<expects, found, blind>>
schemaVars == <<world, columns, probe, stage, begun, looks, todo, claimed, altered, displaced, orderly>>

To(r, label) == stage' = [stage EXCEPT ![r] = label]

Over == {"idle", "done", "failed"}

Names(l) == {l[i].name: i \in DOMAIN l}

TypeOf(l, n) == l[CHOOSE i \in DOMAIN l: l[i].name = n].type

\* The columns of l are the first of m.
Begins(l, m) == Len(l) <= Len(m) /\ \A i \in DOMAIN l: l[i].name = m[i].name

Ascending(l) == \A i, j \in DOMAIN l: i < j => l[i].name < l[j].name

-----------------------------------------------------------------------------
(* What the engines accept (external) *)

\* Snowflake and BigQuery have one type of integers, all but Snowflake one of
\* strings.
NativeType(t) ==
    CASE t = "int" /\ agreed.engine \in {"snowflake", "gcp"} -> "bigint"
      [] t = "varchar" /\ agreed.engine # "snowflake" -> "string"
      [] OTHER -> t

Native(l) == [i \in DOMAIN l |-> [l[i] EXCEPT !.type = NativeType(@)]]

\* Delta takes a column to a wider type.
Alterable(s, t) == t = "int" /\ s \in {"bigint", "double"}

\* _type_family: the strings are one.  With VARIANT nothing is compared.
Alike(s, t) == {s, t} = {"string", "varchar"} \/ "variant" \in {s, t}

\* A value of type s can be stored in a column of type t.
Storable(s, t) == s = t \/ {s, t} \subseteq {"int", "bigint", "double"} \/ Alike(s, t)

\* Nothing has happened to the columns of the target.
Untouched ==
    /\ redefined = 0
    /\ probe = <<>>
    /\ stage = [r \in Run |-> "idle"]
    /\ begun = 0
    /\ expects = [r \in Run |-> <<>>]
    /\ found = [r \in Run |-> <<>>]
    /\ todo = [r \in Run |-> <<>>]
    /\ claimed = [r \in Run |-> {}]
    /\ altered = [r \in Run |-> {}]
    /\ blind = {}
    /\ displaced = {}

SchemaInit ==
    /\ agreed \in Agreements
    /\ layout \in Layouts
    /\ columns \in {Native(t): t \in Tables}
    /\ orderly = (Ascending(layout) /\ columns \in {<<>>, Native(layout)})
    /\ Untouched

\* The owner of the source redefines its columns.
Redefine ==
    /\ redefined < MaxRedefine
    /\ redefined' = redefined + 1
    /\ layout' \in Layouts \ {layout}
    /\ orderly' = (orderly /\ Begins(layout, layout') /\ Ascending(layout'))
    /\ UNCHANGED <<agreed, columns, probe, stage, begun, looks, todo, claimed, altered, displaced>>

-----------------------------------------------------------------------------
(* The comparison of source and target *)

Added(s, t) == Names(s) \ Names(t)

\* Snowflake ignores none.
Removed(s, t) == (Names(t) \ Names(s)) \ (IF agreed.engine = "snowflake" THEN {} ELSE Ignored)

Changed(s, t) == {n \in Names(s) \cap Names(t): TypeOf(s, n) # TypeOf(t, n)}

\* is_type_widening, with which an engine need not agree.
IsTypeWidening(s, t) == <<s, t>> = <<"bigint", "int">> \/ (s = "double" /\ t \in {"int", "bigint"})

\* allow_type_widening is a key of two adapters; Snowflake lets pass what is in
\* one family.
Allowed(s, t) ==
    {n \in Changed(s, t):
        \/ /\ agreed.widening /\ agreed.engine \in {"databricks", "fabric"}
           /\ IsTypeWidening(TypeOf(s, n), TypeOf(t, n))
        \/ agreed.engine = "snowflake" /\ Alike(TypeOf(s, n), TypeOf(t, n))}

Blocking(s, t) == Changed(s, t) \ Allowed(s, t)

\* Mutant: strict does not mind a column that the source has lost.
RejectsRemoval(s, t) ==
    \/ agreed.policy = "strict" /\ Added(s, t) # {}
    \/ agreed.policy = "strict" /\ agreed.engine # "snowflake" /\ Changed(s, t) # {}
    \/ agreed.policy = "additive_only" /\ Removed(s, t) # {}
    \/ Blocking(s, t) # {}

\* validate_schema_diff, and the same rules in the notebook of Fabric; under
\* strict Snowflake only looks at the names.
Rejects(s, t) ==
    \/ agreed.policy = "strict" /\ Added(s, t) \cup Removed(s, t) # {}
    \/ agreed.policy = "strict" /\ agreed.engine # "snowflake" /\ Changed(s, t) # {}
    \/ agreed.policy = "additive_only" /\ Removed(s, t) # {}
    \/ Blocking(s, t) # {}

\* The columns of l with a name in "names", in ascending order of "key".
Picked(l, names) == {i \in DOMAIN l: l[i].name \in names}

Place(l, names, key, k) ==
    CHOOSE i \in Picked(l, names): Cardinality({j \in Picked(l, names): key[j] < key[i]}) + 1 = k

Ranked(l, names, key) == [k \in 1..Cardinality(Picked(l, names)) |-> l[Place(l, names, key, k)]]

\* In the order of l, by name, and (mutant) by name the wrong way round.
InOrder(l, names) == Ranked(l, names, [i \in DOMAIN l |-> i])

ByNameReversed(l, names) == Ranked(l, names, [i \in DOMAIN l |-> Cardinality({n \in names: n > l[i].name})])

ByName(l, names) == Ranked(l, names, [i \in DOMAIN l |-> l[i].name])

Adding(cols) == IF cols = <<>> THEN <<>> ELSE <<[do |-> "add", cols |-> cols]>>

OneByOne(do, cols) == [i \in DOMAIN cols |-> [do |-> do, cols |-> <<cols[i]>>]]

\* Mutant: Databricks leaves out what is to be widened.
PlanAdditions(s, t) == IF agreed.engine = "databricks" THEN Adding(ByName(s, Added(s, t))) ELSE <<>>

\* The columns that are added after a comparison that was passed; on Fabric and
\* AWS nothing is altered.
Additions(s, t) ==
    CASE agreed.engine = "databricks" -> ByName(s, Added(s, t))
      [] agreed.engine = "snowflake" /\ agreed.policy = "additive_only" -> InOrder(s, Added(s, t))
      [] agreed.engine = "gcp" /\ agreed.policy # "strict" -> ByName(s, Added(s, t))
      [] OTHER -> <<>>

\* The statements: Databricks adds all columns in one and widens one by one,
\* Snowflake and BigQuery add one by one.
Plan(s, t) ==
    IF agreed.engine = "databricks"
    THEN Adding(Additions(s, t)) \o OneByOne("type", ByName(s, Allowed(s, t)))
    ELSE OneByOne("add", Additions(s, t))

-----------------------------------------------------------------------------
(* A run *)

\* The course of a run on each platform.  Databricks looks at the target when
\* the bundle starts, and then makes the dataframe and the table; Snowflake
\* makes the table first, and under permissive never looks at it.  Fabric
\* alters nothing and records the comparison after the write; AWS describes the target
\* before and after the write, and has no policy.  On BigQuery the source is
\* looked at through a probe table.
Course ==
    CASE agreed.engine = "databricks" -> <<"look", "prepare", "setup", "compare", "alter", "log", "write">>
      [] agreed.engine = "snowflake" /\ agreed.policy = "permissive" -> <<"setup", "prepare", "write">>
      [] agreed.engine = "snowflake" /\ agreed.policy # "permissive" ->
            <<"setup", "prepare", "look", "compare", "alter", "log", "write">>
      [] agreed.engine = "fabric" -> <<"prepare", "look", "compare", "write", "record">>
      [] agreed.engine = "aws" -> <<"prepare", "look", "write", "describe">>
      [] OTHER -> <<"probe", "inspect", "drop", "look", "compare", "alter", "log", "write">>

After(label) ==
    LET i == CHOOSE j \in DOMAIN Course: Course[j] = label
    IN  IF i = Len(Course) THEN "done" ELSE Course[i + 1]

At(r, label) == stage[r] = label /\ To(r, After(label))

Begin(r) ==
    /\ stage[r] = "idle"
    /\ begun < MaxBegin
    /\ begun' = begun + 1
    /\ To(r, Course[1])
    /\ UNCHANGED <<world, columns, probe, looks, todo, claimed, altered, displaced, orderly>>

\* The next window, or micro-batch, of an execution on Databricks is a run of
\* its own with the target_schema that the execution started with.
NextBatch(r) ==
    /\ agreed.engine = "databricks"
    /\ stage[r] = "done"
    /\ begun < MaxBegin
    /\ begun' = begun + 1
    /\ To(r, "prepare")
    /\ claimed' = [claimed EXCEPT ![r] = {}]
    /\ altered' = [altered EXCEPT ![r] = {}]
    /\ UNCHANGED <<world, columns, probe, looks, todo, displaced, orderly>>

\* The columns of the target; a look that fails finds none.  On BigQuery it
\* fails the run.
Look(r) ==
    /\ At(r, "look")
    /\ \/ /\ found' = [found EXCEPT ![r] = columns]
          /\ UNCHANGED blind
       \/ /\ agreed.engine # "gcp" /\ columns # <<>>
          /\ found' = [found EXCEPT ![r] = <<>>]
          /\ blind' = blind \cup {r}
    /\ UNCHANGED <<world, columns, probe, begun, expects, todo, claimed, altered, displaced, orderly>>

\* The dataframe is made, or the query of the source described.
Prepare(r) ==
    /\ At(r, "prepare")
    /\ expects' = [expects EXCEPT ![r] = Native(layout)]
    /\ UNCHANGED <<world, columns, probe, begun, found, blind, todo, claimed, altered, displaced, orderly>>

\* CREATE OR REPLACE TABLE ... WHERE FALSE, under one name for all runs.
Probe(r) ==
    /\ At(r, "probe")
    /\ probe' = Native(layout)
    /\ UNCHANGED <<world, columns, begun, looks, todo, claimed, altered, displaced, orderly>>

Inspect(r) ==
    /\ At(r, "inspect")
    /\ expects' = [expects EXCEPT ![r] = probe]
    /\ UNCHANGED <<world, columns, probe, begun, found, blind, todo, claimed, altered, displaced, orderly>>

\* The drop is in a finally block; without columns the run then fails.
Drop(r) ==
    /\ stage[r] = "drop"
    /\ To(r, IF expects[r] = <<>> THEN "failed" ELSE After("drop"))
    /\ probe' = <<>>
    /\ UNCHANGED <<world, columns, begun, looks, todo, claimed, altered, displaced, orderly>>

\* CREATE TABLE IF NOT EXISTS: on Databricks with the columns of the dataframe,
\* on Snowflake AS the source, unless the mode is overwrite.
SetUp(r) ==
    /\ At(r, "setup")
    /\ columns' = IF columns # <<>> \/ (agreed.engine = "snowflake" /\ agreed.mode = "overwrite") THEN columns
                  ELSE IF agreed.engine = "snowflake" THEN Native(layout) ELSE expects[r]
    /\ UNCHANGED <<world, probe, begun, looks, todo, claimed, altered, displaced, orderly>>

\* Without a target to compare with there is nothing to reject; but on
\* Snowflake a failed look, and on BigQuery a target that is missing from an
\* append, is a target without columns.
Compares(r) ==
    \/ found[r] # <<>>
    \/ agreed.engine = "snowflake" /\ r \in blind
    \/ agreed.engine = "gcp" /\ agreed.mode # "overwrite"

Compare(r) ==
    /\ stage[r] = "compare"
    /\ IF Compares(r) /\ Rejects(expects[r], found[r])
       THEN To(r, "failed") /\ UNCHANGED todo
       ELSE /\ To(r, After("compare"))
            /\ todo' = [todo EXCEPT ![r] = IF Compares(r) THEN Plan(expects[r], found[r]) ELSE <<>>]
    /\ UNCHANGED <<world, columns, probe, begun, looks, claimed, altered, displaced, orderly>>

\* The next statement of ALTER TABLE.  Only Snowflake adds IF NOT EXISTS.
Execute(r, statement) ==
    LET names == Names(statement.cols)
    IN  /\ columns # <<>>
        /\ IF statement.do = "add"
           THEN LET new == InOrder(statement.cols, names \ Names(columns))
                IN  /\ agreed.engine = "snowflake" \/ new = statement.cols
                    /\ columns' = columns \o new
                    /\ altered' = [altered EXCEPT ![r] = @ \cup Names(new)]
           ELSE LET c == statement.cols[1]
                IN  /\ \/ Alterable(c.type, TypeOf(columns, c.name))
                       \/ c.type = TypeOf(columns, c.name)
                    /\ columns' = [i \in DOMAIN columns |-> IF columns[i].name = c.name THEN c ELSE columns[i]]
                    /\ altered' = [altered EXCEPT ![r] = @ \cup names]

Alter(r) ==
    /\ stage[r] = "alter"
    /\ IF todo[r] = <<>>
       THEN To(r, After("alter")) /\ UNCHANGED <<columns, todo, altered>>
       ELSE /\ Execute(r, Head(todo[r]))
            /\ todo' = [todo EXCEPT ![r] = Tail(@)]
            /\ UNCHANGED stage
    /\ UNCHANGED <<world, probe, begun, looks, claimed, displaced, orderly>>

\* The columns of which the evidence says that they were changed: on Fabric, as
\* "applied", everything in which source and target differed.
Claims(r) ==
    LET s == expects[r]
        t == found[r]
    IN  CASE ~Compares(r) -> {}
          [] Compares(r) /\ agreed.engine = "databricks" -> Added(s, t) \cup Allowed(s, t)
          [] Compares(r) /\ agreed.engine = "fabric" -> Added(s, t) \cup Removed(s, t) \cup Changed(s, t)
          [] OTHER -> Added(s, t)

\* One row of evidence a change.
Log(r) ==
    /\ stage[r] = "log"
    /\ LET left == Claims(r) \ claimed[r]
       IN  IF left = {}
           THEN To(r, After("log")) /\ UNCHANGED claimed
           ELSE /\ \E n \in left: (\A m \in left: n <= m) /\ claimed' = [claimed EXCEPT ![r] = @ \cup {n}]
                /\ UNCHANGED stage
    /\ UNCHANGED <<world, columns, probe, begun, looks, todo, altered, displaced, orderly>>

\* Fabric's one row, of a run that has written.
Record(r) ==
    /\ At(r, "record")
    /\ claimed' = [claimed EXCEPT ![r] = Claims(r)]
    /\ UNCHANGED <<world, columns, probe, begun, looks, todo, altered, displaced, orderly>>

\* The columns that the write reads: a query is evaluated again.
Reads(r) == IF agreed.engine \in {"snowflake", "gcp"} THEN Native(layout) ELSE expects[r]

\* INSERT INTO ... SELECT * and INSERT OVERWRITE match columns by position.
ByPosition ==
    /\ agreed.engine \in {"databricks", "snowflake", "gcp"}
    /\ agreed.mode = "append" \/ (agreed.engine = "databricks" /\ agreed.mode = "overwrite")

\* CREATE OR REPLACE TABLE ... AS, and createOrReplace of Iceberg.
Replaces == agreed.engine \in {"snowflake", "gcp", "aws"} /\ agreed.mode = "overwrite"

Creates == Replaces \/ (columns = <<>> /\ agreed.engine \in {"fabric", "aws"})

WriteNew(r) ==
    /\ Creates
    /\ At(r, "write")
    /\ columns' = Reads(r)
    /\ altered' = [altered EXCEPT ![r] = @ \cup Added(Reads(r), columns) \cup Changed(Reads(r), columns)]
    /\ UNCHANGED <<world, probe, begun, looks, todo, claimed, displaced, orderly>>

WriteByPosition(r) ==
    /\ ByPosition
    /\ At(r, "write")
    /\ LET s == Reads(r)
       IN  /\ Len(s) = Len(columns)
           /\ \A i \in DOMAIN s: Storable(s[i].type, columns[i].type)
           /\ displaced' = displaced \cup {<<columns[i].name, s[i].name>>: i \in {j \in DOMAIN s: s[j].name # columns[j].name}}
    /\ UNCHANGED <<world, columns, probe, begun, looks, todo, claimed, altered, orderly>>

\* A MERGE names the columns that the run has seen; a dataframe is written by
\* the names of its columns.
WriteByName(r) ==
    /\ ~Creates /\ ~ByPosition
    /\ At(r, "write")
    /\ Names(expects[r]) \subseteq Names(Reads(r)) \cap Names(columns)
    /\ \A n \in Names(expects[r]): Storable(TypeOf(Reads(r), n), TypeOf(columns, n))
    /\ UNCHANGED <<world, columns, probe, begun, looks, todo, claimed, altered, displaced, orderly>>

\* AWS logs what differs from the description before the write; a description
\* that fails finds no column.
Describe(r) ==
    /\ At(r, "describe")
    /\ \E after \in {columns, <<>>}:
          claimed' = [claimed EXCEPT ![r] = Added(after, found[r]) \cup Changed(after, found[r])]
    /\ UNCHANGED <<world, columns, probe, begun, looks, todo, altered, displaced, orderly>>

\* A statement is refused or fails, or the driver dies.
FailSchema(r) ==
    /\ stage[r] \notin Over
    /\ To(r, "failed")
    /\ UNCHANGED <<world, columns, probe, begun, looks, todo, claimed, altered, displaced, orderly>>

SchemaNext ==
    \/ Redefine
    \/ \E r \in Run:
          \/ Begin(r) \/ NextBatch(r) \/ Look(r) \/ Prepare(r) \/ Probe(r) \/ Inspect(r) \/ Drop(r) \/ SetUp(r)
          \/ Compare(r) \/ Alter(r) \/ Log(r) \/ Record(r) \/ WriteNew(r) \/ WriteByPosition(r) \/ WriteByName(r)
          \/ Describe(r) \/ FailSchema(r)

-----------------------------------------------------------------------------
(* Properties *)

Writes(r) == stage[r] = "write" /\ stage'[r] \in {"done", "describe", "record"}

\* The target as a run must find it when it writes, if no other run has altered
\* it since the look.
Sought(r) == found[r] \o Additions(expects[r], found[r])

Stale(r) == r \in blind \/ Reads(r) # expects[r] \/ columns # Sought(r)

\* ALTER TABLE only adds columns at the end, or widens one where that was
\* agreed, and never under strict.  A run that writes into an existing target
\* under strict brings no column that the target does not have, and on all but
\* Snowflake each with its type; unless permissive is agreed, it lacks none of
\* the target's but those that are to be ignored.  Not so if its look at the
\* target failed, source or target changed since, or there is no policy, as on
\* AWS.
FollowsPolicy ==
    /\ (columns # <<>> /\ columns' # columns /\ ~\E r \in Run: Writes(r)) =>
          /\ agreed.policy # "strict"
          /\ Begins(columns, columns')
          /\ \A n \in Names(columns):
                \/ TypeOf(columns', n) = TypeOf(columns, n)
                \/ agreed.widening /\ IsTypeWidening(TypeOf(columns', n), TypeOf(columns, n))
    /\ \A r \in Run: (Writes(r) /\ columns # <<>> /\ agreed.engine # "aws" /\ ~Stale(r)) =>
          LET s == Reads(r)
          IN  /\ agreed.policy = "strict" =>
                    /\ Names(s) \subseteq Names(columns)
                    /\ \A n \in Changed(s, columns):
                          agreed.engine = "snowflake" /\ Alike(TypeOf(s, n), TypeOf(columns, n))
              /\ agreed.policy # "permissive" =>
                    Names(columns) \ Names(s) \subseteq (IF agreed.engine = "snowflake" THEN {} ELSE Ignored)

\* A value ends up in a column of another name only by position, and only when
\* the source did not just grow at its end, in alphabetical order: the
\* comparison does not look at the order, and adds columns by name.
ValuesKeepTheirColumn == displaced # {} => ByPosition /\ ~orderly

\* What Fabric calls applied although nothing is done about it: a run that found
\* a target alters none of its columns.  The policy has let it pass.
LetPass(r, n) ==
    /\ agreed.engine = "fabric" /\ altered[r] = {} /\ agreed.policy # "strict"
    /\ \/ n \in Names(expects[r]) \ Names(found[r])
       \/ n \in Names(found[r]) \ Names(expects[r]) /\ agreed.policy = "permissive"
       \/ /\ n \in Names(expects[r]) \cap Names(found[r]) /\ agreed.widening
          /\ IsTypeWidening(TypeOf(expects[r], n), TypeOf(found[r], n))

\* A column that the evidence of a run calls changed was changed by that run;
\* but on AWS and Snowflake perhaps by another run, or by nobody after a look
\* that failed, and on Fabric by nobody at all.  A run that is done has told of
\* each column it has altered.
EvidenceIsOwn ==
    \A r \in Run:
        /\ \A n \in claimed[r]:
              \/ n \in altered[r]
              \/ agreed.engine \in {"aws", "snowflake"} /\ (r \in blind \/ \E q \in Run: n \in altered[q])
              \/ LetPass(r, n)
        /\ (stage[r] = "done" /\ found[r] # <<>> /\ ~Replaces) => altered[r] \subseteq claimed[r]

=============================================================================
