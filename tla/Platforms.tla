------------------------------ MODULE Platforms ------------------------------
(***************************************************************************)
(* The runners of four adapters, each on a target of its own: an execution *)
(* is one of a Snowflake runner, a Fabric notebook, an AWS Glue job or     *)
(* stream, or a Databricks window loop, and keeps the promises of          *)
(* PlatformTables.                                                         *)
(***************************************************************************)
EXTENDS PlatformTables

CONSTANT WindowPlans

Snowflake == INSTANCE SnowflakeRun
Fabric == INSTANCE FabricNotebook
Glue == INSTANCE GlueJob
GlueStreaming == INSTANCE GlueStream
Windowed == INSTANCE WindowedRun

ASSUME WindowPlansAssumption == WindowPlans \subseteq Windowed!WindowPlan

Init == Snowflake!Init \/ Fabric!Init \/ Glue!Init \/ GlueStreaming!Init \/ Windowed!Init

Next ==
    \/ platform = "snowflake" /\ Snowflake!Next
    \/ platform = "fabric" /\ Fabric!Next
    \/ platform = "aws" /\ ~contract.stream /\ Glue!Next
    \/ platform = "aws" /\ contract.stream /\ GlueStreaming!Next
    \/ platform = "databricks" /\ Windowed!Next

Spec == Init /\ [][Next]_vars

\* WindowsPassOverOpenly of WindowedRun.
WindowsPassOverOpenly == Windowed!WindowsPassOverOpenly

=============================================================================
