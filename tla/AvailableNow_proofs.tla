------------------------- MODULE AvailableNow_proofs -------------------------
(***************************************************************************)
(* The available-now stream, proved for any number of executions, any      *)
(* source and any batch size: where no idempotency key is in force and     *)
(* nobody runs dry, it implements at-least-once delivery.                  *)
(***************************************************************************)
EXTENDS AvailableNow, FiniteSetTheorems, TLAPS

USE DEF Pc, InBatch, Alive, Terminal, Goto

\* One checkpoint serves one execution.
OneAtATime == \A e, f \in Run: pc[e] \in Alive /\ pc[f] \in Alive => e = f

\* Between planning and commit there is exactly one batch without a commit.
BatchIsPlanned == \A e \in Run: pc[e] \in InBatch \cup {"returned"} => commits < Len(offsets)

\* The offset log is increasing at the commit position.
OffsetsGrow == commits < Len(offsets) => End(commits) < End(Current)

\* Past the write, the rows of the batch are in the target.
WrittenIsDelivered ==
    \A e \in Run: pc[e] \in {"written", "logged", "returned"} => BatchRows \subseteq Delivered

NobodySkips == \A e \in Run: pc[e] # "skipping"

StreamInv ==
    /\ TypeOK
    /\ OneAtATime
    /\ BatchIsPlanned
    /\ OffsetsGrow
    /\ WrittenIsDelivered
    /\ NobodySkips
    /\ ConsumedIsDelivered

\* The stream starts in the invariant.
LEMMA StreamInit == Init => StreamInv
  BY MaxRowAssumption, NoneAssumption
  DEF Init, StreamInv, TypeOK, OneAtATime, BatchIsPlanned, OffsetsGrow,
      WrittenIsDelivered, NobodySkips, ConsumedIsDelivered, End, Delivered

\* Nothing is planned, committed or written: the stream stands still.
LEMMA StreamStandsStill ==
  ASSUME UNCHANGED <<offsets, commits, target>>
  PROVE  /\ Delivered' = Delivered /\ BatchRows' = BatchRows
         /\ OffsetsGrow => OffsetsGrow'
         /\ ConsumedIsDelivered => ConsumedIsDelivered'
  BY DEF Delivered, BatchRows, OffsetsGrow, ConsumedIsDelivered, End, Current

\* Every step of an execution, of Spark or of the source keeps it.
LEMMA StreamStep ==
  ASSUME OptionsKey = None \/ Policy = "always_run", DryRun = {},
         StreamInv, [Next]_vars
  PROVE  StreamInv'
  <1> USE MaxRowAssumption, NoneAssumption
      DEF StreamInv, TypeOK, OneAtATime, BatchIsPlanned, WrittenIsDelivered,
          NobodySkips, checkpoint, tables
  <1>1. ASSUME UNCHANGED <<offsets, commits, target>>
        PROVE  /\ Delivered' = Delivered /\ BatchRows' = BatchRows
               /\ OffsetsGrow' /\ ConsumedIsDelivered'
    BY <1>1, StreamStandsStill
  <1>2. ASSUME UNCHANGED target
        PROVE  Delivered' = Delivered
    BY <1>2 DEF Delivered
  <1>3. ASSUME NEW e \in Run, Start(e)
        PROVE  StreamInv'
    BY <1>1, <1>3 DEF Start
  <1>4. ASSUME NEW e \in Run, ReplayBatch(e) \/ Exhausted(e)
        PROVE  StreamInv'
    BY <1>1, <1>4 DEF ReplayBatch, Exhausted
  <1>5. ASSUME NEW e \in Run, PlanBatch(e)
        PROVE  StreamInv'
    <2>1. PICK end \in Row: End(commits) < end /\ offsets' = Append(offsets, end)
      BY <1>5 DEF PlanBatch
    <2>2. /\ commits = Len(offsets) /\ commits' = commits /\ target' = target
          /\ pc' = [pc EXCEPT ![e] = "batch"] /\ pc[e] = "streaming"
          /\ UNCHANGED <<source, target, tables, upto, status>>
      BY <1>5 DEF PlanBatch
    <2>3. offsets' \in Seq(Row) /\ Len(offsets') = Len(offsets) + 1
      BY <2>1
    <2>4. End(commits)' = End(commits) /\ End(Current)' = end
      BY <2>1, <2>2 DEF End, Current
    <2>5. TypeOK' /\ OneAtATime' /\ BatchIsPlanned' /\ NobodySkips'
      BY <2>2, <2>3
    <2>6. OffsetsGrow'
      BY <2>1, <2>2, <2>3, <2>4 DEF OffsetsGrow
    <2>7. WrittenIsDelivered'
      BY <2>2
    <2>8. ConsumedIsDelivered'
      BY <1>2, <2>2, <2>4 DEF ConsumedIsDelivered
    <2> QED
      BY <2>5, <2>6, <2>7, <2>8
  <1>6. ASSUME NEW e \in Run, CheckBatch(e)
        PROVE  StreamInv'
    <2>1. BatchKey(Current) = None \/ Policy = "always_run"
      BY DEF BatchKey, EffectiveKey
    <2> QED
      BY <1>1, <1>6, <2>1 DEF CheckBatch
  <1>7. ASSUME NEW e \in Run, SkipBatch(e) \/ PreviewBatch(e)
        PROVE  FALSE
    BY <1>7 DEF SkipBatch, PreviewBatch
  <1>8. ASSUME NEW e \in Run, WriteBatch(e)
        PROVE  StreamInv'
    <2>1. target' \in [Row -> Nat] /\ Delivered' = Delivered \cup BatchRows
      BY <1>8 DEF WriteBatch, Delivered, BatchRows
    <2>2. /\ pc[e] = "checked" /\ pc' = [pc EXCEPT ![e] = "written"]
          /\ UNCHANGED <<source, checkpoint, tables, upto, status>>
      BY <1>8 DEF WriteBatch
    <2>3. BatchRows' = BatchRows /\ (OffsetsGrow => OffsetsGrow')
      BY <2>2 DEF BatchRows, OffsetsGrow, End, Current
    <2>4. ConsumedIsDelivered'
      BY <2>1, <2>2 DEF ConsumedIsDelivered, End
    <2> QED
      BY <2>1, <2>2, <2>3, <2>4
  <1>9. ASSUME NEW e \in Run, LogBatch(e) \/ ReturnBatch(e)
        PROVE  StreamInv'
    BY <1>1, <1>9 DEF LogBatch, ReturnBatch
  <1>10. ASSUME NEW e \in Run,
                RaiseInBatch(e) \/ FailBatch(e) \/ QueryFails(e) \/ Finish(e) \/ Crash(e)
         PROVE  StreamInv'
    <2>1. CASE RaiseInBatch(e)
      BY <1>1, <2>1 DEF RaiseInBatch
    <2>2. CASE FailBatch(e)
      BY <1>1, <2>2 DEF FailBatch
    <2>3. CASE QueryFails(e)
      BY <1>1, <2>3 DEF QueryFails
    <2>4. CASE Finish(e)
      BY <1>1, <2>4 DEF Finish
    <2>5. CASE Crash(e)
      BY <1>1, <2>5 DEF Crash
    <2> QED
      BY <1>10, <2>1, <2>2, <2>3, <2>4, <2>5
  <1>11. ASSUME NEW e \in Run, CommitBatch(e)
         PROVE  StreamInv'
    <2>1. /\ pc[e] = "returned" /\ pc' = [pc EXCEPT ![e] = "streaming"]
          /\ commits' = commits + 1 /\ offsets' = offsets /\ commits < Len(offsets)
          /\ UNCHANGED <<source, target, tables, upto, status>>
      BY <1>11 DEF CommitBatch
    <2>2. End(commits)' = End(Current)
      BY <2>1 DEF End, Current
    <2>3. End(commits) \in Nat /\ End(Current) \in 0..MaxRow
      BY <2>1 DEF End, Current, Row
    <2>4. 1..End(Current) \subseteq Delivered
      <3> SUFFICES ASSUME NEW n \in 1..End(Current)
                   PROVE  n \in Delivered
        OBVIOUS
      <3>1. n \in 1..End(commits) \/ n \in BatchRows
        BY <2>3 DEF BatchRows, Row
      <3>2. BatchRows \subseteq Delivered
        BY <2>1
      <3> QED
        BY <3>1, <3>2 DEF ConsumedIsDelivered
    <2>5. ConsumedIsDelivered'
      BY <1>2, <2>1, <2>2, <2>4 DEF ConsumedIsDelivered
    <2>6. OffsetsGrow'
      BY <2>1 DEF OffsetsGrow
    <2> QED
      BY <2>1, <2>5, <2>6
  <1>12. CASE Arrive \/ UNCHANGED vars
    BY <1>1, <1>12 DEF Arrive, vars
  <1> QED
    BY <1>3, <1>4, <1>5, <1>6, <1>7, <1>8, <1>9, <1>10, <1>11, <1>12
    DEF Next, Step, Finished

\* The stream starts where at-least-once delivery starts.
LEMMA DeliveryInit == Init => Delivery!Init
  BY DEF Init, Delivery!Init, End, Delivered

\* Every step delivers rows, advances over delivered rows, or does neither.
LEMMA DeliveryStep ==
  ASSUME OptionsKey = None \/ Policy = "always_run", DryRun = {},
         StreamInv, StreamInv', [Next]_vars
  PROVE  [Delivery!Next]_(Delivery!deliveryVars)
  <1> DEFINE Goal == Delivery!Deliver \/ Delivery!Advance \/ UNCHANGED <<End(commits), Delivered>>
  <1> USE DEF StreamInv, TypeOK, checkpoint, tables
  <1>1. ASSUME UNCHANGED <<offsets, commits, target>>
        PROVE  UNCHANGED <<End(commits), Delivered>>
    BY <1>1 DEF End, Delivered
  <1>2. ASSUME NEW e \in Run, PlanBatch(e)
        PROVE  UNCHANGED <<End(commits), Delivered>>
    BY <1>2 DEF PlanBatch, End, Delivered
  <1>3. ASSUME NEW e \in Run, WriteBatch(e)
        PROVE  Delivery!Deliver
    <2>1. Delivered \subseteq Delivered'
      BY <1>3 DEF WriteBatch, Delivered
    <2>2. End(commits)' = End(commits)
      BY <1>3 DEF WriteBatch, End
    <2> QED
      BY <2>1, <2>2 DEF Delivery!Deliver
  <1>4. ASSUME NEW e \in Run, CommitBatch(e)
        PROVE  Delivery!Advance
    <2>1. commits < Len(offsets) /\ commits' = commits + 1 /\ UNCHANGED <<offsets, target>>
      BY <1>4 DEF CommitBatch, BatchIsPlanned
    <2>2. Delivered' = Delivered
      BY <2>1 DEF Delivered
    <2>3. End(commits)' = End(Current) /\ End(commits) < End(Current)
      BY <2>1 DEF End, Current, OffsetsGrow
    <2>4. End(commits) \in Nat /\ End(Current) \in Nat
      BY <2>1, MaxRowAssumption DEF End, Current, Row
    <2>5. 1..End(commits)' \subseteq Delivered
      BY <2>2 DEF ConsumedIsDelivered
    <2>6. End(commits) <= End(commits)'
      BY <2>3, <2>4
    <2> QED
      BY <2>2, <2>5, <2>6 DEF Delivery!Advance
  <1>5. ASSUME NEW e \in Run, Step(e) \/ Start(e) \/ RaiseInBatch(e) \/ QueryFails(e) \/ Crash(e),
               ~PlanBatch(e), ~WriteBatch(e), ~CommitBatch(e)
        PROVE  UNCHANGED <<offsets, commits, target>>
    BY <1>5 DEF Step, Start, RaiseInBatch, QueryFails, Crash, ReplayBatch, Exhausted,
                CheckBatch, SkipBatch, PreviewBatch, LogBatch, ReturnBatch, FailBatch, Finish
  <1>6. CASE Arrive \/ UNCHANGED vars
    BY <1>1, <1>6 DEF Arrive, vars, Delivery!deliveryVars
  <1> QED
    BY <1>1, <1>2, <1>3, <1>4, <1>5, <1>6
    DEF Next, Finished, Step, Delivery!Next, Delivery!deliveryVars

\* Without a key in force and outside dry runs, whatever fails or dies, the
\* checkpoint passes a row only once it is in the target, and no delivered row
\* is lost (run_available_now_stream).
THEOREM StreamDeliversAtLeastOnce ==
  ASSUME OptionsKey = None \/ Policy = "always_run", DryRun = {}
  PROVE  Spec => DeliverySpec
  <1>1. StreamInv /\ [Next]_vars => StreamInv'
    BY StreamStep
  <1>2. StreamInv /\ StreamInv' /\ [Next]_vars => [Delivery!Next]_(Delivery!deliveryVars)
    BY DeliveryStep
  <1> QED
    BY <1>1, <1>2, StreamInit, DeliveryInit, PTL DEF Spec, DeliverySpec, Delivery!Spec

-----------------------------------------------------------------------------
(* What holds under every key, policy and dry run *)

\* An execution that has not come to its end has not failed, and has no outcome.
OutcomeComesLast ==
    \A e \in Run:
        /\ pc[e] \in {"idle"} \cup (Alive \ {"stopping"}) => status[e] = "SUCCESS"
        /\ streams[e] = "SUCCESS" => pc[e] = "done"

\* The query ends well when it has caught up.
StopsCaughtUp ==
    \A e \in Run: pc[e] = "stopping" /\ status[e] = "SUCCESS" => End(commits) >= upto[e]

ShapeInv ==
    /\ TypeOK
    /\ OneAtATime
    /\ BatchIsPlanned
    /\ OffsetsGrow
    /\ OutcomeComesLast

\* The position of the stream is a row or zero.
LEMMA PositionType ==
  ASSUME TypeOK
  PROVE  /\ End(commits) \in 0..MaxRow
         /\ commits < Len(offsets) => End(Current) \in Row
  BY MaxRowAssumption DEF TypeOK, End, Current, Row

\* The stream starts in its shape.
LEMMA ShapeInit == Init => ShapeInv
  BY MaxRowAssumption, NoneAssumption, NullAssumption
  DEF Init, ShapeInv, TypeOK, OneAtATime, BatchIsPlanned, OffsetsGrow, OutcomeComesLast

\* Planning appends to the offset log and leaves the position alone.
LEMMA PlanningExtends ==
  ASSUME ShapeInv, NEW e \in Run, PlanBatch(e)
  PROVE  /\ offsets' \in Seq(Row) /\ Len(offsets') = Len(offsets) + 1
         /\ End(commits)' = End(commits) /\ End(commits) < End(Current)'
         /\ pc[e] = "streaming" /\ pc' = [pc EXCEPT ![e] = "batch"]
         /\ commits = Len(offsets)
         /\ UNCHANGED <<source, commits, target, runs, streams, upto, status>>
  <1> USE MaxRowAssumption DEF ShapeInv, TypeOK
  <1>1. PICK end \in Row: End(commits) < end /\ offsets' = Append(offsets, end)
    BY DEF PlanBatch
  <1>2. /\ commits = Len(offsets) /\ pc[e] = "streaming" /\ pc' = [pc EXCEPT ![e] = "batch"]
        /\ UNCHANGED <<source, commits, target, runs, streams, upto, status>>
    BY DEF PlanBatch, tables
  <1>3. offsets' \in Seq(Row) /\ Len(offsets') = Len(offsets) + 1
    BY <1>1
  <1>4. End(commits)' = End(commits) /\ End(Current)' = end
    BY <1>1, <1>2 DEF End, Current
  <1> QED
    BY <1>1, <1>2, <1>3, <1>4

\* A commit moves the position to the end of the batch at work.
LEMMA CommitAdvances ==
  ASSUME ShapeInv, NEW e \in Run, CommitBatch(e)
  PROVE  /\ commits' = commits + 1 /\ commits < Len(offsets)
         /\ End(commits)' = End(Current) /\ End(commits) < End(Current)
         /\ pc[e] = "returned" /\ pc' = [pc EXCEPT ![e] = "streaming"]
         /\ UNCHANGED <<source, offsets, target, runs, streams, upto, status>>
  BY DEF ShapeInv, TypeOK, BatchIsPlanned, OffsetsGrow, CommitBatch, End, Current, tables

\* Whoever plans nothing and commits nothing leaves the checkpoint alone.
LEMMA CheckpointStands ==
  ASSUME [Next]_vars, \A e \in Run: ~PlanBatch(e) /\ ~CommitBatch(e)
  PROVE  UNCHANGED <<offsets, commits>>
  BY DEF Next, Step, Finished, vars, checkpoint, Start, ReplayBatch, Exhausted, CheckBatch,
         SkipBatch, PreviewBatch, WriteBatch, LogBatch, ReturnBatch, RaiseInBatch, FailBatch,
         QueryFails, Finish, Crash, Arrive

\* A live execution goes on, comes to stop or dies.
LEMMA ShapeMoves ==
  ASSUME ShapeInv, NEW e \in Run, NEW x \in Alive \cup {"crashed"},
         pc[e] \in Alive, pc[e] # "stopping", pc' = [pc EXCEPT ![e] = x],
         x \in InBatch \cup {"returned"} => commits < Len(offsets),
         UNCHANGED <<source, offsets, commits, upto, streams>>, target' \in [Row -> Nat],
         status' = status \/ (x = "stopping" /\ status' = [status EXCEPT ![e] = "FAILED"])
  PROVE  ShapeInv'
  <1> USE NullAssumption DEF ShapeInv
  <1>1. TypeOK'
    BY DEF TypeOK
  <1>2. OneAtATime'
    BY DEF TypeOK, OneAtATime
  <1>3. BatchIsPlanned' /\ OffsetsGrow'
    BY DEF TypeOK, BatchIsPlanned, OffsetsGrow, End, Current
  <1>4. OutcomeComesLast'
    BY DEF TypeOK, OutcomeComesLast
  <1> QED
    BY <1>1, <1>2, <1>3, <1>4

\* Every step keeps the shape.
LEMMA ShapeStep == ShapeInv /\ [Next]_vars => ShapeInv'
  <1> SUFFICES ASSUME ShapeInv, [Next]_vars
               PROVE  ShapeInv'
    OBVIOUS
  <1> USE MaxRowAssumption, NullAssumption DEF checkpoint, tables
  <1>0. TypeOK /\ target \in [Row -> Nat]
    BY DEF ShapeInv, TypeOK
  <1>1. ASSUME NEW e \in Run, PlanBatch(e)
        PROVE  ShapeInv'
    <2>1. /\ offsets' \in Seq(Row) /\ Len(offsets') = Len(offsets) + 1
          /\ commits = Len(offsets) /\ pc[e] = "streaming" /\ pc' = [pc EXCEPT ![e] = "batch"]
          /\ UNCHANGED <<source, commits, target, runs, streams, upto, status>>
      BY <1>1, PlanningExtends
    <2>2. TypeOK'
      BY <1>0, <2>1 DEF TypeOK
    <2>3. OneAtATime' /\ BatchIsPlanned' /\ OutcomeComesLast'
      BY <1>0, <2>1 DEF ShapeInv, TypeOK, OneAtATime, BatchIsPlanned, OutcomeComesLast
    <2>4. OffsetsGrow'
      BY <1>1, PlanningExtends DEF OffsetsGrow
    <2> QED
      BY <2>2, <2>3, <2>4 DEF ShapeInv
  <1>2. ASSUME NEW e \in Run, CommitBatch(e)
        PROVE  ShapeInv'
    <2>1. /\ commits' = commits + 1 /\ commits < Len(offsets)
          /\ pc[e] = "returned" /\ pc' = [pc EXCEPT ![e] = "streaming"]
          /\ UNCHANGED <<source, offsets, target, runs, streams, upto, status>>
      BY <1>2, CommitAdvances
    <2>2. TypeOK'
      BY <1>0, <2>1 DEF TypeOK
    <2>3. OneAtATime' /\ OutcomeComesLast'
      BY <1>0, <2>1 DEF ShapeInv, TypeOK, OneAtATime, OutcomeComesLast
    <2>4. BatchIsPlanned'
      BY <1>0, <2>1 DEF ShapeInv, TypeOK, OneAtATime, BatchIsPlanned
    <2>5. ~(commits' < Len(offsets'))
      BY <1>0, <2>1 DEF TypeOK
    <2> QED
      BY <2>2, <2>3, <2>4, <2>5 DEF ShapeInv, OffsetsGrow
  <1>3. ASSUME NEW e \in Run, Start(e)
        PROVE  ShapeInv'
    <2>1. TypeOK'
      BY <1>0, <1>3 DEF TypeOK, Start
    <2>2. OneAtATime' /\ BatchIsPlanned'
      BY <1>0, <1>3 DEF ShapeInv, TypeOK, Start, OneAtATime, BatchIsPlanned
    <2>3. OutcomeComesLast'
      BY <1>0, <1>3 DEF ShapeInv, TypeOK, Start, OutcomeComesLast
    <2>4. OffsetsGrow'
      BY <1>3 DEF ShapeInv, Start, OffsetsGrow, End, Current
    <2> QED
      BY <2>1, <2>2, <2>3, <2>4 DEF ShapeInv
  <1>4. ASSUME NEW e \in Run, Finish(e)
        PROVE  ShapeInv'
    <2>1. TypeOK'
      BY <1>0, <1>4 DEF TypeOK, Finish
    <2>2. OneAtATime' /\ BatchIsPlanned'
      BY <1>0, <1>4 DEF ShapeInv, TypeOK, Finish, OneAtATime, BatchIsPlanned
    <2>3. OutcomeComesLast'
      BY <1>0, <1>4 DEF ShapeInv, TypeOK, Finish, OutcomeComesLast
    <2>4. OffsetsGrow'
      BY <1>4 DEF ShapeInv, Finish, OffsetsGrow, End, Current
    <2> QED
      BY <2>1, <2>2, <2>3, <2>4 DEF ShapeInv
  <1>5. ASSUME NEW e \in Run, ReplayBatch(e) \/ Exhausted(e)
        PROVE  ShapeInv'
    BY <1>0, <1>5, ShapeMoves DEF ReplayBatch, Exhausted
  <1>6. ASSUME NEW e \in Run, pc[e] \in InBatch
        PROVE  commits < Len(offsets)
    BY <1>6 DEF ShapeInv, BatchIsPlanned
  <1>7. ASSUME NEW e \in Run, CheckBatch(e) \/ SkipBatch(e) \/ PreviewBatch(e)
        PROVE  ShapeInv'
    BY <1>0, <1>6, <1>7, ShapeMoves DEF CheckBatch, SkipBatch, PreviewBatch
  <1>8. ASSUME NEW e \in Run, WriteBatch(e)
        PROVE  ShapeInv'
    <2>1. target' \in [Row -> Nat]
      BY <1>0, <1>8 DEF WriteBatch
    <2> QED
      BY <1>6, <1>8, <2>1, ShapeMoves DEF WriteBatch
  <1>9. ASSUME NEW e \in Run, LogBatch(e) \/ ReturnBatch(e) \/ RaiseInBatch(e)
        PROVE  ShapeInv'
    BY <1>0, <1>6, <1>9, ShapeMoves DEF LogBatch, ReturnBatch, RaiseInBatch
  <1>10. ASSUME NEW e \in Run, FailBatch(e) \/ QueryFails(e)
         PROVE  ShapeInv'
    BY <1>0, <1>10, ShapeMoves DEF FailBatch, QueryFails
  <1>11. ASSUME NEW e \in Run, Crash(e)
         PROVE  ShapeInv'
    <2>1. CASE pc[e] # "stopping"
      BY <1>0, <1>11, <2>1, ShapeMoves DEF Crash
    <2>2. CASE pc[e] = "stopping"
      <3>1. TypeOK' /\ OneAtATime' /\ OutcomeComesLast'
        BY <1>0, <1>11, <2>2 DEF ShapeInv, TypeOK, Crash, OneAtATime, OutcomeComesLast
      <3>2. BatchIsPlanned' /\ OffsetsGrow'
        BY <1>0, <1>11, <2>2
        DEF ShapeInv, TypeOK, Crash, BatchIsPlanned, OffsetsGrow, End, Current
      <3> QED
        BY <3>1, <3>2 DEF ShapeInv
    <2> QED
      BY <2>1, <2>2
  <1>12. CASE Arrive \/ UNCHANGED vars
    BY <1>12
    DEF Arrive, vars, ShapeInv, TypeOK, OneAtATime, BatchIsPlanned, OutcomeComesLast,
        OffsetsGrow, End, Current
  <1> QED
    BY <1>1, <1>2, <1>3, <1>4, <1>5, <1>7, <1>8, <1>9, <1>10, <1>11, <1>12
    DEF Next, Step, Finished

\* The types, and the shape of the checkpoint that Spark guarantees, for every key,
\* policy and choice of dry runs.
THEOREM StreamTypes == Spec => []TypeOK
  <1>1. ShapeInv => TypeOK
    BY DEF ShapeInv
  <1> QED
    BY <1>1, ShapeInit, ShapeStep, PTL DEF Spec

CaughtUpInv == ShapeInv /\ StopsCaughtUp /\ SuccessMeansCaughtUp

\* The position of the stream never goes back.
LEMMA PositionGrows ==
  ASSUME ShapeInv, [Next]_vars
  PROVE  End(commits) <= End(commits)' /\ End(commits)' \in Nat
  <1>0. End(commits) \in Nat
    BY PositionType, MaxRowAssumption DEF ShapeInv
  <1>1. CASE \E e \in Run: PlanBatch(e)
    BY <1>0, <1>1, PlanningExtends
  <1>2. CASE \E e \in Run: CommitBatch(e)
    BY <1>0, <1>2, CommitAdvances, PositionType, MaxRowAssumption DEF ShapeInv, Row
  <1>3. CASE UNCHANGED <<offsets, commits>>
    BY <1>0, <1>3 DEF End
  <1> QED
    BY <1>1, <1>2, <1>3, CheckpointStands

\* A step that ends no query and starts none keeps what was caught up.
LEMMA CaughtUpStep == CaughtUpInv /\ [Next]_vars => CaughtUpInv'
  <1> SUFFICES ASSUME CaughtUpInv, [Next]_vars
               PROVE  CaughtUpInv'
    OBVIOUS
  <1>1. ShapeInv' /\ ShapeInv
    BY ShapeStep DEF CaughtUpInv
  <1>2. End(commits) <= End(commits)' /\ End(commits)' \in Nat /\ End(commits) \in Nat
    BY <1>1, PositionGrows, PositionType, MaxRowAssumption DEF ShapeInv
  <1>3. \A e \in Run: upto[e] \in Nat /\ upto'[e] \in Nat
    BY <1>1, MaxRowAssumption DEF ShapeInv, TypeOK
  <1> USE <1>2, <1>3, NoneAssumption, NullAssumption DEF checkpoint, tables, StopsCaughtUp, SuccessMeansCaughtUp
  <1> DEFINE Goal == StopsCaughtUp' /\ SuccessMeansCaughtUp'
  <1>4. ASSUME UNCHANGED <<upto, status, streams>>,
               \A e \in Run: pc'[e] = "stopping" => pc[e] = "stopping"
        PROVE  Goal
    BY <1>4 DEF CaughtUpInv
  <1> USE DEF CaughtUpInv
  <1>5. ASSUME NEW e \in Run, Start(e)
        PROVE  Goal
    <2>1. pc[e] = "idle" /\ pc' = [pc EXCEPT ![e] = "streaming"]
          /\ upto' = [upto EXCEPT ![e] = source] /\ UNCHANGED status
          /\ streams' = [streams EXCEPT ![e] = IF e \in DryRun THEN None ELSE "RUNNING"]
      BY <1>5 DEF Start
    <2>2. \A f \in Run: f # e => upto'[f] = upto[f] /\ streams'[f] = streams[f] /\ pc'[f] = pc[f]
      BY <1>1, <2>1 DEF ShapeInv, TypeOK
    <2>3. pc'[e] = "streaming" /\ streams'[e] # "SUCCESS"
      BY <1>1, <2>1 DEF ShapeInv, TypeOK
    <2> QED
      BY <2>1, <2>2, <2>3
  <1>6. ASSUME NEW e \in Run, Exhausted(e)
        PROVE  Goal
    BY <1>1, <1>6 DEF Exhausted, ShapeInv, TypeOK
  <1>7. ASSUME NEW e \in Run, FailBatch(e) \/ QueryFails(e)
        PROVE  Goal
    BY <1>1, <1>7 DEF FailBatch, QueryFails, ShapeInv, TypeOK
  <1>8. ASSUME NEW e \in Run, Finish(e)
        PROVE  Goal
    BY <1>1, <1>8 DEF Finish, ShapeInv, TypeOK
  <1>9. ASSUME NEW e \in Run,
               \/ ReplayBatch(e) \/ PlanBatch(e) \/ CheckBatch(e) \/ SkipBatch(e)
               \/ PreviewBatch(e) \/ WriteBatch(e) \/ LogBatch(e) \/ ReturnBatch(e)
               \/ CommitBatch(e) \/ RaiseInBatch(e) \/ Crash(e)
        PROVE  Goal
    BY <1>1, <1>4, <1>9
    DEF ReplayBatch, PlanBatch, CheckBatch, SkipBatch, PreviewBatch, WriteBatch, LogBatch,
        ReturnBatch, CommitBatch, RaiseInBatch, Crash, ShapeInv, TypeOK
  <1>10. ASSUME Arrive \/ UNCHANGED vars
         PROVE  Goal
    <2>1. UNCHANGED <<upto, status, streams, pc>>
      BY <1>10 DEF Arrive, vars
    <2> QED
      BY <1>4, <2>1
  <1> QED
    BY <1>1, <1>5, <1>6, <1>7, <1>8, <1>9, <1>10 DEF Next, Step, Finished, CaughtUpInv

\* An execution recorded as SUCCESS has passed every row that was there when it
\* started (awaitTermination and finish_stream_log).
THEOREM SuccessIsCaughtUp == Spec => []SuccessMeansCaughtUp
  <1>1. Init => CaughtUpInv
    <2> SUFFICES ASSUME Init
                 PROVE  CaughtUpInv
      OBVIOUS
    <2>1. ShapeInv
      BY ShapeInit
    <2> QED
      BY <2>1, NoneAssumption, NullAssumption DEF Init, CaughtUpInv, StopsCaughtUp, SuccessMeansCaughtUp
  <1>2. CaughtUpInv => SuccessMeansCaughtUp
    BY DEF CaughtUpInv
  <1> QED
    BY <1>1, <1>2, CaughtUpStep, PTL DEF Spec

\* The batch at work has its evidence before the callback returns.
BatchIsLogged ==
    \A e \in Run: pc[e] \in {"logged", "returned"} =>
        \E row \in runs: row.run[2] = Current /\ row.status \in {"SUCCESS", "SKIPPED"}

LoggedBatches ==
    \A b \in 1..commits:
        \E row \in runs: row.run[2] = b /\ row.status \in {"SUCCESS", "SKIPPED"}

LoggedInv == ShapeInv /\ BatchIsLogged /\ LoggedBatches

\* The row of a batch names the batch at work.
LEMMA RowOfBatch ==
  ASSUME NEW e, NEW s
  PROVE  ChildRow(e, s).run[2] = Current /\ ChildRow(e, s).status = s
  BY DEF ChildRow, RunLogRow

\* Every step keeps the evidence of the batches.
LEMMA LoggedStep ==
  ASSUME DryRun = {}, LoggedInv, [Next]_vars
  PROVE  LoggedInv'
  <1> USE DEF LoggedInv, BatchIsLogged, LoggedBatches, checkpoint, tables
  <1>1. ShapeInv' /\ ShapeInv /\ TypeOK
    BY ShapeStep DEF ShapeInv
  <1>2. ASSUME UNCHANGED commits, runs \subseteq runs',
               \A e \in Run: pc'[e] \in {"logged", "returned"} => pc[e] \in {"logged", "returned"}
        PROVE  LoggedInv'
    BY <1>1, <1>2 DEF Current
  <1>3. ASSUME NEW e \in Run, SkipBatch(e)
        PROVE  LoggedInv'
    <2>1. ChildRow(e, "SKIPPED") \in runs' /\ runs \subseteq runs' /\ commits' = commits
      BY <1>3 DEF SkipBatch
    <2> QED
      BY <1>1, <2>1, RowOfBatch DEF Current
  <1>4. ASSUME NEW e \in Run, LogBatch(e)
        PROVE  LoggedInv'
    <2>1. ChildRow(e, "SUCCESS") \in runs' /\ runs \subseteq runs' /\ commits' = commits
      BY <1>4 DEF LogBatch
    <2> QED
      BY <1>1, <2>1, RowOfBatch DEF Current
  <1>5. ASSUME NEW e \in Run, CommitBatch(e)
        PROVE  LoggedInv'
    <2>1. /\ commits' = commits + 1 /\ commits \in Nat
          /\ pc[e] = "returned" /\ pc' = [pc EXCEPT ![e] = "streaming"] /\ UNCHANGED runs
      BY <1>1, <1>5, CommitAdvances DEF TypeOK
    <2>2. \A b \in 1..commits': b \in 1..commits \/ b = Current
      BY <2>1 DEF Current
    <2>3. LoggedBatches'
      BY <2>1, <2>2
    <2>4. \A f \in Run: pc'[f] \notin {"logged", "returned"}
      BY <1>1, <2>1 DEF ShapeInv, OneAtATime, TypeOK
    <2> QED
      BY <1>1, <2>3, <2>4
  <1>6. ASSUME NEW e \in Run, FailBatch(e)
        PROVE  LoggedInv'
    BY <1>1, <1>2, <1>6 DEF FailBatch, TypeOK
  <1>7. ASSUME NEW e \in Run, ReturnBatch(e)
        PROVE  LoggedInv'
    BY <1>1, <1>2, <1>7 DEF ReturnBatch, TypeOK
  <1>8. ASSUME NEW e \in Run,
               \/ Start(e) \/ ReplayBatch(e) \/ PlanBatch(e) \/ Exhausted(e) \/ CheckBatch(e)
               \/ WriteBatch(e) \/ RaiseInBatch(e) \/ QueryFails(e) \/ Finish(e) \/ Crash(e)
        PROVE  LoggedInv'
    <2>1. UNCHANGED <<commits, runs>>
      BY <1>8 DEF Start, ReplayBatch, PlanBatch, Exhausted, CheckBatch, WriteBatch,
                  RaiseInBatch, QueryFails, Finish, Crash
    <2>2. \A f \in Run: pc'[f] \in {"logged", "returned"} => pc[f] \in {"logged", "returned"}
      BY <1>1, <1>8
      DEF Start, ReplayBatch, PlanBatch, Exhausted, CheckBatch, WriteBatch, RaiseInBatch,
          QueryFails, Finish, Crash, TypeOK
    <2> QED
      BY <1>2, <2>1, <2>2
  <1>9. ASSUME NEW e \in Run, PreviewBatch(e)
        PROVE  FALSE
    BY <1>9 DEF PreviewBatch
  <1>10. CASE Arrive \/ UNCHANGED vars
    <2>1. UNCHANGED <<commits, runs, pc>>
      BY <1>10 DEF Arrive, vars
    <2> QED
      BY <1>2, <2>1
  <1> QED
    BY <1>3, <1>4, <1>5, <1>6, <1>7, <1>8, <1>9, <1>10 DEF Next, Step, Finished

\* The commit log passes no batch that only failed: each has a child run that ended
\* well, under every key (process_batch raises for a FAILED result).
THEOREM CommittedBatchesAreLogged == Spec => []CommitsHaveEvidence
  <1>1. Init => LoggedInv
    <2> SUFFICES ASSUME Init
                 PROVE  LoggedInv
      OBVIOUS
    <2>1. ShapeInv
      BY ShapeInit
    <2> QED
      BY <2>1 DEF Init, LoggedInv, BatchIsLogged, LoggedBatches
  <1>2. CASE DryRun = {}
    <2>1. LoggedInv /\ [Next]_vars => LoggedInv'
      BY <1>2, LoggedStep
    <2>2. LoggedInv => CommitsHaveEvidence
      BY DEF LoggedInv, LoggedBatches, CommitsHaveEvidence
    <2> QED
      BY <1>1, <2>1, <2>2, PTL DEF Spec
  <1>3. CASE DryRun # {}
    <2>1. CommitsHaveEvidence
      BY <1>3 DEF CommitsHaveEvidence
    <2> QED
      BY <2>1, PTL
  <1> QED
    BY <1>2, <1>3

-----------------------------------------------------------------------------
(* Copies *)

Broken == {e \in Run: pc[e] = "crashed" \/ status[e] = "FAILED"}

\* An execution that may have written the batch at work.
Pending(e) == pc[e] \in {"written", "logged", "returned", "failing"}

\* A row beyond the position has one copy for each broken execution, and one more
\* if it is in the batch of an execution that may still break.
CopiesAreCounted ==
    \A n \in Row:
        \/ target[n] <= Cardinality(Broken)
        \/ /\ target[n] <= 1 + Cardinality(Broken)
           /\ n <= End(commits) \/ (n \in BatchRows /\ \E e \in Run: Pending(e))

CopiesInv == ShapeInv /\ CopiesAreCounted

\* A broken execution stays broken, so that their number does not fall; it grows
\* with each execution that breaks.
LEMMA BrokenGrows ==
  ASSUME IsFiniteSet(Run), ShapeInv, [Next]_vars
  PROVE  /\ Cardinality(Broken) \in Nat /\ Cardinality(Broken') \in Nat
         /\ Cardinality(Broken) <= Cardinality(Broken')
         /\ (\E e \in Run: e \in Broken' /\ e \notin Broken)
            => Cardinality(Broken) + 1 <= Cardinality(Broken')
  <1>1. Broken \subseteq Broken'
    <2> USE DEF Broken, ShapeInv, TypeOK
    <2>1. ASSUME NEW e \in Run, Start(e) \/ Step(e) \/ RaiseInBatch(e)
          PROVE  Broken \subseteq Broken'
      BY <2>1 DEF Start, Step, ReplayBatch, PlanBatch, Exhausted, CheckBatch, SkipBatch,
                  PreviewBatch, WriteBatch, LogBatch, ReturnBatch, FailBatch, CommitBatch,
                  Finish, RaiseInBatch
    <2>2. ASSUME NEW e \in Run, QueryFails(e) \/ Crash(e)
          PROVE  Broken \subseteq Broken'
      BY <2>2 DEF QueryFails, Crash
    <2> QED
      BY <2>1, <2>2 DEF Next, Arrive, Finished, vars
  <1>2. Broken \subseteq Run /\ Broken' \subseteq Run
    BY DEF Broken
  <1>3. IsFiniteSet(Broken) /\ IsFiniteSet(Broken')
    BY <1>2, FS_Subset
  <1>4. Cardinality(Broken) \in Nat /\ Cardinality(Broken') \in Nat
    BY <1>3, FS_CardinalityType
  <1>5. Cardinality(Broken) <= Cardinality(Broken')
    BY <1>1, <1>3, FS_Subset
  <1>6. ASSUME NEW e \in Run, e \in Broken', e \notin Broken
        PROVE  Cardinality(Broken) + 1 <= Cardinality(Broken')
    <2>1. Cardinality(Broken) # Cardinality(Broken')
      BY <1>1, <1>3, <1>6, FS_Subset
    <2> QED
      BY <1>4, <1>5, <2>1
  <1> QED
    BY <1>4, <1>5, <1>6

\* Who is alive and has not come to stop is not broken yet.
LEMMA AliveIsNotBroken ==
  ASSUME ShapeInv, NEW e \in Run, pc[e] \in Alive, pc[e] # "stopping"
  PROVE  e \notin Broken
  BY DEF ShapeInv, OutcomeComesLast, Broken

\* Every step keeps the count.
LEMMA CopiesStep ==
  ASSUME IsFiniteSet(Run), CopiesInv, [Next]_vars
  PROVE  CopiesInv'
  <1>1. ShapeInv' /\ ShapeInv /\ TypeOK
    BY ShapeStep DEF CopiesInv, ShapeInv
  <1>2. /\ Cardinality(Broken) \in Nat /\ Cardinality(Broken') \in Nat
        /\ Cardinality(Broken) <= Cardinality(Broken')
        /\ (\E e \in Run: e \in Broken' /\ e \notin Broken)
           => Cardinality(Broken) + 1 <= Cardinality(Broken')
    BY <1>1, BrokenGrows
  <1>3. target \in [Row -> Nat] /\ target' \in [Row -> Nat]
    BY <1>1 DEF ShapeInv, TypeOK
  <1> USE <1>1, <1>2, <1>3 DEF CopiesInv, CopiesAreCounted, checkpoint, tables
  <1>4. ASSUME NEW e \in Run, pc[e] \in Alive, ~Pending(e), UNCHANGED target,
               End(commits)' = End(commits)
        PROVE  CopiesInv'
    <2>1. \A f \in Run: ~Pending(f)
      BY <1>4 DEF ShapeInv, OneAtATime, Pending
    <2> QED
      BY <1>4, <2>1
  <1>5. ASSUME NEW e \in Run, pc[e] \in Alive, pc[e] # "stopping", pc'[e] = "crashed" \/ status'[e] = "FAILED",
               UNCHANGED target, End(commits)' = End(commits)
        PROVE  CopiesInv'
    <2>1. e \in Broken' /\ e \notin Broken
      BY <1>5, AliveIsNotBroken DEF Broken
    <2> QED
      BY <1>5, <2>1
  <1>6. ASSUME NEW e \in Run, Pending(e), Pending(e)', UNCHANGED <<offsets, commits, target>>
        PROVE  CopiesInv'
    BY <1>6 DEF End, BatchRows, Current
  <1>7. ASSUME NEW e \in Run, Start(e)
        PROVE  CopiesInv'
    <2>1. \A f \in Run: ~Pending(f)
      BY <1>7 DEF Start, Pending
    <2> QED
      BY <1>7, <2>1 DEF Start, End
  <1>8. ASSUME NEW e \in Run,
               ReplayBatch(e) \/ Exhausted(e) \/ CheckBatch(e) \/ SkipBatch(e) \/ PreviewBatch(e)
        PROVE  CopiesInv'
    BY <1>4, <1>8
    DEF ReplayBatch, Exhausted, CheckBatch, SkipBatch, PreviewBatch, Pending, End
  <1>9. ASSUME NEW e \in Run, PlanBatch(e)
        PROVE  CopiesInv'
    <2>1. End(commits)' = End(commits) /\ pc[e] = "streaming" /\ UNCHANGED target
      BY <1>9, PlanningExtends
    <2> QED
      BY <1>4, <2>1 DEF Pending
  <1>10. ASSUME NEW e \in Run, WriteBatch(e)
         PROVE  CopiesInv'
    <2>1. /\ pc[e] = "checked" /\ Pending(e)' /\ UNCHANGED <<offsets, commits>>
          /\ \A n \in Row: target'[n] = IF n \in BatchRows THEN target[n] + 1 ELSE target[n]
      BY <1>10 DEF WriteBatch, Pending, TypeOK
    <2>2. \A f \in Run: ~Pending(f)
      BY <2>1 DEF ShapeInv, OneAtATime, Pending
    <2>3. BatchRows' = BatchRows /\ End(commits)' = End(commits)
      BY <2>1 DEF BatchRows, End, Current
    <2>4. End(commits) \in Nat
      BY PositionType, MaxRowAssumption
    <2>5. ASSUME NEW n \in Row
          PROVE  \/ target'[n] <= Cardinality(Broken')
                 \/ /\ target'[n] <= 1 + Cardinality(Broken')
                    /\ n <= End(commits)' \/ (n \in BatchRows' /\ \E f \in Run: Pending(f)')
      <3>1. CASE n \in BatchRows
        <4>1. ~(n <= End(commits))
          BY <2>4, <3>1 DEF BatchRows, Row
        <4>2. target[n] <= Cardinality(Broken)
          BY <2>2, <4>1
        <4> QED
          BY <2>1, <2>3, <3>1, <4>2
      <3>2. CASE n \notin BatchRows
        BY <2>1, <2>2, <2>3, <3>2
      <3> QED
        BY <3>1, <3>2
    <2> QED
      BY <2>5
  <1>11. ASSUME NEW e \in Run, LogBatch(e) \/ ReturnBatch(e)
         PROVE  CopiesInv'
    BY <1>6, <1>11 DEF LogBatch, ReturnBatch, Pending, TypeOK
  <1>12. ASSUME NEW e \in Run, RaiseInBatch(e)
         PROVE  CopiesInv'
    <2>1. CASE Pending(e)
      BY <1>6, <1>12, <2>1 DEF RaiseInBatch, Pending, TypeOK
    <2>2. CASE ~Pending(e)
      BY <1>4, <1>12, <2>2 DEF RaiseInBatch, End
    <2> QED
      BY <2>1, <2>2
  <1>13. ASSUME NEW e \in Run, FailBatch(e) \/ QueryFails(e)
         PROVE  CopiesInv'
    BY <1>5, <1>13 DEF FailBatch, QueryFails, TypeOK, End
  <1>14. ASSUME NEW e \in Run, Crash(e)
         PROVE  CopiesInv'
    <2>1. CASE pc[e] = "stopping"
      BY <1>4, <1>14, <2>1 DEF Crash, Pending, End
    <2>2. CASE pc[e] # "stopping"
      BY <1>5, <1>14, <2>2 DEF Crash, TypeOK, End
    <2> QED
      BY <2>1, <2>2
  <1>15. ASSUME NEW e \in Run, CommitBatch(e)
         PROVE  CopiesInv'
    <2>1. End(commits)' = End(Current) /\ End(commits) < End(Current) /\ UNCHANGED target
      BY <1>15, CommitAdvances
    <2>2. End(commits) \in Nat /\ End(Current) \in Nat
      BY <1>15, CommitAdvances, PositionType, MaxRowAssumption DEF Row
    <2>3. \A n \in Row: n <= End(commits) \/ n \in BatchRows => n <= End(commits)'
      BY <2>1, <2>2 DEF BatchRows, Row
    <2> QED
      BY <2>1, <2>3
  <1>16. ASSUME NEW e \in Run, Finish(e)
         PROVE  CopiesInv'
    BY <1>4, <1>16 DEF Finish, Pending, End
  <1>17. CASE Arrive \/ UNCHANGED vars
    <2>1. UNCHANGED <<offsets, commits, target, pc>>
      BY <1>17 DEF Arrive, vars
    <2> QED
      BY <2>1 DEF End, BatchRows, Current, Pending
  <1> QED
    BY <1>7, <1>8, <1>9, <1>10, <1>11, <1>12, <1>13, <1>14, <1>15, <1>16, <1>17
    DEF Next, Step, Finished

\* Under every key and policy, each copy of a row beyond the first has been paid for
\* by an execution that failed or died (foreachBatch is run again after a failure).
THEOREM CopiesCostFailures ==
  ASSUME IsFiniteSet(Run)
  PROVE  Spec => []EveryCopyCostsAFailure
  <1>1. Init => CopiesInv
    <2> SUFFICES ASSUME Init
                 PROVE  CopiesInv
      OBVIOUS
    <2>1. ShapeInv
      BY ShapeInit
    <2>2. Broken = {}
      BY DEF Init, Broken
    <2> QED
      BY <2>1, <2>2, FS_EmptySet DEF Init, CopiesInv, CopiesAreCounted
  <1>2. CopiesInv /\ [Next]_vars => CopiesInv'
    BY CopiesStep
  <1>3. CopiesInv => EveryCopyCostsAFailure
    <2> SUFFICES ASSUME CopiesInv
                 PROVE  EveryCopyCostsAFailure
      OBVIOUS
    <2>1. Broken \subseteq Run
      BY DEF Broken
    <2>2. Cardinality(Broken) \in Nat
      BY <2>1, FS_Subset, FS_CardinalityType
    <2>3. target \in [Row -> Nat]
      BY DEF CopiesInv, ShapeInv, TypeOK
    <2>4. \A n \in Row: target[n] <= 1 + Cardinality(Broken)
      BY <2>2, <2>3 DEF CopiesInv, CopiesAreCounted
    <2> QED
      BY <2>4 DEF EveryCopyCostsAFailure, Broken
  <1> QED
    BY <1>1, <1>2, <1>3, PTL DEF Spec

=============================================================================
