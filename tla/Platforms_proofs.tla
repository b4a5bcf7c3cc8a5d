-------------------------- MODULE Platforms_proofs ---------------------------
(***************************************************************************)
(* What the runners of four adapters promise, for every set of runs, every *)
(* source, contract, list of windows, lease and clock, and every           *)
(* interleaving.  The bookmark of AWS delivers at least once and the       *)
(* checkpoint of Fabric loses only the rows of lost runs; the quality gate *)
(* holds; a success has its state row and its rows; no watermark passes    *)
(* silently over a row; a row is written twice to Snowflake only for a     *)
(* reason; and the locks are leases.  One invariant per runner, and All    *)
(* for the four together.                                                  *)
(***************************************************************************)
EXTENDS Platforms, FiniteSetTheorems, TLAPS

Batch == platform = "aws" /\ ~contract.stream
Micro == platform = "aws" /\ contract.stream

\* The types that the other invariants rest on.
Shape ==
    /\ platform \in {"snowflake", "fabric", "aws", "databricks"}
    /\ source \in Nat /\ bookmark \in Nat /\ planned \in Nat
    /\ platform \in {"fabric", "aws"} => low \in [Run -> Nat]
    /\ top \in [Run -> Nat]
    /\ wrote = [r \in Run |-> wrote[r]]
    /\ quarantined = [r \in Run |-> quarantined[r]]
    /\ applied = [r \in Run |-> applied[r]]
    /\ pc = [r \in Run |-> pc[r]]

\* The positions before the write of a run that writes in one statement.
Ahead == {"idle", "skipping", "checked", "merged", "locked", "ready", "cleared", "streamed",
          "gate", "quarantining", "sift", "clean"}
Unwritten ==
    platform \in {"snowflake", "fabric"} \/ Batch
    => \A r \in Run: pc[r] \in Ahead => wrote[r] = {}

\* The rows of the run's file list that a rule it has applied refuses.
Refused(rules, rows) == {n \in rows: \E i \in rules: n \in contract.rules[i].bad}

Resting == {"idle", "done", "crashed"}
OneAtATime == \A r, q \in Run: pc[r] \notin Resting /\ pc[q] \notin Resting => r = q

\* What the batch job of AWS knows of the rows between the bookmark and the end
\* of its file list.
Files(r) == (low[r] + 1)..top[r]
Job(r) ==
    /\ top[r] <= source
    /\ pc[r] \in {"gate", "sift", "clean", "written"} => low[r] = bookmark /\ low[r] <= top[r]
    /\ pc[r] \in {"idle", "gate", "sift"} => applied[r] = {} /\ quarantined[r] = {}
    /\ pc[r] = "clean" => Refused(applied[r], Files(r)) \subseteq quarantined[r]
    /\ pc[r] = "written" => Files(r) \subseteq wrote[r] \cup quarantined[r]
JobInv ==
    Batch =>
        /\ OneAtATime
        /\ bookmark <= source
        /\ \A r \in Run: Job(r)
        /\ 1..bookmark \subseteq Accounted

\* And the streaming job of the batch that was planned.
Planned == (bookmark + 1)..planned
Piece(r) ==
    /\ pc[r] \in {"gate", "sift"} => applied[r] = {}
    /\ pc[r] = "clean" => Refused(applied[r], Planned) \subseteq quarantined[r]
    /\ pc[r] = "written" => Planned \subseteq wrote[r] \cup quarantined[r]
StreamInv ==
    Micro =>
        /\ OneAtATime
        /\ bookmark <= planned
        /\ \A r \in Run: Piece(r)
        /\ 1..bookmark \subseteq Accounted

\* The lock of a Fabric notebook: a run inside holds it, and a lease that still
\* runs is in the row.
Inside == {"locked", "cleared", "streamed", "gate", "quarantining", "written", "measured", "stated",
           "logged"}
Hold(r) ==
    /\ pc[r] = "idle" => lease[r] = 0 /\ ~held[r]
    /\ pc[r] = "merged" => ~held[r]
    /\ contract.lock /\ pc[r] \in Inside => held[r]
    /\ held[r] => lease[r] # 0 /\ (now <= lease[r] => lock.run = r /\ lock.status = "ACTIVE")
    /\ lock.run = r /\ lock.status = "ACTIVE" => lease[r] # 0 /\ lock.expires = lease[r]
HoldInv ==
    platform = "fabric" =>
        /\ lock \in LockRow /\ now \in Nat
        /\ lease \in [Run -> Nat] /\ held \in [Run -> BOOLEAN]
        /\ lock.status = "ACTIVE" => lock.run \in Run
        /\ \A r \in Run: Hold(r)

\* What a Fabric notebook knows of the rows that it took off its stream.
Holding == {"idle", "merged", "locked", "cleared"}
Finished == {"logged", "done", "leaked", "crashed"}
Succeeded(r) == \E row \in runLog: row.run = r /\ row.status = "SUCCESS"
Carry(r) ==
    /\ pc[r] \in Holding => low[r] = 0 /\ top[r] = 0
    /\ pc[r] \in Holding \cup {"streamed"} => applied[r] = {}
    /\ pc[r] = "streamed" => Files(r) \subseteq staged \cup late
    /\ pc[r] \in {"gate", "quarantining"} =>
          /\ Files(r) \subseteq late \cup (IF reads[r] THEN staged ELSE {})
          /\ Refused(applied[r], Files(r)) \subseteq quarantined[r] \cup late
    /\ pc[r] \in {"written", "measured", "stated"} \/ Succeeded(r) =>
          Files(r) \subseteq wrote[r] \cup quarantined[r] \cup late
    /\ Succeeded(r) => pc[r] \in Finished
CarryInv ==
    platform = "fabric" /\ contract.stream =>
        /\ reads \in [Run -> BOOLEAN]
        /\ \A r \in Run: Carry(r)
        /\ 1..bookmark \subseteq Accounted \cup InHand \cup late
        /\ contract.lock /\ late # {} => \E r \in Run: lease[r] # 0 /\ lease[r] < now

\* Nothing that was delivered is taken back, and the bookmark stands still or
\* passes over what was delivered.
Grows == \A r \in Run: wrote[r] \subseteq wrote'[r] /\ quarantined[r] \subseteq quarantined'[r]
Passes ==
    \/ bookmark' = bookmark
    \/ bookmark <= bookmark' /\ 1..bookmark' \subseteq Accounted /\ UNCHANGED <<wrote, quarantined>>

LEMMA AccountedGrows ==
    ASSUME Shape, Shape', Grows
    PROVE  Accounted \subseteq Accounted'
BY DEF Accounted, Grows, Shape

-----------------------------------------------------------------------------
(* The runners that have no bookmark *)

\* A step of the Snowflake runner.
LEMMA SnowflakeStep ==
    ASSUME Shape, Unwritten, platform = "snowflake", Snowflake!Next
    PROVE  Shape' /\ Unwritten' /\ Grows /\ bookmark' = bookmark /\ UNCHANGED given
<1> USE DEF Snowflake!data, Snowflake!given, Snowflake!control, Snowflake!locking, Snowflake!progress,
            Snowflake!locals, given
<1> DEFINE Goal == Shape' /\ Unwritten' /\ Grows /\ bookmark' = bookmark /\ UNCHANGED given
<1>1. ASSUME Snowflake!Arrive \/ Snowflake!Tick
      PROVE  Goal
      BY <1>1 DEF Snowflake!Arrive, Snowflake!Tick, Shape, Unwritten, Batch, Grows
<1>2. ASSUME NEW r \in Run,
             \/ Snowflake!LookUp(r) \/ Snowflake!LogSkip(r) \/ Snowflake!Unlocked(r)
             \/ Snowflake!Acquire(r) \/ Snowflake!ReadBack(r) \/ Snowflake!RecordState(r)
             \/ Snowflake!Raise(r) \/ Snowflake!FailState(r) \/ Snowflake!FailRun(r)
             \/ Snowflake!HandlerRaises(r) \/ Snowflake!Release(r) \/ Snowflake!ReleaseFails(r)
             \/ Snowflake!LogSuccess(r) \/ Snowflake!LogSuccessFails(r) \/ Snowflake!Crash(r)
      PROVE  Goal
      <2>1. UNCHANGED <<given, source, wrote, quarantined, bookmark, planned, low, top, applied>>
            BY <1>2 DEF Snowflake!LookUp, Snowflake!LogSkip, Snowflake!Unlocked, Snowflake!Acquire,
               Snowflake!ReadBack, Snowflake!RecordState, Snowflake!Raise, Snowflake!FailState,
               Snowflake!FailRun, Snowflake!HandlerRaises, Snowflake!Release, Snowflake!ReleaseFails,
               Snowflake!LogSuccess, Snowflake!LogSuccessFails, Snowflake!Crash
      <2>2. pc = [q \in Run |-> pc[q]]
            BY DEF Shape
      <2>3. /\ pc' = [q \in Run |-> pc'[q]] /\ \A q \in Run \ {r}: pc'[q] = pc[q]
            /\ pc'[r] \in Ahead => pc[r] \in Ahead
            BY <1>2, <2>2 DEF Snowflake!LookUp, Snowflake!LogSkip, Snowflake!Unlocked, Snowflake!Acquire,
               Snowflake!ReadBack, Snowflake!RecordState, Snowflake!Raise, Snowflake!FailState,
               Snowflake!FailRun, Snowflake!HandlerRaises, Snowflake!Release, Snowflake!ReleaseFails,
               Snowflake!LogSuccess, Snowflake!LogSuccessFails, Snowflake!Crash, Snowflake!Goto, Ahead
      <2> QED BY <2>1, <2>3 DEF Shape, Unwritten, Batch, Grows
<1>3. ASSUME NEW r \in Run,
             Snowflake!ReadState(r) \/ Snowflake!Count(r) \/ Snowflake!Evaluate(r)
             \/ Snowflake!Quarantine(r) \/ Snowflake!Measure(r)
      PROVE  Goal
      <2>1. UNCHANGED <<given, source, wrote, bookmark, planned>>
            BY <1>3 DEF Snowflake!ReadState, Snowflake!Count, Snowflake!Evaluate, Snowflake!Quarantine,
               Snowflake!Measure
      <2>2. /\ pc' = [q \in Run |-> pc'[q]] /\ \A q \in Run \ {r}: pc'[q] = pc[q]
            /\ pc'[r] \in Ahead => pc[r] \in Ahead
            BY <1>3 DEF Snowflake!ReadState, Snowflake!Count, Snowflake!Evaluate, Snowflake!Quarantine,
               Snowflake!Measure, Snowflake!Goto, Ahead, Shape
      <2>3. /\ quarantined' = [q \in Run |-> quarantined'[q]]
            /\ \A q \in Run: quarantined[q] \subseteq quarantined'[q]
            BY <1>3 DEF Snowflake!ReadState, Snowflake!Count, Snowflake!Evaluate, Snowflake!Quarantine,
               Snowflake!Measure, Shape, Snowflake!Failing, Snowflake!View
      <2>4. source' = source /\ top' \in [Run -> Nat] /\ applied' = [q \in Run |-> applied'[q]]
            BY <1>3 DEF Snowflake!ReadState, Snowflake!Count, Snowflake!Evaluate, Snowflake!Quarantine,
               Snowflake!Measure, Shape
      <2> QED BY <2>1, <2>2, <2>3, <2>4 DEF Shape, Unwritten, Batch, Grows
<1>4. ASSUME NEW r \in Run, Snowflake!Write(r)
      PROVE  Goal
      <2>1. pc[r] = "gate" /\ pc' = [pc EXCEPT ![r] = "written"]
            /\ wrote' = [wrote EXCEPT ![r] = Snowflake!View(r, source)]
            /\ UNCHANGED <<given, source, quarantined, bookmark, planned, low, top, applied>>
            BY <1>4 DEF Snowflake!Write, Snowflake!Goto
      <2>2. wrote[r] = {}
            BY <2>1 DEF Unwritten, Ahead
      <2> QED BY <2>1, <2>2 DEF Shape, Unwritten, Batch, Grows, Ahead
<1> QED BY <1>1, <1>2, <1>3, <1>4 DEF Snowflake!Next

\* A step of the window loop.
LEMMA WindowStep ==
    ASSUME Shape, platform = "databricks", Windowed!Next
    PROVE  Shape' /\ Grows /\ bookmark' = bookmark /\ UNCHANGED given
<1> USE DEF Windowed!data, Windowed!given, Windowed!control, Windowed!locking, Windowed!progress,
            Windowed!locals, given
<1> DEFINE Goal == Shape' /\ Grows /\ bookmark' = bookmark /\ UNCHANGED given
<1>1. ASSUME Windowed!Arrive
      PROVE  Goal
      BY <1>1 DEF Windowed!Arrive, Shape, Grows
<1>2. ASSUME NEW r \in Run,
             \/ Windowed!Plan(r) \/ Windowed!Prepare(r) \/ Windowed!PrepareFails(r)
             \/ Windowed!CheckKey(r) \/ Windowed!Measure(r) \/ Windowed!LogSuccess(r)
             \/ Windowed!RecordSuccess(r) \/ Windowed!LogSkip(r) \/ Windowed!RecordSkip(r)
             \/ Windowed!Raise(r) \/ Windowed!LogFailure(r) \/ Windowed!RecordFailure(r)
             \/ Windowed!Finish(r) \/ Windowed!Crash(r)
      PROVE  Goal
      <2>1. UNCHANGED <<given, source, wrote, quarantined, bookmark, planned, applied>>
            BY <1>2 DEF Windowed!Plan, Windowed!Prepare, Windowed!PrepareFails, Windowed!CheckKey,
               Windowed!Measure, Windowed!LogSuccess, Windowed!RecordSuccess, Windowed!LogSkip,
               Windowed!RecordSkip, Windowed!Raise, Windowed!LogFailure, Windowed!RecordFailure,
               Windowed!Finish, Windowed!Crash
      <2>2. top' \in [Run -> Nat] /\ pc' = [q \in Run |-> pc'[q]]
            BY <1>2 DEF Windowed!Plan, Windowed!Prepare, Windowed!PrepareFails, Windowed!CheckKey,
               Windowed!Measure, Windowed!LogSuccess, Windowed!RecordSuccess, Windowed!LogSkip,
               Windowed!RecordSkip, Windowed!Raise, Windowed!LogFailure, Windowed!RecordFailure,
               Windowed!Finish, Windowed!Crash, Windowed!Goto, Shape
      <2> QED BY <2>1, <2>2 DEF Shape, Grows
<1>3. ASSUME NEW r \in Run, Windowed!Write(r)
      PROVE  Goal
      BY <1>3 DEF Windowed!Write, Windowed!Goto, Shape, Grows
<1> QED BY <1>1, <1>2, <1>3 DEF Windowed!Next

-----------------------------------------------------------------------------
(* The batch job of AWS *)

\* What is the case of the run stays the case.
LEMMA JobRests ==
    ASSUME NEW q \in Run, Shape, Job(q), source' \in Nat, source <= source',
           UNCHANGED <<contract, wrote[q], quarantined[q], low[q], top[q], applied[q], pc[q]>>,
           bookmark' = bookmark \/ pc[q] \in Resting
    PROVE  Job(q)'
<1>1. Files(q)' = Files(q) /\ Refused(applied[q], Files(q))' = Refused(applied[q], Files(q))
      BY DEF Files, Refused
<1> QED BY <1>1 DEF Job, Resting, Shape

LEMMA JobStep ==
    ASSUME Shape, Unwritten, JobInv, Batch, Glue!Next
    PROVE  Shape' /\ Unwritten' /\ JobInv' /\ Grows /\ Passes /\ UNCHANGED given
<1> USE DEF Glue!data, Glue!given, Glue!control, Glue!locking, Glue!progress, Glue!locals, given
<1> DEFINE Goal == Shape' /\ Unwritten' /\ JobInv' /\ Grows /\ Passes /\ UNCHANGED given
<1>0. /\ OneAtATime /\ bookmark <= source /\ 1..bookmark \subseteq Accounted
      /\ \A q \in Run: Job(q)
      BY DEF JobInv
\* Steps that only take one run to another position.
<1>1. ASSUME NEW r \in Run, pc[r] \notin Resting \/ pc'[r] \in Resting,
             pc' = [pc EXCEPT ![r] = pc'[r]], pc'[r] \in Ahead => pc[r] \in Ahead,
             UNCHANGED <<given, source, wrote, quarantined, bookmark, planned, low, top, applied>>,
             Job(r)'
      PROVE  Goal
      <2>1. Shape' /\ Unwritten' /\ Grows /\ Passes
            BY <1>1 DEF Shape, Unwritten, Batch, Grows, Passes
      <2>2. \A q \in Run \ {r}: pc'[q] = pc[q]
            BY <1>1 DEF Shape
      <2>3. ASSUME NEW q \in Run
            PROVE  Job(q)'
            BY <1>0, <1>1, <2>2, JobRests DEF Shape
      <2>4. OneAtATime'
            BY <1>0, <1>1, <2>2 DEF OneAtATime
      <2>5. Accounted' = Accounted
            BY <1>1 DEF Accounted
      <2> QED BY <1>0, <1>1, <2>1, <2>3, <2>4, <2>5 DEF JobInv
<1>2. ASSUME Glue!Arrive
      PROVE  Goal
      <2>1. source' = source + 1
            /\ UNCHANGED <<given, wrote, quarantined, bookmark, planned, low, top, applied, pc>>
            BY <1>2 DEF Glue!Arrive
      <2>2. Shape' /\ Unwritten' /\ Grows /\ Passes
            BY <2>1 DEF Shape, Unwritten, Batch, Grows, Passes
      <2>3. ASSUME NEW q \in Run
            PROVE  Job(q)'
            BY <1>0, <2>1, JobRests DEF Shape
      <2> QED BY <1>0, <2>1, <2>2, <2>3 DEF JobInv, OneAtATime, Accounted, Shape
<1>3. ASSUME NEW r \in Run, Glue!Read(r)
      PROVE  Goal
      <2>1. /\ pc[r] = "idle" /\ Glue!Live = {}
            /\ low' = [low EXCEPT ![r] = bookmark] /\ top' = [top EXCEPT ![r] = source]
            /\ pc' = [pc EXCEPT ![r] = IF source = bookmark THEN "written" ELSE "gate"]
            /\ UNCHANGED <<given, source, wrote, quarantined, bookmark, planned, applied>>
            BY <1>3 DEF Glue!Read, Glue!Goto
      <2>2. \A q \in Run \ {r}: pc[q] \in Resting /\ pc'[q] \in Resting
            BY <2>1 DEF Glue!Live, Resting, Shape
      <2>3. Shape' /\ Unwritten' /\ Grows /\ Passes
            BY <2>1 DEF Shape, Unwritten, Ahead, Batch, Grows, Passes
      <2>4. /\ low'[r] = bookmark /\ top'[r] = source
            /\ pc'[r] = IF source = bookmark THEN "written" ELSE "gate"
            /\ \A q \in Run \ {r}: low'[q] = low[q] /\ top'[q] = top[q] /\ pc'[q] = pc[q]
            BY <2>1 DEF Shape, Batch
      <2>5. applied[r] = {} /\ quarantined[r] = {}
            BY <1>0, <2>1 DEF Job
      <2>6. source = bookmark => Files(r)' = {}
            BY <2>1, <2>4 DEF Files, Shape
      <2>7. Job(r)'
            BY <1>0, <2>1, <2>4, <2>5, <2>6 DEF Job, Shape
      <2>8. ASSUME NEW q \in Run
            PROVE  Job(q)'
            BY <1>0, <2>1, <2>4, <2>7, JobRests DEF Shape
      <2>9. OneAtATime'
            BY <2>2 DEF OneAtATime
      <2> QED BY <1>0, <2>1, <2>3, <2>8, <2>9 DEF JobInv, Accounted
<1>4. ASSUME NEW r \in Run, Glue!CheckAbort(r)
      PROVE  Goal
      <2>1. /\ pc[r] = "gate" /\ pc' = [pc EXCEPT ![r] = pc'[r]] /\ pc'[r] \in {"sift", "failing"}
            /\ UNCHANGED <<given, source, wrote, quarantined, bookmark, planned, low, top, applied>>
            BY <1>4 DEF Glue!CheckAbort, Glue!Goto, Shape
      <2>2. Job(r)'
            BY <1>0, <2>1 DEF Job, Refused, Files
      <2> QED BY <1>1, <2>1, <2>2 DEF Resting, Ahead
<1>5. ASSUME NEW r \in Run, Glue!Quarantine(r)
      PROVE  Goal
      <2> DEFINE Q == Glue!RulesOf("quarantine")
      <2>1. /\ pc[r] = "sift" /\ pc' = [pc EXCEPT ![r] = "clean"]
            /\ quarantined' = [quarantined EXCEPT ![r] = Glue!Offending(r, Q)]
            /\ applied' = [applied EXCEPT ![r] = Q]
            /\ UNCHANGED <<given, source, wrote, bookmark, planned, low, top>>
            BY <1>5 DEF Glue!Quarantine, Glue!Goto
      <2>2. applied[r] = {} /\ quarantined[r] = {}
            BY <1>0, <2>1 DEF Job
      <2>3. Glue!Offending(r, Q) = Refused(Q, Files(r))
            BY <2>2 DEF Glue!Offending, Glue!View, Glue!Filtered, Refused, Files
      <2>4. Shape' /\ Unwritten' /\ Grows /\ Passes
            BY <2>1, <2>2 DEF Shape, Unwritten, Ahead, Batch, Grows, Passes
      <2>5. /\ applied'[r] = Q /\ quarantined'[r] = Refused(Q, Files(r)) /\ pc'[r] = "clean"
            /\ \A q \in Run \ {r}: UNCHANGED <<applied[q], quarantined[q], pc[q]>>
            BY <2>1, <2>3 DEF Shape
      <2>6. Accounted \subseteq Accounted'
            BY <2>4, AccountedGrows
      <2>7. Files(r)' = Files(r) /\ \A rules, rows: Refused(rules, rows)' = Refused(rules, rows)
            BY <2>1 DEF Files, Refused
      <2>8. Job(r)'
            <3> HIDE DEF Q
            <3> QED BY <1>0, <2>1, <2>5, <2>7 DEF Job
      <2>9. ASSUME NEW q \in Run
            PROVE  Job(q)'
            BY <1>0, <2>1, <2>5, <2>8, JobRests DEF Shape
      <2>10. OneAtATime'
            BY <1>0, <2>1, <2>5 DEF OneAtATime, Resting
      <2> QED BY <1>0, <2>1, <2>4, <2>6, <2>9, <2>10 DEF JobInv
<1>6. ASSUME NEW r \in Run, Glue!Write(r)
      PROVE  Goal
      <2>1. /\ pc[r] = "clean"
            /\ wrote' = [wrote EXCEPT ![r] = Glue!View(r, top[r])]
            /\ pc' = [pc EXCEPT ![r] = "written"]
            /\ UNCHANGED <<given, source, quarantined, bookmark, planned, low, top, applied>>
            BY <1>6 DEF Glue!Write, Glue!Goto
      <2>2. wrote[r] = {}
            BY <2>1 DEF Unwritten, Ahead
      <2>3. Files(r) \ Refused(applied[r], Files(r)) \subseteq Glue!View(r, top[r])
            BY DEF Glue!View, Glue!Filtered, Refused, Files
      <2>4. Shape' /\ Unwritten' /\ Grows /\ Passes
            BY <2>1, <2>2 DEF Shape, Unwritten, Ahead, Batch, Grows, Passes
      <2>5. /\ wrote'[r] = Glue!View(r, top[r]) /\ pc'[r] = "written"
            /\ \A q \in Run \ {r}: wrote'[q] = wrote[q] /\ pc'[q] = pc[q]
            BY <2>1 DEF Shape
      <2>6. Accounted \subseteq Accounted'
            BY <2>4, AccountedGrows
      <2>7. Files(r)' = Files(r) /\ Refused(applied[r], Files(r)) \subseteq quarantined[r]
            BY <1>0, <2>1 DEF Files, Job
      <2>8. Job(r)'
            BY <1>0, <2>1, <2>3, <2>5, <2>7 DEF Job
      <2>9. ASSUME NEW q \in Run
            PROVE  Job(q)'
            BY <1>0, <2>1, <2>5, <2>8, JobRests DEF Shape
      <2>10. OneAtATime'
            BY <1>0, <2>1, <2>5 DEF OneAtATime, Resting
      <2> QED BY <1>0, <2>1, <2>4, <2>6, <2>9, <2>10 DEF JobInv
<1>7. ASSUME NEW r \in Run, Glue!Commit(r)
      PROVE  Goal
      <2>1. /\ pc[r] = "written" /\ bookmark' = top[r]
            /\ pc' = [pc EXCEPT ![r] = "committed"]
            /\ UNCHANGED <<given, source, wrote, quarantined, planned, low, top, applied>>
            BY <1>7 DEF Glue!Commit, Glue!Goto
      <2>2. /\ low[r] = bookmark /\ bookmark <= top[r] /\ top[r] <= source
            /\ Files(r) \subseteq wrote[r] \cup quarantined[r]
            BY <1>0, <2>1 DEF Job
      <2>3. 1..top[r] \subseteq 1..bookmark \cup Files(r)
            BY <2>2 DEF Files, Shape
      <2>4. 1..bookmark' \subseteq Accounted
            BY <1>0, <2>1, <2>2, <2>3 DEF Accounted
      <2>5. /\ pc'[r] = "committed"
            /\ \A q \in Run \ {r}: pc'[q] = pc[q] /\ pc[q] \in Resting
            BY <1>0, <2>1 DEF Shape, OneAtATime, Resting
      <2>6. Shape' /\ Unwritten' /\ Grows /\ Passes
            BY <2>1, <2>2, <2>4 DEF Shape, Unwritten, Ahead, Batch, Grows, Passes
      <2>7. Job(r)'
            BY <1>0, <2>1, <2>5 DEF Job
      <2>8. ASSUME NEW q \in Run
            PROVE  Job(q)'
            BY <1>0, <2>1, <2>5, <2>7, JobRests DEF Shape
      <2>9. OneAtATime' /\ Accounted' = Accounted
            BY <1>0, <2>1, <2>5 DEF OneAtATime, Resting, Accounted
      <2> QED BY <2>1, <2>2, <2>4, <2>6, <2>8, <2>9 DEF JobInv
<1>8. ASSUME NEW r \in Run,
             \/ Glue!RecordState(r) \/ Glue!LogOutcome(r) \/ Glue!Raise(r) \/ Glue!LogFailure(r)
             \/ Glue!Crash(r)
      PROVE  Goal
      <2>1. /\ pc[r] \notin Resting /\ pc' = [pc EXCEPT ![r] = pc'[r]]
            /\ pc'[r] \in {"stated", "failing", "done", "crashed"}
            /\ UNCHANGED <<given, source, wrote, quarantined, bookmark, planned, low, top, applied>>
            BY <1>8 DEF Glue!RecordState, Glue!LogOutcome, Glue!Raise, Glue!LogFailure, Glue!Crash,
               Glue!Goto, Resting, Shape
      <2>2. Job(r)'
            BY <1>0, <2>1 DEF Job
      <2> QED BY <1>1, <2>1, <2>2 DEF Ahead
<1>9. ASSUME NEW r \in Run, Glue!Evaluate(r)
      PROVE  Goal
      <2>0. /\ pc[r] = "clean" /\ pc' = [pc EXCEPT ![r] = pc'[r]] /\ pc'[r] \in {"clean", "failing"}
            /\ UNCHANGED <<given, source, wrote, bookmark, planned, low, top>>
            BY <1>9 DEF Glue!Evaluate, Glue!Goto, Shape
      <2>1. PICK i \in Glue!Pending(r): 
               \/ UNCHANGED <<quarantined, applied>>
               \/ /\ quarantined' = [quarantined EXCEPT ![r] = @ \cup Glue!Offending(r, {i})]
                  /\ applied' = [applied EXCEPT ![r] = @ \cup {i}]
            BY <1>9 DEF Glue!Evaluate
      <2>2. CASE UNCHANGED <<quarantined, applied>>
            <3>1. Job(r)'
                  BY <1>0, <2>0, <2>2 DEF Job, Refused, Files
            <3> QED BY <1>1, <2>0, <2>2, <3>1 DEF Resting, Ahead
      <2>3. CASE /\ quarantined' = [quarantined EXCEPT ![r] = @ \cup Glue!Offending(r, {i})]
                 /\ applied' = [applied EXCEPT ![r] = @ \cup {i}]
            <3>1. Shape' /\ Unwritten' /\ Grows /\ Passes
                  BY <2>0, <2>3 DEF Shape, Unwritten, Ahead, Batch, Grows, Passes
            <3>2. /\ applied'[r] = applied[r] \cup {i}
                  /\ quarantined'[r] = quarantined[r] \cup Glue!Offending(r, {i})
                  /\ \A q \in Run \ {r}: UNCHANGED <<applied[q], quarantined[q], pc[q]>>
                  BY <2>0, <2>3 DEF Shape
            <3>3. Files(r)' = Files(r) /\ \A rules, rows: Refused(rules, rows)' = Refused(rules, rows)
                  BY <2>0 DEF Files, Refused
            <3>4. Refused(applied'[r], Files(r)) \subseteq Refused(applied[r], Files(r)) \cup Glue!Offending(r, {i})
                  BY <3>2 DEF Glue!Offending, Glue!View, Glue!Filtered, Refused, Files
            <3>5. Job(r)'
                  BY <1>0, <2>0, <3>2, <3>3, <3>4 DEF Job
            <3>6. ASSUME NEW q \in Run
                  PROVE  Job(q)'
                  BY <1>0, <2>0, <3>2, <3>5, JobRests DEF Shape
            <3>7. OneAtATime'
                  BY <1>0, <2>0, <3>2 DEF OneAtATime, Resting
            <3>8. Accounted \subseteq Accounted'
                  BY <3>1, AccountedGrows
            <3> QED BY <1>0, <2>0, <3>1, <3>6, <3>7, <3>8 DEF JobInv
      <2> QED BY <2>1, <2>2, <2>3
<1> QED BY <1>2, <1>3, <1>4, <1>5, <1>6, <1>7, <1>8, <1>9 DEF Glue!Next

-----------------------------------------------------------------------------
(* The streaming job of AWS *)

LEMMA StreamStep ==
    ASSUME Shape, StreamInv, Micro, GlueStreaming!Next
    PROVE  Shape' /\ StreamInv' /\ Grows /\ Passes /\ UNCHANGED given
<1> USE DEF GlueStreaming!data, GlueStreaming!given, GlueStreaming!control, GlueStreaming!locking,
            GlueStreaming!progress, GlueStreaming!locals, given
<1> DEFINE Goal == Shape' /\ StreamInv' /\ Grows /\ Passes /\ UNCHANGED given
<1>0. /\ OneAtATime /\ bookmark <= planned /\ 1..bookmark \subseteq Accounted
      /\ \A q \in Run: Piece(q)
      BY DEF StreamInv
\* Nobody else is at work: it is enough to look at the run that takes the step.
<1>1. ASSUME NEW r \in Run, pc[r] \notin Resting \/ \A q \in Run: pc[q] \in Resting,
             \A q \in Run \ {r}: pc'[q] = pc[q],
             Shape', Grows, Passes, UNCHANGED given, bookmark' <= planned', Piece(r)'
      PROVE  Goal
      <2>1. ASSUME NEW q \in Run
            PROVE  Piece(q)'
            <3>1. CASE q = r
                  BY <1>1, <3>1
            <3>2. CASE q # r
                  BY <1>0, <1>1, <3>2 DEF OneAtATime, Piece, Resting
            <3> QED BY <3>1, <3>2
      <2>2. OneAtATime'
            BY <1>0, <1>1 DEF OneAtATime
      <2>3. 1..bookmark' \subseteq Accounted'
            <3>1. Accounted \subseteq Accounted'
                  BY <1>1, AccountedGrows
            <3> QED BY <1>0, <1>1, <3>1 DEF Passes
      <2> QED BY <1>1, <2>1, <2>2, <2>3 DEF StreamInv
<1>2. ASSUME GlueStreaming!Arrive
      PROVE  Goal
      BY <1>0, <1>2 DEF GlueStreaming!Arrive, Shape, Grows, Passes, StreamInv, OneAtATime, Piece, Refused,
                        Planned, Accounted
<1>3. ASSUME NEW r \in Run, GlueStreaming!Start(r)
      PROVE  Goal
      <2>1. /\ GlueStreaming!Live = {}
            /\ low' = [low EXCEPT ![r] = bookmark] /\ top' = [top EXCEPT ![r] = source]
            /\ pc' = [pc EXCEPT ![r] = "streaming"]
            /\ UNCHANGED <<given, source, wrote, quarantined, bookmark, planned, applied>>
            BY <1>3 DEF GlueStreaming!Start, GlueStreaming!Goto
      <2>2. \A q \in Run: pc[q] \in Resting
            BY <2>1 DEF GlueStreaming!Live, Resting
      <2>3. Shape' /\ Grows /\ Passes
            BY <2>1 DEF Shape, Grows, Passes
      <2>4. pc'[r] = "streaming" /\ \A q \in Run \ {r}: pc'[q] = pc[q]
            BY <2>1 DEF Shape
      <2> QED BY <1>0, <1>1, <2>1, <2>2, <2>3, <2>4 DEF Piece
<1>4. ASSUME NEW r \in Run, GlueStreaming!NextBatch(r)
      PROVE  Goal
      <2>1. /\ pc[r] = "streaming" /\ pc' = [pc EXCEPT ![r] = "gate"]
            /\ applied' = [applied EXCEPT ![r] = {}]
            /\ planned' = planned \/ planned' \in (bookmark + 1)..top[r]
            /\ UNCHANGED <<given, source, wrote, quarantined, bookmark, low, top>>
            BY <1>4 DEF GlueStreaming!NextBatch, GlueStreaming!Goto
      <2>2. planned' \in Nat /\ bookmark <= planned'
            BY <1>0, <2>1 DEF Shape
      <2>3. Shape' /\ Grows /\ Passes
            BY <2>1, <2>2 DEF Shape, Grows, Passes
      <2>4. pc'[r] = "gate" /\ applied'[r] = {} /\ \A q \in Run \ {r}: pc'[q] = pc[q]
            BY <2>1 DEF Shape
      <2> QED BY <1>1, <2>1, <2>2, <2>3, <2>4 DEF Piece, Resting
<1>5. ASSUME NEW r \in Run, GlueStreaming!CheckAbort(r)
      PROVE  Goal
      <2>1. /\ pc[r] = "gate" /\ pc' = [pc EXCEPT ![r] = pc'[r]] /\ pc'[r] \in {"sift", "failing"}
            /\ UNCHANGED <<given, source, wrote, quarantined, bookmark, planned, low, top, applied>>
            BY <1>5 DEF GlueStreaming!CheckAbort, GlueStreaming!Goto, Shape
      <2>2. Shape' /\ Grows /\ Passes /\ \A q \in Run \ {r}: pc'[q] = pc[q]
            BY <2>1 DEF Shape, Grows, Passes
      <2>3. Piece(r)'
            BY <1>0, <2>1 DEF Piece, Refused
      <2> QED BY <1>0, <1>1, <2>1, <2>2, <2>3 DEF Resting
<1>6. ASSUME NEW r \in Run, GlueStreaming!Quarantine(r)
      PROVE  Goal
      <2> DEFINE Q == GlueStreaming!RulesOf("quarantine")
      <2>1. /\ pc[r] = "sift" /\ pc' = [pc EXCEPT ![r] = "clean"]
            /\ quarantined' = [quarantined EXCEPT ![r] = @ \cup GlueStreaming!Offending(r, Q)]
            /\ applied' = [applied EXCEPT ![r] = Q]
            /\ UNCHANGED <<given, source, wrote, bookmark, planned, low, top>>
            BY <1>6 DEF GlueStreaming!Quarantine, GlueStreaming!Goto
      <2>2. GlueStreaming!Offending(r, Q) = Refused(Q, Planned)
            <3>1. applied[r] = {}
                  BY <1>0, <2>1 DEF Piece
            <3> QED BY <3>1 DEF GlueStreaming!Offending, GlueStreaming!BatchRows, GlueStreaming!Filtered, Refused, Planned
      <2>3. Shape' /\ Grows /\ Passes
            BY <2>1 DEF Shape, Grows, Passes
      <2>4. /\ applied'[r] = Q /\ Refused(Q, Planned) \subseteq quarantined'[r] /\ pc'[r] = "clean"
            /\ \A q \in Run \ {r}: pc'[q] = pc[q]
            BY <2>1, <2>2 DEF Shape
      <2>5. Piece(r)'
            <3> HIDE DEF Q
            <3> QED BY <2>1, <2>4 DEF Piece, Refused, Planned
      <2> QED BY <1>0, <1>1, <2>1, <2>3, <2>4, <2>5 DEF Resting
<1>7. ASSUME NEW r \in Run, GlueStreaming!Write(r)
      PROVE  Goal
      <2>1. /\ pc[r] = "clean"
            /\ wrote' = [wrote EXCEPT ![r] = @ \cup GlueStreaming!BatchRows(r)]
            /\ pc' = [pc EXCEPT ![r] = "written"]
            /\ UNCHANGED <<given, source, quarantined, bookmark, planned, low, top, applied>>
            BY <1>7 DEF GlueStreaming!Write, GlueStreaming!Goto
      <2>2. GlueStreaming!BatchRows(r) = Planned \ Refused(applied[r], Planned)
            BY DEF GlueStreaming!BatchRows, GlueStreaming!Filtered, Refused, Planned, Shape
      <2>3. Shape' /\ Grows /\ Passes /\ \A q \in Run \ {r}: pc'[q] = pc[q]
            BY <2>1 DEF Shape, Grows, Passes
      <2>4. Planned \ Refused(applied[r], Planned) \subseteq wrote'[r] /\ pc'[r] = "written"
            BY <2>1, <2>2 DEF Shape
      <2>5. Piece(r)'
            BY <1>0, <2>1, <2>4 DEF Piece, Planned
      <2> QED BY <1>0, <1>1, <2>1, <2>3, <2>5 DEF Resting
<1>8. ASSUME NEW r \in Run, GlueStreaming!CommitBatch(r)
      PROVE  Goal
      <2>1. /\ pc[r] = "written" /\ bookmark' = planned /\ pc' = [pc EXCEPT ![r] = "streaming"]
            /\ UNCHANGED <<given, source, wrote, quarantined, planned, low, top, applied>>
            BY <1>8 DEF GlueStreaming!CommitBatch, GlueStreaming!Goto
      <2>2. 1..planned \subseteq 1..bookmark \cup Planned
            BY <1>0 DEF Planned, Shape
      <2>3. 1..planned \subseteq Accounted
            BY <1>0, <2>1, <2>2 DEF Piece, Accounted
      <2>4. Shape' /\ Grows /\ Passes /\ pc'[r] = "streaming" /\ \A q \in Run \ {r}: pc'[q] = pc[q]
            BY <1>0, <2>1, <2>3 DEF Shape, Grows, Passes
      <2> QED BY <1>1, <2>1, <2>4 DEF Piece, Resting, Shape
<1>9. ASSUME NEW r \in Run,
             \/ GlueStreaming!Exhausted(r) \/ GlueStreaming!RecordState(r) \/ GlueStreaming!LogOutcome(r)
             \/ GlueStreaming!Raise(r) \/ GlueStreaming!LogFailure(r) \/ GlueStreaming!Crash(r)
      PROVE  Goal
      <2>1. /\ pc[r] \notin Resting /\ pc' = [pc EXCEPT ![r] = pc'[r]]
            /\ pc'[r] \in {"committed", "stated", "failing", "done", "crashed"}
            /\ UNCHANGED <<given, source, wrote, quarantined, bookmark, planned, low, top, applied>>
            BY <1>9 DEF GlueStreaming!Exhausted, GlueStreaming!RecordState, GlueStreaming!LogOutcome,
               GlueStreaming!Raise, GlueStreaming!LogFailure, GlueStreaming!Crash, GlueStreaming!Goto,
               Resting, Shape
      <2>2. Shape' /\ Grows /\ Passes /\ \A q \in Run \ {r}: pc'[q] = pc[q]
            BY <2>1 DEF Shape, Grows, Passes
      <2> QED BY <1>0, <1>1, <2>1, <2>2 DEF Piece
<1>10. ASSUME NEW r \in Run, GlueStreaming!Evaluate(r)
      PROVE  Goal
      <2>0. /\ pc[r] = "clean" /\ pc' = [pc EXCEPT ![r] = pc'[r]] /\ pc'[r] \in {"clean", "failing"}
            /\ UNCHANGED <<given, source, wrote, bookmark, planned, low, top>>
            BY <1>10 DEF GlueStreaming!Evaluate, GlueStreaming!Goto, Shape
      <2>1. PICK i \in GlueStreaming!Pending(r):
               \/ UNCHANGED <<quarantined, applied>>
               \/ /\ quarantined' = [quarantined EXCEPT ![r] = @ \cup GlueStreaming!Offending(r, {i})]
                  /\ applied' = [applied EXCEPT ![r] = @ \cup {i}]
            BY <1>10 DEF GlueStreaming!Evaluate
      <2>2. Shape' /\ Grows /\ Passes /\ \A q \in Run \ {r}: pc'[q] = pc[q]
            BY <2>0, <2>1 DEF Shape, Grows, Passes
      <2>3. Planned' = Planned /\ \A rules, rows: Refused(rules, rows)' = Refused(rules, rows)
            BY <2>0 DEF Planned, Refused
      <2>4. Refused(applied[r], Planned) \subseteq quarantined[r]
            BY <1>0, <2>0 DEF Piece
      <2>5. Refused(applied'[r], Planned) \subseteq quarantined'[r]
            <3>1. CASE UNCHANGED <<quarantined, applied>>
                  BY <2>4, <3>1
            <3>2. CASE /\ quarantined' = [quarantined EXCEPT ![r] = @ \cup GlueStreaming!Offending(r, {i})]
                       /\ applied' = [applied EXCEPT ![r] = @ \cup {i}]
                  <4>1. /\ applied'[r] = applied[r] \cup {i}
                        /\ quarantined'[r] = quarantined[r] \cup GlueStreaming!Offending(r, {i})
                        BY <3>2 DEF Shape
                  <4>2. Refused(applied'[r], Planned) \subseteq
                            Refused(applied[r], Planned) \cup GlueStreaming!Offending(r, {i})
                        BY <4>1 DEF GlueStreaming!Offending, GlueStreaming!BatchRows, GlueStreaming!Filtered,
                           Refused, Planned
                  <4> QED BY <2>4, <4>1, <4>2
            <3> QED BY <2>1, <3>1, <3>2
      <2>6. Piece(r)'
            BY <2>0, <2>3, <2>5 DEF Piece
      <2> QED BY <1>0, <1>1, <2>0, <2>2, <2>6 DEF Resting
<1> QED BY <1>2, <1>3, <1>4, <1>5, <1>6, <1>7, <1>8, <1>9, <1>10 DEF GlueStreaming!Next

-----------------------------------------------------------------------------
(* The notebook of Fabric *)

\* What each step of a notebook leaves alone, whatever it does.
LEMMA NotebookShape ==
    ASSUME Shape, Unwritten, platform = "fabric", Fabric!Next
    PROVE  Shape' /\ Unwritten' /\ Grows /\ UNCHANGED given
<1> USE DEF Fabric!data, Fabric!given, Fabric!control, Fabric!locking, Fabric!progress, Fabric!locals, given
<1> DEFINE Goal == Shape' /\ Unwritten' /\ Grows /\ UNCHANGED given
<1>1. ASSUME Fabric!Arrive \/ Fabric!Tick
      PROVE  Goal
      BY <1>1 DEF Fabric!Arrive, Fabric!Tick, Shape, Unwritten, Batch, Grows
<1>2. ASSUME NEW r \in Run,
             \/ Fabric!Unlocked(r) \/ Fabric!Acquire(r) \/ Fabric!ReadBack(r) \/ Fabric!Clear(r)
             \/ Fabric!Load(r) \/ Fabric!Measure(r) \/ Fabric!RecordState(r) \/ Fabric!LogSuccess(r)
             \/ Fabric!Raise(r) \/ Fabric!LogFailure(r) \/ Fabric!HandlerRaises(r) \/ Fabric!Release(r)
             \/ Fabric!ReleaseFails(r) \/ Fabric!Crash(r) \/ Fabric!Evaluate(r)
      PROVE  Goal
      <2>1. UNCHANGED <<given, source, wrote, quarantined, bookmark, planned, low, top, applied>>
            BY <1>2 DEF Fabric!Unlocked, Fabric!Acquire, Fabric!ReadBack, Fabric!Clear, Fabric!Load,
               Fabric!Measure, Fabric!RecordState, Fabric!LogSuccess, Fabric!Raise, Fabric!LogFailure,
               Fabric!HandlerRaises, Fabric!Release, Fabric!ReleaseFails, Fabric!Crash, Fabric!Evaluate
      <2>2. pc = [q \in Run |-> pc[q]]
            BY DEF Shape
      <2>3. /\ pc' = [q \in Run |-> pc'[q]] /\ \A q \in Run \ {r}: pc'[q] = pc[q]
            /\ pc'[r] \in Ahead => pc[r] \in Ahead
            BY <1>2, <2>2 DEF Fabric!Unlocked, Fabric!Acquire, Fabric!ReadBack, Fabric!Clear, Fabric!Load,
               Fabric!Measure, Fabric!RecordState, Fabric!LogSuccess, Fabric!Raise, Fabric!LogFailure,
               Fabric!HandlerRaises, Fabric!Release, Fabric!ReleaseFails, Fabric!Crash, Fabric!Evaluate,
               Fabric!Goto, Ahead
      <2> QED BY <2>1, <2>3 DEF Shape, Unwritten, Batch, Grows
<1>3. ASSUME NEW r \in Run, Fabric!Stream(r) \/ Fabric!StreamFails(r)
      PROVE  Goal
      <2>1. PICK n \in Nat: Fabric!Take(r, n)
            BY <1>3 DEF Fabric!Stream, Fabric!StreamFails, Shape
      <2>2. /\ UNCHANGED <<given, source, wrote, quarantined, planned, applied>>
            /\ low' = [low EXCEPT ![r] = bookmark] /\ top' = [top EXCEPT ![r] = n] /\ bookmark' = n
            BY <2>1 DEF Fabric!Take
      <2>3. pc[r] = "cleared" /\ pc' = [pc EXCEPT ![r] = pc'[r]] /\ pc'[r] \in {"streamed", "failing"}
            BY <1>3 DEF Fabric!Stream, Fabric!StreamFails, Fabric!Goto, Shape
      <2> QED BY <2>2, <2>3 DEF Shape, Unwritten, Batch, Grows, Ahead
<1>4. ASSUME NEW r \in Run, Fabric!Count(r)
      PROVE  Goal
      BY <1>4 DEF Fabric!Count, Fabric!Goto, Shape, Unwritten, Batch, Grows, Ahead
<1>5. ASSUME NEW r \in Run, Fabric!Quarantine(r) \/ Fabric!QuarantineFails(r)
      PROVE  Goal
      <2>1. /\ UNCHANGED <<given, source, wrote, bookmark, planned, low, top>>
            /\ quarantined' = [quarantined EXCEPT ![r] = quarantined'[r]]
            /\ quarantined[r] \subseteq quarantined'[r]
            BY <1>5 DEF Fabric!Quarantine, Fabric!QuarantineFails, Shape
      <2>2. applied' = applied \/ applied' = [applied EXCEPT ![r] = @ \cup {step[r]}]
            BY <1>5 DEF Fabric!Quarantine, Fabric!QuarantineFails
      <2>3. /\ pc[r] = "quarantining" /\ pc' = [pc EXCEPT ![r] = pc'[r]]
            BY <1>5 DEF Fabric!Quarantine, Fabric!QuarantineFails, Fabric!Goto, Shape
      <2> QED BY <2>1, <2>2, <2>3 DEF Shape, Unwritten, Batch, Grows, Ahead
<1>6. ASSUME NEW r \in Run, Fabric!Write(r)
      PROVE  Goal
      <2>1. pc[r] = "gate" /\ pc' = [pc EXCEPT ![r] = "written"]
            /\ wrote' = [wrote EXCEPT ![r] = Fabric!Df(r)]
            /\ UNCHANGED <<given, source, quarantined, bookmark, planned, low, top, applied>>
            BY <1>6 DEF Fabric!Write, Fabric!Goto
      <2>2. wrote[r] = {}
            BY <2>1 DEF Unwritten, Ahead
      <2> QED BY <2>1, <2>2 DEF Shape, Unwritten, Batch, Grows, Ahead
<1> QED BY <1>1, <1>2, <1>3, <1>4, <1>5, <1>6 DEF Fabric!Next

LEMMA HoldStep ==
    ASSUME Shape, HoldInv, platform = "fabric", Fabric!Next
    PROVE  HoldInv'
<1> USE DEF Fabric!data, Fabric!given, Fabric!control, Fabric!locking, Fabric!progress, Fabric!locals
<1>0. /\ lock \in LockRow /\ now \in Nat /\ lease \in [Run -> Nat] /\ held \in [Run -> BOOLEAN]
      /\ \A q \in Run: Hold(q)
      /\ pc = [q \in Run |-> pc[q]]
      BY DEF HoldInv, Shape
<1>1. ASSUME Fabric!Arrive \/ Fabric!Tick
      PROVE  HoldInv'
      <2>1. /\ UNCHANGED <<platform, contract, lock, lease, held, pc>>
            /\ now' \in Nat /\ now <= now'
            BY <1>0, <1>1 DEF Fabric!Arrive, Fabric!Tick
      <2> QED BY <1>0, <2>1 DEF HoldInv, Hold
<1>2. ASSUME NEW r \in Run,
             \/ Fabric!Unlocked(r) \/ Fabric!Clear(r) \/ Fabric!Stream(r) \/ Fabric!StreamFails(r)
             \/ Fabric!Load(r) \/ Fabric!Count(r) \/ Fabric!Evaluate(r) \/ Fabric!Quarantine(r)
             \/ Fabric!QuarantineFails(r) \/ Fabric!Write(r) \/ Fabric!Measure(r)
             \/ Fabric!RecordState(r) \/ Fabric!LogSuccess(r) \/ Fabric!Raise(r)
             \/ Fabric!LogFailure(r) \/ Fabric!HandlerRaises(r) \/ Fabric!Crash(r)
      PROVE  HoldInv'
      <2>1. UNCHANGED <<platform, contract, lock, now, lease, held>>
            BY <1>2 DEF Fabric!Unlocked, Fabric!Clear, Fabric!Stream, Fabric!StreamFails, Fabric!Take,
               Fabric!Load, Fabric!Count, Fabric!Evaluate, Fabric!Quarantine, Fabric!QuarantineFails,
               Fabric!Write, Fabric!Measure, Fabric!RecordState, Fabric!LogSuccess, Fabric!Raise,
               Fabric!LogFailure, Fabric!HandlerRaises, Fabric!Crash
      <2>2. /\ \A q \in Run \ {r}: pc'[q] = pc[q]
            /\ pc'[r] \notin {"idle", "merged"}
            /\ contract.lock /\ pc'[r] \in Inside => pc[r] \in Inside
            BY <1>0, <1>2 DEF Fabric!Unlocked, Fabric!Clear, Fabric!Stream, Fabric!StreamFails,
               Fabric!Load, Fabric!Count, Fabric!Evaluate, Fabric!Quarantine, Fabric!QuarantineFails,
               Fabric!Write, Fabric!Measure, Fabric!RecordState, Fabric!LogSuccess, Fabric!Raise,
               Fabric!LogFailure, Fabric!HandlerRaises, Fabric!Crash, Fabric!Goto, Inside
      <2> QED BY <1>0, <2>1, <2>2 DEF HoldInv, Hold
<1>3. ASSUME NEW r \in Run, Fabric!Acquire(r)
      PROVE  HoldInv'
      <2>1. /\ pc[r] = "idle" /\ pc' = [pc EXCEPT ![r] = "merged"]
            /\ lock' = Fabric!AcquireLock(lock, r, now)
            /\ lease' = [lease EXCEPT ![r] = IF Fabric!Acquirable(lock, now) THEN now + TTL ELSE 0]
            /\ UNCHANGED <<platform, contract, held, now>>
            BY <1>3 DEF Fabric!Acquire, Fabric!Goto
      <2>2. /\ pc'[r] = "merged" /\ ~held[r] /\ lease[r] = 0
            /\ \A q \in Run \ {r}: pc'[q] = pc[q] /\ lease'[q] = lease[q]
            BY <1>0, <2>1 DEF Hold
      <2>3. CASE Fabric!Acquirable(lock, now)
            <3>1. /\ lock' \in LockRow
                  /\ lock'.run = r /\ lock'.status = "ACTIVE" /\ lock'.expires = now + TTL
                  BY <1>0, <2>1, <2>3, TTLAssumption DEF Fabric!AcquireLock, LockRow
            <3>2. lease'[r] = now + TTL /\ now + TTL # 0 /\ lease' \in [Run -> Nat]
                  BY <1>0, <2>1, <2>3, TTLAssumption
            <3>3. lock.status # "ACTIVE" \/ lock.expires < now
                  BY <2>3 DEF Fabric!Acquirable
            <3>4. ASSUME NEW q \in Run, q # r
                  PROVE  Hold(q)'
                  <4>1. held[q] => lease[q] < now
                        BY <1>0, <3>3 DEF Hold, LockRow
                  <4>2. /\ lock'.run # q /\ lease[q] \in Nat /\ now \in Nat
                        /\ held' = held /\ now' = now /\ contract' = contract
                        /\ lease'[q] = lease[q] /\ pc'[q] = pc[q]
                        BY <1>0, <2>1, <2>2, <3>1, <3>4
                  <4>3. Hold(q)
                        BY <1>0
                  <4>4. lease[q] < now => ~(now <= lease[q])
                        BY <4>2
                  <4> QED BY <4>1, <4>2, <4>3, <4>4 DEF Hold
            <3>5. Hold(r)'
                  BY <2>1, <2>2, <3>1, <3>2 DEF Hold, Inside
            <3> QED BY <1>0, <2>1, <3>1, <3>2, <3>4, <3>5 DEF HoldInv
      <2>4. CASE ~Fabric!Acquirable(lock, now)
            <3>1. lock' = lock /\ lease' = lease
                  BY <1>0, <2>1, <2>2, <2>4 DEF Fabric!AcquireLock
            <3>2. \A q \in Run \ {r}: Hold(q)'
                  BY <1>0, <2>1, <2>2, <3>1 DEF Hold
            <3>3. lock'.run = r /\ lock'.status = "ACTIVE" => FALSE
                  BY <1>0, <2>2, <3>1 DEF Hold
            <3>4. Hold(r)'
                  <4>1. ~held'[r] /\ pc'[r] = "merged"
                        BY <2>1, <2>2
                  <4> QED BY <3>3, <4>1 DEF Hold, Inside
            <3> QED BY <1>0, <2>1, <3>1, <3>2, <3>4 DEF HoldInv
      <2> QED BY <2>3, <2>4
<1>4. ASSUME NEW r \in Run, Fabric!ReadBack(r)
      PROVE  HoldInv'
      <2> DEFINE C == Fabric!LockConfirmed(lock, r)
      <2>1. /\ pc[r] = "merged" /\ pc' = [pc EXCEPT ![r] = IF C THEN "locked" ELSE "failing"]
            /\ held' = [held EXCEPT ![r] = C]
            /\ UNCHANGED <<platform, contract, lock, now, lease>>
            BY <1>4 DEF Fabric!ReadBack, Fabric!Goto
      <2>2. C <=> lock.run = r /\ lock.status = "ACTIVE"
            BY DEF Fabric!LockConfirmed
      <2>3. held' \in [Run -> BOOLEAN] /\ (held'[r] <=> C)
            BY <1>0, <2>1, Zenon DEF Fabric!LockConfirmed
      <2>4. /\ pc'[r] = IF C THEN "locked" ELSE "failing"
            /\ \A q \in Run \ {r}: pc'[q] = pc[q] /\ held'[q] = held[q]
            BY <1>0, <2>1
      <2>5. Hold(r)'
            <3> HIDE DEF C
            <3> QED BY <1>0, <2>1, <2>2, <2>3, <2>4 DEF Hold, Inside
      <2>6. \A q \in Run \ {r}: Hold(q)'
            BY <1>0, <2>1, <2>4 DEF Hold
      <2> QED BY <1>0, <2>1, <2>3, <2>5, <2>6 DEF HoldInv
<1>5. ASSUME NEW r \in Run, Fabric!Release(r) \/ Fabric!ReleaseFails(r)
      PROVE  HoldInv'
      <2>1. /\ pc' = [pc EXCEPT ![r] = pc'[r]] /\ pc'[r] \in {"done", "leaked"}
            /\ held' = [held EXCEPT ![r] = FALSE]
            /\ lock' = lock \/ lock' = Fabric!ReleaseLock(lock, r)
            /\ UNCHANGED <<platform, contract, now, lease>>
            BY <1>0, <1>5 DEF Fabric!Release, Fabric!ReleaseFails, Fabric!Goto
      <2>2. /\ ~held'[r] /\ held' \in [Run -> BOOLEAN]
            /\ \A q \in Run \ {r}: pc'[q] = pc[q] /\ held'[q] = held[q]
            BY <1>0, <2>1
      <2>3. /\ lock' \in LockRow /\ lock'.run = lock.run
            /\ lock'.expires = lock.expires
            /\ lock'.status = "ACTIVE" => lock.status = "ACTIVE"
            /\ lock.run # r => lock' = lock
            BY <1>0, <2>1 DEF Fabric!ReleaseLock, LockRow
      <2>4. Hold(r)'
            BY <1>0, <2>1, <2>2, <2>3 DEF Hold, Inside
      <2>5. \A q \in Run \ {r}: Hold(q)'
            BY <1>0, <2>1, <2>2, <2>3 DEF Hold
      <2> QED BY <1>0, <2>1, <2>2, <2>3, <2>4, <2>5 DEF HoldInv
<1> QED BY <1>1, <1>2, <1>3, <1>4, <1>5 DEF Fabric!Next

\* What is the case of a run that did not move stays the case.
LEMMA CarryRests ==
    ASSUME NEW q \in Run, Carry(q), Grows, late \subseteq late', Succeeded(q)' <=> Succeeded(q),
           UNCHANGED <<contract, low[q], top[q], applied[q], reads[q], pc[q]>>,
           pc[q] \in {"streamed", "gate", "quarantining"} => staged \subseteq staged' \cup late'
    PROVE  Carry(q)'
<1>1. Files(q)' = Files(q) /\ Refused(applied[q], Files(q))' = Refused(applied[q], Files(q))
      BY DEF Files, Refused
<1>2. wrote[q] \subseteq wrote'[q] /\ quarantined[q] \subseteq quarantined'[q]
      BY DEF Grows
<1> HIDE DEF Succeeded
<1>3. pc[q] = "streamed" => Files(q) \subseteq staged' \cup late'
      BY DEF Carry
<1>4. pc[q] \in {"gate", "quarantining"} =>
          /\ Files(q) \subseteq late' \cup (IF reads[q] THEN staged' ELSE {})
          /\ Refused(applied[q], Files(q)) \subseteq quarantined'[q] \cup late'
      BY <1>2 DEF Carry
<1>5. pc[q] \in {"written", "measured", "stated"} \/ Succeeded(q) =>
          Files(q) \subseteq wrote'[q] \cup quarantined'[q] \cup late'
      BY <1>2 DEF Carry
<1> QED BY <1>1, <1>3, <1>4, <1>5 DEF Carry

LEMMA InHandOf ==
    /\ InHand = UNION {Files(q): q \in {r \in Run: ~Succeeded(r)}}
    /\ InHand' = UNION {Files(q)': q \in {r \in Run: ~Succeeded(r)'}}
BY DEF InHand, Files, Succeeded

\* Two runs inside the lock hold two leases, of which one has lapsed.
LEMMA OneHasLapsed ==
    ASSUME HoldInv, platform = "fabric", contract.lock, NEW r \in Run, NEW q \in Run, q # r,
           pc[r] \in Inside, pc[q] \in Inside
    PROVE  \E x \in Run: lease[x] # 0 /\ lease[x] < now
<1>1. held[r] /\ held[q] /\ Hold(r) /\ Hold(q)
      BY DEF HoldInv, Hold
<1>2. lease[r] \in Nat /\ lease[q] \in Nat /\ now \in Nat
      BY DEF HoldInv
<1>3. lease[r] # 0 /\ lease[q] # 0 /\ ~(now <= lease[r] /\ now <= lease[q])
      BY <1>1 DEF Hold
<1> QED BY <1>2, <1>3

LEMMA CarryStep ==
    ASSUME Shape, Unwritten, HoldInv, CarryInv, platform = "fabric", contract.stream, Fabric!Next
    PROVE  CarryInv'
<1> USE DEF Fabric!data, Fabric!given, Fabric!control, Fabric!locking, Fabric!progress, Fabric!locals, given
<1> DEFINE Passed == 1..bookmark \subseteq Accounted \cup InHand \cup late
           Lapsed == contract.lock /\ late # {} => \E r \in Run: lease[r] # 0 /\ lease[r] < now
           Between == {"streamed", "gate", "quarantining"}
<1>0. /\ Shape' /\ Grows /\ UNCHANGED given
      /\ reads \in [Run -> BOOLEAN] /\ Passed /\ Lapsed
      /\ \A q \in Run: Carry(q)
      /\ pc = [q \in Run |-> pc[q]]
      BY NotebookShape DEF CarryInv, Shape
<1>a. now \in Nat /\ lease \in [Run -> Nat] /\ \A q \in Run: Hold(q)
      BY DEF HoldInv
<1>1. ASSUME NEW r \in Run, Carry(r)', reads' \in [Run -> BOOLEAN], late \subseteq late', Passed', Lapsed',
             \A q \in Run \ {r}:
                /\ UNCHANGED <<low[q], top[q], applied[q], reads[q], pc[q]>>
                /\ Succeeded(q)' <=> Succeeded(q)
                /\ pc[q] \in Between => staged \subseteq staged' \cup late'
      PROVE  CarryInv'
      <2>1. ASSUME NEW q \in Run, q # r
            PROVE  Carry(q)'
            BY <1>0, <1>1, <2>1, CarryRests
      <2> QED BY <1>0, <1>1, <2>1 DEF CarryInv
<1>2. ASSUME late \subseteq late', UNCHANGED <<bookmark, low, top, runLog>>
      PROVE  Passed'
      <2>1. Accounted \subseteq Accounted'
            BY <1>0, AccountedGrows
      <2>2. InHand' = InHand
            BY <1>2 DEF InHand
      <2> QED BY <1>0, <1>2, <2>1, <2>2
<1>3. ASSUME UNCHANGED <<late, lease>>, now' \in Nat, now <= now'
      PROVE  Lapsed'
      BY <1>0, <1>a, <1>3
<1>4. ASSUME NEW r \in Run, pc' = [pc EXCEPT ![r] = pc'[r]],
             UNCHANGED <<bookmark, staged, reads, low, top, applied, late>>
      PROVE  /\ reads' \in [Run -> BOOLEAN] /\ late \subseteq late'
             /\ \A q \in Run \ {r}:
                /\ UNCHANGED <<low[q], top[q], applied[q], reads[q], pc[q]>>
                /\ pc[q] \in Between => staged \subseteq staged' \cup late'
      BY <1>0, <1>4
\* Steps outside the runs.
<1>5. ASSUME Fabric!Arrive \/ Fabric!Tick
      PROVE  CarryInv'
      <2>1. /\ UNCHANGED <<wrote, quarantined, lease, bookmark, staged, reads, low, top, applied, late,
                           pc, runLog>>
            /\ now' \in Nat /\ now <= now'
            BY <1>5, <1>a DEF Fabric!Arrive, Fabric!Tick
      <2>2. ASSUME NEW q \in Run
            PROVE  Carry(q)'
            BY <1>0, <2>1, CarryRests DEF Succeeded
      <2> QED BY <1>0, <1>2, <1>3, <2>1, <2>2 DEF CarryInv
\* Steps that leave alone what the run has read and written.
<1>6. ASSUME NEW r \in Run,
             \/ Fabric!Unlocked(r) \/ Fabric!ReadBack(r) \/ Fabric!Evaluate(r) \/ Fabric!RecordState(r)
             \/ Fabric!Raise(r) \/ Fabric!LogFailure(r) \/ Fabric!HandlerRaises(r)
             \/ Fabric!Release(r) \/ Fabric!ReleaseFails(r) \/ Fabric!Crash(r)
             \/ Fabric!QuarantineFails(r)
      PROVE  CarryInv'
      <2>1. UNCHANGED <<wrote, bookmark, staged, reads, low, top, applied, late, lease, now>>
            BY <1>6 DEF Fabric!Unlocked, Fabric!ReadBack, Fabric!Evaluate, Fabric!RecordState,
               Fabric!Raise, Fabric!LogFailure, Fabric!HandlerRaises, Fabric!Release,
               Fabric!ReleaseFails, Fabric!Crash, Fabric!QuarantineFails, Fabric!AppendState
      <2>2. /\ pc' = [pc EXCEPT ![r] = pc'[r]]
            /\ \/ pc[r] \in Holding /\ pc'[r] \in Holding
               \/ pc[r] = "gate" /\ pc'[r] \in {"gate", "quarantining"} /\ quarantined' = quarantined
               \/ pc[r] = "measured" /\ pc'[r] = "stated"
               \/ pc[r] \notin Finished /\ pc'[r] \in {"failing", "failed", "crashed", "done", "leaked"}
               \/ pc[r] \in Finished /\ pc'[r] \in {"done", "leaked", "crashed"}
            BY <1>0, <1>6 DEF Fabric!Unlocked, Fabric!ReadBack, Fabric!Evaluate, Fabric!RecordState,
               Fabric!Raise, Fabric!LogFailure, Fabric!HandlerRaises, Fabric!Release,
               Fabric!ReleaseFails, Fabric!Crash, Fabric!QuarantineFails, Fabric!Goto, Holding, Finished
      <2>3. runLog' = runLog \/ runLog' = runLog \cup {[run |-> r, status |-> "FAILED", part |-> 0]}
            BY <1>6 DEF Fabric!Unlocked, Fabric!ReadBack, Fabric!Evaluate, Fabric!RecordState,
               Fabric!Raise, Fabric!LogFailure, Fabric!HandlerRaises, Fabric!Release,
               Fabric!ReleaseFails, Fabric!Crash, Fabric!QuarantineFails, Fabric!LogRun
      <2>4. \A q \in Run: Succeeded(q)' <=> Succeeded(q)
            BY <2>3 DEF Succeeded
      <2>5. Accounted \subseteq Accounted'
            BY <1>0, AccountedGrows
      <2>6. InHand' = InHand
            BY <2>1, <2>4, InHandOf DEF Files
      <2>7. Passed' /\ Lapsed'
            <3>1. Passed'
                  BY <1>0, <2>1, <2>5, <2>6
            <3>2. Lapsed'
                  BY <1>3, <1>a, <2>1
            <3> QED BY <3>1, <3>2
      <2>8. Carry(r)'
            <3>1. Files(r)' = Files(r) /\ Refused(applied[r], Files(r))' = Refused(applied[r], Files(r))
                  BY <1>0, <2>1 DEF Files, Refused
            <3>2. quarantined[r] \subseteq quarantined'[r] /\ wrote' = wrote
                  BY <1>0, <2>1 DEF Grows
            <3>3. Carry(r) /\ (Succeeded(r)' <=> Succeeded(r))
                  BY <1>0, <2>4
            <3> QED BY <2>1, <2>2, <3>1, <3>2, <3>3 DEF Carry, Holding, Finished
      <2>9. /\ reads' \in [Run -> BOOLEAN] /\ late \subseteq late'
            /\ \A q \in Run \ {r}:
                  /\ UNCHANGED <<low[q], top[q], applied[q], reads[q], pc[q]>>
                  /\ pc[q] \in Between => staged \subseteq staged' \cup late'
            BY <1>4, <2>1, <2>2
      <2> QED BY <1>1, <2>4, <2>7, <2>8, <2>9
\* The lease of a run that asks for the lock was not one before.
<1>7. ASSUME NEW r \in Run, Fabric!Acquire(r)
      PROVE  CarryInv'
      <2>1. /\ UNCHANGED <<wrote, quarantined, bookmark, staged, reads, low, top, applied, late, now,
                           runLog>>
            /\ lease' = [lease EXCEPT ![r] = lease'[r]]
            /\ pc[r] = "idle" /\ pc' = [pc EXCEPT ![r] = pc'[r]] /\ pc'[r] = "merged"
            BY <1>0, <1>a, <1>7 DEF Fabric!Acquire, Fabric!Goto
      <2>2. lease[r] = 0
            BY <1>a, <2>1 DEF Hold
      <2>3. Lapsed'
            BY <1>0, <1>a, <2>1, <2>2
      <2>4. Carry(r)'
            BY <1>0, <2>1 DEF Carry, Holding, Finished, Files, Refused, Succeeded
      <2>5. \A q \in Run: Succeeded(q)' <=> Succeeded(q)
            BY <2>1 DEF Succeeded
      <2> QED BY <1>1, <1>2, <1>4, <2>1, <2>3, <2>4, <2>5
\* A run clears the path: what another one was reading there is late.
<1>8. ASSUME NEW r \in Run, Fabric!Clear(r)
      PROVE  CarryInv'
      <2>1. /\ UNCHANGED <<wrote, quarantined, bookmark, reads, low, top, applied, now, lease, lock, held,
                           runLog>>
            /\ pc[r] = "locked" /\ pc' = [pc EXCEPT ![r] = pc'[r]] /\ pc'[r] = "cleared"
            /\ late' = IF Fabric!Disturbs(r) THEN late \cup (staged \ staged') ELSE late
            BY <1>0, <1>8 DEF Fabric!Clear, Fabric!Goto
      <2>2. late \subseteq late'
            BY <2>1
      <2>3. Carry(r)'
            BY <1>0, <2>1, <2>2 DEF Carry, Holding, Finished, Files, Refused, Succeeded
      <2>4. Lapsed'
            BY <1>0, <2>1, OneHasLapsed DEF Fabric!Disturbs, Inside
      <2>5. ASSUME NEW q \in Run \ {r}
            PROVE  /\ UNCHANGED <<low[q], top[q], applied[q], reads[q], pc[q]>>
                   /\ Succeeded(q)' <=> Succeeded(q)
                   /\ pc[q] \in Between => staged \subseteq staged' \cup late'
            BY <1>0, <2>1, <2>5 DEF Fabric!Disturbs, Succeeded
      <2>6. reads' \in [Run -> BOOLEAN]
            BY <1>0, <2>1
      <2> QED BY <1>1, <1>2, <2>1, <2>2, <2>3, <2>4, <2>5, <2>6
\* A run takes rows off the stream: they are in its hand.
<1>9. ASSUME NEW r \in Run, Fabric!Stream(r) \/ Fabric!StreamFails(r)
      PROVE  CarryInv'
      <2>1. PICK n \in Nat: Fabric!Take(r, n)
            BY <1>9 DEF Fabric!Stream, Fabric!StreamFails, Shape
      <2> DEFINE batch == (bookmark + 1)..n
      <2>2. /\ UNCHANGED <<wrote, quarantined, reads, applied, now, lease, lock, held, runLog>>
            /\ low' = [low EXCEPT ![r] = bookmark] /\ top' = [top EXCEPT ![r] = n] /\ bookmark' = n
            /\ staged' = staged \cup batch
            /\ late' = IF Fabric!Disturbs(r) THEN late \cup batch ELSE late
            BY <2>1 DEF Fabric!Take
      <2>3. /\ pc[r] = "cleared" /\ pc' = [pc EXCEPT ![r] = pc'[r]] /\ pc'[r] \in {"streamed", "failing"}
            BY <1>0, <1>9 DEF Fabric!Stream, Fabric!StreamFails, Fabric!Goto
      <2>4. /\ Files(r)' = batch /\ applied'[r] = {} /\ late \subseteq late'
            /\ ~Succeeded(r) /\ ~Succeeded(r)'
            /\ low[r] = 0 /\ top[r] = 0
            BY <1>0, <2>2, <2>3 DEF Files, Carry, Holding, Finished, Shape, Succeeded
      <2>5. Carry(r)'
            BY <2>2, <2>3, <2>4 DEF Carry, Holding
      <2>6. Lapsed'
            BY <1>0, <2>2, <2>3, OneHasLapsed DEF Fabric!Disturbs, Inside
      <2>7. /\ \A q \in Run \ {r}:
                  /\ UNCHANGED <<low[q], top[q], applied[q], reads[q], pc[q]>>
                  /\ Succeeded(q)' <=> Succeeded(q)
                  /\ pc[q] \in Between => staged \subseteq staged' \cup late'
            /\ reads' \in [Run -> BOOLEAN]
            BY <1>0, <2>2, <2>3 DEF Succeeded, Shape
      <2>8. Passed'
            <3>1. 1..n \subseteq 1..bookmark \cup batch
                  BY DEF Shape
            <3>2. Accounted \subseteq Accounted'
                  BY <1>0, AccountedGrows
            <3>3. batch \subseteq InHand'
                  BY <2>4, InHandOf
            <3>4. Files(r) = {}
                  BY <2>4 DEF Files
            <3>5. \A q \in Run \ {r}: Files(q)' = Files(q)
                  BY <2>7 DEF Files
            <3>6. InHand \subseteq InHand'
                  BY <2>4, <2>7, <3>4, <3>5, InHandOf
            <3> QED BY <1>0, <2>2, <2>4, <3>1, <3>2, <3>3, <3>6
      <2> QED BY <1>1, <2>4, <2>5, <2>6, <2>7, <2>8
<1>10. ASSUME NEW r \in Run, Fabric!Load(r)
      PROVE  CarryInv'
      <2>1. /\ UNCHANGED <<wrote, quarantined, bookmark, staged, low, top, applied, late, now, lease, runLog>>
            /\ pc[r] = "streamed" /\ pc' = [pc EXCEPT ![r] = pc'[r]] /\ pc'[r] = "gate"
            /\ reads' = [reads EXCEPT ![r] = staged # {}]
            BY <1>0, <1>10 DEF Fabric!Load, Fabric!Goto
      <2>2. reads' \in [Run -> BOOLEAN] /\ (reads'[r] <=> staged # {})
            BY <1>0, <2>1, Zenon
      <2>3. Files(r) \subseteq staged \cup late /\ applied[r] = {} /\ ~Succeeded(r)
            BY <1>0, <2>1 DEF Carry, Finished
      <2>4. Refused(applied[r], Files(r))' = {} /\ Files(r)' = Files(r) /\ ~Succeeded(r)'
            BY <2>1, <2>3 DEF Refused, Files, Succeeded
      <2>5. Carry(r)'
            BY <2>1, <2>2, <2>3, <2>4 DEF Carry, Holding
      <2>6. \A q \in Run \ {r}:
                  /\ UNCHANGED <<low[q], top[q], applied[q], reads[q], pc[q]>>
                  /\ Succeeded(q)' <=> Succeeded(q)
                  /\ pc[q] \in Between => staged \subseteq staged' \cup late'
            BY <1>0, <2>1 DEF Succeeded
      <2> QED BY <1>1, <1>2, <1>3, <1>a, <2>1, <2>2, <2>5, <2>6
\* The rows that df leaves out are quarantined, or late.
<1>11. ASSUME NEW r \in Run, pc[r] \in {"gate", "quarantining"}
       PROVE  /\ Files(r) \subseteq Fabric!Df(r) \cup Refused(applied[r], Files(r)) \cup late
              /\ Refused(applied[r], Files(r)) \subseteq quarantined[r] \cup late
              /\ ~Succeeded(r)
       <2>1. /\ Files(r) \subseteq late \cup (IF reads[r] THEN staged ELSE {})
             /\ Refused(applied[r], Files(r)) \subseteq quarantined[r] \cup late
             /\ ~Succeeded(r)
             BY <1>0, <1>11 DEF Carry, Finished
       <2>2. \A n \in Files(r): n \in Fabric!Filtered(r, MaxRow) => n \in Refused(applied[r], Files(r))
             BY DEF Fabric!Filtered, Refused
       <2> QED BY <2>1, <2>2 DEF Fabric!Df
<1>12. ASSUME NEW r \in Run, Fabric!Quarantine(r)
       PROVE  CarryInv'
       <2>1. /\ UNCHANGED <<wrote, bookmark, staged, reads, low, top, late, now, lease, runLog>>
             /\ pc[r] = "quarantining" /\ pc' = [pc EXCEPT ![r] = pc'[r]] /\ pc'[r] = "gate"
             /\ quarantined' = [quarantined EXCEPT ![r] = @ \cup Fabric!Offending(r)]
             /\ applied' = [applied EXCEPT ![r] = @ \cup {step[r]}]
             BY <1>0, <1>12 DEF Fabric!Quarantine, Fabric!Goto
       <2>2. /\ quarantined'[r] = quarantined[r] \cup (Fabric!Df(r) \cap contract.rules[step[r]].bad)
             /\ applied'[r] = applied[r] \cup {step[r]} /\ Files(r)' = Files(r)
             BY <2>1 DEF Shape, Fabric!Offending, Files
       <2>3. Refused(applied[r], Files(r))' =
                 Refused(applied[r], Files(r)) \cup (Files(r) \cap contract.rules[step[r]].bad)
             BY <1>0, <2>2 DEF Refused
       <2>4. Refused(applied[r], Files(r))' \subseteq quarantined'[r] \cup late
             BY <1>11, <2>1, <2>2, <2>3
       <2>5. ~Succeeded(r)' /\ Files(r) \subseteq late \cup (IF reads[r] THEN staged ELSE {})
             BY <1>0, <2>1, <1>11 DEF Succeeded, Carry
       <2>6. Carry(r)'
             BY <2>1, <2>2, <2>4, <2>5 DEF Carry, Holding
       <2>7. \A q \in Run \ {r}:
                   /\ UNCHANGED <<low[q], top[q], applied[q], reads[q], pc[q]>>
                   /\ Succeeded(q)' <=> Succeeded(q)
                   /\ pc[q] \in Between => staged \subseteq staged' \cup late'
             BY <1>0, <2>1 DEF Succeeded, Shape
       <2>8. reads' \in [Run -> BOOLEAN] /\ late \subseteq late'
             BY <1>0, <2>1
       <2>9. Passed' /\ Lapsed'
             BY <1>2, <1>3, <1>a, <2>1
       <2> QED BY <1>1, <2>6, <2>7, <2>8, <2>9
<1>13. ASSUME NEW r \in Run, Fabric!Write(r) \/ Fabric!Measure(r)
       PROVE  CarryInv'
       <2>1. /\ UNCHANGED <<quarantined, bookmark, staged, reads, low, top, applied, late, now, lease, runLog>>
             /\ pc' = [pc EXCEPT ![r] = pc'[r]]
             /\ \/ /\ pc[r] = "gate" /\ pc'[r] = "written"
                   /\ wrote' = [wrote EXCEPT ![r] = Fabric!Df(r)]
                \/ pc[r] = "written" /\ pc'[r] = "measured" /\ UNCHANGED wrote
             BY <1>0, <1>13 DEF Fabric!Write, Fabric!Measure, Fabric!Newcomers, Fabric!Goto
       <2>2. \A q \in Run: (Succeeded(q)' <=> Succeeded(q)) /\ Files(q)' = Files(q)
             BY <2>1 DEF Succeeded, Files
       <2>3. Files(r) \subseteq wrote'[r] \cup quarantined[r] \cup late /\ ~Succeeded(r)
             <3>1. CASE pc[r] = "gate"
                   BY <1>11, <2>1, <3>1 DEF Shape
             <3>2. CASE pc[r] = "written"
                   BY <1>0, <2>1, <3>2 DEF Carry, Finished
             <3> QED BY <2>1, <3>1, <3>2
       <2>4. Carry(r)'
             BY <2>1, <2>2, <2>3 DEF Carry, Holding
       <2>5. /\ reads' \in [Run -> BOOLEAN] /\ late \subseteq late'
             /\ \A q \in Run \ {r}:
                   /\ UNCHANGED <<low[q], top[q], applied[q], reads[q], pc[q]>>
                   /\ pc[q] \in Between => staged \subseteq staged' \cup late'
             BY <1>4, <2>1
       <2>6. Passed' /\ Lapsed'
             BY <1>2, <1>3, <1>a, <2>1
       <2> QED BY <1>1, <2>2, <2>4, <2>5, <2>6
\* A success: the rows leave the run's hand, accounted for.
<1>14. ASSUME NEW r \in Run, Fabric!LogSuccess(r)
       PROVE  CarryInv'
       <2>1. /\ UNCHANGED <<wrote, quarantined, bookmark, staged, reads, low, top, applied, late, now, lease>>
             /\ pc[r] = "stated" /\ pc' = [pc EXCEPT ![r] = pc'[r]] /\ pc'[r] = "logged"
             /\ runLog' = runLog \cup {[run |-> r, status |-> "SUCCESS", part |-> 0]}
             BY <1>0, <1>14 DEF Fabric!LogSuccess, Fabric!LogRun, Fabric!Goto
       <2>2. /\ \A q \in Run \ {r}: Succeeded(q)' <=> Succeeded(q)
             /\ \A q \in Run: Files(q)' = Files(q)
             BY <2>1 DEF Succeeded, Files
       <2>3. Files(r) \subseteq wrote[r] \cup quarantined[r] \cup late
             BY <1>0, <2>1 DEF Carry
       <2>4. Carry(r)'
             BY <2>1, <2>2, <2>3 DEF Carry, Holding, Finished
       <2>5. Accounted' = Accounted /\ wrote[r] \cup quarantined[r] \subseteq Accounted
             BY <2>1 DEF Accounted
       <2>6. InHand \subseteq InHand' \cup Files(r)
             BY <2>2, InHandOf
       <2>7. Passed'
             BY <1>0, <2>1, <2>3, <2>5, <2>6
       <2>8. Lapsed'
             BY <1>3, <1>a, <2>1
       <2>9. /\ reads' \in [Run -> BOOLEAN] /\ late \subseteq late'
             /\ \A q \in Run \ {r}:
                   /\ UNCHANGED <<low[q], top[q], applied[q], reads[q], pc[q]>>
                   /\ pc[q] \in Between => staged \subseteq staged' \cup late'
             BY <1>4, <2>1
       <2> QED BY <1>1, <2>2, <2>4, <2>7, <2>8, <2>9
<1>15. ASSUME NEW r \in Run, Fabric!Count(r)
       PROVE  FALSE
       BY <1>15 DEF Fabric!Count
<1> QED BY <1>5, <1>6, <1>7, <1>8, <1>9, <1>10, <1>12, <1>13, <1>14, <1>15 DEF Fabric!Next

\* The holder and the lapsed runs of the abstract lease.
Holder == IF lock.status = "ACTIVE" THEN lock.run ELSE None
Lapsed == {r \in Run: lease[r] # 0 /\ lease[r] < now}

-----------------------------------------------------------------------------
(* A Snowflake run: types *)

Types ==
    /\ Snowflake!TypeOK
    /\ platform = "snowflake" /\ contract \in Contracts /\ ~contract.stream
    /\ pc \in [Run -> Snowflake!Pc]
    /\ \A r \in Run: top[r] <= source /\ base[r] <= Len(stateLog)
    /\ \A r \in Run: applied[r] \subseteq DOMAIN contract.rules
    /\ \A r \in Run: pc[r] = "quarantining" => step[r] \in DOMAIN contract.rules

\* A bounded set of numbers has a greatest one.
LEMMA Greatest ==
    ASSUME NEW N \in Nat, NEW S, S \subseteq 0..N, S # {}
    PROVE  \E n \in S: \A m \in S: m <= n
<1> DEFINE R == StrictSubsetOrdering(0..N)
           From(n) == n..N
           Tails == {From(n): n \in S}
<1>1. IsWellFoundedOn(R, FiniteSubsetsOf(0..N))
      BY FS_StrictSubsetOrderingWellFounded
<1>2. Tails \subseteq FiniteSubsetsOf(0..N) /\ Tails # {}
      <2>1. ASSUME NEW n \in S
            PROVE  IsFiniteSet(From(n)) /\ From(n) \subseteq 0..N
            <3>1. n \in 0..N /\ n \in Int /\ N \in Int
                  OBVIOUS
            <3>2. IsFiniteSet(n..N)
                  BY <3>1, FS_Interval
            <3> QED BY <3>1, <3>2
      <2> HIDE DEF From
      <2> QED BY <2>1 DEF FiniteSubsetsOf
<1>3. \E x \in Tails: \A y \in Tails: ~(<<y, x>> \in R)
      <2> HIDE DEF R, Tails
      <2> QED BY <1>1, <1>2, WFMin
<1>4. PICK n \in S: \A m \in S: ~(<<From(m), From(n)>> \in R)
      BY <1>3
<1>5. ASSUME NEW m \in S, n < m
      PROVE  <<From(m), From(n)>> \in R
      <2>1. From(m) \subseteq From(n) /\ n \in From(n) \ From(m)
            BY <1>5
      <2> QED BY <2>1 DEF StrictSubsetOrdering
<1>6. \A m \in S: ~(n < m)
      BY <1>4, <1>5
<1>7. \A m \in S: m <= n
      BY <1>6
<1> QED BY <1>7

LEMMA MaxOfRows ==
    ASSUME NEW N \in Nat, NEW S, S \subseteq 0..N
    PROVE  /\ S = {} => Snowflake!MaxWatermark(S) = None
           /\ S # {} => Snowflake!MaxWatermark(S) \in S /\ \A m \in S: m <= Snowflake!MaxWatermark(S)
BY Greatest DEF Snowflake!MaxWatermark

\* The state row that the filter reads is a row of a success.
LEMMA WatermarkIsLogged ==
    ASSUME Types, NEW n \in 0..Len(stateLog)
    PROVE  \/ Snowflake!Successes(n) = {} /\ Snowflake!WatermarkAt(n) = None
           \/ \E i \in Snowflake!Successes(n):
                 /\ \A j \in Snowflake!Successes(n): j <= i
                 /\ Snowflake!WatermarkAt(n) = stateLog[i].watermark
<1> DEFINE found == Snowflake!MaxWatermark(Snowflake!Successes(n))
<1>1. Snowflake!Successes(n) \subseteq 0..n /\ n \in Nat
      BY DEF Snowflake!Successes
<1>2. CASE Snowflake!Successes(n) = {}
      BY <1>1, <1>2, MaxOfRows DEF Snowflake!WatermarkAt
<1>3. CASE Snowflake!Successes(n) # {}
      <2>1. found \in Snowflake!Successes(n) /\ \A m \in Snowflake!Successes(n): m <= found
            BY <1>1, <1>3, MaxOfRows
      <2>2. found # None
            BY <1>1, <2>1, NoneAssumption
      <2> QED BY <2>1, <2>2 DEF Snowflake!WatermarkAt
<1> QED BY <1>2, <1>3

LEMMA ViewRows ==
    ASSUME Types, NEW r \in Run, NEW n \in 0..MaxRow
    PROVE  /\ Snowflake!View(r, n) \subseteq Snowflake!Row /\ Snowflake!View(r, n) \subseteq (low[r] + 1)..n
           /\ Snowflake!View(r, n) \subseteq 0..MaxRow /\ MaxRow \in Nat
BY MaxRowAssumption DEF Snowflake!View, Snowflake!Row, Types, Snowflake!TypeOK

LEMMA TypesInit == Snowflake!Init => Types
<1> SUFFICES ASSUME Snowflake!Init
             PROVE  Types
    OBVIOUS
<1>1. stateLog \in Seq(Snowflake!StateRow) /\ source \in 0..MaxRow /\ bookmark \in 0..MaxRow /\ planned \in 0..MaxRow
      BY MaxRowAssumption DEF Snowflake!Init, Snowflake!Fresh
<1>2. lock \in Snowflake!LockRow
      BY DEF Snowflake!Init, Snowflake!Fresh, Snowflake!NoLockRow, Snowflake!LockRow
<1>3. /\ platform = "snowflake" /\ contract \in Contracts /\ ~contract.stream
      /\ now \in Nat /\ runLog \subseteq Snowflake!RunRow /\ staged \subseteq Snowflake!Row /\ late \subseteq Snowflake!Row
      BY DEF Snowflake!Init, Snowflake!Fresh
<1>4. /\ wrote \in [Run -> SUBSET Snowflake!Row] /\ quarantined \in [Run -> SUBSET Snowflake!Row]
      /\ lease \in [Run -> Nat] /\ held \in [Run -> BOOLEAN] /\ reads \in [Run -> BOOLEAN]
      /\ low \in [Run -> 0..MaxRow] /\ top \in [Run -> 0..MaxRow]
      /\ base \in [Run -> Nat] /\ step \in [Run -> Nat \ {0}]
      /\ applied \in [Run -> SUBSET Nat] /\ cand \in [Run -> Snowflake!Row \cup {None}]
      BY MaxRowAssumption DEF Snowflake!Init, Snowflake!Fresh
<1>5. pc \in [Run -> Snowflake!Pc]
      BY DEF Snowflake!Init, Snowflake!Fresh, Snowflake!Pc
<1>6. /\ \A r \in Run: top[r] <= source /\ base[r] <= Len(stateLog)
      /\ \A r \in Run: applied[r] \subseteq DOMAIN contract.rules
      /\ \A r \in Run: pc[r] = "quarantining" => step[r] \in DOMAIN contract.rules
      BY DEF Snowflake!Init, Snowflake!Fresh
<1> QED BY <1>1, <1>2, <1>3, <1>4, <1>5, <1>6 DEF Types, Snowflake!TypeOK, Snowflake!Runners

LEMMA RulesType ==
    ASSUME Types
    PROVE  /\ Len(contract.rules) \in Nat /\ DOMAIN contract.rules = 1..Len(contract.rules)
           /\ \A i \in DOMAIN contract.rules: contract.rules[i] \in Snowflake!Rule /\ contract.rules[i].bad \subseteq Snowflake!Row
<1>1. contract \in Snowflake!Contract
      BY ContractsAssumption DEF Types, Snowflake!Contract, Snowflake!Rule, Snowflake!Severity,
         Snowflake!Row, Snowflake!Policy, Contract, Rule, Severity, Row, Policy
<1>2. contract.rules \in Seq(Snowflake!Rule)
      BY <1>1 DEF Snowflake!Contract
<1>3. Len(contract.rules) \in Nat /\ DOMAIN contract.rules = 1..Len(contract.rules)
      BY <1>2
<1>4. ASSUME NEW i \in DOMAIN contract.rules
      PROVE  contract.rules[i] \in Snowflake!Rule
      BY <1>2, <1>3
<1>5. \A x \in Snowflake!Rule: x.bad \subseteq Snowflake!Row
      BY DEF Snowflake!Rule
<1> QED BY <1>3, <1>4, <1>5

\* What a step puts into the tables has their types.
LEMMA FoundWatermark ==
    ASSUME Types, NEW n \in 0..Len(stateLog)
    PROVE  Snowflake!WatermarkAt(n) \in Snowflake!Row \cup {None}
<1>1. CASE Snowflake!WatermarkAt(n) = None
      BY <1>1
<1>2. ASSUME NEW i \in Snowflake!Successes(n), Snowflake!WatermarkAt(n) = stateLog[i].watermark
      PROVE  Snowflake!WatermarkAt(n) \in Snowflake!Row \cup {None}
      <2>1. stateLog \in Seq(Snowflake!StateRow) /\ Len(stateLog) \in Nat
            BY DEF Types, Snowflake!TypeOK
      <2>2. i \in 1..Len(stateLog)
            BY <2>1 DEF Snowflake!Successes
      <2>3. stateLog[i] \in Snowflake!StateRow
            BY <2>1, <2>2
      <2> QED BY <1>2, <2>3 DEF Snowflake!StateRow
<1> QED BY <1>1, <1>2, WatermarkIsLogged

LEMMA SourceRows ==
    ASSUME Types, NEW r \in Run
    PROVE  /\ Snowflake!View(r, source) \subseteq Snowflake!Row /\ Snowflake!Failing(r, source) \subseteq Snowflake!Row
           /\ Snowflake!Arrived(r) \subseteq Snowflake!Row
           /\ Snowflake!MaxWatermark(Snowflake!View(r, source)) \in Snowflake!Row \cup {None}
<1>1. source \in 0..MaxRow /\ MaxRow \in Nat /\ top[r] \in 0..MaxRow
      BY MaxRowAssumption DEF Types, Snowflake!TypeOK
<1>2. Snowflake!View(r, source) \subseteq Snowflake!Row /\ Snowflake!View(r, source) \subseteq 0..MaxRow
      BY <1>1, ViewRows
<1>3. Snowflake!MaxWatermark(Snowflake!View(r, source)) \in Snowflake!Row \cup {None}
      BY <1>1, <1>2, MaxOfRows
<1>4. Snowflake!Arrived(r) \subseteq Snowflake!Row
      BY <1>1 DEF Snowflake!Arrived, Snowflake!Row
<1> QED BY <1>2, <1>3, <1>4 DEF Snowflake!Failing

LEMMA AppendedState ==
    ASSUME Types, NEW r \in Run, NEW status \in Snowflake!Status, NEW watermark \in Snowflake!Row \cup {None},
           Snowflake!AppendState(r, status, watermark)
    PROVE  /\ stateLog' \in Seq(Snowflake!StateRow) /\ Len(stateLog') = Len(stateLog) + 1
           /\ Len(stateLog) \in Nat
           /\ \A i \in 1..Len(stateLog): stateLog'[i] = stateLog[i]
           /\ stateLog'[Len(stateLog')] = [run |-> r, status |-> status, watermark |-> watermark]
           /\ \A n \in 0..Len(stateLog): Snowflake!Successes(n)' = Snowflake!Successes(n)
<1>1. stateLog \in Seq(Snowflake!StateRow) /\ [run |-> r, status |-> status, watermark |-> watermark] \in Snowflake!StateRow
      BY DEF Types, Snowflake!TypeOK, Snowflake!StateRow
<1>2. stateLog' = Append(stateLog, [run |-> r, status |-> status, watermark |-> watermark])
      BY DEF Snowflake!AppendState
<1>3. /\ stateLog' \in Seq(Snowflake!StateRow) /\ Len(stateLog') = Len(stateLog) + 1 /\ Len(stateLog) \in Nat
      /\ \A i \in 1..Len(stateLog): stateLog'[i] = stateLog[i]
      /\ stateLog'[Len(stateLog')] = [run |-> r, status |-> status, watermark |-> watermark]
      BY <1>1, <1>2
<1> QED BY <1>3 DEF Snowflake!Successes

\* Types are kept by each step.
LEMMA TypesNext == Types /\ [Snowflake!Next]_(Snowflake!vars) => Types'
<1> SUFFICES ASSUME Types, [Snowflake!Next]_(Snowflake!vars)
             PROVE  Types'
    OBVIOUS
<1>a. \A r \in Run: /\ Snowflake!View(r, source) \subseteq Snowflake!Row /\ Snowflake!Failing(r, source) \subseteq Snowflake!Row
                      /\ Snowflake!Arrived(r) \subseteq Snowflake!Row
                      /\ Snowflake!MaxWatermark(Snowflake!View(r, source)) \in Snowflake!Row \cup {None}
      BY SourceRows
<1>b. Len(stateLog) \in Nat /\ Snowflake!WatermarkAt(Len(stateLog)) \in Snowflake!Row \cup {None}
      <2>1. Len(stateLog) \in Nat
            BY DEF Types, Snowflake!TypeOK
      <2> QED BY <2>1, FoundWatermark
<1>c. /\ Len(contract.rules) \in Nat /\ DOMAIN contract.rules = 1..Len(contract.rules)
      BY RulesType
<1>d. ASSUME NEW r \in Run, NEW status \in Snowflake!Status, NEW watermark \in Snowflake!Row \cup {None},
             Snowflake!AppendState(r, status, watermark)
      PROVE  stateLog' \in Seq(Snowflake!StateRow) /\ Len(stateLog') = Len(stateLog) + 1
      BY <1>d, AppendedState
<1> USE DEF Snowflake!given, Snowflake!data, Snowflake!locking, Snowflake!progress, Snowflake!control,
      Snowflake!locals, Types, Snowflake!TypeOK, Snowflake!Goto
<1>1. CASE Snowflake!Arrive
      <2>1. source' \in 0..MaxRow /\ \A r \in Run: top[r] <= source'
            BY <1>1, MaxRowAssumption DEF Snowflake!Arrive
      <2> QED BY <1>1, <2>1 DEF Snowflake!Arrive
<1>2. CASE Snowflake!Tick
      BY <1>2 DEF Snowflake!Tick
<1>3. CASE UNCHANGED Snowflake!vars
      BY <1>3 DEF Snowflake!vars
<1>4. ASSUME NEW r \in Run,
             \/ Snowflake!LookUp(r) \/ Snowflake!Unlocked(r) \/ Snowflake!Raise(r) \/ Snowflake!HandlerRaises(r)
             \/ Snowflake!LogSuccessFails(r) \/ Snowflake!ReleaseFails(r) \/ Snowflake!Crash(r)
      PROVE  Types'
      <2>1. pc' \in [Run -> Snowflake!Pc] /\ \A q \in Run: pc'[q] = "quarantining" => pc[q] = "quarantining"
            BY <1>4 DEF Snowflake!LookUp, Snowflake!Unlocked, Snowflake!Raise, Snowflake!HandlerRaises,
               Snowflake!LogSuccessFails, Snowflake!ReleaseFails, Snowflake!Crash,
                        Snowflake!Pc, Snowflake!Working, Snowflake!Failed, Snowflake!Terminal
      <2>2. UNCHANGED <<Snowflake!data, Snowflake!control, Snowflake!locals, late>>
            BY <1>4 DEF Snowflake!LookUp, Snowflake!Unlocked, Snowflake!Raise, Snowflake!HandlerRaises,
               Snowflake!LogSuccessFails, Snowflake!ReleaseFails, Snowflake!Crash
      <2> QED BY <2>1, <2>2
<1>5. ASSUME NEW r \in Run, NEW status \in Snowflake!Status, Snowflake!LogRun(r, status, 0)
      PROVE  runLog' \subseteq Snowflake!RunRow
      BY <1>5 DEF Snowflake!LogRun, Snowflake!RunRow
<1>6. ASSUME NEW r \in Run, Snowflake!LogSkip(r) \/ Snowflake!FailRun(r) \/ Snowflake!LogSuccess(r)
      PROVE  Types'
      <2>1. runLog' \subseteq Snowflake!RunRow
            BY <1>5, <1>6 DEF Snowflake!LogSkip, Snowflake!FailRun, Snowflake!LogSuccess, Snowflake!Status
      <2>2. pc' \in [Run -> Snowflake!Pc] /\ \A q \in Run: pc'[q] = "quarantining" => pc[q] = "quarantining"
            BY <1>6 DEF Snowflake!LogSkip, Snowflake!FailRun, Snowflake!LogSuccess, Snowflake!Pc,
               Snowflake!Working, Snowflake!Failed, Snowflake!Terminal
      <2> QED BY <1>6, <2>1, <2>2 DEF Snowflake!LogSkip, Snowflake!FailRun, Snowflake!LogSuccess
<1>7. ASSUME NEW r \in Run, Snowflake!Acquire(r)
      PROVE  Types'
      <2>1. lock' \in Snowflake!LockRow /\ lease' \in [Run -> Nat]
            BY <1>7, TTLAssumption DEF Snowflake!Acquire, Snowflake!AcquireLock, Snowflake!LockRow
      <2> QED BY <1>7, <2>1 DEF Snowflake!Acquire, Snowflake!Pc
<1>8. ASSUME NEW r \in Run, Snowflake!ReadBack(r)
      PROVE  Types'
      BY <1>8 DEF Snowflake!ReadBack, Snowflake!Pc, Snowflake!Working, Snowflake!Failed, Snowflake!Confirmed
<1>9. ASSUME NEW r \in Run, Snowflake!ReadState(r)
      PROVE  Types'
      <2>1. low' \in [Run -> 0..MaxRow]
            BY <1>9, <1>b, MaxRowAssumption DEF Snowflake!ReadState, Snowflake!Row
      <2> QED BY <1>9, <1>b, <2>1 DEF Snowflake!ReadState, Snowflake!Pc, Snowflake!Working
<1>10. ASSUME NEW r \in Run, Snowflake!Count(r)
       PROVE  Types'
       BY <1>10 DEF Snowflake!Count, Snowflake!Pc, Snowflake!Working
<1>11. ASSUME NEW r \in Run, Snowflake!Evaluate(r)
       PROVE  Types'
       <2>1. pc[r] = "gate" /\ step[r] \in DOMAIN contract.rules
             BY <1>11, <1>c DEF Snowflake!Evaluate
       <2>2. step' \in [Run -> Nat \ {0}] /\ pc' \in [Run -> Snowflake!Pc]
             BY <1>11 DEF Snowflake!Evaluate, Snowflake!Pc, Snowflake!Working, Snowflake!Failed
       <2>3. pc'[r] = "quarantining" => step'[r] = step[r]
             BY <1>11, <2>1 DEF Snowflake!Evaluate
       <2>4. \A q \in Run \ {r}: pc'[q] = pc[q] /\ step'[q] = step[q]
             BY <1>11 DEF Snowflake!Evaluate
       <2> QED BY <1>11, <2>1, <2>2, <2>3, <2>4 DEF Snowflake!Evaluate
<1>12. ASSUME NEW r \in Run, Snowflake!Quarantine(r)
       PROVE  Types'
       <2>2. quarantined' \in [Run -> SUBSET Snowflake!Row]
             BY <1>12, <1>a DEF Snowflake!Quarantine
       <2>3. step[r] \in DOMAIN contract.rules
             BY <1>12 DEF Snowflake!Quarantine
       <2>4. applied' \in [Run -> SUBSET Nat] /\ \A q \in Run: applied'[q] \subseteq DOMAIN contract.rules
             BY <1>12, <2>3 DEF Snowflake!Quarantine
       <2> QED BY <1>12, <2>2, <2>4 DEF Snowflake!Quarantine, Snowflake!Pc, Snowflake!Working
<1>13. ASSUME NEW r \in Run, Snowflake!Write(r)
       PROVE  Types'
       <2> QED BY <1>13, <1>a DEF Snowflake!Write, Snowflake!Pc, Snowflake!Working
<1>14. ASSUME NEW r \in Run, Snowflake!Measure(r)
       PROVE  Types'
       <2> QED BY <1>14, <1>a DEF Snowflake!Measure, Snowflake!Pc, Snowflake!Working
<1>15. ASSUME NEW r \in Run, Snowflake!RecordState(r)
       PROVE  Types'
       <2>1. stateLog' \in Seq(Snowflake!StateRow) /\ Len(stateLog') = Len(stateLog) + 1
             BY <1>15, <1>d DEF Snowflake!RecordState, Snowflake!Status
       <2> QED BY <1>15, <2>1 DEF Snowflake!RecordState, Snowflake!Pc, Snowflake!Working
<1>16. ASSUME NEW r \in Run, Snowflake!FailState(r)
       PROVE  Types'
       <2>1. stateLog' \in Seq(Snowflake!StateRow) /\ Len(stateLog') = Len(stateLog) + 1
             BY <1>16, <1>d DEF Snowflake!FailState, Snowflake!Status
       <2> QED BY <1>16, <2>1 DEF Snowflake!FailState, Snowflake!Pc, Snowflake!Failed
<1>17. ASSUME NEW r \in Run, Snowflake!Release(r)
       PROVE  Types'
       <2>1. lock' \in Snowflake!LockRow
             BY <1>17 DEF Snowflake!Release, Snowflake!ReleaseLock, Snowflake!LockRow
       <2> QED BY <1>17, <2>1 DEF Snowflake!Release, Snowflake!Pc, Snowflake!Terminal
<1> QED BY <1>1, <1>2, <1>3, <1>4, <1>6, <1>7, <1>8, <1>9, <1>10, <1>11, <1>12, <1>13, <1>14,
           <1>15, <1>16, <1>17 DEF Snowflake!Next

\* The variables of a Snowflake run keep their types.
THEOREM SnowflakeTypes == Snowflake!Spec => []Types
BY TypesInit, TypesNext, PTL DEF Snowflake!Spec

-----------------------------------------------------------------------------
(* A Snowflake run: the quality gate *)

NotYet == {"idle", "skipping", "checked", "merged", "locked"}
Unloaded == NotYet \cup {"ready", "gate", "quarantining"}
Complete == {"written", "measured", "stated", "released"}

\* The rows that a run found at its start, and whether it filters a row out.
Rows(r) == (low[r] + 1)..top[r]
Dropped(r, m) == \E i \in applied[r]: m \in contract.rules[i].bad

\* A run filters out those rows of its start that it has put aside, each rule
\* that it has passed is a warning or has no failing row left, and what it
\* wrote has none either, but for rows that came late.
Gate(r) ==
    /\ pc[r] \in NotYet \cup {"ready"} => applied[r] = {} /\ step[r] = 1 /\ quarantined[r] = {}
    /\ pc[r] \in Unloaded => wrote[r] = {}
    /\ \A m \in quarantined[r]: Dropped(r, m)
    /\ \A m \in Rows(r): Dropped(r, m) => m \in quarantined[r]
    /\ \A i \in DOMAIN contract.rules:
          contract.rules[i].severity # "warn" /\ i < step[r]
          => \A m \in Rows(r): m \in contract.rules[i].bad => Dropped(r, m)
    /\ \A m \in wrote[r]: ~Dropped(r, m) /\ low[r] < m
    /\ \A i \in DOMAIN contract.rules:
          contract.rules[i].severity # "warn" => wrote[r] \cap contract.rules[i].bad \subseteq late
    /\ pc[r] \in Complete => Rows(r) \subseteq wrote[r] \cup quarantined[r]

Gates == \A r \in Run: Gate(r)

\* A step that leaves what a run did and saw alone.
Same(r) ==
    /\ contract' = contract /\ late \subseteq late'
    /\ wrote'[r] = wrote[r] /\ quarantined'[r] = quarantined[r]
    /\ low'[r] = low[r] /\ top'[r] = top[r]
    /\ step'[r] = step[r] /\ applied'[r] = applied[r]
    /\ pc'[r] \in NotYet \cup {"ready"} => pc[r] \in NotYet \cup {"ready"}
    /\ pc'[r] \in Unloaded => pc[r] \in Unloaded
    /\ pc'[r] \in Complete => pc[r] \in Complete

LEMMA SameGate ==
    ASSUME NEW r \in Run, Gate(r), Same(r)
    PROVE  Gate(r)'
BY DEF Gate, Same, Rows, Dropped

LEMMA ViewIs ==
    ASSUME Types, NEW r \in Run
    PROVE  /\ \A m: m \in Snowflake!View(r, source) <=> m \in (low[r] + 1)..source /\ ~Dropped(r, m)
           /\ Rows(r) \subseteq (low[r] + 1)..source
           /\ \A m \in (low[r] + 1)..source: m \in Rows(r) \/ m \in Snowflake!Arrived(r)
<1>1. source \in Nat /\ low[r] \in Nat /\ top[r] \in Nat /\ top[r] <= source
      BY MaxRowAssumption DEF Types, Snowflake!TypeOK
<1> QED BY <1>1 DEF Snowflake!View, Snowflake!Filtered, Dropped, Rows, Snowflake!Arrived

\* The steps that only move on.
Moves(r) ==
    \/ Snowflake!LookUp(r) \/ Snowflake!LogSkip(r) \/ Snowflake!Unlocked(r) \/ Snowflake!Acquire(r) \/ Snowflake!ReadBack(r)
    \/ Snowflake!RecordState(r) \/ Snowflake!Raise(r) \/ Snowflake!FailState(r) \/ Snowflake!FailRun(r) \/ Snowflake!HandlerRaises(r)
    \/ Snowflake!Release(r) \/ Snowflake!ReleaseFails(r) \/ Snowflake!LogSuccess(r) \/ Snowflake!LogSuccessFails(r) \/ Snowflake!Crash(r)

LEMMA MovesAreSame ==
    ASSUME Types, NEW r \in Run, Moves(r), NEW q \in Run
    PROVE  Same(q)
<1>1. UNCHANGED <<Snowflake!data, Snowflake!locals, late>>
      BY DEF Moves, Snowflake!LookUp, Snowflake!LogSkip, Snowflake!Unlocked, Snowflake!Acquire,
         Snowflake!ReadBack, Snowflake!RecordState, Snowflake!Raise, Snowflake!FailState,
             Snowflake!FailRun, Snowflake!HandlerRaises, Snowflake!Release, Snowflake!ReleaseFails,
                Snowflake!LogSuccess, Snowflake!LogSuccessFails, Snowflake!Crash,
             Snowflake!control, Snowflake!progress
<1>2. pc \in [Run -> Snowflake!Pc]
      BY DEF Types
<1>3. /\ q # r => pc'[q] = pc[q]
      /\ pc'[r] \in NotYet \cup {"ready"} => pc[r] \in NotYet \cup {"ready"}
      /\ pc'[r] \in Unloaded => pc[r] \in Unloaded
      /\ pc'[r] \in Complete => pc[r] \in Complete
      BY <1>2
         DEF Moves, Snowflake!LookUp, Snowflake!LogSkip, Snowflake!Unlocked, Snowflake!Acquire,
            Snowflake!ReadBack, Snowflake!RecordState, Snowflake!Raise, Snowflake!FailState,
             Snowflake!FailRun, Snowflake!HandlerRaises, Snowflake!Release, Snowflake!ReleaseFails,
                Snowflake!LogSuccess, Snowflake!LogSuccessFails, Snowflake!Crash,
             NotYet, Unloaded, Complete, Snowflake!Goto, Snowflake!Pc, Snowflake!Working, Snowflake!Failed,
                Snowflake!Terminal
<1> QED BY <1>1, <1>3 DEF Same, Snowflake!data, Snowflake!given, Snowflake!locals

LEMMA ArrivalsAreSame ==
    ASSUME Snowflake!Arrive \/ Snowflake!Tick \/ UNCHANGED Snowflake!vars, NEW q \in Run
    PROVE  Same(q)
BY DEF Snowflake!Arrive, Snowflake!Tick, Snowflake!vars, Same, Snowflake!data, Snowflake!given,
   Snowflake!locals, Snowflake!control

LEMMA GatesNext == Types /\ Gates /\ [Snowflake!Next]_(Snowflake!vars) => Gates'
<1> SUFFICES ASSUME Types, Gates, [Snowflake!Next]_(Snowflake!vars)
             PROVE  Gates'
    OBVIOUS
<1>1. CASE Snowflake!Arrive \/ Snowflake!Tick \/ UNCHANGED Snowflake!vars
      BY <1>1, ArrivalsAreSame, SameGate DEF Gates
<1>2. ASSUME NEW r \in Run, Moves(r)
      PROVE  Gates'
      BY <1>2, MovesAreSame, SameGate DEF Gates
<1>3. ASSUME NEW r \in Run, \A q \in Run \ {r}: Same(q), Gate(r)'
      PROVE  Gates'
      BY <1>3, SameGate DEF Gates
<1>4. ASSUME NEW r \in Run,
             Snowflake!ReadState(r) \/ Snowflake!Count(r) \/ Snowflake!Evaluate(r) \/ Snowflake!Quarantine(r) \/ Snowflake!Write(r) \/ Snowflake!Measure(r)
      PROVE  \A q \in Run \ {r}: Same(q)
      BY <1>4 DEF Snowflake!ReadState, Snowflake!Count, Snowflake!Evaluate, Snowflake!Quarantine,
         Snowflake!Write, Snowflake!Measure, Same, Snowflake!Goto, Types, Snowflake!TypeOK,
                  Snowflake!data, Snowflake!given, Snowflake!locals, Snowflake!control
<1>5. ASSUME NEW r \in Run, Snowflake!ReadState(r) \/ Snowflake!Count(r)
      PROVE  Gates'
      <2>1. Gate(r) /\ pc[r] \in NotYet \cup {"ready"}
            BY <1>5 DEF Gates, Snowflake!ReadState, Snowflake!Count, NotYet
      <2>2. applied'[r] = {} /\ step'[r] = 1 /\ quarantined'[r] = {} /\ wrote'[r] = {}
            BY <1>5, <2>1 DEF Gate, Snowflake!ReadState, Snowflake!Count, Snowflake!data, Snowflake!locals,
               Unloaded
      <2>3. pc'[r] \notin Complete
            BY <1>5 DEF Snowflake!ReadState, Snowflake!Count, Snowflake!Goto, Complete, Types
      <2>4. \A m: ~Dropped(r, m)'
            BY <2>2 DEF Dropped
      <2>5. \A i \in DOMAIN contract.rules: ~(i < step'[r])
            BY <2>2, RulesType
      <2>6. contract' = contract
            BY <1>5 DEF Snowflake!ReadState, Snowflake!Count, Snowflake!data, Snowflake!given
      <2>7. Gate(r)'
            BY <2>2, <2>3, <2>4, <2>5, <2>6 DEF Gate
      <2> QED BY <1>3, <1>4, <1>5, <2>7
<1>6. ASSUME NEW r \in Run, Snowflake!Evaluate(r)
      PROVE  Gates'
      <2>1. /\ Gate(r) /\ pc[r] = "gate" /\ step[r] \in Nat
            /\ pc'[r] \in {"gate", "failing", "quarantining"}
            /\ step' = [step EXCEPT ![r] = IF Snowflake!Failing(r, source) = {} \/ contract.rules[step[r]].severity = "warn"
                                           THEN @ + 1 ELSE @]
            /\ UNCHANGED <<Snowflake!data, low, top, applied, late>>
            BY <1>6 DEF Gates, Snowflake!Evaluate, Types, Snowflake!TypeOK, Snowflake!Goto
      <2>2. /\ contract' = contract /\ late' = late
            /\ wrote' = wrote /\ quarantined' = quarantined /\ low' = low /\ top' = top /\ applied' = applied
            BY <2>1 DEF Snowflake!data, Snowflake!given
      <2>3. ASSUME NEW i \in DOMAIN contract.rules, contract.rules[i].severity # "warn", i < step'[r],
                   NEW m \in Rows(r), m \in contract.rules[i].bad
            PROVE  Dropped(r, m)
            <3>1. CASE i < step[r]
                  BY <2>1, <2>3, <3>1 DEF Gate
            <3>2. CASE ~(i < step[r])
                  <4>1. i \in Nat
                        BY RulesType
                  <4>2. i = step[r] /\ Snowflake!Failing(r, source) = {}
                        <5>1. step \in [Run -> Nat \ {0}]
                              BY DEF Types, Snowflake!TypeOK
                        <5> QED BY <2>1, <2>3, <3>2, <4>1, <5>1
                  <4>3. m \notin Snowflake!View(r, source)
                        BY <2>3, <4>2 DEF Snowflake!Failing
                  <4> QED BY <4>3, ViewIs
            <3> QED BY <3>1, <3>2
      <2>4. \A m: Dropped(r, m)' <=> Dropped(r, m)
            BY <2>2 DEF Dropped
      <2>5. Rows(r)' = Rows(r)
            BY <2>2 DEF Rows
      <2>6. pc'[r] \notin NotYet \cup {"ready"} /\ pc'[r] \notin Complete /\ wrote[r] = {}
            BY <2>1 DEF NotYet, Complete, Unloaded, Gate
      <2>7. Gate(r)'
            BY <2>1, <2>2, <2>3, <2>4, <2>5, <2>6 DEF Gate
      <2> QED BY <1>3, <1>4, <1>6, <2>7
<1>7. ASSUME NEW r \in Run, Snowflake!Quarantine(r)
      PROVE  Gates'
      <2>1. /\ Gate(r) /\ pc[r] = "quarantining" /\ pc'[r] = "gate" /\ step[r] \in DOMAIN contract.rules
            /\ quarantined'[r] = quarantined[r] \cup Snowflake!Failing(r, source)
            /\ applied'[r] = applied[r] \cup {step[r]}
            /\ step'[r] = step[r] + 1
            /\ contract' = contract /\ late' = late /\ wrote' = wrote /\ low' = low /\ top' = top
            BY <1>7 DEF Gates, Snowflake!Quarantine, Types, Snowflake!TypeOK, Snowflake!Goto, Snowflake!given
      <2>2. \A m: Dropped(r, m)' <=> Dropped(r, m) \/ m \in contract.rules[step[r]].bad
            BY <2>1 DEF Dropped
      <2>3. Rows(r)' = Rows(r) /\ wrote[r] = {}
            BY <2>1 DEF Rows, Gate, Unloaded
      <2>4. \A m \in quarantined'[r]: Dropped(r, m)'
            BY <2>1, <2>2 DEF Gate, Snowflake!Failing
      <2>5. ASSUME NEW m \in Rows(r), Dropped(r, m)'
            PROVE  m \in quarantined'[r]
            <3>1. CASE Dropped(r, m)
                  BY <2>1, <3>1 DEF Gate
            <3>2. CASE ~Dropped(r, m)
                  <4>1. m \in Snowflake!View(r, source)
                        BY <3>2, ViewIs
                  <4> QED BY <2>1, <2>2, <2>5, <3>2, <4>1 DEF Snowflake!Failing
            <3> QED BY <3>1, <3>2
      <2>6. ASSUME NEW i \in DOMAIN contract.rules, contract.rules[i].severity # "warn", i < step'[r],
                   NEW m \in Rows(r), m \in contract.rules[i].bad
            PROVE  Dropped(r, m)'
            <3>1. i < step[r] \/ i = step[r]
                  BY <2>1, <2>6, RulesType
            <3> QED BY <2>1, <2>2, <2>6, <3>1 DEF Gate
      <2>7. pc'[r] \notin NotYet \cup {"ready"} /\ pc'[r] \notin Complete
            BY <2>1 DEF NotYet, Complete
      <2>8. Gate(r)'
            BY <2>1, <2>3, <2>4, <2>5, <2>6, <2>7 DEF Gate
      <2> QED BY <1>3, <1>4, <1>7, <2>8
<1>8. ASSUME NEW r \in Run, Snowflake!Write(r)
      PROVE  Gates'
      <2>1. /\ Gate(r) /\ pc[r] = "gate" /\ pc'[r] = "written" /\ step[r] > Len(contract.rules)
            /\ wrote'[r] = Snowflake!View(r, source) /\ late' = late \cup Snowflake!Arrived(r)
            /\ contract' = contract /\ quarantined' = quarantined /\ low' = low /\ top' = top
            /\ step' = step /\ applied' = applied
            BY <1>8 DEF Gates, Snowflake!Write, Types, Snowflake!TypeOK, Snowflake!Goto, Snowflake!given,
               Snowflake!locals
      <2>2. \A m: Dropped(r, m)' <=> Dropped(r, m)
            BY <2>1 DEF Dropped
      <2>3. Rows(r)' = Rows(r)
            BY <2>1 DEF Rows
      <2>4. \A m \in Snowflake!View(r, source): ~Dropped(r, m) /\ low[r] < m
            <3>1. low[r] \in Nat
                  BY MaxRowAssumption DEF Types, Snowflake!TypeOK
            <3> QED BY <3>1, ViewIs
      <2>5. ASSUME NEW i \in DOMAIN contract.rules, contract.rules[i].severity # "warn",
                   NEW m \in Snowflake!View(r, source), m \in contract.rules[i].bad
            PROVE  m \in Snowflake!Arrived(r)
            <3>1. step[r] \in Nat /\ i < step[r]
                  BY <2>1, RulesType DEF Types, Snowflake!TypeOK
            <3>2. m \notin Rows(r)
                  BY <2>1, <2>4, <2>5, <3>1 DEF Gate
            <3> QED BY <3>2, ViewIs
      <2>6. Rows(r) \subseteq Snowflake!View(r, source) \cup quarantined[r]
            BY <2>1, ViewIs DEF Gate
      <2>7. pc'[r] \notin NotYet \cup {"ready"} /\ pc'[r] \notin Unloaded
            BY <2>1 DEF NotYet, Unloaded
      <2>8. Gate(r)'
            BY <2>1, <2>2, <2>3, <2>4, <2>5, <2>6, <2>7 DEF Gate
      <2> QED BY <1>3, <1>4, <1>8, <2>8
<1>9. ASSUME NEW r \in Run, Snowflake!Measure(r)
      PROVE  Gates'
      <2>1. Gate(r) /\ Same(r)
            BY <1>9 DEF Gates, Snowflake!Measure, Same, Types, Snowflake!TypeOK, Snowflake!Goto,
               Snowflake!data, Snowflake!given,
                        NotYet, Unloaded, Complete
      <2> QED BY <1>3, <1>4, <1>9, <2>1, SameGate
<1> QED BY <1>1, <1>2, <1>5, <1>6, <1>7, <1>8, <1>9 DEF Snowflake!Next, Moves

LEMMA GatesInit == Snowflake!Init => Gates
<1> SUFFICES ASSUME Snowflake!Init, NEW r \in Run
             PROVE  Gate(r)
    BY DEF Gates
<1>1. /\ pc[r] = "idle" /\ applied[r] = {} /\ step[r] = 1 /\ quarantined[r] = {} /\ wrote[r] = {}
      BY DEF Snowflake!Init, Snowflake!Fresh
<1>2. \A i \in DOMAIN contract.rules: ~(i < step[r])
      BY <1>1, TypesInit, RulesType
<1>3. \A m: ~Dropped(r, m)
      BY <1>1 DEF Dropped
<1> QED BY <1>1, <1>2, <1>3 DEF Gate, Complete

-----------------------------------------------------------------------------
(* A Snowflake run: the state table and the run log *)

Reported(r) == \E i \in Snowflake!Successes(Len(stateLog)): stateLog[i].run = r

Recorded == {"stated", "released", "done", "leaked", "crashed"}

\* A success in the state table or in the run log is that of a run whose rows
\* have all gone to the target or into quarantine, and which writes no more.
Success(r) ==
    /\ Reported(r) => pc[r] \in Recorded /\ Rows(r) \subseteq wrote[r] \cup quarantined[r]
    /\ pc[r] \in {"stated", "released"} => Reported(r)
    /\ \A row \in runLog: row.run = r /\ row.status = "SUCCESS" => Reported(r)

Succeeding == \A r \in Run: Success(r)

\* The rows of the log stay, and so does what the log offered before.
LEMMA LogGrows ==
    ASSUME Types, [Snowflake!Next]_(Snowflake!vars)
    PROVE  /\ Len(stateLog) \in Nat /\ Len(stateLog') \in Nat /\ Len(stateLog) <= Len(stateLog')
           /\ \A i \in 1..Len(stateLog): stateLog'[i] = stateLog[i]
           /\ \A n \in 0..Len(stateLog): Snowflake!Successes(n)' = Snowflake!Successes(n)
           /\ \A n \in 0..Len(stateLog): Snowflake!WatermarkAt(n)' = Snowflake!WatermarkAt(n)
<1>1. Len(stateLog) \in Nat
      BY DEF Types, Snowflake!TypeOK
<1>2. CASE UNCHANGED stateLog
      BY <1>1, <1>2 DEF Snowflake!Successes, Snowflake!WatermarkAt
<1>3. ASSUME NEW r \in Run, NEW status \in Snowflake!Status, NEW watermark \in Snowflake!Row \cup {None},
             Snowflake!AppendState(r, status, watermark)
      PROVE  /\ Len(stateLog') \in Nat /\ Len(stateLog) <= Len(stateLog')
             /\ \A i \in 1..Len(stateLog): stateLog'[i] = stateLog[i]
             /\ \A n \in 0..Len(stateLog): Snowflake!Successes(n)' = Snowflake!Successes(n)
      <2>1. /\ Len(stateLog') = Len(stateLog) + 1
            /\ \A i \in 1..Len(stateLog): stateLog'[i] = stateLog[i]
            /\ \A n \in 0..Len(stateLog): Snowflake!Successes(n)' = Snowflake!Successes(n)
            BY <1>3, AppendedState
      <2> QED BY <1>1, <2>1
<1>4. ASSUME \A i \in 1..Len(stateLog): stateLog'[i] = stateLog[i],
             \A n \in 0..Len(stateLog): Snowflake!Successes(n)' = Snowflake!Successes(n),
             NEW n \in 0..Len(stateLog)
      PROVE  Snowflake!WatermarkAt(n)' = Snowflake!WatermarkAt(n)
      <2>1. Snowflake!MaxWatermark(Snowflake!Successes(n)') = Snowflake!MaxWatermark(Snowflake!Successes(n))
            BY <1>4
      <2>2. CASE Snowflake!Successes(n) = {}
            <3>1. Snowflake!MaxWatermark(Snowflake!Successes(n)) = None
                  BY <2>2 DEF Snowflake!MaxWatermark
            <3> QED BY <2>1, <3>1 DEF Snowflake!WatermarkAt
      <2>3. CASE Snowflake!Successes(n) # {}
            <3>1. Snowflake!Successes(n) \subseteq 0..n /\ n \in Nat /\ Snowflake!Successes(n) \subseteq 1..Len(stateLog)
                  BY <1>1 DEF Snowflake!Successes
            <3>2. Snowflake!MaxWatermark(Snowflake!Successes(n)) \in Snowflake!Successes(n)
                  BY <2>3, <3>1, MaxOfRows
            <3> QED BY <1>4, <2>1, <3>1, <3>2 DEF Snowflake!WatermarkAt
      <2> QED BY <2>2, <2>3
<1>5. ASSUME NEW r \in Run, Snowflake!RecordState(r) \/ Snowflake!FailState(r)
      PROVE  \E status \in Snowflake!Status,
              watermark \in Snowflake!Row \cup {None}: Snowflake!AppendState(r, status, watermark)
      BY <1>5 DEF Snowflake!RecordState, Snowflake!FailState, Snowflake!Status, Types, Snowflake!TypeOK
<1>6. UNCHANGED stateLog \/ \E r \in Run: Snowflake!RecordState(r) \/ Snowflake!FailState(r)
      <2>1. CASE Snowflake!Arrive \/ Snowflake!Tick \/ UNCHANGED Snowflake!vars
            BY <2>1 DEF Snowflake!Arrive, Snowflake!Tick, Snowflake!vars, Snowflake!control
      <2>2. ASSUME NEW r \in Run,
                   \/ Snowflake!LookUp(r) \/ Snowflake!LogSkip(r) \/ Snowflake!Unlocked(r) \/ Snowflake!Acquire(r) \/ Snowflake!ReadBack(r)
                   \/ Snowflake!ReadState(r) \/ Snowflake!Count(r) \/ Snowflake!Evaluate(r) \/ Snowflake!Quarantine(r) \/ Snowflake!Write(r)
                   \/ Snowflake!Measure(r) \/ Snowflake!Raise(r) \/ Snowflake!FailRun(r) \/ Snowflake!HandlerRaises(r)
                   \/ Snowflake!Release(r) \/ Snowflake!ReleaseFails(r) \/ Snowflake!LogSuccess(r) \/ Snowflake!LogSuccessFails(r)
                   \/ Snowflake!Crash(r)
            PROVE  UNCHANGED stateLog
            BY <2>2 DEF Snowflake!LookUp, Snowflake!LogSkip, Snowflake!Unlocked, Snowflake!Acquire,
               Snowflake!ReadBack, Snowflake!ReadState, Snowflake!Count, Snowflake!Evaluate,
                        Snowflake!Quarantine, Snowflake!Write, Snowflake!Measure, Snowflake!Raise,
                           Snowflake!FailRun, Snowflake!HandlerRaises, Snowflake!Release,
                        Snowflake!ReleaseFails, Snowflake!LogSuccess, Snowflake!LogSuccessFails,
                           Snowflake!Crash, Snowflake!control
      <2> QED BY <2>1, <2>2 DEF Snowflake!Next
<1> QED BY <1>1, <1>2, <1>3, <1>4, <1>5, <1>6

LEMMA SucceededStays ==
    ASSUME Types, [Snowflake!Next]_(Snowflake!vars), NEW r \in Run, Reported(r)
    PROVE  Reported(r)'
<1>1. PICK i \in Snowflake!Successes(Len(stateLog)): stateLog[i].run = r
      BY DEF Reported
<1>2. i \in 1..Len(stateLog) /\ stateLog[i].status = "SUCCESS"
      BY <1>1 DEF Snowflake!Successes
<1>3. i \in 1..Len(stateLog') /\ stateLog'[i] = stateLog[i]
      BY <1>2, LogGrows
<1> QED BY <1>1, <1>2, <1>3 DEF Reported, Snowflake!Successes

\* A run succeeds in the state table only by its own step.
LEMMA NewSuccess ==
    ASSUME Types, NEW r \in Run, NEW status \in Snowflake!Status, NEW watermark \in Snowflake!Row \cup {None},
           Snowflake!AppendState(r, status, watermark), NEW q \in Run, Reported(q)'
    PROVE  Reported(q) \/ (q = r /\ status = "SUCCESS")
<1>0. /\ Len(stateLog') = Len(stateLog) + 1 /\ Len(stateLog) \in Nat
      /\ stateLog'[Len(stateLog')] = [run |-> r, status |-> status, watermark |-> watermark]
      BY AppendedState
<1>1. PICK i \in Snowflake!Successes(Len(stateLog))': stateLog'[i].run = q
      BY DEF Reported
<1>2. i \in 1..Len(stateLog') /\ stateLog'[i].status = "SUCCESS"
      BY <1>1 DEF Snowflake!Successes
<1>3. CASE i \in 1..Len(stateLog)
      <2>1. stateLog'[i] = stateLog[i]
            BY <1>3, AppendedState
      <2> QED BY <1>1, <1>2, <1>3, <2>1 DEF Reported, Snowflake!Successes
<1>4. CASE i = Len(stateLog')
      BY <1>0, <1>1, <1>2, <1>4
<1>5. i \in 1..Len(stateLog) \/ i = Len(stateLog')
      BY <1>0, <1>2
<1> QED BY <1>3, <1>4, <1>5

LEMMA SuccessInit == Snowflake!Init => Succeeding
<1> SUFFICES ASSUME Snowflake!Init
             PROVE  Succeeding
    OBVIOUS
<1>1. stateLog = <<>> /\ runLog = {} /\ \A r \in Run: pc[r] = "idle"
      BY DEF Snowflake!Init, Snowflake!Fresh
<1>2. Snowflake!Successes(Len(stateLog)) = {}
      BY <1>1 DEF Snowflake!Successes
<1> QED BY <1>1, <1>2 DEF Succeeding, Success, Reported

LEMMA SuccessNext == Types /\ Gates /\ Succeeding /\ [Snowflake!Next]_(Snowflake!vars) => Succeeding'
<1> SUFFICES ASSUME Types, Gates, Succeeding, [Snowflake!Next]_(Snowflake!vars)
             PROVE  Succeeding'
    OBVIOUS
<1>0. pc \in [Run -> Snowflake!Pc] /\ \A q \in Run: Success(q)
      BY DEF Types, Succeeding
<1>1. ASSUME \A q \in Run: Reported(q)' => Reported(q),
             \A row \in runLog': row \in runLog \/ row.status # "SUCCESS",
             UNCHANGED pc \/ \E r \in Run: Moves(r) /\ ~Snowflake!RecordState(r),
             UNCHANGED Snowflake!data, UNCHANGED <<low, top>>
      PROVE  Succeeding'
      <2>1. ASSUME NEW q \in Run
            PROVE  /\ pc[q] \in Recorded => pc'[q] \in Recorded
                   /\ pc'[q] \in {"stated", "released"} => pc[q] \in {"stated", "released"}
            BY <1>0, <1>1
               DEF Moves, Snowflake!LookUp, Snowflake!LogSkip, Snowflake!Unlocked, Snowflake!Acquire,
                  Snowflake!ReadBack, Snowflake!Raise, Snowflake!FailState, Snowflake!FailRun,
                   Snowflake!HandlerRaises, Snowflake!Release, Snowflake!ReleaseFails, Snowflake!LogSuccess,
                      Snowflake!LogSuccessFails, Snowflake!Crash,
                   Snowflake!Goto, Recorded
      <2>2. \A q \in Run: Rows(q)' = Rows(q) /\ wrote'[q] = wrote[q] /\ quarantined'[q] = quarantined[q]
            BY <1>1 DEF Rows, Snowflake!data
      <2>3. \A q \in Run: Reported(q)' <=> Reported(q)
            BY <1>1, SucceededStays
      <2> QED BY <1>0, <1>1, <2>1, <2>2, <2>3 DEF Succeeding, Success
<1>2. CASE Snowflake!Arrive \/ Snowflake!Tick \/ UNCHANGED Snowflake!vars
      <2>1. UNCHANGED <<stateLog, runLog, pc, wrote, quarantined, low, top>>
            BY <1>2 DEF Snowflake!Arrive, Snowflake!Tick, Snowflake!vars, Snowflake!control, Snowflake!locals,
               Snowflake!data
      <2>2. \A q \in Run: Success(q)' <=> Success(q)
            BY <2>1 DEF Success, Reported, Snowflake!Successes, Rows
      <2> QED BY <1>0, <2>2 DEF Succeeding
<1>3. ASSUME NEW r \in Run,
             \/ Snowflake!LookUp(r) \/ Snowflake!LogSkip(r) \/ Snowflake!Unlocked(r) \/ Snowflake!Acquire(r) \/ Snowflake!ReadBack(r) \/ Snowflake!Raise(r)
             \/ Snowflake!FailRun(r) \/ Snowflake!HandlerRaises(r) \/ Snowflake!Release(r) \/ Snowflake!ReleaseFails(r)
             \/ Snowflake!LogSuccessFails(r) \/ Snowflake!Crash(r)
      PROVE  Succeeding'
      <2>1. /\ UNCHANGED <<Snowflake!data, Snowflake!locals, stateLog>> /\ ~Snowflake!RecordState(r)
            /\ \A row \in runLog': row \in runLog \/ row.status # "SUCCESS"
            BY <1>3 DEF Snowflake!LookUp, Snowflake!LogSkip, Snowflake!Unlocked, Snowflake!Acquire,
               Snowflake!ReadBack, Snowflake!Raise, Snowflake!FailRun,
                        Snowflake!HandlerRaises, Snowflake!Release, Snowflake!ReleaseFails,
                           Snowflake!LogSuccessFails, Snowflake!Crash, Snowflake!RecordState,
                        Snowflake!control, Snowflake!LogRun, Snowflake!AppendState
      <2>2. \A q \in Run: Reported(q)' => Reported(q)
            BY <2>1 DEF Reported, Snowflake!Successes
      <2> QED BY <1>1, <1>3, <2>1, <2>2 DEF Moves, Snowflake!locals
<1>4. ASSUME NEW r \in Run, Snowflake!FailState(r)
      PROVE  Succeeding'
      <2>1. ~Snowflake!RecordState(r) /\ UNCHANGED <<Snowflake!data, Snowflake!locals, runLog>>
            BY <1>4 DEF Snowflake!FailState, Snowflake!RecordState
      <2>2. \A q \in Run: Reported(q)' => Reported(q)
            BY <1>4, NewSuccess DEF Snowflake!FailState, Snowflake!Status
      <2> QED BY <1>1, <1>4, <2>1, <2>2 DEF Moves, Snowflake!locals
<1>5. ASSUME NEW r \in Run, Snowflake!LogSuccess(r)
      PROVE  Succeeding'
      <2>1. /\ UNCHANGED <<Snowflake!data, Snowflake!locals, stateLog>> /\ pc[r] = "released"
            /\ pc' = [pc EXCEPT ![r] = IF held[r] THEN "leaked" ELSE "done"]
            /\ runLog' = runLog \cup {[run |-> r, status |-> "SUCCESS", part |-> 0]}
            BY <1>5 DEF Snowflake!LogSuccess, Snowflake!LogRun, Snowflake!Goto
      <2>2. \A q \in Run: /\ Reported(q)' <=> Reported(q)
                          /\ Rows(q)' = Rows(q)
                          /\ wrote'[q] = wrote[q] /\ quarantined'[q] = quarantined[q]
            BY <2>1 DEF Reported, Snowflake!Successes, Rows, Snowflake!data, Snowflake!locals
      <2>3. Reported(r)
            BY <1>0, <2>1 DEF Success
      <2>4. ASSUME NEW q \in Run
            PROVE  /\ pc[q] \in Recorded => pc'[q] \in Recorded
                   /\ pc'[q] \in {"stated", "released"} => pc[q] \in {"stated", "released"}
            BY <1>0, <2>1 DEF Recorded
      <2>5. \A row \in runLog': row \in runLog \/ row.run = r
            BY <2>1
      <2>6. ASSUME NEW q \in Run
            PROVE  Success(q)'
            BY <1>0, <2>2, <2>3, <2>4, <2>5 DEF Success
      <2> QED BY <2>6 DEF Succeeding
<1>6. ASSUME NEW r \in Run, Snowflake!RecordState(r)
      PROVE  Succeeding'
      <2>1. /\ pc[r] = "measured" /\ pc' = [pc EXCEPT ![r] = "stated"]
            /\ UNCHANGED <<Snowflake!data, Snowflake!locals, runLog>>
            /\ Snowflake!AppendState(r, "SUCCESS", cand[r]) /\ cand[r] \in Snowflake!Row \cup {None}
            BY <1>6 DEF Snowflake!RecordState, Snowflake!Goto, Types, Snowflake!TypeOK
      <2>2. \A q \in Run: Reported(q)' => Reported(q) \/ q = r
            BY <2>1, NewSuccess DEF Snowflake!Status
      <2>3. Reported(r)'
            <3>1. /\ stateLog'[Len(stateLog')] = [run |-> r, status |-> "SUCCESS", watermark |-> cand[r]]
                  /\ Len(stateLog') \in 1..Len(stateLog')
                  BY <2>1, AppendedState DEF Snowflake!Status
            <3> QED BY <3>1 DEF Reported, Snowflake!Successes
      <2>4. Rows(r) \subseteq wrote[r] \cup quarantined[r]
            BY <2>1 DEF Gates, Gate, Complete
      <2>5. \A q \in Run: Rows(q)' = Rows(q) /\ wrote'[q] = wrote[q] /\ quarantined'[q] = quarantined[q]
            BY <2>1 DEF Rows, Snowflake!data, Snowflake!locals
      <2>6. \A q \in Run \ {r}: pc'[q] = pc[q]
            BY <1>0, <2>1
      <2>7. pc'[r] = "stated" /\ pc'[r] \in Recorded
            BY <1>0, <2>1 DEF Recorded
      <2>8. ASSUME NEW q \in Run
            PROVE  Reported(q) => Reported(q)'
            BY SucceededStays
      <2> QED BY <1>0, <2>1, <2>2, <2>3, <2>4, <2>5, <2>6, <2>7, <2>8 DEF Succeeding, Success
<1>7. ASSUME NEW r \in Run,
             Snowflake!ReadState(r) \/ Snowflake!Count(r) \/ Snowflake!Evaluate(r) \/ Snowflake!Quarantine(r) \/ Snowflake!Write(r) \/ Snowflake!Measure(r)
      PROVE  Succeeding'
      <2>1. /\ pc[r] \in {"locked", "ready", "gate", "quarantining", "written"}
            /\ pc'[r] \notin {"stated", "released"}
            /\ UNCHANGED <<stateLog, runLog>>
            /\ \A q \in Run \ {r}: /\ pc'[q] = pc[q] /\ wrote'[q] = wrote[q] /\ low'[q] = low[q]
                                   /\ quarantined'[q] = quarantined[q] /\ top'[q] = top[q]
            BY <1>0, <1>7
               DEF Snowflake!ReadState, Snowflake!Count, Snowflake!Evaluate, Snowflake!Quarantine,
                  Snowflake!Write, Snowflake!Measure, Snowflake!Goto, Snowflake!data, Snowflake!given,
                   Snowflake!control, Snowflake!locals, Types, Snowflake!TypeOK
      <2>2. ~Reported(r)
            BY <1>0, <2>1 DEF Success, Recorded
      <2>3. \A q \in Run: Reported(q)' <=> Reported(q)
            BY <2>1 DEF Reported, Snowflake!Successes
      <2>4. Success(r)'
            BY <1>0, <2>1, <2>2, <2>3 DEF Success
      <2>5. ASSUME NEW q \in Run \ {r}
            PROVE  Success(q)'
            <3>1. Rows(q)' = Rows(q)
                  BY <2>1 DEF Rows
            <3> QED BY <1>0, <2>1, <2>3, <3>1 DEF Success
      <2> QED BY <2>4, <2>5 DEF Succeeding
<1> QED BY <1>2, <1>3, <1>4, <1>5, <1>6, <1>7 DEF Snowflake!Next

-----------------------------------------------------------------------------
(* A Snowflake run: the watermark *)

Covers(n) == 1..n \subseteq Snowflake!Accounted \cup late

\* No watermark, recorded, read or about to be recorded, passes over a row that
\* is in no table, unless the row came late.
Covered ==
    /\ \A i \in Snowflake!Successes(Len(stateLog)):
          stateLog[i].watermark # None => Covers(stateLog[i].watermark)
    /\ \A r \in Run: Covers(low[r])
    /\ \A r \in Run: pc[r] = "measured" /\ cand[r] # None => Covers(cand[r])

\* A run's rows lie below the watermark it records, and above the one it read.
ReadFrom(r) == low[r] = IF Snowflake!WatermarkAt(base[r]) = None THEN 0 ELSE Snowflake!WatermarkAt(base[r])
Seen(r) == pc[r] = "written" => wrote[r] \subseteq Snowflake!View(r, source)
Topped(r) == pc[r] = "measured" => \A n \in wrote[r]: cand[r] # None /\ n <= cand[r]
Below(i) ==
    \A n \in wrote[stateLog[i].run]: stateLog[i].watermark # None /\ n <= stateLog[i].watermark

Bounded ==
    /\ \A r \in Run: ReadFrom(r) /\ Seen(r) /\ Topped(r)
    /\ \A i \in Snowflake!Successes(Len(stateLog)): Below(i)

\* The steps that leave the state table and what the runs have read of it alone.
Aside(r) ==
    \/ Snowflake!LookUp(r) \/ Snowflake!LogSkip(r) \/ Snowflake!Unlocked(r) \/ Snowflake!Acquire(r) \/ Snowflake!ReadBack(r)
    \/ Snowflake!Count(r) \/ Snowflake!Evaluate(r) \/ Snowflake!Quarantine(r) \/ Snowflake!Write(r)
    \/ Snowflake!Raise(r) \/ Snowflake!FailRun(r) \/ Snowflake!HandlerRaises(r)
    \/ Snowflake!Release(r) \/ Snowflake!ReleaseFails(r) \/ Snowflake!LogSuccess(r) \/ Snowflake!LogSuccessFails(r) \/ Snowflake!Crash(r)

LEMMA AsideIs ==
    ASSUME Types, Snowflake!Arrive \/ Snowflake!Tick \/ UNCHANGED Snowflake!vars \/ \E r \in Run: Aside(r)
    PROVE  /\ UNCHANGED <<stateLog, low, base, cand>>
           /\ \A q \in Run: pc'[q] = "measured" => pc[q] = "measured"
<1>1. pc \in [Run -> Snowflake!Pc]
      BY DEF Types
<1>2. CASE Snowflake!Arrive \/ Snowflake!Tick \/ UNCHANGED Snowflake!vars
      BY <1>2 DEF Snowflake!Arrive, Snowflake!Tick, Snowflake!vars, Snowflake!control, Snowflake!locals
<1>3. ASSUME NEW r \in Run, Aside(r)
      PROVE  /\ UNCHANGED <<stateLog, low, base, cand>>
             /\ \A q \in Run: pc'[q] = "measured" => pc[q] = "measured"
      BY <1>1, <1>3
         DEF Aside, Snowflake!LookUp, Snowflake!LogSkip, Snowflake!Unlocked, Snowflake!Acquire,
            Snowflake!ReadBack, Snowflake!Count, Snowflake!Evaluate, Snowflake!Quarantine, Snowflake!Write,
             Snowflake!Raise, Snowflake!FailRun, Snowflake!HandlerRaises, Snowflake!Release,
                Snowflake!ReleaseFails, Snowflake!LogSuccess, Snowflake!LogSuccessFails, Snowflake!Crash,
             Snowflake!Goto, Snowflake!control, Snowflake!locals
<1> QED BY <1>2, <1>3

\* What is accounted for, or late, remains so.
LEMMA AccountedStays ==
    ASSUME Types, Gates, [Snowflake!Next]_(Snowflake!vars)
    PROVE  Snowflake!Accounted \cup late \subseteq Snowflake!Accounted' \cup late'
<1>1. \A q \in Run: wrote[q] \subseteq wrote'[q] /\ quarantined[q] \subseteq quarantined'[q]
      <2>1. ASSUME UNCHANGED <<wrote,
              quarantined>> \/ \E r \in Run: Moves(r) \/ Snowflake!ReadState(r) \/ Snowflake!Count(r) \/ Snowflake!Evaluate(r) \/ Snowflake!Measure(r)
            PROVE  UNCHANGED <<wrote, quarantined>>
            BY <2>1 DEF Moves, Snowflake!LookUp, Snowflake!LogSkip, Snowflake!Unlocked, Snowflake!Acquire,
               Snowflake!ReadBack, Snowflake!RecordState, Snowflake!Raise,
                        Snowflake!FailState, Snowflake!FailRun, Snowflake!HandlerRaises, Snowflake!Release,
                           Snowflake!ReleaseFails, Snowflake!LogSuccess,
                        Snowflake!LogSuccessFails, Snowflake!Crash, Snowflake!ReadState, Snowflake!Count,
                           Snowflake!Evaluate, Snowflake!Measure, Snowflake!data
      <2>2. CASE Snowflake!Arrive \/ Snowflake!Tick \/ UNCHANGED Snowflake!vars
            BY <2>2 DEF Snowflake!Arrive, Snowflake!Tick, Snowflake!vars, Snowflake!data
      <2>3. ASSUME NEW r \in Run, Snowflake!Quarantine(r), NEW q \in Run
            PROVE  wrote[q] \subseteq wrote'[q] /\ quarantined[q] \subseteq quarantined'[q]
            BY <2>3 DEF Snowflake!Quarantine, Types, Snowflake!TypeOK
      <2>4. ASSUME NEW r \in Run, Snowflake!Write(r), NEW q \in Run
            PROVE  wrote[q] \subseteq wrote'[q] /\ quarantined[q] \subseteq quarantined'[q]
            <3>1. wrote[r] = {}
                  BY <2>4 DEF Gates, Gate, Snowflake!Write, Unloaded
            <3> QED BY <2>4, <3>1 DEF Snowflake!Write, Types, Snowflake!TypeOK
      <2> QED BY <2>1, <2>2, <2>3, <2>4 DEF Snowflake!Next, Moves
<1>2. late \subseteq late'
      <2>1. CASE Snowflake!Arrive \/ Snowflake!Tick \/ UNCHANGED Snowflake!vars
            BY <2>1 DEF Snowflake!Arrive, Snowflake!Tick, Snowflake!vars
      <2>2. ASSUME NEW r \in Run,
              Moves(r) \/ Snowflake!ReadState(r) \/ Snowflake!Count(r) \/ Snowflake!Evaluate(r) \/ Snowflake!Quarantine(r) \/ Snowflake!Write(r) \/ Snowflake!Measure(r)
            PROVE  late \subseteq late'
            BY <2>2 DEF Moves, Snowflake!LookUp, Snowflake!LogSkip, Snowflake!Unlocked, Snowflake!Acquire,
               Snowflake!ReadBack, Snowflake!RecordState, Snowflake!Raise,
                        Snowflake!FailState, Snowflake!FailRun, Snowflake!HandlerRaises, Snowflake!Release,
                           Snowflake!ReleaseFails, Snowflake!LogSuccess,
                        Snowflake!LogSuccessFails, Snowflake!Crash, Snowflake!ReadState, Snowflake!Count,
                           Snowflake!Evaluate, Snowflake!Quarantine, Snowflake!Write, Snowflake!Measure
      <2> QED BY <2>1, <2>2 DEF Snowflake!Next, Moves
<1>3. Snowflake!Accounted \subseteq Snowflake!Accounted'
      BY <1>1 DEF Snowflake!Accounted
<1> QED BY <1>2, <1>3

LEMMA CoveredInit == Snowflake!Init => Covered /\ Bounded
<1> SUFFICES ASSUME Snowflake!Init
             PROVE  Covered /\ Bounded
    OBVIOUS
<1>1. /\ stateLog = <<>>
      /\ \A r \in Run: /\ pc[r] = "idle" /\ low[r] = 0 /\ base[r] = 0 /\ wrote[r] = {}
      BY DEF Snowflake!Init, Snowflake!Fresh
<1>2. Snowflake!Successes(0) = {} /\ Len(stateLog) = 0
      BY <1>1 DEF Snowflake!Successes
<1>3. Snowflake!WatermarkAt(0) = None
      BY <1>2 DEF Snowflake!WatermarkAt, Snowflake!MaxWatermark
<1>4. Covers(0)
      BY DEF Covers
<1>5. Covered
      BY <1>1, <1>2, <1>4 DEF Covered
<1>6. Bounded
      BY <1>1, <1>2, <1>3 DEF Bounded, ReadFrom, Seen, Topped
<1> QED BY <1>5, <1>6

\* The successes after a step: those before it, and the row it appends.
LEMMA SuccessesAfter ==
    ASSUME Types, NEW r \in Run, Snowflake!RecordState(r) \/ Snowflake!FailState(r),
           NEW i \in Snowflake!Successes(Len(stateLog))'
    PROVE  \/ i \in Snowflake!Successes(Len(stateLog)) /\ stateLog'[i] = stateLog[i]
           \/ Snowflake!RecordState(r) /\ stateLog'[i] = [run |-> r, status |-> "SUCCESS", watermark |-> cand[r]]
<1>1. i \in 1..Len(stateLog') /\ stateLog'[i].status = "SUCCESS"
      BY DEF Snowflake!Successes
<1>2. cand[r] \in Snowflake!Row \cup {None}
      BY DEF Types, Snowflake!TypeOK
<1>3. ASSUME NEW status \in Snowflake!Status, NEW watermark \in Snowflake!Row \cup {None},
             Snowflake!AppendState(r, status, watermark)
      PROVE  \/ i \in Snowflake!Successes(Len(stateLog)) /\ stateLog'[i] = stateLog[i]
             \/ stateLog'[i] = [run |-> r, status |-> status, watermark |-> watermark]
      <2>1. /\ Len(stateLog') = Len(stateLog) + 1 /\ Len(stateLog) \in Nat
            /\ \A j \in 1..Len(stateLog): stateLog'[j] = stateLog[j]
            /\ stateLog'[Len(stateLog')] = [run |-> r, status |-> status, watermark |-> watermark]
            BY <1>3, AppendedState
      <2>2. i \in 1..Len(stateLog) \/ i = Len(stateLog')
            BY <1>1, <2>1
      <2> QED BY <1>1, <2>1, <2>2 DEF Snowflake!Successes
<1>4. CASE Snowflake!RecordState(r)
      BY <1>2, <1>3, <1>4 DEF Snowflake!RecordState, Snowflake!Status
<1>5. CASE Snowflake!FailState(r)
      <2>1. \/ i \in Snowflake!Successes(Len(stateLog)) /\ stateLog'[i] = stateLog[i]
            \/ stateLog'[i] = [run |-> r, status |-> "FAILED", watermark |-> None]
            BY <1>3, <1>5 DEF Snowflake!FailState, Snowflake!Status
      <2> QED BY <1>1, <2>1
<1> QED BY <1>4, <1>5

\* The watermark that a run reads is that of a success, or none.
LEMMA CoveredNext == Types /\ Gates /\ Covered /\ [Snowflake!Next]_(Snowflake!vars) => Covered'
<1> SUFFICES ASSUME Types, Gates, Covered, [Snowflake!Next]_(Snowflake!vars)
             PROVE  Covered'
    OBVIOUS
<1>0. /\ Snowflake!Accounted \cup late \subseteq Snowflake!Accounted' \cup late'
      /\ pc \in [Run -> Snowflake!Pc] /\ cand \in [Run -> Snowflake!Row \cup {None}]
      /\ low \in [Run -> 0..MaxRow]
      BY AccountedStays DEF Types, Snowflake!TypeOK
<1>1. ASSUME Snowflake!Arrive \/ Snowflake!Tick \/ UNCHANGED Snowflake!vars \/ \E r \in Run: Aside(r)
      PROVE  Covered'
      <2>1. /\ UNCHANGED <<stateLog, low, cand>>
            /\ \A q \in Run: pc'[q] = "measured" => pc[q] = "measured"
            BY <1>1, AsideIs
      <2>2. Snowflake!Successes(Len(stateLog))' = Snowflake!Successes(Len(stateLog))
            BY <2>1 DEF Snowflake!Successes
      <2>3. \A r \in Run: Covers(low[r])'
            BY <1>0, <2>1 DEF Covered, Covers
      <2>4. \A r \in Run: pc'[r] = "measured" /\ cand'[r] # None => Covers(cand[r])'
            BY <1>0, <2>1 DEF Covered, Covers
      <2>5. \A i \in Snowflake!Successes(Len(stateLog)): stateLog'[i].watermark # None => Covers(stateLog[i].watermark)'
            BY <1>0, <2>1 DEF Covered, Covers
      <2> QED BY <2>2, <2>3, <2>4, <2>5 DEF Covered, Covers
<1>2. ASSUME NEW r \in Run, Snowflake!RecordState(r) \/ Snowflake!FailState(r)
      PROVE  Covered'
      <2>1. /\ UNCHANGED <<low, cand>>
            /\ \A q \in Run: pc'[q] = "measured" => pc[q] = "measured"
            /\ Snowflake!RecordState(r) => pc[r] = "measured"
            BY <1>0, <1>2 DEF Snowflake!RecordState, Snowflake!FailState, Snowflake!Goto, Snowflake!locals
      <2>2. ASSUME NEW i \in Snowflake!Successes(Len(stateLog))', stateLog'[i].watermark # None
            PROVE  Covers(stateLog[i].watermark)'
            <3>1. CASE i \in Snowflake!Successes(Len(stateLog)) /\ stateLog'[i] = stateLog[i]
                  BY <1>0, <2>2, <3>1 DEF Covered, Covers
            <3>2. CASE Snowflake!RecordState(r) /\ stateLog'[i] = [run |-> r, status |-> "SUCCESS", watermark |-> cand[r]]
                  BY <1>0, <2>1, <2>2, <3>2 DEF Covered, Covers
            <3> QED BY <1>2, <3>1, <3>2, SuccessesAfter
      <2>3. \A q \in Run: Covers(low[q])'
            BY <1>0, <2>1 DEF Covered, Covers
      <2>4. \A q \in Run: pc'[q] = "measured" /\ cand'[q] # None => Covers(cand[q])'
            BY <1>0, <2>1 DEF Covered, Covers
      <2> QED BY <2>2, <2>3, <2>4 DEF Covered, Covers
<1>3. ASSUME NEW r \in Run, Snowflake!ReadState(r)
      PROVE  Covered'
      <2>1. /\ UNCHANGED <<stateLog, cand>>
            /\ \A q \in Run: pc'[q] = "measured" => pc[q] = "measured"
            /\ \A q \in Run \ {r}: low'[q] = low[q]
            /\ low'[r] = IF Snowflake!WatermarkAt(Len(stateLog)) = None THEN 0 ELSE Snowflake!WatermarkAt(Len(stateLog))
            BY <1>0, <1>3 DEF Snowflake!ReadState, Snowflake!Goto, Snowflake!control
      <2>2. Snowflake!Successes(Len(stateLog))' = Snowflake!Successes(Len(stateLog))
            BY <2>1 DEF Snowflake!Successes
      <2>3. Len(stateLog) \in 0..Len(stateLog)
            BY DEF Types, Snowflake!TypeOK
      <2>4. Covers(low'[r])
            <3>1. CASE Snowflake!WatermarkAt(Len(stateLog)) = None
                  BY <2>1, <3>1 DEF Covers
            <3>2. CASE Snowflake!WatermarkAt(Len(stateLog)) # None
                  BY <2>1, <2>3, <3>2, WatermarkIsLogged DEF Covered, Covers
            <3> QED BY <3>1, <3>2
      <2>5. \A q \in Run: Covers(low[q])'
            BY <1>0, <2>1, <2>4 DEF Covered, Covers
      <2>6. \A q \in Run: pc'[q] = "measured" /\ cand'[q] # None => Covers(cand[q])'
            BY <1>0, <2>1 DEF Covered, Covers
      <2>7. \A i \in Snowflake!Successes(Len(stateLog)): stateLog'[i].watermark # None => Covers(stateLog[i].watermark)'
            BY <1>0, <2>1 DEF Covered, Covers
      <2> QED BY <2>2, <2>5, <2>6, <2>7 DEF Covered, Covers
<1>4. ASSUME NEW r \in Run, Snowflake!Measure(r)
      PROVE  Covered'
      <2>1. /\ UNCHANGED <<stateLog, low, wrote, quarantined, source>>
            /\ \A q \in Run \ {r}: pc'[q] = pc[q] /\ cand'[q] = cand[q]
            /\ cand'[r] = Snowflake!MaxWatermark(Snowflake!View(r, source))
            /\ pc[r] = "written" /\ late' = late \cup Snowflake!Arrived(r)
            BY <1>0, <1>4 DEF Snowflake!Measure, Snowflake!Goto, Snowflake!control, Snowflake!data
      <2>2. Snowflake!Successes(Len(stateLog))' = Snowflake!Successes(Len(stateLog))
            BY <2>1 DEF Snowflake!Successes
      <2>3. \A q \in Run: Covers(low[q])'
            BY <1>0, <2>1 DEF Covered, Covers
      <2>4. \A i \in Snowflake!Successes(Len(stateLog)): stateLog'[i].watermark # None => Covers(stateLog[i].watermark)'
            BY <1>0, <2>1 DEF Covered, Covers
      <2>5. ASSUME cand'[r] # None
            PROVE  Covers(cand[r])'
            <3>1. source \in 0..MaxRow /\ MaxRow \in Nat /\ low[r] \in Nat
                  BY <1>0, MaxRowAssumption DEF Types, Snowflake!TypeOK
            <3>2. Snowflake!View(r, source) \subseteq 0..MaxRow
                  BY <3>1, ViewRows
            <3>3. cand'[r] \in Snowflake!View(r, source)
                  BY <2>1, <2>5, <3>1, <3>2, MaxOfRows
            <3>4. cand'[r] \in (low[r] + 1)..source
                  BY <3>3, ViewIs
            <3>5. Rows(r) \subseteq wrote[r] \cup quarantined[r]
                  BY <2>1 DEF Gates, Gate, Complete
            <3>6. wrote[r] \cup quarantined[r] \subseteq Snowflake!Accounted'
                  BY <2>1 DEF Snowflake!Accounted
            <3>7. 1..low[r] \subseteq Snowflake!Accounted' \cup late'
                  BY <2>1, <2>3 DEF Covers
            <3>8. \A m \in (low[r] + 1)..source: m \in Snowflake!Accounted' \cup late'
                  BY <2>1, <3>5, <3>6, ViewIs
            <3>9. \A m \in 1..cand'[r]: m \in 1..low[r] \/ m \in (low[r] + 1)..source
                  BY <3>1, <3>4
            <3>10. 1..cand'[r] \subseteq Snowflake!Accounted' \cup late'
                  BY <3>7, <3>8, <3>9
            <3> QED BY <3>10 DEF Covers
      <2>6. \A q \in Run: pc'[q] = "measured" /\ cand'[q] # None => Covers(cand[q])'
            BY <1>0, <2>1, <2>5 DEF Covered, Covers
      <2> QED BY <2>2, <2>3, <2>4, <2>6 DEF Covered, Covers
<1> QED BY <1>1, <1>2, <1>3, <1>4 DEF Snowflake!Next, Aside

-----------------------------------------------------------------------------
(* A Snowflake run: copies *)

LEMMA ReadFromNext ==
    ASSUME Types, [Snowflake!Next]_(Snowflake!vars), NEW q \in Run, ReadFrom(q)
    PROVE  ReadFrom(q)'
<1>1. Len(stateLog) \in 0..Len(stateLog) /\ base[q] \in 0..Len(stateLog)
      BY DEF Types, Snowflake!TypeOK
<1>2. ASSUME NEW n \in 0..Len(stateLog), base'[q] = n,
             low'[q] = IF Snowflake!WatermarkAt(n) = None THEN 0 ELSE Snowflake!WatermarkAt(n)
      PROVE  ReadFrom(q)'
      <2>1. Snowflake!WatermarkAt(n)' = Snowflake!WatermarkAt(n)
            BY LogGrows
      <2>2. Snowflake!WatermarkAt(base[q])' = Snowflake!WatermarkAt(n)'
            BY <1>2 DEF Snowflake!WatermarkAt, Snowflake!Successes
      <2> QED BY <1>2, <2>1, <2>2 DEF ReadFrom
<1>3. ASSUME UNCHANGED <<low, base>>
      PROVE  ReadFrom(q)'
      BY <1>1, <1>2, <1>3 DEF ReadFrom
<1>4. ASSUME NEW r \in Run, Snowflake!ReadState(r)
      PROVE  ReadFrom(q)'
      <2>1. CASE q = r
            BY <1>1, <1>2, <1>4, <2>1 DEF Snowflake!ReadState, Types, Snowflake!TypeOK
      <2>2. CASE q # r
            <3>1. low'[q] = low[q] /\ base'[q] = base[q]
                  BY <1>4, <2>2 DEF Snowflake!ReadState, Types, Snowflake!TypeOK
            <3> QED BY <1>1, <1>2, <3>1 DEF ReadFrom
      <2> QED BY <2>1, <2>2
<1>5. CASE Snowflake!Arrive \/ Snowflake!Tick \/ UNCHANGED Snowflake!vars \/ \E r \in Run: Aside(r)
      BY <1>3, <1>5, AsideIs
<1>6. ASSUME NEW r \in Run, Snowflake!RecordState(r) \/ Snowflake!FailState(r) \/ Snowflake!Measure(r)
      PROVE  UNCHANGED <<low, base>>
      BY <1>6 DEF Snowflake!RecordState, Snowflake!FailState, Snowflake!Measure, Snowflake!locals
<1> QED BY <1>3, <1>4, <1>5, <1>6 DEF Snowflake!Next, Aside

\* What a step does to the view of a run, to what it wrote and to its candidate.
LEMMA SeenNext ==
    ASSUME Types, [Snowflake!Next]_(Snowflake!vars), NEW q \in Run, Seen(q)
    PROVE  Seen(q)'
<1>0. /\ pc \in [Run -> Snowflake!Pc] /\ low \in [Run -> 0..MaxRow] /\ source \in 0..MaxRow
      /\ wrote \in [Run -> SUBSET Snowflake!Row] /\ applied \in [Run -> SUBSET Nat]
      BY DEF Types, Snowflake!TypeOK
<1>1. ASSUME pc'[q] = "written" => pc[q] = "written" /\ wrote'[q] = wrote[q],
             low'[q] = low[q], pc'[q] = "written" => applied'[q] = applied[q],
             contract' = contract, source' \in {source, source + 1}
      PROVE  Seen(q)'
      <2>1. low[q] \in Nat /\ source \in Nat
            BY <1>0, MaxRowAssumption
      <2>2. ASSUME pc'[q] = "written", NEW m \in wrote[q]
            PROVE  m \in Snowflake!View(q, source)'
            <3>1. m \in Snowflake!View(q, source) /\ applied'[q] = applied[q]
                  BY <1>1, <2>2 DEF Seen
            <3> QED BY <1>1, <2>1, <3>1 DEF Snowflake!View, Snowflake!Filtered
      <2> QED BY <1>1, <2>2 DEF Seen
<1>2. CASE Snowflake!Arrive \/ Snowflake!Tick \/ UNCHANGED Snowflake!vars
      BY <1>1, <1>2 DEF Snowflake!Arrive, Snowflake!Tick, Snowflake!vars, Snowflake!data, Snowflake!given,
         Snowflake!locals, Snowflake!control
<1>3. ASSUME NEW r \in Run, Moves(r)
      PROVE  Seen(q)'
      <2>1. UNCHANGED <<Snowflake!data, Snowflake!locals>>
            BY <1>3 DEF Moves, Snowflake!LookUp, Snowflake!LogSkip, Snowflake!Unlocked, Snowflake!Acquire,
               Snowflake!ReadBack, Snowflake!RecordState, Snowflake!Raise,
                        Snowflake!FailState, Snowflake!FailRun, Snowflake!HandlerRaises, Snowflake!Release,
                           Snowflake!ReleaseFails, Snowflake!LogSuccess,
                        Snowflake!LogSuccessFails, Snowflake!Crash
      <2>2. pc'[q] = "written" => pc[q] = "written"
            BY <1>0, <1>3
               DEF Moves, Snowflake!LookUp, Snowflake!LogSkip, Snowflake!Unlocked, Snowflake!Acquire,
                  Snowflake!ReadBack, Snowflake!RecordState, Snowflake!Raise,
                   Snowflake!FailState, Snowflake!FailRun, Snowflake!HandlerRaises, Snowflake!Release,
                      Snowflake!ReleaseFails, Snowflake!LogSuccess,
                   Snowflake!LogSuccessFails, Snowflake!Crash, Snowflake!Goto
      <2> QED BY <1>1, <2>1, <2>2 DEF Snowflake!data, Snowflake!given, Snowflake!locals
<1>4. ASSUME NEW r \in Run,
        Snowflake!ReadState(r) \/ Snowflake!Count(r) \/ Snowflake!Evaluate(r) \/ Snowflake!Quarantine(r) \/ Snowflake!Measure(r)
      PROVE  Seen(q)'
      <2>1. q = r => pc'[q] # "written"
            BY <1>0, <1>4 DEF Snowflake!ReadState, Snowflake!Count, Snowflake!Evaluate, Snowflake!Quarantine,
               Snowflake!Measure, Snowflake!Goto
      <2>2. /\ q # r => pc'[q] = pc[q] /\ low'[q] = low[q] /\ applied'[q] = applied[q]
            /\ wrote' = wrote /\ contract' = contract /\ source' = source
            BY <1>0, <1>4
               DEF Snowflake!ReadState, Snowflake!Count, Snowflake!Evaluate, Snowflake!Quarantine,
                  Snowflake!Measure, Snowflake!Goto, Snowflake!data, Snowflake!given, Snowflake!locals
      <2>3. CASE q = r
            BY <2>1, <2>3 DEF Seen
      <2>4. CASE q # r
            BY <1>1, <2>2, <2>4
      <2> QED BY <2>3, <2>4
<1>5. ASSUME NEW r \in Run, Snowflake!Write(r)
      PROVE  Seen(q)'
      <2>1. /\ UNCHANGED <<contract, source, low, applied>>
            /\ wrote' = [wrote EXCEPT ![r] = Snowflake!View(r, source)]
            /\ pc' = [pc EXCEPT ![r] = "written"]
            BY <1>5 DEF Snowflake!Write, Snowflake!Goto, Snowflake!given, Snowflake!locals
      <2>2. Snowflake!View(q, source)' = Snowflake!View(q, source)
            BY <2>1 DEF Snowflake!View, Snowflake!Filtered
      <2> QED BY <1>0, <2>1, <2>2 DEF Seen
<1> QED BY <1>2, <1>3, <1>4, <1>5 DEF Snowflake!Next, Moves

LEMMA ToppedNext ==
    ASSUME Types, [Snowflake!Next]_(Snowflake!vars), NEW q \in Run, Seen(q), Topped(q)
    PROVE  Topped(q)'
<1>0. /\ pc \in [Run -> Snowflake!Pc] /\ cand \in [Run -> Snowflake!Row \cup {None}] /\ wrote \in [Run -> SUBSET Snowflake!Row]
      BY DEF Types, Snowflake!TypeOK
<1>1. ASSUME pc'[q] = "measured" => pc[q] = "measured" /\ wrote'[q] = wrote[q] /\ cand'[q] = cand[q]
      PROVE  Topped(q)'
      BY <1>1 DEF Topped
<1>2. ASSUME UNCHANGED cand, \A r \in Run: pc'[r] = "measured" => pc[r] = "measured",
             UNCHANGED wrote \/ \E r \in Run: Snowflake!Write(r)
      PROVE  Topped(q)'
      <2>1. ASSUME NEW r \in Run, Snowflake!Write(r)
            PROVE  q # r => wrote'[q] = wrote[q]
            BY <1>0, <2>1 DEF Snowflake!Write
      <2>2. ASSUME NEW r \in Run, Snowflake!Write(r)
            PROVE  pc'[r] # "measured"
            BY <1>0, <2>2 DEF Snowflake!Write, Snowflake!Goto
      <2> QED BY <1>1, <1>2, <2>1, <2>2
<1>3. CASE Snowflake!Arrive \/ Snowflake!Tick \/ UNCHANGED Snowflake!vars \/ \E r \in Run: Aside(r)
      <2>1. UNCHANGED cand /\ \A r \in Run: pc'[r] = "measured" => pc[r] = "measured"
            BY <1>3, AsideIs
      <2>2. ASSUME NEW r \in Run, Aside(r)
            PROVE  UNCHANGED wrote \/ Snowflake!Write(r)
            BY <2>2 DEF Aside, Snowflake!LookUp, Snowflake!LogSkip, Snowflake!Unlocked, Snowflake!Acquire,
               Snowflake!ReadBack, Snowflake!Count, Snowflake!Evaluate,
                        Snowflake!Quarantine, Snowflake!Raise, Snowflake!FailRun, Snowflake!HandlerRaises,
                           Snowflake!Release, Snowflake!ReleaseFails,
                        Snowflake!LogSuccess, Snowflake!LogSuccessFails, Snowflake!Crash, Snowflake!data
      <2>3. ASSUME Snowflake!Arrive \/ Snowflake!Tick \/ UNCHANGED Snowflake!vars
            PROVE  UNCHANGED wrote
            BY <2>3 DEF Snowflake!Arrive, Snowflake!Tick, Snowflake!vars, Snowflake!data
      <2>4. UNCHANGED wrote \/ \E r \in Run: Snowflake!Write(r)
            BY <1>3, <2>2, <2>3
      <2> QED BY <1>2, <2>1, <2>4
<1>4. ASSUME NEW r \in Run, Snowflake!RecordState(r) \/ Snowflake!FailState(r) \/ Snowflake!ReadState(r)
      PROVE  Topped(q)'
      <2>1. UNCHANGED <<cand, wrote>>
            BY <1>4 DEF Snowflake!RecordState, Snowflake!FailState, Snowflake!ReadState, Snowflake!data,
               Snowflake!locals
      <2>2. \A p \in Run: pc'[p] = "measured" => pc[p] = "measured"
            BY <1>0, <1>4 DEF Snowflake!RecordState, Snowflake!FailState, Snowflake!ReadState, Snowflake!Goto
      <2> QED BY <1>2, <2>1, <2>2
<1>5. ASSUME NEW r \in Run, Snowflake!Measure(r)
      PROVE  Topped(q)'
      <2>1. /\ pc[r] = "written" /\ wrote' = wrote
            /\ cand' = [cand EXCEPT ![r] = Snowflake!MaxWatermark(Snowflake!View(r, source))]
            /\ pc' = [pc EXCEPT ![r] = "measured"]
            BY <1>5 DEF Snowflake!Measure, Snowflake!Goto, Snowflake!data
      <2>2. CASE q # r
            BY <1>0, <1>1, <2>1, <2>2
      <2>3. CASE q = r
            <3>1. wrote[r] \subseteq Snowflake!View(r, source)
                  BY <2>1, <2>3 DEF Seen
            <3>2. Snowflake!View(r, source) \subseteq 0..MaxRow /\ MaxRow \in Nat /\ Snowflake!View(r, source) \subseteq Snowflake!Row
                  BY ViewRows DEF Types, Snowflake!TypeOK
            <3>3. Snowflake!View(r, source) # {} =>
                     /\ Snowflake!MaxWatermark(Snowflake!View(r, source)) \in Snowflake!View(r, source)
                     /\ \A m \in Snowflake!View(r, source): m <= Snowflake!MaxWatermark(Snowflake!View(r, source))
                  BY <3>2, MaxOfRows
            <3>4. None \notin Snowflake!Row
                  BY NoneAssumption DEF Snowflake!Row
            <3>5. cand'[r] = Snowflake!MaxWatermark(Snowflake!View(r, source))
                  BY <1>0, <2>1
            <3> QED BY <2>1, <2>3, <3>1, <3>2, <3>3, <3>4, <3>5 DEF Topped
      <2> QED BY <2>2, <2>3
<1> QED BY <1>3, <1>4, <1>5 DEF Snowflake!Next, Aside

LEMMA BelowNext ==
    ASSUME Types, Succeeding, [Snowflake!Next]_(Snowflake!vars), \A q \in Run: Topped(q),
           \A i \in Snowflake!Successes(Len(stateLog)): Below(i)
    PROVE  \A i \in Snowflake!Successes(Len(stateLog))': Below(i)'
<1>0. /\ pc \in [Run -> Snowflake!Pc] /\ wrote \in [Run -> SUBSET Snowflake!Row]
      /\ stateLog \in Seq(Snowflake!StateRow)
      BY DEF Types, Snowflake!TypeOK
<1>1. CASE UNCHANGED <<stateLog, wrote>>
      BY <1>1 DEF Below, Snowflake!Successes
<1>2. ASSUME NEW r \in Run, Snowflake!Write(r)
      PROVE  \A i \in Snowflake!Successes(Len(stateLog))': Below(i)'
      <2>1. pc[r] = "gate" /\ UNCHANGED stateLog /\ wrote' = [wrote EXCEPT ![r] = Snowflake!View(r, source)]
            BY <1>2 DEF Snowflake!Write
      <2>2. ~Reported(r)
            BY <2>1 DEF Succeeding, Success, Recorded
      <2>3. Snowflake!Successes(Len(stateLog))' = Snowflake!Successes(Len(stateLog))
            BY <2>1 DEF Snowflake!Successes
      <2>4. ASSUME NEW i \in Snowflake!Successes(Len(stateLog))
            PROVE  Below(i)'
            <3>1. stateLog[i].run # r /\ stateLog[i] \in Snowflake!StateRow
                  BY <1>0, <2>2 DEF Reported, Snowflake!Successes
            <3>2. wrote'[stateLog[i].run] = wrote[stateLog[i].run]
                  BY <1>0, <2>1, <3>1 DEF Snowflake!StateRow
            <3> QED BY <2>1, <3>2 DEF Below
      <2> QED BY <2>3, <2>4
<1>3. ASSUME NEW r \in Run, Snowflake!RecordState(r) \/ Snowflake!FailState(r)
      PROVE  \A i \in Snowflake!Successes(Len(stateLog))': Below(i)'
      <2>1. wrote' = wrote /\ (Snowflake!RecordState(r) => pc[r] = "measured")
            BY <1>3 DEF Snowflake!RecordState, Snowflake!FailState, Snowflake!data
      <2>2. ASSUME NEW i \in Snowflake!Successes(Len(stateLog))'
            PROVE  Below(i)'
            <3>1. CASE i \in Snowflake!Successes(Len(stateLog)) /\ stateLog'[i] = stateLog[i]
                  BY <2>1, <3>1 DEF Below
            <3>2. CASE Snowflake!RecordState(r) /\ stateLog'[i] = [run |-> r, status |-> "SUCCESS", watermark |-> cand[r]]
                  <4>1. stateLog'[i].run = r /\ stateLog'[i].watermark = cand[r]
                        BY <3>2
                  <4>2. \A n \in wrote[r]: cand[r] # None /\ n <= cand[r]
                        BY <2>1, <3>2 DEF Topped
                  <4> QED BY <2>1, <4>1, <4>2 DEF Below
            <3> QED BY <1>3, <3>1, <3>2, SuccessesAfter
      <2> QED BY <2>2
<1>4. CASE Snowflake!Arrive \/ Snowflake!Tick \/ UNCHANGED Snowflake!vars
      BY <1>1, <1>4 DEF Snowflake!Arrive, Snowflake!Tick, Snowflake!vars, Snowflake!data, Snowflake!control
<1>5. ASSUME NEW r \in Run,
             \/ Snowflake!LookUp(r) \/ Snowflake!LogSkip(r) \/ Snowflake!Unlocked(r) \/ Snowflake!Acquire(r) \/ Snowflake!ReadBack(r) \/ Snowflake!ReadState(r)
             \/ Snowflake!Count(r) \/ Snowflake!Evaluate(r) \/ Snowflake!Quarantine(r) \/ Snowflake!Measure(r) \/ Snowflake!Raise(r) \/ Snowflake!FailRun(r)
             \/ Snowflake!HandlerRaises(r) \/ Snowflake!Release(r) \/ Snowflake!ReleaseFails(r) \/ Snowflake!LogSuccess(r)
             \/ Snowflake!LogSuccessFails(r) \/ Snowflake!Crash(r)
      PROVE  UNCHANGED <<stateLog, wrote>>
      BY <1>5 DEF Snowflake!LookUp, Snowflake!LogSkip, Snowflake!Unlocked, Snowflake!Acquire,
         Snowflake!ReadBack, Snowflake!ReadState, Snowflake!Count, Snowflake!Evaluate,
                  Snowflake!Quarantine, Snowflake!Measure, Snowflake!Raise, Snowflake!FailRun,
                     Snowflake!HandlerRaises, Snowflake!Release, Snowflake!ReleaseFails,
                  Snowflake!LogSuccess, Snowflake!LogSuccessFails, Snowflake!Crash, Snowflake!data,
                     Snowflake!control
<1> QED BY <1>1, <1>2, <1>3, <1>4, <1>5 DEF Snowflake!Next

LEMMA BoundedNext == Types /\ Succeeding /\ Bounded /\ [Snowflake!Next]_(Snowflake!vars) => Bounded'
BY ReadFromNext, SeenNext, ToppedNext, BelowNext DEF Bounded

\* The run that found the other's success read past its rows, or read a lower
\* watermark than that success had left.
LEMMA FoundOrReset ==
    ASSUME Types, Gates, Bounded, NEW a \in Run, NEW b \in Run,
           NEW n \in wrote[a], n \in wrote[b], Snowflake!Found(a, b)
    PROVE  Snowflake!Reset(base[b])
<1>0. base[b] \in 0..Len(stateLog) /\ Len(stateLog) \in Nat /\ stateLog \in Seq(Snowflake!StateRow)
      BY DEF Types, Snowflake!TypeOK
<1>1. PICK i \in Snowflake!Successes(base[b]): stateLog[i].run = a
      BY DEF Snowflake!Found
<1>2. /\ i \in Snowflake!Successes(Len(stateLog)) /\ i \in 1..Len(stateLog)
      BY <1>0, <1>1 DEF Snowflake!Successes
<1>3. stateLog[i].watermark # None /\ n <= stateLog[i].watermark
      BY <1>1, <1>2 DEF Bounded, Below
<1>4. low[b] < n
      BY DEF Gates, Gate
<1>5. PICK j \in Snowflake!Successes(base[b]): /\ \A k \in Snowflake!Successes(base[b]): k <= j
                                     /\ Snowflake!WatermarkAt(base[b]) = stateLog[j].watermark
      BY <1>0, <1>1, WatermarkIsLogged
<1>6. j \in 1..Len(stateLog) /\ stateLog[j] \in Snowflake!StateRow /\ stateLog[i] \in Snowflake!StateRow /\ i <= j
      BY <1>0, <1>1, <1>2, <1>5 DEF Snowflake!Successes
<1>7. low[b] = IF stateLog[j].watermark = None THEN 0 ELSE stateLog[j].watermark
      BY <1>5 DEF Bounded, ReadFrom
<1>8. n \in Nat /\ low[b] \in Nat
      BY MaxRowAssumption DEF Types, Snowflake!TypeOK, Snowflake!Row
<1>9. stateLog[i].watermark \in Nat
      BY <1>3, <1>6 DEF Snowflake!StateRow, Snowflake!Row
<1>10. stateLog[j].watermark = None \/ stateLog[j].watermark < stateLog[i].watermark
      <2>1. CASE stateLog[j].watermark # None
            BY <1>3, <1>4, <1>7, <1>8, <1>9, <2>1
      <2> QED BY <2>1
<1>11. i # j
      <2> SUFFICES ASSUME i = j
                   PROVE  FALSE
          OBVIOUS
      <2>1. stateLog[j].watermark = stateLog[i].watermark
            OBVIOUS
      <2> QED BY <1>3, <1>9, <1>10, <2>1
<1>12. i < j
      BY <1>0, <1>2, <1>6, <1>11
<1> QED BY <1>3, <1>10, <1>12 DEF Snowflake!Reset

-----------------------------------------------------------------------------
(* A Snowflake run: the lock *)

\* The lease of the run that the row names is the one the row records, a run
\* that has not tried has none, and the read-back finds a row, ACTIVE if it is
\* the run's own: what the read-back takes for its status does not matter.
Locks ==
    /\ lock.status = "ACTIVE" =>
          lock.run \in Run /\ lease[lock.run] = lock.expires /\ lock.expires # 0
    /\ \A r \in Run: pc[r] \in {"idle", "skipping", "checked"} => ~held[r] /\ lease[r] = 0
    /\ \A r \in Run: pc[r] = "merged" =>
          ~held[r] /\ lock.run # None /\ (lock.run = r => lock.status = "ACTIVE")

LEMMA LocksInit == Snowflake!Init => Locks
BY DEF Snowflake!Init, Snowflake!Fresh, Locks, Snowflake!NoLockRow

\* The steps that touch neither the lock nor the clock.
Unlocking(r) ==
    \/ Snowflake!LookUp(r) \/ Snowflake!LogSkip(r) \/ Snowflake!Unlocked(r) \/ Snowflake!ReadState(r) \/ Snowflake!Count(r) \/ Snowflake!Evaluate(r)
    \/ Snowflake!Quarantine(r) \/ Snowflake!Write(r) \/ Snowflake!Measure(r) \/ Snowflake!RecordState(r) \/ Snowflake!Raise(r) \/ Snowflake!FailState(r)
    \/ Snowflake!FailRun(r) \/ Snowflake!HandlerRaises(r) \/ Snowflake!ReleaseFails(r) \/ Snowflake!LogSuccess(r)
    \/ Snowflake!LogSuccessFails(r) \/ Snowflake!Crash(r)

LEMMA UnlockingIs ==
    ASSUME Types, NEW r \in Run, Unlocking(r)
    PROVE  /\ UNCHANGED <<lock, lease, held, now>>
           /\ \A q \in Run \ {r}: pc'[q] = pc[q]
           /\ pc'[r] \in {"idle", "skipping", "checked"} => pc[r] \in {"idle", "skipping", "checked"}
           /\ pc'[r] # "merged"
           /\ pc'[r] \in {"crashed", "leaked", "released"}
              \/ (pc[r] \notin {"crashed", "leaked", "released"})
              \/ ~held[r]
<1>1. pc \in [Run -> Snowflake!Pc]
      BY DEF Types
<1>2. UNCHANGED <<lock, lease, held, now>>
      BY DEF Unlocking, Snowflake!LookUp, Snowflake!LogSkip, Snowflake!Unlocked, Snowflake!ReadState,
         Snowflake!Count, Snowflake!Evaluate, Snowflake!Quarantine, Snowflake!Write,
             Snowflake!Measure, Snowflake!RecordState, Snowflake!Raise, Snowflake!FailState, Snowflake!FailRun,
                Snowflake!HandlerRaises, Snowflake!ReleaseFails, Snowflake!LogSuccess,
             Snowflake!LogSuccessFails, Snowflake!Crash, Snowflake!control, Snowflake!locking
<1> QED BY <1>1, <1>2
        DEF Unlocking, Snowflake!LookUp, Snowflake!LogSkip, Snowflake!Unlocked, Snowflake!ReadState,
           Snowflake!Count, Snowflake!Evaluate, Snowflake!Quarantine, Snowflake!Write,
            Snowflake!Measure, Snowflake!RecordState, Snowflake!Raise, Snowflake!FailState, Snowflake!FailRun,
               Snowflake!HandlerRaises, Snowflake!ReleaseFails, Snowflake!LogSuccess,
            Snowflake!LogSuccessFails, Snowflake!Crash, Snowflake!Goto

LEMMA LocksNext == Types /\ Locks /\ [Snowflake!Next]_(Snowflake!vars) => Locks'
<1> SUFFICES ASSUME Types, Locks, [Snowflake!Next]_(Snowflake!vars)
             PROVE  Locks'
    OBVIOUS
<1>0. /\ pc \in [Run -> Snowflake!Pc] /\ lock \in Snowflake!LockRow /\ lease \in [Run -> Nat] /\ held \in [Run -> BOOLEAN]
      /\ now \in Nat
      BY DEF Types, Snowflake!TypeOK
<1>1. ASSUME Snowflake!Arrive \/ Snowflake!Tick \/ UNCHANGED Snowflake!vars
      PROVE  Locks'
      BY <1>1 DEF Snowflake!Arrive, Snowflake!Tick, Snowflake!vars, Snowflake!control, Snowflake!locking, Locks
<1>2. ASSUME NEW r \in Run, Unlocking(r)
      PROVE  Locks'
      BY <1>2, UnlockingIs DEF Locks
<1>3. ASSUME NEW r \in Run, Snowflake!Acquire(r)
      PROVE  Locks'
      <2>1. /\ pc[r] = "checked" /\ pc' = [pc EXCEPT ![r] = "merged"] /\ held' = held
            /\ lock' = Snowflake!AcquireLock(lock, r, now)
            /\ lease' = [lease EXCEPT ![r] = IF Snowflake!Acquirable(lock, now) THEN now + TTL ELSE 0]
            BY <1>3 DEF Snowflake!Acquire, Snowflake!Goto
      <2>2. ~held[r] /\ lease[r] = 0
            BY <2>1 DEF Locks
      <2>3. CASE Snowflake!Acquirable(lock, now)
            <3>1. lock'.run = r /\ lock'.status = "ACTIVE" /\ lock'.expires = now + TTL
                  BY <2>1, <2>3 DEF Snowflake!AcquireLock
            <3>2. now + TTL # 0
                  BY <1>0, TTLAssumption
            <3>3. lease'[r] = now + TTL
                  BY <1>0, <2>1, <2>3
            <3>4. \A q \in Run \ {r}: lease'[q] = lease[q] /\ pc'[q] = pc[q]
                  BY <1>0, <2>1
            <3>5. pc'[r] = "merged"
                  BY <1>0, <2>1
            <3>6. lock'.run # None /\ \A q \in Run \ {r}: lock'.run # q
                  BY <3>1, NoneAssumption
            <3> QED BY <2>1, <2>2, <3>1, <3>2, <3>3, <3>4, <3>5, <3>6 DEF Locks
      <2>4. CASE ~Snowflake!Acquirable(lock, now)
            <3>1. lock' = lock /\ lock.status = "ACTIVE"
                  BY <2>1, <2>4 DEF Snowflake!AcquireLock, Snowflake!Acquirable
            <3>2. lease' = lease
                  BY <1>0, <2>1, <2>2, <2>4
            <3>3. lock.run # None
                  BY <3>1, NoneAssumption DEF Locks
            <3> QED BY <1>0, <2>1, <2>2, <3>1, <3>2, <3>3 DEF Locks
      <2> QED BY <2>3, <2>4
<1>4. ASSUME NEW r \in Run, Snowflake!ReadBack(r)
      PROVE  Locks'
      <2>0. PICK status \in Snowflake!StatusRead(lock):
                /\ held' = [held EXCEPT ![r] = Snowflake!Confirmed(lock, status, r)]
                /\ pc' = [pc EXCEPT ![r] = IF Snowflake!Confirmed(lock, status, r) THEN "locked" ELSE "failing"]
            BY <1>4 DEF Snowflake!ReadBack, Snowflake!Goto
      <2>1. /\ \A q \in Run \ {r}: held'[q] = held[q] /\ pc'[q] = pc[q]
            /\ lock' = lock /\ lease' = lease
            BY <1>0, <1>4, <2>0 DEF Snowflake!ReadBack
      <2>2. pc'[r] \in {"locked", "failing"}
            BY <1>0, <2>0
      <2>3. lock'.status = "ACTIVE" =>
               lock'.run \in Run /\ lease'[lock'.run] = lock'.expires /\ lock'.expires # 0
            BY <2>1 DEF Locks
      <2>4. \A q \in Run: pc'[q] \in {"idle", "skipping", "checked", "merged"} =>
               q # r /\ pc'[q] = pc[q] /\ held'[q] = held[q]
            BY <2>1, <2>2
      <2>5. \A q \in Run: pc'[q] \in {"idle", "skipping", "checked"} => ~held'[q] /\ lease'[q] = 0
            BY <2>1, <2>4 DEF Locks
      <2>6. \A q \in Run: pc'[q] = "merged" =>
               ~held'[q] /\ lock'.run # None /\ (lock'.run = q => lock'.status = "ACTIVE")
            BY <2>1, <2>4 DEF Locks
      <2> QED BY <2>3, <2>5, <2>6 DEF Locks
<1>5. ASSUME NEW r \in Run, Snowflake!Release(r)
      PROVE  Locks'
      <2>1. /\ pc[r] \in {"stated", "failed"} /\ lease' = lease
            /\ pc'[r] \in {"released", "done"}
            /\ \A q \in Run \ {r}: held'[q] = held[q] /\ pc'[q] = pc[q]
            /\ lock' = lock \/ (lock.run = r /\ lock' = [lock EXCEPT !.status = "RELEASED"])
            BY <1>0, <1>5 DEF Snowflake!Release, Snowflake!ReleaseLock, Snowflake!Goto
      <2>2. \/ lock' = lock
            \/ lock'.status = "RELEASED" /\ lock'.run = r /\ r # None
            BY <1>0, <2>1, NoneAssumption DEF Snowflake!LockRow
      <2> QED BY <2>1, <2>2 DEF Locks
<1> QED BY <1>1, <1>2, <1>3, <1>4, <1>5 DEF Snowflake!Next, Unlocking


\* Each step of a Snowflake run is a step of the lease, or leaves it alone.
LEMMA LeaseNext == Types /\ Locks /\ [Snowflake!Next]_(Snowflake!vars) => [Lease!Next]_<<Holder, Told, Lapsed>>
<1> SUFFICES ASSUME Types, Locks, [Snowflake!Next]_(Snowflake!vars)
             PROVE  [Lease!Next]_<<Holder, Told, Lapsed>>
    OBVIOUS
<1>0. /\ pc \in [Run -> Snowflake!Pc] /\ lock \in Snowflake!LockRow /\ lease \in [Run -> Nat] /\ held \in [Run -> BOOLEAN]
      /\ now \in Nat
      BY DEF Types, Snowflake!TypeOK
<1>a. ASSUME NEW r \in Run, Lease!Grant(r) \/ Lease!Tell(r) \/ Lease!Leave(r)
      PROVE  [Lease!Next]_<<Holder, Told, Lapsed>>
      BY <1>a DEF Lease!Next
<1>b. ASSUME NEW r \in Run, Holder' = Holder, Lapsed' = Lapsed, Told' = Told \ {r} \/ Told' = Told
      PROVE  [Lease!Next]_<<Holder, Told, Lapsed>>
      <2>1. CASE Told' = Told
            BY <1>b, <2>1
      <2>2. CASE Told' = Told \ {r}
            <3>1. Lease!Leave(r)
                  BY <1>b, <2>2 DEF Lease!Leave, Holder, Lapsed
            <3> QED BY <1>a, <3>1
      <2> QED BY <1>b, <2>1, <2>2
<1>1. ASSUME Snowflake!Arrive \/ UNCHANGED Snowflake!vars
      PROVE  [Lease!Next]_<<Holder, Told, Lapsed>>
      <2>1. UNCHANGED <<lock, lease, held, now, pc>>
            BY <1>1 DEF Snowflake!Arrive, Snowflake!vars, Snowflake!control, Snowflake!locking
      <2> QED BY <2>1 DEF Holder, Told, Lapsed
<1>2. ASSUME Snowflake!Tick
      PROVE  [Lease!Next]_<<Holder, Told, Lapsed>>
      <2>1. UNCHANGED <<lock, lease, held, pc>> /\ now' = now + 1
            BY <1>2 DEF Snowflake!Tick, Snowflake!locking
      <2>2. Lapsed \subseteq Lapsed' /\ Lapsed' \subseteq Run
            BY <1>0, <2>1 DEF Lapsed
      <2>3. Holder' = Holder /\ Told' = Told
            BY <2>1 DEF Holder, Told
      <2>4. PICK S \in SUBSET Run: S = Lapsed'
            BY <2>2
      <2>5. Lease!Lapse(S)
            BY <2>2, <2>3, <2>4 DEF Lease!Lapse, Holder, Lapsed
      <2> QED BY <2>5 DEF Lease!Next
<1>3. ASSUME NEW r \in Run, Unlocking(r)
      PROVE  [Lease!Next]_<<Holder, Told, Lapsed>>
      <2>1. Holder' = Holder /\ Lapsed' = Lapsed
            BY <1>3, UnlockingIs DEF Holder, Lapsed
      <2>2. Told' = Told \/ Told' = Told \ {r}
            BY <1>3, UnlockingIs DEF Told
      <2> QED BY <1>b, <2>1, <2>2
<1>4. ASSUME NEW r \in Run, Snowflake!Acquire(r)
      PROVE  [Lease!Next]_<<Holder, Told, Lapsed>>
      <2>1. /\ pc[r] = "checked" /\ pc' = [pc EXCEPT ![r] = "merged"] /\ held' = held /\ now' = now
            /\ lock' = Snowflake!AcquireLock(lock, r, now)
            /\ lease' = [lease EXCEPT ![r] = IF Snowflake!Acquirable(lock, now) THEN now + TTL ELSE 0]
            BY <1>4 DEF Snowflake!Acquire, Snowflake!Goto
      <2>2. ~held[r] /\ lease[r] = 0
            BY <2>1 DEF Locks
      <2>3. r \notin Told /\ Told' = Told
            BY <1>0, <2>1, <2>2 DEF Told
      <2>4. r \notin Lapsed /\ Lapsed' = Lapsed
            <3>1. lease'[r] \in {0, now + TTL} /\ ~(now + TTL < now)
                  BY <1>0, <2>1, TTLAssumption
            <3>2. \A q \in Run \ {r}: lease'[q] = lease[q]
                  BY <1>0, <2>1
            <3> QED BY <1>0, <2>1, <2>2, <3>1, <3>2 DEF Lapsed
      <2>5. CASE Snowflake!Acquirable(lock, now)
            <3>1. Holder' = r
                  BY <2>1, <2>5 DEF Snowflake!AcquireLock, Holder
            <3>2. Holder = None \/ Holder \in Lapsed
                  BY <2>5 DEF Snowflake!Acquirable, Holder, Lapsed, Locks
            <3>3. Lease!Grant(r)
                  BY <2>3, <2>4, <3>1, <3>2 DEF Lease!Grant, Holder, Lapsed
            <3> QED BY <1>a, <3>3
      <2>6. CASE ~Snowflake!Acquirable(lock, now)
            <3>1. Holder' = Holder
                  BY <2>1, <2>6 DEF Snowflake!AcquireLock, Holder
            <3> QED BY <1>b, <2>3, <2>4, <3>1
      <2> QED BY <2>5, <2>6
<1>5. ASSUME NEW r \in Run, Snowflake!ReadBack(r)
      PROVE  [Lease!Next]_<<Holder, Told, Lapsed>>
      <2>1. /\ pc[r] = "merged" /\ UNCHANGED <<lock, lease, now>>
            BY <1>5 DEF Snowflake!ReadBack
      <2>0. PICK status \in Snowflake!StatusRead(lock):
                /\ held' = [held EXCEPT ![r] = Snowflake!Confirmed(lock, status, r)]
                /\ pc' = [pc EXCEPT ![r] = IF Snowflake!Confirmed(lock, status, r) THEN "locked" ELSE "failing"]
            BY <1>5 DEF Snowflake!ReadBack, Snowflake!Goto
      <2>2. ~held[r] /\ lock.run # None /\ (lock.run = r => lock.status = "ACTIVE")
            BY <2>1 DEF Locks
      <2>3. Holder' = Holder /\ Lapsed' = Lapsed
            BY <2>1 DEF Holder, Lapsed
      <2>4. \A q \in Run \ {r}: held'[q] = held[q] /\ pc'[q] = pc[q]
            BY <1>0, <2>0
      <2>5. CASE Snowflake!Confirmed(lock, status, r)
            <3>1. Holder = r
                  BY <2>2, <2>5 DEF Snowflake!Confirmed, Holder
            <3>2. held'[r] /\ pc'[r] = "locked"
                  BY <1>0, <2>0, <2>5
            <3>3. Told' = Told \cup {r}
                  BY <2>4, <3>2 DEF Told
            <3>4. Lease!Tell(r)
                  BY <2>3, <3>1, <3>3 DEF Lease!Tell, Holder, Lapsed
            <3> QED BY <1>a, <3>4
      <2>6. CASE ~Snowflake!Confirmed(lock, status, r)
            <3>1. ~held'[r]
                  BY <1>0, <2>0, <2>6
            <3>2. Told' = Told
                  BY <2>2, <2>4, <3>1 DEF Told
            <3> QED BY <1>b, <2>3, <3>2
      <2> QED BY <2>5, <2>6
<1>6. ASSUME NEW r \in Run, Snowflake!Release(r)
      PROVE  [Lease!Next]_<<Holder, Told, Lapsed>>
      <2>1. /\ pc[r] \in {"stated", "failed"} /\ UNCHANGED <<lease, now>>
            /\ ~held'[r]
            /\ \A q \in Run \ {r}: held'[q] = held[q] /\ pc'[q] = pc[q]
            /\ lock' = lock \/ (lock.run = r /\ lock' = [lock EXCEPT !.status = "RELEASED"])
            BY <1>0, <1>6 DEF Snowflake!Release, Snowflake!ReleaseLock, Snowflake!Goto
      <2>2. Told' = Told \ {r}
            BY <2>1 DEF Told
      <2>3. Lapsed' = Lapsed
            BY <2>1 DEF Lapsed
      <2>4. Holder' = Holder \/ (Holder = r /\ Holder' = None)
            <3>1. CASE lock' = lock
                  BY <3>1 DEF Holder
            <3>2. CASE lock.run = r /\ lock' = [lock EXCEPT !.status = "RELEASED"]
                  <4>1. lock'.status = "RELEASED"
                        BY <1>0, <3>2 DEF Snowflake!LockRow
                  <4> QED BY <3>2, <4>1 DEF Holder
            <3> QED BY <2>1, <3>1, <3>2
      <2>5. Lease!Leave(r)
            BY <2>2, <2>3, <2>4 DEF Lease!Leave, Holder, Lapsed
      <2> QED BY <1>a, <2>5
<1> QED BY <1>1, <1>2, <1>3, <1>4, <1>5, <1>6 DEF Snowflake!Next, Unlocking

-----------------------------------------------------------------------------
(* The bookmark and the checkpoint, whoever runs *)

Inv == Shape /\ Unwritten /\ JobInv /\ StreamInv /\ HoldInv /\ CarryInv

LEMMA FreshIsSound == ASSUME NEW p \in {"snowflake", "fabric", "aws", "databricks"}, NEW S, Fresh(p, S)
                      PROVE  Inv /\ Delivery!Init
<1>1. /\ source = 0 /\ bookmark = 0 /\ planned = 0 /\ now = 0 /\ lock = NoLockRow /\ late = {}
      /\ low = [r \in Run |-> 0] /\ top = [r \in Run |-> 0] /\ lease = [r \in Run |-> 0]
      /\ wrote = [r \in Run |-> {}] /\ quarantined = [r \in Run |-> {}] /\ applied = [r \in Run |-> {}]
      /\ held = [r \in Run |-> FALSE] /\ reads = [r \in Run |-> FALSE] /\ pc = [r \in Run |-> "idle"]
      /\ runLog = {} /\ platform = p
      BY DEF Fresh
<1>2. Shape /\ Unwritten
      BY <1>1 DEF Shape, Unwritten
<1>3. 1..bookmark = {} /\ Accounted = {}
      BY <1>1 DEF Accounted
<1>4. JobInv
      BY <1>1, <1>3 DEF JobInv, OneAtATime, Resting, Job, Files
<1>5. StreamInv
      BY <1>1, <1>3 DEF StreamInv, OneAtATime, Resting, Piece
<1>6. HoldInv
      <2>1. held \in [Run -> BOOLEAN] /\ \A r \in Run: ~held[r]
            BY <1>1, Zenon
      <2> QED BY <1>1, <2>1, NoneAssumption DEF HoldInv, Hold, NoLockRow, LockRow, Inside
<1>7. CarryInv
      <2>1. reads \in [Run -> BOOLEAN]
            BY <1>1, Zenon
      <2> QED BY <1>1, <1>3, <2>1 DEF CarryInv, Carry, Holding, Succeeded
<1>8. Delivery!Init
      BY <1>1, <1>3 DEF Delivery!Init
<1> QED BY <1>2, <1>4, <1>5, <1>6, <1>7, <1>8 DEF Inv

LEMMA InvInit == Init => Inv /\ Delivery!Init
<1>1. Snowflake!Init => Fresh("snowflake", {c \in Contracts: ~c.stream})
      BY DEF Snowflake!Init, Snowflake!Fresh, Fresh, Snowflake!NoLockRow, NoLockRow
<1>2. Fabric!Init => Fresh("fabric", Contracts)
      BY DEF Fabric!Init, Fabric!Fresh, Fresh, Fabric!NoLockRow, NoLockRow
<1>3. Glue!Init => Fresh("aws", {c \in Contracts: ~c.stream})
      BY DEF Glue!Init, Glue!Fresh, Fresh, Glue!NoLockRow, NoLockRow
<1>4. GlueStreaming!Init => Fresh("aws", {c \in Contracts: c.stream})
      BY DEF GlueStreaming!Init, GlueStreaming!Fresh, Fresh, GlueStreaming!NoLockRow, NoLockRow
<1>5. Windowed!Init => Fresh("databricks", WindowPlans)
      BY DEF Windowed!Init, Windowed!Fresh, Fresh, Windowed!NoLockRow, NoLockRow
<1> QED BY <1>1, <1>2, <1>3, <1>4, <1>5, FreshIsSound DEF Init

LEMMA InvNext == Inv /\ [Next]_vars => Inv' /\ Grows /\ platform' = platform /\ (platform = "fabric" \/ Passes)
<1> SUFFICES ASSUME Inv, [Next]_vars
             PROVE  Inv' /\ Grows /\ platform' = platform /\ (platform = "fabric" \/ Passes)
    OBVIOUS
<1> USE DEF Inv
<1>1. CASE UNCHANGED vars
      <2> USE <1>1 DEF vars, data, given, control, locking, progress, locals
      <2>1. Shape' /\ Unwritten' /\ Grows /\ Passes
            BY DEF Shape, Unwritten, Batch, Grows, Passes
      <2>2. JobInv'
            BY DEF JobInv, Batch, OneAtATime, Job, Files, Refused, Accounted
      <2>3. StreamInv'
            BY DEF StreamInv, Micro, OneAtATime, Piece, Planned, Refused, Accounted
      <2>4. HoldInv'
            BY DEF HoldInv, Hold
      <2>5. CarryInv'
            BY DEF CarryInv, Carry, Files, Refused, Succeeded, Accounted, InHand
      <2> QED BY <2>1, <2>2, <2>3, <2>4, <2>5
<1>2. CASE platform = "snowflake" /\ Snowflake!Next
      BY <1>2, SnowflakeStep DEF JobInv, StreamInv, HoldInv, CarryInv, Batch, Micro, Passes, given
<1>3. CASE platform = "databricks" /\ Windowed!Next
      BY <1>3, WindowStep DEF JobInv, StreamInv, HoldInv, CarryInv, Batch, Micro, Passes, given, Unwritten
<1>4. CASE platform = "aws" /\ ~contract.stream /\ Glue!Next
      BY <1>4, JobStep DEF StreamInv, HoldInv, CarryInv, Batch, Micro, given
<1>5. CASE platform = "aws" /\ contract.stream /\ GlueStreaming!Next
      BY <1>5, StreamStep DEF JobInv, HoldInv, CarryInv, Batch, Micro, given, Unwritten
<1>6. CASE platform = "fabric" /\ Fabric!Next
      BY <1>6, NotebookShape, HoldStep, CarryStep DEF JobInv, StreamInv, CarryInv, Batch, Micro, given
<1> QED BY <1>1, <1>2, <1>3, <1>4, <1>5, <1>6 DEF Next

\* A Fabric notebook loses only the rows that runs without a success, or that
\* were overtaken, had taken off their stream; under the lock, an overtaken run
\* has outlived its lease.
THEOREM LostRowsHaveLostRuns == Spec => []CheckpointLosesOnlyLostRuns
<1>1. Inv => CheckpointLosesOnlyLostRuns
      BY DEF Inv, CarryInv, CheckpointLosesOnlyLostRuns, Streaming
<1> QED BY <1>1, InvInit, InvNext, PTL DEF Spec

\* The bookmark of an AWS job and the checkpoint of an AWS stream pass a row only
\* when the row is in the target or in quarantine, whatever fails in between;
\* the runners without a bookmark, and Fabric, take back no row either.
THEOREM BookmarksDeliver == Spec => BookmarkDelivers
<1>1. ASSUME Inv, [Next]_vars
      PROVE  [Delivery!Next]_(Delivery!deliveryVars)
      <2>1. Inv' /\ Grows /\ platform' = platform /\ (platform = "fabric" \/ Passes)
            BY <1>1, InvNext
      <2>2. Accounted \subseteq Accounted'
            BY <1>1, <2>1, AccountedGrows DEF Inv
      <2>3. CASE platform = "fabric" \/ bookmark' = bookmark
            BY <2>1, <2>2, <2>3 DEF Delivery!Next, Delivery!Deliver
      <2>4. CASE platform # "fabric" /\ bookmark' # bookmark
            <3>1. bookmark <= bookmark' /\ 1..bookmark' \subseteq Accounted /\ Accounted' = Accounted
                  BY <2>1, <2>4 DEF Passes, Accounted
            <3> QED BY <2>1, <2>4, <3>1 DEF Delivery!Next, Delivery!Advance
      <2> QED BY <2>3, <2>4
<1> QED BY <1>1, InvInit, InvNext, PTL DEF Spec, BookmarkDelivers, Delivery!Spec

LEMMA HolderIs ==
    ASSUME HoldInv, platform = "fabric", lock.status = "ACTIVE"
    PROVE  lock.run \in Run /\ lease[lock.run] = lock.expires /\ lock.expires # 0
BY DEF HoldInv, Hold

\* A step of a notebook is a step of the lease.
LEMMA NotebookLease ==
    ASSUME Shape, HoldInv, platform = "fabric", Fabric!Next
    PROVE  [Lease!Next]_<<Holder, Told, Lapsed>>
<1> USE DEF Fabric!data, Fabric!given, Fabric!control, Fabric!locking, Fabric!progress, Fabric!locals
<1>0. /\ lock \in LockRow /\ now \in Nat /\ lease \in [Run -> Nat] /\ held \in [Run -> BOOLEAN]
      /\ \A q \in Run: Hold(q)
      /\ pc = [q \in Run |-> pc[q]]
      BY DEF HoldInv, Shape
<1>a. ASSUME NEW r \in Run, Lease!Grant(r) \/ Lease!Tell(r) \/ Lease!Leave(r)
      PROVE  [Lease!Next]_<<Holder, Told, Lapsed>>
      BY <1>a DEF Lease!Next
<1> DEFINE Out == {"crashed", "leaked", "released"}
<1>1. ASSUME Fabric!Arrive \/ Fabric!Tick
      PROVE  [Lease!Next]_<<Holder, Told, Lapsed>>
      <2>1. UNCHANGED <<lock, lease, held, pc>> /\ now' \in Nat /\ now <= now'
            BY <1>0, <1>1 DEF Fabric!Arrive, Fabric!Tick
      <2>2. Holder' = Holder /\ Told' = Told /\ Lapsed' = Lapsed \cup Lapsed' /\ Lapsed' \in SUBSET Run
            BY <1>0, <2>1 DEF Holder, Told, Lapsed
      <2> QED BY <2>2 DEF Lease!Next, Lease!Lapse, Holder, Lapsed
\* A run stays told, or leaves.
<1>2. ASSUME NEW r \in Run,
             \/ Fabric!Unlocked(r) \/ Fabric!Clear(r) \/ Fabric!Stream(r) \/ Fabric!StreamFails(r)
             \/ Fabric!Load(r) \/ Fabric!Count(r) \/ Fabric!Evaluate(r) \/ Fabric!Quarantine(r)
             \/ Fabric!QuarantineFails(r) \/ Fabric!Write(r) \/ Fabric!Measure(r)
             \/ Fabric!RecordState(r) \/ Fabric!LogSuccess(r) \/ Fabric!Raise(r)
             \/ Fabric!LogFailure(r) \/ Fabric!HandlerRaises(r) \/ Fabric!Crash(r)
      PROVE  [Lease!Next]_<<Holder, Told, Lapsed>>
      <2>1. UNCHANGED <<lock, now, lease, held>>
            BY <1>2 DEF Fabric!Unlocked, Fabric!Clear, Fabric!Stream, Fabric!StreamFails, Fabric!Take,
               Fabric!Load, Fabric!Count, Fabric!Evaluate, Fabric!Quarantine, Fabric!QuarantineFails,
               Fabric!Write, Fabric!Measure, Fabric!RecordState, Fabric!LogSuccess, Fabric!Raise,
               Fabric!LogFailure, Fabric!HandlerRaises, Fabric!Crash
      <2>2. /\ \A q \in Run \ {r}: pc'[q] = pc[q]
            /\ pc[r] \in Out => pc'[r] \in Out
            BY <1>0, <1>2 DEF Fabric!Unlocked, Fabric!Clear, Fabric!Stream, Fabric!StreamFails,
               Fabric!Load, Fabric!Count, Fabric!Evaluate, Fabric!Quarantine, Fabric!QuarantineFails,
               Fabric!Write, Fabric!Measure, Fabric!RecordState, Fabric!LogSuccess, Fabric!Raise,
               Fabric!LogFailure, Fabric!HandlerRaises, Fabric!Crash, Fabric!Goto
      <2>3. Holder' = Holder /\ Lapsed' = Lapsed
            BY <2>1 DEF Holder, Lapsed
      <2>4. Told' = Told \/ Told' = Told \ {r}
            BY <2>1, <2>2 DEF Told
      <2>5. Told' = Told \ {r} => Lease!Leave(r)
            BY <2>3 DEF Lease!Leave, Holder, Lapsed
      <2> QED BY <1>a, <2>3, <2>4, <2>5
<1>3. ASSUME NEW r \in Run, Fabric!Acquire(r)
      PROVE  [Lease!Next]_<<Holder, Told, Lapsed>>
      <2>1. /\ pc[r] = "idle" /\ pc' = [pc EXCEPT ![r] = "merged"]
            /\ lock' = Fabric!AcquireLock(lock, r, now)
            /\ lease' = [lease EXCEPT ![r] = IF Fabric!Acquirable(lock, now) THEN now + TTL ELSE 0]
            /\ UNCHANGED <<held, now>>
            BY <1>3 DEF Fabric!Acquire, Fabric!Goto
      <2>2. ~held[r] /\ lease[r] = 0 /\ r \notin Told \cup Lapsed
            BY <1>0, <2>1 DEF Hold, Told, Lapsed
      <2>3. Told' = Told
            BY <1>0, <2>1, <2>2 DEF Told
      <2>4. CASE Fabric!Acquirable(lock, now)
            <3>1. Holder' = r
                  BY <2>1, <2>4 DEF Fabric!AcquireLock, Holder
            <3>2. lease'[r] = now + TTL /\ ~(now + TTL < now)
                  BY <1>0, <2>1, <2>4, TTLAssumption
            <3>3. \A q \in Run \ {r}: lease'[q] = lease[q]
                  BY <1>0, <2>1
            <3>4. Lapsed' = Lapsed
                  BY <2>1, <2>2, <3>2, <3>3 DEF Lapsed
            <3>5. Holder = None \/ Holder \in Lapsed
                  BY <2>4, HolderIs DEF Fabric!Acquirable, Holder, Lapsed
            <3>6. Lease!Grant(r)
                  BY <2>2, <2>3, <3>1, <3>4, <3>5 DEF Lease!Grant, Holder, Lapsed
            <3> QED BY <1>a, <3>6
      <2>5. CASE ~Fabric!Acquirable(lock, now)
            <3>1. lock' = lock /\ lease' = lease
                  BY <1>0, <2>1, <2>2, <2>5 DEF Fabric!AcquireLock
            <3> QED BY <2>1, <2>3, <3>1 DEF Holder, Lapsed
      <2> QED BY <2>4, <2>5
<1>4. ASSUME NEW r \in Run, Fabric!ReadBack(r)
      PROVE  [Lease!Next]_<<Holder, Told, Lapsed>>
      <2> DEFINE C == Fabric!LockConfirmed(lock, r)
      <2>1. /\ pc[r] = "merged" /\ pc' = [pc EXCEPT ![r] = IF C THEN "locked" ELSE "failing"]
            /\ held' = [held EXCEPT ![r] = C]
            /\ UNCHANGED <<lock, now, lease>>
            BY <1>4 DEF Fabric!ReadBack, Fabric!Goto
      <2>2. Holder' = Holder /\ Lapsed' = Lapsed
            BY <2>1 DEF Holder, Lapsed
      <2>3. /\ pc'[r] \notin Out
            /\ \A q \in Run \ {r}: held'[q] = held[q] /\ pc'[q] = pc[q]
            BY <1>0, <2>1
      <2>4. (held'[r] <=> C) /\ r \notin Told
            <3>1. held'[r] <=> C
                  BY <1>0, <2>1, Zenon
            <3> QED BY <1>0, <2>1, <3>1 DEF Told, Hold
      <2>5. CASE C
            <3>1. Told' = Told \cup {r}
                  BY <2>3, <2>4, <2>5 DEF Told
            <3>2. Holder = r
                  BY <2>5 DEF Fabric!LockConfirmed, Holder
            <3>3. Lease!Tell(r)
                  BY <2>2, <3>1, <3>2 DEF Lease!Tell, Holder, Lapsed
            <3> QED BY <1>a, <3>3
      <2>6. CASE ~C
            <3>1. Told' = Told
                  BY <2>3, <2>4, <2>6 DEF Told
            <3> QED BY <2>2, <3>1
      <2> QED BY <2>5, <2>6
<1>5. ASSUME NEW r \in Run, Fabric!Release(r) \/ Fabric!ReleaseFails(r)
      PROVE  [Lease!Next]_<<Holder, Told, Lapsed>>
      <2>1. /\ pc' = [pc EXCEPT ![r] = pc'[r]]
            /\ held' = [held EXCEPT ![r] = FALSE]
            /\ lock' = lock \/ lock' = Fabric!ReleaseLock(lock, r)
            /\ UNCHANGED <<now, lease>>
            BY <1>0, <1>5 DEF Fabric!Release, Fabric!ReleaseFails, Fabric!Goto
      <2>2. /\ ~held'[r] /\ Lapsed' = Lapsed
            /\ \A q \in Run \ {r}: pc'[q] = pc[q] /\ held'[q] = held[q]
            BY <1>0, <2>1 DEF Lapsed
      <2>3. Told' = Told \ {r}
            BY <2>2 DEF Told
      <2>4. Holder' = Holder \/ (Holder = r /\ Holder' = None)
            BY <1>0, <2>1 DEF Fabric!ReleaseLock, Holder, LockRow
      <2>5. Lease!Leave(r)
            BY <2>2, <2>3, <2>4 DEF Lease!Leave, Holder, Lapsed
      <2> QED BY <1>a, <2>5
<1> QED BY <1>1, <1>2, <1>3, <1>4, <1>5 DEF Fabric!Next

-----------------------------------------------------------------------------
(* The window loop of Databricks *)

\* A row that is in the target, or that the watermark may openly pass over.
Excused(n) ==
    \/ \E r \in Run: n \in wrote[r]
    \/ Windowed!WindowOf(n) = {}
    \/ \E row \in runLog:
          row.status = "FAILED" /\ row.part \in Windowed!WindowOf(n) /\ ~contract.stop
    \/ Windowed!DoneBefore(n)
    \/ n \in late
    \/ Windowed!Disordered(n)

Child == {"prepared", "ready", "written", "measured", "logged", "skipping", "skipLogged", "failing",
          "failLogged"}
Busy == {"ready", "written", "measured", "logged"}

\* Where each window that the loop is past has been dealt with, or was left out
\* since there was a success under the one key of all windows: then no child
\* reaches its write any more.
BehindTheLoop(r) ==
    pc[r] # "done" =>
        \A w \in 1..(step[r] - 1): \A n \in contract.windows[w]:
            \/ Excused(n)
            \/ /\ contract.key = "options" /\ pc[r] \notin Busy
               /\ \E row \in runLog: row.status = "SUCCESS"

\* What the rows of the child say, and its candidate.
ChildTells(r) ==
    /\ pc[r] = "idle" => \A row \in runLog: row.run # r
    /\ pc[r] \in {"skipping", "skipLogged"} =>
          \E row \in runLog: row.status = "SUCCESS" /\ Windowed!SameKey(r, row)
    /\ pc[r] = "failLogged" => \E row \in runLog: row.status = "FAILED" /\ row.part = step[r]
    /\ pc[r] = "logged" => \E row \in runLog: row.status = "SUCCESS" /\ row.part = step[r] /\ row.run = r

Measured(r) ==
    pc[r] \in {"measured", "logged"} =>
        /\ \A n \in contract.windows[step[r]]: n <= top[r] => Excused(n)
        /\ cand[r] # None =>
              /\ cand[r] \in contract.windows[step[r]]
              /\ \A n \in contract.windows[step[r]]: n <= cand[r] => Excused(n)

Loop(r) ==
    /\ top[r] <= source
    /\ \A n \in 1..low[r]: Excused(n)
    /\ pc[r] \in Child => step[r] \in DOMAIN contract.windows
    /\ BehindTheLoop(r) /\ ChildTells(r) /\ Measured(r)

\* The windows that the run log reports as done, and the watermark that the next
\* child reads.
LogIsTrue ==
    \A row \in runLog:
        /\ row.run \in Run
        /\ row.status = "SUCCESS" =>
              /\ row.part \in DOMAIN contract.windows
              /\ \A n \in contract.windows[row.part]: n <= top[row.run] => Excused(n)
StateIsTrue ==
    stateLog # <<>> /\ stateLog[Len(stateLog)].watermark # None =>
        \A n \in 1..stateLog[Len(stateLog)].watermark: Excused(n)

LoopInv ==
    platform = "databricks" =>
        /\ contract \in Windowed!WindowPlan
        /\ stateLog \in Seq([run: Run, status: {"SUCCESS", "SKIPPED", "FAILED"}, watermark: Nat \cup {None}])
        /\ low \in [Run -> Nat] /\ step \in [Run -> Nat \ {0}] /\ cand \in [Run -> Nat \cup {None}]
        /\ \A r \in Run: Loop(r)
        /\ LogIsTrue /\ StateIsTrue

LEMMA WindowRows ==
    ASSUME contract \in Windowed!WindowPlan
    PROVE  /\ \A w \in DOMAIN contract.windows: contract.windows[w] \subseteq Row
           /\ Row \subseteq Nat /\ Windowed!Row = Row
<1>1. contract.windows \in Seq(SUBSET Windowed!Row)
      BY DEF Windowed!WindowPlan
<1> QED BY <1>1, MaxRowAssumption DEF Windowed!Row, Row

LEMMA MoreExcused ==
    ASSUME contract' = contract, \A r \in Run: wrote[r] \subseteq wrote'[r], runLog \subseteq runLog',
           late \subseteq late', \A row \in runLog: top'[row.run] = top[row.run],
           NEW n, Excused(n)
    PROVE  Excused(n)'
<1>1. Windowed!WindowOf(n)' = Windowed!WindowOf(n) /\ (Windowed!Disordered(n) => Windowed!Disordered(n)')
      BY DEF Windowed!WindowOf, Windowed!Windows, Windowed!Disordered
<1>2. Windowed!DoneBefore(n) => Windowed!DoneBefore(n)'
      BY <1>1 DEF Windowed!DoneBefore
<1> QED BY <1>1, <1>2 DEF Excused

\* What is the case of a run stays the case while another one moves.
LEMMA LoopRests ==
    ASSUME NEW q \in Run, Loop(q), source \in Nat, source' \in Nat, source <= source',
           top \in [Run -> Nat], contract' = contract,
           UNCHANGED <<low[q], top[q], step[q], cand[q], pc[q]>>,
           \A n: Excused(n) => Excused(n)',
           runLog \subseteq runLog', \A row \in runLog' \ runLog: row.run # q
    PROVE  Loop(q)'
<1>1. BehindTheLoop(q)'
      BY DEF Loop, BehindTheLoop
<1>2. ChildTells(q)'
      BY DEF Loop, ChildTells, Windowed!SameKey
<1>3. Measured(q)'
      BY DEF Loop, Measured
<1> QED BY <1>1, <1>2, <1>3 DEF Loop

LEMMA LoopStep ==
    ASSUME Shape, platform = "databricks", LoopInv, Windowed!Next
    PROVE  LoopInv'
<1> USE DEF Windowed!data, Windowed!given, Windowed!control, Windowed!locking, Windowed!progress,
            Windowed!locals, given
<1>0. /\ contract \in Windowed!WindowPlan
      /\ stateLog \in Seq([run: Run, status: {"SUCCESS", "SKIPPED", "FAILED"}, watermark: Nat \cup {None}])
      /\ low \in [Run -> Nat] /\ step \in [Run -> Nat \ {0}] /\ cand \in [Run -> Nat \cup {None}]
      /\ LogIsTrue /\ StateIsTrue /\ \A r \in Run: Loop(r)
      /\ top \in [Run -> Nat] /\ source \in Nat /\ pc = [r \in Run |-> pc[r]]
      BY DEF LoopInv, Shape
<1>1. Shape' /\ Grows /\ platform' = "databricks" /\ contract' = contract
      BY WindowStep
<1>w. \A w \in DOMAIN contract.windows: contract.windows[w] \subseteq Row /\ contract.windows[w] \subseteq Nat
      BY <1>0, WindowRows
\* What any step of a run leaves to show.
<1>2. ASSUME NEW r \in Run, source' = source, UNCHANGED late \/ late \subseteq late',
             \A q \in Run \ {r}: UNCHANGED <<low[q], top[q], step[q], cand[q], pc[q]>>,
             runLog \subseteq runLog', \A row \in runLog' \ runLog: row.run = r,
             \A row \in runLog: top'[row.run] = top[row.run]
      PROVE  /\ \A n: Excused(n) => Excused(n)'
             /\ \A q \in Run \ {r}: Loop(q)'
      <2>1. ASSUME NEW n, Excused(n)
            PROVE  Excused(n)'
            BY <1>1, <1>2, <2>1, MoreExcused DEF Grows
      <2>2. ASSUME NEW q \in Run \ {r}
            PROVE  Loop(q)'
            <3>1. Loop(q) /\ \A row \in runLog' \ runLog: row.run # q
                  BY <1>0, <1>2
            <3>2. UNCHANGED <<low[q], top[q], step[q], cand[q], pc[q]>>
                  BY <1>2
            <3>3. /\ source' \in Nat /\ source <= source' /\ contract' = contract
                  /\ \A n: Excused(n) => Excused(n)'
                  BY <1>0, <1>1, <1>2, <2>1
            <3> QED BY <1>0, <1>2, <3>1, <3>2, <3>3, LoopRests
      <2> QED BY <2>1, <2>2
\* Steps that write neither log.
<1>3. ASSUME NEW r \in Run, source' = source, late \subseteq late',
             UNCHANGED <<stateLog, runLog, step>>,
             low' \in [Run -> Nat], cand' \in [Run -> Nat \cup {None}],
             \A q \in Run \ {r}: UNCHANGED <<low[q], top[q], step[q], cand[q], pc[q]>>,
             \A row \in runLog: top'[row.run] = top[row.run],
             (\A n: Excused(n) => Excused(n)') => Loop(r)'
      PROVE  LoopInv'
      <2>1. /\ \A n: Excused(n) => Excused(n)'
            /\ \A q \in Run \ {r}: Loop(q)'
            BY <1>2, <1>3
      <2>2. \A q \in Run: Loop(q)'
            BY <1>3, <2>1
      <2>3. LogIsTrue' /\ StateIsTrue'
            BY <1>0, <1>1, <1>3, <2>1 DEF LogIsTrue, StateIsTrue
      <2> QED BY <1>0, <1>1, <1>3, <2>2, <2>3 DEF LoopInv
<1>4. ASSUME Windowed!Arrive
      PROVE  LoopInv'
      <2>1. source' = source + 1 /\ UNCHANGED <<contract, wrote, runLog, late, top, low, step, cand, pc, stateLog>>
            BY <1>4 DEF Windowed!Arrive
      <2>2. ASSUME NEW n, Excused(n)
            PROVE  Excused(n)'
            BY <2>1, <2>2, MoreExcused
      <2>3. \A q \in Run: Loop(q)'
            BY <1>0, <2>1, <2>2, LoopRests
      <2> QED BY <1>0, <1>1, <2>1, <2>2, <2>3 DEF LoopInv, LogIsTrue, StateIsTrue
<1>5. ASSUME NEW r \in Run, Windowed!Plan(r)
      PROVE  LoopInv'
      <2>1. /\ pc[r] = "idle" /\ pc' = [pc EXCEPT ![r] = "next"] /\ top' = [top EXCEPT ![r] = source]
            /\ UNCHANGED <<source, late, stateLog, runLog, step, low, cand>>
            BY <1>5 DEF Windowed!Plan, Windowed!Goto
      <2>2. /\ pc'[r] = "next" /\ top'[r] = source
            /\ \A q \in Run \ {r}: UNCHANGED <<low[q], top[q], step[q], cand[q], pc[q]>>
            BY <1>0, <2>1
      <2>3. \A row \in runLog: row.run # r /\ row.run \in Run
            BY <1>0, <2>1 DEF Loop, ChildTells, LogIsTrue
      <2>4. \A row \in runLog: top'[row.run] = top[row.run]
            BY <2>2, <2>3
      <2>5. ASSUME \A n: Excused(n) => Excused(n)'
            PROVE  Loop(r)'
            <3>1. Loop(r) /\ contract' = contract
                  BY <1>0, <1>1
            <3>2. BehindTheLoop(r)'
                  BY <2>1, <2>2, <2>5, <3>1 DEF Loop, BehindTheLoop, Busy
            <3>3. ChildTells(r)' /\ Measured(r)'
                  BY <2>2 DEF ChildTells, Measured
            <3> QED BY <1>0, <2>1, <2>2, <2>5, <3>1, <3>2, <3>3 DEF Loop, Child
      <2> QED BY <1>0, <1>3, <2>1, <2>2, <2>4, <2>5
<1>6. ASSUME NEW r \in Run, Windowed!Prepare(r)
      PROVE  LoopInv'
      <2> DEFINE previous == IF stateLog = <<>> THEN None ELSE stateLog[Len(stateLog)].watermark
                 read == IF previous = None THEN 0 ELSE previous
      <2>1. /\ pc[r] = "next" /\ step[r] <= Len(contract.windows) /\ pc' = [pc EXCEPT ![r] = "prepared"]
            /\ low' = [low EXCEPT ![r] = read]
            /\ UNCHANGED <<source, late, stateLog, runLog, step, top, cand>>
            BY <1>6 DEF Windowed!Prepare, Windowed!Goto, Windowed!Windows
      <2>2. read \in Nat
            <3>1. CASE stateLog = <<>>
                  BY <3>1
            <3>2. CASE stateLog # <<>>
                  <4> DEFINE S == [run: Run, status: {"SUCCESS", "SKIPPED", "FAILED"}, watermark: Nat \cup {None}]
                  <4>1. stateLog[Len(stateLog)] \in S
                        <5>1. stateLog \in Seq(S)
                              BY <1>0
                        <5> HIDE DEF S
                        <5> QED BY <3>2, <5>1
                  <4>2. stateLog[Len(stateLog)].watermark \in Nat \cup {None}
                        BY <4>1
                  <4> QED BY <3>2, <4>2
            <3> QED BY <3>1, <3>2
      <2>3. \A n \in 1..read: Excused(n)
            BY <1>0 DEF StateIsTrue
      <2> HIDE DEF read
      <2>4. /\ pc'[r] = "prepared" /\ low'[r] = read /\ low' \in [Run -> Nat]
            /\ \A q \in Run \ {r}: UNCHANGED <<low[q], top[q], step[q], cand[q], pc[q]>>
            BY <1>0, <2>1, <2>2
      <2>5. step[r] \in DOMAIN contract.windows
            BY <1>0, <2>1 DEF Windowed!WindowPlan
      <2>6. ASSUME \A n: Excused(n) => Excused(n)'
            PROVE  Loop(r)'
            BY <1>0, <1>1, <2>1, <2>3, <2>4, <2>5, <2>6
               DEF Loop, BehindTheLoop, ChildTells, Measured, Child, Busy
      <2> QED BY <1>0, <1>3, <2>1, <2>4, <2>6
\* Steps that only take the run to another position.
<1>7. ASSUME NEW r \in Run, Windowed!PrepareFails(r) \/ Windowed!Raise(r) \/ Windowed!Finish(r)
                            \/ Windowed!Crash(r) \/ Windowed!Write(r) \/ Windowed!CheckKey(r)
      PROVE  LoopInv'
      <2>1. /\ UNCHANGED <<source, late, stateLog, runLog, step, low, top, cand>>
            /\ pc' = [pc EXCEPT ![r] = pc'[r]] /\ pc[r] \notin {"idle", "done"}
            /\ \/ pc'[r] \in {"done", "crashed"}
               \/ pc[r] \in Child /\ pc'[r] = "failing"
               \/ pc[r] = "ready" /\ pc'[r] = "written"
               \/ /\ pc[r] = "prepared" /\ pc'[r] = "skipping"
                  /\ \E row \in runLog: row.status = "SUCCESS" /\ Windowed!SameKey(r, row)
               \/ /\ pc[r] = "prepared" /\ pc'[r] = "ready"
                  /\ ~ \E row \in runLog: row.status = "SUCCESS" /\ Windowed!SameKey(r, row)
            BY <1>0, <1>7 DEF Windowed!PrepareFails, Windowed!Raise, Windowed!Finish, Windowed!Crash,
               Windowed!Write, Windowed!CheckKey, Windowed!Goto, Child
      <2>2. \A q \in Run \ {r}: UNCHANGED <<low[q], top[q], step[q], cand[q], pc[q]>>
            BY <1>0, <2>1
      <2>3. ASSUME \A n: Excused(n) => Excused(n)'
            PROVE  Loop(r)'
            <3>1. Loop(r) /\ contract' = contract
                  BY <1>0, <1>1
            <3>2. BehindTheLoop(r)'
                  <4>1. BehindTheLoop(r)
                        BY <3>1 DEF Loop
                  <4>2. CASE pc'[r] = "ready"
                        BY <2>1, <2>3, <3>1, <4>1, <4>2 DEF BehindTheLoop, Windowed!SameKey, Child
                  <4>3. CASE pc'[r] # "ready"
                        <5>1. /\ pc'[r] # "done" => pc[r] # "done"
                              /\ pc'[r] \in Busy => pc[r] \in Busy
                              /\ step'[r] = step[r] /\ runLog' = runLog
                              BY <2>1, <4>3 DEF Busy, Child
                        <5> QED BY <2>3, <3>1, <4>1, <5>1 DEF BehindTheLoop
                  <4> QED BY <4>2, <4>3
            <3>3. ChildTells(r)'
                  BY <2>1, <3>1 DEF Loop, ChildTells, Windowed!SameKey
            <3>4. Measured(r)' /\ (pc'[r] \in Child => step'[r] \in DOMAIN contract'.windows)
                  BY <2>1, <3>1 DEF Loop, Measured, Child
            <3> QED BY <2>1, <2>3, <3>1, <3>2, <3>3, <3>4 DEF Loop
      <2> QED BY <1>0, <1>3, <2>1, <2>2, <2>3
\* The candidate: what the child sees now is in the target, or late.
<1>8. ASSUME NEW r \in Run, Windowed!Measure(r)
      PROVE  LoopInv'
      <2> DEFINE view == Windowed!ChildView(r)
      <2>1. /\ pc[r] = "written" /\ pc' = [pc EXCEPT ![r] = "measured"]
            /\ cand' = [cand EXCEPT ![r] = Windowed!MaxWatermark(view)]
            /\ late' = late \cup (view \ wrote[r])
            /\ UNCHANGED <<source, wrote, stateLog, runLog, step, low, top>>
            BY <1>8 DEF Windowed!Measure, Windowed!Goto
      <2>2. step[r] \in DOMAIN contract.windows /\ Loop(r)
            BY <1>0, <2>1 DEF Loop, Child
      <2>3. view = contract.windows[step[r]] \cap ((low[r] + 1)..source)
            BY DEF Windowed!ChildView, Windowed!Windows
      <2>4. \/ view = {} /\ Windowed!MaxWatermark(view) = None
            \/ Windowed!MaxWatermark(view) \in view
            <3>1. view \subseteq 0..source
                  BY <1>0, <2>3
            <3> HIDE DEF view
            <3> QED BY <1>0, <3>1, Greatest DEF Windowed!MaxWatermark
      <2>5. /\ pc'[r] = "measured" /\ cand'[r] = Windowed!MaxWatermark(view)
            /\ cand' \in [Run -> Nat \cup {None}]
            /\ \A q \in Run \ {r}: UNCHANGED <<low[q], top[q], step[q], cand[q], pc[q]>>
            <3>1. Windowed!MaxWatermark(view) \in Nat \cup {None}
                  BY <1>0, <2>3, <2>4
            <3> HIDE DEF view
            <3> QED BY <1>0, <2>1, <3>1
      <2>6. ASSUME \A n: Excused(n) => Excused(n)'
            PROVE  Loop(r)'
            <3>1. ASSUME NEW n \in contract.windows[step[r]], n <= source
                  PROVE  Excused(n)'
                  <4>1. n \in Nat /\ n \in Row
                        BY <1>w, <2>2
                  <4>2. CASE n \in view
                        <5>1. n \in wrote'[r] \/ n \in late'
                              BY <2>1, <4>2
                        <5> QED BY <5>1 DEF Excused
                  <4>3. CASE n <= low[r]
                        BY <1>0, <2>2, <2>6, <4>1, <4>3, MaxRowAssumption DEF Loop, Row
                  <4> QED BY <1>0, <2>3, <3>1, <4>1, <4>2, <4>3
            <3>2. Measured(r)'
                  <4>1. top'[r] = top[r] /\ top[r] <= source /\ step'[r] = step[r] /\ contract' = contract
                        BY <1>0, <1>1, <2>1, <2>2 DEF Loop
                  <4>2. cand'[r] # None => cand'[r] \in contract.windows[step[r]] /\ cand'[r] <= source
                        BY <1>0, <2>3, <2>4, <2>5
                  <4>3. \A n \in contract.windows[step[r]]: n \in Nat
                        BY <1>w, <2>2
                  <4> QED BY <1>0, <2>5, <3>1, <4>1, <4>2, <4>3 DEF Measured
            <3>3. BehindTheLoop(r)' /\ ChildTells(r)'
                  BY <1>0, <1>1, <2>1, <2>2, <2>5, <2>6 DEF Loop, BehindTheLoop, ChildTells, Busy
            <3> QED BY <1>0, <1>1, <2>1, <2>2, <2>6, <3>2, <3>3 DEF Loop
      <2> QED BY <1>0, <1>3, <2>1, <2>5, <2>6
\* A row of the run log.
<1>9. ASSUME NEW r \in Run, Windowed!LogSuccess(r) \/ Windowed!LogSkip(r) \/ Windowed!LogFailure(r)
      PROVE  LoopInv'
      <2>1. PICK s \in {"SUCCESS", "SKIPPED", "FAILED"}:
               /\ UNCHANGED <<source, late, stateLog, step, low, top, cand>>
               /\ pc' = [pc EXCEPT ![r] = pc'[r]]
               /\ runLog' = runLog \cup {[run |-> r, status |-> s, part |-> step[r]]}
               /\ \/ s = "SUCCESS" /\ pc[r] = "measured" /\ pc'[r] = "logged"
                  \/ s = "SKIPPED" /\ pc[r] = "skipping" /\ pc'[r] = "skipLogged"
                  \/ s = "FAILED" /\ pc[r] = "failing" /\ pc'[r] = "failLogged"
            BY <1>0, <1>9 DEF Windowed!LogSuccess, Windowed!LogSkip, Windowed!LogFailure, Windowed!Goto,
               Windowed!LogRun
      <2>2. \A q \in Run \ {r}: UNCHANGED <<low[q], top[q], step[q], cand[q], pc[q]>>
            BY <1>0, <2>1
      <2>3. /\ \A n: Excused(n) => Excused(n)'
            /\ \A q \in Run \ {r}: Loop(q)'
            BY <1>2, <2>1, <2>2
      <2>4. Loop(r) /\ contract' = contract /\ step[r] \in DOMAIN contract.windows
            BY <1>0, <1>1, <2>1 DEF Loop, Child
      <2>5. Loop(r)'
            <3>1. ChildTells(r)'
                  <4> DEFINE new == [run |-> r, status |-> s, part |-> step[r]]
                  <4>1. new \in runLog' /\ runLog \subseteq runLog' /\ step'[r] = step[r]
                        BY <2>1
                  <4>2. new.run = r /\ new.status = s /\ new.part = step[r]
                        OBVIOUS
                  <4> HIDE DEF new
                  <4>3. CASE s = "SKIPPED"
                        BY <2>1, <2>4, <4>1, <4>3 DEF Loop, ChildTells, Windowed!SameKey
                  <4>4. CASE s # "SKIPPED"
                        BY <2>1, <4>1, <4>2, <4>4 DEF ChildTells
                  <4> QED BY <4>3, <4>4
            <3>2. BehindTheLoop(r)' /\ Measured(r)'
                  BY <2>1, <2>3, <2>4 DEF Loop, BehindTheLoop, Measured, Busy
            <3> QED BY <2>1, <2>3, <2>4, <3>1, <3>2 DEF Loop
      <2>6. LogIsTrue'
            BY <1>0, <2>1, <2>3, <2>4 DEF LogIsTrue, Loop, Measured
      <2>7. StateIsTrue'
            BY <1>0, <2>1, <2>3 DEF StateIsTrue
      <2> QED BY <1>0, <1>1, <2>1, <2>3, <2>5, <2>6, <2>7 DEF LoopInv
\* The state row, and on to the next window.
<1>10. ASSUME NEW r \in Run, Windowed!RecordSuccess(r) \/ Windowed!RecordSkip(r) \/ Windowed!RecordFailure(r)
       PROVE  LoopInv'
       <2>1. PICK s \in {"SUCCESS", "SKIPPED", "FAILED"}, v \in Nat \cup {None}:
                /\ UNCHANGED <<source, late, runLog, low, top, cand>>
                /\ pc' = [pc EXCEPT ![r] = pc'[r]] /\ step' = [step EXCEPT ![r] = @ + 1]
                /\ stateLog' = Append(stateLog, [run |-> r, status |-> s, watermark |-> v])
                /\ \/ s = "SUCCESS" /\ pc[r] = "logged" /\ pc'[r] = "next" /\ v = cand[r]
                   \/ s = "SKIPPED" /\ pc[r] = "skipLogged" /\ pc'[r] = "next" /\ v = None
                   \/ /\ s = "FAILED" /\ pc[r] = "failLogged" /\ v = None
                      /\ pc'[r] = "done" \/ (pc'[r] = "next" /\ ~contract.stop)
             <3>1. cand[r] \in Nat \cup {None} /\ None \in Nat \cup {None}
                   BY <1>0
             <3>2. CASE Windowed!RecordSuccess(r)
                   BY <1>0, <3>1, <3>2 DEF Windowed!RecordSuccess, Windowed!AppendState, Windowed!Goto
             <3>3. CASE Windowed!RecordSkip(r)
                   BY <1>0, <3>1, <3>3 DEF Windowed!RecordSkip, Windowed!AppendState, Windowed!Goto
             <3>4. CASE Windowed!RecordFailure(r)
                   BY <1>0, <3>1, <3>4 DEF Windowed!RecordFailure, Windowed!AppendState, Windowed!Goto
             <3> QED BY <1>10, <3>2, <3>3, <3>4
       <2>2. /\ \A q \in Run \ {r}: UNCHANGED <<low[q], top[q], step[q], cand[q], pc[q]>>
             /\ step' \in [Run -> Nat \ {0}] /\ step'[r] = step[r] + 1 /\ step[r] \in Nat \ {0}
             BY <1>0, <2>1
       <2>3. /\ \A n: Excused(n) => Excused(n)'
             /\ \A q \in Run \ {r}: Loop(q)'
             BY <1>2, <2>1, <2>2
       <2>4. Loop(r) /\ contract' = contract /\ step[r] \in DOMAIN contract.windows
             BY <1>0, <1>1, <2>1 DEF Loop, Child
       <2> DEFINE any == \E row \in runLog: row.status = "SUCCESS"
       \* The window that is left has been dealt with.
       <2>5. ASSUME NEW n \in contract.windows[step[r]], pc'[r] # "done"
             PROVE  Excused(n) \/ (contract.key = "options" /\ any)
             <3>1. n \in Nat /\ step[r] \in Windowed!WindowOf(n)
                   BY <1>w, <2>4, <2>5 DEF Windowed!WindowOf, Windowed!Windows
             <3>2. CASE pc[r] = "failLogged"
                   <4>1. \E row \in runLog: row.status = "FAILED" /\ row.part = step[r]
                         BY <2>4, <3>2 DEF Loop, ChildTells
                   <4> QED BY <2>1, <2>5, <3>1, <3>2, <4>1 DEF Excused
             <3>3. ASSUME NEW row \in runLog, row.status = "SUCCESS", row.part = step[r]
                   PROVE  Excused(n)
                   <4>1. row.run \in Run /\ (n <= top[row.run] => Excused(n))
                         BY <1>0, <2>5, <3>3 DEF LogIsTrue
                   <4>2. n > top[row.run] => Windowed!DoneBefore(n)
                         BY <3>1, <3>3 DEF Windowed!DoneBefore
                   <4>3. top[row.run] \in Nat
                         BY <1>0, <4>1
                   <4> QED BY <3>1, <4>1, <4>2, <4>3 DEF Excused
             <3>4. CASE pc[r] = "logged"
                   BY <2>4, <3>3, <3>4 DEF Loop, ChildTells
             <3>5. CASE pc[r] = "skipLogged"
                   <4>1. PICK row \in runLog: row.status = "SUCCESS" /\ Windowed!SameKey(r, row)
                         BY <2>4, <3>5 DEF Loop, ChildTells
                   <4> QED BY <3>3, <4>1 DEF Windowed!SameKey
             <3> QED BY <2>1, <3>2, <3>4, <3>5
       <2>6. BehindTheLoop(r)'
             <3> SUFFICES ASSUME pc'[r] # "done", NEW w \in 1..(step'[r] - 1), NEW n \in contract.windows[w]
                          PROVE  Excused(n)' \/ (contract.key = "options" /\ any)
                 BY <2>1, <2>4 DEF BehindTheLoop, Busy
             <3>1. CASE w = step[r]
                   BY <2>3, <2>5, <3>1
             <3>2. CASE w \in 1..(step[r] - 1)
                   <4>1. pc[r] # "done"
                         BY <2>1
                   <4> QED BY <2>3, <2>4, <3>2, <4>1 DEF Loop, BehindTheLoop
             <3> QED BY <2>2, <3>1, <3>2
       <2>7. Loop(r)'
             BY <1>0, <2>1, <2>3, <2>4, <2>6 DEF Loop, ChildTells, Measured, Child
       <2>8. LogIsTrue'
             BY <1>0, <2>1, <2>3, <2>4 DEF LogIsTrue
       <2>9. stateLog' \in Seq([run: Run, status: {"SUCCESS", "SKIPPED", "FAILED"}, watermark: Nat \cup {None}])
             /\ stateLog'[Len(stateLog')].watermark = v
             BY <1>0, <2>1
       <2>10. StateIsTrue'
              <3> SUFFICES ASSUME v # None, NEW n \in 1..v
                           PROVE  Excused(n)
                  BY <2>3, <2>9 DEF StateIsTrue
              <3>1. /\ pc[r] = "logged" /\ v = cand[r] /\ v \in Nat
                    /\ v \in contract.windows[step[r]]
                    /\ \A m \in contract.windows[step[r]]: m <= v => Excused(m)
                    BY <2>1, <2>4 DEF Loop, Measured
              <3>2. v \in Row /\ step[r] \in Windowed!WindowOf(v)
                    BY <1>w, <2>4, <3>1 DEF Windowed!WindowOf, Windowed!Windows
              <3>3. CASE n \in contract.windows[step[r]]
                    BY <3>1, <3>3
              <3>4. CASE Windowed!WindowOf(n) = {}
                    BY <3>4 DEF Excused
              <3>5. ASSUME NEW w \in Windowed!WindowOf(n), n \notin contract.windows[step[r]]
                    PROVE  Excused(n)
                    <4>1. w \in DOMAIN contract.windows /\ n \in contract.windows[w] /\ w # step[r] /\ n # v
                          BY <3>1, <3>5 DEF Windowed!WindowOf, Windowed!Windows
                    <4>2. w \in Nat \ {0}
                          BY <1>0, <4>1 DEF Windowed!WindowPlan
                    <4>3. CASE step[r] < w
                          <5>1. Windowed!Disordered(n)
                                <6>1. v \in Windowed!Row /\ v > n
                                      BY <1>0, <3>1, <3>2, <4>1, WindowRows
                                <6>2. step[r] \in Windowed!WindowOf(v) /\ w \in Windowed!WindowOf(n)
                                      BY <3>2, <3>5
                                <6> QED BY <4>3, <6>1, <6>2 DEF Windowed!Disordered
                          <5> QED BY <5>1 DEF Excused
                    <4>4. CASE w < step[r]
                          BY <2>2, <2>4, <3>1, <4>1, <4>2, <4>4 DEF Loop, BehindTheLoop, Busy
                    <4> QED BY <2>2, <4>1, <4>2, <4>3, <4>4
              <3> QED BY <3>3, <3>4, <3>5
       <2> QED BY <1>0, <1>1, <2>1, <2>2, <2>3, <2>7, <2>8, <2>9, <2>10 DEF LoopInv
<1> QED BY <1>4, <1>5, <1>6, <1>7, <1>8, <1>9, <1>10 DEF Windowed!Next

LEMMA LoopInit == Windowed!Init => LoopInv
<1> SUFFICES ASSUME Windowed!Init
             PROVE  LoopInv
    OBVIOUS
<1>1. contract \in Windowed!WindowPlan
      BY WindowPlansAssumption DEF Windowed!Init, Windowed!Fresh
<1> QED BY <1>1 DEF Windowed!Init, Windowed!Fresh, LoopInv, LogIsTrue, StateIsTrue, Loop, BehindTheLoop,
           ChildTells, Measured, Child

LEMMA LoopIsOpen == Shape /\ LoopInv => WindowsPassOverOpenly
<1>1. WindowsPassOverOpenly <=> Windowed!WindowsPassOverOpenly
      BY DEF WindowsPassOverOpenly
<1> SUFFICES ASSUME LoopInv, platform = "databricks", stateLog # <<>>,
                    stateLog[Len(stateLog)].watermark # None,
                    NEW n \in 1..stateLog[Len(stateLog)].watermark, \A r \in Run: n \notin wrote[r]
             PROVE  \/ Windowed!WindowOf(n) = {}
                    \/ \E row \in runLog:
                          row.status = "FAILED" /\ row.part \in Windowed!WindowOf(n) /\ ~contract.stop
                    \/ Windowed!DoneBefore(n)
                    \/ n \in late
                    \/ Windowed!Disordered(n)
    BY <1>1 DEF Windowed!WindowsPassOverOpenly
<1>2. Excused(n)
      BY DEF LoopInv, StateIsTrue
<1> QED BY <1>2 DEF Excused

-----------------------------------------------------------------------------
(* What a Fabric notebook writes, and what it says of it *)

\* Where a run is before it has looked at its rows.
Early == {"idle", "merged", "locked", "cleared", "streamed"}

\* What a run has put aside it filters out, the rules that it has passed leave
\* no failing row but late ones, and nothing else gets into the target.
Sieve(r) ==
    /\ pc[r] \in Early => step[r] = 1 /\ applied[r] = {} /\ quarantined[r] = {}
    /\ pc[r] \in {"cleared", "streamed"} => contract.stream
    /\ pc[r] \in {"gate", "quarantining"} =>
          /\ \A n \in quarantined[r]: \E i \in applied[r]: n \in contract.rules[i].bad
          /\ \A i \in DOMAIN contract.rules:
                i < step[r] /\ contract.rules[i].severity # "warn"
                => Fabric!Df(r) \cap contract.rules[i].bad \subseteq late \cup Fabric!Newcomers(r)
          /\ ~contract.stream => Refused(applied[r], 1..top[r]) \subseteq quarantined[r]
    /\ wrote[r] \cap quarantined[r] = {}
    /\ \A i \in DOMAIN contract.rules:
          contract.rules[i].severity # "warn" => wrote[r] \cap contract.rules[i].bad \subseteq late

\* A watermark is within what was taken off the stream, or it passes over rows
\* only that are accounted for, or late.
Reach(w) ==
    w # None => IF contract.stream THEN w <= bookmark ELSE 1..w \subseteq Accounted \cup late

\* What a run that reads a table has accounted for, and its rows in the logs.
Report(r) ==
    /\ top[r] <= source /\ (~contract.stream => low[r] = 0)
    /\ (~contract.stream /\ (pc[r] \in {"written", "measured", "stated"} \/ Succeeded(r))) =>
          1..top[r] \subseteq wrote[r] \cup quarantined[r]
    /\ Succeeded(r) => pc[r] \in Finished
    /\ pc[r] = "stated" \/ Succeeded(r) => \E i \in Successes(Len(stateLog)): stateLog[i].run = r
    /\ pc[r] = "measured" => Reach(cand[r])

SomeState == [run: Run, status: Status, watermark: Nat \cup {None}]

NoteTypes ==
    /\ contract \in Contract
    /\ source \in 0..MaxRow /\ bookmark <= source /\ staged \subseteq 1..bookmark
    /\ step \in [Run -> Nat \ {0}] /\ cand \in [Run -> Nat \cup {None}] /\ reads \in [Run -> BOOLEAN]
    /\ stateLog \in Seq(SomeState)

NoteInv ==
    platform = "fabric" =>
        /\ NoteTypes
        /\ \A r \in Run: Sieve(r) /\ Report(r)
        /\ \A i \in 1..Len(stateLog): Reach(stateLog[i].watermark)

LEMMA ReachGrows ==
    ASSUME NEW w, Reach(w), contract' = contract, Accounted \subseteq Accounted', late \subseteq late',
           bookmark \in Nat, bookmark' \in Nat, bookmark <= bookmark', w \in Nat \cup {None}
    PROVE  Reach(w)'
BY DEF Reach

\* What is the case of a run stays the case while another one moves.
LEMMA SieveRests ==
    ASSUME NEW q \in Run, Sieve(q), contract' = contract, late \subseteq late',
           UNCHANGED <<step[q], applied[q], quarantined[q], wrote[q], low[q], top[q], pc[q]>>,
           Fabric!Newcomers(q) \subseteq Fabric!Newcomers(q)',
           pc[q] \in {"gate", "quarantining"} =>
               Fabric!Df(q)' \subseteq Fabric!Df(q) \cup late' \cup Fabric!Newcomers(q)'
    PROVE  Sieve(q)'
<1>1. Refused(applied[q], 1..top[q])' = Refused(applied[q], 1..top[q])
      BY DEF Refused
<1>2. CASE pc[q] \in {"gate", "quarantining"}
      <2>1. ASSUME NEW i \in DOMAIN contract.rules, i < step[q], contract.rules[i].severity # "warn"
            PROVE  Fabric!Df(q)' \cap contract.rules[i].bad \subseteq late' \cup Fabric!Newcomers(q)'
            <3>1. Fabric!Df(q) \cap contract.rules[i].bad \subseteq late \cup Fabric!Newcomers(q)
                  BY <1>2, <2>1 DEF Sieve
            <3> QED BY <1>2, <3>1
      <2> QED BY <1>1, <1>2, <2>1 DEF Sieve, Early
<1>3. CASE pc[q] \notin {"gate", "quarantining"}
      BY <1>3 DEF Sieve
<1> QED BY <1>2, <1>3

LEMMA ReportRests ==
    ASSUME NEW q \in Run, Report(q), contract' = contract, source \in Nat, source' \in Nat, source <= source',
           UNCHANGED <<quarantined[q], wrote[q], low[q], top[q], pc[q], cand[q]>>, top[q] \in Nat,
           Succeeded(q)' <=> Succeeded(q),
           Reach(cand[q]) => Reach(cand[q])',
           (\E i \in Successes(Len(stateLog)): stateLog[i].run = q)
           => (\E i \in Successes(Len(stateLog)): stateLog[i].run = q)'
    PROVE  Report(q)'
BY DEF Report

LEMMA StateGrows ==
    ASSUME NEW S, stateLog \in Seq(S), NEW x \in S, stateLog' = Append(stateLog, x)
    PROVE  /\ stateLog' \in Seq(S) /\ Len(stateLog') = Len(stateLog) + 1 /\ Len(stateLog) \in Nat
           /\ \A i \in 1..Len(stateLog): stateLog'[i] = stateLog[i]
           /\ stateLog'[Len(stateLog) + 1] = x
           /\ \A i \in Successes(Len(stateLog)): i \in Successes(Len(stateLog))' /\ stateLog'[i] = stateLog[i]
           /\ x.status = "SUCCESS" => Len(stateLog) + 1 \in Successes(Len(stateLog))'
<1>1. /\ stateLog' \in Seq(S) /\ Len(stateLog') = Len(stateLog) + 1 /\ Len(stateLog) \in Nat
      /\ \A i \in 1..Len(stateLog): stateLog'[i] = stateLog[i]
      /\ stateLog'[Len(stateLog) + 1] = x
      OBVIOUS
<1> QED BY <1>1 DEF Successes

\* The rows of df while other runs, or rows, come.
LEMMA DfRests ==
    ASSUME NEW q \in Run, contract' = contract,
           UNCHANGED <<low[q], applied[q], reads[q]>>, source' = source,
           staged' \subseteq staged \cup late'
    PROVE  Fabric!Df(q)' \subseteq Fabric!Df(q) \cup late'
<1>1. Fabric!Filtered(q, source)' = Fabric!Filtered(q, source)
      /\ Fabric!Filtered(q, MaxRow)' = Fabric!Filtered(q, MaxRow)
      BY DEF Fabric!Filtered
<1> QED BY <1>1 DEF Fabric!Df, Fabric!View

LEMMA NoteStep ==
    ASSUME Shape, Unwritten, platform = "fabric", NoteInv, Fabric!Next
    PROVE  NoteInv'
<1> USE DEF Fabric!data, Fabric!given, Fabric!control, Fabric!locking, Fabric!progress, Fabric!locals, given
<1>0. /\ Shape' /\ Unwritten' /\ Grows /\ contract' = contract /\ platform' = "fabric"
      /\ NoteTypes /\ \A q \in Run: Sieve(q) /\ Report(q)
      /\ \A i \in 1..Len(stateLog): Reach(stateLog[i].watermark)
      /\ pc = [q \in Run |-> pc[q]]
      BY NotebookShape DEF NoteInv, Shape
<1>s. /\ source \in Nat /\ bookmark \in Nat /\ top \in [Run -> Nat] /\ low \in [Run -> Nat]
      /\ wrote = [q \in Run |-> wrote[q]] /\ quarantined = [q \in Run |-> quarantined[q]]
      /\ applied = [q \in Run |-> applied[q]]
      BY DEF Shape
<1>t. /\ contract \in Contract /\ source \in 0..MaxRow /\ bookmark <= source /\ staged \subseteq 1..bookmark
      /\ step \in [Run -> Nat \ {0}] /\ cand \in [Run -> Nat \cup {None}] /\ reads \in [Run -> BOOLEAN]
      /\ stateLog \in Seq(SomeState)
      BY <1>0 DEF NoteTypes
<1>a. Accounted \subseteq Accounted'
      BY <1>0, AccountedGrows
<1>l. stateLog' = stateLog =>
        \A q: (\E i \in Successes(Len(stateLog)): stateLog[i].run = q)
              <=> (\E i \in Successes(Len(stateLog)): stateLog[i].run = q)'
      BY DEF Successes
<1>r. contract.rules \in Seq(Rule) /\ Len(contract.rules) \in Nat
      /\ DOMAIN contract.rules = 1..Len(contract.rules)
      BY <1>t DEF Contract
\* What a step of a run leaves to show, one that does not write the state table.
<1>1. ASSUME NEW r \in Run, source' = source, UNCHANGED stateLog, late \subseteq late', bookmark <= bookmark',
             NoteTypes',
             \A q \in Run \ {r}:
                /\ UNCHANGED <<step[q], applied[q], quarantined[q], wrote[q], low[q], top[q], pc[q], cand[q],
                               reads[q]>>
                /\ Succeeded(q)' <=> Succeeded(q)
                /\ pc[q] \in {"gate", "quarantining"} => staged' \subseteq staged \cup late',
             (\A w \in Nat \cup {None}: Reach(w) => Reach(w)') => Sieve(r)' /\ Report(r)'
      PROVE  NoteInv'
      <2>1. ASSUME NEW w \in Nat \cup {None}, Reach(w)
            PROVE  Reach(w)'
            <3>1. bookmark' \in Nat
                  BY <1>0 DEF Shape
            <3> QED BY <1>0, <1>1, <1>a, <1>s, <2>1, <3>1, ReachGrows
      <2>2. ASSUME NEW q \in Run \ {r}
            PROVE  Sieve(q)' /\ Report(q)'
            <3>1. /\ UNCHANGED <<step[q], applied[q], quarantined[q], wrote[q], low[q], top[q], pc[q], cand[q],
                               reads[q]>>
                  /\ Succeeded(q)' <=> Succeeded(q)
                  BY <1>1
            <3>2. Fabric!Newcomers(q)' = Fabric!Newcomers(q)
                  BY <1>0, <1>1, <3>1 DEF Fabric!Newcomers, Fabric!Arrived
            <3>3. pc[q] \in {"gate", "quarantining"} => Fabric!Df(q)' \subseteq Fabric!Df(q) \cup late'
                  BY <1>0, <1>1, <3>1, DfRests
            <3>4. Sieve(q)'
                  BY <1>0, <1>1, <3>1, <3>2, <3>3, SieveRests
            <3>5. cand[q] \in Nat \cup {None} /\ top[q] \in Nat
                  BY <1>s, <1>t
            <3>6. Reach(cand[q]) => Reach(cand[q])'
                  BY <2>1, <3>1, <3>5
            <3>7. Report(q)'
                  <4>1. (\E i \in Successes(Len(stateLog)): stateLog[i].run = q)
                        => (\E i \in Successes(Len(stateLog)): stateLog[i].run = q)'
                        BY <1>1, <1>l
                  <4>2. Report(q) /\ source' \in Nat /\ source <= source'
                        BY <1>0, <1>1, <1>s
                  <4> QED BY <1>0, <1>s, <3>1, <3>5, <3>6, <4>1, <4>2, ReportRests
            <3> QED BY <3>4, <3>7
      <2>3. ASSUME NEW i \in 1..Len(stateLog)
            PROVE  Reach(stateLog[i].watermark)'
            <3>1. stateLog[i].watermark \in Nat \cup {None}
                  <4>1. stateLog[i] \in SomeState
                        <5> HIDE DEF SomeState
                        <5> QED BY <1>t
                  <4> QED BY <4>1 DEF SomeState
            <3> QED BY <1>0, <1>1, <2>1, <3>1
      <2> QED BY <1>0, <1>1, <2>1, <2>2, <2>3 DEF NoteInv
<1>2. ASSUME Fabric!Arrive \/ Fabric!Tick
      PROVE  NoteInv'
      <2>1. /\ UNCHANGED <<wrote, quarantined, bookmark, staged, reads, low, top, step, applied, cand, late, pc,
                           runLog, stateLog>>
            /\ source' = source \/ (source < MaxRow /\ source' = source + 1)
            BY <1>2 DEF Fabric!Arrive, Fabric!Tick
      <2>2. source' \in 0..MaxRow /\ source <= source' /\ source' \in Nat
            BY <1>t, <2>1, MaxRowAssumption
      <2>3. NoteTypes'
            BY <1>0, <1>s, <1>t, <2>1, <2>2 DEF NoteTypes
      <2>4. Accounted' = Accounted /\ \A w: Reach(w)' <=> Reach(w)
            BY <1>0, <2>1 DEF Accounted, Reach
      <2>5. ASSUME NEW q \in Run
            PROVE  Sieve(q)' /\ Report(q)'
            <3>1. Fabric!Newcomers(q) \subseteq Fabric!Newcomers(q)'
                  BY <1>0, <1>s, <2>1, <2>2 DEF Fabric!Newcomers, Fabric!Arrived
            <3>2. Fabric!Df(q)' \subseteq Fabric!Df(q) \cup Fabric!Newcomers(q)'
                  <4>1. CASE contract.stream
                        <5>1. Fabric!Filtered(q, MaxRow)' = Fabric!Filtered(q, MaxRow)
                              BY <1>0, <2>1 DEF Fabric!Filtered
                        <5> QED BY <1>0, <2>1, <4>1, <5>1 DEF Fabric!Df
                  <4>2. CASE ~contract.stream
                        <5>1. ASSUME NEW n \in Fabric!View(q, source)', n \in 1..source
                              PROVE  n \in Fabric!View(q, source)
                              BY <1>0, <2>1, <5>1 DEF Fabric!View, Fabric!Filtered
                        <5>2. ASSUME NEW n \in Fabric!View(q, source)', n \notin 1..source
                              PROVE  n \in Fabric!Newcomers(q)'
                              <6>1. n \in (low[q] + 1)..source' /\ low[q] \in Nat /\ top[q] \in Nat
                                    BY <1>s, <2>1, <5>2 DEF Fabric!View
                              <6>2. top[q] <= source
                                    BY <1>0 DEF Report
                              <6>3. n \in (top[q] + 1)..source'
                                    BY <1>s, <2>2, <5>2, <6>1, <6>2
                              <6> QED BY <1>0, <2>1, <4>2, <6>3 DEF Fabric!Newcomers, Fabric!Arrived
                        <5> QED BY <1>0, <4>2, <5>1, <5>2 DEF Fabric!Df
                  <4> QED BY <4>1, <4>2
            <3>3. Sieve(q)'
                  BY <1>0, <2>1, <3>1, <3>2, SieveRests
            <3>4. Report(q)'
                  BY <1>0, <1>l, <1>s, <2>1, <2>2, <2>4, ReportRests DEF Succeeded
            <3> QED BY <3>3, <3>4
      <2> QED BY <1>0, <2>1, <2>3, <2>4, <2>5 DEF NoteInv
\* Steps that take the run away from its rows, or towards them.
<1>3. ASSUME NEW r \in Run,
             \/ Fabric!Unlocked(r) \/ Fabric!Acquire(r) \/ Fabric!ReadBack(r) \/ Fabric!Clear(r)
             \/ Fabric!Raise(r) \/ Fabric!LogFailure(r) \/ Fabric!HandlerRaises(r)
             \/ Fabric!Release(r) \/ Fabric!ReleaseFails(r) \/ Fabric!Crash(r)
      PROVE  NoteInv'
      <2>1. /\ UNCHANGED <<source, wrote, quarantined, bookmark, reads, low, top, step, applied, cand, stateLog>>
            /\ late \subseteq late' /\ staged' \subseteq staged
            BY <1>3 DEF Fabric!Unlocked, Fabric!Acquire, Fabric!ReadBack, Fabric!Clear, Fabric!Raise,
               Fabric!LogFailure, Fabric!HandlerRaises, Fabric!Release, Fabric!ReleaseFails, Fabric!Crash
      <2>2. /\ pc' = [pc EXCEPT ![r] = pc'[r]]
            /\ pc'[r] \in Early => pc[r] \in Early
            /\ pc'[r] \in {"cleared", "streamed"} => contract.stream
            /\ pc'[r] \notin {"gate", "quarantining", "written", "measured", "stated"}
            /\ pc[r] \in Finished => pc'[r] \in Finished
            <3>1. /\ pc' = [pc EXCEPT ![r] = pc'[r]]
                  /\ pc'[r] \in Early => pc[r] \in Early
                  /\ pc'[r] \in {"cleared", "streamed"} => contract.stream
                  /\ pc'[r] \notin {"gate", "quarantining", "written", "measured", "stated"}
                  BY <1>0, <1>3 DEF Fabric!Unlocked, Fabric!Acquire, Fabric!ReadBack, Fabric!Clear, Fabric!Raise,
                     Fabric!LogFailure, Fabric!HandlerRaises, Fabric!Release, Fabric!ReleaseFails, Fabric!Crash,
                     Fabric!Goto, Early
            <3>2. pc[r] \in Finished => pc'[r] \in Finished
                  BY <1>0, <1>3 DEF Fabric!Unlocked, Fabric!Acquire, Fabric!ReadBack, Fabric!Clear, Fabric!Raise,
                     Fabric!LogFailure, Fabric!HandlerRaises, Fabric!Release, Fabric!ReleaseFails, Fabric!Crash,
                     Fabric!Goto, Finished
            <3> QED BY <3>1, <3>2
      <2>3. runLog' = runLog \/ runLog' = runLog \cup {[run |-> r, status |-> "FAILED", part |-> 0]}
            BY <1>3 DEF Fabric!Unlocked, Fabric!Acquire, Fabric!ReadBack, Fabric!Clear, Fabric!Raise,
               Fabric!LogFailure, Fabric!HandlerRaises, Fabric!Release, Fabric!ReleaseFails, Fabric!Crash,
               Fabric!LogRun
      <2>4. \A q \in Run: Succeeded(q)' <=> Succeeded(q)
            BY <2>3 DEF Succeeded
      <2>5. NoteTypes'
            BY <1>0, <1>t, <2>1 DEF NoteTypes
      <2>6. Sieve(r)'
            <3>1. Sieve(r) /\ contract' = contract
                  BY <1>0
            <3> QED BY <2>1, <2>2, <3>1 DEF Sieve
      <2>7. Report(r)'
            <3>1. Report(r) /\ contract' = contract
                  BY <1>0
            <3> QED BY <1>l, <2>1, <2>2, <2>4, <3>1 DEF Report
      <2>8. \A q \in Run \ {r}:
                /\ UNCHANGED <<step[q], applied[q], quarantined[q], wrote[q], low[q], top[q], pc[q], cand[q],
                               reads[q]>>
                /\ Succeeded(q)' <=> Succeeded(q)
                /\ pc[q] \in {"gate", "quarantining"} => staged' \subseteq staged \cup late'
            BY <1>0, <2>1, <2>2, <2>4
      <2>9. bookmark <= bookmark'
            BY <1>s, <2>1
      <2> QED BY <1>1, <2>1, <2>5, <2>6, <2>7, <2>8, <2>9
<1>4. ASSUME NEW r \in Run, Fabric!Stream(r) \/ Fabric!StreamFails(r)
      PROVE  NoteInv'
      <2>1. PICK n \in bookmark..source: Fabric!Take(r, n)
            BY <1>4, <1>s, <1>t DEF Fabric!Stream, Fabric!StreamFails
      <2> DEFINE batch == (bookmark + 1)..n
      <2>2. /\ UNCHANGED <<source, wrote, quarantined, reads, step, applied, cand, stateLog, runLog>>
            /\ low' = [low EXCEPT ![r] = bookmark] /\ top' = [top EXCEPT ![r] = n] /\ bookmark' = n
            /\ staged' = staged \cup batch
            /\ late' = IF Fabric!Disturbs(r) THEN late \cup batch ELSE late
            BY <2>1 DEF Fabric!Take
      <2>3. /\ pc[r] = "cleared" /\ pc' = [pc EXCEPT ![r] = pc'[r]] /\ pc'[r] \in {"streamed", "failing"}
            BY <1>0, <1>4 DEF Fabric!Stream, Fabric!StreamFails, Fabric!Goto
      <2>4. NoteTypes'
            BY <1>0, <1>s, <1>t, <2>2 DEF NoteTypes
      <2>5. contract.stream /\ ~Succeeded(r) /\ \A q \in Run: Succeeded(q)' <=> Succeeded(q)
            BY <1>0, <2>2, <2>3 DEF Sieve, Report, Finished, Succeeded
      <2>6. Sieve(r)'
            BY <1>0, <2>2, <2>3, <2>5 DEF Sieve, Early
      <2>7. Report(r)'
            <3>1. top'[r] = n /\ n <= source
                  BY <1>s, <2>2
            <3> QED BY <1>0, <2>2, <2>3, <2>5, <3>1 DEF Report
      <2>8. \A q \in Run \ {r}:
                /\ UNCHANGED <<step[q], applied[q], quarantined[q], wrote[q], low[q], top[q], pc[q], cand[q],
                               reads[q]>>
                /\ pc[q] \in {"gate", "quarantining"} => staged' \subseteq staged \cup late'
            BY <1>0, <1>s, <2>2, <2>3 DEF Fabric!Disturbs
      <2>9. bookmark <= bookmark' /\ late \subseteq late'
            BY <1>s, <2>2
      <2> QED BY <1>1, <2>2, <2>4, <2>5, <2>6, <2>7, <2>8, <2>9
\* A run comes to its rows.
<1>5. ASSUME NEW r \in Run, Fabric!Load(r) \/ Fabric!Count(r)
      PROVE  NoteInv'
      <2>1. /\ UNCHANGED <<source, wrote, quarantined, bookmark, staged, low, step, applied, cand, stateLog,
                           runLog, late>>
            /\ pc[r] \in {"locked", "streamed"} /\ pc' = [pc EXCEPT ![r] = "gate"]
            /\ \/ contract.stream /\ UNCHANGED top /\ reads' = [reads EXCEPT ![r] = staged # {}]
               \/ ~contract.stream /\ UNCHANGED reads /\ top' = [top EXCEPT ![r] = source]
            BY <1>0, <1>5 DEF Fabric!Load, Fabric!Count, Fabric!Goto, Sieve
      <2>2. reads' \in [Run -> BOOLEAN]
            <3>1. CASE reads' = [reads EXCEPT ![r] = staged # {}]
                  BY <1>t, <3>1, Zenon
            <3> QED BY <1>t, <2>1, <3>1
      <2>3. NoteTypes'
            BY <1>0, <1>t, <2>1, <2>2 DEF NoteTypes
      <2>4. ~Succeeded(r) /\ \A q \in Run: Succeeded(q)' <=> Succeeded(q)
            BY <1>0, <2>1 DEF Report, Finished, Succeeded
      <2>5. step[r] = 1 /\ applied[r] = {} /\ quarantined[r] = {} /\ wrote[r] = {}
            BY <1>0, <2>1 DEF Sieve, Early, Unwritten, Ahead
      <2>6. Sieve(r)'
            <3>1. ~ \E i \in DOMAIN contract.rules: i < 1
                  BY <1>r
            <3> QED BY <1>0, <2>1, <2>5, <3>1 DEF Sieve, Refused, Early
      <2>7. Report(r)'
            BY <1>0, <1>s, <2>1, <2>4 DEF Report
      <2>8. \A q \in Run \ {r}: UNCHANGED <<top[q], pc[q], reads[q]>>
            BY <1>0, <1>s, <1>t, <2>1
      <2> QED BY <1>1, <1>s, <2>1, <2>3, <2>4, <2>6, <2>7, <2>8
\* The next rule: it is passed if it is a warning or no row of df fails it.
<1>6. ASSUME NEW r \in Run, Fabric!Evaluate(r)
      PROVE  NoteInv'
      <2>1. /\ UNCHANGED <<source, wrote, quarantined, bookmark, staged, reads, low, top, applied, cand, stateLog,
                           runLog, late>>
            /\ pc[r] = "gate" /\ pc' = [pc EXCEPT ![r] = pc'[r]]
            /\ \/ /\ Fabric!Df(r) \cap contract.rules[step[r]].bad = {} \/ contract.rules[step[r]].severity = "warn"
                  /\ step' = [step EXCEPT ![r] = @ + 1] /\ pc'[r] = "gate"
               \/ step' = step /\ pc'[r] \in {"failing", "quarantining"}
            BY <1>0, <1>6, <1>t DEF Fabric!Evaluate, Fabric!Goto, Fabric!Offending
      <2>2. step' \in [Run -> Nat \ {0}] /\ step[r] \in Nat
            BY <1>t, <2>1
      <2>3. NoteTypes'
            BY <1>0, <1>t, <2>1, <2>2 DEF NoteTypes
      <2>4. ~Succeeded(r) /\ \A q \in Run: Succeeded(q)' <=> Succeeded(q)
            BY <1>0, <2>1 DEF Report, Finished, Succeeded
      <2>5. Fabric!Df(r)' = Fabric!Df(r) /\ Fabric!Newcomers(r)' = Fabric!Newcomers(r)
            BY <1>0, <2>1 DEF Fabric!Df, Fabric!View, Fabric!Filtered, Fabric!Newcomers, Fabric!Arrived
      <2>6. Sieve(r)'
            <3>1. Sieve(r) /\ contract' = contract
                  BY <1>0
            <3>2. ASSUME NEW i \in DOMAIN contract.rules, i < step'[r], contract.rules[i].severity # "warn",
                         pc'[r] \in {"gate", "quarantining"}
                  PROVE  Fabric!Df(r) \cap contract.rules[i].bad \subseteq late \cup Fabric!Newcomers(r)
                  <4>1. CASE i < step[r]
                        BY <2>1, <3>1, <3>2, <4>1 DEF Sieve
                  <4>2. CASE ~(i < step[r])
                        <5>1. i = step[r] /\ step' # step
                              BY <1>r, <1>t, <2>1, <2>2, <3>2, <4>2
                        <5> QED BY <2>1, <3>2, <5>1
                  <4> QED BY <4>1, <4>2
            <3>3. Refused(applied[r], 1..top[r])' = Refused(applied[r], 1..top[r])
                  BY <1>0, <2>1 DEF Refused
            <3> QED BY <2>1, <2>5, <3>1, <3>2, <3>3 DEF Sieve, Early
      <2>7. Report(r)'
            BY <1>0, <2>1, <2>4 DEF Report
      <2>8. \A q \in Run \ {r}: UNCHANGED <<step[q], pc[q]>>
            BY <1>0, <1>t, <2>1
      <2> QED BY <1>1, <1>s, <2>1, <2>3, <2>4, <2>6, <2>7, <2>8
<1>7. ASSUME NEW r \in Run, Fabric!Quarantine(r)
      PROVE  NoteInv'
      <2> DEFINE bad == contract.rules[step[r]].bad
                 off == Fabric!Df(r) \cap bad
      <2>1. /\ UNCHANGED <<source, wrote, bookmark, staged, reads, low, top, cand, stateLog, runLog, late>>
            /\ pc[r] = "quarantining" /\ pc' = [pc EXCEPT ![r] = "gate"]
            /\ quarantined' = [quarantined EXCEPT ![r] = @ \cup off]
            /\ applied' = [applied EXCEPT ![r] = @ \cup {step[r]}]
            /\ step' = [step EXCEPT ![r] = @ + 1]
            BY <1>7 DEF Fabric!Quarantine, Fabric!Goto, Fabric!Offending
      <2>2. step' \in [Run -> Nat \ {0}] /\ step[r] \in Nat /\ step'[r] = step[r] + 1
            BY <1>t, <2>1
      <2>3. NoteTypes'
            BY <1>0, <1>t, <2>1, <2>2 DEF NoteTypes
      <2>4. ~Succeeded(r) /\ \A q \in Run: Succeeded(q)' <=> Succeeded(q)
            BY <1>0, <2>1 DEF Report, Finished, Succeeded
      <2>5. /\ quarantined'[r] = quarantined[r] \cup off /\ applied'[r] = applied[r] \cup {step[r]}
            /\ wrote[r] = {} /\ Fabric!Newcomers(r)' = Fabric!Newcomers(r)
            BY <1>0, <1>s, <2>1 DEF Unwritten, Ahead, Fabric!Newcomers, Fabric!Arrived
      <2> HIDE DEF off
      <2>6. Fabric!Df(r)' \subseteq Fabric!Df(r) \ bad
            <3>1. \A N: Fabric!Filtered(r, N)' = Fabric!Filtered(r, N) \cup {m \in 1..N: m \in bad}
                  BY <1>0, <2>5 DEF Fabric!Filtered
            <3>2. Fabric!View(r, source) \subseteq 1..source /\ staged \subseteq 1..MaxRow
                  BY <1>s, <1>t, MaxRowAssumption DEF Fabric!View
            <3> QED BY <1>0, <2>1, <3>1, <3>2 DEF Fabric!Df, Fabric!View
      <2>7. Sieve(r)'
            <3>1. Sieve(r) /\ contract' = contract
                  BY <1>0
            <3>2. ASSUME NEW i \in DOMAIN contract.rules, i < step'[r], contract.rules[i].severity # "warn"
                  PROVE  Fabric!Df(r)' \cap contract.rules[i].bad \subseteq late \cup Fabric!Newcomers(r)
                  <4>1. CASE i < step[r]
                        BY <2>1, <2>6, <3>1, <3>2, <4>1 DEF Sieve
                  <4>2. CASE ~(i < step[r])
                        <5>1. i = step[r]
                              BY <1>r, <2>2, <3>2, <4>2
                        <5> QED BY <2>6, <5>1
                  <4> QED BY <4>1, <4>2
            <3>3. \A n \in quarantined'[r]: \E i \in applied'[r]: n \in contract.rules[i].bad
                  BY <2>1, <2>5, <3>1 DEF Sieve, off
            <3>4. ASSUME ~contract.stream, NEW n \in Refused(applied'[r], 1..top[r])
                  PROVE  n \in quarantined'[r]
                  <4>1. n \in 1..top[r] /\ (n \in bad \/ n \in Refused(applied[r], 1..top[r]))
                        BY <2>5, <3>4 DEF Refused
                  <4>2. CASE n \in Refused(applied[r], 1..top[r])
                        BY <2>1, <2>5, <3>1, <3>4, <4>2 DEF Sieve
                  <4>3. CASE n \in bad /\ n \notin Refused(applied[r], 1..top[r])
                        <5>1. low[r] = 0 /\ top[r] <= source
                              BY <1>0, <3>4 DEF Report
                        <5>2. n \in Fabric!Df(r)
                              BY <1>s, <3>4, <4>1, <4>3, <5>1 DEF Fabric!Df, Fabric!View, Fabric!Filtered, Refused
                        <5> QED BY <2>5, <4>3, <5>2 DEF off
                  <4> QED BY <4>1, <4>2, <4>3
            <3>5. Refused(applied[r], 1..top[r])' = Refused(applied'[r], 1..top[r])
                  BY <1>0, <2>1 DEF Refused
            <3>6. pc'[r] = "gate"
                  BY <1>0, <2>1
            <3> QED BY <2>1, <2>5, <3>1, <3>2, <3>3, <3>4, <3>5, <3>6 DEF Sieve, Early
      <2>8. Report(r)'
            BY <1>0, <2>1, <2>4 DEF Report
      <2>9. \A q \in Run \ {r}: UNCHANGED <<step[q], applied[q], quarantined[q], pc[q]>>
            BY <1>0, <1>s, <1>t, <2>1
      <2> QED BY <1>1, <1>s, <2>1, <2>3, <2>4, <2>7, <2>8, <2>9
<1>8. ASSUME NEW r \in Run, Fabric!QuarantineFails(r)
      PROVE  NoteInv'
      <2>1. /\ UNCHANGED <<source, wrote, bookmark, staged, reads, low, top, step, applied, cand, stateLog,
                           runLog, late>>
            /\ pc[r] = "quarantining" /\ pc' = [pc EXCEPT ![r] = "failing"]
            /\ quarantined' = [quarantined EXCEPT ![r] = quarantined'[r]]
            BY <1>8, <1>s DEF Fabric!QuarantineFails, Fabric!Goto
      <2>2. NoteTypes'
            BY <1>0, <1>t, <2>1 DEF NoteTypes
      <2>3. ~Succeeded(r) /\ \A q \in Run: Succeeded(q)' <=> Succeeded(q)
            BY <1>0, <2>1 DEF Report, Finished, Succeeded
      <2>4. wrote'[r] = {} /\ pc'[r] = "failing"
            BY <1>0, <2>1 DEF Unwritten, Ahead
      <2>5. Sieve(r)' /\ Report(r)'
            BY <1>0, <2>1, <2>3, <2>4 DEF Sieve, Report, Early
      <2>6. \A q \in Run \ {r}: UNCHANGED <<quarantined[q], pc[q]>>
            BY <1>0, <1>s, <2>1
      <2> QED BY <1>1, <1>s, <2>1, <2>2, <2>3, <2>5, <2>6
\* The append: what came in after the count is late.
<1>9. ASSUME NEW r \in Run, Fabric!Write(r)
      PROVE  NoteInv'
      <2>1. /\ UNCHANGED <<source, quarantined, bookmark, staged, reads, low, top, step, applied, cand, stateLog,
                           runLog>>
            /\ pc[r] = "gate" /\ pc' = [pc EXCEPT ![r] = "written"] /\ step[r] > Len(contract.rules)
            /\ wrote' = [wrote EXCEPT ![r] = Fabric!Df(r)]
            /\ late' = late \cup Fabric!Newcomers(r)
            BY <1>9 DEF Fabric!Write, Fabric!Goto
      <2>2. NoteTypes'
            BY <1>0, <1>t, <2>1 DEF NoteTypes
      <2>3. ~Succeeded(r) /\ \A q \in Run: Succeeded(q)' <=> Succeeded(q)
            BY <1>0, <2>1 DEF Report, Finished, Succeeded
      <2>4. wrote'[r] = Fabric!Df(r) /\ pc'[r] = "written" /\ Sieve(r) /\ contract' = contract
            BY <1>0, <1>s, <2>1
      <2>5. Sieve(r)'
            <3>1. Fabric!Df(r) \cap quarantined[r] = {}
                  <4>1. ASSUME NEW n \in Fabric!Df(r), n \in quarantined[r]
                        PROVE  FALSE
                        <5>1. \E i \in applied[r]: n \in contract.rules[i].bad
                              BY <2>1, <2>4, <4>1 DEF Sieve
                        <5>2. Fabric!View(r, source) \subseteq 1..source /\ staged \subseteq 1..MaxRow
                              BY <1>s, <1>t, MaxRowAssumption DEF Fabric!View
                        <5> QED BY <4>1, <5>1, <5>2 DEF Fabric!Df, Fabric!View, Fabric!Filtered
                  <4> QED BY <4>1
            <3>2. ASSUME NEW i \in DOMAIN contract.rules, contract.rules[i].severity # "warn"
                  PROVE  Fabric!Df(r) \cap contract.rules[i].bad \subseteq late'
                  <4>1. i < step[r]
                        BY <1>r, <1>t, <2>1
                  <4> QED BY <2>1, <2>4, <3>2, <4>1 DEF Sieve
            <3> QED BY <2>1, <2>4, <3>1, <3>2 DEF Sieve, Early
      <2>6. Report(r)'
            <3>1. ASSUME ~contract.stream
                  PROVE  1..top[r] \subseteq Fabric!Df(r) \cup quarantined[r]
                  <4>1. low[r] = 0 /\ top[r] <= source
                        BY <1>0, <3>1 DEF Report
                  <4>2. Refused(applied[r], 1..top[r]) \subseteq quarantined[r]
                        BY <2>1, <2>4, <3>1 DEF Sieve
                  <4>3. ASSUME NEW n \in 1..top[r], n \notin Refused(applied[r], 1..top[r])
                        PROVE  n \in Fabric!Df(r)
                        BY <1>s, <3>1, <4>1, <4>3 DEF Fabric!Df, Fabric!View, Fabric!Filtered, Refused
                  <4> QED BY <4>2, <4>3
            <3> QED BY <1>0, <2>1, <2>3, <2>4, <3>1 DEF Report
      <2>7. \A q \in Run \ {r}: UNCHANGED <<wrote[q], pc[q]>>
            BY <1>0, <1>s, <2>1
      <2> QED BY <1>1, <1>s, <2>1, <2>2, <2>3, <2>5, <2>6, <2>7
\* The watermark candidate: all that df shows is accounted for, or late.
<1>10. ASSUME NEW r \in Run, Fabric!Measure(r)
       PROVE  NoteInv'
       <2> DEFINE max == Fabric!MaxWatermark(Fabric!Df(r))
       <2>1. /\ UNCHANGED <<source, wrote, quarantined, bookmark, staged, reads, low, top, step, applied, stateLog,
                            runLog>>
             /\ pc[r] = "written" /\ pc' = [pc EXCEPT ![r] = "measured"]
             /\ cand' = [cand EXCEPT ![r] = max]
             /\ late' = late \cup Fabric!Newcomers(r)
             BY <1>10 DEF Fabric!Measure, Fabric!Goto
       <2>2. Fabric!Df(r) \subseteq 0..source /\ (contract.stream => Fabric!Df(r) \subseteq 0..bookmark)
             BY <1>s, <1>t DEF Fabric!Df, Fabric!View
       <2>3. max = None \/ (max \in Nat /\ max \in Fabric!Df(r))
             <3> DEFINE S == Fabric!Df(r)
             <3>1. S \subseteq 0..source
                   BY <2>2
             <3> HIDE DEF S
             <3>2. S = {} \/ Fabric!MaxWatermark(S) \in S
                   BY <1>s, <3>1, Greatest DEF Fabric!MaxWatermark
             <3>3. S = {} => Fabric!MaxWatermark(S) = None
                   BY DEF Fabric!MaxWatermark
             <3>4. Fabric!MaxWatermark(S) = None \/ (Fabric!MaxWatermark(S) \in Nat /\ Fabric!MaxWatermark(S) \in S)
                   BY <1>s, <3>1, <3>2, <3>3
             <3> QED BY <3>4 DEF S
       <2> HIDE DEF max
       <2>4. NoteTypes'
             BY <1>0, <1>t, <2>1, <2>3 DEF NoteTypes
       <2>5. ~Succeeded(r) /\ \A q \in Run: Succeeded(q)' <=> Succeeded(q)
             BY <1>0, <2>1 DEF Report, Finished, Succeeded
       <2>6. cand'[r] = max /\ pc'[r] = "measured" /\ Sieve(r) /\ Report(r) /\ contract' = contract
             BY <1>0, <1>t, <2>1
       <2>7. Sieve(r)'
             BY <2>1, <2>6 DEF Sieve, Early
       <2>8. Reach(cand[r])'
             <3>1. CASE contract.stream
                   BY <1>0, <1>s, <2>1, <2>2, <2>3, <2>6, <3>1 DEF Reach
             <3>2. ASSUME ~contract.stream, max # None, NEW n \in 1..max
                   PROVE  n \in Accounted' \cup late'
                   <4>1. n \in 1..source /\ top[r] \in Nat
                         BY <1>s, <2>2, <2>3, <3>2
                   <4>2. 1..top[r] \subseteq wrote[r] \cup quarantined[r]
                         BY <2>1, <2>6, <3>2 DEF Report
                   <4>3. CASE n <= top[r]
                         BY <1>a, <4>1, <4>2, <4>3 DEF Accounted
                   <4>4. CASE n > top[r]
                         BY <1>s, <2>1, <3>2, <4>1, <4>4 DEF Fabric!Newcomers, Fabric!Arrived
                   <4> QED BY <4>1, <4>3, <4>4
             <3> QED BY <2>6, <3>1, <3>2 DEF Reach
       <2>9. Report(r)'
             BY <2>1, <2>5, <2>6, <2>8 DEF Report
       <2>10. \A q \in Run \ {r}: UNCHANGED <<cand[q], pc[q]>>
              BY <1>0, <1>t, <2>1
       <2> QED BY <1>1, <1>s, <2>1, <2>4, <2>5, <2>7, <2>9, <2>10
<1>11. ASSUME NEW r \in Run, Fabric!LogSuccess(r)
       PROVE  NoteInv'
       <2>1. /\ UNCHANGED <<source, wrote, quarantined, bookmark, staged, reads, low, top, step, applied, cand,
                            stateLog, late>>
             /\ pc[r] = "stated" /\ pc' = [pc EXCEPT ![r] = "logged"]
             /\ runLog' = runLog \cup {[run |-> r, status |-> "SUCCESS", part |-> 0]}
             BY <1>11 DEF Fabric!LogSuccess, Fabric!Goto, Fabric!LogRun
       <2>2. NoteTypes'
             BY <1>0, <1>t, <2>1 DEF NoteTypes
       <2>3. \A q \in Run \ {r}: (Succeeded(q)' <=> Succeeded(q)) /\ pc'[q] = pc[q]
             BY <1>0, <2>1 DEF Succeeded
       <2>4. pc'[r] = "logged" /\ Sieve(r) /\ Report(r) /\ contract' = contract
             BY <1>0, <2>1
       <2>5. Sieve(r)'
             BY <2>1, <2>4 DEF Sieve, Early
       <2>6. Report(r)'
             BY <1>l, <2>1, <2>4 DEF Report, Finished
       <2> QED BY <1>1, <1>s, <2>1, <2>2, <2>3, <2>5, <2>6
\* The state row.
<1>12. ASSUME NEW r \in Run, Fabric!RecordState(r)
       PROVE  NoteInv'
       <2> DEFINE new == [run |-> r, status |-> "SUCCESS", watermark |-> cand[r]]
       <2>1. /\ UNCHANGED <<source, wrote, quarantined, bookmark, staged, reads, low, top, step, applied, cand,
                            runLog, late>>
             /\ pc[r] = "measured" /\ pc' = [pc EXCEPT ![r] = "stated"]
             /\ stateLog' = Append(stateLog, new)
             BY <1>12 DEF Fabric!RecordState, Fabric!Goto, Fabric!AppendState
       <2>2. new \in SomeState /\ new.run = r /\ new.status = "SUCCESS" /\ new.watermark = cand[r]
             BY <1>t DEF SomeState, Status
       <2> HIDE DEF new
       <2>3. /\ stateLog' \in Seq(SomeState) /\ Len(stateLog') = Len(stateLog) + 1 /\ Len(stateLog) \in Nat
             /\ \A i \in 1..Len(stateLog): stateLog'[i] = stateLog[i]
             /\ stateLog'[Len(stateLog) + 1] = new
             /\ \A i \in Successes(Len(stateLog)): i \in Successes(Len(stateLog))' /\ stateLog'[i] = stateLog[i]
             /\ Len(stateLog) + 1 \in Successes(Len(stateLog))'
             BY <1>t, <2>1, <2>2, StateGrows
       <2>4. NoteTypes'
             BY <1>0, <1>t, <2>1, <2>3 DEF NoteTypes
       <2>5. /\ Accounted' = Accounted /\ \A w: Reach(w)' <=> Reach(w)
             /\ \A q \in Run: Succeeded(q)' <=> Succeeded(q)
             BY <1>0, <2>1 DEF Accounted, Reach, Succeeded
       <2>6. pc'[r] = "stated" /\ Sieve(r) /\ Report(r) /\ contract' = contract
             BY <1>0, <2>1
       <2>7. \A q: (\E i \in Successes(Len(stateLog)): stateLog[i].run = q)
                   => (\E i \in Successes(Len(stateLog)): stateLog[i].run = q)'
             BY <2>3
       <2>8. ASSUME NEW q \in Run
             PROVE  Sieve(q)' /\ Report(q)'
             <3>1. CASE q = r
                   <4>1. Sieve(r)'
                         BY <2>1, <2>6 DEF Sieve, Early
                   <4>2. \E i \in Successes(Len(stateLog))': stateLog'[i].run = r
                         BY <2>2, <2>3
                   <4>3. Report(r)'
                         BY <2>1, <2>5, <2>6, <4>2 DEF Report, Finished
                   <4> QED BY <3>1, <4>1, <4>3
             <3>2. CASE q # r
                   <4>1. pc'[q] = pc[q] /\ Sieve(q) /\ Report(q) /\ top[q] \in Nat
                         BY <1>0, <1>s, <2>1, <3>2
                   <4>2. Fabric!Newcomers(q)' = Fabric!Newcomers(q) /\ Fabric!Df(q)' = Fabric!Df(q)
                         BY <1>0, <2>1 DEF Fabric!Newcomers, Fabric!Arrived, Fabric!Df, Fabric!View, Fabric!Filtered
                   <4>3. Sieve(q)'
                         BY <1>0, <2>1, <4>1, <4>2, SieveRests
                   <4>4. Report(q)'
                         <5>1. /\ (\E i \in Successes(Len(stateLog)): stateLog[i].run = q)
                                  => (\E i \in Successes(Len(stateLog)): stateLog[i].run = q)'
                               /\ Reach(cand[q]) => Reach(cand[q])'
                               BY <2>1, <2>5, <2>7 DEF Reach
                         <5>2. source \in Nat /\ source' = source /\ (Succeeded(q)' <=> Succeeded(q))
                               BY <1>s, <2>1, <2>5
                         <5>3. /\ UNCHANGED <<quarantined[q], wrote[q], low[q], top[q], pc[q], cand[q]>>
                               /\ source' \in Nat /\ source <= source'
                               BY <2>1, <4>1, <5>2
                         <5> QED BY <1>0, <4>1, <5>1, <5>2, <5>3, ReportRests
                   <4> QED BY <4>3, <4>4
             <3> QED BY <3>1, <3>2
       <2>9. ASSUME NEW i \in 1..Len(stateLog')
             PROVE  Reach(stateLog'[i].watermark)
             <3>1. CASE i = Len(stateLog) + 1
                   BY <2>1, <2>2, <2>3, <2>6, <3>1 DEF Report
             <3>2. CASE i \in 1..Len(stateLog)
                   BY <1>0, <2>3, <3>2
             <3> QED BY <2>3, <3>1, <3>2
       <2> QED BY <1>0, <2>4, <2>5, <2>8, <2>9 DEF NoteInv
<1> QED BY <1>2, <1>3, <1>4, <1>5, <1>6, <1>7, <1>8, <1>9, <1>10, <1>11, <1>12 DEF Fabric!Next

-----------------------------------------------------------------------------
(* What the jobs of AWS write, and what they say of it *)

\* The row fails a rule that is there to keep it out of the target.
Barred(i) == i \in DOMAIN contract.rules /\ contract.rules[i].severity # "warn"
Fails(n) == \E i \in DOMAIN contract.rules: Barred(i) /\ n \in contract.rules[i].bad

\* The rows that a run works on, those that its rules have left of them, and
\* those that it has done with before.
Piecework(r) == IF contract.stream THEN Planned ELSE Files(r)
Left(r) == Piecework(r) \ Refused(applied[r], Piecework(r))
Behind == IF contract.stream THEN 1..bookmark ELSE {}

\* What is written fails no such rule and is not in quarantine; and of the rows
\* that a run is to write, none fails a rule that the run has passed.
JobSieve(r) ==
    /\ wrote[r] \cap quarantined[r] = {}
    /\ \A n \in wrote[r]: ~Fails(n)
    /\ pc[r] \in {"idle", "streaming", "gate", "sift", "clean"} => wrote[r] \subseteq Behind
    /\ pc[r] \in {"idle", "streaming", "gate", "sift"} => quarantined[r] \subseteq Behind
    /\ pc[r] = "clean" => quarantined[r] \subseteq Behind \cup Refused(applied[r], Piecework(r))
    /\ contract.stream /\ pc[r] = "written" => wrote[r] \cup quarantined[r] \subseteq Behind \cup Planned
    /\ (~contract.stream /\ pc[r] = "idle") \/ pc[r] \in {"gate", "sift"} => step[r] = 1
    /\ pc[r] = "sift" =>
          \A i \in Glue!RulesOf("abort"): Piecework(r) \cap contract.rules[i].bad = {}
    /\ pc[r] = "clean" =>
          \A i \in DOMAIN contract.rules:
             Barred(i) /\ (contract.rules[i].expression => i < step[r])
             => Left(r) \cap contract.rules[i].bad = {}

\* What a run has accounted for, and its rows in the logs.
JobReport(r) ==
    /\ contract.stream /\ pc[r] \in {"streaming", "gate", "sift", "clean", "written"} =>
          (low[r] + 1)..bookmark \subseteq wrote[r] \cup quarantined[r]
    /\ pc[r] \in {"committed", "stated"} \/ Succeeded(r) => Files(r) \subseteq wrote[r] \cup quarantined[r]
    /\ pc[r] = "committed" => top[r] <= bookmark
    /\ (pc[r] = "stated" /\ (contract.stream \/ top[r] # low[r])) \/ Succeeded(r) =>
          \E i \in Successes(Len(stateLog)): stateLog[i].run = r
    /\ Succeeded(r) => pc[r] = "done"

\* A watermark is that of a batch job, and within its bookmark.
Within(w, position, stream) == w # None => w <= position /\ ~stream

JobNotes ==
    platform = "aws" =>
        /\ contract \in Contract /\ step \in [Run -> Nat]
        /\ cand \in [Run -> Nat \cup {None}] /\ stateLog \in Seq(SomeState)
        /\ \A r \in Run: JobSieve(r) /\ JobReport(r)
        /\ \A i \in 1..Len(stateLog): Within(stateLog[i].watermark, bookmark, contract.stream)

LEMMA JobNotesRest ==
    ASSUME NEW q \in Run, JobSieve(q), JobReport(q), contract' = contract,
           UNCHANGED <<quarantined[q], wrote[q], low[q], top[q], pc[q], applied[q], step[q]>>,
           top[q] \in Nat, bookmark \in Nat, bookmark' \in Nat, bookmark <= bookmark',
           UNCHANGED <<bookmark, planned>> \/ pc[q] \in Resting,
           Succeeded(q)' <=> Succeeded(q),
           (\E i \in Successes(Len(stateLog)): stateLog[i].run = q)
           => (\E i \in Successes(Len(stateLog)): stateLog[i].run = q)'
    PROVE  JobSieve(q)' /\ JobReport(q)'
<1>1. /\ \A n: Fails(n)' <=> Fails(n)
      /\ \A i: Barred(i)' <=> Barred(i)
      /\ \A rules, rows: Refused(rules, rows)' = Refused(rules, rows)
      /\ \A s: Glue!RulesOf(s)' = Glue!RulesOf(s)
      BY DEF Fails, Barred, Refused, Glue!RulesOf
<1>2. Files(q)' = Files(q) /\ (UNCHANGED <<bookmark, planned>> => Planned' = Planned)
      BY DEF Files, Planned
<1>3. JobSieve(q)'
      <2>1. Behind \subseteq Behind'
            BY DEF Behind
      <2>2. CASE UNCHANGED <<bookmark, planned>>
            <3>1. Piecework(q)' = Piecework(q) /\ Left(q)' = Left(q) /\ Behind' = Behind
                  BY <1>1, <1>2, <2>2 DEF Piecework, Left, Behind
            <3> QED BY <1>1, <1>2, <2>2, <3>1 DEF JobSieve
      <2>3. CASE pc[q] \in Resting
            BY <1>1, <2>1, <2>3 DEF JobSieve, Resting
      <2> QED BY <2>2, <2>3
<1>4. JobReport(q)'
      BY <1>2 DEF JobReport, Resting
<1> QED BY <1>3, <1>4

\* What a step of one run leaves to show.
LEMMA JobNotesMove ==
    ASSUME Shape, Shape', platform = "aws", JobNotes, platform' = platform, contract' = contract,
           NEW r \in Run, bookmark <= bookmark',
           \A q \in Run \ {r}:
              UNCHANGED <<quarantined[q], wrote[q], low[q], top[q], pc[q], applied[q], step[q]>>,
           UNCHANGED <<bookmark, planned>> \/ \A q \in Run \ {r}: pc[q] \in Resting,
           \A q \in Run \ {r}: Succeeded(q)' <=> Succeeded(q),
           \/ stateLog' = stateLog
           \/ \E x \in SomeState: stateLog' = Append(stateLog, x) /\ Within(x.watermark, bookmark', contract.stream),
           cand' \in [Run -> Nat \cup {None}], step' \in [Run -> Nat],
           JobSieve(r)', JobReport(r)'
    PROVE  JobNotes'
<1>0. /\ stateLog \in Seq(SomeState) /\ \A q \in Run: JobSieve(q) /\ JobReport(q)
      /\ \A i \in 1..Len(stateLog): Within(stateLog[i].watermark, bookmark, contract.stream)
      /\ bookmark \in Nat /\ bookmark' \in Nat /\ contract \in Contract
      BY DEF JobNotes, Shape
<1>1. ASSUME NEW x \in SomeState, stateLog' = Append(stateLog, x)
      PROVE  /\ stateLog' \in Seq(SomeState) /\ Len(stateLog') = Len(stateLog) + 1 /\ Len(stateLog) \in Nat
             /\ \A i \in 1..Len(stateLog): stateLog'[i] = stateLog[i]
             /\ stateLog'[Len(stateLog) + 1] = x
             /\ \A i \in Successes(Len(stateLog)): i \in Successes(Len(stateLog))' /\ stateLog'[i] = stateLog[i]
      BY <1>0, <1>1, StateGrows
<1>2. \A q: (\E i \in Successes(Len(stateLog)): stateLog[i].run = q)
            => (\E i \in Successes(Len(stateLog)): stateLog[i].run = q)'
      <2>1. CASE stateLog' = stateLog
            BY <2>1 DEF Successes
      <2>2. ASSUME NEW x \in SomeState, stateLog' = Append(stateLog, x)
            PROVE  \A q: (\E i \in Successes(Len(stateLog)): stateLog[i].run = q)
                         => (\E i \in Successes(Len(stateLog)): stateLog[i].run = q)'
            BY <1>1, <2>2
      <2> QED BY <2>1, <2>2
<1>3. ASSUME NEW q \in Run \ {r}
      PROVE  JobSieve(q)' /\ JobReport(q)'
      <2>1. /\ UNCHANGED <<quarantined[q], wrote[q], low[q], top[q], pc[q], applied[q], step[q]>>
            /\ UNCHANGED <<bookmark, planned>> \/ pc[q] \in Resting
            /\ Succeeded(q)' <=> Succeeded(q)
            /\ top[q] \in Nat
            BY DEF Shape
      <2>2. (\E i \in Successes(Len(stateLog)): stateLog[i].run = q)
            => (\E i \in Successes(Len(stateLog)): stateLog[i].run = q)'
            BY <1>2
      <2> QED BY <1>0, <2>1, <2>2, JobNotesRest
<1>4. ASSUME NEW w \in Nat \cup {None}, Within(w, bookmark, contract.stream)
      PROVE  Within(w, bookmark', contract.stream)
      BY <1>0, <1>4 DEF Within
<1>5. \A i \in 1..Len(stateLog): stateLog[i].watermark \in Nat \cup {None}
      <2>1. ASSUME NEW i \in 1..Len(stateLog)
            PROVE  stateLog[i] \in SomeState
            <3> HIDE DEF SomeState
            <3> QED BY <1>0
      <2> QED BY <2>1 DEF SomeState
<1>6. stateLog' \in Seq(SomeState) /\ \A i \in 1..Len(stateLog'): Within(stateLog'[i].watermark, bookmark', contract.stream)
      <2>1. CASE stateLog' = stateLog
            BY <1>0, <1>4, <1>5, <2>1
      <2>2. ASSUME NEW x \in SomeState, stateLog' = Append(stateLog, x), Within(x.watermark, bookmark', contract.stream)
            PROVE  stateLog' \in Seq(SomeState) /\ \A i \in 1..Len(stateLog'): Within(stateLog'[i].watermark, bookmark', contract.stream)
            <3>1. ASSUME NEW i \in 1..Len(stateLog')
                  PROVE  Within(stateLog'[i].watermark, bookmark', contract.stream)
                  <4>1. CASE i \in 1..Len(stateLog)
                        <5>1. stateLog[i].watermark \in Nat \cup {None} /\ Within(stateLog[i].watermark, bookmark, contract.stream)
                              BY <1>0, <1>5, <4>1
                        <5>2. stateLog'[i] = stateLog[i]
                              BY <1>1, <2>2, <4>1
                        <5> QED BY <1>4, <5>1, <5>2
                  <4>2. CASE i = Len(stateLog) + 1
                        BY <1>1, <2>2, <4>2
                  <4> QED BY <1>1, <2>2, <4>1, <4>2
            <3> QED BY <1>1, <2>2, <3>1
      <2> QED BY <2>1, <2>2
<1> QED BY <1>0, <1>3, <1>6 DEF JobNotes

LEMMA JobNotesArrive ==
    ASSUME Shape, platform = "aws", JobNotes,
           UNCHANGED <<platform, contract, wrote, quarantined, bookmark, planned, low, top, cand, pc, applied, step,
                       stateLog, runLog>>
    PROVE  JobNotes'
<1>1. /\ \A n: Fails(n)' <=> Fails(n)
      /\ \A i: Barred(i)' <=> Barred(i)
      /\ \A s: Glue!RulesOf(s)' = Glue!RulesOf(s)
      /\ \A q: Piecework(q)' = Piecework(q) /\ Left(q)' = Left(q)
      /\ \A rules, rows: Refused(rules, rows)' = Refused(rules, rows)
      /\ Behind' = Behind
      /\ \A q: Succeeded(q)' <=> Succeeded(q)
      /\ \A q: Files(q)' = Files(q)
      /\ \A n: Successes(n)' = Successes(n)
      /\ Planned' = Planned
      BY DEF Fails, Barred, Glue!RulesOf, Piecework, Left, Refused, Behind, Files, Planned, Succeeded, Successes
<1>2. ASSUME NEW q \in Run
      PROVE  JobSieve(q)' /\ JobReport(q)'
      <2>1. JobSieve(q) /\ JobReport(q)
            BY DEF JobNotes
      <2> QED BY <1>1, <2>1 DEF JobSieve, JobReport
<1> QED BY <1>1, <1>2 DEF JobNotes

\* The rules of a contract are numbered from one, and are of the severities.
LEMMA RulesAreRules ==
    ASSUME contract \in Contract
    PROVE  \A i \in DOMAIN contract.rules:
              /\ i \in Nat \ {0} /\ contract.rules[i].severity \in Severity
              /\ contract.rules[i].expression \in BOOLEAN
<1>1. contract.rules \in Seq(Rule)
      BY DEF Contract
<1>2. ASSUME NEW i \in DOMAIN contract.rules
      PROVE  i \in Nat \ {0} /\ contract.rules[i] \in Rule
      BY <1>1
<1> QED BY <1>2 DEF Rule

\* The step from the rules of Glue Data Quality to the expressions.
LEMMA RulesPassed ==
    ASSUME NEW r \in Run, contract \in Contract, JobSieve(r), pc[r] = "sift", applied[r] = {},
           contract' = contract, pc'[r] = "clean",
           UNCHANGED <<wrote, bookmark, planned, low, top, step>>,
           applied'[r] = Glue!RulesOf("quarantine"),
           quarantined'[r] = quarantined[r] \cup Refused(Glue!RulesOf("quarantine"), Piecework(r)),
           bookmark \in Nat
    PROVE  JobSieve(r)'
<1> DEFINE Q == Glue!RulesOf("quarantine")
<1>1. /\ \A n: Fails(n)' <=> Fails(n)
      /\ \A i: Barred(i)' <=> Barred(i)
      /\ \A rules, rows: Refused(rules, rows)' = Refused(rules, rows)
      /\ Piecework(r)' = Piecework(r) /\ Behind' = Behind
      BY DEF Fails, Barred, Refused, Piecework, Behind, Planned, Files
<1>2. Left(r)' = Piecework(r) \ Refused(Q, Piecework(r))
      BY <1>1 DEF Left
<1>3. Refused(Q, Piecework(r)) \subseteq Piecework(r) /\ (Behind \cap Piecework(r) = {} \/ ~contract.stream)
      BY DEF Refused, Behind, Piecework, Planned
<1>4. wrote[r] \subseteq Behind /\ quarantined[r] \subseteq Behind /\ wrote[r] \cap quarantined[r] = {}
      /\ step[r] = 1 /\ \A n \in wrote[r]: ~Fails(n)
      BY DEF JobSieve
<1>5. wrote[r] \cap quarantined'[r] = {}
      <2>1. CASE contract.stream
            BY <1>3, <1>4, <2>1
      <2>2. CASE ~contract.stream
            BY <1>4, <2>2 DEF Behind
      <2> QED BY <2>1, <2>2
<1>6. ASSUME NEW i \in DOMAIN contract.rules, Barred(i), contract.rules[i].expression => i < 1
      PROVE  Left(r)' \cap contract.rules[i].bad = {}
      <2>1. ~contract.rules[i].expression /\ contract.rules[i].severity \in {"abort", "quarantine"}
            BY <1>6, RulesAreRules DEF Barred, Severity
      <2>2. CASE contract.rules[i].severity = "quarantine"
            <3>1. i \in Q
                  BY <2>1, <2>2 DEF Glue!RulesOf
            <3> HIDE DEF Q
            <3> QED BY <1>2, <3>1 DEF Refused
      <2>3. CASE contract.rules[i].severity = "abort"
            <3>1. i \in Glue!RulesOf("abort")
                  BY <2>1, <2>3 DEF Glue!RulesOf
            <3>2. Piecework(r) \cap contract.rules[i].bad = {}
                  BY <3>1 DEF JobSieve
            <3> QED BY <1>2, <3>2
      <2> QED BY <2>1, <2>2, <2>3
<1> HIDE DEF Q
<1>7. /\ wrote'[r] = wrote[r] /\ step'[r] = 1
      /\ applied'[r] = Q /\ quarantined'[r] = quarantined[r] \cup Refused(Q, Piecework(r))
      BY <1>4 DEF Q
<1> QED BY <1>1, <1>4, <1>5, <1>6, <1>7 DEF JobSieve

\* The step over an expression.
LEMMA ExpressionPassed ==
    ASSUME NEW r \in Run, contract \in Contract, JobSieve(r), pc[r] = "clean", step \in [Run -> Nat],
           contract' = contract, bookmark \in Nat,
           UNCHANGED <<wrote, bookmark, planned, low, top>>,
           NEW i \in Nat, i >= step[r], i \in DOMAIN contract.rules, step'[r] = i + 1,
           \A j \in DOMAIN contract.rules: j >= step[r] /\ contract.rules[j].expression => i <= j,
           \/ /\ contract.rules[i].severity = "quarantine"
              /\ applied'[r] = applied[r] \cup {i}
              /\ quarantined'[r] = quarantined[r] \cup (Left(r) \cap contract.rules[i].bad)
           \/ /\ contract.rules[i].severity # "quarantine"
              /\ UNCHANGED <<applied[r], quarantined[r]>>,
           \/ pc'[r] = "failing"
           \/ /\ pc'[r] = "clean"
              /\ contract.rules[i].severity = "abort" => Left(r) \cap contract.rules[i].bad = {}
    PROVE  JobSieve(r)'
<1>1. /\ \A n: Fails(n)' <=> Fails(n)
      /\ \A j: Barred(j)' <=> Barred(j)
      /\ \A rules, rows: Refused(rules, rows)' = Refused(rules, rows)
      /\ Piecework(r)' = Piecework(r) /\ Behind' = Behind
      BY DEF Fails, Barred, Refused, Piecework, Behind, Planned, Files
<1>2. /\ Left(r) \subseteq Piecework(r) /\ Left(r)' \subseteq Left(r)
      /\ contract.rules[i].severity = "quarantine" => Left(r)' = Left(r) \ contract.rules[i].bad
      BY <1>1 DEF Left, Refused
<1>3. Behind \cap Piecework(r) = {} \/ Behind = {}
      BY DEF Behind, Piecework, Planned
<1>4. wrote[r] \subseteq Behind /\ wrote[r] \cap quarantined[r] = {} /\ \A n \in wrote[r]: ~Fails(n)
      BY DEF JobSieve
<1>5. wrote[r] \cap quarantined'[r] = {}
      BY <1>2, <1>3, <1>4
<1>6. quarantined'[r] \subseteq Behind \cup Refused(applied'[r], Piecework(r))
      <2>1. quarantined[r] \subseteq Behind \cup Refused(applied[r], Piecework(r))
            BY DEF JobSieve
      <2>2. applied[r] \subseteq applied'[r]
            OBVIOUS
      <2>3. Refused(applied[r], Piecework(r)) \subseteq Refused(applied'[r], Piecework(r))
            BY <2>2 DEF Refused
      <2>4. i \in applied'[r] => Left(r) \cap contract.rules[i].bad \subseteq Refused(applied'[r], Piecework(r))
            BY <1>2 DEF Refused
      <2> QED BY <2>1, <2>3, <2>4
<1>7. ASSUME pc'[r] = "clean", NEW j \in DOMAIN contract.rules, Barred(j),
             contract.rules[j].expression => j < i + 1
      PROVE  Left(r)' \cap contract.rules[j].bad = {}
      <2>0. j \in Nat /\ contract.rules[j].severity \in {"abort", "quarantine"} /\ step[r] \in Nat
            BY <1>7, RulesAreRules DEF Barred, Severity
      <2>1. CASE contract.rules[j].expression => j < step[r]
            <3>1. Left(r) \cap contract.rules[j].bad = {}
                  BY <1>7, <2>1 DEF JobSieve
            <3> QED BY <1>2, <3>1
      <2>2. CASE ~(contract.rules[j].expression => j < step[r])
            <3>1. contract.rules[j].expression /\ j >= step[r]
                  BY <2>0, <2>2, RulesAreRules
            <3>2. i <= j
                  BY <3>1
            <3>3. j = i
                  BY <1>7, <2>0, <3>1, <3>2
            <3> QED BY <1>2, <1>7, <2>0, <3>3
      <2> QED BY <2>1, <2>2
<1>8. wrote'[r] = wrote[r]
      OBVIOUS
<1>9. CASE pc'[r] = "failing"
      BY <1>1, <1>4, <1>5, <1>8, <1>9 DEF JobSieve
<1>10. CASE pc'[r] = "clean"
      <2>1. \A j \in DOMAIN contract.rules:
               Barred(j) /\ (contract.rules[j].expression => j < i + 1) => Left(r)' \cap contract.rules[j].bad = {}
            BY <1>7, <1>10
      <2> QED BY <1>1, <1>4, <1>5, <1>6, <1>8, <1>10, <2>1 DEF JobSieve
<1> QED BY <1>9, <1>10

\* What is left at the write has passed every rule.
LEMMA LeftIsClean ==
    ASSUME NEW r \in Run, contract \in Contract, JobSieve(r), pc[r] = "clean", step[r] \in Nat, bookmark \in Nat,
           \A i \in DOMAIN contract.rules: i >= step[r] => ~contract.rules[i].expression
    PROVE  /\ \A n \in Left(r): ~Fails(n)
           /\ (wrote[r] \cup Left(r)) \cap quarantined[r] = {}
           /\ wrote[r] \cup Left(r) \cup quarantined[r] \subseteq Behind \cup Piecework(r)
<1>1. ASSUME NEW n \in Left(r), NEW i \in DOMAIN contract.rules, Barred(i), n \in contract.rules[i].bad
      PROVE  FALSE
      <2>1. contract.rules[i].expression => i < step[r]
            BY RulesAreRules
      <2>2. Left(r) \cap contract.rules[i].bad = {}
            BY <1>1, <2>1 DEF JobSieve
      <2> QED BY <1>1, <2>2
<1>2. Behind \cap Left(r) = {} \/ Behind = {}
      BY DEF Behind, Left, Piecework, Planned
<1>3. Left(r) \cap Refused(applied[r], Piecework(r)) = {} /\ Left(r) \subseteq Piecework(r)
      /\ Refused(applied[r], Piecework(r)) \subseteq Piecework(r)
      BY DEF Left, Refused
<1> QED BY <1>1, <1>2, <1>3 DEF JobSieve, Fails

\* A batch job.
LEMMA JobNotesStep ==
    ASSUME Shape, Unwritten, JobInv, Batch, JobNotes, Glue!Next
    PROVE  JobNotes'
<1> USE DEF Glue!data, Glue!given, Glue!control, Glue!locking, Glue!progress, Glue!locals, given
<1>0. /\ Shape' /\ Grows /\ Passes /\ contract' = contract /\ platform' = platform /\ platform = "aws"
      /\ ~contract.stream
      /\ OneAtATime /\ \A q \in Run: Job(q)
      /\ contract \in Contract /\ step \in [Run -> Nat] /\ cand \in [Run -> Nat \cup {None}] /\ stateLog \in Seq(SomeState)
      /\ \A q \in Run: JobSieve(q) /\ JobReport(q)
      BY JobStep DEF Batch, JobInv, JobNotes
<1>s. /\ source \in Nat /\ bookmark \in Nat /\ top \in [Run -> Nat] /\ low \in [Run -> Nat]
      /\ wrote = [q \in Run |-> wrote[q]] /\ quarantined = [q \in Run |-> quarantined[q]]
      /\ applied = [q \in Run |-> applied[q]] /\ pc = [q \in Run |-> pc[q]]
      BY <1>0 DEF Shape
<1>b. bookmark <= bookmark'
      BY <1>0, <1>s DEF Passes
<1>m. ASSUME NEW r \in Run,
             \A q \in Run \ {r}:
                UNCHANGED <<quarantined[q], wrote[q], low[q], top[q], pc[q], applied[q], step[q]>>,
             step' \in [Run -> Nat],
             UNCHANGED <<bookmark, planned>> \/ pc[r] \notin Resting,
             \A q \in Run \ {r}: Succeeded(q)' <=> Succeeded(q),
             \/ stateLog' = stateLog
             \/ \E x \in SomeState: stateLog' = Append(stateLog, x) /\ Within(x.watermark, bookmark', contract.stream),
             cand' \in [Run -> Nat \cup {None}],
             JobSieve(r)', JobReport(r)'
      PROVE  JobNotes'
      <2>1. UNCHANGED <<bookmark, planned>> \/ \A q \in Run \ {r}: pc[q] \in Resting
            BY <1>0, <1>m DEF OneAtATime
      <2> QED BY <1>0, <1>b, <1>m, <2>1, JobNotesMove
<1>f. /\ \A n: Fails(n)' <=> Fails(n)
      /\ \A i: Barred(i)' <=> Barred(i)
      /\ \A s: Glue!RulesOf(s)' = Glue!RulesOf(s)
      BY <1>0 DEF Fails, Barred, Glue!RulesOf
<1>1. ASSUME Glue!Arrive
      PROVE  JobNotes'
      BY <1>0, <1>1, JobNotesArrive DEF Glue!Arrive
<1>2. ASSUME NEW r \in Run, Glue!Read(r)
      PROVE  JobNotes'
      <2>1. /\ pc[r] = "idle"
            /\ low' = [low EXCEPT ![r] = bookmark] /\ top' = [top EXCEPT ![r] = source]
            /\ pc' = [pc EXCEPT ![r] = pc'[r]] /\ pc'[r] \in {"written", "gate"}
            /\ UNCHANGED <<wrote, quarantined, bookmark, planned, applied, step, stateLog, runLog, cand>>
            BY <1>2, <1>s DEF Glue!Read, Glue!Goto
      <2>2. ~Succeeded(r) /\ \A q: Succeeded(q)' <=> Succeeded(q)
            BY <1>0, <2>1 DEF JobReport, Succeeded
      <2>3. JobSieve(r)' /\ JobReport(r)'
            BY <1>0, <1>f, <2>1, <2>2 DEF JobSieve, JobReport, Behind
      <2>4. \A q \in Run \ {r}: UNCHANGED <<low[q], top[q], pc[q]>>
            BY <1>s, <2>1
      <2> QED BY <1>0, <1>m, <2>1, <2>2, <2>3, <2>4
\* Steps that take one run to another position, or log a failure.
<1>3. ASSUME NEW r \in Run, Glue!CheckAbort(r) \/ Glue!Raise(r) \/ Glue!LogFailure(r) \/ Glue!Crash(r)
      PROVE  JobNotes'
      <2>1. /\ UNCHANGED <<wrote, quarantined, bookmark, planned, low, top, applied, step, stateLog, cand>>
            /\ pc' = [pc EXCEPT ![r] = pc'[r]] /\ pc[r] # "done"
            /\ pc'[r] \in {"sift", "failing", "done", "crashed"} /\ (pc'[r] = "sift" => pc[r] = "gate")
            /\ runLog' = runLog \/ runLog' = runLog \cup {[run |-> r, status |-> "FAILED", part |-> 0]}
            BY <1>3, <1>s DEF Glue!CheckAbort, Glue!Raise, Glue!LogFailure, Glue!Crash, Glue!Goto, Glue!LogRun
      <2>2. ~Succeeded(r) /\ \A q: Succeeded(q)' <=> Succeeded(q)
            BY <1>0, <2>1 DEF JobReport, Succeeded
      <2>3. ASSUME pc'[r] = "sift", NEW i \in Glue!RulesOf("abort")
            PROVE  Files(r) \cap contract.rules[i].bad = {}
            <3>1. Glue!Offending(r, Glue!RulesOf("abort")) = {} /\ applied[r] = {}
                  BY <1>0, <1>3, <1>s, <2>1, <2>3 DEF Glue!CheckAbort, Glue!Raise, Glue!LogFailure, Glue!Crash,
                     Glue!Goto, Job
            <3>2. Files(r) = Glue!View(r, top[r])
                  BY <3>1 DEF Glue!View, Glue!Filtered, Files
            <3> QED BY <3>1, <3>2 DEF Glue!Offending
      <2>4. Files(r)' = Files(r) /\ Piecework(r) = Files(r) /\ Piecework(r)' = Files(r) /\ Behind' = Behind
            BY <1>0, <2>1 DEF Files, Piecework, Behind
      <2>5. JobSieve(r)'
            <3>1. CASE pc'[r] = "sift"
                  <4>1. \A i \in Glue!RulesOf("abort"): Files(r) \cap contract.rules[i].bad = {}
                        BY <2>3, <3>1
                  <4> QED BY <1>0, <1>f, <2>1, <2>4, <3>1, <4>1 DEF JobSieve
            <3>2. CASE pc'[r] # "sift"
                  BY <1>0, <1>f, <2>1, <3>2 DEF JobSieve
            <3> QED BY <3>1, <3>2
      <2>8. JobReport(r)'
            BY <1>0, <2>1, <2>2, <2>4 DEF JobReport
      <2>6. \A q \in Run \ {r}: UNCHANGED <<quarantined[q], wrote[q], low[q], top[q], pc[q]>>
            BY <1>s, <2>1
      <2> QED BY <1>0, <1>m, <2>1, <2>2, <2>5, <2>6, <2>8
<1>4. ASSUME NEW r \in Run, Glue!Quarantine(r)
      PROVE  JobNotes'
      <2> DEFINE Q == Glue!RulesOf("quarantine")
      <2>1. /\ pc[r] = "sift" /\ pc' = [pc EXCEPT ![r] = "clean"]
            /\ quarantined' = [quarantined EXCEPT ![r] = Glue!Offending(r, Q)]
            /\ applied' = [applied EXCEPT ![r] = Q]
            /\ UNCHANGED <<wrote, bookmark, planned, low, top, step, stateLog, runLog, cand>>
            BY <1>4 DEF Glue!Quarantine, Glue!Goto
      <2>2. ~Succeeded(r) /\ \A q: Succeeded(q)' <=> Succeeded(q)
            BY <1>0, <2>1 DEF JobReport, Succeeded
      <2>3. applied[r] = {} /\ quarantined[r] = {}
            BY <1>0, <2>1 DEF Job
      <2>4. Files(r)' = Files(r) /\ Piecework(r) = Files(r)
            BY <1>0, <2>1 DEF Files, Piecework
      <2>7. Glue!Offending(r, Q) = Refused(Q, Files(r))
            BY <2>3 DEF Glue!Offending, Glue!View, Glue!Filtered, Refused, Files
      <2>8. /\ applied'[r] = Q /\ quarantined'[r] = quarantined[r] \cup Refused(Q, Piecework(r))
            /\ pc'[r] = "clean" /\ \A q \in Run \ {r}: UNCHANGED <<quarantined[q], applied[q], pc[q]>>
            BY <1>s, <2>1, <2>3, <2>4, <2>7
      <2> HIDE DEF Q
      <2>9. JobSieve(r)'
            BY <1>0, <1>s, <2>1, <2>3, <2>8, RulesPassed DEF Q
      <2>5. JobReport(r)'
            BY <1>0, <2>1, <2>2, <2>4, <2>8 DEF JobReport
      <2> QED BY <1>0, <1>m, <2>1, <2>2, <2>5, <2>8, <2>9 DEF Resting
<1>5. ASSUME NEW r \in Run, Glue!Write(r)
      PROVE  JobNotes'
      <2>1. /\ pc[r] = "clean" /\ Glue!Pending(r) = {}
            /\ pc' = [pc EXCEPT ![r] = "written"]
            /\ wrote' = [wrote EXCEPT ![r] = Glue!View(r, top[r])]
            /\ UNCHANGED <<quarantined, bookmark, planned, low, top, applied, step, stateLog, runLog, cand>>
            BY <1>5 DEF Glue!Write, Glue!Goto
      <2>2. ~Succeeded(r) /\ \A q: Succeeded(q)' <=> Succeeded(q)
            BY <1>0, <2>1 DEF JobReport, Succeeded
      <2>3. wrote'[r] = Left(r)
            BY <1>0, <1>s, <2>1 DEF Left, Piecework, Files, Glue!View, Glue!Filtered, Refused
      <2>4. pc'[r] = "written"
            BY <1>s, <2>1
      <2>7. (\A n \in Left(r): ~Fails(n)) /\ (wrote[r] \cup Left(r)) \cap quarantined[r] = {}
            BY <1>0, <1>s, <2>1, LeftIsClean DEF Glue!Pending
      <2>8. JobSieve(r)'
            <3> HIDE DEF Left
            <3> QED BY <1>0, <1>f, <2>1, <2>3, <2>4, <2>7 DEF JobSieve
      <2>5. JobSieve(r)' /\ JobReport(r)'
            BY <1>0, <2>1, <2>2, <2>4, <2>8 DEF JobReport
      <2>6. \A q \in Run \ {r}: UNCHANGED <<wrote[q], pc[q]>>
            BY <1>s, <2>1
      <2> QED BY <1>0, <1>m, <2>1, <2>2, <2>5, <2>6
<1>6. ASSUME NEW r \in Run, Glue!Commit(r)
      PROVE  JobNotes'
      <2>1. /\ pc[r] = "written" /\ pc' = [pc EXCEPT ![r] = "committed"] /\ bookmark' = top[r]
            /\ UNCHANGED <<wrote, quarantined, low, top, applied, step, stateLog, runLog, cand>>
            BY <1>6 DEF Glue!Commit, Glue!Goto
      <2>2. ~Succeeded(r) /\ \A q: Succeeded(q)' <=> Succeeded(q)
            BY <1>0, <2>1 DEF JobReport, Succeeded
      <2>3. pc'[r] = "committed" /\ Files(r)' = Files(r) /\ Files(r) \subseteq wrote[r] \cup quarantined[r]
            BY <1>0, <1>s, <2>1 DEF Job, Files
      <2>4. top'[r] <= bookmark'
            BY <1>s, <2>1
      <2>5. JobSieve(r)' /\ JobReport(r)'
            BY <1>0, <1>f, <2>1, <2>2, <2>3, <2>4 DEF JobSieve, JobReport
      <2>6. \A q \in Run \ {r}: pc'[q] = pc[q]
            BY <1>s, <2>1
      <2> QED BY <1>0, <1>m, <2>1, <2>2, <2>5, <2>6 DEF Resting
<1>7. ASSUME NEW r \in Run, Glue!RecordState(r)
      PROVE  JobNotes'
      <2> DEFINE S == Glue!View(r, top[r])
                 max == Glue!MaxWatermark(S)
                 out == Glue!Outcome(r)
                 new == [run |-> r, status |-> out, watermark |-> max]
      <2>1. /\ pc[r] = "committed" /\ pc' = [pc EXCEPT ![r] = "stated"]
            /\ cand' = [cand EXCEPT ![r] = max]
            /\ stateLog' = Append(stateLog, [run |-> r, status |-> out, watermark |-> cand'[r]])
            /\ UNCHANGED <<wrote, quarantined, bookmark, planned, low, top, applied, step, runLog>>
            BY <1>7 DEF Glue!RecordState, Glue!Goto, Glue!AppendState
      <2>2. max = None \/ (max \in Nat /\ max <= top[r])
            <3>1. S \subseteq 0..top[r] /\ top[r] \in Nat
                  BY <1>s DEF Glue!View
            <3>2. S = {} => max = None
                  BY DEF Glue!MaxWatermark
            <3>3. S # {} => max = CHOOSE n \in S: \A m \in S: m <= n
                  BY DEF Glue!MaxWatermark
            <3> HIDE DEF S, max
            <3>4. S # {} => max \in S
                  BY <3>1, <3>3, Greatest
            <3>5. S # {} => max \in 0..top[r]
                  BY <3>1, <3>4
            <3>6. max \in 0..top[r] => max \in Nat /\ max <= top[r]
                  BY <3>1
            <3> QED BY <3>2, <3>5, <3>6
      <2>3. out \in {"SKIPPED", "SUCCESS"} /\ (top[r] # low[r] => out = "SUCCESS")
            BY DEF Glue!Outcome
      <2> HIDE DEF max, out
      <2>4. cand'[r] = max /\ cand' \in [Run -> Nat \cup {None}]
            BY <1>0, <2>1, <2>2
      <2>5. new \in SomeState /\ new.run = r /\ new.status = out /\ new.watermark = max
            BY <2>2, <2>3 DEF SomeState, Status
      <2>6. stateLog' = Append(stateLog, new)
            BY <2>1, <2>4
      <2> HIDE DEF new
      <2>7. Within(new.watermark, bookmark', contract.stream)
            <3>1. top[r] <= bookmark /\ bookmark' = bookmark
                  BY <1>0, <2>1 DEF JobReport
            <3>2. new.watermark = None \/ new.watermark <= bookmark'
                  BY <1>s, <2>2, <2>5, <3>1
            <3> QED BY <1>0, <3>2 DEF Within
      <2>8. ~Succeeded(r) /\ \A q: Succeeded(q)' <=> Succeeded(q)
            BY <1>0, <2>1 DEF JobReport, Succeeded
      <2>9. out = "SUCCESS" => (\E i \in Successes(Len(stateLog)): stateLog[i].run = r)'
            <3>1. /\ Len(stateLog') = Len(stateLog) + 1 /\ Len(stateLog) \in Nat
                  /\ stateLog'[Len(stateLog) + 1] = new
                  BY <1>0, <2>5, <2>6, StateGrows
            <3> QED BY <2>5, <3>1 DEF Successes
      <2>10. JobSieve(r)' /\ JobReport(r)'
            <3>1. pc'[r] = "stated" /\ Files(r)' = Files(r)
                  BY <1>s, <2>1 DEF Files
            <3>2. top'[r] # low'[r] => (\E i \in Successes(Len(stateLog)): stateLog[i].run = r)'
                  BY <2>1, <2>3, <2>9
            <3>3. JobSieve(r)'
                  BY <1>0, <1>f, <2>1, <3>1 DEF JobSieve
            <3>4. (Files(r) \subseteq wrote[r] \cup quarantined[r])'
                  BY <1>0, <2>1, <3>1 DEF JobReport
            <3> QED BY <1>0, <2>8, <3>1, <3>2, <3>3, <3>4 DEF JobReport
      <2>11. \A q \in Run \ {r}: pc'[q] = pc[q]
            BY <1>s, <2>1
      <2> QED BY <1>0, <1>m, <2>1, <2>4, <2>5, <2>6, <2>7, <2>8, <2>10, <2>11
<1>8. ASSUME NEW r \in Run, Glue!LogOutcome(r)
      PROVE  JobNotes'
      <2>1. /\ pc[r] = "stated" /\ pc' = [pc EXCEPT ![r] = "done"]
            /\ runLog' = runLog \cup {[run |-> r, status |-> Glue!Outcome(r), part |-> 0]}
            /\ UNCHANGED <<wrote, quarantined, bookmark, planned, low, top, applied, step, cand, stateLog>>
            BY <1>8 DEF Glue!LogOutcome, Glue!Goto, Glue!LogRun
      <2>2. \A q \in Run \ {r}: (Succeeded(q)' <=> Succeeded(q)) /\ pc'[q] = pc[q]
            BY <1>s, <2>1 DEF Succeeded
      <2>3. Succeeded(r)' => top[r] # low[r]
            BY <1>0, <2>1 DEF Succeeded, Glue!Outcome, JobReport
      <2>4. pc'[r] = "done" /\ Files(r)' = Files(r)
            BY <1>s, <2>1 DEF Files
      <2>5. \A n: Successes(n)' = Successes(n)
            BY <2>1 DEF Successes
      <2>6. JobSieve(r)' /\ JobReport(r)'
            BY <1>0, <1>f, <2>1, <2>3, <2>4, <2>5 DEF JobSieve, JobReport
      <2> QED BY <1>0, <1>m, <2>1, <2>2, <2>6
<1>9. ASSUME NEW r \in Run, Glue!Evaluate(r)
      PROVE  JobNotes'
      <2>0. /\ pc[r] = "clean" /\ pc' = [pc EXCEPT ![r] = pc'[r]] /\ pc'[r] \in {"clean", "failing"}
            /\ UNCHANGED <<wrote, bookmark, planned, low, top, stateLog, runLog, cand>>
            BY <1>9, <1>s DEF Glue!Evaluate, Glue!Goto
      <2>1. PICK i \in Glue!Pending(r):
               /\ \A j \in Glue!Pending(r): i <= j
               /\ step' = [step EXCEPT ![r] = i + 1]
               /\ pc'[r] = "clean" => (contract.rules[i].severity = "abort" => Glue!Offending(r, {i}) = {})
               /\ IF contract.rules[i].severity = "quarantine"
                  THEN /\ quarantined' = [quarantined EXCEPT ![r] = @ \cup Glue!Offending(r, {i})]
                       /\ applied' = [applied EXCEPT ![r] = @ \cup {i}]
                  ELSE UNCHANGED <<quarantined, applied>>
            BY <1>9, <1>s DEF Glue!Evaluate, Glue!Goto
      <2>2. /\ i \in DOMAIN contract.rules /\ i >= step[r] /\ i \in Nat
            /\ \A j \in DOMAIN contract.rules: j >= step[r] /\ contract.rules[j].expression => i <= j
            BY <1>0, <2>1, RulesAreRules DEF Glue!Pending
      <2>3. Piecework(r) = Files(r) /\ Glue!Offending(r, {i}) = Left(r) \cap contract.rules[i].bad
            BY <1>0, <1>s DEF Glue!Offending, Glue!View, Glue!Filtered, Left, Piecework, Refused, Files
      <2>4. /\ step'[r] = i + 1 /\ step' \in [Run -> Nat]
            /\ \A q \in Run \ {r}: UNCHANGED <<quarantined[q], applied[q], pc[q], step[q]>>
            BY <1>0, <1>s, <2>0, <2>1, <2>2
      <2>5. \/ /\ contract.rules[i].severity = "quarantine"
               /\ applied'[r] = applied[r] \cup {i}
               /\ quarantined'[r] = quarantined[r] \cup (Left(r) \cap contract.rules[i].bad)
            \/ /\ contract.rules[i].severity # "quarantine"
               /\ UNCHANGED <<applied[r], quarantined[r]>>
            BY <1>s, <2>1, <2>3
      <2>6. JobSieve(r)'
            BY <1>0, <1>s, <2>0, <2>1, <2>2, <2>3, <2>4, <2>5, ExpressionPassed
      <2>7. ~Succeeded(r) /\ \A q: Succeeded(q)' <=> Succeeded(q)
            BY <1>0, <2>0 DEF JobReport, Succeeded
      <2>8. JobReport(r)'
            BY <1>0, <2>0, <2>7 DEF JobReport
      <2> QED BY <1>0, <1>m, <2>0, <2>4, <2>6, <2>7, <2>8
<1> QED BY <1>1, <1>2, <1>3, <1>4, <1>5, <1>6, <1>7, <1>8, <1>9 DEF Glue!Next

\* A streaming job.
LEMMA StreamNotesStep ==
    ASSUME Shape, StreamInv, Micro, JobNotes, GlueStreaming!Next
    PROVE  JobNotes'
<1> USE DEF GlueStreaming!data, GlueStreaming!given, GlueStreaming!control, GlueStreaming!locking,
            GlueStreaming!progress, GlueStreaming!locals, given
<1>0. /\ Shape' /\ Grows /\ Passes /\ contract' = contract /\ platform' = platform /\ platform = "aws"
      /\ contract.stream
      /\ OneAtATime /\ \A q \in Run: Piece(q)
      /\ contract \in Contract /\ step \in [Run -> Nat] /\ cand \in [Run -> Nat \cup {None}] /\ stateLog \in Seq(SomeState)
      /\ \A q \in Run: JobSieve(q) /\ JobReport(q)
      BY StreamStep DEF Micro, StreamInv, JobNotes
<1>s. /\ source \in Nat /\ bookmark \in Nat /\ planned \in Nat /\ top \in [Run -> Nat] /\ low \in [Run -> Nat]
      /\ wrote = [q \in Run |-> wrote[q]] /\ quarantined = [q \in Run |-> quarantined[q]]
      /\ applied = [q \in Run |-> applied[q]] /\ pc = [q \in Run |-> pc[q]]
      BY <1>0 DEF Shape
<1>b. bookmark <= bookmark'
      BY <1>0, <1>s DEF Passes
<1>m. ASSUME NEW r \in Run,
             \A q \in Run \ {r}:
                UNCHANGED <<quarantined[q], wrote[q], low[q], top[q], pc[q], applied[q], step[q]>>,
             step' \in [Run -> Nat],
             UNCHANGED <<bookmark, planned>> \/ pc[r] \notin Resting,
             \A q \in Run \ {r}: Succeeded(q)' <=> Succeeded(q),
             \/ stateLog' = stateLog
             \/ \E x \in SomeState: stateLog' = Append(stateLog, x) /\ Within(x.watermark, bookmark', contract.stream),
             cand' \in [Run -> Nat \cup {None}],
             JobSieve(r)', JobReport(r)'
      PROVE  JobNotes'
      <2>1. UNCHANGED <<bookmark, planned>> \/ \A q \in Run \ {r}: pc[q] \in Resting
            BY <1>0, <1>m DEF OneAtATime
      <2> QED BY <1>0, <1>b, <1>m, <2>1, JobNotesMove
<1>f. /\ \A n: Fails(n)' <=> Fails(n)
      /\ \A i: Barred(i)' <=> Barred(i)
      /\ \A s: Glue!RulesOf(s)' = Glue!RulesOf(s)
      BY <1>0 DEF Fails, Barred, Glue!RulesOf
<1>1. ASSUME GlueStreaming!Arrive
      PROVE  JobNotes'
      BY <1>0, <1>1, JobNotesArrive DEF GlueStreaming!Arrive
<1>2. ASSUME NEW r \in Run, GlueStreaming!Start(r)
      PROVE  JobNotes'
      <2>1. /\ pc[r] = "idle" /\ pc' = [pc EXCEPT ![r] = "streaming"]
            /\ low' = [low EXCEPT ![r] = bookmark] /\ top' = [top EXCEPT ![r] = source]
            /\ UNCHANGED <<wrote, quarantined, bookmark, planned, applied, step, stateLog, runLog, cand>>
            BY <1>2 DEF GlueStreaming!Start, GlueStreaming!Goto
      <2>2. ~Succeeded(r) /\ \A q: Succeeded(q)' <=> Succeeded(q)
            BY <1>0, <2>1 DEF JobReport, Succeeded
      <2>3. pc'[r] = "streaming" /\ (low'[r] + 1)..bookmark = {}
            BY <1>s, <2>1
      <2>4. JobSieve(r)' /\ JobReport(r)'
            BY <1>0, <1>f, <2>1, <2>2, <2>3 DEF JobSieve, JobReport, Behind
      <2>5. \A q \in Run \ {r}: UNCHANGED <<low[q], top[q], pc[q]>>
            BY <1>s, <2>1
      <2> QED BY <1>0, <1>m, <2>1, <2>2, <2>4, <2>5
<1>3. ASSUME NEW r \in Run, GlueStreaming!NextBatch(r)
      PROVE  JobNotes'
      <2>1. /\ pc[r] = "streaming" /\ pc' = [pc EXCEPT ![r] = "gate"]
            /\ applied' = [applied EXCEPT ![r] = {}] /\ step' = [step EXCEPT ![r] = 1]
            /\ UNCHANGED <<wrote, quarantined, bookmark, low, top, stateLog, runLog, cand>>
            BY <1>3 DEF GlueStreaming!NextBatch, GlueStreaming!Goto
      <2>2. ~Succeeded(r) /\ \A q: Succeeded(q)' <=> Succeeded(q)
            BY <1>0, <2>1 DEF JobReport, Succeeded
      <2>3. /\ pc'[r] = "gate" /\ step'[r] = 1 /\ step' \in [Run -> Nat]
            /\ \A q \in Run \ {r}: UNCHANGED <<pc[q], applied[q], step[q]>>
            BY <1>0, <1>s, <2>1
      <2>4. JobSieve(r)' /\ JobReport(r)'
            BY <1>0, <1>f, <2>1, <2>2, <2>3 DEF JobSieve, JobReport, Behind
      <2> QED BY <1>0, <1>m, <2>1, <2>2, <2>3, <2>4 DEF Resting
\* Steps that take one run to another position, or log a failure.
<1>4. ASSUME NEW r \in Run,
             \/ GlueStreaming!CheckAbort(r) \/ GlueStreaming!Exhausted(r) \/ GlueStreaming!Raise(r)
             \/ GlueStreaming!LogFailure(r) \/ GlueStreaming!Crash(r)
      PROVE  JobNotes'
      <2>1. /\ UNCHANGED <<wrote, quarantined, bookmark, planned, low, top, applied, step, stateLog, cand>>
            /\ pc' = [pc EXCEPT ![r] = pc'[r]] /\ pc[r] # "done"
            /\ pc'[r] \in {"sift", "committed", "failing", "done", "crashed"} /\ (pc'[r] = "sift" => pc[r] = "gate")
            /\ runLog' = runLog \/ runLog' = runLog \cup {[run |-> r, status |-> "FAILED", part |-> 0]}
            BY <1>4, <1>s DEF GlueStreaming!CheckAbort, GlueStreaming!Exhausted, GlueStreaming!Raise,
               GlueStreaming!LogFailure, GlueStreaming!Crash, GlueStreaming!Goto, GlueStreaming!LogRun
      <2>2. ~Succeeded(r) /\ \A q: Succeeded(q)' <=> Succeeded(q)
            BY <1>0, <2>1 DEF JobReport, Succeeded
      <2>3. ASSUME pc'[r] = "sift"
            PROVE  /\ \A i \in Glue!RulesOf("abort"): Planned \cap contract.rules[i].bad = {}
                   /\ (low[r] + 1)..bookmark \subseteq wrote[r] \cup quarantined[r]
            <3>1. /\ pc[r] = "gate" /\ GlueStreaming!Offending(r, GlueStreaming!RulesOf("abort")) = {}
                  /\ applied[r] = {}
                  BY <1>0, <1>4, <1>s, <2>3 DEF GlueStreaming!CheckAbort, GlueStreaming!Exhausted,
                     GlueStreaming!Raise, GlueStreaming!LogFailure, GlueStreaming!Crash, GlueStreaming!Goto, Piece
            <3>2. GlueStreaming!BatchRows(r) = Planned /\ GlueStreaming!RulesOf("abort") = Glue!RulesOf("abort")
                  BY <3>1 DEF GlueStreaming!BatchRows, GlueStreaming!Filtered, Planned, Glue!RulesOf,
                     GlueStreaming!RulesOf
            <3>3. \A i \in Glue!RulesOf("abort"): Planned \cap contract.rules[i].bad = {}
                  BY <3>1, <3>2 DEF GlueStreaming!Offending
            <3> QED BY <1>0, <3>1, <3>3 DEF JobReport
      <2>4. ASSUME pc'[r] = "committed"
            PROVE  Files(r) \subseteq wrote[r] \cup quarantined[r] /\ top[r] <= bookmark
            <3>1. pc[r] = "streaming" /\ bookmark >= top[r]
                  BY <1>4, <1>s, <2>4 DEF GlueStreaming!CheckAbort, GlueStreaming!Exhausted, GlueStreaming!Raise,
                     GlueStreaming!LogFailure, GlueStreaming!Crash, GlueStreaming!Goto
            <3>2. (low[r] + 1)..top[r] \subseteq (low[r] + 1)..bookmark
                  BY <1>s, <3>1
            <3> QED BY <1>0, <1>s, <3>1, <3>2 DEF Files, JobReport
      <2>5. /\ Files(r)' = Files(r) /\ Planned' = Planned /\ Behind' = Behind
            /\ Piecework(r) = Planned /\ Piecework(r)' = Planned
            BY <1>0, <2>1 DEF Files, Planned, Behind, Piecework
      <2>6. JobSieve(r)'
            <3>1. CASE pc'[r] = "sift"
                  BY <1>0, <1>f, <2>1, <2>3, <2>5, <3>1 DEF JobSieve
            <3>2. CASE pc'[r] # "sift"
                  BY <1>0, <1>f, <2>1, <3>2 DEF JobSieve
            <3> QED BY <3>1, <3>2
      <2>8. JobReport(r)'
            BY <1>0, <2>1, <2>2, <2>3, <2>4, <2>5 DEF JobReport
      <2>7. \A q \in Run \ {r}: UNCHANGED <<quarantined[q], wrote[q], low[q], top[q], pc[q]>>
            BY <1>s, <2>1
      <2> QED BY <1>0, <1>m, <2>1, <2>2, <2>6, <2>7, <2>8
<1>5. ASSUME NEW r \in Run, GlueStreaming!Quarantine(r)
      PROVE  JobNotes'
      <2> DEFINE Q == GlueStreaming!RulesOf("quarantine")
      <2>1. /\ pc[r] = "sift" /\ pc' = [pc EXCEPT ![r] = "clean"]
            /\ quarantined' = [quarantined EXCEPT ![r] = @ \cup GlueStreaming!Offending(r, Q)]
            /\ applied' = [applied EXCEPT ![r] = Q]
            /\ UNCHANGED <<wrote, bookmark, planned, low, top, step, stateLog, runLog, cand>>
            BY <1>5 DEF GlueStreaming!Quarantine, GlueStreaming!Goto
      <2>2. ~Succeeded(r) /\ \A q: Succeeded(q)' <=> Succeeded(q)
            BY <1>0, <2>1 DEF JobReport, Succeeded
      <2>3. Q = Glue!RulesOf("quarantine") /\ applied[r] = {} /\ Piecework(r) = Planned
            BY <1>0, <2>1 DEF Glue!RulesOf, GlueStreaming!RulesOf, Piece, Piecework
      <2>4. GlueStreaming!Offending(r, Q) = Refused(Q, Planned)
            BY <2>3 DEF GlueStreaming!Offending, GlueStreaming!BatchRows, GlueStreaming!Filtered, Refused, Planned
      <2> HIDE DEF Q
      <2>5. /\ applied'[r] = Q /\ quarantined'[r] = quarantined[r] \cup Refused(Q, Piecework(r))
            /\ pc'[r] = "clean" /\ \A q \in Run \ {r}: UNCHANGED <<quarantined[q], applied[q], pc[q]>>
            BY <1>s, <2>1, <2>3, <2>4
      <2>6. JobSieve(r)'
            BY <1>0, <1>s, <2>1, <2>3, <2>5, RulesPassed
      <2>7. JobReport(r)'
            BY <1>0, <2>1, <2>2, <2>5 DEF JobReport
      <2> QED BY <1>0, <1>m, <2>1, <2>2, <2>5, <2>6, <2>7 DEF Resting
<1>6. ASSUME NEW r \in Run, GlueStreaming!Write(r)
      PROVE  JobNotes'
      <2> DEFINE New == GlueStreaming!BatchRows(r)
      <2>1. /\ pc[r] = "clean" /\ GlueStreaming!Pending(r) = {} /\ pc' = [pc EXCEPT ![r] = "written"]
            /\ wrote' = [wrote EXCEPT ![r] = @ \cup New]
            /\ UNCHANGED <<quarantined, bookmark, planned, low, top, applied, step, stateLog, runLog, cand>>
            BY <1>6 DEF GlueStreaming!Write, GlueStreaming!Goto
      <2>2. ~Succeeded(r) /\ \A q: Succeeded(q)' <=> Succeeded(q)
            BY <1>0, <2>1 DEF JobReport, Succeeded
      <2>3. New = Left(r) /\ Piecework(r) = Planned
            BY <1>0, <1>s DEF GlueStreaming!BatchRows, GlueStreaming!Filtered, Planned, Left, Piecework, Refused
      <2> HIDE DEF New
      <2>4. wrote'[r] = wrote[r] \cup New /\ pc'[r] = "written"
            BY <1>s, <2>1
      <2>5. /\ \A n \in New: ~Fails(n)
            /\ wrote'[r] \cap quarantined[r] = {}
            /\ wrote'[r] \cup quarantined[r] \subseteq Behind \cup Planned
            BY <1>0, <1>s, <2>1, <2>3, <2>4, LeftIsClean DEF GlueStreaming!Pending
      <2>8. Planned' = Planned /\ Behind' = Behind
            BY <1>0, <2>1 DEF Planned, Behind
      <2>9. JobSieve(r)'
            BY <1>0, <1>f, <2>1, <2>4, <2>5, <2>8 DEF JobSieve
      <2>6. JobSieve(r)' /\ JobReport(r)'
            BY <1>0, <2>1, <2>2, <2>4, <2>9 DEF JobReport
      <2>7. \A q \in Run \ {r}: UNCHANGED <<wrote[q], pc[q]>>
            BY <1>s, <2>1
      <2> QED BY <1>0, <1>m, <2>1, <2>2, <2>6, <2>7
<1>7. ASSUME NEW r \in Run, GlueStreaming!CommitBatch(r)
      PROVE  JobNotes'
      <2>1. /\ pc[r] = "written" /\ pc' = [pc EXCEPT ![r] = "streaming"] /\ bookmark' = planned
            /\ UNCHANGED <<wrote, quarantined, planned, low, top, applied, step, stateLog, runLog, cand>>
            BY <1>7 DEF GlueStreaming!CommitBatch, GlueStreaming!Goto
      <2>2. ~Succeeded(r) /\ \A q: Succeeded(q)' <=> Succeeded(q)
            BY <1>0, <2>1 DEF JobReport, Succeeded
      <2>3. pc'[r] = "streaming"
            BY <1>s, <2>1
      <2>4. (low[r] + 1)..bookmark' \subseteq wrote[r] \cup quarantined[r]
            <3>1. (low[r] + 1)..bookmark \subseteq wrote[r] \cup quarantined[r]
                  BY <1>0, <2>1 DEF JobReport
            <3>2. (bookmark + 1)..planned \subseteq wrote[r] \cup quarantined[r]
                  BY <1>0, <2>1 DEF Piece, Planned
            <3>3. (low[r] + 1)..bookmark' \subseteq (low[r] + 1)..bookmark \cup (bookmark + 1)..planned
                  BY <1>s, <2>1
            <3> QED BY <3>1, <3>2, <3>3
      <2>7. Behind \cup Planned \subseteq Behind'
            BY <1>0, <1>b, <1>s, <2>1 DEF Behind, Planned
      <2>5. JobSieve(r)' /\ JobReport(r)'
            BY <1>0, <1>f, <2>1, <2>2, <2>3, <2>4, <2>7 DEF JobSieve, JobReport
      <2>6. \A q \in Run \ {r}: pc'[q] = pc[q]
            BY <1>s, <2>1
      <2> QED BY <1>0, <1>m, <2>1, <2>2, <2>5, <2>6 DEF Resting
<1>8. ASSUME NEW r \in Run, GlueStreaming!RecordState(r)
      PROVE  JobNotes'
      <2> DEFINE new == [run |-> r, status |-> "SUCCESS", watermark |-> None]
      <2>1. /\ pc[r] = "committed" /\ pc' = [pc EXCEPT ![r] = "stated"]
            /\ stateLog' = Append(stateLog, new)
            /\ UNCHANGED <<wrote, quarantined, bookmark, planned, low, top, applied, step, runLog, cand>>
            BY <1>8 DEF GlueStreaming!RecordState, GlueStreaming!Goto, GlueStreaming!AppendState
      <2>2. new \in SomeState /\ new.run = r /\ new.status = "SUCCESS" /\ new.watermark = None
            BY DEF SomeState, Status
      <2> HIDE DEF new
      <2>3. ~Succeeded(r) /\ \A q: Succeeded(q)' <=> Succeeded(q)
            BY <1>0, <2>1 DEF JobReport, Succeeded
      <2>4. (\E i \in Successes(Len(stateLog)): stateLog[i].run = r)'
            <3>1. /\ Len(stateLog') = Len(stateLog) + 1 /\ Len(stateLog) \in Nat
                  /\ stateLog'[Len(stateLog) + 1] = new
                  BY <1>0, <2>1, <2>2, StateGrows
            <3> QED BY <2>2, <3>1 DEF Successes
      <2>5. pc'[r] = "stated" /\ \A q \in Run \ {r}: pc'[q] = pc[q]
            BY <1>s, <2>1
      <2>6. Files(r)' = Files(r) /\ Files(r) \subseteq wrote[r] \cup quarantined[r]
            BY <1>0, <2>1 DEF Files, JobReport
      <2>7. JobSieve(r)' /\ JobReport(r)'
            <3>1. JobSieve(r)'
                  BY <1>0, <1>f, <2>1, <2>5 DEF JobSieve
            <3>2. (Files(r) \subseteq wrote[r] \cup quarantined[r])'
                  BY <2>1, <2>6
            <3> QED BY <1>0, <2>3, <2>4, <2>5, <3>1, <3>2 DEF JobReport
      <2>8. Within(new.watermark, bookmark', contract.stream)
            BY <2>2 DEF Within
      <2> QED BY <1>0, <1>m, <2>1, <2>2, <2>3, <2>5, <2>7, <2>8
<1>9. ASSUME NEW r \in Run, GlueStreaming!LogOutcome(r)
      PROVE  JobNotes'
      <2>1. /\ pc[r] = "stated" /\ pc' = [pc EXCEPT ![r] = "done"]
            /\ runLog' = runLog \cup {[run |-> r, status |-> "SUCCESS", part |-> 0]}
            /\ UNCHANGED <<wrote, quarantined, bookmark, planned, low, top, applied, step, cand, stateLog>>
            BY <1>9 DEF GlueStreaming!LogOutcome, GlueStreaming!Goto, GlueStreaming!LogRun
      <2>2. \A q \in Run \ {r}: (Succeeded(q)' <=> Succeeded(q)) /\ pc'[q] = pc[q]
            BY <1>s, <2>1 DEF Succeeded
      <2>3. pc'[r] = "done" /\ Files(r)' = Files(r)
            BY <1>s, <2>1 DEF Files
      <2>4. \A n: Successes(n)' = Successes(n)
            BY <2>1 DEF Successes
      <2>5. JobSieve(r)' /\ JobReport(r)'
            BY <1>0, <1>f, <2>1, <2>3, <2>4 DEF JobSieve, JobReport
      <2> QED BY <1>0, <1>m, <2>1, <2>2, <2>5
<1>10. ASSUME NEW r \in Run, GlueStreaming!Evaluate(r)
      PROVE  JobNotes'
      <2>0. /\ pc[r] = "clean" /\ pc' = [pc EXCEPT ![r] = pc'[r]] /\ pc'[r] \in {"clean", "failing"}
            /\ UNCHANGED <<wrote, bookmark, planned, low, top, stateLog, runLog, cand>>
            BY <1>10, <1>s DEF GlueStreaming!Evaluate, GlueStreaming!Goto
      <2>1. PICK i \in GlueStreaming!Pending(r):
               /\ \A j \in GlueStreaming!Pending(r): i <= j
               /\ step' = [step EXCEPT ![r] = i + 1]
               /\ pc'[r] = "clean" =>
                     (contract.rules[i].severity = "abort" => GlueStreaming!Offending(r, {i}) = {})
               /\ IF contract.rules[i].severity = "quarantine"
                  THEN /\ quarantined' = [quarantined EXCEPT ![r] = @ \cup GlueStreaming!Offending(r, {i})]
                       /\ applied' = [applied EXCEPT ![r] = @ \cup {i}]
                  ELSE UNCHANGED <<quarantined, applied>>
            BY <1>10, <1>s DEF GlueStreaming!Evaluate, GlueStreaming!Goto
      <2>2. /\ i \in DOMAIN contract.rules /\ i >= step[r] /\ i \in Nat
            /\ \A j \in DOMAIN contract.rules: j >= step[r] /\ contract.rules[j].expression => i <= j
            BY <1>0, <2>1, RulesAreRules DEF GlueStreaming!Pending
      <2>3. GlueStreaming!Offending(r, {i}) = Left(r) \cap contract.rules[i].bad
            BY <1>0, <1>s DEF GlueStreaming!Offending, GlueStreaming!BatchRows, GlueStreaming!Filtered, Left,
               Piecework, Refused, Planned
      <2>4. /\ step'[r] = i + 1 /\ step' \in [Run -> Nat]
            /\ \A q \in Run \ {r}: UNCHANGED <<quarantined[q], applied[q], pc[q], step[q]>>
            BY <1>0, <1>s, <2>0, <2>1, <2>2
      <2>5. \/ /\ contract.rules[i].severity = "quarantine"
               /\ applied'[r] = applied[r] \cup {i}
               /\ quarantined'[r] = quarantined[r] \cup (Left(r) \cap contract.rules[i].bad)
            \/ /\ contract.rules[i].severity # "quarantine"
               /\ UNCHANGED <<applied[r], quarantined[r]>>
            BY <1>s, <2>1, <2>3
      <2>6. JobSieve(r)'
            BY <1>0, <1>s, <2>0, <2>1, <2>2, <2>3, <2>4, <2>5, ExpressionPassed
      <2>7. ~Succeeded(r) /\ \A q: Succeeded(q)' <=> Succeeded(q)
            BY <1>0, <2>0 DEF JobReport, Succeeded
      <2>8. (low[r] + 1)..bookmark \subseteq wrote[r] \cup quarantined[r]
            BY <1>0, <2>0 DEF JobReport
      <2>9. JobReport(r)'
            BY <1>0, <2>0, <2>5, <2>7, <2>8 DEF JobReport
      <2> QED BY <1>0, <1>m, <2>0, <2>4, <2>6, <2>7, <2>9
<1> QED BY <1>1, <1>2, <1>3, <1>4, <1>5, <1>6, <1>7, <1>8, <1>9, <1>10 DEF GlueStreaming!Next

-----------------------------------------------------------------------------
(* The four runners together *)

\* A watermark that the state table offers is that of one of its rows.
LEMMA OfferedWatermark ==
    ASSUME stateLog \in Seq(SomeState), WatermarkAt(Len(stateLog)) # None
    PROVE  \E i \in 1..Len(stateLog): WatermarkAt(Len(stateLog)) = stateLog[i].watermark
<1> DEFINE S == Successes(Len(stateLog))
           found == MaxWatermark(S)
<1>1. found # None /\ WatermarkAt(Len(stateLog)) = stateLog[found].watermark
      BY DEF WatermarkAt
<1>2. Len(stateLog) \in Nat /\ S \subseteq 1..Len(stateLog) /\ 1..Len(stateLog) \subseteq 0..Len(stateLog)
      BY DEF Successes
<1>3. S # {} /\ found = CHOOSE n \in S: \A m \in S: m <= n
      BY <1>1 DEF MaxWatermark
<1> HIDE DEF S, found
<1>4. found \in S
      BY <1>2, <1>3, Greatest
<1> QED BY <1>1, <1>2, <1>4

\* Rows of the run log are rows of runs, and a runner without a lock tells
\* nobody that it owns the target.
Logged == \A row \in runLog: row.run \in Run
Free == platform \in {"aws", "databricks"} => \A r \in Run: ~held[r]

SnowflakeInv ==
    platform = "snowflake" => Types /\ Gates /\ Succeeding /\ Covered /\ Bounded /\ Locks

All == Inv /\ SnowflakeInv /\ LoopInv /\ NoteInv /\ JobNotes /\ Logged /\ Free

LEMMA NoteInit == Fresh("fabric", Contracts) => NoteInv
<1> SUFFICES ASSUME Fresh("fabric", Contracts)
             PROVE  NoteInv
    OBVIOUS
<1>1. /\ contract \in Contract /\ source = 0 /\ bookmark = 0 /\ staged = {} /\ stateLog = <<>> /\ runLog = {}
      /\ wrote = [r \in Run |-> {}] /\ quarantined = [r \in Run |-> {}] /\ applied = [r \in Run |-> {}]
      /\ low = [r \in Run |-> 0] /\ top = [r \in Run |-> 0] /\ step = [r \in Run |-> 1]
      /\ cand = [r \in Run |-> None] /\ pc = [r \in Run |-> "idle"]
      BY ContractsAssumption DEF Fresh
<1>2. reads \in [Run -> BOOLEAN]
      <2>1. reads = [r \in Run |-> FALSE]
            BY DEF Fresh
      <2> QED BY <2>1, Zenon
<1>3. NoteTypes
      BY <1>1, <1>2, MaxRowAssumption DEF NoteTypes
<1>4. ASSUME NEW r \in Run
      PROVE  Sieve(r) /\ Report(r)
      BY <1>1 DEF Sieve, Report, Early, Succeeded
<1> QED BY <1>1, <1>3, <1>4 DEF NoteInv

LEMMA JobNotesInit ==
    ASSUME NEW S \in SUBSET Contracts, Fresh("aws", S)
    PROVE  JobNotes
<1>1. /\ contract \in Contract /\ stateLog = <<>> /\ runLog = {}
      /\ wrote = [r \in Run |-> {}] /\ quarantined = [r \in Run |-> {}]
      /\ cand = [r \in Run |-> None] /\ pc = [r \in Run |-> "idle"] /\ step = [r \in Run |-> 1]
      BY ContractsAssumption DEF Fresh
<1>2. ASSUME NEW r \in Run
      PROVE  JobSieve(r) /\ JobReport(r)
      BY <1>1 DEF JobSieve, JobReport, Succeeded
<1> QED BY <1>1, <1>2 DEF JobNotes

LEMMA AllInit == Init => All /\ Delivery!Init /\ Lease!Init
<1> SUFFICES ASSUME Init
             PROVE  All /\ Delivery!Init /\ Lease!Init
    OBVIOUS
<1>1. Inv /\ Delivery!Init
      BY InvInit
<1>2. Snowflake!Init => Fresh("snowflake", {c \in Contracts: ~c.stream})
      BY DEF Snowflake!Init, Snowflake!Fresh, Fresh, Snowflake!NoLockRow, NoLockRow
<1>3. Fabric!Init => Fresh("fabric", Contracts)
      BY DEF Fabric!Init, Fabric!Fresh, Fresh, Fabric!NoLockRow, NoLockRow
<1>4. Glue!Init => Fresh("aws", {c \in Contracts: ~c.stream})
      BY DEF Glue!Init, Glue!Fresh, Fresh, Glue!NoLockRow, NoLockRow
<1>5. GlueStreaming!Init => Fresh("aws", {c \in Contracts: c.stream})
      BY DEF GlueStreaming!Init, GlueStreaming!Fresh, Fresh, GlueStreaming!NoLockRow, NoLockRow
<1>6. Windowed!Init => Fresh("databricks", WindowPlans)
      BY DEF Windowed!Init, Windowed!Fresh, Fresh, Windowed!NoLockRow, NoLockRow
<1>7. PICK p \in {"snowflake", "fabric", "aws", "databricks"}: \E S: Fresh(p, S)
      BY <1>2, <1>3, <1>4, <1>5, <1>6 DEF Init
<1>8. /\ runLog = {} /\ held = [r \in Run |-> FALSE] /\ lease = [r \in Run |-> 0] /\ lock = NoLockRow
      BY <1>7 DEF Fresh
<1>9. Logged /\ Free /\ Lease!Init
      BY <1>8 DEF Logged, Free, Lease!Init, Told, NoLockRow
<1>10. SnowflakeInv
      <2>1. CASE Snowflake!Init
            BY <2>1, TypesInit, GatesInit, SuccessInit, CoveredInit, LocksInit DEF SnowflakeInv
      <2>2. CASE ~Snowflake!Init
            BY <1>3, <1>4, <1>5, <1>6, <2>2 DEF Init, Fresh, SnowflakeInv
      <2> QED BY <2>1, <2>2
<1>11. LoopInv
      <2>1. CASE Windowed!Init
            BY <2>1, LoopInit
      <2>2. CASE ~Windowed!Init
            BY <1>2, <1>3, <1>4, <1>5, <2>2 DEF Init, Fresh, LoopInv
      <2> QED BY <2>1, <2>2
<1>12. NoteInv
      <2>1. CASE Fabric!Init
            BY <1>3, <2>1, NoteInit
      <2>2. CASE ~Fabric!Init
            BY <1>2, <1>4, <1>5, <1>6, <2>2 DEF Init, Fresh, NoteInv
      <2> QED BY <2>1, <2>2
<1>13. JobNotes
      <2>1. CASE Glue!Init \/ GlueStreaming!Init
            BY <1>4, <1>5, <2>1, JobNotesInit
      <2>2. CASE ~(Glue!Init \/ GlueStreaming!Init)
            BY <1>2, <1>3, <1>6, <2>2 DEF Init, Fresh, JobNotes
      <2> QED BY <2>1, <2>2
<1> QED BY <1>1, <1>9, <1>10, <1>11, <1>12, <1>13 DEF All

\* The runners of AWS and Databricks leave the lock alone.
LEMMA LocksLeftAlone ==
    ASSUME Next, platform \in {"aws", "databricks"}
    PROVE  UNCHANGED <<lock, lease, held, now, platform>>
<1>1. CASE Glue!Next
      BY <1>1 DEF Glue!Next, Glue!Arrive, Glue!Read, Glue!CheckAbort, Glue!Quarantine, Glue!Evaluate, Glue!Write, Glue!Commit,
         Glue!RecordState, Glue!LogOutcome, Glue!Raise, Glue!LogFailure, Glue!Crash,
         Glue!data, Glue!given, Glue!control, Glue!locking
<1>2. CASE GlueStreaming!Next
      BY <1>2 DEF GlueStreaming!Next, GlueStreaming!Arrive, GlueStreaming!Start, GlueStreaming!NextBatch,
         GlueStreaming!CheckAbort, GlueStreaming!Quarantine, GlueStreaming!Evaluate, GlueStreaming!Write,
         GlueStreaming!CommitBatch,
         GlueStreaming!Exhausted, GlueStreaming!RecordState, GlueStreaming!LogOutcome, GlueStreaming!Raise,
         GlueStreaming!LogFailure, GlueStreaming!Crash,
         GlueStreaming!data, GlueStreaming!given, GlueStreaming!control, GlueStreaming!locking
<1>3. CASE Windowed!Next
      BY <1>3 DEF Windowed!Next, Windowed!Arrive, Windowed!Plan, Windowed!Prepare, Windowed!PrepareFails,
         Windowed!CheckKey, Windowed!Write, Windowed!Measure, Windowed!LogSuccess, Windowed!RecordSuccess,
         Windowed!LogSkip, Windowed!RecordSkip, Windowed!Raise, Windowed!LogFailure, Windowed!RecordFailure,
         Windowed!Finish, Windowed!Crash,
         Windowed!data, Windowed!given, Windowed!control, Windowed!locking
<1> QED BY <1>1, <1>2, <1>3 DEF Next

\* The runners of AWS and Fabric log rows of their own.
LEMMA OwnRows ==
    ASSUME Next, platform \in {"aws", "fabric"}
    PROVE  runLog' = runLog \/ \E r \in Run: \E status, part: runLog' = runLog \cup {[run |-> r, status |-> status, part |-> part]}
<1>1. CASE Glue!Next
      BY <1>1 DEF Glue!Next, Glue!Arrive, Glue!Read, Glue!CheckAbort, Glue!Quarantine, Glue!Evaluate, Glue!Write, Glue!Commit,
         Glue!RecordState, Glue!LogOutcome, Glue!Raise, Glue!LogFailure, Glue!Crash, Glue!LogRun, Glue!control
<1>2. CASE GlueStreaming!Next
      BY <1>2 DEF GlueStreaming!Next, GlueStreaming!Arrive, GlueStreaming!Start, GlueStreaming!NextBatch,
         GlueStreaming!CheckAbort, GlueStreaming!Quarantine, GlueStreaming!Evaluate, GlueStreaming!Write,
         GlueStreaming!CommitBatch,
         GlueStreaming!Exhausted, GlueStreaming!RecordState, GlueStreaming!LogOutcome, GlueStreaming!Raise,
         GlueStreaming!LogFailure, GlueStreaming!Crash, GlueStreaming!LogRun, GlueStreaming!control
<1>3. CASE Fabric!Next
      BY <1>3 DEF Fabric!Next, Fabric!Arrive, Fabric!Tick, Fabric!Unlocked, Fabric!Acquire, Fabric!ReadBack,
         Fabric!Clear, Fabric!Stream, Fabric!StreamFails, Fabric!Take, Fabric!Load, Fabric!Count,
         Fabric!Evaluate, Fabric!Quarantine, Fabric!QuarantineFails, Fabric!Write, Fabric!Measure,
         Fabric!RecordState, Fabric!LogSuccess, Fabric!Raise, Fabric!LogFailure, Fabric!HandlerRaises,
         Fabric!Release, Fabric!ReleaseFails, Fabric!Crash, Fabric!LogRun, Fabric!control
<1> QED BY <1>1, <1>2, <1>3 DEF Next

\* Nothing changes when nothing happens.
LEMMA AllRests ==
    ASSUME All, UNCHANGED vars
    PROVE  All'
<1> USE DEF vars, data, given, control, locking, progress, locals
<1>0. Inv' /\ platform' = platform
      BY InvNext DEF All
<1>1. SnowflakeInv'
      <2>1. UNCHANGED Snowflake!vars
            BY DEF Snowflake!vars, Snowflake!data, Snowflake!given, Snowflake!control, Snowflake!locking,
               Snowflake!progress, Snowflake!locals
      <2> QED BY <1>0, <2>1, TypesNext, GatesNext, SuccessNext, CoveredNext, BoundedNext, LocksNext
              DEF All, SnowflakeInv
<1>2. LoopInv'
      <2>1. /\ \A n: Windowed!WindowOf(n)' = Windowed!WindowOf(n)
            /\ \A n: Windowed!Disordered(n)' <=> Windowed!Disordered(n)
            /\ \A n: Windowed!DoneBefore(n)' <=> Windowed!DoneBefore(n)
            /\ \A r, row: Windowed!SameKey(r, row)' <=> Windowed!SameKey(r, row)
            BY DEF Windowed!WindowOf, Windowed!Windows, Windowed!Disordered, Windowed!DoneBefore, Windowed!SameKey
      <2>2. \A n: Excused(n)' <=> Excused(n)
            BY <2>1 DEF Excused
      <2>3. \A r: (Loop(r)' <=> Loop(r))
            BY <2>1, <2>2 DEF Loop, BehindTheLoop, ChildTells, Measured
      <2>4. (LogIsTrue' <=> LogIsTrue) /\ (StateIsTrue' <=> StateIsTrue)
            BY <2>2 DEF LogIsTrue, StateIsTrue
      <2> QED BY <2>3, <2>4 DEF All, LoopInv
<1>3. NoteInv'
      <2>1. \A r: Fabric!Df(r)' = Fabric!Df(r) /\ Fabric!Newcomers(r)' = Fabric!Newcomers(r)
            BY DEF Fabric!Df, Fabric!Newcomers, Fabric!View, Fabric!Filtered, Fabric!Arrived
      <2>2. \A a, b: Refused(a, b)' = Refused(a, b)
            BY DEF Refused
      <2>3. \A r: Sieve(r)' <=> Sieve(r)
            BY <2>1, <2>2 DEF Sieve
      <2>4. Accounted' = Accounted /\ (\A n: Successes(n)' = Successes(n)) /\ \A r: Succeeded(r)' <=> Succeeded(r)
            BY DEF Accounted, Successes, Succeeded
      <2>5. \A w: Reach(w)' <=> Reach(w)
            BY <2>4 DEF Reach
      <2>6. \A r: Report(r)' <=> Report(r)
            BY <2>4, <2>5 DEF Report
      <2>7. NoteTypes' <=> NoteTypes
            BY DEF NoteTypes
      <2> QED BY <2>3, <2>5, <2>6, <2>7 DEF All, NoteInv
<1>4. JobNotes'
      BY <1>0, JobNotesArrive DEF All, Inv, JobNotes
<1>5. Logged' /\ Free'
      BY DEF All, Logged, Free
<1> QED BY <1>0, <1>1, <1>2, <1>3, <1>4, <1>5 DEF All

LEMMA AllNext == All /\ [Next]_vars => All'
<1> SUFFICES ASSUME All, Next
             PROVE  All'
    BY AllRests
<1>0. /\ Shape /\ Unwritten /\ JobInv /\ StreamInv /\ HoldInv /\ CarryInv
      /\ SnowflakeInv /\ LoopInv /\ NoteInv /\ JobNotes /\ Logged /\ Free
      BY DEF All, Inv
<1>1. Inv' /\ platform' = platform
      BY InvNext DEF All
<1>2. platform \in {"snowflake", "fabric", "aws", "databricks"}
      BY <1>0 DEF Shape
<1>3. CASE platform = "snowflake"
      <2>1. Snowflake!Next
            BY <1>3 DEF Next
      <2>2. SnowflakeInv'
            BY <1>0, <1>1, <1>3, <2>1, TypesNext, GatesNext, SuccessNext, CoveredNext, BoundedNext, LocksNext
            DEF SnowflakeInv
      <2>3. Logged'
            BY <1>1, <1>3, <2>2 DEF SnowflakeInv, Types, Snowflake!TypeOK, Snowflake!RunRow, Logged
      <2> QED BY <1>1, <1>3, <2>2, <2>3 DEF All, LoopInv, NoteInv, JobNotes, Free
<1>4. CASE platform = "databricks"
      <2>1. Windowed!Next
            BY <1>4 DEF Next
      <2>2. LoopInv'
            BY <1>0, <1>4, <2>1, LoopStep
      <2>3. Logged'
            BY <1>1, <1>4, <2>2 DEF LoopInv, LogIsTrue, Logged
      <2>4. Free'
            BY <1>0, <1>1, <1>4, LocksLeftAlone DEF Free
      <2> QED BY <1>1, <1>4, <2>2, <2>3, <2>4 DEF All, SnowflakeInv, NoteInv, JobNotes
<1>5. ASSUME platform \in {"aws", "fabric"}
      PROVE  Logged'
      BY <1>0, <1>5, OwnRows DEF Logged
<1>6. CASE platform = "aws"
      <2>1. ASSUME ~contract.stream, Glue!Next
            PROVE  JobNotes'
            BY <1>0, <1>6, <2>1, JobNotesStep DEF Batch
      <2>2. ASSUME contract.stream, GlueStreaming!Next
            PROVE  JobNotes'
            BY <1>0, <1>6, <2>2, StreamNotesStep DEF Micro
      <2>3. JobNotes'
            BY <1>6, <2>1, <2>2 DEF Next
      <2>4. Free'
            BY <1>0, <1>1, <1>6, LocksLeftAlone DEF Free
      <2> QED BY <1>1, <1>5, <1>6, <2>3, <2>4 DEF All, SnowflakeInv, NoteInv, LoopInv
<1>7. CASE platform = "fabric"
      <2>1. Fabric!Next
            BY <1>7 DEF Next
      <2>2. NoteInv'
            BY <1>0, <1>7, <2>1, NoteStep
      <2> QED BY <1>1, <1>5, <1>7, <2>2 DEF All, SnowflakeInv, JobNotes, LoopInv, Free
<1> QED BY <1>2, <1>3, <1>4, <1>6, <1>7

\* A row that an abort or a quarantine rule refuses gets into the target only if
\* it came late, and never into target and quarantine both: for every sequence
\* of rules, on Snowflake, Fabric and AWS.
THEOREM GatesHold == Spec => []GateHolds
<1>1. All => GateHolds
      <2> SUFFICES ASSUME All, platform \in Runners
                   PROVE  GateHolds
          BY DEF GateHolds
      <2>1. CASE platform = "snowflake"
            BY <2>1 DEF All, SnowflakeInv, Gates, Gate, GateHolds
      <2>2. CASE platform = "fabric"
            BY <2>2 DEF All, NoteInv, Sieve, GateHolds
      <2>3. CASE platform = "aws"
            <3>1. contract \in Contract /\ \A r \in Run: JobSieve(r)
                  BY <2>3 DEF All, JobNotes
            <3>3. ASSUME NEW r \in Run, NEW i \in DOMAIN contract.rules,
                         contract.rules[i].severity # "warn", NEW n \in wrote[r]
                  PROVE  n \notin contract.rules[i].bad
                  BY <3>1, <3>3 DEF JobSieve, Fails, Barred
            <3>4. \A r \in Run: wrote[r] \cap quarantined[r] = {}
                  BY <3>1 DEF JobSieve
            <3> QED BY <3>3, <3>4 DEF GateHolds
      <2> QED BY <2>1, <2>2, <2>3 DEF Runners
<1> QED BY <1>1, AllInit, AllNext, PTL DEF Spec

\* A SUCCESS in the run log has its state row, and each row that the run found
\* at its start, or took off the stream, is in the target or in quarantine.
THEOREM SuccessesAccount == Spec => []SuccessAccountsForItsRows
<1>1. All => SuccessAccountsForItsRows
      <2> SUFFICES ASSUME All, platform \in Runners, NEW row \in runLog, row.status = "SUCCESS"
                   PROVE  /\ \E i \in Successes(Len(stateLog)): stateLog[i].run = row.run
                          /\ (low[row.run] + 1)..top[row.run] \subseteq
                                 wrote[row.run] \cup quarantined[row.run] \cup (IF Streaming THEN late ELSE {})
          BY DEF SuccessAccountsForItsRows
      <2>0. row.run \in Run /\ Succeeded(row.run)
            BY DEF All, Logged, Succeeded
      <2>1. CASE platform = "snowflake"
            BY <2>0, <2>1 DEF All, SnowflakeInv, Succeeding, Success, Reported, Rows, Snowflake!Successes, Successes
      <2>2. CASE platform = "fabric"
            <3>1. Report(row.run) /\ NoteTypes /\ low \in [Run -> Nat]
                  BY <2>0, <2>2 DEF All, NoteInv, Inv, Shape
            <3>2. CASE contract.stream
                  BY <2>0, <2>2, <3>1, <3>2 DEF All, Inv, CarryInv, Carry, Files, Report, Streaming, Runners
            <3>3. CASE ~contract.stream
                  BY <2>0, <3>1, <3>3 DEF Report
            <3> QED BY <3>2, <3>3
      <2>3. CASE platform = "aws"
            BY <2>0, <2>3 DEF All, JobNotes, JobReport, Files
      <2> QED BY <2>1, <2>2, <2>3 DEF Runners
<1> QED BY <1>1, AllInit, AllNext, PTL DEF Spec

\* The watermark that the state table offers to the next run passes over a row
\* that is in no table only if the row arrived while a run was at work, or if a
\* run that did not succeed took it off a stream.
THEOREM WatermarksCover == Spec => []WatermarkCoversDelivery
<1>1. All => WatermarkCoversDelivery
      <2> SUFFICES ASSUME All, platform \in Runners, WatermarkAt(Len(stateLog)) # None
                   PROVE  1..WatermarkAt(Len(stateLog)) \subseteq
                              Accounted \cup late \cup (IF Streaming THEN InHand ELSE {})
          BY DEF WatermarkCoversDelivery
      <2>1. CASE platform = "snowflake"
            <3>1. Types /\ Covered
                  BY <2>1 DEF All, SnowflakeInv
            <3>2. Snowflake!WatermarkAt(Len(stateLog)) = WatermarkAt(Len(stateLog)) /\ Snowflake!Accounted = Accounted
                  BY DEF Snowflake!WatermarkAt, WatermarkAt, Snowflake!MaxWatermark, MaxWatermark,
                     Snowflake!Successes, Successes, Snowflake!Accounted, Accounted
            <3>3. Len(stateLog) \in 0..Len(stateLog)
                  BY <3>1 DEF Types, Snowflake!TypeOK
            <3>4. Covers(Snowflake!WatermarkAt(Len(stateLog)))
                  BY <3>1, <3>2, <3>3, WatermarkIsLogged DEF Covered
            <3> QED BY <3>2, <3>4 DEF Covers
      <2>2. CASE platform = "fabric"
            <3>1. NoteTypes /\ \A i \in 1..Len(stateLog): Reach(stateLog[i].watermark)
                  BY <2>2 DEF All, NoteInv
            <3>2. PICK i \in 1..Len(stateLog): WatermarkAt(Len(stateLog)) = stateLog[i].watermark
                  BY <3>1, OfferedWatermark DEF NoteTypes
            <3>3. Reach(WatermarkAt(Len(stateLog)))
                  BY <3>1, <3>2
            <3>4. WatermarkAt(Len(stateLog)) \in Nat
                  <4>1. stateLog[i] \in SomeState
                        <5> HIDE DEF SomeState
                        <5> QED BY <3>1, <3>2 DEF NoteTypes
                  <4> QED BY <3>2, <4>1 DEF SomeState
            <3>5. CASE contract.stream
                  <4>1. 1..bookmark \subseteq Accounted \cup InHand \cup late /\ bookmark \in Nat
                        BY <2>2, <3>5 DEF All, Inv, CarryInv, Shape
                  <4>2. 1..WatermarkAt(Len(stateLog)) \subseteq 1..bookmark
                        BY <3>3, <3>4, <3>5, <4>1 DEF Reach
                  <4> QED BY <2>2, <3>5, <4>1, <4>2 DEF Streaming, Runners
            <3>6. CASE ~contract.stream
                  BY <3>3, <3>6 DEF Reach
            <3> QED BY <3>5, <3>6
      <2>3. CASE platform = "aws"
            <3>1. stateLog \in Seq(SomeState)
                  /\ \A i \in 1..Len(stateLog): Within(stateLog[i].watermark, bookmark, contract.stream)
                  BY <2>3 DEF All, JobNotes
            <3>2. PICK i \in 1..Len(stateLog): WatermarkAt(Len(stateLog)) = stateLog[i].watermark
                  BY <3>1, OfferedWatermark
            <3>3. WatermarkAt(Len(stateLog)) \in Nat
                  <4>1. stateLog[i] \in SomeState
                        <5> HIDE DEF SomeState
                        <5> QED BY <3>1, <3>2
                  <4> QED BY <3>2, <4>1 DEF SomeState
            <3>4. WatermarkAt(Len(stateLog)) <= bookmark /\ ~contract.stream
                  BY <3>1, <3>2 DEF Within
            <3>5. 1..bookmark \subseteq Accounted /\ bookmark \in Nat
                  BY <2>3, <3>4 DEF All, Inv, JobInv, Batch, Shape
            <3>6. 1..WatermarkAt(Len(stateLog)) \subseteq 1..bookmark
                  BY <3>3, <3>4, <3>5
            <3> QED BY <3>5, <3>6
      <2> QED BY <2>1, <2>2, <2>3 DEF Runners
<1> QED BY <1>1, AllInit, AllNext, PTL DEF Spec

\* A row is in the Snowflake target twice only if neither of the two runs found
\* the other's success in the state table, or after a success without a
\* watermark or with a lower one.
THEOREM CopiesAreExplained == Spec => []CopiesNeedOverlapOrReset
<1>1. All => CopiesNeedOverlapOrReset
      <2> SUFFICES ASSUME All, platform = "snowflake", NEW a \in Run, NEW b \in Run,
                          NEW n \in wrote[a], n \in wrote[b], Found(a, b) \/ Found(b, a)
                   PROVE  Reset(base[a]) \/ Reset(base[b])
          BY DEF CopiesNeedOverlapOrReset
      <2>1. /\ \A p, q: Snowflake!Found(p, q) <=> Found(p, q)
            /\ \A m: Snowflake!Reset(m) <=> Reset(m)
            BY DEF Snowflake!Found, Found, Snowflake!Reset, Reset, Snowflake!Successes, Successes
      <2>2. Types /\ Gates /\ Bounded
            BY DEF All, SnowflakeInv
      <2> QED BY <2>1, <2>2, FoundOrReset
<1> QED BY <1>1, AllInit, AllNext, PTL DEF Spec

\* The watermark that the window loop of Databricks leaves passes over a row of
\* its windows only openly: a child FAILED and the loop was told to go on, the
\* row came too late for its window, or the windows are cut along another column.
THEOREM WindowsAreOpen == Spec => []WindowsPassOverOpenly
<1>1. All => WindowsPassOverOpenly
      BY LoopIsOpen DEF All, Inv
<1> QED BY <1>1, AllInit, AllNext, PTL DEF Spec

\* The locks of Snowflake and Fabric keep the promise of a lease, and the two
\* runners without a lock make none.
THEOREM LocksAreLeases == Spec => LeaseSpec
<1>1. ASSUME All, [Next]_vars
      PROVE  [Lease!Next]_(Lease!leaseVars)
      <2>0. platform \in {"snowflake", "fabric", "aws", "databricks"} /\ Shape /\ HoldInv
            BY <1>1 DEF All, Inv, Shape
      <2>1. CASE UNCHANGED vars
            BY <2>1 DEF vars, data, given, control, locking, Lease!leaseVars, Told
      <2>2. CASE Next
            <3>1. CASE platform = "snowflake"
                  <4>1. Types /\ Locks /\ Snowflake!Next
                        BY <1>1, <2>2, <3>1 DEF All, SnowflakeInv, Next
                  <4>2. [Lease!Next]_<<Holder, Told, Lapsed>>
                        BY <4>1, LeaseNext
                  <4> QED BY <4>2 DEF Lease!leaseVars, Holder, Lapsed
            <3>2. CASE platform = "fabric"
                  <4>1. Fabric!Next
                        BY <2>2, <3>2 DEF Next
                  <4>2. [Lease!Next]_<<Holder, Told, Lapsed>>
                        BY <2>0, <3>2, <4>1, NotebookLease
                  <4> QED BY <4>2 DEF Lease!leaseVars, Holder, Lapsed
            <3>3. CASE platform \in {"aws", "databricks"}
                  <4>1. UNCHANGED <<lock, lease, held, now>> /\ \A r \in Run: ~held[r]
                        BY <1>1, <2>2, <3>3, LocksLeftAlone DEF All, Free
                  <4>2. Told = {} /\ Told' = {}
                        BY <4>1 DEF Told
                  <4> QED BY <4>1, <4>2 DEF Lease!leaseVars
            <3> QED BY <2>0, <3>1, <3>2, <3>3
      <2> QED BY <1>1, <2>1, <2>2
<1> QED BY <1>1, AllInit, AllNext, PTL DEF Spec, LeaseSpec, Lease!Spec

=============================================================================
