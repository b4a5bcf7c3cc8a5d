--------------------------- MODULE IngestRun_proofs --------------------------
(***************************************************************************)
(* Executions of one Databricks contract, proved for any set of runs, any  *)
(* policy and keys, with or without the lock, and any bounds: the types,   *)
(* what the watermark says about the target, and what the orchestrator     *)
(* makes of the target lock.                                               *)
(***************************************************************************)
EXTENDS IngestRun, TLAPS

USE DEF Pc, Starting, Skipping, Writing, Finalizing, Failing, Terminal, Goto

Types ==
    /\ pc \in [Run -> Pc]
    /\ source \in 0..MaxRow
    /\ state.watermark \in Watermark
    /\ prev \in [Run -> Nat \cup {None}]
    /\ wrote \in [Run -> SUBSET Row]
    /\ cand \in [Run -> Watermark]
    /\ committed \subseteq Run
    /\ succeeded \subseteq Run
    /\ earlier \in [Run -> SUBSET Run]
    /\ cleared \in BOOLEAN
    /\ raced \subseteq Row

\* The run starts in its types.
LEMMA TypesInit == Init => Types
  <1> SUFFICES ASSUME Init
               PROVE  Types
    OBVIOUS
  <1>1. cleared \in BOOLEAN
    BY Zenon DEF Init
  <1>2. state.watermark = None /\ source \in 0..MaxRow
    BY MaxRowAssumption DEF Init, NoStateRow
  <1> QED
    BY <1>1, <1>2 DEF Init, Types, Watermark

\* Every step keeps them.
LEMMA TypesStep == Types /\ [Next]_vars => Types'
  <1> SUFFICES ASSUME Types, [Next]_vars
               PROVE  Types'
    OBVIOUS
  <1> USE MaxRowAssumption
      DEF Types, Watermark, Row, tables, locals, history, UpsertState, WriteState
  <1>1. ASSUME NEW r \in Run, Prepare(r) \/ PrepareFails(r) \/ CheckKey(r)
        PROVE  Types'
    BY <1>1 DEF Prepare, PrepareFails, CheckKey
  <1>2. ASSUME NEW r \in Run, Acquire(r) \/ Confirm(r) \/ EndDryRun(r)
        PROVE  Types'
    BY <1>2 DEF Acquire, Confirm, EndDryRun
  <1>3. ASSUME NEW r \in Run, Write(r)
        PROVE  Types'
    <2>1. View(prev[r]) \in SUBSET Row
      BY DEF View
    <2> QED
      BY <1>3, <2>1 DEF Write
  <1>4. ASSUME NEW r \in Run, Candidate(r)
        PROVE  Types'
    <2>1. View(prev[r]) \in SUBSET Row
      BY DEF View
    <2> QED
      BY <1>4, <2>1 DEF Candidate
  <1>5. ASSUME NEW r \in Run, LogSuccess(r) \/ LogSkip(r) \/ LogFailure(r)
        PROVE  Types'
    BY <1>5 DEF LogSuccess, LogSkip, LogFailure
  <1>6. ASSUME NEW r \in Run, RecordSuccess(r) \/ RecordSkip(r) \/ RecordFailure(r)
        PROVE  Types'
    <2>1. cleared' = (cleared \/ Lowers(state.watermark, state'.watermark))
      BY <1>6 DEF RecordSuccess, RecordSkip, RecordFailure
    <2>2. cleared' \in BOOLEAN
      BY <2>1, Zenon
    <2>3. state'.watermark \in Watermark
      BY <1>6 DEF RecordSuccess, RecordSkip, RecordFailure
    <2>4. pc' \in [Run -> Pc] /\ succeeded' \subseteq Run
      BY <1>6 DEF RecordSuccess, RecordSkip, RecordFailure
    <2> QED
      BY <1>6, <2>2, <2>3, <2>4 DEF RecordSuccess, RecordSkip, RecordFailure
  <1>7. ASSUME NEW r \in Run, Raise(r) \/ FailureEvidenceFails(r) \/ Release(r) \/ Crash(r)
        PROVE  Types'
    BY <1>7 DEF Raise, FailureEvidenceFails, Release, Crash
  <1>8. ASSUME Arrive
        PROVE  Types'
    BY <1>8 DEF Arrive
  <1>9. CASE Tick \/ UNCHANGED vars
    BY <1>9 DEF Tick, vars
  <1> QED
    BY <1>1, <1>2, <1>3, <1>4, <1>5, <1>6, <1>7, <1>8, <1>9 DEF Next, Step, Finished

\* The variables of the runs keep their types (orchestrator.py and the control tables).
THEOREM Typing == Spec => []Types
  BY TypesInit, TypesStep, PTL DEF Spec

-----------------------------------------------------------------------------
(* The watermark *)

\* A run that has not come to its write has written nothing.
NothingWrittenYet ==
    \A r \in Run: pc[r] \in Starting \cup {"locked"} => wrote[r] = {}

\* The rows that a watermark may cover: written, or come under a lazy view.
Covered == Delivered \cup raced

\* Whatever a run wrote, the rows below are covered.
WritesAreGapless == \A r \in Run: \A m \in wrote[r]: 1..m \subseteq Covered

PrevIsDelivered == \A r \in Run: prev[r] \in Nat => 1..prev[r] \subseteq Covered

CandIsDelivered == \A r \in Run: cand[r] \in Nat => 1..cand[r] \subseteq Covered

\* What a lazy view shows beyond what its run wrote has raced with it.
LazyViewIsCovered ==
    \A r \in Run \ Cached: pc[r] = "written" => View(prev[r]) \subseteq wrote[r] \cup raced

DeliveryInv ==
    /\ Types
    /\ NothingWrittenYet
    /\ WritesAreGapless
    /\ PrevIsDelivered
    /\ CandIsDelivered
    /\ LazyViewIsCovered
    /\ WatermarkCoversDelivery

\* Nothing is delivered and nothing is promised at the start.
LEMMA DeliveryInit == Init => DeliveryInv
  BY TypesInit, NoneAssumption
  DEF Init, DeliveryInv, NothingWrittenYet, WritesAreGapless, PrevIsDelivered,
      CandIsDelivered, LazyViewIsCovered, WatermarkCoversDelivery, NoStateRow

\* Only a write changes what is delivered, and it takes nothing back.
LEMMA WriteDelivers ==
  ASSUME DeliveryInv, NEW r \in Run, Write(r)
  PROVE  DeliveryInv'
  <1> USE DEF DeliveryInv, Types, Row
  <1>1. wrote[r] = {} /\ wrote' = [wrote EXCEPT ![r] = View(prev[r])]
    BY DEF Write, NothingWrittenYet
  <1>2. Types'
    BY TypesStep DEF Next, Step
  <1>3. Covered' = Covered \cup View(prev[r])
    BY <1>1 DEF Covered, Delivered, Write
  <1>4. \A m \in View(prev[r]): 1..m \subseteq Covered'
    <2> SUFFICES ASSUME NEW m \in View(prev[r]), NEW n \in 1..m
                 PROVE  n \in Covered'
      OBVIOUS
    <2>1. n \in View(prev[r]) \/ (prev[r] \in Nat /\ n \in 1..prev[r])
      BY MaxRowAssumption DEF View
    <2> QED
      BY <1>3, <2>1 DEF PrevIsDelivered
  <1>5. WritesAreGapless'
    BY <1>1, <1>3, <1>4 DEF WritesAreGapless
  <1>6. NothingWrittenYet'
    BY <1>1 DEF Write, NothingWrittenYet
  <1>7. PrevIsDelivered' /\ CandIsDelivered'
    BY <1>3 DEF Write, PrevIsDelivered, CandIsDelivered
  <1>8. WatermarkCoversDelivery'
    BY <1>3 DEF Write, tables, WatermarkCoversDelivery, Covered
  <1>9. LazyViewIsCovered'
    BY <1>1 DEF Write, LazyViewIsCovered, View
  <1> QED
    BY <1>2, <1>5, <1>6, <1>7, <1>8, <1>9

\* A row that arrives is seen by lazy views, and is written down as such.
LEMMA ArriveIsCovered ==
  ASSUME DeliveryInv, Arrive
  PROVE  DeliveryInv'
  <1> USE DEF DeliveryInv, Types, tables, locals
  <1>1. Types'
    BY TypesStep DEF Next
  <1>2. Covered \subseteq Covered' /\ UNCHANGED <<state, prev, wrote, cand, pc>>
    BY DEF Arrive, Covered, Delivered
  <1>3. NothingWrittenYet' /\ WritesAreGapless' /\ PrevIsDelivered' /\ CandIsDelivered'
    BY <1>2 DEF NothingWrittenYet, WritesAreGapless, PrevIsDelivered, CandIsDelivered
  <1>4. WatermarkCoversDelivery'
    BY <1>2 DEF WatermarkCoversDelivery, Covered
  <1>5. LazyViewIsCovered'
    <2> SUFFICES ASSUME NEW r \in Run \ Cached, pc[r] = "written", NEW n \in View(prev[r])'
                 PROVE  n \in wrote[r] \cup raced'
      BY <1>2 DEF LazyViewIsCovered
    <2>1. source' = source + 1 /\ raced' = raced \cup {source'} /\ prev' = prev
      BY DEF Arrive
    <2>2. n \in View(prev[r]) \/ n = source'
      BY <2>1, MaxRowAssumption DEF View
    <2> QED
      BY <2>1, <2>2 DEF LazyViewIsCovered
  <1> QED
    BY <1>1, <1>3, <1>4, <1>5

\* Every step keeps what the watermarks say about the target.
LEMMA DeliveryStep ==
  ASSUME DeliveryInv, [Next]_vars
  PROVE  DeliveryInv'
  <1> USE DEF DeliveryInv, Types, tables, locals, history
  <1>0. Types'
    BY TypesStep
  <1>1. ASSUME NEW r \in Run, Write(r)
        PROVE  DeliveryInv'
    BY <1>1, WriteDelivers
  <1>2. ASSUME UNCHANGED <<wrote, raced>>
        PROVE  Covered' = Covered /\ WritesAreGapless'
    BY <1>2 DEF Covered, Delivered, WritesAreGapless
  <1>3. ASSUME NEW r \in Run, Prepare(r)
        PROVE  DeliveryInv'
    <2>0. Covered' = Covered /\ WritesAreGapless'
      BY <1>2, <1>3 DEF Prepare
    <2>1. PrevIsDelivered'
      BY <1>3, <2>0 DEF Prepare, PrevIsDelivered, WatermarkCoversDelivery, Watermark, Covered
    <2>2. LazyViewIsCovered'
      BY <1>3 DEF Prepare, LazyViewIsCovered, View
    <2> QED
      BY <1>0, <1>3, <2>0, <2>1, <2>2
      DEF Prepare, NothingWrittenYet, CandIsDelivered, WatermarkCoversDelivery, Covered
  <1>4. ASSUME NEW r \in Run, Candidate(r)
        PROVE  DeliveryInv'
    <2>0. Covered' = Covered /\ WritesAreGapless'
      BY <1>2, <1>4 DEF Candidate
    <2>1. cand'[r] \in Nat => cand'[r] \in wrote[r] \/ cand'[r] \in View(prev[r])
      BY <1>4, ValuelessAssumption DEF Candidate
    <2>2. ASSUME cand'[r] \in Nat, cand'[r] \in View(prev[r]), r \notin Cached
          PROVE  1..cand'[r] \subseteq Covered
      <3> SUFFICES ASSUME NEW n \in 1..cand'[r]
                   PROVE  n \in Covered
        OBVIOUS
      <3>1. n \in View(prev[r]) \/ (prev[r] \in Nat /\ n \in 1..prev[r])
        BY <2>2, MaxRowAssumption DEF View
      <3>2. View(prev[r]) \subseteq Covered
        BY <1>4, <2>2 DEF Candidate, LazyViewIsCovered, Covered, Delivered
      <3> QED
        BY <3>1, <3>2 DEF PrevIsDelivered
    <2>3. r \in Cached /\ cand'[r] \in Nat => cand'[r] \in wrote[r]
      BY <1>4, ValuelessAssumption DEF Candidate
    <2>4. cand'[r] \in Nat => 1..cand'[r] \subseteq Covered
      BY <2>1, <2>2, <2>3 DEF WritesAreGapless
    <2>5. CandIsDelivered'
      BY <1>4, <2>0, <2>4 DEF Candidate, CandIsDelivered
    <2>6. LazyViewIsCovered'
      BY <1>4 DEF Candidate, LazyViewIsCovered, View
    <2> QED
      BY <1>0, <1>4, <2>0, <2>5, <2>6
      DEF Candidate, NothingWrittenYet, PrevIsDelivered, WatermarkCoversDelivery, Covered
  <1>5. ASSUME NEW r \in Run, RecordSuccess(r) \/ RecordSkip(r) \/ RecordFailure(r)
        PROVE  DeliveryInv'
    <2>1. UNCHANGED <<locals, raced, source>>
      BY <1>5 DEF RecordSuccess, RecordSkip, RecordFailure
    <2>2. NothingWrittenYet' /\ LazyViewIsCovered'
      BY <1>5, <2>1
      DEF RecordSuccess, RecordSkip, RecordFailure, NothingWrittenYet, LazyViewIsCovered, View
    <2>3. PrevIsDelivered' /\ CandIsDelivered' /\ WritesAreGapless' /\ Covered' = Covered
      BY <1>2, <2>1 DEF PrevIsDelivered, CandIsDelivered
    <2>4. WatermarkCoversDelivery'
      BY <1>5, <2>3, NoneAssumption
      DEF RecordSuccess, RecordSkip, RecordFailure, WriteState, UpsertState,
          CandIsDelivered, WatermarkCoversDelivery, Covered
    <2> QED
      BY <1>0, <2>2, <2>3, <2>4
  <1>6. ASSUME UNCHANGED <<state, locals, raced, source>>, NothingWrittenYet',
               \A r \in Run: pc'[r] = "written" => pc[r] = "written"
        PROVE  DeliveryInv'
    <2>1. PrevIsDelivered' /\ CandIsDelivered' /\ WritesAreGapless' /\ Covered' = Covered
      BY <1>2, <1>6 DEF PrevIsDelivered, CandIsDelivered
    <2>2. LazyViewIsCovered'
      BY <1>6 DEF LazyViewIsCovered, View
    <2> QED
      BY <1>0, <1>6, <2>1, <2>2 DEF WatermarkCoversDelivery, Covered
  <1>7. ASSUME NEW r \in Run,
               PrepareFails(r) \/ CheckKey(r) \/ Acquire(r) \/ Confirm(r) \/ EndDryRun(r)
        PROVE  DeliveryInv'
    BY <1>6, <1>7
    DEF PrepareFails, CheckKey, Acquire, Confirm, EndDryRun, NothingWrittenYet
  <1>8. ASSUME NEW r \in Run, LogSuccess(r) \/ LogSkip(r) \/ LogFailure(r)
        PROVE  DeliveryInv'
    BY <1>6, <1>8 DEF LogSuccess, LogSkip, LogFailure, NothingWrittenYet
  <1>9. ASSUME NEW r \in Run, Raise(r) \/ FailureEvidenceFails(r) \/ Release(r) \/ Crash(r)
        PROVE  DeliveryInv'
    BY <1>6, <1>9 DEF Raise, FailureEvidenceFails, Release, Crash, NothingWrittenYet
  <1>10. CASE Tick \/ UNCHANGED vars
    BY <1>6, <1>10 DEF Tick, vars, NothingWrittenYet
  <1>11. CASE Arrive
    BY <1>11, ArriveIsCovered
  <1> QED
    BY <1>1, <1>3, <1>4, <1>5, <1>7, <1>8, <1>9, <1>10, <1>11 DEF Next, Step, Finished

\* No data loss beyond the race of a lazy view: the watermark which the state
\* table offers to the next run covers rows that were written, or that arrived
\* between the write and the MAX of a run without cache_source, whatever
\* failed, died, overlapped or came out of order (finalize_success takes the
\* MAX, finalize_ingest stores it).  If every view is cached, nothing races.
THEOREM NoRowIsSkipped == Spec => []WatermarkCoversDelivery
  <1>1. DeliveryInv /\ [Next]_vars => DeliveryInv'
    BY DeliveryStep
  <1>2. DeliveryInv => WatermarkCoversDelivery
    BY DEF DeliveryInv
  <1> QED
    BY <1>1, <1>2, DeliveryInit, PTL DEF Spec

\* With cache_source on every run no row races, so that the watermark covers
\* what was written.
THEOREM CachedViewsLoseNothing ==
  ASSUME Run \subseteq Cached
  PROVE  Spec => [](state.watermark \in Nat => 1..state.watermark \subseteq Delivered)
  <1>1. Init => raced = {}
    BY DEF Init
  <1>2. raced = {} /\ [Next]_vars => (raced = {})'
    <2> SUFFICES ASSUME raced = {}, [Next]_vars
                 PROVE  raced' = {}
      OBVIOUS
    <2>1. CASE Arrive
      BY <2>1 DEF Arrive
    <2>2. CASE raced' = raced
      BY <2>2
    <2>3. ASSUME NEW r \in Run, Step(r)
          PROVE  raced' = raced
      BY <2>3
      DEF Step, Prepare, PrepareFails, CheckKey, Acquire, Confirm, EndDryRun, Write, Candidate,
          LogSuccess, RecordSuccess, LogSkip, RecordSkip, LogFailure, RecordFailure, Release,
          history
    <2>4. ASSUME NEW r \in Run, Raise(r) \/ FailureEvidenceFails(r) \/ Crash(r)
          PROVE  raced' = raced
      BY <2>4 DEF Raise, FailureEvidenceFails, Crash, history
    <2>5. CASE Tick \/ UNCHANGED vars
      BY <2>5 DEF Tick, vars, history
    <2> QED
      BY <2>1, <2>2, <2>3, <2>4, <2>5 DEF Next, Finished
  <1>3. WatermarkCoversDelivery /\ raced = {}
        => (state.watermark \in Nat => 1..state.watermark \subseteq Delivered)
    BY DEF WatermarkCoversDelivery
  <1> QED
    BY <1>1, <1>2, <1>3, NoRowIsSkipped, PTL DEF Spec

-----------------------------------------------------------------------------
(* The lock *)

\* The invariant of IngestLock_proofs, restated for the lock variables of the
\* runs: a theorem of an instantiated module cannot be cited.
RowIsTheLastGrant ==
    \A r \in Run: lock.run = r => lease[r] # 0 /\ lock.expires = lease[r]

CurrentLeaseIsInTheRow ==
    \A r \in Run:
        lease[r] # 0 /\ now <= lease[r] /\ lockPc[r] # "done" => Lock!LockConfirmed(lock, r)

IdleHasNoLease == \A r \in Run: lockPc[r] = "idle" => lease[r] = 0

HeldHasALease == \A r \in Run: lockPc[r] = "held" => lease[r] # 0

LeaseInv ==
    /\ Lock!TypeOK
    /\ RowIsTheLastGrant
    /\ CurrentLeaseIsInTheRow
    /\ IdleHasNoLease
    /\ HeldHasALease
    /\ Lock!DoneLeavesNoLock

\* The run's own program counter and its place in the lock protocol agree.
LockFollowsRun ==
    \A r \in Run:
        /\ ~Locks(r) => lockPc[r] = "idle"
        /\ Locks(r) =>
            /\ pc[r] \in {"idle", "prepared", "checked"} => lockPc[r] = "idle"
            /\ pc[r] = "acquiring" => lockPc[r] = "merged"
            /\ pc[r] \in Writing \cup {"measured", "logged"} => lockPc[r] = "held"
            /\ pc[r] \in Skipping \cup {"finalized", "closing"} \cup Failing
               => lockPc[r] \in {"held", "refused"}
            /\ pc[r] = "done" => lockPc[r] \in {"done", "leaked"}

LockedInv == Types /\ LeaseInv /\ LockFollowsRun

\* The lock starts in the invariant of the lock.
LEMMA LeaseInvInit == Lock!Init => LeaseInv
  BY TTLAssumption, NoneAssumption
  DEF Lock!Init, LeaseInv, RowIsTheLastGrant, CurrentLeaseIsInTheRow, IdleHasNoLease,
      HeldHasALease, Lock!DoneLeavesNoLock, Lock!LockConfirmed, Lock!TypeOK,
      Lock!LockRow, Lock!NoLockRow, Lock!Pc

\* Every step of the lock protocol keeps it.
LEMMA LeaseInvStep == LeaseInv /\ [Lock!Next]_lockVars => LeaseInv'
  <1> SUFFICES ASSUME LeaseInv, [Lock!Next]_lockVars
               PROVE  LeaseInv'
    OBVIOUS
  <1> USE TTLAssumption, NoneAssumption
      DEF LeaseInv, RowIsTheLastGrant, CurrentLeaseIsInTheRow, IdleHasNoLease,
          HeldHasALease, Lock!DoneLeavesNoLock, Lock!LockConfirmed, Lock!TypeOK,
          Lock!LockRow, Lock!Pc
  <1>1. ASSUME NEW r \in Run, Lock!Merge(r)
        PROVE  LeaseInv'
    BY <1>1 DEF Lock!Merge, Lock!AcquireLock, Lock!Acquirable
  <1>2. ASSUME NEW r \in Run,
               Lock!GivesUp(r) \/ Lock!ReadBack(r) \/ Lock!ReadBackFails(r)
        PROVE  LeaseInv'
    BY <1>2 DEF Lock!GivesUp, Lock!ReadBack, Lock!ReadBackFails
  <1>3. ASSUME NEW r \in Run, Lock!Release(r)
        PROVE  LeaseInv'
    BY <1>3 DEF Lock!Release, Lock!ReleaseLock
  <1>4. ASSUME NEW r \in Run, Lock!ReleaseFails(r) \/ Lock!Crash(r)
        PROVE  LeaseInv'
    BY <1>4 DEF Lock!ReleaseFails, Lock!Crash
  <1>5. CASE Lock!Tick
    BY <1>5 DEF Lock!Tick
  <1>6. CASE UNCHANGED lockVars
    BY <1>6 DEF lockVars
  <1> QED
    BY <1>1, <1>2, <1>3, <1>4, <1>5, <1>6
    DEF Lock!Next, Lock!Finished, Lock!vars, lockVars

\* At the start the run and its place in the lock protocol agree.
LEMMA LockedInit == Init => LockedInv
  BY TypesInit, LeaseInvInit DEF Init, LockedInv, LockFollowsRun, Lock!Init

\* Each step is one step of the lock protocol or leaves its variables alone.
LEMMA LockedStep ==
  ASSUME LockedInv, [Next]_vars
  PROVE  LockFollowsRun' /\ [Lock!Next]_lockVars
  <1> DEFINE Goal == LockFollowsRun' /\ [Lock!Next]_lockVars
  <1> USE DEF LockedInv, Types, LeaseInv, LockFollowsRun, Lock!TypeOK, Lock!Pc
  <1>1. ASSUME UNCHANGED lockVars, LockFollowsRun'
        PROVE  Goal
    BY <1>1
  <1>2. ASSUME NEW r \in Run,
               Prepare(r) \/ PrepareFails(r) \/ EndDryRun(r) \/ Write(r) \/ Candidate(r)
        PROVE  Goal
    <2>1. UNCHANGED lockVars
      BY <1>2 DEF Prepare, PrepareFails, EndDryRun, Write, Candidate
    <2> QED
      BY <1>1, <1>2, <2>1 DEF lockVars, Prepare, PrepareFails, EndDryRun, Write, Candidate
  <1>3. ASSUME NEW r \in Run,
               \/ LogSuccess(r) \/ RecordSuccess(r) \/ LogSkip(r) \/ RecordSkip(r)
               \/ LogFailure(r) \/ RecordFailure(r) \/ FailureEvidenceFails(r)
        PROVE  Goal
    <2> USE DEF LogSuccess, RecordSuccess, LogSkip, RecordSkip, LogFailure,
                RecordFailure, FailureEvidenceFails
    <2>1. UNCHANGED lockVars
      BY <1>3
    <2> QED
      BY <1>1, <1>3, <2>1 DEF lockVars
  <1>4. ASSUME NEW r \in Run, CheckKey(r)
        PROVE  Goal
    BY <1>4 DEF CheckKey, LeaveUnlocked, Lock!GivesUp, Lock!Next, lockVars
  <1>5. ASSUME NEW r \in Run, Acquire(r)
        PROVE  Goal
    BY <1>5 DEF Acquire, Lock!Merge, Lock!Next, lockVars, Locks
  <1>6. ASSUME NEW r \in Run, Confirm(r)
        PROVE  Goal
    BY <1>6 DEF Confirm, Lock!ReadBack, Lock!Next, lockVars
  <1>7. ASSUME NEW r \in Run, Raise(r)
        PROVE  Goal
    BY <1>7 DEF Raise, Lock!GivesUp, Lock!ReadBackFails, Lock!Next, lockVars
  <1>8. ASSUME NEW r \in Run, Release(r)
        PROVE  Goal
    BY <1>8 DEF Release, Lock!Release, Lock!ReleaseFails, Lock!Next, lockVars
  <1>9. ASSUME NEW r \in Run, Crash(r)
        PROVE  Goal
    BY <1>9 DEF Crash, Lock!Crash, Lock!Next, lockVars
  <1>10. CASE Arrive
    BY <1>1, <1>10 DEF Arrive, lockVars
  <1>11. CASE Tick
    BY <1>11 DEF Tick, Lock!Tick, Lock!Next, lockVars
  <1>12. CASE UNCHANGED vars
    BY <1>1, <1>12 DEF vars, lockVars
  <1> QED
    BY <1>2, <1>3, <1>4, <1>5, <1>6, <1>7, <1>8, <1>9, <1>10, <1>11, <1>12
    DEF Next, Step, Finished

\* The run and its place in the lock protocol agree throughout, so that the
\* invariant of the lock holds in the run (orchestrator.py, _acquire_lock).
THEOREM LockedInvariance == Spec => []LockedInv
  <1>1. LockedInv /\ [Next]_vars => LockedInv'
    BY LockedStep, LeaseInvStep, TypesStep DEF LockedInv
  <1> QED
    BY <1>1, LockedInit, PTL DEF Spec

\* Every variable has its type in every reachable state.
THEOREM RunTypes == Spec => []TypeOK
  <1>1. LockedInv => TypeOK
    BY DEF LockedInv, LeaseInv, Types, TypeOK
  <1> QED
    BY <1>1, LockedInvariance, PTL

\* The orchestrator drives the lock as IngestLock allows: what is proved of the
\* lock holds of the runs (_acquire_lock and _release_lock).
THEOREM RunImplementsLock == Spec => LockSpec
  <1>1. Init => Lock!Init
    BY DEF Init
  <1>2. LockedInv /\ [Next]_vars => [Lock!Next]_(Lock!vars)
    BY LockedStep DEF lockVars, Lock!vars
  <1> QED
    BY <1>1, <1>2, LockedInvariance, PTL DEF Spec, LockSpec, Lock!Spec

\* With lock_enabled two runs are in the write flow together only if one of
\* them has outlived its lease.
THEOREM RunsWriteExclusively == Spec => []WritesAreExclusive
  <1>1. LockedInv => WritesAreExclusive
    <2> SUFFICES ASSUME LockedInv, LockEnabled,
                        NEW a \in Run \ DryRun, NEW b \in Run \ DryRun,
                        pc[a] \in Writing, pc[b] \in Writing,
                        a \notin Lock!Lapsed, b \notin Lock!Lapsed
                 PROVE  a = b
      BY DEF WritesAreExclusive
    <2>1. lockPc[a] = "held" /\ lockPc[b] = "held"
      BY DEF LockedInv, LockFollowsRun, Locks
    <2>2. Lock!LockConfirmed(lock, a) /\ Lock!LockConfirmed(lock, b)
      BY <2>1 DEF LockedInv, LeaseInv, Lock!TypeOK, HeldHasALease,
                  CurrentLeaseIsInTheRow, Lock!Lapsed
    <2> QED
      BY <2>2 DEF Lock!LockConfirmed
  <1> QED
    BY <1>1, LockedInvariance, PTL

\* Whatever raised, a run whose finally block ran and whose release did not
\* fail leaves no ACTIVE row: not its own, and none if it never locked.
THEOREM EndedRunsReleased == Spec => []EndedRunsHoldNoLock
  <1>1. LockedInv => EndedRunsHoldNoLock
    <2> SUFFICES ASSUME LockedInv, NEW r \in Run, pc[r] = "done", lockPc[r] # "leaked"
                 PROVE  ~LockConfirmed(lock, r)
      BY DEF EndedRunsHoldNoLock
    <2> USE DEF LockedInv, LeaseInv, LockFollowsRun, LockConfirmed
    <2>1. CASE Locks(r)
      BY <2>1 DEF Lock!DoneLeavesNoLock, Lock!LockConfirmed
    <2>2. CASE ~Locks(r)
      BY <2>2 DEF IdleHasNoLease, RowIsTheLastGrant
    <2> QED
      BY <2>1, <2>2
  <1> QED
    BY <1>1, LockedInvariance, PTL

-----------------------------------------------------------------------------
(* The evidence *)

Logged(r, status) == \E row \in runs: row.run = r /\ row.status = status

\* A run logs a success only after its commit, under its own key.
SuccessRowsAreTrue ==
    \A row \in runs:
        row.status = "SUCCESS" => row.run \in committed /\ row.key = KeyOf[row.run]

\* The position of a run tells what it has committed and logged.
PositionTells ==
    \A r \in Run:
        /\ pc[r] = "idle" => r \notin committed
        /\ pc[r] \in {"written", "measured", "logged"} => r \in committed
        /\ pc[r] = "logged" => Logged(r, "SUCCESS")
        /\ pc[r] = "skipLogged" => Logged(r, "SKIPPED")
        /\ pc[r] = "failLogged" => Logged(r, "FAILED")
        /\ pc[r] = "skipping" => \E q \in committed: KeyOf[q] = KeyOf[r]

\* A success that reached the state row is in the run log.
SucceededIsLogged ==
    \A r \in succeeded: \E row \in FindIdempotentRun(runs, KeyOf[r]): row.run = r

EarlierSucceeded == \A r \in Run: earlier[r] \subseteq succeeded

Replays(a, b) ==
    a \in earlier[b] /\ KeyOf[a] = KeyOf[b] /\ KeyOf[a] # None /\ Policy # "always_run"

\* A replay does not get past the idempotency look-up.
ReplayStopsEarly ==
    \A a, b \in Run: Replays(a, b) =>
        /\ b \notin committed
        /\ pc[b] \notin {"idle", "checked", "acquiring"} \cup Writing \cup {"measured", "logged"}

EvidenceInv ==
    /\ Types
    /\ SuccessRowsAreTrue
    /\ PositionTells
    /\ SucceededIsLogged
    /\ EarlierSucceeded
    /\ ReplayStopsEarly
    /\ StateFollowsLog
    /\ SkippedMeansDelivered

\* The fields of a run-log row.
LEMMA RowOfRun ==
  ASSUME NEW r, NEW key, NEW status
  PROVE  /\ RunLogRow(r, key, status).run = r
         /\ RunLogRow(r, key, status).key = key
         /\ RunLogRow(r, key, status).status = status
  BY Zenon DEF RunLogRow

\* There is no evidence at the start.
LEMMA EvidenceInit == Init => EvidenceInv
  BY TypesInit
  DEF Init, EvidenceInv, SuccessRowsAreTrue, PositionTells, SucceededIsLogged,
      EarlierSucceeded, ReplayStopsEarly, Replays, StateFollowsLog,
      SkippedMeansDelivered, NoStateRow

\* Every step keeps the evidence true.
LEMMA EvidenceStep == EvidenceInv /\ [Next]_vars => EvidenceInv'
  <1> SUFFICES ASSUME EvidenceInv, [Next]_vars
               PROVE  EvidenceInv'
    OBVIOUS
  <1> USE DEF EvidenceInv, Types, SuccessRowsAreTrue, PositionTells, SucceededIsLogged,
              EarlierSucceeded, ReplayStopsEarly, Replays, StateFollowsLog,
              SkippedMeansDelivered, FindIdempotentRun,
              WriteState, UpsertState, tables, locals, history
  <1>0. Types'
    BY TypesStep
  <1>1. ASSUME NEW r \in Run, Prepare(r)
        PROVE  EvidenceInv'
    <2>1. ReplayStopsEarly'
      BY <1>1 DEF Prepare
    <2>2. PositionTells' /\ EarlierSucceeded'
      BY <1>1 DEF Prepare, Logged
    <2> QED
      BY <1>0, <1>1, <2>1, <2>2 DEF Prepare
  <1>2. ASSUME NEW r \in Run, PrepareFails(r)
        PROVE  EvidenceInv'
    BY <1>0, <1>2 DEF PrepareFails, Logged
  <1>3. ASSUME NEW r \in Run, CheckKey(r)
        PROVE  EvidenceInv'
    BY <1>0, <1>3 DEF CheckKey, Logged
  <1>4. ASSUME NEW r \in Run, Acquire(r) \/ Confirm(r) \/ EndDryRun(r)
        PROVE  EvidenceInv'
    BY <1>0, <1>4 DEF Acquire, Confirm, EndDryRun, Logged
  <1>5. ASSUME NEW r \in Run, Write(r)
        PROVE  EvidenceInv'
    BY <1>0, <1>5 DEF Write, Logged
  <1>6. ASSUME NEW r \in Run, Candidate(r)
        PROVE  EvidenceInv'
    BY <1>0, <1>6 DEF Candidate, Logged
  <1>7. ASSUME NEW r \in Run, LogSuccess(r)
        PROVE  EvidenceInv'
    <2> USE RowOfRun
    <2>1. pc'[r] = "logged" => Logged(r, "SUCCESS")'
      BY <1>7 DEF LogSuccess, Logged
    <2>2. \A q \in Run, s \in Status: Logged(q, s) => Logged(q, s)'
      BY <1>7 DEF LogSuccess, Logged
    <2>3. PositionTells'
      BY <1>7, <2>1, <2>2 DEF LogSuccess, Status
    <2>4. StateFollowsLog' /\ SkippedMeansDelivered'
      BY <1>7, <2>2 DEF LogSuccess
    <2> QED
      BY <1>0, <1>7, <2>3, <2>4 DEF LogSuccess
  <1>8. ASSUME NEW r \in Run, RecordSuccess(r)
        PROVE  EvidenceInv'
    BY <1>0, <1>8 DEF RecordSuccess, Logged
  <1>9. ASSUME NEW r \in Run, LogSkip(r)
        PROVE  EvidenceInv'
    <2> USE RowOfRun
    <2>1. pc'[r] = "skipLogged" => Logged(r, "SKIPPED")'
      BY <1>9 DEF LogSkip, Logged
    <2>2. \A q \in Run, s \in Status: Logged(q, s) => Logged(q, s)'
      BY <1>9 DEF LogSkip, Logged
    <2>3. PositionTells'
      BY <1>9, <2>1, <2>2 DEF LogSkip, Status
    <2>4. StateFollowsLog' /\ SkippedMeansDelivered'
      BY <1>9, <2>2 DEF LogSkip
    <2> QED
      BY <1>0, <1>9, <2>3, <2>4 DEF LogSkip
  <1>10. ASSUME NEW r \in Run, LogFailure(r)
        PROVE  EvidenceInv'
    <2> USE RowOfRun
    <2>1. pc'[r] = "failLogged" => Logged(r, "FAILED")'
      BY <1>10 DEF LogFailure, Logged
    <2>2. \A q \in Run, s \in Status: Logged(q, s) => Logged(q, s)'
      BY <1>10 DEF LogFailure, Logged
    <2>3. PositionTells'
      BY <1>10, <2>1, <2>2 DEF LogFailure, Status
    <2>4. StateFollowsLog' /\ SkippedMeansDelivered'
      BY <1>10, <2>2 DEF LogFailure
    <2> QED
      BY <1>0, <1>10, <2>3, <2>4 DEF LogFailure
  <1>11. ASSUME NEW r \in Run, RecordSkip(r) \/ RecordFailure(r)
        PROVE  EvidenceInv'
    BY <1>0, <1>11 DEF RecordSkip, RecordFailure, Logged
  <1>12. ASSUME NEW r \in Run, Raise(r) \/ FailureEvidenceFails(r) \/ Release(r) \/ Crash(r)
        PROVE  EvidenceInv'
    BY <1>0, <1>12 DEF Raise, FailureEvidenceFails, Release, Crash, Logged
  <1>13. CASE Arrive \/ Tick \/ UNCHANGED vars
    BY <1>0, <1>13 DEF Arrive, Tick, vars, Logged
  <1> QED
    BY <1>1, <1>2, <1>3, <1>4, <1>5, <1>6, <1>7, <1>8, <1>9, <1>10, <1>11, <1>12, <1>13
    DEF Next, Step, Finished

\* Run log, state row and position of a run agree throughout
\* (finalization.py and the success, skip and failure paths).
THEOREM EvidenceInvariance == Spec => []EvidenceInv
  BY EvidenceInit, EvidenceStep, PTL DEF Spec

\* The state row repeats the run log, and its SUCCESS means a commit
\* (finalize_ingest writes the run log before the state).
THEOREM StateRowFollowsLog == Spec => []StateFollowsLog
  BY EvidenceInvariance, PTL DEF EvidenceInv

\* A replay of a recorded success never writes (_idempotency_skip).
THEOREM ReplayNeverWrites == Spec => []ReplayDeliversNothing
  <1>1. EvidenceInv => ReplayDeliversNothing
    BY DEF EvidenceInv, ReplayStopsEarly, Replays, ReplayDeliversNothing
  <1> QED
    BY <1>1, EvidenceInvariance, PTL

\* What is skipped was delivered by a run of the same key (_idempotency_skip).
THEOREM SkipsAreJustified == Spec => []SkippedMeansDelivered
  BY EvidenceInvariance, PTL DEF EvidenceInv

-----------------------------------------------------------------------------
(* Dry runs *)

\* A dry run does not come to a statement that writes, and has left nothing.
DryRunStaysOutside ==
    \A r \in DryRun:
        /\ pc[r] \notin {"written", "measured", "logged", "skipLogged", "failLogged"}
        /\ r \notin committed /\ wrote[r] = {} /\ state.run # r
        /\ \A row \in runs: row.run # r

DryRunInv == Types /\ DryRunStaysOutside

\* There is no trace at the start.
LEMMA DryRunInit == Init => DryRunInv
  BY TypesInit, DryRunAssumption, NoneAssumption
  DEF Init, DryRunInv, DryRunStaysOutside, NoStateRow

\* No step of any run leaves a trace of a dry run.
LEMMA DryRunStep == DryRunInv /\ [Next]_vars => DryRunInv'
  <1> SUFFICES ASSUME DryRunInv, [Next]_vars
               PROVE  DryRunInv'
    OBVIOUS
  <1> USE DryRunAssumption
      DEF DryRunInv, Types, DryRunStaysOutside, tables, locals, history
  <1>0. Types'
    BY TypesStep
  <1>1. ASSUME NEW r \in Run, Prepare(r) \/ PrepareFails(r) \/ CheckKey(r)
        PROVE  DryRunInv'
    BY <1>0, <1>1 DEF Prepare, PrepareFails, CheckKey
  <1>2. ASSUME NEW r \in Run, Acquire(r) \/ Confirm(r) \/ EndDryRun(r)
        PROVE  DryRunInv'
    BY <1>0, <1>2 DEF Acquire, Confirm, EndDryRun
  <1>3. ASSUME NEW r \in Run, Write(r) \/ Candidate(r)
        PROVE  DryRunInv'
    BY <1>0, <1>3 DEF Write, Candidate
  <1>4. ASSUME NEW r \in Run, LogSuccess(r) \/ LogSkip(r) \/ LogFailure(r)
        PROVE  DryRunInv'
    BY <1>0, <1>4, RowOfRun DEF LogSuccess, LogSkip, LogFailure
  <1>5. ASSUME NEW r \in Run, RecordSuccess(r) \/ RecordSkip(r) \/ RecordFailure(r)
        PROVE  DryRunInv'
    BY <1>0, <1>5 DEF RecordSuccess, RecordSkip, RecordFailure, WriteState, UpsertState
  <1>6. ASSUME NEW r \in Run, Raise(r) \/ FailureEvidenceFails(r) \/ Release(r) \/ Crash(r)
        PROVE  DryRunInv'
    BY <1>0, <1>6 DEF Raise, FailureEvidenceFails, Release, Crash
  <1>7. CASE Arrive \/ Tick \/ UNCHANGED vars
    BY <1>0, <1>7 DEF Arrive, Tick, vars
  <1> QED
    BY <1>1, <1>2, <1>3, <1>4, <1>5, <1>6, <1>7 DEF Next, Step, Finished

\* A dry run leaves no trace in the target or the control tables, and does not
\* even take the lock (the opts.dry_run branches of orchestrator.py).
THEOREM DryRunsLeaveNothing == Spec => []DryRunLeavesNoTrace
  <1>1. LockedInv /\ DryRunInv => DryRunLeavesNoTrace
    BY DryRunAssumption
    DEF LockedInv, LeaseInv, LockFollowsRun, Locks, IdleHasNoLease, RowIsTheLastGrant,
        DryRunInv, DryRunStaysOutside, DryRunLeavesNoTrace
  <1>2. Spec => []DryRunInv
    BY DryRunInit, DryRunStep, PTL DEF Spec
  <1> QED
    BY <1>1, <1>2, LockedInvariance, PTL

-----------------------------------------------------------------------------
(* Duplicates *)

\* A run writes beyond its previous watermark only.
WritesAreBeyondPrev == \A r \in Run: wrote[r] \subseteq View(prev[r])

\* The candidate that a run is about to record is the last row it wrote, or a
\* later one.
CandidateIsLast ==
    \A r \in Run: pc[r] \in {"measured", "logged"} =>
        \A m \in wrote[r]: cand[r] \in Nat /\ m <= cand[r]

\* A run whose success is recorded writes no more.
SucceededIsOver ==
    \A r \in succeeded: pc[r] \notin Starting \cup Writing \cup {"measured", "logged"}

\* Unless it was lowered or cleared, the watermark is beyond the recorded runs,
WatermarkIsBeyondSucceeded ==
    ~cleared =>
        \A r \in succeeded: \A m \in wrote[r]: state.watermark \in Nat /\ m <= state.watermark

\* and the previous watermark of a run beyond those recorded before it prepared.
PrevIsBeyondEarlier ==
    ~cleared =>
        \A b \in Run: \A a \in earlier[b]: \A m \in wrote[a]: prev[b] \in Nat /\ m <= prev[b]

DuplicatesInv ==
    /\ Types
    /\ NothingWrittenYet
    /\ EarlierSucceeded
    /\ WritesAreBeyondPrev
    /\ CandidateIsLast
    /\ SucceededIsOver
    /\ WatermarkIsBeyondSucceeded
    /\ PrevIsBeyondEarlier

\* Nothing is written at the start.
LEMMA DuplicatesInit == Init => DuplicatesInv
  BY TypesInit
  DEF Init, DuplicatesInv, NothingWrittenYet, EarlierSucceeded, WritesAreBeyondPrev,
      CandidateIsLast, SucceededIsOver, WatermarkIsBeyondSucceeded, PrevIsBeyondEarlier

\* Every step keeps the watermarks beyond the recorded writes.
LEMMA DuplicatesStep == DuplicatesInv /\ [Next]_vars => DuplicatesInv'
  <1> SUFFICES ASSUME DuplicatesInv, [Next]_vars
               PROVE  DuplicatesInv'
    OBVIOUS
  <1> USE DEF DuplicatesInv, Types, tables, locals, history
  <1>0. Types'
    BY TypesStep
  <1>1. ASSUME NEW r \in Run, Prepare(r)
        PROVE  DuplicatesInv'
    <2> USE DEF Prepare
    <2>1. wrote[r] = {} /\ r \notin succeeded
      BY <1>1 DEF NothingWrittenYet, SucceededIsOver
    <2>2. NothingWrittenYet' /\ EarlierSucceeded' /\ CandidateIsLast' /\ SucceededIsOver'
      BY <1>1, <2>1 DEF NothingWrittenYet, EarlierSucceeded, CandidateIsLast, SucceededIsOver
    <2>3. WritesAreBeyondPrev'
      BY <1>1, <2>1 DEF WritesAreBeyondPrev, View
    <2>4. WatermarkIsBeyondSucceeded' /\ PrevIsBeyondEarlier'
      BY <1>1 DEF WatermarkIsBeyondSucceeded, PrevIsBeyondEarlier
    <2> QED
      BY <1>0, <2>2, <2>3, <2>4
  <1>2. ASSUME NEW r \in Run, Write(r)
        PROVE  DuplicatesInv'
    <2> USE DEF Write
    <2>1. r \notin succeeded
      BY <1>2 DEF SucceededIsOver
    <2>2. NothingWrittenYet' /\ EarlierSucceeded' /\ CandidateIsLast' /\ SucceededIsOver'
      BY <1>2, <2>1 DEF NothingWrittenYet, EarlierSucceeded, CandidateIsLast, SucceededIsOver
    <2>3. WritesAreBeyondPrev'
      BY <1>2 DEF WritesAreBeyondPrev, View
    <2>4. WatermarkIsBeyondSucceeded' /\ PrevIsBeyondEarlier'
      BY <1>2, <2>1 DEF WatermarkIsBeyondSucceeded, PrevIsBeyondEarlier, EarlierSucceeded
    <2> QED
      BY <1>0, <2>2, <2>3, <2>4
  <1>3. ASSUME NEW r \in Run, Candidate(r)
        PROVE  DuplicatesInv'
    <2>1. \A m \in wrote[r]: cand'[r] \in Nat /\ m <= cand'[r]
      BY <1>3, MaxRowAssumption DEF Candidate, WritesAreBeyondPrev, View, Row
    <2>2. CandidateIsLast'
      BY <1>3, <2>1 DEF Candidate, CandidateIsLast
    <2>3. UNCHANGED <<source, prev, wrote, succeeded, earlier, state, cleared>>
      BY <1>3 DEF Candidate
    <2>4. NothingWrittenYet' /\ SucceededIsOver'
      BY <1>3 DEF Candidate, NothingWrittenYet, SucceededIsOver
    <2> QED
      BY <1>0, <2>2, <2>3, <2>4
      DEF EarlierSucceeded, WritesAreBeyondPrev, View, WatermarkIsBeyondSucceeded,
          PrevIsBeyondEarlier
  <1>4. ASSUME NEW r \in Run, RecordSuccess(r)
        PROVE  DuplicatesInv'
    <2> USE DEF RecordSuccess, WriteState, UpsertState
    <2>1. NothingWrittenYet' /\ EarlierSucceeded' /\ CandidateIsLast' /\ SucceededIsOver'
      BY <1>4 DEF NothingWrittenYet, EarlierSucceeded, CandidateIsLast, SucceededIsOver
    <2>2. ~cleared' => ~cleared /\ ~Lowers(state.watermark, cand[r])
      BY <1>4
    <2>3. WatermarkIsBeyondSucceeded'
      BY <1>4, <2>2
      DEF WatermarkIsBeyondSucceeded, CandidateIsLast, Lowers, Row, Watermark
    <2>4. WritesAreBeyondPrev' /\ PrevIsBeyondEarlier'
      BY <1>4, <2>2 DEF WritesAreBeyondPrev, View, PrevIsBeyondEarlier
    <2> QED
      BY <1>0, <2>1, <2>3, <2>4
  <1>5. ASSUME NEW r \in Run, RecordSkip(r) \/ RecordFailure(r)
        PROVE  DuplicatesInv'
    <2> USE DEF RecordSkip, RecordFailure, WriteState, UpsertState
    <2>1. NothingWrittenYet' /\ EarlierSucceeded' /\ CandidateIsLast' /\ SucceededIsOver'
      BY <1>5 DEF NothingWrittenYet, EarlierSucceeded, CandidateIsLast, SucceededIsOver
    <2>2. ~cleared' => ~cleared /\ ~Lowers(state.watermark, None)
      BY <1>5
    <2>3. WatermarkIsBeyondSucceeded'
      BY <1>5, <2>2, NoneAssumption DEF WatermarkIsBeyondSucceeded, Lowers
    <2>4. WritesAreBeyondPrev' /\ PrevIsBeyondEarlier'
      BY <1>5, <2>2 DEF WritesAreBeyondPrev, View, PrevIsBeyondEarlier
    <2> QED
      BY <1>0, <2>1, <2>3, <2>4
  <1>6. ASSUME UNCHANGED <<source, prev, wrote, cand, succeeded, earlier, state, cleared>>,
               NothingWrittenYet', CandidateIsLast', SucceededIsOver'
        PROVE  DuplicatesInv'
    BY <1>0, <1>6
    DEF EarlierSucceeded, WritesAreBeyondPrev, View, WatermarkIsBeyondSucceeded,
        PrevIsBeyondEarlier
  <1> USE DEF NothingWrittenYet, CandidateIsLast, SucceededIsOver
  <1>7. ASSUME NEW r \in Run,
               PrepareFails(r) \/ CheckKey(r) \/ Acquire(r) \/ Confirm(r) \/ EndDryRun(r)
        PROVE  DuplicatesInv'
    BY <1>6, <1>7 DEF PrepareFails, CheckKey, Acquire, Confirm, EndDryRun
  <1>8. ASSUME NEW r \in Run, LogSuccess(r) \/ LogSkip(r) \/ LogFailure(r)
        PROVE  DuplicatesInv'
    BY <1>6, <1>8 DEF LogSuccess, LogSkip, LogFailure
  <1>9. ASSUME NEW r \in Run, Raise(r) \/ FailureEvidenceFails(r) \/ Release(r) \/ Crash(r)
        PROVE  DuplicatesInv'
    BY <1>6, <1>9 DEF Raise, FailureEvidenceFails, Release, Crash
  <1>10. CASE Arrive
    <2>1. WritesAreBeyondPrev'
      BY <1>10 DEF Arrive, WritesAreBeyondPrev, View
    <2> QED
      BY <1>0, <1>10, <2>1
      DEF Arrive, EarlierSucceeded, WatermarkIsBeyondSucceeded, PrevIsBeyondEarlier
  <1>11. CASE Tick \/ UNCHANGED vars
    BY <1>6, <1>11 DEF Tick, vars
  <1> QED
    BY <1>1, <1>2, <1>3, <1>4, <1>5, <1>7, <1>8, <1>9, <1>10, <1>11 DEF Next, Step, Finished

\* Without the lock and whatever fails, a row is written twice only by runs that
\* overlapped, or after the watermark was lowered or cleared (the watermark read
\* by prepare_contract_source_view and written by finalize_ingest).
THEOREM DuplicatesAreExplained == Spec => []DuplicatesNeedOverlapOrReset
  <1>1. ASSUME DuplicatesInv, ~cleared, NEW a \in Run, NEW b \in Run, a \in earlier[b],
               NEW m \in wrote[a] \cap wrote[b]
        PROVE  FALSE
    BY <1>1, NoneAssumption, MaxRowAssumption
    DEF DuplicatesInv, Types, Row, PrevIsBeyondEarlier, WritesAreBeyondPrev, View
  <1>2. DuplicatesInv => DuplicatesNeedOverlapOrReset
    BY <1>1 DEF DuplicatesNeedOverlapOrReset
  <1>3. Spec => []DuplicatesInv
    BY DuplicatesInit, DuplicatesStep, PTL DEF Spec
  <1> QED
    BY <1>2, <1>3, PTL

-----------------------------------------------------------------------------
(* Order of the successes *)

\* A SUCCESS in the state row is the recorded success of a run.
SuccessTells == state.status = "SUCCESS" /\ state.watermark \in Nat => state.run \in succeeded

\* With the lock, a success was recorded after the MERGE of the lock.
SucceededLocked == LockEnabled => \A r \in succeeded: lockPc[r] # "idle"

\* Marks and rows have arrived at the source.
MarksArrived ==
    /\ state.watermark \in Nat => state.watermark <= source
    /\ \A r \in Run: wrote[r] \subseteq 1..source /\ (cand[r] \in Nat => cand[r] <= source)

\* The state row is that of a success whose lease, like that of r, has not
\* lapsed.
Compares(r) ==
    /\ LockEnabled
    /\ state.status = "SUCCESS" /\ state.watermark \in Nat
    /\ state.run \notin Lock!Lapsed /\ r \notin Lock!Lapsed

\* Then r, who has the lock, read its source after the success: what it wrote
\* or is about to record goes as far.
WritesGoFurther ==
    \A r \in Run: Compares(r) =>
        /\ pc[r] = "written" => wrote[r] = {} \/ \E m \in wrote[r]: state.watermark <= m
        /\ pc[r] \in {"measured", "logged"} /\ cand[r] \in Nat => state.watermark <= cand[r]

ForwardInv == SuccessTells /\ SucceededLocked /\ MarksArrived /\ WritesGoFurther

\* What the invariant rests on.
Settled == LockedInv /\ DryRunInv /\ DuplicatesInv

LEMMA ForwardInit == Init => ForwardInv
  BY NoneAssumption
  DEF Init, NoStateRow, ForwardInv, SuccessTells, SucceededLocked, MarksArrived, WritesGoFurther, Compares

\* A lease that has lapsed stays so.
LEMMA LapsedStays ==
    ASSUME LockedInv, [Next]_vars, NEW r \in Run, lockPc[r] # "idle", r \notin Lock!Lapsed'
    PROVE  r \notin Lock!Lapsed
  <1>1. [Lock!Next]_lockVars
    BY LockedStep
  <1>2. now \in Nat /\ now' \in Nat /\ now <= now' /\ lease'[r] = lease[r] /\ lease[r] \in Nat
    BY <1>1
    DEF Lock!Next, Lock!Merge, Lock!GivesUp, Lock!ReadBack, Lock!ReadBackFails, Lock!Release,
        Lock!ReleaseFails, Lock!Crash, Lock!Tick, Lock!Finished, Lock!vars, lockVars, LockedInv,
        LeaseInv, Lock!TypeOK
  <1> QED
    BY <1>2 DEF Lock!Lapsed

\* Within their leases, two runs are not both between lock and state row.
LEMMA OneWithinLease ==
    ASSUME Settled, LockEnabled, NEW a \in Run, NEW b \in Run,
           a \notin Lock!Lapsed, b \notin Lock!Lapsed,
           pc[a] \in {"written", "measured", "logged"}, pc[b] \in {"written", "measured", "logged"}
    PROVE  a = b
  <1>1. a \notin DryRun /\ b \notin DryRun
    BY DEF Settled, DryRunInv, DryRunStaysOutside
  <1>2. lockPc[a] = "held" /\ lockPc[b] = "held"
    BY <1>1 DEF Settled, LockedInv, LockFollowsRun, Locks
  <1>3. Lock!LockConfirmed(lock, a) /\ Lock!LockConfirmed(lock, b)
    BY <1>2 DEF Settled, LockedInv, LeaseInv, Lock!TypeOK, HeldHasALease, CurrentLeaseIsInTheRow,
                Lock!Lapsed
  <1> QED
    BY <1>3 DEF Lock!LockConfirmed

\* A run that has left the state "idle" of the lock does not come back to it.
LEMMA MergeIsOnce ==
    ASSUME LockedInv, [Next]_vars, NEW r \in Run, lockPc[r] # "idle"
    PROVE  lockPc'[r] # "idle"
  <1>1. [Lock!Next]_lockVars
    BY LockedStep
  <1> QED
    BY <1>1
    DEF Lock!Next, Lock!Merge, Lock!GivesUp, Lock!ReadBack, Lock!ReadBackFails, Lock!Release,
        Lock!ReleaseFails, Lock!Crash, Lock!Tick, Lock!Finished, Lock!vars, lockVars, LockedInv,
        LeaseInv, Lock!TypeOK

\* Between the write and the state row a run has the lock.
LEMMA WritersHoldTheLock ==
    ASSUME Settled, LockEnabled, NEW r \in Run, pc[r] \in {"written", "measured", "logged"}
    PROVE  lockPc[r] = "held"
  <1>1. r \notin DryRun
    BY DEF Settled, DryRunInv, DryRunStaysOutside
  <1> QED
    BY <1>1 DEF Settled, LockedInv, LockFollowsRun, Locks

\* Every step keeps the order.
LEMMA ForwardStep ==
    ASSUME Settled, ForwardInv, [Next]_vars
    PROVE  ForwardInv'
  <1> USE DEF ForwardInv, tables, locals, history
  <1>0. /\ Types /\ Types' /\ LockedInv /\ NothingWrittenYet /\ SucceededIsOver
        /\ SuccessTells /\ SucceededLocked /\ MarksArrived /\ WritesGoFurther
    BY TypesStep DEF Settled, LockedInv, DuplicatesInv
  <1>1. ASSUME NEW r \in Run, Compares(r)', UNCHANGED state,
               LockEnabled => lockPc[r] # "idle"
        PROVE  Compares(r)
    <2>1. state.run \in Run /\ lockPc[state.run] # "idle"
      BY <1>0, <1>1 DEF Compares, SuccessTells, SucceededLocked, Types
    <2> QED
      BY <1>0, <1>1, <2>1, LapsedStays DEF Compares
\* Steps of other statements keep the marks and move nobody to the write.
  <1>2. ASSUME UNCHANGED <<state, wrote, cand, succeeded>>, source <= source', source' \in Nat,
               \A r \in Run: /\ pc'[r] = "written" => pc[r] = "written"
                             /\ pc'[r] \in {"measured", "logged"} => pc[r] \in {"measured", "logged"}
        PROVE  ForwardInv'
    <2>1. SuccessTells'
      BY <1>0, <1>2 DEF SuccessTells
    <2>2. SucceededLocked'
      BY <1>0, <1>2, MergeIsOnce DEF SucceededLocked, Types
    <2>3. MarksArrived'
      BY <1>0, <1>2 DEF MarksArrived, Types, Watermark
    <2>4. WritesGoFurther'
      <3> SUFFICES ASSUME NEW r \in Run, Compares(r)', pc'[r] \in {"written", "measured", "logged"}
                   PROVE  /\ pc'[r] = "written" => wrote'[r] = {} \/ \E m \in wrote'[r]: state'.watermark <= m
                          /\ pc'[r] \in {"measured", "logged"} /\ cand'[r] \in Nat
                             => state'.watermark <= cand'[r]
        BY DEF WritesGoFurther
      <3>1. LockEnabled => lockPc[r] # "idle"
        BY <1>2, WritersHoldTheLock
      <3>2. Compares(r)
        BY <1>1, <1>2, <3>1
      <3> QED
        BY <1>0, <1>2, <3>2 DEF WritesGoFurther
    <2> QED
      BY <2>1, <2>2, <2>3, <2>4
  <1>3. ASSUME NEW r \in Run, Write(r)
        PROVE  ForwardInv'
    <2>1. /\ pc[r] = "locked" /\ r \notin DryRun /\ wrote' = [wrote EXCEPT ![r] = View(prev[r])]
          /\ pc' = [pc EXCEPT ![r] = "written"]
          /\ UNCHANGED <<lockVars, source, state, cand, succeeded>>
      BY <1>3 DEF Write
    <2>2. SuccessTells' /\ SucceededLocked'
      BY <1>0, <2>1 DEF SuccessTells, SucceededLocked, lockVars
    <2>3. wrote'[r] = View(prev[r]) /\ \A q \in Run \ {r}: wrote'[q] = wrote[q] /\ pc'[q] = pc[q]
      BY <1>0, <2>1 DEF Types
    <2>4. View(prev[r]) # {} => source \in View(prev[r])
      BY <1>0, NoneAssumption, MaxRowAssumption DEF View, Types
    <2>5. MarksArrived'
      BY <1>0, <2>1, <2>3 DEF MarksArrived, View
    <2>6. ASSUME NEW q \in Run, Compares(q)'
          PROVE  Compares(q)
      BY <2>1, <2>6 DEF Compares, Lock!Lapsed, lockVars
    <2>7. WritesGoFurther'
      BY <1>0, <2>1, <2>3, <2>4, <2>6 DEF WritesGoFurther, MarksArrived, Compares, Types
    <2> QED
      BY <2>2, <2>5, <2>7
  <1>4. ASSUME NEW r \in Run, Candidate(r)
        PROVE  ForwardInv'
    <2> DEFINE view == IF r \in Cached THEN wrote[r] ELSE View(prev[r])
    <2>1. /\ pc[r] = "written" /\ pc' = [pc EXCEPT ![r] = "measured"]
          /\ UNCHANGED <<lockVars, source, state, wrote, succeeded>>
          /\ cand' = [cand EXCEPT ![r] = cand'[r]]
          /\ \/ view = {} /\ cand'[r] = Valueless
             \/ cand'[r] \in view /\ \A n \in view: n <= cand'[r]
      BY <1>0, <1>4 DEF Candidate, Types
    <2>2. SuccessTells' /\ SucceededLocked'
      BY <1>0, <2>1 DEF SuccessTells, SucceededLocked, lockVars
    <2>3. view \subseteq 1..source
      BY <1>0 DEF MarksArrived, View
    <2>4. MarksArrived'
      BY <1>0, <2>1, <2>3, ValuelessAssumption DEF MarksArrived, Types
    <2>5. ASSUME NEW q \in Run, Compares(q)'
          PROVE  Compares(q)
      BY <2>1, <2>5 DEF Compares, Lock!Lapsed, lockVars
    <2>6. ASSUME Compares(r), cand'[r] \in Nat
          PROVE  state.watermark <= cand'[r]
      <3>1. cand'[r] \in view /\ \A n \in view: n <= cand'[r]
        BY <2>1, <2>6, ValuelessAssumption
      <3>2. CASE r \in Cached
        <4>1. PICK m \in wrote[r]: state.watermark <= m
          BY <1>0, <2>1, <2>6, <3>1, <3>2 DEF WritesGoFurther
        <4> QED
          BY <1>0, <2>6, <3>1, <3>2, <4>1, <2>3, MaxRowAssumption DEF Compares, Types
      <3>3. CASE r \notin Cached
        <4>1. source \in View(prev[r])
          BY <1>0, <3>1, <3>3, NoneAssumption, MaxRowAssumption DEF View, Types
        <4> QED
          BY <1>0, <2>6, <3>1, <3>3, <4>1, MaxRowAssumption DEF Compares, MarksArrived, Types
      <3> QED
        BY <3>2, <3>3
    <2>7. \A q \in Run \ {r}: cand'[q] = cand[q] /\ pc'[q] = pc[q]
      BY <1>0, <2>1 DEF Types
    <2>8. pc'[r] = "measured"
      BY <1>0, <2>1 DEF Types
    <2>9. WritesGoFurther'
      <3> HIDE DEF view
      <3> QED BY <1>0, <2>1, <2>5, <2>6, <2>7, <2>8 DEF WritesGoFurther
    <2> QED
      BY <2>2, <2>4, <2>9
  <1>5. ASSUME NEW r \in Run, RecordSuccess(r)
        PROVE  ForwardInv'
    <2>1. /\ pc[r] = "logged" /\ pc' = [pc EXCEPT ![r] = "finalized"]
          /\ state' = [watermark |-> cand[r], run |-> r, status |-> "SUCCESS"]
          /\ succeeded' = succeeded \cup {r}
          /\ UNCHANGED <<lockVars, source, wrote, cand>>
      BY <1>5 DEF RecordSuccess, WriteState, UpsertState
    <2>2. SuccessTells' /\ MarksArrived'
      BY <1>0, <2>1 DEF SuccessTells, MarksArrived
    <2>3. SucceededLocked'
      BY <1>0, <2>1, WritersHoldTheLock DEF SucceededLocked, lockVars
    <2>4. WritesGoFurther'
      <3> SUFFICES ASSUME NEW q \in Run, Compares(q)', pc'[q] \in {"written", "measured", "logged"}
                   PROVE  FALSE
        BY DEF WritesGoFurther
      <3>1. q # r /\ pc[q] = pc'[q]
        BY <1>0, <2>1 DEF Types
      <3>2. q \notin Lock!Lapsed /\ r \notin Lock!Lapsed /\ LockEnabled
        BY <2>1 DEF Compares, Lock!Lapsed, lockVars
      <3> QED
        BY <2>1, <3>1, <3>2, OneWithinLease
    <2> QED
      BY <2>2, <2>3, <2>4
  <1>6. ASSUME NEW r \in Run, RecordSkip(r) \/ RecordFailure(r)
        PROVE  ForwardInv'
    <2>1. /\ state'.watermark = None /\ UNCHANGED <<lockVars, source, wrote, cand, succeeded>>
      BY <1>6 DEF RecordSkip, RecordFailure, WriteState, UpsertState
    <2> QED
      BY <1>0, <2>1, NoneAssumption
      DEF SuccessTells, SucceededLocked, MarksArrived, WritesGoFurther, Compares, lockVars
  <1>7. ASSUME NEW r \in Run,
               \/ Prepare(r) \/ PrepareFails(r) \/ CheckKey(r) \/ Acquire(r) \/ Confirm(r)
               \/ EndDryRun(r) \/ LogSuccess(r)
        PROVE  ForwardInv'
    BY <1>0, <1>2, <1>7
    DEF Prepare, PrepareFails, CheckKey, Acquire, Confirm, EndDryRun, LogSuccess, Types
  <1>8. ASSUME NEW r \in Run,
               \/ LogSkip(r) \/ LogFailure(r) \/ Raise(r) \/ FailureEvidenceFails(r)
               \/ Release(r) \/ Crash(r)
        PROVE  ForwardInv'
    BY <1>0, <1>2, <1>8
    DEF LogSkip, LogFailure, Raise, FailureEvidenceFails, Release, Crash, Types
  <1>9. CASE Arrive \/ Tick \/ UNCHANGED vars
    BY <1>0, <1>2, <1>9, MaxRowAssumption DEF Arrive, Tick, vars, Types
  <1> QED
    BY <1>3, <1>4, <1>5, <1>6, <1>7, <1>8, <1>9 DEF Next, Step, Finished

\* With lock_enabled the watermarks of successes go forward, although a run
\* reads its previous watermark before it asks for the lock: who writes within
\* its lease evaluates its view after every success that the state row shows
\* (_acquire_lock before the write flow, finalize_ingest before the release).
THEOREM WatermarksMoveForward == Spec => SuccessesMoveForward
  <1> DEFINE A == \A r \in Run \ Lock!Lapsed:
                    /\ LockEnabled
                    /\ pc[r] = "logged" /\ pc'[r] = "finalized"
                    /\ state.status = "SUCCESS" /\ state.run \notin Lock!Lapsed
                    /\ state.watermark \in Nat /\ state'.watermark \in Nat
                    => state.watermark <= state'.watermark
  <1>1. Settled /\ ForwardInv /\ [Next]_vars => [A]_vars
    <2> SUFFICES ASSUME Settled, ForwardInv, Next, NEW r \in Run \ Lock!Lapsed, LockEnabled,
                        pc[r] = "logged", pc'[r] = "finalized",
                        state.status = "SUCCESS", state.run \notin Lock!Lapsed,
                        state.watermark \in Nat, state'.watermark \in Nat
                 PROVE  state.watermark <= state'.watermark
      BY DEF vars
    <2>0. Types /\ WritesGoFurther
      BY DEF Settled, LockedInv, ForwardInv
    <2>1. CASE RecordSuccess(r)
      <3>1. state'.watermark = cand[r]
        BY <2>1 DEF RecordSuccess, WriteState, UpsertState
      <3> QED
        BY <2>0, <3>1 DEF WritesGoFurther, Compares
    <2>2. CASE state' = state
      BY <2>0, <2>2
    <2>3. ASSUME NEW q \in Run, RecordSuccess(q) \/ RecordSkip(q) \/ RecordFailure(q), q # r
          PROVE  FALSE
      BY <2>0, <2>3 DEF RecordSuccess, RecordSkip, RecordFailure, Types
    <2>4. CASE RecordSkip(r) \/ RecordFailure(r)
      BY <2>4 DEF RecordSkip, RecordFailure
    <2>5. ASSUME NEW q \in Run,
                 \/ Prepare(q) \/ PrepareFails(q) \/ CheckKey(q) \/ Acquire(q) \/ Confirm(q)
                 \/ EndDryRun(q) \/ Write(q) \/ Candidate(q) \/ LogSuccess(q) \/ LogSkip(q)
                 \/ LogFailure(q) \/ Release(q) \/ Raise(q) \/ FailureEvidenceFails(q) \/ Crash(q)
          PROVE  state' = state
      BY <2>5
      DEF Prepare, PrepareFails, CheckKey, Acquire, Confirm, EndDryRun, Write, Candidate,
          LogSuccess, LogSkip, LogFailure, Release, Raise, FailureEvidenceFails, Crash, tables
    <2>6. CASE Arrive \/ Tick \/ Finished
      BY <2>2, <2>6 DEF Arrive, Tick, Finished, vars, tables
    <2> QED
      BY <2>1, <2>2, <2>3, <2>4, <2>5, <2>6 DEF Next, Step
  <1>2. Spec => []Settled
    <2>1. Spec => []DryRunInv
      BY DryRunInit, DryRunStep, PTL DEF Spec
    <2>2. Spec => []DuplicatesInv
      BY DuplicatesInit, DuplicatesStep, PTL DEF Spec
    <2>3. LockedInv /\ DryRunInv /\ DuplicatesInv => Settled
      BY DEF Settled
    <2> QED
      BY <2>1, <2>2, <2>3, LockedInvariance, PTL
  <1>3. Spec => []ForwardInv
    BY <1>2, ForwardInit, ForwardStep, PTL DEF Spec
  <1> QED
    BY <1>1, <1>2, <1>3, PTL DEF Spec, SuccessesMoveForward

=============================================================================
