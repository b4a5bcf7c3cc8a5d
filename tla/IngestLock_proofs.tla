-------------------------- MODULE IngestLock_proofs --------------------------
(***************************************************************************)
(* The target lock, proved for any set of runs, any lease length and any   *)
(* bound of the clock: its invariant, the exclusion it gives, and that it  *)
(* implements the abstract lease.                                          *)
(***************************************************************************)
EXTENDS IngestLock, TLAPS

USE DEF LockRow, NoLockRow, Pc

\* The row names the run whose MERGE wrote it, with the lease of that MERGE.
RowIsTheLastGrant ==
    \A r \in Run: lock.run = r => lease[r] # 0 /\ lock.expires = lease[r]

\* A lease that has not run out is still in the row, until its owner released it.
CurrentLeaseIsInTheRow ==
    \A r \in Run:
        lease[r] # 0 /\ now <= lease[r] /\ pc[r] # "done" => LockConfirmed(lock, r)

\* A run has a lease only once its MERGE is through.
IdleHasNoLease == \A r \in Run: pc[r] = "idle" => lease[r] = 0

\* Only a run whose MERGE took the row is told that it holds it.
HeldHasALease == \A r \in Run: pc[r] = "held" => lease[r] # 0

ActiveHasARun == lock.status = "ACTIVE" => lock.run \in Run

LockInv ==
    /\ TypeOK
    /\ RowIsTheLastGrant
    /\ CurrentLeaseIsInTheRow
    /\ IdleHasNoLease
    /\ HeldHasALease
    /\ ActiveHasARun
    /\ DoneLeavesNoLock

USE DEF RowIsTheLastGrant, CurrentLeaseIsInTheRow, IdleHasNoLease,
        HeldHasALease, ActiveHasARun, DoneLeavesNoLock

\* The lock starts in the invariant.
LEMMA LockInvInit == Init => LockInv
  BY TTLAssumption, NoneAssumption DEF Init, LockInv, TypeOK, LockConfirmed

\* Every statement, crash and tick keeps it.
LEMMA LockInvStep == LockInv /\ [Next]_vars => LockInv'
  <1> SUFFICES ASSUME LockInv, [Next]_vars
               PROVE  LockInv'
    OBVIOUS
  <1> USE TTLAssumption, NoneAssumption DEF LockInv, TypeOK, LockConfirmed
  <1>1. ASSUME NEW r \in Run, Merge(r)
        PROVE  LockInv'
    BY <1>1 DEF Merge, AcquireLock, Acquirable
  <1>2. ASSUME NEW r \in Run, GivesUp(r)
        PROVE  LockInv'
    BY <1>2 DEF GivesUp
  <1>3. ASSUME NEW r \in Run, ReadBack(r)
        PROVE  LockInv'
    BY <1>3 DEF ReadBack
  <1>4. ASSUME NEW r \in Run, ReadBackFails(r)
        PROVE  LockInv'
    BY <1>4 DEF ReadBackFails
  <1>5. ASSUME NEW r \in Run, Release(r)
        PROVE  LockInv'
    BY <1>5 DEF Release, ReleaseLock
  <1>6. ASSUME NEW r \in Run, ReleaseFails(r)
        PROVE  LockInv'
    BY <1>6 DEF ReleaseFails
  <1>7. ASSUME NEW r \in Run, Crash(r)
        PROVE  LockInv'
    BY <1>7 DEF Crash
  <1>8. ASSUME Tick
        PROVE  LockInv'
    BY <1>8 DEF Tick
  <1>9. CASE UNCHANGED vars
    BY <1>9 DEF vars
  <1> QED
    BY <1>1, <1>2, <1>3, <1>4, <1>5, <1>6, <1>7, <1>8, <1>9 DEF Next, Finished

\* Every variable keeps its type, and the lock row names exactly the run whose
\* lease it is (acquire_lock and release_lock of state/writer.py).
THEOREM LockInvariance == Spec => []LockInv
  BY LockInvInit, LockInvStep, PTL DEF Spec

\* The types hold in every reachable state.
THEOREM LockTypes == Spec => []TypeOK
  <1>1. LockInv => TypeOK
    BY DEF LockInv
  <1> QED
    BY <1>1, LockInvariance, PTL

\* A lease that runs is the one in the row, and a row names one run.
LEMMA LockInvExclusion == LockInv => Exclusion
  BY DEF LockInv, TypeOK, Exclusion, Holders, Lapsed, LockConfirmed

\* Mutual exclusion of the locked region for runs within their lease
\* (state/writer.py, acquire_lock).
THEOREM LockExclusion == Spec => []Exclusion
  BY LockInvariance, LockInvExclusion, PTL

\* A released lock stays released: no ACTIVE row of a run that is over.
THEOREM LockIsReleased == Spec => []DoneLeavesNoLock
  <1>1. LockInv => DoneLeavesNoLock
    BY DEF LockInv
  <1> QED
    BY <1>1, LockInvariance, PTL

\* Only the owner's release ends a lease that has not run out.
THEOREM LeaseIsRespected == Spec => OnlyTheOwnerEndsALease
  <1> DEFINE A == \A r \in Run:
                    LockConfirmed(lock, r) /\ now <= lock.expires /\ lock' # lock
                    => pc[r] # "done" /\ pc'[r] = "done"
  <1>1. LockInv /\ [Next]_vars => [A]_vars
    <2> SUFFICES ASSUME LockInv, Next, NEW q \in Run,
                        LockConfirmed(lock, q), now <= lock.expires, lock' # lock
                 PROVE  pc[q] # "done" /\ pc'[q] = "done"
      BY DEF vars
    <2> USE DEF LockInv, TypeOK, LockConfirmed
    <2>1. ASSUME NEW r \in Run, Merge(r)
          PROVE  FALSE
      BY <2>1 DEF Merge, AcquireLock, Acquirable
    <2>2. ASSUME NEW r \in Run, Release(r)
          PROVE  pc[q] # "done" /\ pc'[q] = "done"
      BY <2>2 DEF Release, ReleaseLock
    <2> QED
      BY <2>1, <2>2 DEF Next, GivesUp, ReadBack, ReadBackFails, ReleaseFails,
                        Crash, Tick, Finished, vars
  <1> QED
    BY <1>1, LockInvariance, PTL DEF Spec, OnlyTheOwnerEndsALease

-----------------------------------------------------------------------------

\* The lock starts where the abstract lease starts.
LEMMA LeaseInit == Init => Lease!Init
  BY NoneAssumption DEF Init, Lease!Init, Holders, Lapsed

\* Every step grants, tells, leaves or lapses, or changes nothing of the lease.
LEMMA LeaseStep == LockInv /\ [Next]_vars => [Lease!Next]_(Lease!leaseVars)
  <1> SUFFICES ASSUME LockInv, [Next]_vars
               PROVE  [Lease!Next]_(Lease!leaseVars)
    OBVIOUS
  <1> USE TTLAssumption, NoneAssumption
      DEF LockInv, TypeOK, LockConfirmed, Holders, Lapsed, Lease!leaseVars
  <1> DEFINE holder == IF lock.status = "ACTIVE" THEN lock.run ELSE None
  <1>1. ASSUME NEW r \in Run, Merge(r)
        PROVE  Lease!Grant(r) \/ UNCHANGED Lease!leaseVars
    <2>1. Holders' = Holders /\ Lapsed' = Lapsed
      BY <1>1 DEF Merge
    <2>2. CASE Acquirable(lock, now)
      <3>1. r \notin Holders \cup Lapsed
        BY <1>1 DEF Merge
      <3>2. holder = None \/ holder \in Lapsed
        BY <2>2 DEF Acquirable
      <3>3. holder' = r
        BY <1>1, <2>2 DEF Merge, AcquireLock
      <3> QED
        BY <2>1, <3>1, <3>2, <3>3 DEF Lease!Grant
    <2>3. CASE ~Acquirable(lock, now)
      BY <1>1, <2>1, <2>3 DEF Merge, AcquireLock
    <2> QED
      BY <2>2, <2>3
  <1>2. ASSUME NEW r \in Run, GivesUp(r) \/ ReadBackFails(r)
        PROVE  UNCHANGED Lease!leaseVars
    BY <1>2 DEF GivesUp, ReadBackFails
  <1>3. ASSUME NEW r \in Run, ReadBack(r)
        PROVE  Lease!Tell(r) \/ UNCHANGED Lease!leaseVars
    <2>1. CASE LockConfirmed(lock, r)
      BY <1>3, <2>1 DEF ReadBack, Lease!Tell
    <2>2. CASE ~LockConfirmed(lock, r)
      BY <1>3, <2>2 DEF ReadBack
    <2> QED
      BY <2>1, <2>2
  <1>4. ASSUME NEW r \in Run, Release(r)
        PROVE  Lease!Leave(r)
    <2>1. Holders' = Holders \ {r} /\ Lapsed' = Lapsed
      BY <1>4 DEF Release
    <2>2. holder' = holder \/ (holder = r /\ holder' = None)
      BY <1>4 DEF Release, ReleaseLock
    <2> QED
      BY <2>1, <2>2 DEF Lease!Leave
  <1>5. ASSUME NEW r \in Run, ReleaseFails(r) \/ Crash(r)
        PROVE  Lease!Leave(r)
    <2>1. Holders' = Holders \ {r} /\ UNCHANGED <<Lapsed, holder>>
      BY <1>5 DEF ReleaseFails, Crash
    <2> QED
      BY <2>1 DEF Lease!Leave
  <1>6. ASSUME Tick
        PROVE  \E S \in SUBSET Run: Lease!Lapse(S)
    <2>1. Lapsed' \in SUBSET Run /\ Lapsed' = Lapsed \cup Lapsed'
      BY <1>6 DEF Tick
    <2>2. UNCHANGED <<Holders, holder>>
      BY <1>6 DEF Tick
    <2>3. Lease!Lapse(Lapsed')
      BY <2>1, <2>2 DEF Lease!Lapse
    <2> HIDE DEF Lapsed
    <2> USE <2>1
    <2> WITNESS Lapsed' \in SUBSET Run
    <2> QED
      BY <2>3
  <1>7. CASE UNCHANGED vars
    BY <1>7 DEF vars
  <1> QED
    BY <1>1, <1>2, <1>3, <1>4, <1>5, <1>6, <1>7 DEF Next, Finished, Lease!Next

\* The MERGE, read-back and release of state/writer.py implement the lease of
\* TargetLease.
THEOREM LockImplementsLease == Spec => LeaseSpec
  BY LeaseInit, LeaseStep, LockInvariance, PTL DEF Spec, LeaseSpec, Lease!Spec

=============================================================================
