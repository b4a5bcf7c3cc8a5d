----------------------------- MODULE IngestLock ------------------------------
(***************************************************************************)
(* StateWriter.acquire_lock and release_lock over the lock row of one      *)
(* target, called by the orchestrator of concurrent executions: a MERGE    *)
(* that takes the row when it is free, absent or expired, a separate       *)
(* SELECT that tells the run whether the row is its own, and a release     *)
(* that the orchestrator's finally block always issues and whose own       *)
(* failure it swallows.                                                    *)
(***************************************************************************)
EXTENDS ControlTables

CONSTANT MaxTime    \* bound of the clock

ASSUME MaxTimeAssumption == MaxTime \in Nat

VARIABLES lock,     \* the row of ctrl_ingestion_locks for the target
          now,      \* current_timestamp(), in ticks
          pc,       \* where each run is in the protocol
          lease     \* when the lease that the run's own MERGE obtained runs out; 0: none

vars == <<lock, now, pc, lease>>

\* idle -> merged -> held or refused -> done; "leaked": the release failed.
Pc == {"idle", "merged", "held", "refused", "done", "leaked", "crashed"}

Init ==
    /\ lock = NoLockRow
    /\ now = 0
    /\ pc = [r \in Run |-> "idle"]
    /\ lease = [r \in Run |-> 0]

\* The MERGE of acquire_lock.
Merge(r) ==
    /\ pc[r] = "idle"
    /\ pc' = [pc EXCEPT ![r] = "merged"]
    /\ lock' = AcquireLock(lock, r, now)
    /\ lease' = [lease EXCEPT ![r] = IF Acquirable(lock, now) THEN now + TTL ELSE 0]
    /\ UNCHANGED now

\* The run ends or raises before a MERGE of its own takes effect.
GivesUp(r) ==
    /\ pc[r] = "idle"
    /\ pc' = [pc EXCEPT ![r] = "refused"]
    /\ UNCHANGED <<lock, now, lease>>

\* The read-back decides: the run works only if the row is its own.
ReadBack(r) ==
    /\ pc[r] = "merged"
    /\ pc' = [pc EXCEPT ![r] = IF LockConfirmed(lock, r) THEN "held" ELSE "refused"]
    /\ UNCHANGED <<lock, now, lease>>

\* The read-back query raises: the run is refused although the row may be its own.
ReadBackFails(r) ==
    /\ pc[r] = "merged"
    /\ pc' = [pc EXCEPT ![r] = "refused"]
    /\ UNCHANGED <<lock, now, lease>>

\* The finally block, reached after the work and after every exception.
Release(r) ==
    /\ pc[r] \in {"held", "refused"}
    /\ pc' = [pc EXCEPT ![r] = "done"]
    /\ lock' = ReleaseLock(lock, r)
    /\ UNCHANGED <<now, lease>>

\* release_lock logs the exception of its own statement and returns.
ReleaseFails(r) ==
    /\ pc[r] \in {"held", "refused"}
    /\ pc' = [pc EXCEPT ![r] = "leaked"]
    /\ UNCHANGED <<lock, now, lease>>

\* The driver dies between two statements; nothing is released.
Crash(r) ==
    /\ pc[r] \in {"merged", "held", "refused"}
    /\ pc' = [pc EXCEPT ![r] = "crashed"]
    /\ UNCHANGED <<lock, now, lease>>

\* Time passes.
Tick ==
    /\ now < MaxTime
    /\ now' = now + 1
    /\ UNCHANGED <<lock, pc, lease>>

\* Every run is over and the clock stands at its bound.
Finished ==
    /\ \A r \in Run: pc[r] \in {"done", "leaked", "crashed"}
    /\ now = MaxTime
    /\ UNCHANGED vars

Next ==
    \/ \E r \in Run:
          \/ Merge(r) \/ GivesUp(r) \/ ReadBack(r) \/ ReadBackFails(r)
          \/ Release(r) \/ ReleaseFails(r) \/ Crash(r)
    \/ Tick
    \/ Finished

\* The driver goes on with its next statement, and time passes.
Fairness ==
    /\ WF_vars(Tick)
    /\ \A r \in Run: WF_vars(ReadBack(r)) /\ WF_vars(Release(r))

Spec == Init /\ [][Next]_vars

FairSpec == Spec /\ Fairness

-----------------------------------------------------------------------------

\* Every variable has the type its table or local gives it.
TypeOK ==
    /\ lock \in LockRow
    /\ now \in Nat
    /\ pc \in [Run -> Pc]
    /\ lease \in [Run -> Nat]

Holders == {r \in Run: pc[r] = "held"}

Lapsed == {r \in Run: lease[r] # 0 /\ lease[r] < now}

\* Two runs inside the locked region at once: at least one of them has
\* outlived the lease its MERGE obtained (acquire_lock, writer.py).
Exclusion == \A a, b \in Holders \ Lapsed: a = b

\* A run whose finally block released the lock leaves no ACTIVE row behind,
\* whichever way it got there: work done, lock busy, or a failed read-back.
DoneLeavesNoLock ==
    \A r \in Run: pc[r] = "done" => ~LockConfirmed(lock, r)

\* A lease that has not run out ends only by its owner's own release: no
\* other run's MERGE or release touches the row.
OnlyTheOwnerEndsALease ==
    [][\A r \in Run:
          LockConfirmed(lock, r) /\ now <= lock.expires /\ lock' # lock
          => pc[r] # "done" /\ pc'[r] = "done"]_vars

\* An owner that died, or whose release failed, does not keep the target for
\* ever: its row becomes acquirable, if the bounded clock gets past its lease.
DeadOwnerYields ==
    \A r \in Run:
        /\ pc[r] \in {"crashed", "leaked"}
        /\ LockConfirmed(lock, r)
        /\ lock.expires < MaxTime
        ~> Acquirable(lock, now)

-----------------------------------------------------------------------------
\* The lock implements the lease: the holder is the run of the ACTIVE row.

Lease == INSTANCE TargetLease WITH
    holder <- IF lock.status = "ACTIVE" THEN lock.run ELSE None,
    told   <- Holders,
    lapsed <- Lapsed

LeaseSpec == Lease!Spec

=============================================================================
