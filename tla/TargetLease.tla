----------------------------- MODULE TargetLease -----------------------------
(***************************************************************************)
(* What the target lock promises, without saying how: a run is told that   *)
(* it owns the target only while it is the recorded holder, and the target *)
(* passes to another run only when it is free or the holder's lease has    *)
(* lapsed.  Nothing stops a run whose lease lapsed from believing that it  *)
(* still owns the target: the lock has no fencing token.                   *)
(***************************************************************************)
CONSTANTS Run, None

VARIABLES holder,   \* the run recorded as the owner, or None
          told,     \* the runs that were told they own the target and are at work
          lapsed    \* the runs whose lease has run out

leaseVars == <<holder, told, lapsed>>

Init == holder = None /\ told = {} /\ lapsed = {}

Grant(r) ==
    /\ r \notin told \cup lapsed
    /\ holder = None \/ holder \in lapsed
    /\ holder' = r
    /\ UNCHANGED <<told, lapsed>>

Tell(r) ==
    /\ holder = r
    /\ told' = told \cup {r}
    /\ UNCHANGED <<holder, lapsed>>

\* The run stops working, with or without giving the target back.
Leave(r) ==
    /\ told' = told \ {r}
    /\ holder' = holder \/ (holder = r /\ holder' = None)
    /\ UNCHANGED lapsed

Lapse(S) ==
    /\ lapsed' = lapsed \cup S
    /\ UNCHANGED <<holder, told>>

Next ==
    \/ \E r \in Run: Grant(r) \/ Tell(r) \/ Leave(r)
    \/ \E S \in SUBSET Run: Lapse(S)

Spec == Init /\ [][Next]_leaseVars

\* Two runs that both believe they own the target: one of them has outlived
\* its lease.
Exclusive == \A a, b \in told \ lapsed: a = b

=============================================================================
