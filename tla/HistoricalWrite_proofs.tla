----------------------- MODULE HistoricalWrite_proofs -----------------------
(***************************************************************************)
(* What the historical write keeps for every number of runs, keys and      *)
(* attempts, every source view and every late-arriving policy.             *)
(***************************************************************************)
EXTENDS HistoricalWrite, TLAPS

-----------------------------------------------------------------------------
(* Types *)

\* A joined row comes with no current version or with one of its key.
LEMMA JoinTypes ==
    ASSUME NEW rows, NEW j \in Joined(rows)
    PROVE  j[1] \in rows /\ (j[2] = None \/ (j[2] \in Current /\ j[1].key = j[2].key))
BY DEF Joined

\* Ending versions at the next commit leaves versions.
LEMMA ClosingTypes ==
    ASSUME TypeOK, NEW hits
    PROVE  Closing(hits) \subseteq Version
<1>1. commits + 1 \in Nat
      BY DEF TypeOK
<1>2. ASSUME NEW v \in versions
      PROVE  [v EXCEPT !.to = commits + 1] \in Version
      <2>1. v \in Version
            BY DEF TypeOK
      <2> QED BY <1>1, <2>1 DEF Version
<1> QED BY <1>2 DEF Closing, TypeOK

\* What the staging view shows are changed rows of the batch.
LEMMA StagedRows ==
    ASSUME TypeOK, NEW r \in Run, NEW x \in Stage(r)
    PROVE  x.row[1] \in batch[r] /\ x.row[1] \in SourceRow /\ x.row \in Changed(r)
<1>1. x.row \in Changed(r)
      BY DEF Stage
<1>2. x.row \in Joined({s \in batch[r]: ~s.delete})
      BY <1>1 DEF Changed, OnTime, StageJoin
<1>3. x.row[1] \in batch[r]
      BY <1>2, JoinTypes
<1>4. batch[r] \subseteq SourceRow
      BY BatchAssumption DEF TypeOK
<1> QED BY <1>1, <1>3, <1>4

\* The rows that the second MERGE inserts are versions.
LEMMA InsertedTypes ==
    ASSUME TypeOK, NEW r \in Run, NEW time \in Nat
    PROVE  Inserted(r, time) \subseteq Version
<1>1. commits + 1 \in Nat \ {0} /\ 0 \in Nat
      BY DEF TypeOK
<1>2. ASSUME NEW s \in SourceRow
      PROVE  NewVersion(s, time) \in Version
      <2>1. (IF effective THEN s.since ELSE time) \in Nat
            BY DEF SourceRow
      <2> QED BY <1>1, <2>1 DEF SourceRow, Version, NewVersion
<1> QED BY <1>2, StagedRows DEF Inserted

\* The time that valid_from gets lies between the preparation and the MERGE.
LEMMA MergeTime ==
    ASSUME TypeOK, NEW r \in Run, Merge(r)
    PROVE  \E time \in Nat: time <= commits + 1 /\ Commit(r, Closing(Expired(r)) \cup Inserted(r, time))
<1>1. staged[r] \in Nat /\ commits \in Nat
      BY DEF TypeOK
<1>2. PICK time \in staged[r]..(commits + 1): Commit(r, Closing(Expired(r)) \cup Inserted(r, time))
      BY DEF Merge
<1>3. time \in Nat /\ time <= commits + 1
      BY <1>1
<1> QED BY <1>2, <1>3, Zenon

\* A commit keeps the types of the table and of its history.
LEMMA CommitTypes ==
    ASSUME TypeOK, NEW r \in Run, NEW new, new \subseteq Version, Commit(r, new)
    PROVE  versions' \subseteq Version /\ commits' \in Nat /\ clean' \in [Run -> BOOLEAN]
<1>1. commits' \in Nat
      BY DEF Commit, TypeOK
<1>2. clean' \in [Run -> BOOLEAN]
      BY Zenon DEF Commit
<1> QED BY <1>1, <1>2 DEF Commit

\* The variables keep their types.
THEOREM HistoricalTypes == Spec => []TypeOK
<1>1. Init => TypeOK
      BY MaxAssumption DEF Init, TypeOK, Pc
<1>2. TypeOK /\ [Next]_vars => TypeOK'
      <2> SUFFICES ASSUME TypeOK, [Next]_vars PROVE TypeOK'
          OBVIOUS
      <2> USE DEF Pc, Goto
      <2>1. ASSUME NEW r \in Run, Start(r) PROVE TypeOK'
            BY <2>1 DEF Start, TypeOK, table, contract
      <2>2. ASSUME NEW r \in Run, DeleteMerge(r) PROVE TypeOK'
            <3>1. versions' \subseteq Version /\ commits' \in Nat /\ clean' \in [Run -> BOOLEAN]
                  BY <2>2, ClosingTypes, CommitTypes DEF DeleteMerge
            <3> QED BY <2>2, <3>1 DEF DeleteMerge, TypeOK, contract
      <2>3. ASSUME NEW r \in Run, Merge(r) PROVE TypeOK'
            <3>0. PICK time \in Nat: Commit(r, Closing(Expired(r)) \cup Inserted(r, time))
                  BY <2>3, MergeTime
            <3>1. Closing(Expired(r)) \cup Inserted(r, time) \subseteq Version
                  BY ClosingTypes, InsertedTypes
            <3>2. versions' \subseteq Version /\ commits' \in Nat /\ clean' \in [Run -> BOOLEAN]
                  BY <3>0, <3>1, CommitTypes
            <3> QED BY <2>3, <3>2 DEF Merge, TypeOK, contract
      <2>4. ASSUME NEW r \in Run, DropStage(r) PROVE TypeOK'
            BY <2>4 DEF DropStage, TypeOK, table, contract
      <2>5. ASSUME NEW r \in Run, Raise(r) PROVE TypeOK'
            <3>1. CASE attempt[r] < MaxAttempts[r] /\ attempt' = [attempt EXCEPT ![r] = @ + 1]
                       /\ clean' = [clean EXCEPT ![r] = TRUE] /\ Goto(r, "deleting")
                  <4>1. attempt[r] + 1 \in Nat \ {0}
                        BY <3>1, MaxAssumption DEF TypeOK
                  <4> QED BY <2>5, <3>1, <4>1 DEF Raise, TypeOK, table, contract
            <3>2. CASE Goto(r, "failed") /\ UNCHANGED <<attempt, clean>>
                  BY <2>5, <3>2 DEF Raise, TypeOK, table, contract
            <3> QED BY <2>5, <3>1, <3>2 DEF Raise
      <2>6. CASE UNCHANGED vars
            BY <2>6 DEF vars, table, contract, TypeOK
      <2> QED BY <2>1, <2>2, <2>3, <2>4, <2>5, <2>6 DEF Next
<1> QED BY <1>1, <1>2, PTL DEF Spec

-----------------------------------------------------------------------------
(* The inductive invariant *)

\* Windows lie between commits that happened.
WindowsAreBounded ==
    \A v \in versions:
       v.born <= commits /\ v.to <= commits /\ (~effective => v.from <= v.born)

\* What validate_merge_source_safety let pass has one row of each key.
PassedBatchesAreKeyed == \A r \in Run: pc[r] # "failed" => ~DuplicateKeys(batch[r])

History == OneVersionAtATime /\ WindowsAreBounded

\* Where windows are disjoint, a key has one current version.
LEMMA OneCurrentVersion ==
    ASSUME OneVersionAtATime, NEW v \in Current, NEW w \in Current, v.key = w.key
    PROVE  v = w
BY DEF OneVersionAtATime, Precedes, Current

\* A commit keeps the windows disjoint if it closes the current version of
\* every key that it inserts, and inserts one version of a key.
LEMMA CommitKeepsHistory ==
    ASSUME TypeOK, History, NEW r \in Run, NEW hits, NEW new,
           hits \subseteq Current, new \subseteq Version,
           Commit(r, Closing(hits) \cup new),
           \A w \in new: w.born = commits + 1 /\ w.to = 0 /\ (~effective => w.from <= w.born),
           effective' = effective,
           \A w, x \in new: w.key = x.key => w = x,
           \A w \in new, v \in Current: v.key = w.key => v \in hits
    PROVE  History'
<1>1. CASE Closing(hits) \cup new = versions
      BY <1>1 DEF Commit, History, OneVersionAtATime, WindowsAreBounded, Precedes
<1>2. CASE Closing(hits) \cup new # versions
  <2>1. versions' = Closing(hits) \cup new /\ commits' = commits + 1 /\ commits \in Nat
        BY <1>2 DEF Commit, TypeOK
  <2> DEFINE After(v) == IF v \in hits THEN [v EXCEPT !.to = commits + 1] ELSE v
  <2>2. \A u \in versions': u \in new \/ \E v \in versions: u = After(v)
        BY <2>1 DEF Closing
  <2>3. ASSUME NEW v \in versions
        PROVE  /\ After(v).key = v.key /\ After(v).from = v.from /\ After(v).born = v.born
               /\ After(v).to = IF v \in hits THEN commits + 1 ELSE v.to
               /\ v.from \in Nat /\ v.to \in Nat /\ v.born \in Nat
               /\ v.born <= commits /\ v.to <= commits /\ (~effective => v.from <= v.born)
               /\ v \in hits => v.to = 0
               /\ ~effective /\ v.to # 0 => v.from < v.to
        <3>1. v \in Version
              BY DEF TypeOK
        <3> QED BY <3>1 DEF Version, History, WindowsAreBounded, OneVersionAtATime, Current
  <2> HIDE DEF After
  <2>4. ASSUME NEW v \in versions, NEW w \in versions, v.key = w.key
        PROVE  \/ After(v) = After(w)
               \/ Precedes(After(v), After(w)) \/ Precedes(After(w), After(v))
        <3>1. v = w \/ Precedes(v, w) \/ Precedes(w, v)
              BY <2>4 DEF History, OneVersionAtATime
        <3> QED BY <2>1, <2>3, <3>1 DEF Precedes
  <2>5. ASSUME NEW v \in versions, NEW w \in new, v.key = w.key
        PROVE  Precedes(After(v), w)
        <3>1. v.to = 0 => v \in hits
              BY <2>5 DEF Current
        <3> QED BY <2>1, <2>3, <3>1 DEF Precedes
  <2>6. \A u, x \in versions': u.key = x.key => u = x \/ Precedes(u, x) \/ Precedes(x, u)
        <3> SUFFICES ASSUME NEW u \in versions', NEW x \in versions', u.key = x.key
                     PROVE  u = x \/ Precedes(u, x) \/ Precedes(x, u)
            OBVIOUS
        <3>1. CASE u \in new /\ x \in new
              BY <3>1
        <3>2. CASE \E v \in versions: u = After(v) /\ x \in new
              BY <2>3, <2>5, <3>2
        <3>3. CASE \E w \in versions: x = After(w) /\ u \in new
              BY <2>3, <2>5, <3>3
        <3>4. CASE \E v, w \in versions: u = After(v) /\ x = After(w)
              BY <2>3, <2>4, <3>4
        <3> QED BY <2>2, <3>1, <3>2, <3>3, <3>4
  <2>7. ASSUME NEW u \in versions'
        PROVE  /\ u.born <= commits' /\ u.to <= commits' /\ (~effective' => u.from <= u.born)
               /\ ~effective' /\ u.to # 0 => u.from < u.to
        <3>1. CASE u \in new
              BY <2>1, <3>1
        <3>2. CASE \E v \in versions: u = After(v)
              BY <2>1, <2>3, <3>2
        <3> QED BY <2>2, <3>1, <3>2
  <2>8. OneVersionAtATime'
        BY <2>6, <2>7 DEF OneVersionAtATime, Precedes
  <2>9. WindowsAreBounded'
        BY <2>7 DEF WindowsAreBounded
  <2> QED BY <2>8, <2>9 DEF History
<1> QED BY <1>1, <1>2

\* The staging view gives every changed row that has a current version an
\* update side, so that the MERGE which inserts the row expires the version.
LEMMA InsertionExpires ==
    ASSUME TypeOK, OneVersionAtATime, NEW r \in Run,
           NEW time, NEW w \in Inserted(r, time), NEW v \in Current, v.key = w.key
    PROVE  v \in Expired(r)
<1>1. PICK x \in Stage(r): w.key = x.row[1].key
      BY DEF Inserted, NewVersion
<1>2. x.row \in Changed(r)
      BY StagedRows
<1>3. x.row \in Joined({s \in batch[r]: ~s.delete})
      BY <1>2 DEF Changed, OnTime, StageJoin
<1>4. x.row[2] # None
      <2>1. None \notin Current
            BY NoneAssumption DEF Current, TypeOK
      <2>2. x.row[2] = None => v.key # x.row[1].key
            BY <1>3, <2>1 DEF Joined
      <2> QED BY <1>1, <2>2
<1>5. x.row[2] = v
      <2>1. x.row[2] \in Current /\ x.row[1].key = x.row[2].key
            BY <1>3, <1>4, JoinTypes
      <2> QED BY <1>1, <2>1, OneCurrentVersion
<1>6. x.row[1].hash # v.hash
      BY <1>2, <1>4, <1>5 DEF Changed
<1> DEFINE y == [row |-> x.row, mergeKey |-> x.row[1].key, side |-> "update"]
<1>7. y \in Stage(r)
      BY <1>2, <1>4 DEF Stage
<1>8. Updates(y, v)
      BY <1>1, <1>6 DEF Updates
<1> QED BY <1>7, <1>8 DEF Expired

\* A batch with one row per key inserts at most one version of a key.
LEMMA OneInsertionOfAKey ==
    ASSUME TypeOK, NEW r \in Run, ~DuplicateKeys(batch[r]),
           NEW time, NEW w \in Inserted(r, time), NEW x \in Inserted(r, time), w.key = x.key
    PROVE  w = x
<1>1. PICK y \in Stage(r): w = NewVersion(y.row[1], time)
      BY DEF Inserted
<1>2. PICK z \in Stage(r): x = NewVersion(z.row[1], time)
      BY DEF Inserted
<1>3. y.row[1] \in batch[r] /\ z.row[1] \in batch[r]
      BY StagedRows
<1>4. y.row[1] = z.row[1]
      BY <1>1, <1>2, <1>3 DEF DuplicateKeys, NewVersion
<1> QED BY <1>1, <1>2, <1>4

-----------------------------------------------------------------------------
(* The steps *)

\* A batch that passed the preflight has one row per key.
LEMMA PassedBatchesStayKeyed ==
    ASSUME Preflight, TypeOK, PassedBatchesAreKeyed, [Next]_vars
    PROVE  PassedBatchesAreKeyed'
<1> USE DEF PassedBatchesAreKeyed, Goto
<1>1. ASSUME NEW r \in Run, Start(r) PROVE PassedBatchesAreKeyed'
      <2>1. PICK b \in Batch: /\ batch' = [batch EXCEPT ![r] = b]
                              /\ pc' = [pc EXCEPT ![r] = IF Unsafe(b) THEN "failed" ELSE "deleting"]
            BY <1>1 DEF Start
      <2>2. ASSUME NEW q \in Run, pc'[q] # "failed" PROVE ~DuplicateKeys(batch'[q])
            <3>1. CASE q = r
                  <4>1. ~Unsafe(b)
                        BY <2>1, <2>2, <3>1 DEF TypeOK
                  <4>2. ~DuplicateKeys(b)
                        BY <4>1 DEF Unsafe, DuplicateKeys
                  <4> QED BY <2>1, <3>1, <4>2 DEF TypeOK
            <3>2. CASE q # r
                  BY <2>1, <2>2, <3>2 DEF TypeOK
            <3> QED BY <3>1, <3>2
      <2> QED BY <2>2 DEF DuplicateKeys
<1>2. ASSUME NEW r \in Run, pc[r] # "failed", batch' = batch, NEW l, pc' = [pc EXCEPT ![r] = l]
      PROVE  PassedBatchesAreKeyed'
      BY <1>2 DEF TypeOK, DuplicateKeys
<1>3. ASSUME NEW r \in Run, DeleteMerge(r) \/ Merge(r) \/ DropStage(r) \/ Raise(r)
      PROVE  PassedBatchesAreKeyed'
      BY <1>2, <1>3 DEF DeleteMerge, Merge, DropStage, Raise
<1>4. CASE UNCHANGED vars
      BY <1>4 DEF vars, DuplicateKeys
<1> QED BY <1>1, <1>3, <1>4 DEF Next

\* Both MERGEs, from whatever versions they find, keep the history.
LEMMA HistoryStays ==
    ASSUME TypeOK, PassedBatchesAreKeyed, History, [Next]_vars
    PROVE  History'
<1>1. ASSUME NEW r \in Run, DeleteMerge(r) PROVE History'
      <2> SUFFICES ASSUME NEW new, new = {} PROVE History'
          OBVIOUS
      <2>1. Commit(r, Closing(Deleted(r)) \cup new) /\ effective' = effective
            BY <1>1 DEF DeleteMerge, contract
      <2>2. Deleted(r) \subseteq Current
            BY DEF Deleted
      <2> QED BY <2>1, <2>2, CommitKeepsHistory
<1>2. ASSUME NEW r \in Run, Merge(r) PROVE History'
      <2>1. PICK time \in Nat: time <= commits + 1 /\ Commit(r, Closing(Expired(r)) \cup Inserted(r, time))
            BY <1>2, MergeTime
      <2>2. ~DuplicateKeys(batch[r]) /\ effective' = effective
            BY <1>2 DEF Merge, PassedBatchesAreKeyed, contract
      <2>3. \A w \in Inserted(r, time): w.born = commits + 1 /\ w.to = 0 /\ (~effective => w.from <= w.born)
            BY <2>1 DEF Inserted, NewVersion
      <2>4. \A w, x \in Inserted(r, time): w.key = x.key => w = x
            BY <2>2, OneInsertionOfAKey
      <2>5. \A w \in Inserted(r, time), v \in Current: v.key = w.key => v \in Expired(r)
            BY InsertionExpires DEF History
      <2>6. Expired(r) \subseteq Current /\ Inserted(r, time) \subseteq Version
            BY InsertedTypes DEF Expired
      <2> QED BY <2>1, <2>2, <2>3, <2>4, <2>5, <2>6, CommitKeepsHistory
<1>3. CASE UNCHANGED <<table, contract>>
      BY <1>3 DEF table, contract, History, OneVersionAtATime, WindowsAreBounded, Precedes
<1> QED BY <1>1, <1>2, <1>3 DEF Next, Start, DropStage, Raise, vars

\* Where the preflight runs, the versions of a key follow each other in the
\* history of the table and at most one is current, whatever runs, failures and
\* retries come between the two MERGEs of a write (render_scd2_stage_sql and
\* render_scd2_merge_sql); and without a scd2_effective_from_column no window
\* ends before it starts, although its start is as old as the prepared view.
THEOREM VersionsFollowEachOther ==
    ASSUME Preflight
    PROVE  Spec => []OneVersionAtATime
<1>1. Init => PassedBatchesAreKeyed /\ History
      BY DEF Init, PassedBatchesAreKeyed, DuplicateKeys, History, OneVersionAtATime, WindowsAreBounded
<1>2. TypeOK /\ PassedBatchesAreKeyed /\ History /\ [Next]_vars
      => PassedBatchesAreKeyed' /\ History'
      BY PassedBatchesStayKeyed, HistoryStays
<1>3. History => OneVersionAtATime
      BY DEF History
<1> QED BY <1>1, <1>2, <1>3, HistoricalTypes, PTL DEF Spec

-----------------------------------------------------------------------------
(* Late rows *)

\* The source has a row of the key of v that is newer than v.
NewerRow(r, v) == \E s \in batch[r]: s.key = v.key /\ s.seq > v.seq

\* A row that is not late has a greater sequence than the version it meets.
LEMMA OnTimeIsNewer ==
    ASSUME TypeOK, OneVersionAtATime, policy # "apply", NEW rows,
           NEW v \in Current, v.seq # 0,
           NEW j \in OnTime(Joined(rows)), j[1].key = v.key, j[1].seq \in Nat
    PROVE  j[1].seq > v.seq
<1>1. j \in Joined(rows) /\ ~Late(j)
      BY DEF OnTime
<1>2. v \in Version /\ None \notin Current
      BY NoneAssumption DEF Current, TypeOK
<1>3. j[2] # None
      BY <1>1, <1>2 DEF Joined
<1>4. j[2] = v
      BY <1>1, <1>3, JoinTypes, OneCurrentVersion
<1>5. v.seq \in Nat
      BY <1>2, MaxAssumption DEF Version
<1> QED BY <1>1, <1>3, <1>4, <1>5 DEF Late

\* The rows of a batch have a sequence and a key.
LEMMA Sequences ==
    ASSUME TypeOK, NEW r \in Run, NEW s \in batch[r]
    PROVE  s.seq \in Nat /\ s.key \in Key
<1>1. s \in SourceRow
      BY BatchAssumption DEF TypeOK
<1> QED BY <1>1, MaxAssumption DEF SourceRow

\* The first MERGE ends a version only for a newer row of the batch.
LEMMA DeletesEndByNewerRows ==
    ASSUME TypeOK, OneVersionAtATime, policy # "apply", NEW r \in Run,
           NEW v \in Deleted(r), v.seq # 0
    PROVE  NewerRow(r, v)
<1>1. PICK j \in OnTime(DeleteJoin(r)): j[1].key = v.key
      BY DEF Deleted
<1>2. j[1] \in {[key |-> s.key, seq |-> s.seq]: s \in {s \in batch[r]: s.delete}}
      BY <1>1, JoinTypes DEF OnTime, DeleteJoin
<1>3. PICK s \in batch[r]: j[1].key = s.key /\ j[1].seq = s.seq
      BY <1>2
<1>4. v \in Current
      BY DEF Deleted
<1>5. j[1].seq > v.seq
      BY <1>1, <1>3, <1>4, Sequences, OnTimeIsNewer DEF DeleteJoin
<1> QED BY <1>1, <1>3, <1>5 DEF NewerRow

\* So does the second, unless the key of the version is NULL.
LEMMA UpsertsEndByNewerRows ==
    ASSUME TypeOK, OneVersionAtATime, policy # "apply", NEW r \in Run,
           NEW v \in Expired(r), v.seq # 0, v.key # NullKey
    PROVE  NewerRow(r, v)
<1>1. PICK x \in Stage(r): x.mergeKey = v.key
      BY DEF Expired, Updates
<1>2. x.row[1].key = v.key
      BY <1>1 DEF Stage
<1>3. x.row \in OnTime(StageJoin(r)) /\ x.row[1] \in batch[r]
      BY StagedRows DEF Changed
<1>4. v \in Current
      BY DEF Expired
<1>5. x.row[1].seq > v.seq
      BY <1>2, <1>3, <1>4, Sequences, OnTimeIsNewer DEF StageJoin
<1> QED BY <1>2, <1>3, <1>5 DEF NewerRow

\* A commit keeps every version that it does not end.
LEMMA CommittedVersionStays ==
    ASSUME NEW r, NEW hits, NEW new, Commit(r, Closing(hits) \cup new),
           NEW v \in versions, v \notin hits
    PROVE  v \in versions'
BY DEF Commit, Closing

\* Where no source row has a NULL merge key, no version has.
NoNullKeys == \A v \in versions: v.key # NullKey

LEMMA NullKeysStayOut ==
    ASSUME TypeOK, NoNullKeys, [Next]_vars, \A b \in Batch: \A s \in b: s.key # NullKey
    PROVE  NoNullKeys'
<1> USE DEF NoNullKeys
<1>1. ASSUME NEW hits PROVE \A v \in Closing(hits): v.key # NullKey
      <2>1. ASSUME NEW v \in versions PROVE [v EXCEPT !.to = commits + 1].key # NullKey
            <3>1. v \in Version
                  BY DEF TypeOK
            <3> QED BY <3>1 DEF Version
      <2> QED BY <2>1 DEF Closing
<1>2. ASSUME NEW r \in Run, NEW time PROVE \A v \in Inserted(r, time): v.key # NullKey
      <2>1. \A s \in batch[r]: s.key # NullKey
            BY DEF TypeOK
      <2> QED BY <2>1, StagedRows DEF Inserted, NewVersion
<1>3. ASSUME NEW r \in Run, DeleteMerge(r) \/ Merge(r) PROVE NoNullKeys'
      BY <1>1, <1>2, <1>3 DEF DeleteMerge, Merge, Commit
<1>4. CASE UNCHANGED table
      BY <1>4 DEF table
<1> QED BY <1>3, <1>4 DEF Next, Start, DropStage, Raise, vars

\* Under "ignore" and "reject", where no source row has a NULL merge key, only
\* a newer row of its key ends a version.
THEOREM OnlyNewerRowsEndVersions ==
    ASSUME Preflight, \A b \in Batch: \A s \in b: s.key # NullKey
    PROVE  Spec => VersionsEndByNewerRows
<1> DEFINE Step == policy # "apply" =>
                     \A v \in Current: v.seq # 0 /\ v \notin versions' =>
                        \E r \in Run: pc'[r] # pc[r] /\ NewerRow(r, v)
<1>1. Init => NoNullKeys
      BY DEF Init, NoNullKeys
<1>2. TypeOK /\ NoNullKeys /\ [Next]_vars => NoNullKeys'
      BY NullKeysStayOut
<1>3. TypeOK /\ OneVersionAtATime /\ NoNullKeys /\ [Next]_vars => Step
      <2> SUFFICES ASSUME TypeOK, OneVersionAtATime, NoNullKeys, [Next]_vars,
                          policy # "apply",
                          NEW v \in Current, v.seq # 0, v \notin versions'
                   PROVE  \E r \in Run: pc'[r] # pc[r] /\ NewerRow(r, v)
          OBVIOUS
      <2>1. v \in versions /\ v.key # NullKey
            BY DEF Current, NoNullKeys
      <2>2. ASSUME NEW r \in Run, DeleteMerge(r)
            PROVE  pc'[r] # pc[r] /\ NewerRow(r, v)
            <3>1. pc'[r] # pc[r]
                  BY <2>2 DEF DeleteMerge, Goto, TypeOK
            <3>2. Commit(r, Closing(Deleted(r)) \cup {})
                  BY <2>2 DEF DeleteMerge
            <3>3. v \in Deleted(r)
                  BY <2>1, <3>2, CommittedVersionStays
            <3> QED BY <3>1, <3>3, DeletesEndByNewerRows
      <2>3. ASSUME NEW r \in Run, Merge(r)
            PROVE  pc'[r] # pc[r] /\ NewerRow(r, v)
            <3>1. pc'[r] # pc[r]
                  BY <2>3 DEF Merge, Goto, TypeOK
            <3>2. PICK time \in Nat: Commit(r, Closing(Expired(r)) \cup Inserted(r, time))
                  BY <2>3, MergeTime
            <3>3. v \in Expired(r)
                  BY <2>1, <3>2, CommittedVersionStays
            <3> QED BY <2>1, <3>1, <3>3, UpsertsEndByNewerRows
      <2>4. ~UNCHANGED table
            BY <2>1 DEF table
      <2> QED BY <2>2, <2>3, <2>4 DEF Next, Start, DropStage, Raise, vars
<1>4. Step => [policy # "apply" =>
                 \A v \in Current: v.seq # 0 /\ v \notin versions' =>
                    \E r \in Run: /\ pc'[r] # pc[r]
                                  /\ \E s \in batch[r]: s.key = v.key /\ s.seq > v.seq]_vars
      BY DEF NewerRow
<1> QED BY <1>1, <1>2, <1>3, <1>4, HistoricalTypes, VersionsFollowEachOther, PTL
        DEF Spec, VersionsEndByNewerRows

-----------------------------------------------------------------------------
(* What an undisturbed write leaves behind *)

\* No two rows of the batch of a run have the same key.
LEMMA KeyedRows ==
    ASSUME PassedBatchesAreKeyed, NEW r \in Run, pc[r] # "failed",
           NEW s \in batch[r], NEW t \in batch[r], s.key = t.key
    PROVE  s = t
BY DEF PassedBatchesAreKeyed, DuplicateKeys

\* A row joins the current version of its key, or none if there is none.
LEMMA JoinIsTotal ==
    ASSUME TypeOK, OneVersionAtATime, NEW rows, NEW s \in rows
    PROVE  /\ \A v \in Current: v.key = s.key => <<s, v>> \in Joined(rows)
           /\ (\A v \in Current: v.key # s.key) => <<s, None>> \in Joined(rows)
BY DEF Joined

\* What the row s meets: the one current version of its key, or nothing.
LEMMA JoinIsUnique ==
    ASSUME TypeOK, OneVersionAtATime, NEW rows, NEW j \in Joined(rows), NEW v \in Current,
           j[1].key = v.key
    PROVE  j[2] = v /\ j = <<j[1], v>>
<1>1. None \notin Current
      BY NoneAssumption DEF Current, TypeOK
<1>2. j[2] # None
      BY <1>1 DEF Joined
<1>3. j[2] = v
      BY <1>2, JoinTypes, OneCurrentVersion
<1>4. j = <<j[1], j[2]>>
      BY <1>1 DEF Joined
<1> QED BY <1>3, <1>4

\* The deletes of a run whose first MERGE nothing has disturbed are in effect.
DeletesAreDone ==
    \A r \in Run:
        pc[r] = "merging" /\ clean[r] => \A s \in batch[r]: s.delete => Reflects(s)

Effective == AppliedBatchIsCurrent /\ DeletesAreDone

Sound == TypeOK /\ PassedBatchesAreKeyed /\ History /\ NoNullKeys

\* The current versions after a commit.
LEMMA CommittedCurrent ==
    ASSUME TypeOK, NEW r \in Run, NEW hits, hits \subseteq Current, NEW new,
           \A w \in new: w.to = 0, Commit(r, Closing(hits) \cup new)
    PROVE  Current' = (Current \ hits) \cup new
<1>1. ASSUME NEW v \in versions
      PROVE  [v EXCEPT !.to = commits + 1].to # 0
      <2>1. v \in Version /\ commits \in Nat
            BY DEF TypeOK
      <2> QED BY <2>1 DEF Version
<1> QED BY <1>1 DEF Commit, Closing, Current

\* Reading the same versions, a row takes effect as before.
LEMMA ReflectsStays ==
    ASSUME UNCHANGED <<policy, versions>>, NEW s
    PROVE  Reflects(s)' = Reflects(s)
BY DEF Reflects, Current, Late

\* The first MERGE puts the deletes of its batch into effect.
LEMMA DeletesTakeEffect ==
    ASSUME Sound, NEW r \in Run, DeleteMerge(r), NEW s \in batch[r], s.delete
    PROVE  Reflects(s)'
<1> DEFINE row == [key |-> s.key, seq |-> s.seq]
           rows == {[key |-> t.key, seq |-> t.seq]: t \in {t \in batch[r]: t.delete}}
<1>1. pc[r] = "deleting" /\ ~Rejected(DeleteJoin(r)) /\ policy' = policy
      /\ Commit(r, Closing(Deleted(r)) \cup {})
      BY DEF DeleteMerge, contract
<1>2. Current' = Current \ Deleted(r)
      <2> SUFFICES ASSUME NEW new, new = {} PROVE Current' = Current \ Deleted(r)
          OBVIOUS
      <2>1. Commit(r, Closing(Deleted(r)) \cup new) /\ Deleted(r) \subseteq Current
            BY <1>1 DEF Deleted
      <2>2. TypeOK /\ \A w \in new: w.to = 0
            BY DEF Sound
      <2>3. Current' = (Current \ Deleted(r)) \cup new
            <3> HIDE DEF rows, row
            <3> QED BY ONLY <2>1, <2>2, CommittedCurrent, r \in Run
      <2> QED BY <2>3
<1>3. CASE \A v \in Current: v.key # s.key
      BY <1>2, <1>3 DEF Reflects
<1>4. ASSUME NEW v \in Current, v.key = s.key
      PROVE  Reflects(s)'
      <2>1. <<row, v>> \in DeleteJoin(r)
            BY <1>4, JoinIsTotal DEF Sound, History, DeleteJoin
      <2>2. Late(<<row, v>>) <=> Late(<<s, v>>)
            BY DEF Late
      <2>3. CASE Late(<<s, v>>) /\ policy # "apply"
            <3>1. policy = "ignore"
                  BY <1>1, <2>1, <2>2, <2>3 DEF Rejected, Sound, TypeOK
            <3>2. v \notin Deleted(r)
                  <4> SUFFICES ASSUME NEW j \in OnTime(DeleteJoin(r)), j[1].key = v.key
                               PROVE  FALSE
                      BY DEF Deleted
                  <4>1. j = <<j[1], v>> /\ j[1] \in rows
                        BY <1>4, JoinIsUnique, JoinTypes DEF Sound, History, OnTime, DeleteJoin
                  <4>2. PICK t \in batch[r]: j[1] = [key |-> t.key, seq |-> t.seq]
                        BY <4>1
                  <4>3. t = s
                        BY <1>1, <1>4, <4>2, KeyedRows DEF Sound
                  <4> QED BY <2>2, <2>3, <4>1, <4>2, <4>3 DEF OnTime
            <3>3. v \in Current' /\ Late(<<s, v>>)'
                  BY <1>2, <2>3, <3>2 DEF Late
            <3> QED BY <1>1, <1>4, <3>1, <3>3 DEF Reflects
      <2>4. CASE ~Late(<<s, v>>) \/ policy = "apply"
            <3>1. <<row, v>> \in OnTime(DeleteJoin(r))
                  BY <2>1, <2>2, <2>4 DEF OnTime
            <3>2. v \in Deleted(r)
                  BY <1>4, <3>1 DEF Deleted
            <3>3. \A w \in Current': w.key # s.key
                  BY <1>2, <1>4, <3>2, OneCurrentVersion DEF Sound, History
            <3> QED BY <3>3 DEF Reflects
      <2> QED BY <2>3, <2>4
<1> QED BY <1>3, <1>4

\* The second MERGE ends a version only for an upsert of its key, and inserts
\* only upserts.
LEMMA UpsertsMatchTheirKey ==
    ASSUME Sound, NEW r \in Run, NEW time
    PROVE  /\ \A v \in Expired(r): \E s \in batch[r]:
                 ~s.delete /\ s.key = v.key /\ <<s, v>> \in Changed(r)
           /\ \A w \in Inserted(r, time): w.to = 0 /\ \E s \in batch[r]: ~s.delete /\ s.key = w.key
<1>1. ASSUME NEW x \in Stage(r)
      PROVE  x.row[1] \in batch[r] /\ ~x.row[1].delete /\ x.row \in Changed(r)
             /\ x.row \in Joined({s \in batch[r]: ~s.delete})
      <2>1. x.row \in Changed(r) /\ x.row[1] \in batch[r]
            BY <1>1, StagedRows DEF Sound
      <2>2. x.row \in Joined({s \in batch[r]: ~s.delete})
            BY <2>1 DEF Changed, OnTime, StageJoin
      <2> QED BY <2>1, <2>2, JoinTypes
<1>2. ASSUME NEW v \in Expired(r)
      PROVE  \E s \in batch[r]: ~s.delete /\ s.key = v.key /\ <<s, v>> \in Changed(r)
      <2>1. PICK x \in Stage(r): x.mergeKey = v.key
            BY DEF Expired, Updates
      <2>2. v \in Current /\ v.key # NullKey
            BY DEF Expired, Current, Sound, NoNullKeys
      <2>3. x.row[1].key = v.key
            BY <2>1, <2>2 DEF Stage
      <2>4. x.row = <<x.row[1], v>>
            BY <1>1, <2>2, <2>3, JoinIsUnique DEF Sound, History
      <2> QED BY <1>1, <2>3, <2>4
<1>3. ASSUME NEW w \in Inserted(r, time)
      PROVE  w.to = 0 /\ \E s \in batch[r]: ~s.delete /\ s.key = w.key
      <2>1. PICK x \in Stage(r): w = NewVersion(x.row[1], time)
            BY DEF Inserted
      <2>2. w.to = 0 /\ w.key = x.row[1].key
            BY <2>1 DEF NewVersion
      <2> QED BY <1>1, <2>2
<1> QED BY <1>2, <1>3

\* The second MERGE puts the upserts into effect and leaves the deletes so.
LEMMA UpsertsTakeEffect ==
    ASSUME Sound, DeletesAreDone, NEW r \in Run, Merge(r), clean[r], NEW s \in batch[r]
    PROVE  Reflects(s)'
<1> DEFINE rows == {t \in batch[r]: ~t.delete}
<1>0. PICK time \in Nat: Commit(r, Closing(Expired(r)) \cup Inserted(r, time))
      BY MergeTime DEF Sound
<1>1. pc[r] = "merging" /\ ~Rejected(StageJoin(r)) /\ policy' = policy
      /\ Commit(r, Closing(Expired(r)) \cup Inserted(r, time))
      BY <1>0 DEF Merge, contract
<1>2. Current' = (Current \ Expired(r)) \cup Inserted(r, time)
      BY <1>1, UpsertsMatchTheirKey, CommittedCurrent DEF Sound, Expired
<1>3. ASSUME NEW t \in batch[r], t.key = s.key
      PROVE  t = s
      BY <1>1, <1>3, KeyedRows DEF Sound
\* The insert side of a changed row meets no version: none has a NULL key.
<1>4. ASSUME NEW v, <<s, v>> \in Changed(r)
      PROVE  \E w \in Inserted(r, time): w.key = s.key /\ w.hash = s.hash
      <2> DEFINE x == [row |-> <<s, v>>, mergeKey |-> NullKey, side |-> "insert"]
      <2>1. x \in Stage(r)
            BY <1>4 DEF Stage
      <2>2. \A u \in Current: u.key # x.mergeKey
            BY DEF Sound, NoNullKeys, Current
      <2> DEFINE w == NewVersion(s, time)
      <2>3. x.row[1] = s
            OBVIOUS
      <2>4. w \in Inserted(r, time)
            <3> HIDE DEF x
            <3> QED BY <2>1, <2>2, <2>3 DEF Inserted
      <2> QED BY <2>4 DEF NewVersion
<1>5. CASE s.delete
      <2>1. Reflects(s)
            BY <1>1, <1>5 DEF DeletesAreDone
      <2>2. ASSUME NEW v \in Expired(r), v.key = s.key
            PROVE  FALSE
            <3>1. PICK t \in batch[r]: ~t.delete /\ t.key = v.key
                  BY UpsertsMatchTheirKey
            <3> QED BY <1>3, <1>5, <2>2, <3>1
      <2>3. ASSUME NEW w \in Inserted(r, time), w.key = s.key
            PROVE  FALSE
            <3>1. PICK t \in batch[r]: ~t.delete /\ t.key = w.key
                  BY UpsertsMatchTheirKey
            <3> QED BY <1>3, <1>5, <2>3, <3>1
      <2>4. ASSUME NEW v \in Current, v.key = s.key, Late(<<s, v>>)
            PROVE  v \in Current' /\ Late(<<s, v>>)'
            BY <1>2, <2>2, <2>4 DEF Late
      <2> QED BY <1>1, <1>2, <1>5, <2>1, <2>3, <2>4 DEF Reflects
<1>6. CASE ~s.delete
      <2>1. s \in rows
            BY <1>6
      <2>2. CASE \A v \in Current: v.key # s.key
            <3>1. <<s, None>> \in StageJoin(r)
                  BY <2>1, <2>2, JoinIsTotal DEF Sound, History, StageJoin
            <3>2. <<s, None>> \in Changed(r)
                  BY <3>1 DEF Changed, OnTime, Late
            <3> QED BY <1>2, <1>4, <1>6, <3>2 DEF Reflects
      <2>3. ASSUME NEW v \in Current, v.key = s.key
            PROVE  Reflects(s)'
            <3>1. <<s, v>> \in StageJoin(r)
                  BY <2>1, <2>3, JoinIsTotal DEF Sound, History, StageJoin
            <3>2. v \in Expired(r) => <<s, v>> \in Changed(r)
                  BY <1>3, <2>3, UpsertsMatchTheirKey
            <3>3. CASE Late(<<s, v>>) /\ policy # "apply"
                  <4>1. policy = "ignore"
                        BY <1>1, <3>1, <3>3 DEF Rejected, Sound, TypeOK
                  <4>2. <<s, v>> \notin Changed(r)
                        BY <3>3 DEF Changed, OnTime
                  <4>3. v \in Current' /\ Late(<<s, v>>)'
                        BY <1>2, <3>2, <3>3, <4>2 DEF Late
                  <4> QED BY <1>1, <2>3, <4>1, <4>3 DEF Reflects
            <3>4. CASE (~Late(<<s, v>>) \/ policy = "apply") /\ s.hash # v.hash
                  <4>1. <<s, v>> \in Changed(r)
                        BY <3>1, <3>4 DEF Changed, OnTime
                  <4> QED BY <1>2, <1>4, <1>6, <4>1 DEF Reflects
            <3>5. CASE s.hash = v.hash
                  <4>1. v # None
                        BY NoneAssumption DEF Current, Sound, TypeOK
                  <4>2. v \in Current'
                        BY <1>2, <3>2, <3>5, <4>1 DEF Changed
                  <4> QED BY <1>6, <2>3, <3>5, <4>2 DEF Reflects
            <3> QED BY <3>3, <3>4, <3>5
      <2> QED BY <2>2, <2>3
<1> QED BY <1>5, <1>6

\* Every step keeps the last undisturbed write in effect.
LEMMA EffectStays ==
    ASSUME Sound, Effective, [Next]_vars
    PROVE  Effective'
<1> USE DEF Goto
<1>1. AppliedBatchIsCurrent /\ DeletesAreDone
      BY DEF Effective
<1>2. ASSUME UNCHANGED <<policy, versions, applied>>
      PROVE  AppliedBatchIsCurrent'
      BY <1>1, <1>2, ReflectsStays DEF AppliedBatchIsCurrent
<1>3. ASSUME UNCHANGED <<policy, versions>>, NEW r \in Run, UNCHANGED batch[r],
             pc'[r] = "merging" /\ clean'[r] => pc[r] = "merging" /\ clean[r]
      PROVE  pc'[r] = "merging" /\ clean'[r] => \A s \in batch'[r]: s.delete => Reflects(s)'
      BY <1>1, <1>3, ReflectsStays DEF DeletesAreDone
\* A commit of r disturbs the others, or it changes no version.
<1>4. ASSUME NEW r \in Run, NEW new, Commit(r, new), UNCHANGED <<policy, batch>>,
             \A q \in Run \ {r}: pc'[q] = pc[q],
             NEW q \in Run \ {r}
      PROVE  pc'[q] = "merging" /\ clean'[q] => \A s \in batch'[q]: s.delete => Reflects(s)'
      <2>1. clean'[q] = (clean[q] /\ new = versions) /\ versions' = new
            BY <1>4 DEF Commit
      <2>2. CASE new = versions
            BY <1>3, <1>4, <2>1, <2>2
      <2>3. CASE new # versions
            BY <2>1, <2>3
      <2> QED BY <2>2, <2>3
<1>5. ASSUME NEW r \in Run, DeleteMerge(r) PROVE Effective'
      <2>1. /\ Commit(r, Closing(Deleted(r))) /\ UNCHANGED <<policy, batch>>
            /\ applied' = IF versions' = versions THEN applied ELSE {}
            /\ \A q \in Run \ {r}: pc'[q] = pc[q]
            BY <1>5 DEF DeleteMerge, Sound, TypeOK, contract
      <2>2. AppliedBatchIsCurrent'
            BY <1>2, <2>1 DEF AppliedBatchIsCurrent
      <2>3. ASSUME NEW q \in Run
            PROVE  pc'[q] = "merging" /\ clean'[q] => \A s \in batch'[q]: s.delete => Reflects(s)'
            BY <1>4, <1>5, <2>1, DeletesTakeEffect
      <2> QED BY <2>2, <2>3 DEF Effective, DeletesAreDone
<1>6. ASSUME NEW r \in Run, Merge(r) PROVE Effective'
      <2>0. PICK time \in Nat: Commit(r, Closing(Expired(r)) \cup Inserted(r, time))
            BY <1>6, MergeTime DEF Sound
      <2>1. /\ Commit(r, Closing(Expired(r)) \cup Inserted(r, time)) /\ UNCHANGED <<policy, batch>>
            /\ applied' = IF clean[r] THEN batch[r] ELSE {}
            /\ pc'[r] = "dropping" /\ \A q \in Run \ {r}: pc'[q] = pc[q]
            BY <1>6, <2>0 DEF Merge, Sound, TypeOK, contract
      <2>2. AppliedBatchIsCurrent'
            BY <1>1, <1>6, <2>1, UpsertsTakeEffect DEF AppliedBatchIsCurrent
      <2>3. ASSUME NEW q \in Run
            PROVE  pc'[q] = "merging" /\ clean'[q] => \A s \in batch'[q]: s.delete => Reflects(s)'
            BY <1>4, <2>1
      <2> QED BY <2>2, <2>3 DEF Effective, DeletesAreDone
<1>7. ASSUME NEW r \in Run, Start(r) \/ DropStage(r) \/ Raise(r) PROVE Effective'
      <2>1. /\ UNCHANGED <<policy, versions, applied>>
            /\ pc'[r] # "merging"
            /\ \A q \in Run \ {r}: UNCHANGED <<pc[q], clean[q], batch[q]>>
            BY <1>7 DEF Start, DropStage, Raise, table, contract, Sound, TypeOK
      <2>2. AppliedBatchIsCurrent'
            BY <1>2, <2>1
      <2>3. ASSUME NEW q \in Run
            PROVE  pc'[q] = "merging" /\ clean'[q] => \A s \in batch'[q]: s.delete => Reflects(s)'
            BY <1>3, <2>1
      <2> QED BY <2>2, <2>3 DEF Effective, DeletesAreDone
<1>8. CASE UNCHANGED vars
      BY <1>2, <1>3, <1>8 DEF vars, table, contract, Effective, DeletesAreDone
<1> QED BY <1>5, <1>6, <1>7, <1>8 DEF Next

\* The invariant that the two theorems on replays rest on.
LEMMA EffectsHold ==
    ASSUME Preflight, \A b \in Batch: \A s \in b: s.key # NullKey
    PROVE  Spec => [](Sound /\ Effective)
<1> DEFINE Rest == PassedBatchesAreKeyed /\ History /\ NoNullKeys /\ Effective
<1>1. Init => Rest
      BY DEF Init, PassedBatchesAreKeyed, DuplicateKeys, History, OneVersionAtATime, WindowsAreBounded,
         NoNullKeys, Effective, AppliedBatchIsCurrent, DeletesAreDone
<1>2. TypeOK /\ Rest /\ [Next]_vars => Rest'
      BY PassedBatchesStayKeyed, HistoryStays, NullKeysStayOut, EffectStays DEF Sound
<1>3. TypeOK /\ Rest => Sound /\ Effective
      BY DEF Sound
<1> QED BY <1>1, <1>2, <1>3, HistoricalTypes, PTL DEF Spec

\* Where no source row has a NULL merge key, every row of the batch whose write
\* ended undisturbed, and after which nothing else was written, is in effect:
\* the two MERGEs, failures and retries together lose no key and no change.
THEOREM UndisturbedWritesTakeEffect ==
    ASSUME Preflight, \A b \in Batch: \A s \in b: s.key # NullKey
    PROVE  Spec => []AppliedBatchIsCurrent
<1>1. Sound /\ Effective => AppliedBatchIsCurrent
      BY DEF Effective
<1> QED BY <1>1, EffectsHold, PTL

\* A batch that is in effect changes no version when it is written again.
LEMMA EffectiveBatchesChangeNothing ==
    ASSUME Sound, AppliedBatchIsCurrent, NEW r \in Run, batch[r] = applied,
           DeleteMerge(r) \/ Merge(r)
    PROVE  versions' = versions
<1>1. ASSUME NEW s \in batch[r], NEW v \in Current, v.key = s.key
      PROVE  \/ policy = "ignore" /\ Late(<<s, v>>)
             \/ ~s.delete /\ v.hash = s.hash
      <2>1. Reflects(s)
            BY <1>1 DEF AppliedBatchIsCurrent
      <2> QED BY <1>1, <2>1, OneCurrentVersion DEF Reflects, Sound, History
<1>2. ASSUME NEW s \in batch[r], ~s.delete, \A v \in Current: v.key # s.key
      PROVE  FALSE
      BY <1>2 DEF AppliedBatchIsCurrent, Reflects
<1>3. Closing({}) = versions
      BY DEF Closing
<1>4. CASE DeleteMerge(r)
      <2>1. Deleted(r) = {}
            <3> SUFFICES ASSUME NEW v \in Current, NEW j \in OnTime(DeleteJoin(r)), j[1].key = v.key
                         PROVE  FALSE
                BY DEF Deleted
            <3>1. j = <<j[1], v>> /\ j[1] \in {[key |-> s.key, seq |-> s.seq]: s \in {s \in batch[r]: s.delete}}
                  BY JoinIsUnique, JoinTypes DEF Sound, History, OnTime, DeleteJoin
            <3>2. PICK s \in batch[r]: s.delete /\ j[1] = [key |-> s.key, seq |-> s.seq]
                  BY <3>1
            <3>3. policy = "ignore" /\ Late(<<s, v>>)
                  BY <1>1, <3>2
            <3>4. Late(j)
                  BY <3>1, <3>2, <3>3 DEF Late
            <3> QED BY <3>3, <3>4 DEF OnTime
      <2> QED BY <1>3, <1>4, <2>1 DEF DeleteMerge, Commit
<1>5. CASE Merge(r)
      <2>1. Changed(r) = {}
            <3> SUFFICES ASSUME NEW j \in OnTime(StageJoin(r)), j[2] = None \/ j[1].hash # j[2].hash
                         PROVE  FALSE
                BY DEF Changed
            <3>1. j \in Joined({s \in batch[r]: ~s.delete}) /\ (policy = "apply" \/ ~Late(j))
                  BY DEF OnTime, StageJoin
            <3>2. j[1] \in batch[r] /\ ~j[1].delete
                  BY <3>1, JoinTypes
            <3>3. PICK v \in Current: v.key = j[1].key
                  BY <1>2, <3>2
            <3>4. j = <<j[1], v>> /\ j[2] = v /\ v # None
                  BY <3>1, <3>3, JoinIsUnique, NoneAssumption DEF Sound, History, Current, TypeOK
            <3> QED BY <1>1, <3>1, <3>2, <3>3, <3>4
      <2>2. Stage(r) = {}
            BY <2>1 DEF Stage
      <2>3. Expired(r) = {} /\ \A time: Inserted(r, time) = {}
            BY <2>2 DEF Expired, Inserted
      <2>4. PICK time \in Nat: Commit(r, Closing(Expired(r)) \cup Inserted(r, time))
            BY <1>5, MergeTime DEF Sound
      <2> QED BY <1>3, <2>3, <2>4 DEF Commit
<1> QED BY <1>4, <1>5

\* Writing the batch again that was written last, undisturbed, adds no version
\* and ends none: a replay, or a retry after the commit, is harmless.
THEOREM ReplaysAddNothing ==
    ASSUME Preflight, \A b \in Batch: \A s \in b: s.key # NullKey
    PROVE  Spec => ReplayAddsNothing
<1> DEFINE Step == \A r \in Run: pc[r] \in {"deleting", "merging"} /\ pc'[r] # pc[r]
                                 /\ batch[r] = applied => versions' = versions
<1>1. Sound /\ Effective /\ [Next]_vars => [Step]_vars
      <2> SUFFICES ASSUME Sound, Effective, Next, NEW r \in Run, pc[r] \in {"deleting", "merging"},
                          pc'[r] # pc[r], batch[r] = applied
                   PROVE  versions' = versions
          BY DEF vars
      <2>1. ASSUME NEW q \in Run, q # r,
                   Start(q) \/ DeleteMerge(q) \/ Merge(q) \/ DropStage(q) \/ Raise(q)
            PROVE  FALSE
            BY <2>1 DEF Start, DeleteMerge, Merge, DropStage, Raise, Goto, Sound, TypeOK
      <2>2. CASE DeleteMerge(r) \/ Merge(r)
            BY <2>2, EffectiveBatchesChangeNothing DEF Effective
      <2>3. CASE Start(r) \/ DropStage(r) \/ Raise(r)
            BY <2>3 DEF Start, DropStage, Raise, table
      <2> QED BY <2>1, <2>2, <2>3 DEF Next
<1> QED BY <1>1, EffectsHold, PTL DEF Spec, ReplayAddsNothing

=============================================================================
