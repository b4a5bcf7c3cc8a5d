------------------------- MODULE TargetWrites_proofs --------------------------
(***************************************************************************)
(* Proofs about a target, for every contract and any number of runs.       *)
(*                                                                         *)
(* The columns: evidence of schema changes, the schema policies, and the   *)
(* column that a value ends up in.  ColInv is the inductive invariant,     *)
(* OrderInv what is added to it for a source that only grows at its end.   *)
(*                                                                         *)
(* The rows: one row of a key, what a commit means, and replays.  Every    *)
(* commit of the four adapters is brought to one description (Writes, with *)
(* Merges for a MERGE); RowsInv is the inductive invariant.                *)
(***************************************************************************)
EXTENDS TargetWrites, FiniteSetTheorems, TLAPS

Shape == Columns!Shape

\* A column of a shape has a name and a type.
LEMMA ColumnIs ==
    ASSUME NEW l \in Shape, NEW i \in DOMAIN l
    PROVE  /\ l[i] \in [name: Nat, type: Columns!Type]
           /\ l[i].name \in Nat /\ l[i].type \in Columns!Type
           /\ l[i].name \in Columns!Names(l)
           /\ Columns!TypeOf(l, l[i].name) = l[i].type
<1>1. l \in Seq(Columns!ColumnOf) BY DEF Shape, Columns!Shape
<1>2. l[i] \in [name: Nat, type: Columns!Type]
      <2>1. l[i] \in Columns!ColumnOf BY <1>1
      <2> QED BY <2>1 DEF Columns!ColumnOf
<1>3. l[i].name \in Columns!Names(l) BY DEF Columns!Names
<1>4. \A j \in DOMAIN l: l[j].name = l[i].name => j = i BY DEF Shape, Columns!Shape
<1>5. (CHOOSE j \in DOMAIN l: l[j].name = l[i].name) = i BY <1>4
<1> QED BY <1>2, <1>3, <1>5 DEF Columns!TypeOf

LEMMA NameIs ==
    ASSUME NEW l \in Shape, NEW n \in Columns!Names(l)
    PROVE  \E i \in DOMAIN l: l[i].name = n /\ l[i].type = Columns!TypeOf(l, n)
<1>1. PICK i \in DOMAIN l: n = l[i].name BY DEF Columns!Names
<1> QED BY <1>1, ColumnIs

LEMMA LengthIs ==
    ASSUME NEW l \in Shape
    PROVE  /\ Len(l) \in Nat /\ DOMAIN l = 1..Len(l)
           /\ l = <<>> <=> Len(l) = 0
           /\ l # <<>> => Columns!Names(l) # {}
           /\ Columns!Names(l) \subseteq Nat
           /\ l = [i \in 1..Len(l) |-> l[i]]
<1>1. l \in Seq([name: Nat, type: Columns!Type]) BY DEF Shape, Columns!Shape, Columns!ColumnOf
<1>2. Len(l) \in Nat /\ DOMAIN l = 1..Len(l) /\ (l = <<>> <=> Len(l) = 0) BY <1>1
<1>3. ASSUME l # <<>> PROVE Columns!Names(l) # {}
      <2>1. 1 \in DOMAIN l BY <1>2, <1>3
      <2> QED BY <2>1, ColumnIs
<1>4. Columns!Names(l) \subseteq Nat BY ColumnIs DEF Columns!Names
<1>5. l = [i \in 1..Len(l) |-> l[i]] BY <1>1
<1> QED BY <1>2, <1>3, <1>4, <1>5

\* Types that an engine has in place of others do not touch the names.
LEMMA NativeIs ==
    ASSUME NEW l \in Shape
    PROVE  /\ Columns!Native(l) \in Shape
           /\ Len(Columns!Native(l)) = Len(l)
           /\ \A i \in DOMAIN l: Columns!Native(l)[i].name = l[i].name
           /\ Columns!Names(Columns!Native(l)) = Columns!Names(l)
           /\ l # <<>> => Columns!Native(l) # <<>>
<1> DEFINE m == Columns!Native(l)
<1>1. l \in Seq([name: Nat, type: Columns!Type]) /\ Len(l) \in Nat /\ DOMAIN l = 1..Len(l)
      BY LengthIs DEF Shape, Columns!Shape, Columns!ColumnOf
<1>2. m = [i \in 1..Len(l) |-> [l[i] EXCEPT !.type = Columns!NativeType(l[i].type)]]
      BY <1>1 DEF Columns!Native
<1>3. \A t \in Columns!Type: Columns!NativeType(t) \in Columns!Type BY DEF Columns!NativeType, Columns!Type
<1>4. \A i \in 1..Len(l): l[i] \in [name: Nat, type: Columns!Type] BY ColumnIs, <1>1
<1>5. \A i \in 1..Len(l): m[i] \in [name: Nat, type: Columns!Type] /\ m[i].name = l[i].name
      BY <1>2, <1>3, <1>4
<1>6. m \in Seq([name: Nat, type: Columns!Type]) /\ Len(m) = Len(l) /\ DOMAIN m = 1..Len(l)
      BY <1>2, <1>5, <1>1
<1>7. m \in Shape BY <1>5, <1>6, <1>1 DEF Shape, Columns!Shape, Columns!ColumnOf
<1>8. Columns!Names(m) = Columns!Names(l) BY <1>5, <1>6, <1>1 DEF Columns!Names
<1> QED BY <1>5, <1>6, <1>7, <1>8, <1>1

\* One shape after another with other names.
LEMMA Appends ==
    ASSUME NEW l \in Shape, NEW m \in Shape, Columns!Names(l) \cap Columns!Names(m) = {}
    PROVE  /\ l \o m \in Shape
           /\ Len(l \o m) = Len(l) + Len(m)
           /\ \A i \in DOMAIN l: (l \o m)[i] = l[i]
           /\ \A i \in DOMAIN m: (l \o m)[Len(l) + i] = m[i]
           /\ Columns!Names(l \o m) = Columns!Names(l) \cup Columns!Names(m)
           /\ \A n \in Columns!Names(l): Columns!TypeOf(l \o m, n) = Columns!TypeOf(l, n)
           /\ \A n \in Columns!Names(m): Columns!TypeOf(l \o m, n) = Columns!TypeOf(m, n)
           /\ Columns!Begins(l, l \o m)
<1> DEFINE C == Columns!ColumnOf
           lm == l \o m
<1>1. l \in Seq(C) /\ m \in Seq(C) BY DEF Shape, Columns!Shape
<1>2. lm \in Seq(C) BY <1>1
<1>3. /\ Len(l) \in Nat /\ Len(m) \in Nat /\ Len(lm) = Len(l) + Len(m)
      /\ DOMAIN l = 1..Len(l) /\ DOMAIN m = 1..Len(m) /\ DOMAIN lm = 1..(Len(l) + Len(m))
      BY <1>1, <1>2
<1>4. \A i \in DOMAIN l: lm[i] = l[i] /\ i \in DOMAIN lm BY <1>1, <1>3
<1>5. \A i \in DOMAIN m: lm[Len(l) + i] = m[i] /\ Len(l) + i \in DOMAIN lm BY <1>1, <1>3
<1>6. \A i \in DOMAIN lm: i \in DOMAIN l \/ \E j \in DOMAIN m: i = Len(l) + j
      <2>1. TAKE i \in DOMAIN lm
      <2>2. CASE i > Len(l)
            <3>1. i - Len(l) \in 1..Len(m) /\ i = Len(l) + (i - Len(l)) BY <1>3, <2>2
            <3> QED BY <3>1, <1>3
      <2> QED BY <2>2, <1>3
<1> HIDE DEF lm
<1>7. \A i \in DOMAIN l: l[i].name \in Columns!Names(l) BY ColumnIs
<1>8. \A i \in DOMAIN m: m[i].name \in Columns!Names(m) BY ColumnIs
<1>9. \A i, j \in DOMAIN lm: lm[i].name = lm[j].name => i = j
      <2>1. \A i, j \in DOMAIN l: lm[i].name = lm[j].name => i = j BY <1>4 DEF Shape, Columns!Shape
      <2>2. \A i, j \in DOMAIN m: lm[Len(l) + i].name = lm[Len(l) + j].name => i = j
            BY <1>5 DEF Shape, Columns!Shape
      <2>3. \A i \in DOMAIN l, j \in DOMAIN m: lm[i].name # lm[Len(l) + j].name
            BY <1>4, <1>5, <1>7, <1>8
      <2> QED BY <1>6, <2>1, <2>2, <2>3
<1>10. lm \in Shape BY <1>2, <1>9 DEF Shape, Columns!Shape
<1>11. Columns!Names(lm) = Columns!Names(l) \cup Columns!Names(m)
      BY <1>4, <1>5, <1>6 DEF Columns!Names
<1>12. \A n \in Columns!Names(l): Columns!TypeOf(lm, n) = Columns!TypeOf(l, n)
      <2>1. TAKE n \in Columns!Names(l)
      <2>2. PICK i \in DOMAIN l: l[i].name = n /\ l[i].type = Columns!TypeOf(l, n) BY NameIs
      <2> QED BY <2>2, <1>4, <1>10, ColumnIs
<1>13. \A n \in Columns!Names(m): Columns!TypeOf(lm, n) = Columns!TypeOf(m, n)
      <2>1. TAKE n \in Columns!Names(m)
      <2>2. PICK i \in DOMAIN m: m[i].name = n /\ m[i].type = Columns!TypeOf(m, n) BY NameIs
      <2> QED BY <2>2, <1>5, <1>10, ColumnIs
<1>14. Columns!Begins(l, lm) BY <1>3, <1>4 DEF Columns!Begins
<1> QED BY <1>3, <1>4, <1>5, <1>10, <1>11, <1>12, <1>13, <1>14 DEF lm

\* The instance has a copy of the operator.
LEMMA CountsAlike == \A S: Columns!Cardinality(S) = Cardinality(S)
BY DEF Columns!Cardinality, Cardinality

\* The columns that are picked come out once each.
LEMMA RankedIs ==
    ASSUME NEW l \in Shape, NEW names, NEW key \in [DOMAIN l -> Nat],
           \A i, j \in DOMAIN l: key[i] = key[j] => i = j
    PROVE  /\ Columns!Ranked(l, names, key) \in Shape
           /\ Columns!Names(Columns!Ranked(l, names, key)) = Columns!Names(l) \cap names
           /\ \A k \in DOMAIN Columns!Ranked(l, names, key):
                 \E i \in DOMAIN l: l[i].name \in names /\ Columns!Ranked(l, names, key)[k] = l[i]
<1> DEFINE picked == Columns!Picked(l, names)
           N == Cardinality(picked)
           Below(i) == {j \in picked: key[j] < key[i]}
           Rank(i) == Cardinality(Below(i)) + 1
           rank == [i \in picked |-> Rank(i)]
           At(k) == Columns!Place(l, names, key, k)
           R == Columns!Ranked(l, names, key)
<1>1. R = [k \in 1..N |-> l[At(k)]]
      BY SMT, CountsAlike DEF Columns!Ranked
<1>0. \A i \in picked: i \in DOMAIN l /\ key[i] \in Nat BY DEF Columns!Picked
<1>2. IsFiniteSet(picked) /\ N \in Nat
      <2>1. IsFiniteSet(DOMAIN l)
            <3>1. DOMAIN l = 1..Len(l) /\ Len(l) \in Int /\ 1 \in Int BY LengthIs
            <3> QED BY <3>1, FS_Interval
      <2>2. picked \in SUBSET DOMAIN l BY DEF Columns!Picked
      <2>3. IsFiniteSet(picked) BY <2>1, <2>2, FS_Subset
      <2> QED BY <2>3, FS_CardinalityType
<1>3. ASSUME NEW i \in picked
      PROVE  /\ IsFiniteSet(Below(i)) /\ Cardinality(Below(i)) \in Nat
             /\ Cardinality(Below(i) \cup {i}) = Cardinality(Below(i)) + 1
             /\ IsFiniteSet(Below(i) \cup {i})
      <2>1. Below(i) \in SUBSET picked OBVIOUS
      <2>2. IsFiniteSet(Below(i)) BY <1>2, <2>1, FS_Subset
      <2>3. i \notin Below(i)
            <3> QED BY <1>0
      <2> QED BY <2>2, <2>3, FS_AddElement, FS_CardinalityType
<1>4. ASSUME NEW i \in picked PROVE rank[i] \in 1..N
      <2>1. Below(i) \cup {i} \in SUBSET picked OBVIOUS
      <2>2. Cardinality(Below(i) \cup {i}) <= N BY <1>2, <2>1, FS_Subset
      <2>3. Cardinality(Below(i)) \in Nat /\ Cardinality(Below(i)) + 1 <= N BY <1>3, <2>2
      <2>4. Rank(i) \in 1..N BY <1>2, <2>3
      <2> QED BY <2>4
<1>5. ASSUME NEW i \in picked, NEW j \in picked, key[i] < key[j] PROVE rank[i] < rank[j]
      <2>1. Below(i) \cup {i} \in SUBSET Below(j)
            <3> HIDE DEF picked
            <3> QED BY <1>0, <1>5
      <2>2. Cardinality(Below(i) \cup {i}) <= Cardinality(Below(j)) BY <1>3, <2>1, FS_Subset
      <2>3. Cardinality(Below(i)) + 1 <= Cardinality(Below(j)) BY <1>3, <2>2
      <2>4. Cardinality(Below(i)) \in Nat /\ Cardinality(Below(j)) \in Nat BY <1>3
      <2> QED BY <2>3, <2>4
<1>6. \A i, j \in picked: rank[i] = rank[j] => i = j
      <2>1. TAKE i, j \in picked
      <2>3. i # j => key[i] < key[j] \/ key[j] < key[i] BY <1>0
      <2> HIDE DEF rank, picked, N
      <2>4. rank[i] \in Nat /\ rank[j] \in Nat BY <1>2, <1>4
      <2>5. key[i] < key[j] => rank[i] < rank[j] BY <1>5
      <2>6. key[j] < key[i] => rank[j] < rank[i] BY <1>5
      <2> QED BY <2>3, <2>4, <2>5, <2>6
<1>7. ASSUME NEW k \in 1..N PROVE \E i \in picked: rank[i] = k
      <2>1. SUFFICES ASSUME \A i \in picked: rank[i] # k PROVE FALSE OBVIOUS
      <2> DEFINE T == (1..N) \ {k}
      <2>2. IsFiniteSet(T) /\ Cardinality(T) = N - 1
            <3> HIDE DEF N
            <3>1. IsFiniteSet(1..N) /\ Cardinality(1..N) = N
                  <4>1. 1 \in Int /\ N \in Int BY <1>2
                  <4>2. IsFiniteSet(1..N) /\ Cardinality(1..N) = IF 1 > N THEN 0 ELSE N - 1 + 1
                        BY <4>1, FS_Interval
                  <4> QED BY <1>2, <4>2
            <3> QED BY <3>1, FS_RemoveElement
      <2>3. rank \in [picked -> T] BY <1>4, <2>1
      <2>4. Cardinality(T) < Cardinality(picked) BY <1>2, <2>2
      <2> HIDE DEF T, rank, picked
      <2>5. \E i, j \in picked: i # j /\ rank[i] = rank[j] BY <1>2, <2>2, <2>3, <2>4, FS_PigeonHole
      <2> QED BY <2>5, <1>6
<1>8. \A k \in 1..N: At(k) \in picked /\ rank[At(k)] = k
      <2>1. TAKE k \in 1..N
      <2>2. \E i \in picked: Cardinality(Below(i)) + 1 = k BY <1>7
      <2>3. At(k) \in picked /\ Cardinality(Below(At(k))) + 1 = k BY <2>2, CountsAlike DEF Columns!Place
      <2> QED BY <2>3
<1>9. \A i \in picked: rank[i] \in 1..N /\ At(rank[i]) = i
      BY <1>4, <1>6, <1>8
<1> HIDE DEF rank, At, N, picked, R
<1>10. R \in Seq(Columns!ColumnOf) /\ DOMAIN R = 1..N
      <2>1. \A k \in 1..N: l[At(k)] \in Columns!ColumnOf BY <1>8, ColumnIs DEF Columns!ColumnOf, picked, Columns!Picked
      <2> QED BY <1>1, <1>2, <2>1
<1>11. R \in Shape
      <2>1. \A k, m \in DOMAIN R: R[k].name = R[m].name => k = m
            <3>1. TAKE k, m \in DOMAIN R
            <3>2. HAVE R[k].name = R[m].name
            <3>3. At(k) \in DOMAIN l /\ At(m) \in DOMAIN l /\ l[At(k)].name = l[At(m)].name
                  BY <1>1, <1>8, <1>10, <3>2 DEF picked, Columns!Picked
            <3>4. At(k) = At(m) BY <3>3 DEF Shape, Columns!Shape
            <3> QED BY <1>8, <1>10, <3>4
      <2> QED BY <1>10, <2>1 DEF Shape, Columns!Shape
<1>12. Columns!Names(R) = Columns!Names(l) \cap names
      <2>1. ASSUME NEW n \in Columns!Names(R) PROVE n \in Columns!Names(l) \cap names
            <3>1. PICK k \in 1..N: n = R[k].name BY <1>10 DEF Columns!Names
            <3> QED BY <1>1, <1>8, <3>1 DEF Columns!Names, picked, Columns!Picked
      <2>2. ASSUME NEW n \in Columns!Names(l) \cap names PROVE n \in Columns!Names(R)
            <3>1. PICK i \in DOMAIN l: n = l[i].name BY DEF Columns!Names
            <3>2. i \in picked BY <3>1 DEF picked, Columns!Picked
            <3>3. rank[i] \in DOMAIN R /\ R[rank[i]].name = n BY <1>1, <1>9, <1>10, <3>1, <3>2
            <3> QED BY <3>3 DEF Columns!Names
      <2> QED BY <2>1, <2>2
<1>13. \A k \in DOMAIN R: \E i \in DOMAIN l: l[i].name \in names /\ R[k] = l[i]
      BY <1>1, <1>8, <1>10 DEF picked, Columns!Picked
<1> QED BY <1>11, <1>12, <1>13 DEF R

\* What is picked from the end of a shape, if the key ascends, is that end.
LEMMA RankedEnd ==
    ASSUME NEW l \in Shape, NEW names, NEW key \in [DOMAIN l -> Nat], NEW p \in Nat,
           \A i, j \in DOMAIN l: i < j => key[i] < key[j],
           \A i \in DOMAIN l: l[i].name \in names <=> i > p
    PROVE  /\ Len(Columns!Ranked(l, names, key)) = IF p > Len(l) THEN 0 ELSE Len(l) - p
           /\ \A k \in DOMAIN Columns!Ranked(l, names, key):
                 p + k \in DOMAIN l /\ Columns!Ranked(l, names, key)[k] = l[p + k]
<1> DEFINE picked == Columns!Picked(l, names)
           N == Cardinality(picked)
           Below(i) == {j \in picked: key[j] < key[i]}
           R == Columns!Ranked(l, names, key)
<1>1. R = [k \in 1..N |-> l[Columns!Place(l, names, key, k)]]
      BY SMT, CountsAlike DEF Columns!Ranked
<1>2. Len(l) \in Nat /\ DOMAIN l = 1..Len(l) BY LengthIs
<1>3. picked = (p + 1)..Len(l) BY <1>2 DEF Columns!Picked
<1>4. N = IF p > Len(l) THEN 0 ELSE Len(l) - p
      <2>1. p + 1 \in Int /\ Len(l) \in Int BY <1>2
      <2>2. Cardinality((p + 1)..Len(l)) = IF p + 1 > Len(l) THEN 0 ELSE Len(l) - (p + 1) + 1
            BY <2>1, FS_Interval
      <2> QED BY <1>2, <1>3, <2>2
<1>5. ASSUME NEW i \in picked PROVE Cardinality(Below(i)) = i - (p + 1)
      <2>1. \A j \in DOMAIN l: key[j] \in Nat OBVIOUS
      <2>2. \A j \in picked: key[j] < key[i] <=> j < i BY <1>2, <1>3, <2>1
      <2>3. Below(i) = (p + 1)..(i - 1) BY <1>2, <1>3, <2>2
      <2>4. p + 1 \in Int /\ i - 1 \in Int /\ i >= p + 1 /\ i \in Int BY <1>2, <1>3
      <2>5. Cardinality((p + 1)..(i - 1)) = IF p + 1 > i - 1 THEN 0 ELSE (i - 1) - (p + 1) + 1
            BY <2>4, FS_Interval
      <2>6. (i - 1) - (p + 1) + 1 = i - (p + 1) BY <2>4
      <2>7. p + 1 > i - 1 => i - (p + 1) = 0 BY <2>4
      <2> QED BY <2>3, <2>5, <2>6, <2>7
<1>6. ASSUME NEW k \in 1..N PROVE Columns!Place(l, names, key, k) = p + k /\ p + k \in DOMAIN l
      <2>1. p + k \in picked /\ p + k \in DOMAIN l /\ k \in Nat BY <1>2, <1>3, <1>4
      <2>2. Cardinality(Below(p + k)) + 1 = k BY <1>5, <2>1
      <2> HIDE DEF picked
      <2>3. \E i \in picked: Cardinality(Below(i)) + 1 = k BY <2>1, <2>2
      <2> DEFINE i == Columns!Place(l, names, key, k)
      <2>4. i \in picked /\ Cardinality(Below(i)) + 1 = k BY <2>3, CountsAlike DEF Columns!Place, picked
      <2> HIDE DEF i
      <2>5. i - (p + 1) + 1 = k /\ i \in Nat
            <3>1. Cardinality(Below(i)) = i - (p + 1) BY <1>5, <2>4
            <3>2. i \in Nat BY <1>2, <1>3, <2>4
            <3> QED BY <2>4, <3>1, <3>2
      <2>6. i = p + k BY <2>1, <2>5
      <2> QED BY <2>1, <2>6 DEF i
<1>7. N \in Nat BY <1>2, <1>4
<1> HIDE DEF N, R
<1>8. DOMAIN R = 1..N /\ Len(R) = N BY <1>1, <1>7
<1>9. \A k \in DOMAIN R: p + k \in DOMAIN l /\ R[k] = l[p + k] BY <1>1, <1>6, <1>8
<1> QED BY <1>4, <1>8, <1>9 DEF R

LEMMA InOrderIs ==
    ASSUME NEW l \in Shape, NEW names
    PROVE  /\ Columns!InOrder(l, names) \in Shape
           /\ Columns!Names(Columns!InOrder(l, names)) = Columns!Names(l) \cap names
           /\ \A k \in DOMAIN Columns!InOrder(l, names): \E i \in DOMAIN l: Columns!InOrder(l, names)[k] = l[i]
<1> DEFINE key == [i \in DOMAIN l |-> i]
<1>1. key \in [DOMAIN l -> Nat] /\ \A i, j \in DOMAIN l: key[i] = key[j] => i = j
      BY LengthIs
<1>2. Columns!InOrder(l, names) = Columns!Ranked(l, names, key) BY DEF Columns!InOrder
<1> HIDE DEF key
<1> QED BY <1>1, <1>2, RankedIs

LEMMA ByNameIs ==
    ASSUME NEW l \in Shape, NEW names
    PROVE  /\ Columns!ByName(l, names) \in Shape
           /\ Columns!Names(Columns!ByName(l, names)) = Columns!Names(l) \cap names
           /\ \A k \in DOMAIN Columns!ByName(l, names): \E i \in DOMAIN l: Columns!ByName(l, names)[k] = l[i]
<1> DEFINE key == [i \in DOMAIN l |-> l[i].name]
<1>1. key \in [DOMAIN l -> Nat] /\ \A i, j \in DOMAIN l: key[i] = key[j] => i = j
      BY ColumnIs DEF Shape, Columns!Shape
<1>2. Columns!ByName(l, names) = Columns!Ranked(l, names, key) BY DEF Columns!ByName
<1> HIDE DEF key
<1> QED BY <1>1, <1>2, RankedIs

\* Columns that ascend, and all that come after the first p of them.
LEMMA ByNameEnd ==
    ASSUME NEW l \in Shape, NEW names, NEW p \in Nat, Columns!Ascending(l),
           \A i \in DOMAIN l: l[i].name \in names <=> i > p
    PROVE  /\ Len(Columns!ByName(l, names)) = IF p > Len(l) THEN 0 ELSE Len(l) - p
           /\ \A k \in DOMAIN Columns!ByName(l, names): p + k \in DOMAIN l /\ Columns!ByName(l, names)[k] = l[p + k]
<1> DEFINE key == [i \in DOMAIN l |-> l[i].name]
<1>1. key \in [DOMAIN l -> Nat] /\ \A i, j \in DOMAIN l: i < j => key[i] < key[j]
      BY ColumnIs DEF Columns!Ascending
<1>2. Columns!ByName(l, names) = Columns!Ranked(l, names, key) BY DEF Columns!ByName
<1> HIDE DEF key
<1> QED BY <1>1, <1>2, RankedEnd

LEMMA InOrderEnd ==
    ASSUME NEW l \in Shape, NEW names, NEW p \in Nat,
           \A i \in DOMAIN l: l[i].name \in names <=> i > p
    PROVE  /\ Len(Columns!InOrder(l, names)) = IF p > Len(l) THEN 0 ELSE Len(l) - p
           /\ \A k \in DOMAIN Columns!InOrder(l, names): p + k \in DOMAIN l /\ Columns!InOrder(l, names)[k] = l[p + k]
<1> DEFINE key == [i \in DOMAIN l |-> i]
<1>1. key \in [DOMAIN l -> Nat] /\ \A i, j \in DOMAIN l: i < j => key[i] < key[j] BY LengthIs
<1>2. Columns!InOrder(l, names) = Columns!Ranked(l, names, key) BY DEF Columns!InOrder
<1> HIDE DEF key
<1> QED BY <1>1, <1>2, RankedEnd

LEMMA SingleIs ==
    ASSUME NEW l \in Shape, NEW i \in DOMAIN l
    PROVE  /\ <<l[i]>> \in Shape /\ <<l[i]>>[1] = l[i] /\ Len(<<l[i]>>) = 1 /\ DOMAIN <<l[i]>> = {1}
           /\ Columns!Names(<<l[i]>>) = {l[i].name}
<1> DEFINE c == l[i]
<1>1. c \in Columns!ColumnOf BY ColumnIs DEF Columns!ColumnOf
<1> HIDE DEF c
<1>2. <<c>> \in Seq(Columns!ColumnOf) /\ Len(<<c>>) = 1 /\ DOMAIN <<c>> = {1} /\ <<c>>[1] = c BY <1>1
<1>3. <<c>> \in Shape BY <1>2 DEF Shape, Columns!Shape
<1>4. Columns!Names(<<c>>) = {c.name} BY <1>2 DEF Columns!Names
<1> QED BY <1>2, <1>3, <1>4 DEF c

Adds == \/ agreed.engine = "databricks"
        \/ agreed.engine = "snowflake" /\ agreed.policy = "additive_only"
        \/ agreed.engine = "gcp" /\ agreed.policy # "strict"

\* Picking all of a shape whose names are not among others.
LEMMA AdditionsAre ==
    ASSUME NEW s \in Shape, NEW t \in Shape
    PROVE  /\ Columns!Additions(s, t) \in Shape
           /\ Columns!Names(Columns!Additions(s, t)) = IF Adds THEN Columns!Added(s, t) ELSE {}
           /\ \A k \in DOMAIN Columns!Additions(s, t): \E i \in DOMAIN s: Columns!Additions(s, t)[k] = s[i]
<1> DEFINE new == Columns!Added(s, t)
<1>1. new \subseteq Columns!Names(s) BY DEF Columns!Added
<1>2. CASE Adds
      <2>1. Columns!Additions(s, t) \in {Columns!ByName(s, new), Columns!InOrder(s, new)}
            BY <1>2 DEF Columns!Additions, Adds
      <2> HIDE DEF new
      <2>2. Columns!Names(s) \cap new = new BY <1>1
      <2>3. /\ Columns!ByName(s, new) \in Shape /\ Columns!Names(Columns!ByName(s, new)) = new
            /\ \A k \in DOMAIN Columns!ByName(s, new): \E i \in DOMAIN s: Columns!ByName(s, new)[k] = s[i]
            BY <2>2, ByNameIs
      <2>4. /\ Columns!InOrder(s, new) \in Shape /\ Columns!Names(Columns!InOrder(s, new)) = new
            /\ \A k \in DOMAIN Columns!InOrder(s, new): \E i \in DOMAIN s: Columns!InOrder(s, new)[k] = s[i]
            BY <2>2, InOrderIs
      <2>5. CASE Columns!Additions(s, t) = Columns!ByName(s, new) BY <1>2, <2>3, <2>5 DEF new
      <2>6. CASE Columns!Additions(s, t) = Columns!InOrder(s, new) BY <1>2, <2>4, <2>6 DEF new
      <2> QED BY <2>1, <2>5, <2>6
<1>3. CASE ~Adds
      <2>1. Columns!Additions(s, t) = <<>> BY <1>3 DEF Columns!Additions, Adds
      <2>2. <<>> \in Shape /\ Columns!Names(<<>>) = {} BY DEF Shape, Columns!Shape, Columns!Names
      <2> QED BY <1>3, <2>1, <2>2
<1> QED BY <1>2, <1>3

Statement == [do: {"add", "type"}, cols: Shape]

LEMMA StatementIs ==
    ASSUME NEW do \in {"add", "type"}, NEW cols \in Shape
    PROVE  LET x == [do |-> do, cols |-> cols] IN x \in Statement /\ x.do = do /\ x.cols = cols
BY DEF Statement

\* A statement for each of some columns.
LEMMA OneByOneIs ==
    ASSUME NEW do \in {"add", "type"}, NEW cols \in Shape
    PROVE  /\ Columns!OneByOne(do, cols) \in Seq(Statement)
           /\ Len(Columns!OneByOne(do, cols)) = Len(cols) /\ Len(cols) \in Nat
           /\ \A i \in 1..Len(cols): /\ Columns!OneByOne(do, cols)[i].do = do
                                     /\ Columns!OneByOne(do, cols)[i].cols = <<cols[i]>>
<1> DEFINE O == Columns!OneByOne(do, cols)
<1>1. Len(cols) \in Nat /\ DOMAIN cols = 1..Len(cols) BY LengthIs
<1>2. O = [i \in 1..Len(cols) |-> [do |-> do, cols |-> <<cols[i]>>]] BY <1>1 DEF Columns!OneByOne
<1>3. \A i \in 1..Len(cols): <<cols[i]>> \in Shape BY <1>1, SingleIs
<1>4. \A i \in 1..Len(cols): O[i] \in Statement /\ O[i].do = do /\ O[i].cols = <<cols[i]>>
      <2>1. TAKE i \in 1..Len(cols)
      <2>2. O[i] = [do |-> do, cols |-> <<cols[i]>>] BY <1>2
      <2> QED BY <1>3, <2>2, StatementIs
<1> HIDE DEF O
<1>5. O \in Seq(Statement) /\ Len(O) = Len(cols) BY <1>1, <1>2, <1>4
<1> QED BY <1>1, <1>4, <1>5 DEF O

LEMMA AddingIs ==
    ASSUME NEW cols \in Shape
    PROVE  /\ Columns!Adding(cols) \in Seq(Statement)
           /\ Len(Columns!Adding(cols)) = IF cols = <<>> THEN 0 ELSE 1
           /\ cols # <<>> => Columns!Adding(cols)[1].do = "add" /\ Columns!Adding(cols)[1].cols = cols
<1> DEFINE x == [do |-> "add", cols |-> cols]
<1>1. x \in Statement /\ x.do = "add" /\ x.cols = cols BY StatementIs
<1>2. Columns!Adding(cols) = IF cols = <<>> THEN <<>> ELSE <<x>> BY DEF Columns!Adding
<1> HIDE DEF x
<1> QED BY <1>1, <1>2

LEMMA Concatenates ==
    ASSUME NEW S, NEW a \in Seq(S), NEW b \in Seq(S)
    PROVE  /\ a \o b \in Seq(S) /\ Len(a) \in Nat /\ Len(b) \in Nat /\ Len(a \o b) = Len(a) + Len(b)
           /\ DOMAIN (a \o b) = 1..(Len(a) + Len(b))
           /\ \A i \in 1..Len(a): (a \o b)[i] = a[i]
           /\ \A i \in 1..Len(b): (a \o b)[Len(a) + i] = b[i] /\ Len(a) + i \in DOMAIN (a \o b)
OBVIOUS

\* The statements of Databricks.
LEMMA PlanTogether ==
    ASSUME NEW s \in Shape, NEW t \in Shape, agreed.engine = "databricks"
    PROVE  /\ Columns!Plan(s, t) \in Seq(Statement)
           /\ \A i \in DOMAIN Columns!Plan(s, t):
                 \/ /\ i = 1 /\ Columns!Plan(s, t)[i].do = "add"
                    /\ Columns!Plan(s, t)[i].cols = Columns!Additions(s, t) /\ Columns!Additions(s, t) # <<>>
                 \/ /\ Columns!Plan(s, t)[i].do = "type"
                    /\ \E j \in DOMAIN s: Columns!Plan(s, t)[i].cols = <<s[j]>> /\ s[j].name \in Columns!Allowed(s, t)
           /\ \A n \in Columns!Added(s, t) \cup Columns!Allowed(s, t):
                 \E i \in DOMAIN Columns!Plan(s, t): n \in Columns!Names(Columns!Plan(s, t)[i].cols)
<1> DEFINE a == Columns!Additions(s, t)
           wider == Columns!Allowed(s, t)
           w == Columns!ByName(s, wider)
           A == Columns!Adding(a)
           O == Columns!OneByOne("type", w)
           P == Columns!Plan(s, t)
<1>1. P = A \o O BY DEF Columns!Plan
<1>2. a \in Shape /\ Columns!Names(a) = Columns!Added(s, t) BY AdditionsAre DEF Adds
<1>3. /\ w \in Shape /\ Columns!Names(w) = wider
      /\ \A k \in DOMAIN w: \E i \in DOMAIN s: w[k] = s[i]
      <2>1. wider \subseteq Columns!Names(s) BY DEF Columns!Allowed, Columns!Changed
      <2> HIDE DEF wider
      <2>2. Columns!Names(s) \cap wider = wider BY <2>1
      <2>3. w \in Shape /\ \A k \in DOMAIN w: \E i \in DOMAIN s: w[k] = s[i] BY ByNameIs
      <2>4. Columns!Names(w) = Columns!Names(s) \cap wider BY ByNameIs
      <2> QED BY <2>2, <2>3, <2>4
<1>4. /\ A \in Seq(Statement) /\ Len(A) = (IF a = <<>> THEN 0 ELSE 1)
      /\ a # <<>> => A[1].do = "add" /\ A[1].cols = a
      BY <1>2, AddingIs
<1> HIDE DEF w
<1>5. /\ O \in Seq(Statement) /\ Len(O) = Len(w) /\ Len(w) \in Nat /\ DOMAIN w = 1..Len(w)
      /\ \A i \in 1..Len(w): O[i].do = "type" /\ O[i].cols = <<w[i]>>
      BY <1>3, OneByOneIs, LengthIs
<1> HIDE DEF a, A, O, P, wider
<1>6. P \in Seq(Statement) /\ Len(P) = Len(A) + Len(O) /\ DOMAIN P = 1..(Len(A) + Len(O))
      <2>1. A \in Seq(Statement) /\ O \in Seq(Statement) BY <1>4, <1>5
      <2>2. A \o O \in Seq(Statement) BY <2>1, Concatenates
      <2>3. Len(A \o O) = Len(A) + Len(O) /\ DOMAIN (A \o O) = 1..(Len(A) + Len(O))
            <3> HIDE DEF Statement
            <3> QED BY <2>1, Concatenates
      <2> QED BY <1>1, <2>2, <2>3
<1>7. \A i \in 1..Len(A): P[i] = A[i] BY <1>1, <1>4, <1>5
<1>8. \A i \in 1..Len(O): P[Len(A) + i] = O[i] /\ Len(A) + i \in DOMAIN P
      <2>1. A \in Seq(Statement) /\ O \in Seq(Statement) BY <1>4, <1>5
      <2> HIDE DEF Statement
      <2>2. \A i \in 1..Len(O): (A \o O)[Len(A) + i] = O[i] /\ Len(A) + i \in DOMAIN (A \o O)
            BY <2>1, Concatenates
      <2> QED BY <1>1, <2>2
<1>9. \A i \in 1..Len(w): /\ P[Len(A) + i].do = "type" /\ P[Len(A) + i].cols = <<w[i]>>
                          /\ w[i].name \in wider /\ \E j \in DOMAIN s: w[i] = s[j]
      BY <1>3, <1>5, <1>8, ColumnIs
<1>10. ASSUME NEW i \in DOMAIN P
       PROVE  \/ /\ i = 1 /\ P[i].do = "add" /\ P[i].cols = a /\ a # <<>>
              \/ /\ P[i].do = "type" /\ \E j \in DOMAIN s: P[i].cols = <<s[j]>> /\ s[j].name \in wider
       <2>1. CASE i \in 1..Len(A)
             <3>1. a # <<>> /\ i = 1 BY <1>4, <2>1
             <3> QED BY <1>4, <1>7, <2>1, <3>1
       <2>2. CASE i \notin 1..Len(A)
             <3>1. i - Len(A) \in 1..Len(w) /\ i = Len(A) + (i - Len(A)) BY <1>4, <1>5, <1>6, <2>2
             <3>2. PICK m \in 1..Len(w): i = Len(A) + m BY <3>1
             <3> QED BY <1>9, <3>2
       <2> QED BY <2>1, <2>2
<1>11. ASSUME NEW n \in Columns!Added(s, t) PROVE \E i \in DOMAIN P: n \in Columns!Names(P[i].cols)
       <2>1. a # <<>> BY <1>2 DEF Columns!Names
       <2>2. 1 \in DOMAIN P /\ P[1].cols = a BY <1>4, <1>5, <1>6, <1>7, <2>1
       <2> QED BY <1>2, <2>2
<1>12. ASSUME NEW n \in wider PROVE \E i \in DOMAIN P: n \in Columns!Names(P[i].cols)
       <2>1. PICK k \in DOMAIN w: n = w[k].name BY <1>3 DEF Columns!Names
       <2>2. P[Len(A) + k].cols = <<w[k]>> /\ Len(A) + k \in DOMAIN P BY <1>5, <1>8, <1>9, <2>1
       <2>3. Columns!Names(<<w[k]>>) = {n} BY <1>3, <2>1, SingleIs
       <2> QED BY <2>2, <2>3
<1> QED BY <1>6, <1>10, <1>11, <1>12 DEF P, a, wider

\* The statements of Snowflake and BigQuery.
LEMMA PlanOneByOne ==
    ASSUME NEW s \in Shape, NEW t \in Shape, agreed.engine # "databricks"
    PROVE  /\ Columns!Plan(s, t) \in Seq(Statement)
           /\ Len(Columns!Plan(s, t)) = Len(Columns!Additions(s, t))
           /\ \A i \in DOMAIN Columns!Plan(s, t):
                 /\ i \in DOMAIN Columns!Additions(s, t)
                 /\ Columns!Plan(s, t)[i].do = "add" /\ Columns!Plan(s, t)[i].cols = <<Columns!Additions(s, t)[i]>>
           /\ \A n \in Columns!Names(Columns!Additions(s, t)):
                 \E i \in DOMAIN Columns!Plan(s, t): n \in Columns!Names(Columns!Plan(s, t)[i].cols)
<1> DEFINE a == Columns!Additions(s, t)
           P == Columns!Plan(s, t)
<1>1. P = Columns!OneByOne("add", a) BY DEF Columns!Plan
<1>2. a \in Shape BY AdditionsAre
<1> HIDE DEF a, P
<1>3. /\ P \in Seq(Statement) /\ Len(P) = Len(a) /\ Len(a) \in Nat /\ DOMAIN a = 1..Len(a)
      /\ \A i \in 1..Len(a): P[i].do = "add" /\ P[i].cols = <<a[i]>>
      BY <1>1, <1>2, OneByOneIs, LengthIs
<1>4. DOMAIN P = 1..Len(a) BY <1>3
<1>5. ASSUME NEW n \in Columns!Names(a) PROVE \E i \in DOMAIN P: n \in Columns!Names(P[i].cols)
      <2>1. PICK k \in DOMAIN a: n = a[k].name BY DEF Columns!Names
      <2>2. Columns!Names(<<a[k]>>) = {n} BY <1>2, <2>1, SingleIs
      <2> QED BY <1>3, <1>4, <2>1, <2>2
<1> QED BY <1>3, <1>4, <1>5 DEF a, P

\* What is done with one column in a statement that changes its type.
LEMMA RetypeIs ==
    ASSUME NEW l \in Shape, NEW c \in Columns!ColumnOf,
           NEW m, m = [i \in DOMAIN l |-> IF l[i].name = c.name THEN c ELSE l[i]]
    PROVE  /\ m \in Shape /\ Len(m) = Len(l)
           /\ \A i \in DOMAIN l: m[i].name = l[i].name
           /\ Columns!Names(m) = Columns!Names(l)
           /\ \A n \in Columns!Names(l): Columns!TypeOf(m, n) = IF n = c.name THEN c.type ELSE Columns!TypeOf(l, n)
           /\ Columns!Begins(l, m)
<1>1. Len(l) \in Nat /\ DOMAIN l = 1..Len(l) BY LengthIs
<1>2. \A i \in DOMAIN l: l[i] \in Columns!ColumnOf BY ColumnIs DEF Columns!ColumnOf
<1>3. \A i \in DOMAIN l: m[i] \in Columns!ColumnOf /\ m[i].name = l[i].name
                         /\ m[i].type = IF l[i].name = c.name THEN c.type ELSE l[i].type
      BY <1>2
<1>4. m \in Seq(Columns!ColumnOf) /\ Len(m) = Len(l) /\ DOMAIN m = DOMAIN l BY <1>1, <1>3
<1>5. m \in Shape BY <1>3, <1>4 DEF Shape, Columns!Shape
<1>6. Columns!Names(m) = Columns!Names(l) BY <1>3, <1>4 DEF Columns!Names
<1>7. \A n \in Columns!Names(l): Columns!TypeOf(m, n) = IF n = c.name THEN c.type ELSE Columns!TypeOf(l, n)
      <2>1. TAKE n \in Columns!Names(l)
      <2>2. PICK i \in DOMAIN l: l[i].name = n /\ l[i].type = Columns!TypeOf(l, n) BY NameIs
      <2>3. Columns!TypeOf(m, n) = m[i].type BY <1>3, <1>4, <1>5, <2>2, ColumnIs
      <2> QED BY <1>3, <2>2, <2>3
<1>8. Columns!Begins(l, m) BY <1>1, <1>3, <1>4 DEF Columns!Begins
<1> QED BY <1>3, <1>4, <1>5, <1>6, <1>7, <1>8

-----------------------------------------------------------------------------
(* The course of a run *)

Label == {"idle", "done", "failed", "look", "prepare", "setup", "compare", "alter", "log", "write",
          "probe", "inspect", "drop", "describe", "record"}

Permissive == agreed.engine = "snowflake" /\ agreed.policy = "permissive"

\* The stages of each platform, and which one follows which.
OnCourse(label) ==
    \/ label \in {"idle", "done", "failed"}
    \/ /\ agreed.engine = "databricks"
       /\ label \in {"look", "prepare", "setup", "compare", "alter", "log", "write"}
    \/ /\ Permissive
       /\ label \in {"setup", "prepare", "write"}
    \/ /\ agreed.engine = "snowflake" /\ ~Permissive
       /\ label \in {"setup", "prepare", "look", "compare", "alter", "log", "write"}
    \/ /\ agreed.engine = "fabric"
       /\ label \in {"prepare", "look", "compare", "write", "record"}
    \/ /\ agreed.engine = "aws"
       /\ label \in {"prepare", "look", "write", "describe"}
    \/ /\ agreed.engine = "gcp"
       /\ label \in {"probe", "inspect", "drop", "look", "compare", "alter", "log", "write"}

Follows(a, b) ==
    \/ a = "look" /\ b = (IF agreed.engine = "databricks" THEN "prepare"
                          ELSE IF agreed.engine = "aws" THEN "write" ELSE "compare")
    \/ a = "prepare" /\ b = (IF agreed.engine = "databricks" THEN "setup" ELSE IF Permissive THEN "write" ELSE "look")
    \/ a = "setup" /\ b = (IF agreed.engine = "databricks" THEN "compare" ELSE "prepare")
    \/ a = "compare" /\ b = (IF agreed.engine = "fabric" THEN "write" ELSE "alter")
    \/ a = "alter" /\ b = "log"
    \/ a = "log" /\ b = "write"
    \/ a = "write" /\ b = (IF agreed.engine = "aws" THEN "describe"
                           ELSE IF agreed.engine = "fabric" THEN "record" ELSE "done")
    \/ a \in {"describe", "record"} /\ b = "done"
    \/ a = "probe" /\ b = "inspect"
    \/ a = "inspect" /\ b = "drop"
    \/ a = "drop" /\ b = "look"

LEMMA AfterAt ==
    ASSUME NEW i \in DOMAIN Columns!Course, NEW label, label = Columns!Course[i],
           \A j \in DOMAIN Columns!Course: Columns!Course[j] = label => j = i
    PROVE  Columns!After(label) = IF i = Len(Columns!Course) THEN "done" ELSE Columns!Course[i + 1]
<1>1. (CHOOSE j \in DOMAIN Columns!Course: Columns!Course[j] = label) = i OBVIOUS
<1> QED BY <1>1 DEF Columns!After

LEMMA AfterFollows ==
    ASSUME agreed \in Columns!Agreement, NEW label \in Label \ {"idle", "done", "failed"}, OnCourse(label)
    PROVE  Follows(label, Columns!After(label)) /\ OnCourse(Columns!After(label)) /\ Columns!After(label) \in Label
<1> DEFINE C == Columns!Course
<1>0. agreed.engine \in {"databricks", "snowflake", "fabric", "aws", "gcp"} BY DEF Columns!Agreement
<1>1. CASE agreed.engine = "databricks"
      <2>1. C = <<"look", "prepare", "setup", "compare", "alter", "log", "write">> BY <1>1 DEF Columns!Course
      <2> HIDE DEF C
      <2>2. /\ C[1] = "look" /\ C[2] = "prepare" /\ C[3] = "setup" /\ C[4] = "compare" /\ C[5] = "alter"
            /\ C[6] = "log" /\ C[7] = "write" /\ Len(C) = 7 /\ DOMAIN C = 1..7
            BY <2>1
      <2>3. PICK i \in 1..7: label = C[i] BY <1>1, <2>2 DEF OnCourse, Permissive, Label
      <2>4. \A j \in 1..7: C[j] = label => j = i BY <2>2, <2>3
      <2>5. Columns!After(label) = IF i = 7 THEN "done" ELSE C[i + 1]
            <3>1. i \in DOMAIN Columns!Course /\ label = Columns!Course[i] BY <2>2, <2>3 DEF C
            <3>2. Len(Columns!Course) = 7 /\ \A j \in DOMAIN Columns!Course: Columns!Course[j] = label => j = i
                  BY <2>2, <2>4 DEF C
            <3> QED BY <3>1, <3>2, AfterAt DEF C
      <2> QED BY <1>1, <2>2, <2>3, <2>5 DEF Follows, OnCourse, Label
<1>2. CASE Permissive
      <2>1. C = <<"setup", "prepare", "write">> BY <1>2 DEF Columns!Course, Permissive
      <2> HIDE DEF C
      <2>2. C[1] = "setup" /\ C[2] = "prepare" /\ C[3] = "write" /\ Len(C) = 3 /\ DOMAIN C = 1..3
            BY <2>1
      <2>3. PICK i \in 1..3: label = C[i] BY <1>2, <2>2 DEF OnCourse, Permissive, Label
      <2>4. \A j \in 1..3: C[j] = label => j = i BY <2>2, <2>3
      <2>5. Columns!After(label) = IF i = 3 THEN "done" ELSE C[i + 1]
            <3>1. i \in DOMAIN Columns!Course /\ label = Columns!Course[i] BY <2>2, <2>3 DEF C
            <3>2. Len(Columns!Course) = 3 /\ \A j \in DOMAIN Columns!Course: Columns!Course[j] = label => j = i
                  BY <2>2, <2>4 DEF C
            <3> QED BY <3>1, <3>2, AfterAt DEF C
      <2> QED BY <1>2, <2>2, <2>3, <2>5 DEF Follows, OnCourse, Label, Permissive
<1>3. CASE agreed.engine = "snowflake" /\ ~Permissive
      <2>1. C = <<"setup", "prepare", "look", "compare", "alter", "log", "write">>
            BY <1>3 DEF Columns!Course, Permissive
      <2> HIDE DEF C
      <2>2. /\ C[1] = "setup" /\ C[2] = "prepare" /\ C[3] = "look" /\ C[4] = "compare" /\ C[5] = "alter"
            /\ C[6] = "log" /\ C[7] = "write" /\ Len(C) = 7 /\ DOMAIN C = 1..7
            BY <2>1
      <2>3. PICK i \in 1..7: label = C[i] BY <1>3, <2>2 DEF OnCourse, Label
      <2>4. \A j \in 1..7: C[j] = label => j = i BY <2>2, <2>3
      <2>5. Columns!After(label) = IF i = 7 THEN "done" ELSE C[i + 1]
            <3>1. i \in DOMAIN Columns!Course /\ label = Columns!Course[i] BY <2>2, <2>3 DEF C
            <3>2. Len(Columns!Course) = 7 /\ \A j \in DOMAIN Columns!Course: Columns!Course[j] = label => j = i
                  BY <2>2, <2>4 DEF C
            <3> QED BY <3>1, <3>2, AfterAt DEF C
      <2> QED BY <1>3, <2>2, <2>3, <2>5 DEF Follows, OnCourse, Label
<1>4. CASE agreed.engine = "fabric"
      <2>1. C = <<"prepare", "look", "compare", "write", "record">> BY <1>4 DEF Columns!Course
      <2> HIDE DEF C
      <2>2. /\ C[1] = "prepare" /\ C[2] = "look" /\ C[3] = "compare" /\ C[4] = "write" /\ C[5] = "record"
            /\ Len(C) = 5 /\ DOMAIN C = 1..5
            BY <2>1
      <2>3. PICK i \in 1..5: label = C[i] BY <1>4, <2>2 DEF OnCourse, Permissive, Label
      <2>4. \A j \in 1..5: C[j] = label => j = i BY <2>2, <2>3
      <2>5. Columns!After(label) = IF i = 5 THEN "done" ELSE C[i + 1]
            <3>1. i \in DOMAIN Columns!Course /\ label = Columns!Course[i] BY <2>2, <2>3 DEF C
            <3>2. Len(Columns!Course) = 5 /\ \A j \in DOMAIN Columns!Course: Columns!Course[j] = label => j = i
                  BY <2>2, <2>4 DEF C
            <3> QED BY <3>1, <3>2, AfterAt DEF C
      <2> QED BY <1>4, <2>2, <2>3, <2>5 DEF Follows, OnCourse, Label, Permissive
<1>5. CASE agreed.engine = "aws"
      <2>1. C = <<"prepare", "look", "write", "describe">> BY <1>5 DEF Columns!Course
      <2> HIDE DEF C
      <2>2. C[1] = "prepare" /\ C[2] = "look" /\ C[3] = "write" /\ C[4] = "describe" /\ Len(C) = 4 /\ DOMAIN C = 1..4
            BY <2>1
      <2>3. PICK i \in 1..4: label = C[i] BY <1>5, <2>2 DEF OnCourse, Permissive, Label
      <2>4. \A j \in 1..4: C[j] = label => j = i BY <2>2, <2>3
      <2>5. Columns!After(label) = IF i = 4 THEN "done" ELSE C[i + 1]
            <3>1. i \in DOMAIN Columns!Course /\ label = Columns!Course[i] BY <2>2, <2>3 DEF C
            <3>2. Len(Columns!Course) = 4 /\ \A j \in DOMAIN Columns!Course: Columns!Course[j] = label => j = i
                  BY <2>2, <2>4 DEF C
            <3> QED BY <3>1, <3>2, AfterAt DEF C
      <2> QED BY <1>5, <2>2, <2>3, <2>5 DEF Follows, OnCourse, Label, Permissive
<1>6. CASE agreed.engine = "gcp"
      <2>1. C = <<"probe", "inspect", "drop", "look", "compare", "alter", "log", "write">>
            BY <1>6 DEF Columns!Course
      <2> HIDE DEF C
      <2>2. /\ C[1] = "probe" /\ C[2] = "inspect" /\ C[3] = "drop" /\ C[4] = "look" /\ C[5] = "compare"
            /\ C[6] = "alter" /\ C[7] = "log" /\ C[8] = "write" /\ Len(C) = 8 /\ DOMAIN C = 1..8
            BY <2>1
      <2>3. PICK i \in 1..8: label = C[i] BY <1>6, <2>2 DEF OnCourse, Permissive, Label
      <2>4. \A j \in 1..8: C[j] = label => j = i BY <2>2, <2>3
      <2>5. Columns!After(label) = IF i = 8 THEN "done" ELSE C[i + 1]
            <3>1. i \in DOMAIN Columns!Course /\ label = Columns!Course[i] BY <2>2, <2>3 DEF C
            <3>2. Len(Columns!Course) = 8 /\ \A j \in DOMAIN Columns!Course: Columns!Course[j] = label => j = i
                  BY <2>2, <2>4 DEF C
            <3> QED BY <3>1, <3>2, AfterAt DEF C
      <2> QED BY <1>6, <2>2, <2>3, <2>5 DEF Follows, OnCourse, Label, Permissive
<1> QED BY <1>0, <1>1, <1>2, <1>3, <1>4, <1>5, <1>6 DEF Permissive

\* The first stage.
LEMMA CourseBegins ==
    ASSUME agreed \in Columns!Agreement
    PROVE  /\ OnCourse(Columns!Course[1]) /\ Columns!Course[1] \in {"look", "setup", "prepare", "probe"}
           /\ Columns!Course[1] = "look" => agreed.engine = "databricks"
           /\ Columns!Course[1] = "setup" => agreed.engine = "snowflake"
           /\ Columns!Course[1] = "prepare" => agreed.engine \in {"fabric", "aws"}
BY DEF Columns!Agreement, Columns!Course, OnCourse, Permissive

-----------------------------------------------------------------------------
(* The inductive invariant of the columns *)

ColTyped ==
    /\ agreed \in Columns!Agreement
    /\ layout \in Layouts
    /\ columns \in Shape /\ probe \in Shape
    /\ stage \in [Run -> Label]
    /\ expects \in [Run -> Shape] /\ found \in [Run -> Shape]
    /\ todo \in [Run -> Seq(Statement)]
    /\ claimed \in [Run -> SUBSET Nat] /\ altered \in [Run -> SUBSET Nat]
    /\ orderly \in BOOLEAN

\* The stages before anything can have been altered, and those after the source
\* and the target were looked at.
Early == {"idle", "look", "prepare", "setup", "compare", "probe", "inspect", "drop"}
Seen == {"compare", "alter", "log", "write", "describe", "record", "done"}

\* The platforms whose runs log what they altered.
Logs == agreed.engine \in {"databricks", "gcp"} \/ (agreed.engine = "snowflake" /\ ~Permissive)

Shares == agreed.engine \in {"aws", "snowflake"}

\* What the evidence of a run may say of column n.
Told(r, n) ==
    \/ n \in altered[r]
    \/ Shares /\ (r \in blind \/ \E q \in Run: n \in altered[q])
    \/ Columns!LetPass(r, n)

HasColumns(r) ==
    \/ stage[r] \in Seen
    \/ stage[r] = "setup" /\ agreed.engine = "databricks"
    \/ stage[r] = "look" /\ agreed.engine # "databricks"
    => expects[r] # <<>>

HasTable(r) ==
    /\ found[r] # <<>> => columns # <<>>
    /\ agreed.engine = "snowflake" /\ agreed.mode # "overwrite" /\ stage[r] \notin {"idle", "setup", "failed"}
       => columns # <<>>

\* The stages before the look at the target.
Unlooked(label) ==
    \/ label \in {"idle", "probe", "inspect", "drop", "look"}
    \/ agreed.engine # "databricks" /\ label \in {"setup", "prepare"}

Looked(r) ==
    /\ Unlooked(stage[r]) => r \notin blind
    /\ r \in blind => found[r] = <<>> /\ agreed.engine # "gcp"
    /\ Permissive => found[r] = <<>> /\ r \notin blind

\* A run that is past the comparison has passed it.
PassedPolicy(r) ==
    stage[r] \in {"alter", "log", "write", "describe", "record", "done"} /\ agreed.engine # "aws" /\ Columns!Compares(r)
    => ~Columns!Rejects(expects[r], found[r])

\* What a statement of a run may do.
Proposed(r, statement) ==
    IF statement.do = "add"
    THEN Adds /\ Columns!Names(statement.cols) \subseteq Columns!Added(expects[r], found[r])
    ELSE /\ agreed.engine = "databricks"
         /\ \E j \in DOMAIN expects[r]: /\ statement.cols = <<expects[r][j]>>
                                        /\ expects[r][j].name \in Columns!Allowed(expects[r], found[r])

Planned(r) ==
    stage[r] = "alter" =>
        /\ todo[r] # <<>> => Columns!Compares(r)
        /\ \A i \in DOMAIN todo[r]: Proposed(r, todo[r][i])
        /\ \A n \in Columns!Claims(r): Told(r, n) \/ \E i \in DOMAIN todo[r]: n \in Columns!Names(todo[r][i].cols)

Unaltered(r) ==
    /\ stage[r] \in Early => altered[r] = {}
    /\ stage[r] \in Early \cup {"alter"} => claimed[r] = {}
    /\ stage[r] = "write" /\ agreed.engine = "fabric" => claimed[r] = {}

\* Where nothing is logged, a target that a run has found is not altered by it.
Bystander(r) == ~Logs /\ ~Columns!Replaces /\ found[r] # <<>> => altered[r] = {}

\* Where it is, what a run has altered, will log and has logged is the same.
Logged(r) ==
    Logs =>
        /\ stage[r] \in {"alter", "log", "write"} \/ (stage[r] = "done" /\ ~Columns!Replaces)
           => altered[r] \subseteq Columns!Claims(r)
        /\ stage[r] \in {"log", "write", "done"} =>
              (\A n \in Columns!Claims(r): Told(r, n)) /\ claimed[r] \subseteq Columns!Claims(r)
        /\ stage[r] \in {"write", "done"} => Columns!Claims(r) \subseteq claimed[r]

Mine(r) == \A n \in claimed[r]: Told(r, n)

\* What differs from what a run has found was altered by some run.
Tracked(r) ==
    Shares /\ ~Permissive /\ stage[r] \in Seen \ {"done"} /\ r \notin blind =>
        \A n \in Columns!Added(columns, found[r]) \cup Columns!Changed(columns, found[r]):
            \E q \in Run: n \in altered[q]

RunInv(r) ==
    /\ OnCourse(stage[r]) /\ HasColumns(r) /\ HasTable(r) /\ Looked(r) /\ PassedPolicy(r) /\ Planned(r)
    /\ Unaltered(r) /\ Bystander(r) /\ Logged(r) /\ Mine(r) /\ Tracked(r)

ColInv == ColTyped /\ \A r \in Run: RunInv(r)

-----------------------------------------------------------------------------
(* What a step of one run does to the others *)

\* Everything of run q stays.
Rests(q) ==
    /\ stage'[q] = stage[q] /\ expects'[q] = expects[q] /\ found'[q] = found[q] /\ todo'[q] = todo[q]
    /\ claimed'[q] = claimed[q] /\ altered'[q] = altered[q] /\ (q \in blind' <=> q \in blind)

\* The table stays, and what is new in it was altered by a run.
Grows ==
    /\ agreed' = agreed
    /\ columns # <<>> => columns' # <<>>
    /\ Shares => \A n: (\E x \in Run: n \in altered[x]) => \E x \in Run: n \in altered'[x]
    /\ Shares /\ ~(columns = <<>> /\ agreed.engine = "snowflake" /\ agreed.mode # "overwrite") =>
          \A n \in Columns!Names(columns'):
              \/ n \in Columns!Names(columns) /\ Columns!TypeOf(columns', n) = Columns!TypeOf(columns, n)
              \/ \E x \in Run: n \in altered'[x]

\* What a run sees stays, and so does what follows from it.
LEMMA SeesTheSame ==
    ASSUME NEW q \in Run, agreed' = agreed, expects'[q] = expects[q], found'[q] = found[q], q \in blind' <=> q \in blind
    PROVE  /\ Columns!Compares(q)' <=> Columns!Compares(q)
           /\ Columns!Claims(q)' = Columns!Claims(q)
           /\ Columns!Rejects(expects[q], found[q])' <=> Columns!Rejects(expects[q], found[q])
           /\ Adds' <=> Adds
           /\ Logs' <=> Logs
           /\ Shares' <=> Shares
           /\ Permissive' <=> Permissive
           /\ Columns!Replaces' <=> Columns!Replaces
           /\ Columns!Allowed(expects[q], found[q])' = Columns!Allowed(expects[q], found[q])
           /\ Columns!Added(expects[q], found[q])' = Columns!Added(expects[q], found[q])
<1>1. Columns!Compares(q)' <=> Columns!Compares(q) BY DEF Columns!Compares
<1>2. /\ Columns!Added(expects[q], found[q])' = Columns!Added(expects[q], found[q])
      /\ Columns!Removed(expects[q], found[q])' = Columns!Removed(expects[q], found[q])
      /\ Columns!Changed(expects[q], found[q])' = Columns!Changed(expects[q], found[q])
      BY DEF Columns!Added, Columns!Removed, Columns!Changed, Columns!Names, Columns!TypeOf
<1>3. Columns!Allowed(expects[q], found[q])' = Columns!Allowed(expects[q], found[q])
      BY <1>2 DEF Columns!Allowed, Columns!TypeOf, Columns!IsTypeWidening, Columns!Alike
<1>4. Columns!Claims(q)' = Columns!Claims(q) BY <1>1, <1>2, <1>3 DEF Columns!Claims
<1>5. Columns!Rejects(expects[q], found[q])' <=> Columns!Rejects(expects[q], found[q])
      BY <1>2, <1>3 DEF Columns!Rejects, Columns!Blocking
<1>6. /\ Adds' <=> Adds
      /\ Logs' <=> Logs
      /\ Shares' <=> Shares
      /\ Permissive' <=> Permissive
      /\ Columns!Replaces' <=> Columns!Replaces
      BY DEF Adds, Logs, Shares, Permissive, Columns!Replaces
<1> QED BY <1>1, <1>2, <1>3, <1>4, <1>5, <1>6

\* A column that is new to run q, or changed.
LEMMA LetPassStays ==
    ASSUME NEW q \in Run, NEW n, agreed' = agreed, expects'[q] = expects[q], found'[q] = found[q],
           altered'[q] = altered[q]
    PROVE  Columns!LetPass(q, n)' <=> Columns!LetPass(q, n)
BY DEF Columns!LetPass, Columns!Names, Columns!TypeOf, Columns!IsTypeWidening

LEMMA TrackedStays ==
    ASSUME ColTyped, columns' \in Shape, NEW q \in Run, Tracked(q), HasTable(q), Grows,
           stage'[q] \in Seen \ {"done"} => stage[q] \in Seen \ {"done"},
           found'[q] = found[q], q \in blind' <=> q \in blind
    PROVE  Tracked(q)'
<1>1. SUFFICES ASSUME Shares, ~Permissive, stage[q] \in Seen \ {"done"}, q \notin blind,
                      NEW n \in Columns!Added(columns', found[q]) \cup Columns!Changed(columns', found[q])
               PROVE  \E x \in Run: n \in altered'[x]
      <2>1. /\ Columns!Added(columns, found[q])' = Columns!Added(columns', found[q])
            /\ Columns!Changed(columns, found[q])' = Columns!Changed(columns', found[q])
            BY DEF Columns!Added, Columns!Changed, Columns!Names, Columns!TypeOf
      <2> QED BY <2>1 DEF Tracked, Grows, Shares, Permissive
<1>2. ~(columns = <<>> /\ agreed.engine = "snowflake" /\ agreed.mode # "overwrite")
      BY <1>1 DEF HasTable, Seen
<1>3. n \in Columns!Names(columns') BY <1>1 DEF Columns!Added, Columns!Changed
<1>4. CASE n \in Columns!Names(columns) /\ Columns!TypeOf(columns', n) = Columns!TypeOf(columns, n)
      <2>1. n \in Columns!Added(columns, found[q]) \cup Columns!Changed(columns, found[q])
            BY <1>1, <1>4 DEF Columns!Added, Columns!Changed
      <2> QED BY <1>1, <2>1 DEF Tracked, Grows
<1> QED BY <1>1, <1>2, <1>3, <1>4 DEF Grows

LEMMA OthersKeep ==
    ASSUME ColTyped, columns' \in Shape, NEW q \in Run, RunInv(q), Rests(q), Grows
    PROVE  RunInv(q)'
<1>1. /\ Columns!Compares(q)' <=> Columns!Compares(q)
      /\ Columns!Claims(q)' = Columns!Claims(q)
      /\ Columns!Rejects(expects[q], found[q])' <=> Columns!Rejects(expects[q], found[q])
      /\ Columns!Allowed(expects[q], found[q])' = Columns!Allowed(expects[q], found[q])
      /\ Columns!Added(expects[q], found[q])' = Columns!Added(expects[q], found[q])
      BY SeesTheSame DEF Rests, Grows
<1>2. (Adds' <=> Adds) /\ (Logs' <=> Logs) /\ (Shares' <=> Shares) /\ (Permissive' <=> Permissive)
      /\ (Columns!Replaces' <=> Columns!Replaces) /\ agreed' = agreed
      BY SeesTheSame DEF Rests, Grows
<1>3. \A n: Told(q, n) => Told(q, n)' BY <1>2, LetPassStays DEF Told, Rests, Grows
<1>4. OnCourse(stage[q])' BY <1>2 DEF RunInv, OnCourse, Rests
<1>5. HasColumns(q)' /\ HasTable(q)' /\ Looked(q)' BY <1>2 DEF RunInv, HasColumns, HasTable, Looked, Unlooked, Rests, Grows
<1>6. PassedPolicy(q)' BY <1>1, <1>2 DEF RunInv, PassedPolicy, Rests
<1>7. Planned(q)'
      <2>1. \A s: Proposed(q, s)' <=> Proposed(q, s) BY <1>1, <1>2 DEF Proposed, Rests, Columns!Names
      <2> QED BY <1>1, <1>3, <2>1 DEF RunInv, Planned, Rests, Columns!Names
<1>8. Unaltered(q)' /\ Bystander(q)' BY <1>2 DEF RunInv, Unaltered, Bystander, Rests
<1>9. Logged(q)' BY <1>1, <1>2, <1>3 DEF RunInv, Logged, Rests
<1>10. Mine(q)' BY <1>3 DEF RunInv, Mine, Rests
<1>11. Tracked(q)' BY TrackedStays DEF RunInv, Rests
<1> QED BY <1>4, <1>5, <1>6, <1>7, <1>8, <1>9, <1>10, <1>11 DEF RunInv

-----------------------------------------------------------------------------
(* The steps of a run *)

\* What a step of run r has to do for the invariant.
Keeps(r) == ColTyped' /\ RunInv(r)' /\ Grows /\ \A q \in Run \ {r}: Rests(q)

LEMMA Moves ==
    ASSUME ColInv, NEW r \in Run, NEW label \in Label \ {"idle", "done", "failed"}, Columns!At(r, label)
    PROVE  /\ stage[r] = label /\ stage' \in [Run -> Label]
           /\ Follows(label, stage'[r]) /\ OnCourse(stage'[r])
           /\ \A q \in Run \ {r}: stage'[q] = stage[q]
<1>1. stage[r] = label /\ stage' = [stage EXCEPT ![r] = Columns!After(label)]
      BY DEF Columns!At, Columns!To
<1>2. OnCourse(label) /\ agreed \in Columns!Agreement BY <1>1 DEF ColInv, ColTyped, RunInv
<1>3. Follows(label, Columns!After(label)) /\ OnCourse(Columns!After(label)) /\ Columns!After(label) \in Label
      BY <1>2, AfterFollows
<1>4. stage'[r] = Columns!After(label) BY <1>1 DEF ColInv, ColTyped
<1> QED BY <1>1, <1>3, <1>4 DEF ColInv, ColTyped

\* Nothing is altered.
LEMMA NothingGrows ==
    ASSUME agreed' = agreed, columns' = columns, altered' = altered
    PROVE  Grows
BY DEF Grows

LEMMA FailKeeps ==
    ASSUME ColInv, NEW r \in Run, Columns!FailSchema(r)
    PROVE  Keeps(r)
<1>1. /\ stage' = [stage EXCEPT ![r] = "failed"] /\ agreed' = agreed /\ layout' = layout /\ orderly' = orderly
      /\ columns' = columns /\ probe' = probe /\ expects' = expects /\ found' = found /\ blind' = blind
      /\ todo' = todo /\ claimed' = claimed /\ altered' = altered
      BY DEF Columns!FailSchema, Columns!To, Columns!world, Columns!looks
<1>2. stage'[r] = "failed" /\ stage' \in [Run -> Label] /\ \A q \in Run \ {r}: stage'[q] = stage[q]
      BY <1>1 DEF ColInv, ColTyped, Label
<1>3. ColTyped' BY <1>1, <1>2 DEF ColInv, ColTyped
<1>4. Grows /\ \A q \in Run \ {r}: Rests(q) BY <1>1, <1>2, NothingGrows DEF Rests
<1>5. RunInv(r)' 
      <2>1. OnCourse(stage[r])' BY <1>1, <1>2 DEF OnCourse
      <2>2. HasColumns(r)' /\ PassedPolicy(r)' /\ Planned(r)' /\ Unaltered(r)' /\ Tracked(r)' /\ Logged(r)'
            BY <1>2 DEF HasColumns, PassedPolicy, Planned, Unaltered, Tracked, Logged, Seen, Early
      <2>3. HasTable(r)' /\ Looked(r)' BY <1>1, <1>2 DEF ColInv, RunInv, HasTable, Looked, Unlooked, Permissive
      <2>4. Bystander(r)' BY <1>1 DEF ColInv, RunInv, Bystander, Logs, Permissive, Columns!Replaces
      <2>5. Mine(r)' BY <1>1, LetPassStays DEF ColInv, RunInv, Mine, Told, Shares
      <2> QED BY <2>1, <2>2, <2>3, <2>4, <2>5 DEF RunInv
<1> QED BY <1>3, <1>4, <1>5 DEF Keeps

\* A run at one of the early stages has altered and logged nothing.
LEMMA EarlyKeeps ==
    ASSUME ColInv, NEW r \in Run, agreed' = agreed, columns # <<>> => columns' # <<>>,
           altered'[r] = {}, claimed'[r] = {}, stage'[r] \in Early \ {"compare"}, OnCourse(stage'[r]),
           stage'[r] = "setup" /\ agreed.engine = "databricks" => expects'[r] # <<>>,
           stage'[r] = "look" /\ agreed.engine # "databricks" => expects'[r] # <<>>,
           agreed.engine = "snowflake" /\ agreed.mode # "overwrite" /\ stage'[r] \notin {"idle", "setup"} => columns' # <<>>,
           found'[r] = found[r], r \in blind' <=> r \in blind, Unlooked(stage'[r]) => Unlooked(stage[r])
    PROVE  RunInv(r)'
<1>1. stage'[r] \notin {"alter", "log", "write", "describe", "record", "done", "failed", "compare"} BY DEF Early
<1>2. OnCourse(stage[r])' BY DEF OnCourse, Permissive
<1>3. HasColumns(r)' /\ PassedPolicy(r)' /\ Planned(r)' /\ Tracked(r)' /\ Logged(r)'
      BY <1>1 DEF HasColumns, PassedPolicy, Planned, Tracked, Logged, Seen
<1>4. Unaltered(r)' /\ Mine(r)' /\ Bystander(r)' BY DEF Unaltered, Mine, Bystander
<1>5. HasTable(r)' /\ Looked(r)' BY <1>1 DEF ColInv, RunInv, HasTable, Looked, Unlooked, Permissive
<1> QED BY <1>2, <1>3, <1>4, <1>5 DEF RunInv

LEMMA BeginKeeps ==
    ASSUME ColInv, NEW r \in Run, Columns!Begin(r)
    PROVE  Keeps(r)
<1>1. /\ stage' = [stage EXCEPT ![r] = Columns!Course[1]] /\ agreed' = agreed /\ layout' = layout
      /\ orderly' = orderly /\ stage[r] = "idle"
      /\ columns' = columns /\ probe' = probe /\ expects' = expects /\ found' = found /\ blind' = blind
      /\ todo' = todo /\ claimed' = claimed /\ altered' = altered
      BY DEF Columns!Begin, Columns!To, Columns!world, Columns!looks
<1>2. /\ OnCourse(Columns!Course[1]) /\ Columns!Course[1] \in {"look", "setup", "prepare", "probe"}
      /\ Columns!Course[1] = "look" => agreed.engine = "databricks"
      /\ Columns!Course[1] = "setup" => agreed.engine = "snowflake"
      /\ Columns!Course[1] = "prepare" => agreed.engine \in {"fabric", "aws"}
      BY CourseBegins DEF ColInv, ColTyped
<1>3. stage'[r] = Columns!Course[1] /\ stage' \in [Run -> Label] /\ \A q \in Run \ {r}: stage'[q] = stage[q]
      BY <1>1, <1>2 DEF ColInv, ColTyped, Label
<1>4. ColTyped' BY <1>1, <1>3 DEF ColInv, ColTyped
<1>5. Grows /\ \A q \in Run \ {r}: Rests(q) BY <1>1, <1>3, NothingGrows DEF Rests
<1>6. altered[r] = {} /\ claimed[r] = {} BY <1>1 DEF ColInv, RunInv, Unaltered, Early
<1>7. agreed.engine = "snowflake" => stage'[r] = "setup"
      BY <1>2, <1>3 DEF OnCourse
<1>8. agreed.engine # "databricks" \/ stage'[r] # "setup" BY <1>2, <1>3
<1>9. RunInv(r)' BY <1>1, <1>2, <1>3, <1>6, <1>7, <1>8, EarlyKeeps DEF Early, Unlooked
<1> QED BY <1>4, <1>5, <1>9 DEF Keeps

LEMMA NextBatchKeeps ==
    ASSUME ColInv, NEW r \in Run, Columns!NextBatch(r)
    PROVE  Keeps(r)
<1>1. /\ stage' = [stage EXCEPT ![r] = "prepare"] /\ agreed' = agreed /\ layout' = layout
      /\ orderly' = orderly /\ agreed.engine = "databricks"
      /\ columns' = columns /\ probe' = probe /\ expects' = expects /\ found' = found /\ blind' = blind
      /\ todo' = todo /\ claimed' = [claimed EXCEPT ![r] = {}] /\ altered' = [altered EXCEPT ![r] = {}]
      BY DEF Columns!NextBatch, Columns!To, Columns!world, Columns!looks
<1>2. /\ stage'[r] = "prepare" /\ claimed'[r] = {} /\ altered'[r] = {}
      /\ stage' \in [Run -> Label] /\ claimed' \in [Run -> SUBSET Nat] /\ altered' \in [Run -> SUBSET Nat]
      /\ \A q \in Run \ {r}: stage'[q] = stage[q] /\ claimed'[q] = claimed[q] /\ altered'[q] = altered[q]
      BY <1>1 DEF ColInv, ColTyped, Label
<1>3. ColTyped' BY <1>1, <1>2 DEF ColInv, ColTyped
<1>4. Grows BY <1>1 DEF Grows, Shares
<1>5. \A q \in Run \ {r}: Rests(q) BY <1>1, <1>2 DEF Rests
<1>6. OnCourse("prepare") BY <1>1 DEF OnCourse
<1>7. RunInv(r)' BY <1>1, <1>2, <1>6, EarlyKeeps DEF Early, Unlooked
<1> QED BY <1>3, <1>4, <1>5, <1>7 DEF Keeps

LEMMA ProbeKeeps ==
    ASSUME ColInv, NEW r \in Run, Columns!Probe(r)
    PROVE  Keeps(r)
<1>1. /\ Columns!At(r, "probe") /\ agreed' = agreed /\ layout' = layout /\ orderly' = orderly
      /\ columns' = columns /\ probe' = Columns!Native(layout)
      /\ expects' = expects /\ found' = found /\ blind' = blind
      /\ todo' = todo /\ claimed' = claimed /\ altered' = altered
      BY DEF Columns!Probe, Columns!world, Columns!looks
<1>2. /\ stage[r] = "probe" /\ stage' \in [Run -> Label] /\ Follows("probe", stage'[r]) /\ OnCourse(stage'[r])
      /\ \A q \in Run \ {r}: stage'[q] = stage[q]
      BY <1>1, Moves DEF Label
<1>3. stage'[r] = "inspect" BY <1>2 DEF Follows
<1>4. probe' \in Shape BY <1>1, NativeIs, LayoutsAssumption DEF ColInv, ColTyped, Shape
<1>5. ColTyped' BY <1>1, <1>2, <1>4 DEF ColInv, ColTyped
<1>6. Grows /\ \A q \in Run \ {r}: Rests(q) BY <1>1, <1>2, NothingGrows DEF Rests
<1>7. altered[r] = {} /\ claimed[r] = {} BY <1>2 DEF ColInv, RunInv, Unaltered, Early
<1>8. agreed.engine = "gcp" BY <1>2, <1>3 DEF OnCourse
<1>9. RunInv(r)' BY <1>1, <1>2, <1>3, <1>7, <1>8, EarlyKeeps DEF Early, Unlooked
<1> QED BY <1>5, <1>6, <1>9 DEF Keeps

LEMMA InspectKeeps ==
    ASSUME ColInv, NEW r \in Run, Columns!Inspect(r)
    PROVE  Keeps(r)
<1>1. /\ Columns!At(r, "inspect") /\ agreed' = agreed /\ layout' = layout /\ orderly' = orderly
      /\ columns' = columns /\ probe' = probe
      /\ expects' = [expects EXCEPT ![r] = probe] /\ found' = found /\ blind' = blind
      /\ todo' = todo /\ claimed' = claimed /\ altered' = altered
      BY DEF Columns!Inspect, Columns!world, Columns!looks
<1>2. /\ stage[r] = "inspect" /\ stage' \in [Run -> Label] /\ Follows("inspect", stage'[r]) /\ OnCourse(stage'[r])
      /\ \A q \in Run \ {r}: stage'[q] = stage[q]
      BY <1>1, Moves DEF Label
<1>3. stage'[r] = "drop" BY <1>2 DEF Follows
<1>4. expects' \in [Run -> Shape] /\ \A q \in Run \ {r}: expects'[q] = expects[q] BY <1>1 DEF ColInv, ColTyped
<1>5. ColTyped' BY <1>1, <1>2, <1>4 DEF ColInv, ColTyped
<1>6. Grows /\ \A q \in Run \ {r}: Rests(q) BY <1>1, <1>2, <1>4, NothingGrows DEF Rests
<1>7. altered[r] = {} /\ claimed[r] = {} BY <1>2 DEF ColInv, RunInv, Unaltered, Early
<1>8. agreed.engine = "gcp" BY <1>2, <1>3 DEF OnCourse
<1>9. RunInv(r)' BY <1>1, <1>2, <1>3, <1>7, <1>8, EarlyKeeps DEF Early, Unlooked
<1> QED BY <1>5, <1>6, <1>9 DEF Keeps

LEMMA DropKeeps ==
    ASSUME ColInv, NEW r \in Run, Columns!Drop(r)
    PROVE  Keeps(r)
<1>1. /\ stage[r] = "drop" /\ stage' = [stage EXCEPT ![r] = IF expects[r] = <<>> THEN "failed" ELSE Columns!After("drop")]
      /\ agreed' = agreed /\ layout' = layout /\ orderly' = orderly
      /\ columns' = columns /\ probe' = <<>>
      /\ expects' = expects /\ found' = found /\ blind' = blind
      /\ todo' = todo /\ claimed' = claimed /\ altered' = altered
      BY DEF Columns!Drop, Columns!To, Columns!world, Columns!looks
<1>2. OnCourse("drop") /\ agreed \in Columns!Agreement BY <1>1 DEF ColInv, ColTyped, RunInv
<1>3. Follows("drop", Columns!After("drop")) /\ OnCourse(Columns!After("drop")) BY <1>2, AfterFollows DEF Label
<1>4. Columns!After("drop") = "look" BY <1>3 DEF Follows
<1>5. /\ stage' \in [Run -> Label] /\ stage'[r] = (IF expects[r] = <<>> THEN "failed" ELSE "look")
      /\ \A q \in Run \ {r}: stage'[q] = stage[q]
      BY <1>1, <1>4 DEF ColInv, ColTyped, Label
<1>6. probe' \in Shape BY <1>1 DEF Shape, Columns!Shape
<1>7. ColTyped' BY <1>1, <1>5, <1>6 DEF ColInv, ColTyped
<1>8. Grows /\ \A q \in Run \ {r}: Rests(q) BY <1>1, <1>5, NothingGrows DEF Rests
<1>9. ASSUME expects[r] = <<>> PROVE RunInv(r)'
      <2>1. stage'[r] = "failed" BY <1>5, <1>9
      <2>2. OnCourse(stage[r])' BY <2>1 DEF OnCourse
      <2>3. HasColumns(r)' /\ PassedPolicy(r)' /\ Planned(r)' /\ Unaltered(r)' /\ Tracked(r)' /\ Logged(r)'
            BY <2>1 DEF HasColumns, PassedPolicy, Planned, Unaltered, Tracked, Logged, Seen, Early
      <2>4. HasTable(r)' /\ Looked(r)' BY <1>1, <2>1 DEF ColInv, RunInv, HasTable, Looked, Unlooked, Permissive
      <2>5. Bystander(r)' BY <1>1 DEF ColInv, RunInv, Bystander, Logs, Permissive, Columns!Replaces
      <2>6. Mine(r)' BY <1>1, LetPassStays DEF ColInv, RunInv, Mine, Told, Shares
      <2> QED BY <2>2, <2>3, <2>4, <2>5, <2>6 DEF RunInv
<1>10. ASSUME expects[r] # <<>> PROVE RunInv(r)'
      <2>1. stage'[r] = "look" /\ OnCourse("look") BY <1>3, <1>4, <1>5, <1>10
      <2>2. altered[r] = {} /\ claimed[r] = {} BY <1>1 DEF ColInv, RunInv, Unaltered, Early
      <2>3. agreed.engine = "gcp" BY <1>2 DEF OnCourse
      <2> QED BY <1>1, <1>10, <2>1, <2>2, <2>3, EarlyKeeps DEF Early, Unlooked
<1> QED BY <1>7, <1>8, <1>9, <1>10 DEF Keeps

LEMMA PrepareKeeps ==
    ASSUME ColInv, NEW r \in Run, Columns!Prepare(r)
    PROVE  Keeps(r)
<1>1. /\ Columns!At(r, "prepare") /\ agreed' = agreed /\ layout' = layout /\ orderly' = orderly
      /\ columns' = columns /\ probe' = probe
      /\ expects' = [expects EXCEPT ![r] = Columns!Native(layout)] /\ found' = found /\ blind' = blind
      /\ todo' = todo /\ claimed' = claimed /\ altered' = altered
      BY DEF Columns!Prepare, Columns!world, Columns!looks
<1>2. /\ stage[r] = "prepare" /\ stage' \in [Run -> Label] /\ Follows("prepare", stage'[r]) /\ OnCourse(stage'[r])
      /\ \A q \in Run \ {r}: stage'[q] = stage[q]
      BY <1>1, Moves DEF Label
<1>3. stage'[r] = IF agreed.engine = "databricks" THEN "setup" ELSE IF Permissive THEN "write" ELSE "look"
      BY <1>2 DEF Follows
<1>4. layout \in Shape /\ layout # <<>> BY LayoutsAssumption DEF ColInv, ColTyped, Shape
<1>5. Columns!Native(layout) \in Shape /\ Columns!Native(layout) # <<>> BY <1>4, NativeIs
<1>6. /\ expects' \in [Run -> Shape] /\ expects'[r] # <<>> /\ \A q \in Run \ {r}: expects'[q] = expects[q]
      BY <1>1, <1>5 DEF ColInv, ColTyped
<1>7. ColTyped' BY <1>1, <1>2, <1>6 DEF ColInv, ColTyped
<1>8. Grows /\ \A q \in Run \ {r}: Rests(q) BY <1>1, <1>2, <1>6, NothingGrows DEF Rests
<1>9. altered[r] = {} /\ claimed[r] = {} BY <1>2 DEF ColInv, RunInv, Unaltered, Early
<1>10. agreed.engine = "snowflake" /\ agreed.mode # "overwrite" => columns # <<>>
       BY <1>2 DEF ColInv, RunInv, HasTable
<1>11. ASSUME ~(Permissive /\ agreed.engine # "databricks") PROVE RunInv(r)'
       BY <1>1, <1>2, <1>3, <1>6, <1>9, <1>10, <1>11, EarlyKeeps DEF Early, Unlooked, Permissive
<1>12. ASSUME Permissive PROVE RunInv(r)'
       <2>1. stage'[r] = "write" /\ agreed.engine = "snowflake" BY <1>3, <1>12 DEF Permissive
       <2>2. OnCourse(stage[r])' BY <1>1, <1>2 DEF OnCourse, Permissive
       <2>3. HasColumns(r)' /\ Planned(r)' /\ Unaltered(r)' BY <1>1, <1>6, <2>1 DEF HasColumns, Planned, Unaltered, Early
       <2>4. HasTable(r)' /\ Looked(r)' BY <1>1, <1>10, <2>1 DEF ColInv, RunInv, HasTable, Looked, Unlooked, Permissive
       <2>5. found[r] = <<>> /\ r \notin blind BY <1>12 DEF ColInv, RunInv, Looked
       <2>6. PassedPolicy(r)' BY <1>1, <2>1, <2>5 DEF PassedPolicy, Columns!Compares
       <2>7. Bystander(r)' /\ Mine(r)' BY <1>1, <1>9 DEF Bystander, Mine
       <2>8. Logged(r)' /\ Tracked(r)' BY <1>1, <1>12 DEF Logged, Tracked, Logs, Permissive
       <2> QED BY <2>2, <2>3, <2>4, <2>6, <2>7, <2>8 DEF RunInv
<1> QED BY <1>7, <1>8, <1>11, <1>12 DEF Keeps

LEMMA SetUpKeeps ==
    ASSUME ColInv, NEW r \in Run, Columns!SetUp(r)
    PROVE  Keeps(r)
<1>1. /\ Columns!At(r, "setup") /\ agreed' = agreed /\ layout' = layout /\ orderly' = orderly
      /\ columns' = (IF columns # <<>> \/ (agreed.engine = "snowflake" /\ agreed.mode = "overwrite") THEN columns
                      ELSE IF agreed.engine = "snowflake" THEN Columns!Native(layout) ELSE expects[r])
      /\ probe' = probe /\ expects' = expects /\ found' = found /\ blind' = blind
      /\ todo' = todo /\ claimed' = claimed /\ altered' = altered
      BY DEF Columns!SetUp, Columns!world, Columns!looks
<1>2. /\ stage[r] = "setup" /\ stage' \in [Run -> Label] /\ Follows("setup", stage'[r]) /\ OnCourse(stage'[r])
      /\ \A q \in Run \ {r}: stage'[q] = stage[q]
      BY <1>1, Moves DEF Label
<1>3. stage'[r] = IF agreed.engine = "databricks" THEN "compare" ELSE "prepare" BY <1>2 DEF Follows
<1>4. layout \in Shape /\ layout # <<>> BY LayoutsAssumption DEF ColInv, ColTyped, Shape
<1>5. Columns!Native(layout) \in Shape /\ Columns!Native(layout) # <<>> BY <1>4, NativeIs
<1>6. columns' \in Shape BY <1>1, <1>5 DEF ColInv, ColTyped
<1>7. ColTyped' BY <1>1, <1>2, <1>6 DEF ColInv, ColTyped
<1>8. columns # <<>> => columns' = columns BY <1>1
<1>9. agreed.engine \in {"databricks", "snowflake"} BY <1>2 DEF ColInv, RunInv, OnCourse, Permissive
<1>10. Grows
       <2>1. Shares /\ ~(columns = <<>> /\ agreed.engine = "snowflake" /\ agreed.mode # "overwrite") => columns' = columns
             BY <1>1, <1>9 DEF Shares
       <2> QED BY <1>1, <1>8, <2>1 DEF Grows
<1>11. \A q \in Run \ {r}: Rests(q) BY <1>1, <1>2 DEF Rests
<1>12. altered[r] = {} /\ claimed[r] = {} BY <1>2 DEF ColInv, RunInv, Unaltered, Early
<1>13. ASSUME agreed.engine = "snowflake" PROVE RunInv(r)'
       <2>1. stage'[r] = "prepare" BY <1>3, <1>13
       <2>2. agreed.mode # "overwrite" => columns' # <<>> BY <1>1, <1>5, <1>13
       <2> QED BY <1>1, <1>2, <1>8, <1>12, <2>1, <2>2, EarlyKeeps DEF Early, Unlooked
<1>14. ASSUME agreed.engine = "databricks" PROVE RunInv(r)'
       <2>1. stage'[r] = "compare" /\ expects[r] # <<>>
             BY <1>2, <1>3, <1>14 DEF ColInv, RunInv, HasColumns
       <2>2. OnCourse(stage[r])' BY <1>1, <1>2 DEF OnCourse, Permissive
       <2>3. HasColumns(r)' /\ Planned(r)' /\ Unaltered(r)' /\ PassedPolicy(r)' /\ Logged(r)'
             BY <1>1, <1>12, <2>1 DEF HasColumns, Planned, Unaltered, PassedPolicy, Logged
       <2>4. HasTable(r)' /\ Looked(r)' BY <1>1, <1>8, <1>14, <2>1 DEF ColInv, RunInv, HasTable, Looked, Unlooked, Permissive
       <2>5. Bystander(r)' /\ Mine(r)' BY <1>1, <1>12 DEF Bystander, Mine
       <2>6. Tracked(r)' BY <1>1, <1>14 DEF Tracked, Shares
       <2> QED BY <2>2, <2>3, <2>4, <2>5, <2>6 DEF RunInv
<1> QED BY <1>7, <1>9, <1>10, <1>11, <1>13, <1>14 DEF Keeps

LEMMA LookKeeps ==
    ASSUME ColInv, NEW r \in Run, Columns!Look(r)
    PROVE  Keeps(r)
<1>1. /\ Columns!At(r, "look") /\ agreed' = agreed /\ layout' = layout /\ orderly' = orderly
      /\ columns' = columns /\ probe' = probe /\ expects' = expects
      /\ todo' = todo /\ claimed' = claimed /\ altered' = altered
      /\ \/ found' = [found EXCEPT ![r] = columns] /\ blind' = blind
         \/ /\ agreed.engine # "gcp" /\ found' = [found EXCEPT ![r] = <<>>] /\ blind' = blind \cup {r}
      BY DEF Columns!Look, Columns!world, Columns!looks
<1>2. /\ stage[r] = "look" /\ stage' \in [Run -> Label] /\ Follows("look", stage'[r]) /\ OnCourse(stage'[r])
      /\ \A q \in Run \ {r}: stage'[q] = stage[q]
      BY <1>1, Moves DEF Label
<1>3. stage'[r] = IF agreed.engine = "databricks" THEN "prepare" ELSE IF agreed.engine = "aws" THEN "write" ELSE "compare"
      BY <1>2 DEF Follows
<1>4. <<>> \in Shape BY DEF Shape, Columns!Shape
<1>5. /\ found' \in [Run -> Shape] /\ \A q \in Run \ {r}: found'[q] = found[q] /\ (q \in blind' <=> q \in blind)
      BY <1>1, <1>4 DEF ColInv, ColTyped
<1>6. r \notin blind BY <1>2 DEF ColInv, RunInv, Looked, Unlooked
<1>7. \/ found'[r] = columns /\ r \notin blind'
      \/ found'[r] = <<>> /\ r \in blind' /\ agreed.engine # "gcp"
      BY <1>1, <1>6 DEF ColInv, ColTyped
<1>8. ColTyped' BY <1>1, <1>2, <1>5 DEF ColInv, ColTyped
<1>9. Grows /\ \A q \in Run \ {r}: Rests(q) BY <1>1, <1>2, <1>5, NothingGrows DEF Rests
<1>10. altered[r] = {} /\ claimed[r] = {} BY <1>2 DEF ColInv, RunInv, Unaltered, Early
<1>11. ~Permissive BY <1>2 DEF ColInv, RunInv, OnCourse, Permissive
<1>12. agreed.engine # "databricks" => expects[r] # <<>> BY <1>2 DEF ColInv, RunInv, HasColumns
<1>13. RunInv(r)'
       <2>1. OnCourse(stage[r])' BY <1>1, <1>2 DEF OnCourse, Permissive
       <2>2. HasColumns(r)' BY <1>1, <1>3, <1>12 DEF HasColumns, Seen
       <2>3. PassedPolicy(r)' BY <1>1, <1>3 DEF PassedPolicy
       <2>4. Planned(r)' /\ Unaltered(r)' BY <1>1, <1>3, <1>10 DEF Planned, Unaltered
       <2>5. HasTable(r)'
             <3>1. agreed.engine = "snowflake" /\ agreed.mode # "overwrite" => columns # <<>>
                   BY <1>2 DEF ColInv, RunInv, HasTable
             <3> QED BY <1>1, <1>7, <3>1 DEF HasTable
       <2>6. Looked(r)' BY <1>1, <1>3, <1>7, <1>11 DEF Looked, Unlooked, Permissive
       <2>7. Bystander(r)' /\ Mine(r)' BY <1>1, <1>10 DEF Bystander, Mine
       <2>8. Logged(r)' BY <1>1, <1>3 DEF Logged, Logs
       <2>9. Tracked(r)'
             <3>1. CASE r \in blind' BY <3>1 DEF Tracked
             <3>2. CASE r \notin blind'
                   <4>1. found'[r] = columns' BY <1>1, <1>7, <3>2
                   <4>2. (Columns!Added(columns, found[r]) \cup Columns!Changed(columns, found[r]))' = {}
                         BY <4>1 DEF Columns!Added, Columns!Changed, Columns!TypeOf, Columns!Names
                   <4> QED BY <4>2 DEF Tracked
             <3> QED BY <3>1, <3>2
       <2> QED BY <2>1, <2>2, <2>3, <2>4, <2>5, <2>6, <2>7, <2>8, <2>9 DEF RunInv
<1> QED BY <1>8, <1>9, <1>13 DEF Keeps

\* The statements that a comparison leads to.
LEMMA PlanIsProposed ==
    ASSUME ColInv, NEW r \in Run, stage[r] = "compare", Columns!Compares(r), ~Columns!Rejects(expects[r], found[r])
    PROVE  /\ Columns!Plan(expects[r], found[r]) \in Seq(Statement)
           /\ \A i \in DOMAIN Columns!Plan(expects[r], found[r]): Proposed(r, Columns!Plan(expects[r], found[r])[i])
           /\ agreed.engine # "fabric" => 
                 \A n \in Columns!Claims(r):
                     \E i \in DOMAIN Columns!Plan(expects[r], found[r]):
                        n \in Columns!Names(Columns!Plan(expects[r], found[r])[i].cols)
<1> DEFINE s == expects[r]
           t == found[r]
           P == Columns!Plan(s, t)
           a == Columns!Additions(s, t)
<1>1. s \in Shape /\ t \in Shape BY DEF ColInv, ColTyped
<1>2. a \in Shape /\ Columns!Names(a) = IF Adds THEN Columns!Added(s, t) ELSE {}
      BY <1>1, AdditionsAre
<1>3. agreed.engine # "fabric" =>
         Columns!Claims(r) = Columns!Added(s, t) \cup (IF agreed.engine = "databricks" THEN Columns!Allowed(s, t) ELSE {})
      BY DEF Columns!Claims
<1> HIDE DEF s, t, P, a
<1>4. ASSUME agreed.engine = "databricks"
      PROVE  /\ P \in Seq(Statement)
             /\ \A i \in DOMAIN P: Proposed(r, P[i])
             /\ \A n \in Columns!Claims(r): \E i \in DOMAIN P: n \in Columns!Names(P[i].cols)
      <2>1. /\ P \in Seq(Statement)
            /\ \A i \in DOMAIN P:
                  \/ i = 1 /\ P[i].do = "add" /\ P[i].cols = a /\ a # <<>>
                  \/ P[i].do = "type" /\ \E j \in DOMAIN s: P[i].cols = <<s[j]>> /\ s[j].name \in Columns!Allowed(s, t)
            /\ \A n \in Columns!Added(s, t) \cup Columns!Allowed(s, t): \E i \in DOMAIN P: n \in Columns!Names(P[i].cols)
            BY <1>1, <1>4, PlanTogether DEF P, a
      <2>2. Adds BY <1>4 DEF Adds
      <2>3. \A i \in DOMAIN P: Proposed(r, P[i])
            BY <1>2, <1>4, <2>1, <2>2 DEF Proposed, s, t
      <2> QED BY <1>3, <1>4, <2>1, <2>3
<1>5. ASSUME agreed.engine # "databricks"
      PROVE  /\ P \in Seq(Statement)
             /\ \A i \in DOMAIN P: Proposed(r, P[i])
             /\ agreed.engine # "fabric" => \A n \in Columns!Claims(r): \E i \in DOMAIN P: n \in Columns!Names(P[i].cols)
      <2>1. /\ P \in Seq(Statement)
            /\ \A i \in DOMAIN P: i \in DOMAIN a /\ P[i].do = "add" /\ P[i].cols = <<a[i]>>
            /\ \A n \in Columns!Names(a): \E i \in DOMAIN P: n \in Columns!Names(P[i].cols)
            BY <1>1, <1>5, PlanOneByOne DEF P, a
      <2>2. ASSUME NEW i \in DOMAIN P PROVE Proposed(r, P[i])
            <3>1. i \in DOMAIN a /\ P[i].do = "add" /\ P[i].cols = <<a[i]>> BY <2>1
            <3>2. Columns!Names(<<a[i]>>) = {a[i].name} /\ a[i].name \in Columns!Names(a)
                  BY <1>2, <3>1, SingleIs, ColumnIs
            <3> QED BY <1>2, <3>1, <3>2 DEF Proposed, s, t
      <2>3. ASSUME ~Adds, agreed.engine # "fabric" PROVE Columns!Added(s, t) = {}
            <3>1. agreed.policy = "strict"
                  BY <1>5, <2>3 DEF Adds, ColInv, ColTyped, Columns!Agreement, RunInv, OnCourse, Permissive
            <3> QED BY <3>1 DEF Columns!Rejects, s, t
      <2> QED BY <1>2, <1>3, <1>5, <2>1, <2>2, <2>3
<1> QED BY <1>4, <1>5 DEF P, s, t

LEMMA CompareKeeps ==
    ASSUME ColInv, NEW r \in Run, Columns!Compare(r)
    PROVE  Keeps(r)
<1>1. /\ stage[r] = "compare" /\ agreed' = agreed /\ layout' = layout /\ orderly' = orderly
      /\ columns' = columns /\ probe' = probe /\ expects' = expects /\ found' = found /\ blind' = blind
      /\ claimed' = claimed /\ altered' = altered
      BY DEF Columns!Compare, Columns!world, Columns!looks
<1>2. OnCourse("compare") /\ agreed \in Columns!Agreement BY <1>1 DEF ColInv, ColTyped, RunInv
<1>3. /\ Columns!After("compare") = (IF agreed.engine = "fabric" THEN "write" ELSE "alter")
      /\ OnCourse(Columns!After("compare"))
      BY <1>2, AfterFollows DEF Label, Follows
<1>4. \/ Columns!Compares(r) /\ Columns!Rejects(expects[r], found[r]) /\ stage' = [stage EXCEPT ![r] = "failed"] /\ todo' = todo
      \/ /\ ~(Columns!Compares(r) /\ Columns!Rejects(expects[r], found[r]))
         /\ stage' = [stage EXCEPT ![r] = Columns!After("compare")]
         /\ todo' = [todo EXCEPT ![r] = IF Columns!Compares(r) THEN Columns!Plan(expects[r], found[r]) ELSE <<>>]
      BY DEF Columns!Compare, Columns!To
<1>5. stage' \in [Run -> Label] /\ \A q \in Run \ {r}: stage'[q] = stage[q]
      BY <1>3, <1>4 DEF ColInv, ColTyped, Label
<1>6. todo' \in [Run -> Seq(Statement)] /\ \A q \in Run \ {r}: todo'[q] = todo[q]
      <2>1. <<>> \in Seq(Statement) OBVIOUS
      <2> QED BY <1>1, <1>4, <2>1, PlanIsProposed DEF ColInv, ColTyped
<1>7. ColTyped' BY <1>1, <1>5, <1>6 DEF ColInv, ColTyped
<1>8. Grows /\ \A q \in Run \ {r}: Rests(q) BY <1>1, <1>5, <1>6, NothingGrows DEF Rests
<1>9. altered[r] = {} /\ claimed[r] = {} BY <1>1 DEF ColInv, RunInv, Unaltered, Early
<1>10. RunInv(r)'
       <2>1. stage'[r] \in {"failed", Columns!After("compare")} BY <1>4 DEF ColInv, ColTyped
       <2>2. OnCourse(stage[r])' BY <1>1, <1>3, <2>1 DEF OnCourse, Permissive
       <2>3. HasColumns(r)' BY <1>1, <1>3, <2>1 DEF ColInv, RunInv, HasColumns, Seen
       <2>4. HasTable(r)' /\ Looked(r)'
             BY <1>1, <1>3, <2>1 DEF ColInv, RunInv, HasTable, Looked, Unlooked, Permissive
       <2>5. /\ Columns!Compares(r)' <=> Columns!Compares(r)
             /\ Columns!Claims(r)' = Columns!Claims(r)
             /\ Columns!Rejects(expects[r], found[r])' <=> Columns!Rejects(expects[r], found[r])
             /\ Columns!Allowed(expects[r], found[r])' = Columns!Allowed(expects[r], found[r])
             /\ Columns!Added(expects[r], found[r])' = Columns!Added(expects[r], found[r])
             /\ (Adds' <=> Adds)
             BY <1>1, SeesTheSame
       <2>6. stage'[r] # "failed" => ~(Columns!Compares(r) /\ Columns!Rejects(expects[r], found[r]))
             BY <1>4 DEF ColInv, ColTyped
       <2>7. PassedPolicy(r)' BY <2>5, <2>6 DEF PassedPolicy
       <2>8. Planned(r)'
             <3>1. SUFFICES ASSUME stage'[r] = "alter" PROVE Planned(r)' BY DEF Planned
             <3>2. /\ ~(Columns!Compares(r) /\ Columns!Rejects(expects[r], found[r]))
                   /\ todo'[r] = (IF Columns!Compares(r) THEN Columns!Plan(expects[r], found[r]) ELSE <<>>)
                   BY <1>4, <3>1 DEF ColInv, ColTyped
             <3>3. agreed.engine # "fabric" BY <1>3, <2>1, <3>1
             <3>4. \A x: Proposed(r, x)' <=> Proposed(r, x) BY <1>1, <2>5 DEF Proposed, Columns!Names
             <3>5. CASE Columns!Compares(r)
                   <4>1. /\ \A i \in DOMAIN todo'[r]: Proposed(r, todo'[r][i])
                         /\ \A n \in Columns!Claims(r): \E i \in DOMAIN todo'[r]: n \in Columns!Names(todo'[r][i].cols)
                         BY <1>1, <3>2, <3>3, <3>5, PlanIsProposed
                   <4>2. \A l: Columns!Names(l)' = Columns!Names(l) BY DEF Columns!Names
                   <4> QED BY <2>5, <3>4, <3>5, <4>1 DEF Planned, Columns!Names
             <3>6. CASE ~Columns!Compares(r)
                   <4>1. todo'[r] = <<>> /\ Columns!Claims(r) = {} BY <3>2, <3>6 DEF Columns!Claims
                   <4> QED BY <2>5, <4>1 DEF Planned
             <3> QED BY <3>5, <3>6
       <2>9. Unaltered(r)' /\ Bystander(r)' /\ Mine(r)' BY <1>1, <1>9 DEF Unaltered, Bystander, Mine
       <2>10. Logged(r)' BY <1>1, <1>3, <1>9, <2>1 DEF Logged, Logs
       <2>11. Tracked(r)'
             <3>1. Tracked(r) /\ HasTable(r) BY DEF ColInv, RunInv
             <3>2. stage[r] \in Seen \ {"done"} /\ columns' \in Shape BY <1>1 DEF Seen, ColInv, ColTyped
             <3> QED BY <1>1, <1>8, <3>1, <3>2, TrackedStays DEF ColInv
       <2> QED BY <2>2, <2>3, <2>4, <2>7, <2>8, <2>9, <2>10, <2>11 DEF RunInv
<1> QED BY <1>7, <1>8, <1>10 DEF Keeps

\* A statement that adds columns adds those that are missing, and is refused if
\* it may not leave any out.
LEMMA AddsColumns ==
    ASSUME ColInv, NEW r \in Run, NEW x \in Statement, Columns!Execute(r, x), x.do = "add"
    PROVE  LET new == Columns!InOrder(x.cols, Columns!Names(x.cols) \ Columns!Names(columns))
           IN  /\ new \in Shape /\ Columns!Names(new) = Columns!Names(x.cols) \ Columns!Names(columns)
               /\ agreed.engine = "snowflake" \/ new = x.cols
               /\ columns # <<>> /\ columns' = columns \o new
               /\ columns' \in Shape /\ columns' # <<>>
               /\ altered' = [altered EXCEPT ![r] = altered[r] \cup Columns!Names(new)]
               /\ Columns!Begins(columns, columns')
               /\ \A n \in Columns!Names(columns'):
                     \/ n \in Columns!Names(columns) /\ Columns!TypeOf(columns', n) = Columns!TypeOf(columns, n)
                     \/ n \in Columns!Names(new)
<1> DEFINE others == Columns!Names(x.cols) \ Columns!Names(columns)
           new == Columns!InOrder(x.cols, others)
<1>1. x.cols \in Shape /\ columns \in Shape BY DEF Statement, ColInv, ColTyped
<1>2. new \in Shape /\ Columns!Names(new) = Columns!Names(x.cols) \cap others BY <1>1, InOrderIs
<1>3. Columns!Names(new) = others BY <1>2
<1>4. /\ columns # <<>> /\ columns' = columns \o new
      /\ agreed.engine = "snowflake" \/ new = x.cols
      /\ altered' = [altered EXCEPT ![r] = altered[r] \cup Columns!Names(new)]
      BY DEF Columns!Execute
<1> HIDE DEF new
<1>5. Columns!Names(columns) \cap Columns!Names(new) = {} BY <1>3
<1>6. /\ columns' \in Shape
      /\ Len(columns') = Len(columns) + Len(new)
      /\ Columns!Names(columns') = Columns!Names(columns) \cup Columns!Names(new)
      /\ \A n \in Columns!Names(columns): Columns!TypeOf(columns', n) = Columns!TypeOf(columns, n)
      /\ Columns!Begins(columns, columns')
      <2>1. PICK m: m = columns \o new OBVIOUS
      <2>2. m = columns' BY <1>4, <2>1
      <2>3. /\ m \in Shape /\ Len(m) = Len(columns) + Len(new)
            /\ Columns!Names(m) = Columns!Names(columns) \cup Columns!Names(new)
            /\ \A n \in Columns!Names(columns): Columns!TypeOf(m, n) = Columns!TypeOf(columns, n)
            /\ Columns!Begins(columns, m)
            BY <1>1, <1>2, <1>5, <2>1, Appends
      <2> QED BY <2>2, <2>3
<1>7. columns' # <<>>
      <2>1. Len(columns) \in Nat /\ Len(new) \in Nat /\ Len(columns) # 0 BY <1>1, <1>2, <1>4, LengthIs
      <2>2. Len(columns') # 0 BY <1>6, <2>1
      <2> QED BY <1>6, <2>2, LengthIs
<1>8. \A n \in Columns!Names(columns'):
         \/ n \in Columns!Names(columns) /\ Columns!TypeOf(columns', n) = Columns!TypeOf(columns, n)
         \/ n \in Columns!Names(new)
      BY <1>6
<1> QED BY <1>2, <1>3, <1>4, <1>6, <1>7, <1>8 DEF new

\* A statement that changes the type of a column.
LEMMA WidensColumn ==
    ASSUME ColInv, NEW r \in Run, NEW x \in Statement, Columns!Execute(r, x), x.do # "add",
           NEW c \in Columns!ColumnOf, x.cols = <<c>>
    PROVE  /\ columns # <<>> /\ columns' \in Shape /\ columns' # <<>>
           /\ Columns!Names(columns') = Columns!Names(columns)
           /\ altered' = [altered EXCEPT ![r] = altered[r] \cup Columns!Names(x.cols)]
           /\ Columns!Begins(columns, columns') /\ Len(columns') = Len(columns)
           /\ \A i \in DOMAIN columns: columns'[i].name = columns[i].name
           /\ \A n \in Columns!Names(columns): \/ Columns!TypeOf(columns', n) = Columns!TypeOf(columns, n)
                                               \/ Columns!Alterable(Columns!TypeOf(columns', n), Columns!TypeOf(columns, n))
<1>1. x.cols[1] = c BY DEF Columns!ColumnOf
<1>2. /\ columns # <<>>
      /\ \/ Columns!Alterable(c.type, Columns!TypeOf(columns, c.name))
         \/ c.type = Columns!TypeOf(columns, c.name)
      /\ columns' = [i \in DOMAIN columns |-> IF columns[i].name = c.name THEN c ELSE columns[i]]
      /\ altered' = [altered EXCEPT ![r] = altered[r] \cup Columns!Names(x.cols)]
      BY <1>1 DEF Columns!Execute
<1>3. columns \in Shape BY DEF ColInv, ColTyped
<1>4. PICK m: m = [i \in DOMAIN columns |-> IF columns[i].name = c.name THEN c ELSE columns[i]] OBVIOUS
<1>5. /\ m \in Shape /\ Len(m) = Len(columns)
      /\ \A i \in DOMAIN columns: m[i].name = columns[i].name
      /\ Columns!Names(m) = Columns!Names(columns)
      /\ \A n \in Columns!Names(columns):
            Columns!TypeOf(m, n) = IF n = c.name THEN c.type ELSE Columns!TypeOf(columns, n)
      /\ Columns!Begins(columns, m)
      BY <1>3, <1>4, RetypeIs
<1>6. m = columns' BY <1>2, <1>4
<1>7. m # <<>> BY <1>2, <1>3, <1>5, LengthIs
<1> QED BY <1>2, <1>5, <1>6, <1>7

\* The first statement of a list that is not empty, and the rest of it.
LEMMA HeadAndTail ==
    ASSUME NEW S, NEW s \in Seq(S), s # <<>>
    PROVE  /\ Head(s) = s[1] /\ 1 \in DOMAIN s /\ s[1] \in S /\ Tail(s) \in Seq(S)
           /\ Len(s) \in Nat /\ Len(s) # 0 /\ Len(Tail(s)) = Len(s) - 1
           /\ \A i \in DOMAIN Tail(s): Tail(s)[i] = s[i + 1] /\ i + 1 \in DOMAIN s
           /\ \A i \in DOMAIN s: i # 1 => i - 1 \in DOMAIN Tail(s) /\ Tail(s)[i - 1] = s[i]
OBVIOUS

LEMMA AlterKeeps ==
    ASSUME ColInv, NEW r \in Run, Columns!Alter(r)
    PROVE  Keeps(r)
<1>1. /\ stage[r] = "alter" /\ agreed' = agreed /\ layout' = layout /\ orderly' = orderly
      /\ probe' = probe /\ expects' = expects /\ found' = found /\ blind' = blind /\ claimed' = claimed
      BY DEF Columns!Alter, Columns!world, Columns!looks
<1>2. agreed.engine \in {"databricks", "snowflake", "gcp"} /\ ~Permissive /\ Logs
      BY <1>1 DEF ColInv, RunInv, OnCourse, Logs, Permissive
<1>3. claimed[r] = {} BY <1>1 DEF ColInv, RunInv, Unaltered
<1>4. /\ Columns!Compares(r)' <=> Columns!Compares(r)
      /\ Columns!Claims(r)' = Columns!Claims(r)
      /\ Columns!Rejects(expects[r], found[r])' <=> Columns!Rejects(expects[r], found[r])
      /\ \A x: Proposed(r, x)' <=> Proposed(r, x)
      <2>1. /\ Columns!Compares(r)' <=> Columns!Compares(r)
            /\ Columns!Claims(r)' = Columns!Claims(r)
            /\ Columns!Rejects(expects[r], found[r])' <=> Columns!Rejects(expects[r], found[r])
            /\ Columns!Allowed(expects[r], found[r])' = Columns!Allowed(expects[r], found[r])
            /\ Columns!Added(expects[r], found[r])' = Columns!Added(expects[r], found[r])
            /\ (Adds' <=> Adds)
            BY <1>1, SeesTheSame
      <2>2. \A x: Proposed(r, x)' <=> Proposed(r, x) BY <1>1, <2>1 DEF Proposed, Columns!Names
      <2> QED BY <2>1, <2>2
<1>5. (Logs' <=> Logs) /\ (Shares' <=> Shares) /\ (Permissive' <=> Permissive) /\ (Columns!Replaces' <=> Columns!Replaces)
      BY <1>1, SeesTheSame
<1>6. altered[r] \subseteq Columns!Claims(r) BY <1>1, <1>2 DEF ColInv, RunInv, Logged
<1>7. ASSUME todo[r] = <<>> PROVE Keeps(r)
      <2>1. stage' = [stage EXCEPT ![r] = Columns!After("alter")] /\ columns' = columns /\ todo' = todo /\ altered' = altered
            BY <1>1, <1>7 DEF Columns!Alter, Columns!To
      <2>2. Columns!After("alter") = "log" /\ OnCourse("log")
            BY <1>1, AfterFollows DEF Label, Follows, ColInv, ColTyped, RunInv
      <2>3. stage'[r] = "log" /\ stage' \in [Run -> Label] /\ \A q \in Run \ {r}: stage'[q] = stage[q]
            BY <2>1, <2>2 DEF ColInv, ColTyped, Label
      <2>4. ColTyped' BY <1>1, <2>1, <2>3 DEF ColInv, ColTyped
      <2>5. Grows /\ \A q \in Run \ {r}: Rests(q) BY <1>1, <2>1, <2>3, NothingGrows DEF Rests
      <2>6. RunInv(r)'
            <3>1. OnCourse(stage[r])' BY <1>1, <2>2, <2>3 DEF OnCourse, Permissive
            <3>2. HasColumns(r)' /\ HasTable(r)' /\ Looked(r)'
                  BY <1>1, <1>5, <2>1, <2>3 DEF ColInv, RunInv, HasColumns, HasTable, Looked, Unlooked, Seen
            <3>3. PassedPolicy(r)' BY <1>1, <1>4, <2>3 DEF ColInv, RunInv, PassedPolicy
            <3>4. Planned(r)' /\ Unaltered(r)' BY <2>3 DEF Planned, Unaltered, Early
            <3>5. Bystander(r)' /\ Mine(r)' BY <1>1, <1>2, <1>3, <1>5 DEF Bystander, Mine
            <3>6. Logged(r)'
                  <4>1. \A n \in Columns!Claims(r): Told(r, n) BY <1>1, <1>7 DEF ColInv, RunInv, Planned
                  <4>2. \A n \in Columns!Claims(r): Told(r, n)' BY <1>1, <1>5, <2>1, <4>1, LetPassStays DEF Told
                  <4> QED BY <1>1, <1>3, <1>4, <1>6, <2>1, <2>3, <4>2 DEF Logged
            <3>7. Tracked(r)'
                  <4>1. Tracked(r) /\ HasTable(r) BY DEF ColInv, RunInv
                  <4>2. stage[r] \in Seen \ {"done"} /\ columns' \in Shape BY <1>1, <2>1 DEF Seen, ColInv, ColTyped
                  <4> QED BY <1>1, <2>5, <4>1, <4>2, TrackedStays DEF ColInv
            <3> QED BY <3>1, <3>2, <3>3, <3>4, <3>5, <3>6, <3>7 DEF RunInv
      <2> QED BY <2>4, <2>5, <2>6 DEF Keeps
<1>8. ASSUME todo[r] # <<>> PROVE Keeps(r)
      <2> DEFINE x == Head(todo[r])
      <2>1. /\ Columns!Execute(r, x) /\ todo' = [todo EXCEPT ![r] = Tail(todo[r])] /\ stage' = stage
            BY <1>1, <1>8 DEF Columns!Alter
      <2>2. todo[r] \in Seq(Statement) BY DEF ColInv, ColTyped
      <2>3. /\ x = todo[r][1] /\ 1 \in DOMAIN todo[r] /\ x \in Statement /\ Tail(todo[r]) \in Seq(Statement)
            /\ \A i \in DOMAIN Tail(todo[r]): Tail(todo[r])[i] = todo[r][i + 1] /\ i + 1 \in DOMAIN todo[r]
            /\ \A i \in DOMAIN todo[r]: i # 1 => i - 1 \in DOMAIN Tail(todo[r]) /\ Tail(todo[r])[i - 1] = todo[r][i]
            BY <1>8, <2>2, HeadAndTail
      <2>4. todo' \in [Run -> Seq(Statement)] /\ todo'[r] = Tail(todo[r]) /\ \A q \in Run \ {r}: todo'[q] = todo[q]
            BY <2>1, <2>3 DEF ColInv, ColTyped
      <2>5. Columns!Compares(r) /\ Proposed(r, x) BY <1>1, <1>8, <2>3 DEF ColInv, RunInv, Planned
      <2> HIDE DEF x
      <2>6. Columns!Claims(r) = Columns!Added(expects[r], found[r])
                                \cup (IF agreed.engine = "databricks" THEN Columns!Allowed(expects[r], found[r]) ELSE {})
            BY <1>2, <2>5 DEF Columns!Claims
      <2>7. \E gained \in SUBSET Columns!Claims(r):
               /\ altered' = [altered EXCEPT ![r] = altered[r] \cup gained]
               /\ \A n \in Columns!Names(x.cols):
                     n \in gained \/ (agreed.engine = "snowflake" /\ n \in Columns!Names(columns) /\ n \in Columns!Added(expects[r], found[r]))
               /\ columns' \in Shape /\ columns' # <<>>
               /\ Shares => \A n \in Columns!Names(columns'):
                     \/ n \in Columns!Names(columns) /\ Columns!TypeOf(columns', n) = Columns!TypeOf(columns, n)
                     \/ n \in gained
            <3>1. CASE x.do = "add"
                  <4> DEFINE new == Columns!InOrder(x.cols, Columns!Names(x.cols) \ Columns!Names(columns))
                  <4>1. /\ Columns!Names(new) = Columns!Names(x.cols) \ Columns!Names(columns)
                        /\ agreed.engine = "snowflake" \/ new = x.cols
                        /\ columns' \in Shape /\ columns' # <<>>
                        /\ altered' = [altered EXCEPT ![r] = altered[r] \cup Columns!Names(new)]
                        /\ \A n \in Columns!Names(columns'):
                              \/ n \in Columns!Names(columns) /\ Columns!TypeOf(columns', n) = Columns!TypeOf(columns, n)
                              \/ n \in Columns!Names(new)
                        BY <2>1, <2>3, <3>1, AddsColumns
                  <4>2. Columns!Names(x.cols) \subseteq Columns!Added(expects[r], found[r]) BY <2>5, <3>1 DEF Proposed
                  <4> HIDE DEF new
                  <4>3. Columns!Names(new) \in SUBSET Columns!Claims(r) BY <2>6, <4>1, <4>2
                  <4>4. \A n \in Columns!Names(x.cols):
                           n \in Columns!Names(new) \/ (agreed.engine = "snowflake" /\ n \in Columns!Names(columns)
                                                        /\ n \in Columns!Added(expects[r], found[r]))
                        BY <4>1, <4>2
                  <4> QED BY <4>1, <4>3, <4>4
            <3>2. CASE x.do # "add"
                  <4>1. /\ agreed.engine = "databricks"
                        /\ \E j \in DOMAIN expects[r]: /\ x.cols = <<expects[r][j]>>
                                                       /\ expects[r][j].name \in Columns!Allowed(expects[r], found[r])
                        BY <2>5, <3>2 DEF Proposed
                  <4>2. PICK j \in DOMAIN expects[r]: /\ x.cols = <<expects[r][j]>>
                                                      /\ expects[r][j].name \in Columns!Allowed(expects[r], found[r])
                        BY <4>1
                  <4>3. expects[r] \in Shape BY DEF ColInv, ColTyped
                  <4>4. expects[r][j] \in Columns!ColumnOf BY <4>3, ColumnIs DEF Columns!ColumnOf
                  <4>5. /\ columns' \in Shape /\ columns' # <<>>
                        /\ altered' = [altered EXCEPT ![r] = altered[r] \cup Columns!Names(x.cols)]
                        BY <2>1, <2>3, <3>2, <4>2, <4>4, WidensColumn
                  <4>6. Columns!Names(x.cols) = {expects[r][j].name} BY <4>2, <4>3, SingleIs
                  <4>7. Columns!Names(x.cols) \in SUBSET Columns!Claims(r) BY <2>6, <4>1, <4>2, <4>6
                  <4>8. ~Shares BY <4>1 DEF Shares
                  <4> QED BY <4>5, <4>7, <4>8
            <3> QED BY <3>1, <3>2
      <2>8. PICK gained \in SUBSET Columns!Claims(r):
               /\ altered' = [altered EXCEPT ![r] = altered[r] \cup gained]
               /\ \A n \in Columns!Names(x.cols):
                     n \in gained \/ (agreed.engine = "snowflake" /\ n \in Columns!Names(columns) /\ n \in Columns!Added(expects[r], found[r]))
               /\ columns' \in Shape /\ columns' # <<>>
               /\ Shares => \A n \in Columns!Names(columns'):
                     \/ n \in Columns!Names(columns) /\ Columns!TypeOf(columns', n) = Columns!TypeOf(columns, n)
                     \/ n \in gained
            BY <2>7
      <2>9. Columns!Claims(r) \subseteq Nat
            <3>1. expects[r] \in Shape BY DEF ColInv, ColTyped
            <3>2. Columns!Names(expects[r]) \subseteq Nat BY <3>1, LengthIs
            <3> QED BY <2>6, <3>2 DEF Columns!Added, Columns!Allowed, Columns!Changed
      <2>10. /\ altered' \in [Run -> SUBSET Nat] /\ altered'[r] = altered[r] \cup gained
             /\ \A q \in Run \ {r}: altered'[q] = altered[q]
             BY <2>8, <2>9 DEF ColInv, ColTyped
      <2>11. ColTyped' BY <1>1, <2>1, <2>4, <2>8, <2>10 DEF ColInv, ColTyped
      <2>12. \A q \in Run: altered[q] \subseteq altered'[q] BY <2>10
      <2>13. Grows BY <1>1, <2>8, <2>10, <2>12 DEF Grows, Shares
      <2>14. \A q \in Run \ {r}: Rests(q) BY <1>1, <2>1, <2>4, <2>10 DEF Rests
      <2>15. RunInv(r)'
            <3>1. OnCourse(stage[r])' BY <1>1, <2>1 DEF ColInv, RunInv, OnCourse, Permissive
            <3>2. HasColumns(r)' /\ HasTable(r)' /\ Looked(r)'
                  BY <1>1, <1>5, <2>1, <2>8 DEF ColInv, RunInv, HasColumns, HasTable, Looked, Unlooked, Seen
            <3>3. PassedPolicy(r)' BY <1>1, <1>4, <2>1 DEF ColInv, RunInv, PassedPolicy
            <3>4. \A n: Told(r, n) => Told(r, n)' BY <1>1, <1>2, <1>5, <2>12 DEF Told, Columns!LetPass
            <3>5. Planned(r)'
                  <4>1. \A i \in DOMAIN todo'[r]: Proposed(r, todo'[r][i])
                        <5>1. \A i \in DOMAIN todo[r]: Proposed(r, todo[r][i]) BY <1>1 DEF ColInv, RunInv, Planned
                        <5> QED BY <2>3, <2>4, <5>1
                  <4>2. ASSUME NEW n \in Columns!Claims(r), ~Told(r, n)'
                        PROVE  \E i \in DOMAIN todo'[r]: n \in Columns!Names(todo'[r][i].cols)
                        <5>1. PICK i \in DOMAIN todo[r]: n \in Columns!Names(todo[r][i].cols)
                              BY <1>1, <3>4, <4>2 DEF ColInv, RunInv, Planned
                        <5>2. ASSUME i = 1 PROVE FALSE
                              <6>1. n \in Columns!Names(x.cols) BY <2>3, <5>1, <5>2
                              <6>2. n \notin gained BY <1>1, <2>10, <4>2 DEF Told
                              <6>3. agreed.engine = "snowflake" /\ n \in Columns!Added(columns, found[r])
                                    BY <2>8, <6>1, <6>2 DEF Columns!Added
                              <6>4. Told(r, n) BY <1>1, <1>2, <6>3 DEF ColInv, RunInv, Tracked, Told, Shares, Seen
                              <6> QED BY <3>4, <4>2, <6>4
                        <5> QED BY <2>3, <2>4, <5>1, <5>2
                  <4>3. \A l: Columns!Names(l)' = Columns!Names(l) BY DEF Columns!Names
                  <4> QED BY <1>4, <2>5, <4>1, <4>2 DEF Planned, Columns!Names
            <3>6. Unaltered(r)' BY <1>1, <1>3, <2>1 DEF Unaltered, Early
            <3>7. Bystander(r)' /\ Mine(r)' BY <1>1, <1>2, <1>3, <1>5 DEF Bystander, Mine
            <3>8. Logged(r)' BY <1>1, <1>4, <1>6, <2>1, <2>10 DEF Logged
            <3>9. Tracked(r)'
                  <4>1. Tracked(r) /\ HasTable(r) BY DEF ColInv, RunInv
                  <4>2. stage[r] \in Seen \ {"done"} BY <1>1 DEF Seen
                  <4> QED BY <1>1, <2>8, <2>13, <4>1, <4>2, TrackedStays DEF ColInv
            <3> QED BY <3>1, <3>2, <3>3, <3>5, <3>6, <3>7, <3>8, <3>9 DEF RunInv
      <2> QED BY <2>11, <2>13, <2>14, <2>15 DEF Keeps
<1> QED BY <1>7, <1>8

LEMMA ClaimsAreNames ==
    ASSUME ColInv, NEW r \in Run
    PROVE  Columns!Claims(r) \subseteq Nat
<1>1. expects[r] \in Shape /\ found[r] \in Shape BY DEF ColInv, ColTyped
<1>2. Columns!Names(expects[r]) \subseteq Nat /\ Columns!Names(found[r]) \subseteq Nat BY <1>1, LengthIs
<1> QED BY <1>2 DEF Columns!Claims, Columns!Added, Columns!Removed, Columns!Allowed, Columns!Changed

LEMMA LogKeeps ==
    ASSUME ColInv, NEW r \in Run, Columns!Log(r)
    PROVE  Keeps(r)
<1>1. /\ stage[r] = "log" /\ agreed' = agreed /\ layout' = layout /\ orderly' = orderly
      /\ columns' = columns /\ probe' = probe /\ expects' = expects /\ found' = found /\ blind' = blind
      /\ todo' = todo /\ altered' = altered
      BY DEF Columns!Log, Columns!world, Columns!looks
<1>2. agreed.engine \in {"databricks", "snowflake", "gcp"} /\ ~Permissive /\ Logs
      BY <1>1 DEF ColInv, RunInv, OnCourse, Logs, Permissive
<1>3. Columns!After("log") = "write" /\ OnCourse("write")
      BY <1>1, AfterFollows DEF Label, Follows, ColInv, ColTyped, RunInv
<1>4. /\ \A n \in Columns!Claims(r): Told(r, n)
      /\ claimed[r] \subseteq Columns!Claims(r) /\ altered[r] \subseteq Columns!Claims(r)
      BY <1>1, <1>2 DEF ColInv, RunInv, Logged
<1>5. \/ /\ stage' = [stage EXCEPT ![r] = "write"] /\ claimed' = claimed /\ Columns!Claims(r) \subseteq claimed[r]
      \/ /\ stage' = stage
         /\ \E n \in Columns!Claims(r): claimed' = [claimed EXCEPT ![r] = claimed[r] \cup {n}]
      BY <1>3 DEF Columns!Log, Columns!To
<1>6. Columns!Claims(r) \subseteq Nat BY ClaimsAreNames
<1>7. /\ stage' \in [Run -> Label] /\ claimed' \in [Run -> SUBSET Nat]
      /\ \A q \in Run \ {r}: stage'[q] = stage[q] /\ claimed'[q] = claimed[q]
      BY <1>5, <1>6 DEF ColInv, ColTyped, Label
<1>8. /\ claimed'[r] \subseteq Columns!Claims(r)
      /\ stage'[r] \in {"log", "write"} /\ (stage'[r] = "write" => Columns!Claims(r) \subseteq claimed'[r])
      BY <1>1, <1>4, <1>5 DEF ColInv, ColTyped
<1>9. ColTyped' BY <1>1, <1>7 DEF ColInv, ColTyped
<1>10. Grows /\ \A q \in Run \ {r}: Rests(q) BY <1>1, <1>7, NothingGrows DEF Rests
<1>11. RunInv(r)'
       <2>1. /\ Columns!Compares(r)' <=> Columns!Compares(r)
             /\ Columns!Claims(r)' = Columns!Claims(r)
             /\ Columns!Rejects(expects[r], found[r])' <=> Columns!Rejects(expects[r], found[r])
             BY <1>1, SeesTheSame
       <2>2. (Logs' <=> Logs) /\ (Shares' <=> Shares) /\ (Permissive' <=> Permissive) /\ (Columns!Replaces' <=> Columns!Replaces)
             BY <1>1, SeesTheSame
       <2>3. OnCourse(stage[r])' BY <1>1, <1>2, <1>8 DEF OnCourse, Permissive
       <2>4. HasColumns(r)' /\ HasTable(r)' /\ Looked(r)'
             BY <1>1, <1>8, <2>2 DEF ColInv, RunInv, HasColumns, HasTable, Looked, Unlooked, Seen
       <2>5. PassedPolicy(r)' BY <1>1, <1>8, <2>1 DEF ColInv, RunInv, PassedPolicy
       <2>6. Planned(r)' /\ Unaltered(r)' BY <1>1, <1>2, <1>8 DEF Planned, Unaltered, Early, Logs
       <2>7. Bystander(r)' BY <1>2, <2>2 DEF Bystander
       <2>8. \A n \in Columns!Claims(r): Told(r, n)' BY <1>1, <1>4, <2>2, LetPassStays DEF Told
       <2>9. Mine(r)' BY <1>8, <2>8 DEF Mine
       <2>10. Logged(r)' BY <1>1, <1>4, <1>8, <2>1, <2>8 DEF Logged
       <2>11. Tracked(r)'
             <3>1. Tracked(r) /\ HasTable(r) BY DEF ColInv, RunInv
             <3>2. stage[r] \in Seen \ {"done"} /\ columns' \in Shape BY <1>1 DEF Seen, ColInv, ColTyped
             <3> QED BY <1>1, <1>10, <3>1, <3>2, TrackedStays DEF ColInv
       <2> QED BY <2>3, <2>4, <2>5, <2>6, <2>7, <2>9, <2>10, <2>11 DEF RunInv
<1> QED BY <1>9, <1>10, <1>11 DEF Keeps

\* What Fabric records the policy has let pass.
LEMMA RecordKeeps ==
    ASSUME ColInv, NEW r \in Run, Columns!Record(r)
    PROVE  Keeps(r)
<1>1. /\ Columns!At(r, "record") /\ columns' = columns /\ altered' = altered
      /\ agreed' = agreed /\ layout' = layout /\ orderly' = orderly /\ probe' = probe /\ expects' = expects
      /\ found' = found /\ blind' = blind /\ todo' = todo
      /\ claimed' = [claimed EXCEPT ![r] = Columns!Claims(r)]
      BY DEF Columns!Record, Columns!world, Columns!looks
<1>2. /\ stage[r] = "record" /\ stage' \in [Run -> Label] /\ Follows("record", stage'[r]) /\ OnCourse(stage'[r])
      /\ \A q \in Run \ {r}: stage'[q] = stage[q]
      BY <1>1, Moves DEF Label
<1>3. stage'[r] = "done" /\ agreed.engine = "fabric" BY <1>2 DEF Follows, ColInv, RunInv, OnCourse, Permissive
<1>4. ASSUME NEW n \in Columns!Claims(r) PROVE Columns!LetPass(r, n)
      <2> DEFINE s == expects[r]
                 t == found[r]
      <2>1. Columns!Compares(r) BY <1>4 DEF Columns!Claims
      <2>2. n \in Columns!Added(s, t) \/ n \in Columns!Removed(s, t) \/ n \in Columns!Changed(s, t)
            BY <1>3, <1>4, <2>1 DEF Columns!Claims
      <2>3. ~Columns!Rejects(s, t) BY <1>2, <1>3, <2>1 DEF ColInv, RunInv, PassedPolicy
      <2>4. altered[r] = {}
            <3>1. found[r] # <<>> /\ ~Logs /\ ~Columns!Replaces
                  BY <1>3, <2>1 DEF Columns!Compares, Logs, Columns!Replaces
            <3> QED BY <3>1 DEF ColInv, RunInv, Bystander
      <2>5. agreed.policy \in {"strict", "additive_only", "permissive"} BY DEF ColInv, ColTyped, Columns!Agreement
      <2> HIDE DEF s, t
      <2>6. agreed.policy # "strict" BY <1>3, <2>2, <2>3 DEF Columns!Rejects
      <2>7. ASSUME n \in Columns!Removed(s, t) PROVE agreed.policy = "permissive"
            BY <2>3, <2>5, <2>6, <2>7 DEF Columns!Rejects
      <2>8. ASSUME n \in Columns!Changed(s, t)
            PROVE  agreed.widening /\ Columns!IsTypeWidening(Columns!TypeOf(s, n), Columns!TypeOf(t, n))
            <3>1. n \in Columns!Allowed(s, t) BY <2>3, <2>8 DEF Columns!Rejects, Columns!Blocking
            <3> QED BY <1>3, <3>1 DEF Columns!Allowed
      <2> QED BY <1>3, <2>2, <2>4, <2>6, <2>7, <2>8
              DEF Columns!LetPass, Columns!Added, Columns!Removed, Columns!Changed, s, t
<1>5. claimed' \in [Run -> SUBSET Nat] /\ claimed'[r] = Columns!Claims(r) /\ \A q \in Run \ {r}: claimed'[q] = claimed[q]
      BY <1>1, ClaimsAreNames DEF ColInv, ColTyped
<1>6. ColTyped' BY <1>1, <1>2, <1>5 DEF ColInv, ColTyped
<1>7. Grows /\ \A q \in Run \ {r}: Rests(q) BY <1>1, <1>2, <1>5, NothingGrows DEF Rests
<1>8. RunInv(r)'
      <2>1. /\ Columns!Compares(r)' <=> Columns!Compares(r)
            /\ Columns!Rejects(expects[r], found[r])' <=> Columns!Rejects(expects[r], found[r])
            /\ (Logs' <=> Logs) /\ (Shares' <=> Shares) /\ (Permissive' <=> Permissive)
            /\ (Columns!Replaces' <=> Columns!Replaces)
            BY <1>1, SeesTheSame
      <2>2. OnCourse(stage[r])' BY <1>1, <1>3 DEF OnCourse, Permissive
      <2>3. HasColumns(r)' /\ HasTable(r)' /\ Looked(r)'
            BY <1>1, <1>2, <1>3, <2>1 DEF ColInv, RunInv, HasColumns, HasTable, Looked, Unlooked, Seen
      <2>4. PassedPolicy(r)' BY <1>1, <1>2, <1>3, <2>1 DEF ColInv, RunInv, PassedPolicy
      <2>5. Planned(r)' /\ Unaltered(r)' /\ Tracked(r)' BY <1>3 DEF Planned, Unaltered, Tracked, Early
      <2>6. Bystander(r)' BY <1>1, <2>1 DEF ColInv, RunInv, Bystander
      <2>7. Logged(r)' BY <1>3, <2>1 DEF Logged, Logs
      <2>8. Mine(r)' BY <1>1, <1>4, <1>5, LetPassStays DEF Mine, Told
      <2> QED BY <2>2, <2>3, <2>4, <2>5, <2>6, <2>7, <2>8 DEF RunInv
<1> QED BY <1>6, <1>7, <1>8 DEF Keeps

\* The end of a write, whatever it wrote.
LEMMA WriteEnds ==
    ASSUME ColInv, NEW r \in Run, Columns!At(r, "write"),
           agreed' = agreed, layout' = layout, orderly' = orderly, probe' = probe, expects' = expects,
           found' = found, blind' = blind, todo' = todo, claimed' = claimed,
           columns' \in Shape, columns # <<>> => columns' # <<>>, Grows,
           altered' \in [Run -> SUBSET Nat], \A q \in Run \ {r}: altered'[q] = altered[q],
           altered[r] \subseteq altered'[r],
           altered' = altered \/ Columns!Creates
    PROVE  Keeps(r)
<1>1. /\ stage[r] = "write" /\ stage' \in [Run -> Label] /\ Follows("write", stage'[r]) /\ OnCourse(stage'[r])
      /\ \A q \in Run \ {r}: stage'[q] = stage[q]
      BY Moves DEF Label
<1>2. stage'[r] = IF agreed.engine = "aws" THEN "describe" ELSE IF agreed.engine = "fabric" THEN "record" ELSE "done"
      BY <1>1 DEF Follows
<1>3. ColTyped' BY <1>1 DEF ColInv, ColTyped
<1>4. \A q \in Run \ {r}: Rests(q) BY <1>1 DEF Rests
<1>5. /\ Columns!Compares(r)' <=> Columns!Compares(r)
      /\ Columns!Claims(r)' = Columns!Claims(r)
      /\ Columns!Rejects(expects[r], found[r])' <=> Columns!Rejects(expects[r], found[r])
      BY SeesTheSame
<1>6. (Logs' <=> Logs) /\ (Shares' <=> Shares) /\ (Permissive' <=> Permissive) /\ (Columns!Replaces' <=> Columns!Replaces)
      BY SeesTheSame
<1>7. \A q \in Run: altered[q] \subseteq altered'[q] OBVIOUS
<1>8. agreed.engine # "fabric" => \A n: Told(r, n) => Told(r, n)' BY <1>6, <1>7 DEF Told, Columns!LetPass
<1>9. RunInv(r)'
      <2>1. OnCourse(stage[r])' BY <1>1 DEF OnCourse, Permissive
      <2>2. HasColumns(r)' BY <1>1, <1>2 DEF ColInv, RunInv, HasColumns, Seen
      <2>3. HasTable(r)' BY <1>1, <1>2 DEF ColInv, RunInv, HasTable
      <2>4. Looked(r)' BY <1>2, <1>6 DEF ColInv, RunInv, Looked, Unlooked
      <2>5. PassedPolicy(r)' BY <1>1, <1>5 DEF ColInv, RunInv, PassedPolicy
      <2>6. Planned(r)' /\ Unaltered(r)' BY <1>2 DEF Planned, Unaltered, Early
      <2>7. Bystander(r)'
            <3>1. SUFFICES ASSUME ~Logs, ~Columns!Replaces, found[r] # <<>> PROVE altered'[r] = {}
                  BY <1>6 DEF Bystander
            <3>2. altered[r] = {} BY <3>1 DEF ColInv, RunInv, Bystander
            <3>3. columns # <<>> BY <3>1 DEF ColInv, RunInv, HasTable
            <3>4. ~Columns!Creates BY <3>1, <3>3 DEF Columns!Creates
            <3> QED BY <3>2, <3>4
      <2>8. Logged(r)'
            <3>1. SUFFICES ASSUME Logs PROVE Logged(r)' BY <1>6 DEF Logged
            <3>2. altered[r] \subseteq Columns!Claims(r) /\ claimed[r] = Columns!Claims(r)
                  /\ \A n \in Columns!Claims(r): Told(r, n)
                  BY <1>1, <3>1 DEF ColInv, RunInv, Logged
            <3>3. stage'[r] = "done" BY <1>2, <3>1 DEF Logs
            <3>4. ~Columns!Replaces => altered' = altered BY <3>1 DEF Columns!Creates, Logs
            <3>5. ~Columns!Replaces => altered'[r] \subseteq Columns!Claims(r) BY <3>2, <3>4
            <3>6. agreed.engine # "fabric" BY <3>1 DEF Logs
            <3> QED BY <1>5, <1>6, <1>8, <3>2, <3>3, <3>5, <3>6 DEF Logged
      <2>9. Mine(r)'
            <3>1. CASE agreed.engine = "fabric"
                  <4>1. claimed[r] = {} BY <1>1, <3>1 DEF ColInv, RunInv, Unaltered
                  <4> QED BY <4>1 DEF Mine
            <3>2. CASE agreed.engine # "fabric" BY <1>8, <3>2 DEF ColInv, RunInv, Mine
            <3> QED BY <3>1, <3>2
      <2>10. Tracked(r)'
            <3>1. Tracked(r) /\ HasTable(r) BY DEF ColInv, RunInv
            <3>2. stage[r] \in Seen \ {"done"} BY <1>1 DEF Seen
            <3> QED BY <3>1, <3>2, TrackedStays DEF ColInv
      <2> QED BY <2>1, <2>2, <2>3, <2>4, <2>5, <2>6, <2>7, <2>8, <2>9, <2>10 DEF RunInv
<1> QED BY <1>3, <1>4, <1>9 DEF Keeps

LEMMA WriteNewKeeps ==
    ASSUME ColInv, NEW r \in Run, Columns!WriteNew(r)
    PROVE  Keeps(r)
<1> DEFINE new == Columns!Reads(r)
           gained == Columns!Added(new, columns) \cup Columns!Changed(new, columns)
<1>1. /\ Columns!Creates /\ Columns!At(r, "write")
      /\ columns' = new
      /\ altered' = [altered EXCEPT ![r] = altered[r] \cup Columns!Added(new, columns) \cup Columns!Changed(new, columns)]
      /\ agreed' = agreed /\ layout' = layout /\ orderly' = orderly /\ probe' = probe /\ expects' = expects
      /\ found' = found /\ blind' = blind /\ todo' = todo /\ claimed' = claimed
      BY DEF Columns!WriteNew, Columns!world, Columns!looks
<1>2. new \in Shape /\ new # <<>>
      <2>1. layout \in Shape /\ layout # <<>> BY LayoutsAssumption DEF ColInv, ColTyped, Shape
      <2>2. expects[r] \in Shape /\ expects[r] # <<>>
            BY <1>1, Moves DEF Label, ColInv, ColTyped, RunInv, HasColumns, Seen
      <2> QED BY <2>1, <2>2, NativeIs DEF Columns!Reads
<1> HIDE DEF new
<1>3. gained \subseteq Columns!Names(new) /\ Columns!Names(new) \subseteq Nat
      BY <1>2, LengthIs DEF Columns!Added, Columns!Changed
<1>4. \A n \in Columns!Names(new):
         \/ n \in Columns!Names(columns) /\ Columns!TypeOf(new, n) = Columns!TypeOf(columns, n)
         \/ n \in gained
      BY DEF Columns!Added, Columns!Changed
<1>5. altered' = [altered EXCEPT ![r] = altered[r] \cup gained] BY <1>1
<1> HIDE DEF gained
<1>6. /\ altered' \in [Run -> SUBSET Nat] /\ altered'[r] = altered[r] \cup gained
      /\ \A q \in Run \ {r}: altered'[q] = altered[q]
      BY <1>3, <1>5 DEF ColInv, ColTyped
<1>7. Grows
      <2>1. columns' # <<>> BY <1>1, <1>2
      <2>2. \A q \in Run: altered[q] \subseteq altered'[q] BY <1>6
      <2>3. \A n \in Columns!Names(columns'):
               \/ n \in Columns!Names(columns) /\ Columns!TypeOf(columns', n) = Columns!TypeOf(columns, n)
               \/ \E x \in Run: n \in altered'[x]
            BY <1>1, <1>4, <1>6
      <2> QED BY <1>1, <2>1, <2>2, <2>3 DEF Grows
<1> QED BY <1>1, <1>2, <1>6, <1>7, WriteEnds

LEMMA WriteKeeps ==
    ASSUME ColInv, NEW r \in Run, Columns!WriteByPosition(r) \/ Columns!WriteByName(r)
    PROVE  Keeps(r)
<1>1. /\ Columns!At(r, "write") /\ columns' = columns /\ altered' = altered
      /\ agreed' = agreed /\ layout' = layout /\ orderly' = orderly /\ probe' = probe /\ expects' = expects
      /\ found' = found /\ blind' = blind /\ todo' = todo /\ claimed' = claimed
      BY DEF Columns!WriteByPosition, Columns!WriteByName, Columns!world, Columns!looks
<1>2. columns \in Shape /\ altered \in [Run -> SUBSET Nat] BY DEF ColInv, ColTyped
<1> QED BY <1>1, <1>2, NothingGrows, WriteEnds

LEMMA DescribeKeeps ==
    ASSUME ColInv, NEW r \in Run, Columns!Describe(r)
    PROVE  Keeps(r)
<1>1. /\ Columns!At(r, "describe") /\ columns' = columns /\ altered' = altered
      /\ agreed' = agreed /\ layout' = layout /\ orderly' = orderly /\ probe' = probe /\ expects' = expects
      /\ found' = found /\ blind' = blind /\ todo' = todo
      BY DEF Columns!Describe, Columns!world, Columns!looks
<1>2. PICK after \in {columns, <<>>}:
         claimed' = [claimed EXCEPT ![r] = Columns!Added(after, found[r]) \cup Columns!Changed(after, found[r])]
      BY DEF Columns!Describe
<1>3. /\ stage[r] = "describe" /\ stage' \in [Run -> Label] /\ Follows("describe", stage'[r]) /\ OnCourse(stage'[r])
      /\ \A q \in Run \ {r}: stage'[q] = stage[q]
      BY <1>1, Moves DEF Label
<1>4. stage'[r] = "done" /\ agreed.engine = "aws" BY <1>3 DEF Follows, ColInv, RunInv, OnCourse
<1> DEFINE told == Columns!Added(after, found[r]) \cup Columns!Changed(after, found[r])
<1>5. told \subseteq Columns!Added(columns, found[r]) \cup Columns!Changed(columns, found[r])
      BY DEF Columns!Added, Columns!Changed, Columns!Names
<1>6. told \subseteq Nat
      <2>1. Columns!Names(columns) \subseteq Nat BY LengthIs DEF ColInv, ColTyped
      <2> QED BY <1>5, <2>1 DEF Columns!Added, Columns!Changed
<1>7. \A n \in told: Told(r, n)
      BY <1>3, <1>4, <1>5 DEF ColInv, RunInv, Tracked, Told, Shares, Permissive, Seen
<1>8. claimed' = [claimed EXCEPT ![r] = told] BY <1>2
<1> HIDE DEF told
<1>9. claimed' \in [Run -> SUBSET Nat] /\ claimed'[r] = told /\ \A q \in Run \ {r}: claimed'[q] = claimed[q]
      BY <1>6, <1>8 DEF ColInv, ColTyped
<1>10. ColTyped' BY <1>1, <1>3, <1>9 DEF ColInv, ColTyped
<1>11. Grows /\ \A q \in Run \ {r}: Rests(q) BY <1>1, <1>3, <1>9, NothingGrows DEF Rests
<1>12. RunInv(r)'
       <2>1. (Logs' <=> Logs) /\ (Shares' <=> Shares) /\ (Permissive' <=> Permissive) /\ (Columns!Replaces' <=> Columns!Replaces)
             BY <1>1, SeesTheSame
       <2>2. OnCourse(stage[r])' BY <1>1, <1>3 DEF OnCourse, Permissive
       <2>3. HasColumns(r)' /\ HasTable(r)' /\ Looked(r)'
             BY <1>1, <1>3, <1>4, <2>1 DEF ColInv, RunInv, HasColumns, HasTable, Looked, Unlooked, Seen
       <2>4. PassedPolicy(r)' BY <1>1, <1>4 DEF PassedPolicy
       <2>5. Planned(r)' /\ Unaltered(r)' /\ Tracked(r)' BY <1>4 DEF Planned, Unaltered, Tracked, Early
       <2>6. Bystander(r)' BY <1>1, <2>1 DEF ColInv, RunInv, Bystander
       <2>7. Logged(r)' BY <1>4, <2>1 DEF Logged, Logs
       <2>8. Mine(r)' BY <1>1, <1>7, <1>9, <2>1, LetPassStays DEF Mine, Told
       <2> QED BY <2>2, <2>3, <2>4, <2>5, <2>6, <2>7, <2>8 DEF RunInv
<1> QED BY <1>10, <1>11, <1>12 DEF Keeps

\* Every step of a run does.
LEMMA RunKeeps ==
    ASSUME ColInv, NEW r \in Run,
           \/ Columns!Begin(r) \/ Columns!NextBatch(r) \/ Columns!Look(r) \/ Columns!Prepare(r) \/ Columns!Probe(r)
           \/ Columns!Inspect(r) \/ Columns!Drop(r) \/ Columns!SetUp(r) \/ Columns!Compare(r) \/ Columns!Alter(r)
           \/ Columns!Log(r) \/ Columns!Record(r) \/ Columns!WriteNew(r) \/ Columns!WriteByPosition(r) \/ Columns!WriteByName(r)
           \/ Columns!Describe(r) \/ Columns!FailSchema(r)
    PROVE  Keeps(r)
BY BeginKeeps, NextBatchKeeps, LookKeeps, PrepareKeeps, ProbeKeeps, InspectKeeps, DropKeeps, SetUpKeeps,
   CompareKeeps, AlterKeeps, LogKeeps, RecordKeeps, WriteNewKeeps, WriteKeeps, DescribeKeeps, FailKeeps

\* A step of the columns.
LEMMA ColStep ==
    ASSUME ColInv, Columns!SchemaNext
    PROVE  ColInv'
<1>1. ASSUME Columns!Redefine PROVE ColInv'
      <2>1. /\ agreed' = agreed /\ layout' \in Layouts /\ orderly' \in BOOLEAN
            /\ columns' = columns /\ probe' = probe /\ stage' = stage /\ expects' = expects /\ found' = found
            /\ blind' = blind /\ todo' = todo /\ claimed' = claimed /\ altered' = altered
            BY <1>1 DEF Columns!Redefine, Columns!looks, ColInv, ColTyped
      <2>2. ColTyped' BY <2>1 DEF ColInv, ColTyped
      <2>3. Grows /\ \A q \in Run: Rests(q) BY <2>1, NothingGrows DEF Rests
      <2>4. columns' \in Shape BY <2>2 DEF ColTyped
      <2> QED BY <2>2, <2>3, <2>4, OthersKeep DEF ColInv
<1>2. ASSUME NEW r \in Run, Keeps(r) PROVE ColInv'
      <2>1. columns' \in Shape BY <1>2 DEF Keeps, ColTyped
      <2>2. \A q \in Run \ {r}: RunInv(q)' BY <1>2, <2>1, OthersKeep DEF Keeps, ColInv
      <2> QED BY <1>2, <2>2 DEF Keeps, ColInv
<1> QED BY <1>1, <1>2, RunKeeps DEF Columns!SchemaNext

LEMMA ColStarts ==
    ASSUME Columns!SchemaInit
    PROVE  ColInv
<1>1. /\ agreed \in Columns!Agreement /\ layout \in Layouts /\ orderly \in BOOLEAN
      /\ probe = <<>> /\ stage = [r \in Run |-> "idle"]
      /\ expects = [r \in Run |-> <<>>] /\ found = [r \in Run |-> <<>>] /\ todo = [r \in Run |-> <<>>]
      /\ claimed = [r \in Run |-> {}] /\ altered = [r \in Run |-> {}] /\ blind = {}
      BY AgreementsAssumption DEF Columns!SchemaInit, Columns!Untouched
<1>2. columns \in Shape
      <2>1. PICK t \in Tables: columns = Columns!Native(t) BY DEF Columns!SchemaInit
      <2> QED BY <2>1, NativeIs, LayoutsAssumption DEF Shape
<1>3. <<>> \in Shape /\ <<>> \in Seq(Statement) BY DEF Shape, Columns!Shape
<1>4. ColTyped BY <1>1, <1>2, <1>3 DEF ColTyped, Label
<1>5. ASSUME NEW r \in Run PROVE RunInv(r)
      <2>1. stage[r] = "idle" /\ found[r] = <<>> /\ claimed[r] = {} /\ altered[r] = {} /\ r \notin blind BY <1>1
      <2> QED BY <2>1 DEF RunInv, OnCourse, HasColumns, HasTable, Looked, PassedPolicy, Planned, Unaltered, Bystander,
                          Logged, Mine, Tracked, Seen
<1> QED BY <1>4, <1>5 DEF ColInv

SchemaInv == IF agreed = Null THEN Columns!Untouched ELSE ColInv

LEMMA SchemaInvariant == Spec => []SchemaInv
<1>1. RowsInit \/ ColumnsInit => SchemaInv
      BY ColStarts DEF RowsInit, ColumnsInit, SchemaInv, Columns!SchemaInit
<1>2. SchemaInv /\ [Next]_<<vars, columnVars>> => SchemaInv'
      <2>1. ASSUME SchemaInv, columnVars' = columnVars PROVE SchemaInv'
            <3>1. /\ agreed' = agreed /\ layout' = layout /\ redefined' = redefined /\ columns' = columns
                  /\ probe' = probe /\ stage' = stage /\ begun' = begun /\ expects' = expects /\ found' = found
                  /\ todo' = todo /\ claimed' = claimed /\ altered' = altered /\ blind' = blind
                  /\ displaced' = displaced /\ orderly' = orderly
                  BY <2>1 DEF columnVars
            <3>2. ASSUME ColInv PROVE ColInv'
                  <4>1. ColTyped' BY <3>1, <3>2 DEF ColInv, ColTyped
                  <4>2. Grows /\ \A q \in Run: Rests(q) BY <3>1, NothingGrows DEF Rests
                  <4>3. columns' \in Shape BY <4>1 DEF ColTyped
                  <4> QED BY <3>2, <4>1, <4>2, <4>3, OthersKeep DEF ColInv
            <3>3. Columns!Untouched => Columns!Untouched' BY <3>1 DEF Columns!Untouched
            <3> QED BY <2>1, <3>1, <3>2, <3>3 DEF SchemaInv
      <2>2. ASSUME SchemaInv, ColumnsNext PROVE SchemaInv'
            <3>1. ColInv /\ ColInv' BY <2>2, ColStep DEF SchemaInv, ColumnsNext
            <3>2. agreed' = agreed
                  BY <2>2 DEF ColumnsNext, Columns!SchemaNext, Columns!Redefine, Columns!Begin, Columns!NextBatch,
                     Columns!Look, Columns!Prepare, Columns!Probe, Columns!Inspect, Columns!Drop, Columns!SetUp,
                     Columns!Compare, Columns!Alter, Columns!Log, Columns!Record, Columns!WriteNew, Columns!WriteByPosition,
                     Columns!WriteByName, Columns!Describe, Columns!FailSchema, Columns!world
            <3> QED BY <2>2, <3>1, <3>2 DEF SchemaInv, ColumnsNext
      <2> QED BY <2>1, <2>2 DEF Next, RowsNext
<1> QED BY <1>1, <1>2, PTL DEF Spec

\* Evidence of a change of a column is the evidence of the run that made it; on
\* AWS and Snowflake perhaps of another run's, or of none after a look that
\* failed, and on Fabric of a difference that the policy let pass and nobody acted
\* on.
THEOREM EvidenceOfColumns == Spec => []EvidenceIsOwn
<1>1. SchemaInv => EvidenceIsOwn
      <2>1. ASSUME Columns!Untouched PROVE Columns!EvidenceIsOwn
            BY <2>1 DEF Columns!Untouched, Columns!EvidenceIsOwn
      <2>2. ASSUME ColInv PROVE Columns!EvidenceIsOwn
            <3>1. ASSUME NEW r \in Run, NEW n \in claimed[r]
                  PROVE  \/ n \in altered[r]
                         \/ agreed.engine \in {"aws", "snowflake"} /\ (r \in blind \/ \E q \in Run: n \in altered[q])
                         \/ Columns!LetPass(r, n)
                  BY <2>2, <3>1 DEF ColInv, RunInv, Mine, Told, Shares
            <3>2. ASSUME NEW r \in Run, stage[r] = "done", found[r] # <<>>, ~Columns!Replaces
                  PROVE  altered[r] \subseteq claimed[r]
                  <4>1. CASE Logs BY <2>2, <3>2, <4>1 DEF ColInv, RunInv, Logged
                  <4>2. CASE ~Logs BY <2>2, <3>2, <4>2 DEF ColInv, RunInv, Bystander
                  <4> QED BY <4>1, <4>2
            <3> QED BY <3>1, <3>2 DEF Columns!EvidenceIsOwn
      <2> QED BY <2>1, <2>2 DEF SchemaInv, EvidenceIsOwn
<1> QED BY <1>1, SchemaInvariant, PTL

-----------------------------------------------------------------------------
(* What ALTER TABLE and the writes leave behind *)

\* Columns that follow the first of a shape and have none of their names.
LEMMA NewColumnsFollow ==
    ASSUME NEW s \in Shape, NEW t \in Shape
    PROVE  /\ t \o Columns!Additions(s, t) \in Shape
           /\ Columns!Names(t \o Columns!Additions(s, t)) =
                 Columns!Names(t) \cup (IF Adds THEN Columns!Added(s, t) ELSE {})
           /\ Columns!Additions(s, t) = <<>> => t \o Columns!Additions(s, t) = t
           /\ t = <<>> => t \o Columns!Additions(s, t) = Columns!Additions(s, t)
<1> DEFINE a == Columns!Additions(s, t)
<1>1. a \in Shape /\ Columns!Names(a) = IF Adds THEN Columns!Added(s, t) ELSE {} BY AdditionsAre
<1>2. t \in Seq(Columns!ColumnOf) /\ a \in Seq(Columns!ColumnOf) BY <1>1 DEF Shape, Columns!Shape
<1>3. Columns!Names(t) \cap Columns!Names(a) = {} BY <1>1 DEF Columns!Added
<1> HIDE DEF a
<1>4. t \o a \in Shape /\ Columns!Names(t \o a) = Columns!Names(t) \cup Columns!Names(a) BY <1>1, <1>3, Appends
<1>5. (a = <<>> => t \o a = t) /\ (t = <<>> => t \o a = a) BY <1>2
<1> QED BY <1>1, <1>4, <1>5 DEF a

\* What an executed statement does to the columns.
LEMMA StatementsFollowPolicy ==
    ASSUME ColInv, NEW r \in Run, Columns!Alter(r), columns' # columns
    PROVE  /\ agreed.policy # "strict"
           /\ Columns!Begins(columns, columns')
           /\ \A n \in Columns!Names(columns):
                 \/ Columns!TypeOf(columns', n) = Columns!TypeOf(columns, n)
                 \/ /\ agreed.widening
                    /\ Columns!IsTypeWidening(Columns!TypeOf(columns', n), Columns!TypeOf(columns, n))
<1> DEFINE x == Head(todo[r])
<1>1. stage[r] = "alter" /\ todo[r] # <<>> /\ Columns!Execute(r, x) BY DEF Columns!Alter
<1>2. todo[r] \in Seq(Statement) BY DEF ColInv, ColTyped
<1>3. x = todo[r][1] /\ 1 \in DOMAIN todo[r] /\ x \in Statement BY <1>1, <1>2, HeadAndTail
<1>4. Columns!Compares(r) /\ Proposed(r, x) BY <1>1, <1>3 DEF ColInv, RunInv, Planned
<1> HIDE DEF x
<1>5. ~Columns!Rejects(expects[r], found[r])
      <2>1. agreed.engine # "aws" BY <1>1 DEF ColInv, RunInv, OnCourse, Permissive
      <2> QED BY <1>1, <1>4, <2>1 DEF ColInv, RunInv, PassedPolicy
<1>6. agreed.policy = "strict" =>
         /\ Columns!Added(expects[r], found[r]) = {}
         /\ agreed.engine # "snowflake" => Columns!Changed(expects[r], found[r]) = {}
      BY <1>5 DEF Columns!Rejects
<1>7. ASSUME x.do = "add"
      PROVE  /\ agreed.policy # "strict"
             /\ Columns!Begins(columns, columns')
             /\ \A n \in Columns!Names(columns): Columns!TypeOf(columns', n) = Columns!TypeOf(columns, n)
      <2> DEFINE new == Columns!InOrder(x.cols, Columns!Names(x.cols) \ Columns!Names(columns))
      <2>1. /\ new \in Shape /\ Columns!Names(new) = Columns!Names(x.cols) \ Columns!Names(columns)
            /\ columns' = columns \o new /\ columns' \in Shape
            /\ Columns!Begins(columns, columns')
            BY <1>1, <1>3, <1>7, AddsColumns
      <2>2. Columns!Names(x.cols) \subseteq Columns!Added(expects[r], found[r]) BY <1>4, <1>7 DEF Proposed
      <2> HIDE DEF new
      <2>3. columns \in Shape BY DEF ColInv, ColTyped
      <2>4. new # <<>>
            <3>1. columns \in Seq(Columns!ColumnOf) BY <2>3 DEF Shape, Columns!Shape
            <3> QED BY <2>1, <3>1
      <2>5. Columns!Names(new) # {} BY <2>1, <2>4, LengthIs
      <2>6. \A n \in Columns!Names(columns): Columns!TypeOf(columns', n) = Columns!TypeOf(columns, n)
            <3>1. Columns!Names(columns) \cap Columns!Names(new) = {} BY <2>1
            <3>2. PICK m: m = columns \o new OBVIOUS
            <3>3. \A n \in Columns!Names(columns): Columns!TypeOf(m, n) = Columns!TypeOf(columns, n)
                  BY <2>1, <2>3, <3>1, <3>2, Appends
            <3>4. m = columns' BY <2>1, <3>2
            <3> QED BY <3>3, <3>4
      <2> QED BY <1>6, <2>1, <2>2, <2>5, <2>6
<1>8. ASSUME x.do # "add"
      PROVE  /\ agreed.policy # "strict"
             /\ Columns!Begins(columns, columns')
             /\ \A n \in Columns!Names(columns):
                   \/ Columns!TypeOf(columns', n) = Columns!TypeOf(columns, n)
                   \/ /\ agreed.widening
                      /\ Columns!IsTypeWidening(Columns!TypeOf(columns', n), Columns!TypeOf(columns, n))
      <2>0. agreed.engine = "databricks" BY <1>4, <1>8 DEF Proposed
      <2>1. PICK j \in DOMAIN expects[r]: /\ x.cols = <<expects[r][j]>>
                                          /\ expects[r][j].name \in Columns!Allowed(expects[r], found[r])
            BY <1>4, <1>8 DEF Proposed
      <2>2. agreed.widening /\ Columns!Changed(expects[r], found[r]) # {} BY <2>0, <2>1 DEF Columns!Allowed
      <2>3. expects[r] \in Shape BY DEF ColInv, ColTyped
      <2>4. expects[r][j] \in Columns!ColumnOf BY <2>3, ColumnIs DEF Columns!ColumnOf
      <2>5. /\ Columns!Begins(columns, columns')
            /\ \A n \in Columns!Names(columns):
                  \/ Columns!TypeOf(columns', n) = Columns!TypeOf(columns, n)
                  \/ Columns!Alterable(Columns!TypeOf(columns', n), Columns!TypeOf(columns, n))
            BY <1>1, <1>3, <1>8, <2>1, <2>4, WidensColumn
      <2>6. \A a, b: Columns!Alterable(a, b) => Columns!IsTypeWidening(a, b)
            BY DEF Columns!Alterable, Columns!IsTypeWidening
      <2> QED BY <1>6, <2>0, <2>2, <2>5, <2>6
<1> QED BY <1>7, <1>8

\* What the policy says of columns s that are written into the columns c.
Agrees(s, c) ==
    /\ agreed.policy = "strict" =>
          /\ Columns!Names(s) \subseteq Columns!Names(c)
          /\ \A n \in Columns!Changed(s, c):
                agreed.engine = "snowflake" /\ Columns!Alike(Columns!TypeOf(s, n), Columns!TypeOf(c, n))
    /\ agreed.policy # "permissive" =>
          Columns!Names(c) \ Columns!Names(s) \subseteq (IF agreed.engine = "snowflake" THEN {} ELSE Ignored)

\* What a run may write into that found source and target as it has seen them.
LEMMA WritesFollowPolicy ==
    ASSUME ColInv, NEW r \in Run, stage[r] = "write", columns # <<>>, agreed.engine # "aws", ~Columns!Stale(r)
    PROVE  Agrees(Columns!Reads(r), columns)
<1> DEFINE s == expects[r]
           t == found[r]
           a == Columns!Additions(s, t)
<1>1. s \in Shape /\ t \in Shape BY DEF ColInv, ColTyped
<1>2. r \notin blind /\ Columns!Reads(r) = s /\ columns = t \o a BY DEF Columns!Stale, Columns!Sought
<1>3. /\ Columns!Names(columns) = Columns!Names(t) \cup (IF Adds THEN Columns!Added(s, t) ELSE {})
      /\ a = <<>> => columns = t
      /\ t = <<>> => columns = a
      BY <1>1, <1>2, NewColumnsFollow
<1>4. a \in Shape /\ Columns!Names(a) = IF Adds THEN Columns!Added(s, t) ELSE {} BY <1>1, AdditionsAre
<1>5. ASSUME Columns!Compares(r)
      PROVE  Agrees(s, columns)
      <2>1. ~Columns!Rejects(s, t) BY <1>5 DEF ColInv, RunInv, PassedPolicy
      <2>2. ASSUME agreed.policy = "strict"
            PROVE  /\ Columns!Names(s) \subseteq Columns!Names(columns)
                   /\ \A n \in Columns!Changed(s, columns):
                         agreed.engine = "snowflake" /\ Columns!Alike(Columns!TypeOf(s, n), Columns!TypeOf(columns, n))
            <3>1. /\ Columns!Added(s, t) = {}
                  /\ agreed.engine # "snowflake" => Columns!Changed(s, t) = {}
                  /\ Columns!Changed(s, t) \subseteq Columns!Allowed(s, t)
                  BY <2>1, <2>2 DEF Columns!Rejects, Columns!Blocking
            <3>2. Columns!Names(a) = {} BY <1>4, <3>1
            <3>3. a = <<>>
                  <4> HIDE DEF a
                  <4> QED BY <1>4, <3>2, LengthIs
            <3>4. columns = t BY <1>3, <3>3
            <3>5. ASSUME NEW n \in Columns!Changed(s, t)
                  PROVE  agreed.engine = "snowflake" /\ Columns!Alike(Columns!TypeOf(s, n), Columns!TypeOf(t, n))
                  BY <3>1, <3>5 DEF Columns!Allowed
            <3> QED BY <3>1, <3>4, <3>5 DEF Columns!Added
      <2>3. ASSUME agreed.policy # "permissive"
            PROVE  Columns!Names(columns) \ Columns!Names(s) \subseteq (IF agreed.engine = "snowflake" THEN {} ELSE Ignored)
            <3>1. agreed.policy \in {"strict", "additive_only"} BY <2>3 DEF ColInv, ColTyped, Columns!Agreement
            <3>2. Columns!Removed(s, t) = {} BY <2>1, <3>1 DEF Columns!Rejects
            <3> QED BY <1>3, <3>2 DEF Columns!Added, Columns!Removed
      <2> QED BY <2>2, <2>3 DEF Agrees
<1>6. ASSUME ~Columns!Compares(r)
      PROVE  Columns!Names(s) = Columns!Names(columns) /\ Columns!Changed(s, columns) = {}
      <2>1. t = <<>> /\ columns = a BY <1>3, <1>6 DEF Columns!Compares
      <2>2. Adds
            <3>1. SUFFICES ASSUME ~Adds PROVE FALSE OBVIOUS
            <3>2. Columns!Names(a) = {} BY <1>4, <3>1
            <3> HIDE DEF a
            <3> QED BY <1>4, <2>1, <3>2, LengthIs
      <2>3. Columns!Names(t) = {} BY <2>1 DEF Columns!Names
      <2>4. Columns!Names(columns) = Columns!Names(s) BY <1>3, <2>2, <2>3 DEF Columns!Added
      <2>5. ASSUME NEW n \in Columns!Names(columns) PROVE Columns!TypeOf(s, n) = Columns!TypeOf(columns, n)
            <3>1. columns \in Shape BY DEF ColInv, ColTyped
            <3>2. PICK k \in DOMAIN columns: columns[k].name = n /\ columns[k].type = Columns!TypeOf(columns, n)
                  BY <3>1, NameIs
            <3>3. k \in DOMAIN a /\ columns[k] = a[k] BY <2>1
            <3>4. PICK i \in DOMAIN s: a[k] = s[i] BY <1>1, <3>3, AdditionsAre
            <3>5. Columns!TypeOf(s, s[i].name) = s[i].type BY <1>1, ColumnIs
            <3> QED BY <3>2, <3>3, <3>4, <3>5
      <2> QED BY <2>4, <2>5 DEF Columns!Changed
<1> QED BY <1>2, <1>5, <1>6 DEF Agrees

\* The columns of a table that is there change only by ALTER TABLE or a write.
LEMMA OnlyAlters ==
    ASSUME ColInv, Columns!SchemaNext, columns # <<>>, columns' # columns, ~\E r \in Run: Columns!Writes(r)
    PROVE  \E r \in Run: Columns!Alter(r)
<1>1. SUFFICES ASSUME NEW r \in Run, Columns!SetUp(r) \/ Columns!WriteNew(r) PROVE FALSE
      BY DEF Columns!SchemaNext, Columns!Redefine, Columns!Begin, Columns!NextBatch, Columns!Look, Columns!Prepare,
         Columns!Probe, Columns!Inspect, Columns!Drop, Columns!Compare, Columns!Log, Columns!Record, Columns!WriteByPosition,
         Columns!WriteByName, Columns!Describe, Columns!FailSchema
<1>2. CASE Columns!SetUp(r) BY <1>2 DEF Columns!SetUp
<1>3. CASE Columns!WriteNew(r)
      <2>1. Columns!At(r, "write") BY <1>3 DEF Columns!WriteNew
      <2>2. stage[r] = "write" /\ Follows("write", stage'[r]) BY <2>1, Moves DEF Label
      <2>3. stage'[r] \in {"done", "describe", "record"} BY <2>2 DEF Follows
      <2> QED BY <2>2, <2>3 DEF Columns!Writes
<1> QED BY <1>1, <1>2, <1>3

\* ALTER TABLE and the writes keep to what was agreed for the columns.
THEOREM ColumnsFollowPolicy == Spec => SchemaFollowsPolicy
<1>1. SchemaInv /\ [Next]_<<vars, columnVars>> => [Columns!FollowsPolicy]_columnVars
      <2>1. SUFFICES ASSUME SchemaInv, ColumnsNext PROVE Columns!FollowsPolicy
            BY DEF Next, RowsNext
      <2>2. ColInv /\ Columns!SchemaNext BY <2>1 DEF SchemaInv, ColumnsNext
      <2>3. ASSUME columns # <<>>, columns' # columns, ~\E r \in Run: Columns!Writes(r)
            PROVE  /\ agreed.policy # "strict"
                   /\ Columns!Begins(columns, columns')
                   /\ \A n \in Columns!Names(columns):
                         \/ Columns!TypeOf(columns', n) = Columns!TypeOf(columns, n)
                         \/ /\ agreed.widening
                            /\ Columns!IsTypeWidening(Columns!TypeOf(columns', n), Columns!TypeOf(columns, n))
            <3>1. PICK r \in Run: Columns!Alter(r) BY <2>2, <2>3, OnlyAlters
            <3> QED BY <2>2, <2>3, <3>1, StatementsFollowPolicy
      <2>4. ASSUME NEW r \in Run, Columns!Writes(r), columns # <<>>, agreed.engine # "aws", ~Columns!Stale(r)
            PROVE  Agrees(Columns!Reads(r), columns)
            <3>1. stage[r] = "write" BY <2>4 DEF Columns!Writes
            <3> QED BY <2>2, <2>4, <3>1, WritesFollowPolicy
      <2> QED BY <2>3, <2>4 DEF Columns!FollowsPolicy, Agrees
<1> QED BY <1>1, SchemaInvariant, PTL DEF Spec, SchemaFollowsPolicy

-----------------------------------------------------------------------------
(* Columns that only grow at their end *)

\* The statements that a run has still to execute add what comes next in the
\* columns it expects.
Continues(r) ==
    stage[r] = "alter" =>
        /\ agreed.engine = "databricks" =>
              \A i \in DOMAIN todo[r]: todo[r][i].do = "add" =>
                 /\ i = 1 /\ todo[r][i].cols # <<>>
                 /\ \A k \in DOMAIN todo[r][i].cols: /\ Len(found[r]) + k \in DOMAIN expects[r]
                                                     /\ todo[r][i].cols[k] = expects[r][Len(found[r]) + k]
        /\ agreed.engine # "databricks" =>
              /\ Len(todo[r]) <= Len(expects[r])
              /\ todo[r] # <<>> => Len(expects[r]) <= Len(columns) + Len(todo[r])
              /\ \A i \in DOMAIN todo[r]:
                    /\ todo[r][i].do = "add"
                    /\ Len(expects[r]) - Len(todo[r]) + i \in DOMAIN expects[r]
                    /\ todo[r][i].cols = <<expects[r][Len(expects[r]) - Len(todo[r]) + i]>>

InLine(r) ==
    /\ Columns!Begins(expects[r], layout)
    /\ Columns!Begins(found[r], columns)
    /\ Continues(r)

Ordered ==
    /\ Columns!Ascending(layout)
    /\ Columns!Begins(columns, layout)
    /\ Columns!Begins(probe, layout)
    /\ \A r \in Run: InLine(r)

OrderInv ==
    /\ displaced # {} => Columns!ByPosition /\ ~orderly
    /\ Columns!ByPosition /\ orderly => Ordered

LEMMA BeginsSelf ==
    ASSUME NEW a \in Shape
    PROVE  Columns!Begins(a, a) /\ Columns!Begins(<<>>, a)
<1>1. Len(a) \in Nat /\ DOMAIN a = 1..Len(a) BY LengthIs
<1>2. Len(<<>>) = 0 /\ DOMAIN <<>> = {} OBVIOUS
<1> QED BY <1>1, <1>2 DEF Columns!Begins

LEMMA BeginsOn ==
    ASSUME NEW a \in Shape, NEW b \in Shape, NEW c \in Shape, Columns!Begins(a, b), Columns!Begins(b, c)
    PROVE  Columns!Begins(a, c)
<1>1. /\ Len(a) \in Nat /\ DOMAIN a = 1..Len(a)
      /\ Len(b) \in Nat /\ DOMAIN b = 1..Len(b)
      /\ Len(c) \in Nat /\ DOMAIN c = 1..Len(c)
      BY LengthIs
<1> QED BY <1>1 DEF Columns!Begins

LEMMA BeginsNative ==
    ASSUME NEW a \in Shape, NEW b \in Shape
    PROVE  Columns!Begins(Columns!Native(a), b) <=> Columns!Begins(a, b)
<1>1. /\ Len(a) \in Nat /\ DOMAIN a = 1..Len(a) BY LengthIs
<1> DEFINE m == Columns!Native(a)
<1>2. m \in Shape /\ Len(m) = Len(a) /\ \A i \in DOMAIN a: m[i].name = a[i].name BY NativeIs
<1>3. DOMAIN m = 1..Len(a) BY <1>2, LengthIs
<1> HIDE DEF m
<1>4. Columns!Begins(m, b) <=> Columns!Begins(a, b) BY <1>1, <1>2, <1>3 DEF Columns!Begins
<1> QED BY <1>4 DEF m

\* The names at the beginning of a shape, and the others.
LEMMA BeginsNames ==
    ASSUME NEW s \in Shape, NEW t \in Shape, NEW l \in Shape, Columns!Begins(s, l), Columns!Begins(t, l)
    PROVE  \A i \in DOMAIN s: s[i].name \in Columns!Names(t) <=> i <= Len(t)
<1>1. /\ Len(s) \in Nat /\ DOMAIN s = 1..Len(s)
      /\ Len(t) \in Nat /\ DOMAIN t = 1..Len(t)
      /\ Len(l) \in Nat /\ DOMAIN l = 1..Len(l)
      BY LengthIs
<1>2. TAKE i \in DOMAIN s
<1>3. s[i].name = l[i].name /\ i \in DOMAIN l /\ i \in Nat BY <1>1 DEF Columns!Begins
<1>4. ASSUME i <= Len(t) PROVE s[i].name \in Columns!Names(t)
      <2>1. i \in DOMAIN t BY <1>1, <1>4
      <2>2. t[i].name = s[i].name BY <1>3, <2>1 DEF Columns!Begins
      <2> QED BY <2>1, <2>2 DEF Columns!Names
<1>5. ASSUME s[i].name \in Columns!Names(t) PROVE i <= Len(t)
      <2>1. PICK j \in DOMAIN t: t[j].name = s[i].name BY <1>5 DEF Columns!Names
      <2>2. j \in DOMAIN l /\ l[j].name = l[i].name BY <1>1, <1>3, <2>1 DEF Columns!Begins
      <2>3. i = j BY <1>3, <2>2 DEF Shape, Columns!Shape
      <2> QED BY <1>1, <2>1, <2>3
<1> QED BY <1>4, <1>5

\* What is added to columns that are the first of those expected is the rest.
LEMMA AdditionsContinue ==
    ASSUME NEW s \in Shape, NEW t \in Shape, NEW l \in Shape,
           Columns!Ascending(l), Columns!Begins(s, l), Columns!Begins(t, l)
    PROVE  /\ Len(Columns!Additions(s, t)) = IF ~Adds \/ Len(t) > Len(s) THEN 0 ELSE Len(s) - Len(t)
           /\ \A k \in DOMAIN Columns!Additions(s, t):
                 Len(t) + k \in DOMAIN s /\ Columns!Additions(s, t)[k] = s[Len(t) + k]
<1> DEFINE new == Columns!Added(s, t)
           p == Len(t)
<1>1. /\ Len(s) \in Nat /\ DOMAIN s = 1..Len(s) /\ Len(l) \in Nat /\ DOMAIN l = 1..Len(l) /\ p \in Nat
      BY LengthIs
<1>2. \A i \in DOMAIN s: s[i].name \in new <=> i > p
      <2>1. \A i \in DOMAIN s: s[i].name \in Columns!Names(t) <=> i <= p BY BeginsNames
      <2>2. \A i \in DOMAIN s: s[i].name \in Columns!Names(s) BY DEF Columns!Names
      <2>3. \A i \in DOMAIN s: i \in Nat BY <1>1
      <2> QED BY <1>1, <2>1, <2>2, <2>3 DEF Columns!Added
<1>3. Columns!Ascending(s) BY <1>1 DEF Columns!Ascending, Columns!Begins
<1>4. CASE ~Adds
      <2>1. Columns!Additions(s, t) = <<>> BY <1>4 DEF Columns!Additions, Adds
      <2> QED BY <1>4, <2>1
<1>5. CASE Adds
      <2>1. Columns!Additions(s, t) \in {Columns!ByName(s, new), Columns!InOrder(s, new)}
            BY <1>5 DEF Columns!Additions, Adds
      <2> HIDE DEF new, p
      <2>2. /\ Len(Columns!ByName(s, new)) = IF p > Len(s) THEN 0 ELSE Len(s) - p
            /\ \A k \in DOMAIN Columns!ByName(s, new): p + k \in DOMAIN s /\ Columns!ByName(s, new)[k] = s[p + k]
            <3>1. p \in Nat BY <1>1
            <3>2. \A i \in DOMAIN s: s[i].name \in new <=> i > p BY <1>2
            <3> QED BY ONLY <1>3, <3>1, <3>2, s \in Shape, ByNameEnd
      <2>3. /\ Len(Columns!InOrder(s, new)) = IF p > Len(s) THEN 0 ELSE Len(s) - p
            /\ \A k \in DOMAIN Columns!InOrder(s, new): p + k \in DOMAIN s /\ Columns!InOrder(s, new)[k] = s[p + k]
            <3>1. p \in Nat BY <1>1
            <3>2. \A i \in DOMAIN s: s[i].name \in new <=> i > p BY <1>2
            <3> QED BY ONLY <3>1, <3>2, s \in Shape, InOrderEnd
      <2>4. /\ Len(Columns!Additions(s, t)) = IF p > Len(s) THEN 0 ELSE Len(s) - p
            /\ \A k \in DOMAIN Columns!Additions(s, t): p + k \in DOMAIN s /\ Columns!Additions(s, t)[k] = s[p + k]
            <3>1. CASE Columns!Additions(s, t) = Columns!ByName(s, new) BY <2>2, <3>1
            <3>2. CASE Columns!Additions(s, t) = Columns!InOrder(s, new) BY <2>3, <3>2
            <3> QED BY <2>1, <3>1, <3>2
      <2> QED BY <1>5, <2>4 DEF p
<1> QED BY <1>4, <1>5

\* Columns of which every one expected is the next of the source.
LEMMA AppendsInLine ==
    ASSUME NEW c \in Shape, NEW s \in Shape, NEW l \in Shape, NEW new \in Shape,
           Columns!Begins(c, l), Columns!Begins(s, l), Columns!Names(c) \cap Columns!Names(new) = {},
           \A k \in DOMAIN new: Len(c) + k \in DOMAIN s /\ new[k].name = s[Len(c) + k].name
    PROVE  Columns!Begins(c \o new, l)
<1> DEFINE m == c \o new
<1>1. /\ Len(c) \in Nat /\ DOMAIN c = 1..Len(c)
      /\ Len(s) \in Nat /\ DOMAIN s = 1..Len(s)
      /\ Len(l) \in Nat /\ DOMAIN l = 1..Len(l)
      /\ Len(new) \in Nat /\ DOMAIN new = 1..Len(new)
      BY LengthIs
<1>2. /\ Len(m) = Len(c) + Len(new) /\ m \in Shape
      /\ \A i \in DOMAIN c: m[i] = c[i]
      /\ \A i \in DOMAIN new: m[Len(c) + i] = new[i]
      BY Appends
<1>3. DOMAIN m = 1..(Len(c) + Len(new)) BY <1>2, LengthIs
<1> HIDE DEF m
<1>4. Len(m) <= Len(l)
      <2>1. CASE new = <<>> BY <1>1, <1>2, <2>1 DEF Columns!Begins
      <2>2. CASE new # <<>>
            <3>1. Len(new) \in DOMAIN new BY <1>1, <2>2, LengthIs
            <3>2. Len(c) + Len(new) \in DOMAIN s BY <3>1
            <3>3. Len(c) + Len(new) <= Len(s) BY <1>1, <3>2
            <3> QED BY <1>1, <1>2, <3>3 DEF Columns!Begins
      <2> QED BY <2>1, <2>2
<1>5. ASSUME NEW i \in DOMAIN m PROVE m[i].name = l[i].name
      <2>1. CASE i <= Len(c)
            <3>1. i \in DOMAIN c BY <1>1, <1>3, <2>1
            <3> QED BY <1>2, <3>1 DEF Columns!Begins
      <2>2. CASE i > Len(c)
            <3>1. i - Len(c) \in DOMAIN new /\ i = Len(c) + (i - Len(c)) BY <1>1, <1>3, <2>2
            <3>2. PICK k \in DOMAIN new: i = Len(c) + k BY <3>1
            <3>3. m[i].name = s[i].name /\ i \in DOMAIN s BY <1>2, <3>2
            <3> QED BY <3>3 DEF Columns!Begins
      <2> QED BY <1>1, <1>3, <2>1, <2>2
<1>6. Columns!Begins(m, l) BY <1>4, <1>5 DEF Columns!Begins
<1> QED BY <1>6 DEF m

\* What a run has seen stays in line with columns that only grow at their end.
LEMMA StaysInLine ==
    ASSUME ColTyped, ColTyped', NEW q \in Run, InLine(q), Rests(q), agreed' = agreed,
           Columns!Begins(layout, layout'), Columns!Begins(columns, columns')
    PROVE  InLine(q)'
<1>1. /\ expects[q] \in Shape /\ found[q] \in Shape /\ columns \in Shape /\ columns' \in Shape
      /\ layout \in Shape /\ layout' \in Shape
      BY LayoutsAssumption DEF ColTyped, Shape
<1>2. Columns!Begins(expects[q], layout') /\ Columns!Begins(found[q], columns')
      BY <1>1, BeginsOn DEF InLine
<1>3. Columns!Begins(expects[q], layout)' /\ Columns!Begins(found[q], columns)'
      BY <1>2 DEF Columns!Begins, Rests
<1>4. Continues(q)'
      <2>1. Len(columns) \in Nat /\ Len(columns') \in Nat /\ Len(columns) <= Len(columns')
            BY <1>1, LengthIs DEF Columns!Begins
      <2>2. Len(expects[q]) \in Nat BY <1>1, LengthIs
      <2>3. Len(todo[q]) \in Nat BY DEF ColTyped
      <2>4. Len(expects[q]) <= Len(columns) + Len(todo[q]) => Len(expects[q]) <= Len(columns') + Len(todo[q])
            BY <2>1, <2>2, <2>3
      <2> QED BY <2>4 DEF InLine, Continues, Rests
<1> QED BY <1>3, <1>4 DEF InLine

\* What a step of run r has to do for columns that only grow at their end.
Extends(r) ==
    /\ Columns!Begins(columns, columns')
    /\ Columns!Begins(columns', layout)
    /\ Columns!Begins(probe', layout)
    /\ Columns!Begins(expects'[r], layout)
    /\ Columns!Begins(found'[r], columns')
    /\ Continues(r)'

LEMMA ExtendsKeeps ==
    ASSUME ColInv, Ordered, NEW r \in Run, Keeps(r), Extends(r), layout' = layout, agreed' = agreed
    PROVE  Ordered'
<1>1. layout \in Shape BY LayoutsAssumption DEF ColInv, ColTyped, Shape
<1>2. ASSUME NEW q \in Run PROVE InLine(q)'
      <2>1. CASE q = r
            BY <2>1 DEF Extends, InLine, Columns!Begins
      <2>2. CASE q # r
            <3>1. Rests(q) /\ ColTyped' BY <2>2 DEF Keeps
            <3>2. Columns!Begins(layout, layout') BY <1>1, BeginsSelf
            <3> QED BY <3>1, <3>2, StaysInLine DEF ColInv, Ordered, Extends
      <2> QED BY <2>1, <2>2
<1>3. Columns!Ascending(layout)' /\ Columns!Begins(columns, layout)' /\ Columns!Begins(probe, layout)'
      BY DEF Ordered, Extends, Columns!Ascending, Columns!Begins
<1> QED BY <1>2, <1>3 DEF Ordered

\* A step that leaves the columns and is not about to alter them.
LEMMA NoStatements ==
    ASSUME ColInv, Ordered, NEW r \in Run, columns' = columns, stage'[r] # "alter",
           Columns!Begins(probe', layout), Columns!Begins(expects'[r], layout), Columns!Begins(found'[r], columns)
    PROVE  Extends(r)
<1>1. columns \in Shape BY DEF ColInv, ColTyped
<1> QED BY <1>1, BeginsSelf DEF Ordered, Extends, Continues

LEMMA LooksExtend ==
    ASSUME ColInv, Ordered, Columns!ByPosition, NEW r \in Run,
           \/ Columns!Begin(r) \/ Columns!NextBatch(r) \/ Columns!Look(r) \/ Columns!Prepare(r) \/ Columns!Probe(r)
           \/ Columns!Inspect(r) \/ Columns!Drop(r) \/ Columns!Log(r) \/ Columns!Record(r) \/ Columns!WriteByPosition(r)
           \/ Columns!WriteByName(r) \/ Columns!Describe(r) \/ Columns!FailSchema(r)
    PROVE  Extends(r) /\ layout' = layout /\ agreed' = agreed
<1> DEFINE Kept == layout' = layout /\ agreed' = agreed /\ columns' = columns
<1>1. /\ layout \in Shape /\ columns \in Shape /\ probe \in Shape
      /\ Columns!Begins(columns, layout) /\ Columns!Begins(probe, layout)
      /\ Columns!Begins(expects[r], layout) /\ Columns!Begins(found[r], columns)
      BY LayoutsAssumption DEF ColInv, ColTyped, Ordered, InLine, Shape
<1>2. /\ Columns!Begins(Columns!Native(layout), layout)
      /\ Columns!Begins(columns, columns) /\ Columns!Begins(<<>>, columns) /\ Columns!Begins(<<>>, layout)
      BY <1>1, BeginsNative, BeginsSelf
<1>3. ASSUME Kept, stage'[r] # "alter", probe' = probe, expects' = expects, found' = found
      PROVE  Extends(r)
      BY <1>1, <1>3, NoStatements
<1>4. CASE Columns!Begin(r)
      <2>1. stage' = [stage EXCEPT ![r] = Columns!Course[1]] /\ Kept /\ probe' = probe /\ expects' = expects /\ found' = found
            BY <1>4 DEF Columns!Begin, Columns!To, Columns!world, Columns!looks
      <2>2. stage'[r] = Columns!Course[1] BY <2>1 DEF ColInv, ColTyped
      <2>3. stage'[r] # "alter" BY <2>2, CourseBegins DEF ColInv, ColTyped
      <2> QED BY <1>3, <2>1, <2>3
<1>5. CASE Columns!NextBatch(r)
      <2>1. stage' = [stage EXCEPT ![r] = "prepare"] /\ Kept /\ probe' = probe /\ expects' = expects /\ found' = found
            BY <1>5 DEF Columns!NextBatch, Columns!To, Columns!world, Columns!looks
      <2>2. stage'[r] # "alter" BY <2>1 DEF ColInv, ColTyped
      <2> QED BY <1>3, <2>1, <2>2
<1>6. CASE Columns!Look(r)
      <2>1. Columns!At(r, "look") /\ Kept /\ probe' = probe /\ expects' = expects
            BY <1>6 DEF Columns!Look, Columns!world
      <2>2. stage'[r] # "alter" BY <2>1, Moves DEF Label, Follows
      <2>3. found'[r] \in {columns, <<>>} BY <1>6 DEF Columns!Look, ColInv, ColTyped
      <2> QED BY <1>1, <1>2, <2>1, <2>2, <2>3, NoStatements
<1>7. CASE Columns!Prepare(r)
      <2>1. Columns!At(r, "prepare") /\ Kept /\ probe' = probe /\ found' = found
            BY <1>7 DEF Columns!Prepare, Columns!world
      <2>2. stage'[r] # "alter" BY <2>1, Moves DEF Label, Follows
      <2>3. expects'[r] = Columns!Native(layout) BY <1>7 DEF Columns!Prepare, ColInv, ColTyped
      <2> QED BY <1>1, <1>2, <2>1, <2>2, <2>3, NoStatements
<1>8. CASE Columns!Probe(r)
      <2>1. /\ Columns!At(r, "probe") /\ Kept /\ probe' = Columns!Native(layout)
            /\ expects' = expects /\ found' = found
            BY <1>8 DEF Columns!Probe, Columns!world, Columns!looks
      <2>2. stage'[r] # "alter" BY <2>1, Moves DEF Label, Follows
      <2> QED BY <1>1, <1>2, <2>1, <2>2, NoStatements
<1>9. CASE Columns!Inspect(r)
      <2>1. Columns!At(r, "inspect") /\ Kept /\ probe' = probe /\ found' = found
            BY <1>9 DEF Columns!Inspect, Columns!world
      <2>2. stage'[r] # "alter" BY <2>1, Moves DEF Label, Follows
      <2>3. expects'[r] = probe BY <1>9 DEF Columns!Inspect, ColInv, ColTyped
      <2> QED BY <1>1, <2>1, <2>2, <2>3, NoStatements
<1>10. CASE Columns!Drop(r)
      <2>1. /\ stage[r] = "drop" /\ Kept /\ probe' = <<>> /\ expects' = expects /\ found' = found
            /\ stage' = [stage EXCEPT ![r] = IF expects[r] = <<>> THEN "failed" ELSE Columns!After("drop")]
            BY <1>10 DEF Columns!Drop, Columns!To, Columns!world, Columns!looks
      <2>2. Follows("drop", Columns!After("drop"))
            BY <2>1, AfterFollows DEF Label, ColInv, ColTyped, RunInv
      <2>3. stage'[r] # "alter" BY <2>1, <2>2 DEF Follows, ColInv, ColTyped
      <2> QED BY <1>1, <1>2, <2>1, <2>3, NoStatements
<1>11. CASE Columns!Log(r)
      <2>1. stage[r] = "log" /\ Kept /\ probe' = probe /\ expects' = expects /\ found' = found
            BY <1>11 DEF Columns!Log, Columns!world, Columns!looks
      <2>2. stage' = stage \/ stage' = [stage EXCEPT ![r] = Columns!After("log")]
            BY <1>11 DEF Columns!Log, Columns!To
      <2>3. Follows("log", Columns!After("log"))
            BY <2>1, AfterFollows DEF Label, ColInv, ColTyped, RunInv
      <2>4. stage'[r] # "alter" BY <2>1, <2>2, <2>3 DEF Follows, ColInv, ColTyped
      <2> QED BY <1>3, <2>1, <2>4
<1>12. CASE Columns!WriteByPosition(r) \/ Columns!WriteByName(r)
      <2>1. Columns!At(r, "write") /\ Kept /\ probe' = probe /\ expects' = expects /\ found' = found
            BY <1>12 DEF Columns!WriteByPosition, Columns!WriteByName, Columns!world, Columns!looks
      <2>2. stage'[r] # "alter" BY <2>1, Moves DEF Label, Follows
      <2> QED BY <1>3, <2>1, <2>2
<1>13. CASE Columns!Describe(r)
      <2>1. Columns!At(r, "describe") /\ Kept /\ probe' = probe /\ expects' = expects /\ found' = found
            BY <1>13 DEF Columns!Describe, Columns!world, Columns!looks
      <2>2. stage'[r] # "alter" BY <2>1, Moves DEF Label, Follows
      <2> QED BY <1>3, <2>1, <2>2
<1>14. CASE Columns!FailSchema(r)
      <2>1. stage' = [stage EXCEPT ![r] = "failed"] /\ Kept /\ probe' = probe /\ expects' = expects /\ found' = found
            BY <1>14 DEF Columns!FailSchema, Columns!To, Columns!world, Columns!looks
      <2>2. stage'[r] # "alter" BY <2>1 DEF ColInv, ColTyped
      <2> QED BY <1>3, <2>1, <2>2
<1>15. CASE Columns!Record(r)
      <2>1. Columns!At(r, "record") /\ Kept /\ probe' = probe /\ expects' = expects /\ found' = found
            BY <1>15 DEF Columns!Record, Columns!world, Columns!looks
      <2>2. stage'[r] # "alter" BY <2>1, Moves DEF Label, Follows
      <2> QED BY <1>3, <2>1, <2>2
<1> QED BY <1>4, <1>5, <1>6, <1>7, <1>8, <1>9, <1>10, <1>11, <1>12, <1>13, <1>14, <1>15

\* A new table has the first columns of the source.
LEMMA SetUpExtends ==
    ASSUME ColInv, Ordered, Columns!ByPosition, NEW r \in Run, Columns!SetUp(r)
    PROVE  Extends(r) /\ layout' = layout /\ agreed' = agreed
<1>1. /\ layout \in Shape /\ columns \in Shape /\ expects[r] \in Shape /\ found[r] \in Shape
      /\ Columns!Begins(columns, layout) /\ Columns!Begins(probe, layout)
      /\ Columns!Begins(expects[r], layout) /\ Columns!Begins(found[r], columns)
      BY LayoutsAssumption DEF ColInv, ColTyped, Ordered, InLine, Shape
<1>2. /\ Columns!At(r, "setup") /\ layout' = layout /\ agreed' = agreed
      /\ probe' = probe /\ expects' = expects /\ found' = found
      /\ columns' = columns \/ (columns = <<>> /\ columns' \in {Columns!Native(layout), expects[r]})
      BY DEF Columns!SetUp, Columns!world, Columns!looks
<1>3. stage'[r] # "alter" BY <1>2, Moves DEF Label, Follows
<1>4. CASE columns' = columns BY <1>1, <1>2, <1>3, <1>4, NoStatements
<1>5. CASE columns = <<>> /\ columns' \in {Columns!Native(layout), expects[r]}
      <2>1. columns' \in Shape /\ Columns!Begins(columns', layout)
            BY <1>1, <1>5, NativeIs, BeginsNative, BeginsSelf
      <2>2. Columns!Begins(columns, columns') BY <1>5, <2>1, BeginsSelf
      <2>3. Columns!Begins(found[r], columns') BY <1>1, <2>1, <2>2, BeginsOn
      <2> QED BY <1>1, <1>2, <1>3, <2>1, <2>2, <2>3 DEF Extends, Continues
<1> QED BY <1>2, <1>4, <1>5

\* The statements that a comparison plans.
LEMMA PlanContinues ==
    ASSUME ColInv, Ordered, NEW r \in Run, stage'[r] = "alter", agreed' = agreed,
           expects' = expects, found' = found, columns' = columns,
           todo'[r] \in {<<>>, Columns!Plan(expects[r], found[r])}
    PROVE  Continues(r)'
<1> DEFINE s == expects[r]
           t == found[r]
           a == Columns!Additions(s, t)
           P == Columns!Plan(s, t)
<1>1. /\ s \in Shape /\ t \in Shape /\ layout \in Shape /\ columns \in Shape
      /\ Columns!Begins(columns, layout) /\ Columns!Begins(s, layout) /\ Columns!Begins(t, columns)
      /\ Columns!Ascending(layout)
      BY LayoutsAssumption DEF ColInv, ColTyped, Ordered, InLine, Shape
<1>2. Columns!Begins(t, layout) BY <1>1, BeginsOn
<1>3. /\ Len(s) \in Nat /\ Len(t) \in Nat /\ Len(columns) \in Nat /\ Len(t) <= Len(columns)
      BY <1>1, LengthIs DEF Columns!Begins
<1>4. /\ Len(a) = 0 \/ (Len(t) <= Len(s) /\ Len(a) = Len(s) - Len(t))
      /\ \A k \in DOMAIN a: Len(t) + k \in DOMAIN s /\ a[k] = s[Len(t) + k]
      <2>1. /\ Len(a) = IF ~Adds \/ Len(t) > Len(s) THEN 0 ELSE Len(s) - Len(t)
            /\ \A k \in DOMAIN a: Len(t) + k \in DOMAIN s /\ a[k] = s[Len(t) + k]
            BY <1>1, <1>2, AdditionsContinue
      <2>2. Len(a) = 0 \/ (~(Len(t) > Len(s)) /\ Len(a) = Len(s) - Len(t)) BY <2>1
      <2> HIDE DEF a
      <2>3. ~(Len(t) > Len(s)) => Len(t) <= Len(s) BY <1>3
      <2> QED BY <2>1, <2>2, <2>3
<1>5. a \in Shape /\ DOMAIN a = 1..Len(a) BY <1>1, AdditionsAre, LengthIs
<1>6. CASE todo'[r] = <<>> BY <1>3, <1>6 DEF Continues
<1>7. CASE todo'[r] = P /\ agreed.engine = "databricks"
      <2>1. \A i \in DOMAIN P: P[i].do = "add" => i = 1 /\ P[i].cols = a /\ a # <<>>
            <3>1. \A i \in DOMAIN P: \/ i = 1 /\ P[i].do = "add" /\ P[i].cols = a /\ a # <<>>
                                     \/ P[i].do = "type"
                  BY <1>1, <1>7, PlanTogether
            <3> QED BY <3>1
      <2> HIDE DEF P, a
      <2> QED BY <1>4, <1>7, <2>1 DEF Continues
<1>8. CASE todo'[r] = P /\ agreed.engine # "databricks"
      <2>1. /\ P \in Seq(Statement) /\ Len(P) = Len(a)
            /\ \A i \in DOMAIN P: i \in DOMAIN a /\ P[i].do = "add" /\ P[i].cols = <<a[i]>>
            BY <1>1, <1>8, PlanOneByOne
      <2> HIDE DEF P, a, s, t
      <2>2. (Len(P) <= Len(s) /\ Len(s) <= Len(t) + Len(P)) \/ Len(P) = 0 BY <1>3, <1>4, <2>1
      <2>3. P # <<>> => Len(P) # 0 BY <2>1
      <2>4. ASSUME NEW i \in DOMAIN P
            PROVE  /\ P[i].do = "add" /\ Len(s) - Len(P) + i \in DOMAIN s
                   /\ P[i].cols = <<s[Len(s) - Len(P) + i]>>
            <3>1. i \in DOMAIN a /\ P[i].cols = <<a[i]>> /\ P[i].do = "add" BY <2>1
            <3>2. i \in 1..Len(a) BY <1>5, <3>1
            <3>3. Len(a) # 0 /\ Len(a) \in Nat BY <1>3, <1>4, <3>2
            <3>4. Len(s) - Len(P) = Len(t)
                  <4>1. Len(P) = Len(s) - Len(t) BY <1>4, <2>1, <3>3
                  <4> QED BY <1>3, <4>1
            <3> QED BY <1>4, <3>1, <3>4
      <2>5. Len(P) <= Len(s) /\ (P # <<>> => Len(s) <= Len(columns) + Len(P)) BY <1>3, <2>1, <2>2, <2>3
      <2> QED BY <1>8, <2>4, <2>5 DEF Continues, s, t
<1> QED BY <1>6, <1>7, <1>8

LEMMA CompareExtends ==
    ASSUME ColInv, Ordered, Columns!ByPosition, NEW r \in Run, Columns!Compare(r)
    PROVE  Extends(r) /\ layout' = layout /\ agreed' = agreed
<1>1. /\ layout' = layout /\ agreed' = agreed /\ columns' = columns /\ probe' = probe
      /\ expects' = expects /\ found' = found
      BY DEF Columns!Compare, Columns!world, Columns!looks
<1>2. \/ stage' = [stage EXCEPT ![r] = "failed"]
      \/ todo' = [todo EXCEPT ![r] = IF Columns!Compares(r) THEN Columns!Plan(expects[r], found[r]) ELSE <<>>]
      BY DEF Columns!Compare, Columns!To
<1>3. stage'[r] = "alter" => todo'[r] \in {<<>>, Columns!Plan(expects[r], found[r])}
      BY <1>2 DEF ColInv, ColTyped
<1>4. stage'[r] = "alter" => Continues(r)' BY <1>1, <1>3, PlanContinues
<1>5. Continues(r)' BY <1>4 DEF Continues
<1>6. columns \in Shape BY DEF ColInv, ColTyped
<1>7. Columns!Begins(columns, columns) BY <1>6, BeginsSelf
<1> QED BY <1>1, <1>5, <1>7 DEF Extends, Ordered, InLine

\* The statement that Databricks adds columns with adds all that are missing.
LEMMA AddsTogether ==
    ASSUME ColInv, Ordered, NEW r \in Run, stage[r] = "alter", agreed.engine = "databricks", todo[r] # <<>>,
           Columns!Execute(r, todo[r][1]), todo[r][1].do = "add"
    PROVE  columns' \in Shape /\ Columns!Begins(columns, columns') /\ Columns!Begins(columns', layout)
<1> DEFINE x == todo[r][1]
           s == expects[r]
           t == found[r]
           new == x.cols
<1>0. todo[r] \in Seq(Statement) BY DEF ColInv, ColTyped
<1>1. x \in Statement /\ 1 \in DOMAIN todo[r] BY <1>0, HeadAndTail
<1>2. /\ new # <<>>
      /\ \A k \in DOMAIN new: Len(t) + k \in DOMAIN s /\ new[k] = s[Len(t) + k]
      BY <1>1 DEF Ordered, InLine, Continues
<1>3. /\ s \in Shape /\ t \in Shape /\ layout \in Shape /\ columns \in Shape
      /\ Columns!Begins(columns, layout) /\ Columns!Begins(s, layout) /\ Columns!Begins(t, columns)
      BY LayoutsAssumption DEF ColInv, ColTyped, Ordered, InLine, Shape
<1>4. new \in Shape BY <1>1 DEF Statement
<1>5. /\ Columns!Names(new) = Columns!Names(new) \ Columns!Names(columns)
      /\ columns' = columns \o new /\ columns' \in Shape /\ Columns!Begins(columns, columns')
      <2> DEFINE y == Columns!InOrder(x.cols, Columns!Names(x.cols) \ Columns!Names(columns))
      <2>1. /\ Columns!Names(y) = Columns!Names(x.cols) \ Columns!Names(columns)
            /\ agreed.engine = "snowflake" \/ y = x.cols
            /\ columns' = columns \o y /\ columns' \in Shape /\ Columns!Begins(columns, columns')
            BY <1>1, AddsColumns
      <2> HIDE DEF y
      <2> QED BY <2>1
<1> HIDE DEF x, new
<1>6. /\ Len(s) \in Nat /\ Len(t) \in Nat /\ Len(columns) \in Nat /\ Len(t) <= Len(columns)
      /\ DOMAIN s = 1..Len(s) /\ DOMAIN new = 1..Len(new) /\ Len(new) \in Nat /\ Len(new) # 0
      BY <1>2, <1>3, <1>4, LengthIs DEF Columns!Begins
<1>7. Len(columns) = Len(t)
      <2>1. 1 \in DOMAIN new BY <1>6
      <2>2. Len(t) + 1 \in DOMAIN s /\ new[1] = s[Len(t) + 1] BY <1>2, <2>1
      <2>3. new[1].name \in Columns!Names(new) BY <2>1 DEF Columns!Names
      <2>4. s[Len(t) + 1].name \notin Columns!Names(columns) BY <1>5, <2>2, <2>3
      <2>5. \A i \in DOMAIN s: s[i].name \in Columns!Names(columns) <=> i <= Len(columns) BY <1>3, BeginsNames
      <2> QED BY <1>6, <2>2, <2>4, <2>5
<1>8. Columns!Names(columns) \cap Columns!Names(new) = {} BY <1>5
<1>9. \A k \in DOMAIN new: Len(columns) + k \in DOMAIN s /\ new[k].name = s[Len(columns) + k].name
      BY <1>2, <1>7
<1>10. PICK m: m = columns \o new OBVIOUS
<1>11. Columns!Begins(m, layout) BY <1>3, <1>4, <1>8, <1>9, <1>10, AppendsInLine
<1>12. m = columns' BY <1>5, <1>10
<1> QED BY <1>5, <1>11, <1>12

\* One that Snowflake and BigQuery add columns with adds the next one.
LEMMA AddsOneByOne ==
    ASSUME ColInv, Ordered, NEW r \in Run, stage[r] = "alter", agreed.engine # "databricks", todo[r] # <<>>,
           Columns!Execute(r, todo[r][1])
    PROVE  /\ columns' \in Shape /\ Columns!Begins(columns, columns') /\ Columns!Begins(columns', layout)
           /\ Len(expects[r]) < Len(columns') + Len(todo[r])
<1> DEFINE x == todo[r][1]
           s == expects[r]
           n == Len(todo[r])
           i == Len(s) - n + 1
           new == Columns!InOrder(x.cols, Columns!Names(x.cols) \ Columns!Names(columns))
<1>0. todo[r] \in Seq(Statement) BY DEF ColInv, ColTyped
<1>1. x \in Statement /\ 1 \in DOMAIN todo[r] /\ n \in Nat /\ n # 0 BY <1>0, HeadAndTail
<1>2. /\ x.do = "add" /\ i \in DOMAIN s /\ x.cols = <<s[i]>>
      /\ n <= Len(s) /\ Len(s) <= Len(columns) + n
      BY <1>1 DEF Ordered, InLine, Continues
<1>3. /\ s \in Shape /\ layout \in Shape /\ columns \in Shape
      /\ Columns!Begins(columns, layout) /\ Columns!Begins(s, layout)
      BY LayoutsAssumption DEF ColInv, ColTyped, Ordered, InLine, Shape
<1>4. /\ new \in Shape /\ Columns!Names(new) = Columns!Names(x.cols) \ Columns!Names(columns)
      /\ columns' = columns \o new /\ columns' \in Shape /\ Columns!Begins(columns, columns')
      BY <1>1, <1>2, AddsColumns
<1>5. Columns!Names(x.cols) = {s[i].name} BY <1>2, <1>3, SingleIs
<1>6. \A k \in DOMAIN new: new[k] = s[i]
      <2>1. x.cols \in Shape BY <1>1 DEF Statement
      <2>2. \A k \in DOMAIN new: \E j \in DOMAIN x.cols: new[k] = x.cols[j] BY <2>1, InOrderIs
      <2>3. DOMAIN <<s[i]>> = {1} /\ <<s[i]>>[1] = s[i] BY <1>2, <1>3, SingleIs
      <2> HIDE DEF new
      <2> QED BY <1>2, <2>2, <2>3
<1> HIDE DEF new, x, n, s
<1>7. /\ Len(s) \in Nat /\ Len(columns) \in Nat /\ DOMAIN s = 1..Len(s) /\ i \in Nat /\ i <= Len(columns) + 1
      /\ Len(new) \in Nat /\ DOMAIN new = 1..Len(new)
      <2>1. Len(s) \in Nat /\ Len(columns) \in Nat /\ DOMAIN s = 1..Len(s) BY <1>3, LengthIs
      <2>2. Len(new) \in Nat /\ DOMAIN new = 1..Len(new) BY <1>4, LengthIs
      <2>3. n \in Nat /\ n # 0 /\ n <= Len(s) /\ Len(s) <= Len(columns) + n BY <1>1, <1>2
      <2>4. i \in Nat /\ i <= Len(columns) + 1 BY <2>1, <2>3
      <2> QED BY <2>1, <2>2, <2>4
<1>8. s[i].name \in Columns!Names(columns) <=> i <= Len(columns) BY <1>2, <1>3, BeginsNames
<1> HIDE DEF i
<1>9. Columns!Names(columns) \cap Columns!Names(new) = {} BY <1>4
<1>10. PICK m: m = columns \o new OBVIOUS
<1>11. m = columns' BY <1>4, <1>10
<1>12. Len(m) = Len(columns) + Len(new) BY <1>3, <1>4, <1>9, <1>10, Appends
<1>13. Len(new) <= 1
       <2>1. ASSUME Len(new) > 1 PROVE FALSE
             <3>1. 1 \in DOMAIN new /\ 2 \in DOMAIN new BY <1>7, <2>1
             <3>2. new[1].name = new[2].name BY <1>6, <3>1
             <3> QED BY <1>4, <3>1, <3>2 DEF Shape, Columns!Shape
       <2> QED BY <1>7, <2>1
<1>14. i > Len(columns) => Len(new) = 1
       <2>0. i > Len(columns) => ~(i <= Len(columns)) BY <1>7
       <2>1. i > Len(columns) => s[i].name \in Columns!Names(new) BY <1>4, <1>5, <1>8, <2>0
       <2>2. new = <<>> => Columns!Names(new) = {} BY DEF Columns!Names
       <2>3. Len(new) = 0 => new = <<>> BY <1>4, LengthIs
       <2> QED BY <1>7, <1>13, <2>1, <2>2, <2>3
<1>15. i <= Len(columns) => Len(new) = 0
       <2>1. i <= Len(columns) => Columns!Names(new) = {} BY <1>4, <1>5, <1>8
       <2> QED BY <1>4, <2>1, LengthIs
<1>16. \A k \in DOMAIN new: Len(columns) + k \in DOMAIN s /\ new[k].name = s[Len(columns) + k].name
       <2>1. TAKE k \in DOMAIN new
       <2>2. k = 1 /\ i = Len(columns) + 1 BY <1>7, <1>13, <1>15, <2>1
       <2> QED BY <1>2, <1>6, <2>2
<1>17. Columns!Begins(m, layout) BY <1>3, <1>4, <1>9, <1>10, <1>16, AppendsInLine
<1>18. Len(s) < Len(m) + n
       <2>1. n \in Nat /\ n # 0 /\ n <= Len(s) /\ i = Len(s) - n + 1 BY <1>1, <1>2 DEF i
       <2>2. i <= Len(m) BY <1>7, <1>12, <1>14
       <2>3. Len(m) \in Nat BY <1>7, <1>12
       <2> QED BY <1>7, <2>1, <2>2, <2>3
<1> QED BY <1>4, <1>11, <1>17, <1>18 DEF n, s

LEMMA AlterExtends ==
    ASSUME ColInv, Ordered, Columns!ByPosition, NEW r \in Run, Columns!Alter(r)
    PROVE  Extends(r) /\ layout' = layout /\ agreed' = agreed
<1>1. /\ stage[r] = "alter" /\ layout' = layout /\ agreed' = agreed /\ probe' = probe
      /\ expects' = expects /\ found' = found
      BY DEF Columns!Alter, Columns!world, Columns!looks
<1>2. /\ columns \in Shape /\ layout \in Shape /\ found[r] \in Shape /\ expects[r] \in Shape
      /\ todo[r] \in Seq(Statement)
      /\ Columns!Begins(columns, layout) /\ Columns!Begins(probe, layout)
      /\ Columns!Begins(expects[r], layout) /\ Columns!Begins(found[r], columns)
      BY LayoutsAssumption DEF ColInv, ColTyped, Ordered, InLine, Shape
<1>3. CASE todo[r] = <<>>
      <2>1. stage' = [stage EXCEPT ![r] = Columns!After("alter")] /\ columns' = columns
            BY <1>1, <1>3 DEF Columns!Alter, Columns!To
      <2>2. Follows("alter", Columns!After("alter"))
            BY <1>1, AfterFollows DEF Label, ColInv, ColTyped, RunInv
      <2>3. stage'[r] # "alter" BY <2>1, <2>2 DEF Follows, ColInv, ColTyped
      <2> QED BY <1>1, <1>2, <2>1, <2>3, NoStatements
<1>4. CASE todo[r] # <<>>
      <2> DEFINE x == todo[r][1]
                 rest == Tail(todo[r])
      <2>1. /\ x = Head(todo[r]) /\ x \in Statement /\ 1 \in DOMAIN todo[r] /\ rest \in Seq(Statement)
            /\ Len(todo[r]) \in Nat /\ Len(todo[r]) # 0 /\ Len(rest) = Len(todo[r]) - 1
            /\ \A i \in DOMAIN rest: rest[i] = todo[r][i + 1] /\ i + 1 \in DOMAIN todo[r]
            BY <1>2, <1>4, HeadAndTail
      <2>2. Columns!Execute(r, x) /\ todo' = [todo EXCEPT ![r] = rest] /\ stage' = stage
            BY <1>1, <1>4, <2>1 DEF Columns!Alter
      <2>3. todo'[r] = rest BY <2>2 DEF ColInv, ColTyped
      <2>4. /\ columns' \in Shape /\ Columns!Begins(columns, columns') /\ Columns!Begins(columns', layout)
            /\ agreed.engine # "databricks" => Len(expects[r]) < Len(columns') + Len(todo[r])
            <3>1. CASE agreed.engine # "databricks" BY <1>1, <1>4, <2>2, <3>1, AddsOneByOne
            <3>2. CASE agreed.engine = "databricks" /\ x.do = "add" BY <1>1, <1>4, <2>2, <3>2, AddsTogether
            <3>3. CASE agreed.engine = "databricks" /\ x.do # "add"
                  <4>1. Proposed(r, x) BY <1>1, <2>1 DEF ColInv, RunInv, Planned
                  <4>2. PICK j \in DOMAIN expects[r]: x.cols = <<expects[r][j]>> BY <3>3, <4>1 DEF Proposed
                  <4>3. expects[r][j] \in Columns!ColumnOf BY <1>2, ColumnIs DEF Columns!ColumnOf
                  <4>4. /\ columns' \in Shape /\ Columns!Begins(columns, columns') /\ Len(columns') = Len(columns)
                        /\ \A i \in DOMAIN columns: columns'[i].name = columns[i].name
                        BY <2>1, <2>2, <3>3, <4>2, <4>3, WidensColumn
                  <4>5. DOMAIN columns' = DOMAIN columns BY <1>2, <4>4, LengthIs
                  <4>6. Columns!Begins(columns', layout) BY <1>2, <4>4, <4>5 DEF Columns!Begins
                  <4> QED BY <3>3, <4>4, <4>6
            <3> QED BY <3>1, <3>2, <3>3
      <2>5. Columns!Begins(found[r], columns') BY <1>2, <2>4, BeginsOn
      <2>6. Continues(r) BY DEF Ordered, InLine
      <2> HIDE DEF rest, x
      <2>7. ASSUME agreed.engine = "databricks", NEW i \in DOMAIN rest PROVE rest[i].do # "add"
            <3>1. i \in Nat /\ i # 0 BY <2>1
            <3>2. rest[i] = todo[r][i + 1] /\ i + 1 \in DOMAIN todo[r] BY <2>1
            <3>3. todo[r][i + 1].do = "add" => i + 1 = 1 BY <1>1, <2>6, <2>7, <3>2 DEF Continues
            <3> QED BY <3>1, <3>2, <3>3
      <2>8. ASSUME agreed.engine # "databricks"
            PROVE  /\ Len(rest) <= Len(expects[r])
                   /\ Len(expects[r]) <= Len(columns') + Len(rest)
                   /\ \A i \in DOMAIN rest:
                         /\ rest[i].do = "add"
                         /\ Len(expects[r]) - Len(rest) + i \in DOMAIN expects[r]
                         /\ rest[i].cols = <<expects[r][Len(expects[r]) - Len(rest) + i]>>
            <3> DEFINE n == Len(todo[r])
                       e == Len(expects[r])
            <3>1. /\ n <= e
                  /\ \A i \in DOMAIN todo[r]: /\ todo[r][i].do = "add" /\ e - n + i \in DOMAIN expects[r]
                                              /\ todo[r][i].cols = <<expects[r][e - n + i]>>
                  BY <1>1, <2>6, <2>8 DEF Continues
            <3>2. n \in Nat /\ n # 0 /\ Len(rest) = n - 1 BY <2>1
            <3>3. e \in Nat /\ Len(columns') \in Nat /\ e < Len(columns') + n BY <1>2, <2>4, <2>8, LengthIs
            <3> HIDE DEF n, e
            <3>4. Len(rest) <= e /\ e <= Len(columns') + Len(rest) BY <3>1, <3>2, <3>3
            <3>5. ASSUME NEW i \in DOMAIN rest
                  PROVE  /\ rest[i].do = "add" /\ e - Len(rest) + i \in DOMAIN expects[r]
                         /\ rest[i].cols = <<expects[r][e - Len(rest) + i]>>
                  <4>1. i \in Nat BY <2>1
                  <4>2. rest[i] = todo[r][i + 1] /\ i + 1 \in DOMAIN todo[r] BY <2>1
                  <4>3. e - n + (i + 1) = e - Len(rest) + i BY <3>2, <3>3, <4>1
                  <4>4. /\ todo[r][i + 1].do = "add" /\ e - n + (i + 1) \in DOMAIN expects[r]
                        /\ todo[r][i + 1].cols = <<expects[r][e - n + (i + 1)]>>
                        BY <3>1, <4>2
                  <4> QED BY <4>2, <4>3, <4>4
            <3> QED BY <3>4, <3>5 DEF e
      <2>9. Continues(r)' BY <1>1, <2>3, <2>7, <2>8 DEF Continues
      <2> QED BY <1>1, <1>2, <2>4, <2>5, <2>9 DEF Extends
<1> QED BY <1>3, <1>4

\* A write by position that the engine accepts finds columns of the same names.
LEMMA NothingDisplaced ==
    ASSUME ColInv, Ordered, NEW r \in Run, Columns!WriteByPosition(r)
    PROVE  displaced' = displaced
<1> DEFINE s == Columns!Reads(r)
<1>1. /\ layout \in Shape /\ columns \in Shape /\ expects[r] \in Shape
      /\ Columns!Begins(columns, layout) /\ Columns!Begins(expects[r], layout)
      BY LayoutsAssumption DEF ColInv, ColTyped, Ordered, InLine, Shape
<1>2. s \in Shape /\ Columns!Begins(s, layout)
      BY <1>1, NativeIs, BeginsNative, BeginsSelf DEF Columns!Reads
<1>3. /\ Len(s) = Len(columns)
      /\ displaced' = displaced \cup {<<columns[i].name, s[i].name>>: i \in {j \in DOMAIN s: s[j].name # columns[j].name}}
      BY DEF Columns!WriteByPosition
<1> HIDE DEF s
<1>4. DOMAIN s = DOMAIN columns BY <1>1, <1>2, <1>3, LengthIs
<1>5. \A j \in DOMAIN s: s[j].name = columns[j].name BY <1>1, <1>2, <1>4 DEF Columns!Begins
<1> QED BY <1>3, <1>5

LEMMA OrderStep ==
    ASSUME ColInv, OrderInv, Columns!SchemaNext
    PROVE  OrderInv'
<1>1. ASSUME Columns!Redefine PROVE OrderInv'
      <2>1. /\ agreed' = agreed /\ layout' \in Layouts /\ orderly' = (orderly /\ Columns!Begins(layout, layout') /\ Columns!Ascending(layout'))
            /\ columns' = columns /\ probe' = probe /\ stage' = stage /\ expects' = expects /\ found' = found
            /\ blind' = blind /\ todo' = todo /\ claimed' = claimed /\ altered' = altered /\ displaced' = displaced
            BY <1>1 DEF Columns!Redefine, Columns!looks
      <2>2. orderly \in BOOLEAN BY DEF ColInv, ColTyped
      <2>3. (Columns!ByPosition)' <=> Columns!ByPosition BY <2>1 DEF Columns!ByPosition
      <2>4. displaced' # {} => (Columns!ByPosition)' /\ ~orderly' BY <2>1, <2>3 DEF OrderInv
      <2>5. ASSUME Columns!ByPosition, orderly' PROVE Ordered'
            <3>1. orderly /\ Columns!Begins(layout, layout') /\ Columns!Ascending(layout') BY <2>1, <2>5
            <3>2. Ordered BY <2>5, <3>1 DEF OrderInv
            <3>3. /\ layout \in Shape /\ layout' \in Shape /\ columns \in Shape /\ probe \in Shape
                  BY <2>1, LayoutsAssumption DEF ColInv, ColTyped, Shape
            <3>4. Columns!Begins(columns, layout') /\ Columns!Begins(probe, layout') /\ Columns!Begins(columns, columns)
                  BY <3>1, <3>2, <3>3, BeginsOn, BeginsSelf DEF Ordered
            <3>5. ColTyped' BY <1>1, ColStep DEF Columns!SchemaNext, ColInv
            <3>6. ASSUME NEW q \in Run PROVE InLine(q)'
                  <4>1. Rests(q) BY <2>1 DEF Rests
                  <4>2. ColTyped /\ InLine(q) BY <3>2 DEF ColInv, Ordered
                  <4> QED BY <2>1, <3>1, <3>4, <3>5, <4>1, <4>2, StaysInLine
            <3>7. Columns!Ascending(layout)' /\ Columns!Begins(columns, layout)' /\ Columns!Begins(probe, layout)'
                  BY <2>1, <3>1, <3>4 DEF Columns!Ascending, Columns!Begins
            <3> QED BY <3>6, <3>7 DEF Ordered
      <2> QED BY <2>3, <2>4, <2>5 DEF OrderInv
<1>2. ASSUME NEW r \in Run,
             \/ Columns!Begin(r) \/ Columns!NextBatch(r) \/ Columns!Look(r) \/ Columns!Prepare(r) \/ Columns!Probe(r)
             \/ Columns!Inspect(r) \/ Columns!Drop(r) \/ Columns!SetUp(r) \/ Columns!Compare(r) \/ Columns!Alter(r)
             \/ Columns!Log(r) \/ Columns!Record(r) \/ Columns!WriteNew(r) \/ Columns!WriteByPosition(r) \/ Columns!WriteByName(r)
             \/ Columns!Describe(r) \/ Columns!FailSchema(r)
      PROVE  OrderInv'
      <2>1. agreed' = agreed /\ orderly' = orderly
            BY <1>2 DEF Columns!Begin, Columns!NextBatch, Columns!Look, Columns!Prepare, Columns!Probe, Columns!Inspect,
               Columns!Drop, Columns!SetUp, Columns!Compare, Columns!Alter, Columns!Log, Columns!Record, Columns!WriteNew,
               Columns!WriteByPosition, Columns!WriteByName, Columns!Describe, Columns!FailSchema, Columns!world
      <2>2. displaced' = displaced \/ Columns!WriteByPosition(r)
            BY <1>2 DEF Columns!Begin, Columns!NextBatch, Columns!Look, Columns!Prepare, Columns!Probe, Columns!Inspect,
               Columns!Drop, Columns!SetUp, Columns!Compare, Columns!Alter, Columns!Log, Columns!Record, Columns!WriteNew,
               Columns!WriteByPosition, Columns!WriteByName, Columns!Describe, Columns!FailSchema
      <2>3. (Columns!ByPosition)' <=> Columns!ByPosition BY <2>1 DEF Columns!ByPosition
      <2>4. Columns!WriteByPosition(r) => Columns!ByPosition BY DEF Columns!WriteByPosition
      <2>5. ASSUME Columns!ByPosition, orderly
            PROVE  Ordered' /\ displaced' = displaced
            <3>1. Ordered BY <2>5 DEF OrderInv
            <3>2. ~Columns!WriteNew(r)
                  BY <2>5 DEF Columns!WriteNew, Columns!Creates, Columns!Replaces, Columns!ByPosition
            <3>3. Extends(r) /\ layout' = layout
                  BY <1>2, <2>5, <3>1, <3>2, LooksExtend, SetUpExtends, CompareExtends, AlterExtends
            <3>4. Keeps(r) BY <1>2, RunKeeps
            <3>5. Ordered' BY <2>1, <3>1, <3>3, <3>4, ExtendsKeeps
            <3>6. displaced' = displaced BY <2>2, <3>1, NothingDisplaced
            <3> QED BY <3>5, <3>6
      <2>6. orderly \in BOOLEAN BY DEF ColInv, ColTyped
      <2>7. displaced' # {} => Columns!ByPosition /\ ~orderly BY <2>2, <2>4, <2>5, <2>6 DEF OrderInv
      <2> QED BY <2>1, <2>3, <2>5, <2>7 DEF OrderInv
<1> QED BY <1>1, <1>2 DEF Columns!SchemaNext

LEMMA OrderStarts ==
    ASSUME Columns!SchemaInit
    PROVE  OrderInv
<1>1. displaced = {} BY DEF Columns!SchemaInit, Columns!Untouched
<1>2. ASSUME orderly PROVE Ordered
      <2>1. /\ Columns!Ascending(layout) /\ columns \in {<<>>, Columns!Native(layout)}
            /\ probe = <<>> /\ stage = [r \in Run |-> "idle"]
            /\ expects = [r \in Run |-> <<>>] /\ found = [r \in Run |-> <<>>]
            BY <1>2 DEF Columns!SchemaInit, Columns!Untouched
      <2>2. layout \in Shape /\ columns \in Shape
            BY LayoutsAssumption, ColStarts DEF Columns!SchemaInit, ColInv, ColTyped, Shape
      <2>3. Columns!Begins(columns, layout) /\ Columns!Begins(<<>>, layout) /\ Columns!Begins(<<>>, columns)
            BY <2>1, <2>2, BeginsNative, BeginsSelf
      <2> QED BY <2>1, <2>3 DEF Ordered, InLine, Continues
<1> QED BY <1>1, <1>2 DEF OrderInv

\* Values end up in a column of another name only by position, and only when
\* the source did more than grow at its end.
THEOREM ColumnsKeepTheirValues == Spec => []ValuesKeepTheirColumn
<1> DEFINE Inv == IF agreed = Null THEN displaced = {} ELSE OrderInv
<1>1. RowsInit \/ ColumnsInit => Inv
      <2>1. RowsInit => Inv BY DEF RowsInit, Columns!Untouched
      <2>2. ColumnsInit => OrderInv /\ displaced = {}
            BY OrderStarts DEF ColumnsInit, Columns!SchemaInit, Columns!Untouched
      <2> QED BY <2>1, <2>2
<1>2. SchemaInv /\ Inv /\ [Next]_<<vars, columnVars>> => Inv'
      <2>1. ASSUME Inv, columnVars' = columnVars PROVE Inv'
            <3>1. /\ agreed' = agreed /\ layout' = layout /\ columns' = columns
                  /\ probe' = probe /\ stage' = stage /\ expects' = expects /\ found' = found
                  /\ todo' = todo /\ displaced' = displaced /\ orderly' = orderly
                  BY <2>1 DEF columnVars
            <3>2. Ordered => Ordered'
                  BY <3>1 DEF Ordered, InLine, Continues, Columns!Begins, Columns!Ascending
            <3>3. OrderInv => OrderInv' BY <3>1, <3>2 DEF OrderInv, Columns!ByPosition
            <3> QED BY <2>1, <3>1, <3>3
      <2>2. ASSUME SchemaInv, Inv, ColumnsNext PROVE Inv'
            <3>1. ColInv /\ OrderInv /\ Columns!SchemaNext /\ agreed # Null
                  BY <2>2 DEF SchemaInv, ColumnsNext
            <3>2. OrderInv' BY <3>1, OrderStep
            <3>3. agreed' = agreed
                  BY <3>1 DEF Columns!SchemaNext, Columns!Redefine, Columns!Begin, Columns!NextBatch,
                     Columns!Look, Columns!Prepare, Columns!Probe, Columns!Inspect, Columns!Drop, Columns!SetUp,
                     Columns!Compare, Columns!Alter, Columns!Log, Columns!Record, Columns!WriteNew, Columns!WriteByPosition,
                     Columns!WriteByName, Columns!Describe, Columns!FailSchema, Columns!world
            <3> QED BY <3>1, <3>2, <3>3
      <2> QED BY <2>1, <2>2 DEF Next, RowsNext
<1>3. Inv => ValuesKeepTheirColumn BY DEF OrderInv, ValuesKeepTheirColumn, Columns!ValuesKeepTheirColumn
<1> HIDE DEF Inv
<1> QED BY <1>1, <1>2, <1>3, SchemaInvariant, PTL DEF Spec

-----------------------------------------------------------------------------
(* The rows *)

RowLabel ==
    {"idle", "done", "skipped", "failed", "nulls", "duplicates", "scope", "validate", "scan",
     "insert", "lookup", "create", "compare", "write", "written", "unchanged"}

FiniteSource == {rs \in SUBSET SourceRow: IsFiniteSet(rs)}

RowTypes ==
    /\ source \in SUBSET SourceRow /\ IsFiniteSet(source)
    /\ rows \in SUBSET TargetRow /\ IsFiniteSet(rows)
    /\ exists \in BOOLEAN /\ commits \in Nat /\ changes \in Nat
    /\ pc \in [Run -> RowLabel]
    /\ trusted \in [Run -> BOOLEAN]
    /\ compared \in [Run -> BOOLEAN]
    /\ clean \in [Run -> BOOLEAN]
    /\ scope \in [Run -> SUBSET {Partition(v): v \in Val}]
    /\ scanned \in [Run -> FiniteSource]
    /\ measured \in [Run -> SUBSET SourceRow]
    /\ guarded \in [Run -> Nat]
    /\ settled \subseteq SUBSET SourceRow

MergeModes == {"upsert", "partition", "snapshot", "hash_diff"}

\* The ON clause of the adapters, and the condition of their update.
On(r, t, s) == Same(t, s) /\ (contract.mode = "partition" => Partition(t.val) \in scope[r])

When(t, s) ==
    /\ contract.mode = "hash_diff" => Differs(t, s)
    /\ contract.mode = "snapshot" => Differs(t, s) \/ ~t.active

Gone(t) == contract.mode = "snapshot" /\ \A s \in source: ~Same(t, s)

\* The row u is what a MERGE of df leaves of the row t.
Became(r, df, t, u) ==
    /\ u \in TargetRow /\ u.key = t.key /\ u.born = t.born
    /\ \/ \E s \in df: On(r, t, s) /\ When(t, s) /\ u.val = s.val /\ u.active = TRUE
       \/ /\ \A s \in df: ~(On(r, t, s) /\ When(t, s))
          /\ u.val = t.val /\ u.active = (t.active /\ ~Gone(t))

\* The row u is the row s of the source, inserted.
IsNewRow(s, u) ==
    /\ u \in TargetRow /\ u.key = s.key /\ u.val = s.val /\ u.born = <<commits + 1, s>>
    /\ u.active = ~Gone(u)

Unmatched(r, s) == \A t \in rows: ~On(r, t, s)

Merges(r, df) ==
    /\ \A t \in rows: \E u \in rows': Became(r, df, t, u)
    /\ \A s \in df: Unmatched(r, s) => \E u \in rows': IsNewRow(s, u)
    /\ \A u \in rows':
          \/ \E t \in rows: Became(r, df, t, u)
          \/ \E s \in df: Unmatched(r, s) /\ IsNewRow(s, u)
    /\ \A t \in rows: \A s, v \in df:
          On(r, t, s) /\ On(r, t, v) /\ When(t, s) /\ When(t, v) => s = v

\* What all commits have in common.
Committed(r, label) ==
    /\ exists' = TRUE
    /\ commits' = commits + 1
    /\ clean' = [x \in Run |-> clean[x] /\ (x = r \/ rows' = rows)]
    /\ settled' = IF clean[r] THEN {source} ELSE IF rows' = rows THEN settled ELSE {}
    /\ pc' = [pc EXCEPT ![r] = label]
    /\ UNCHANGED <<contract, source, changes, locals, guarded, measured>>

\* What the write of a mode leaves.
Writes(r) ==
    \/ pc[r] = "write" /\ contract.mode = "append" /\ rows' = rows \cup InsertedAll(source)
    \/ pc[r] = "write" /\ contract.mode = "overwrite" /\ rows' = InsertedAll(source)
    \/ /\ pc[r] = "write" /\ contract.mode = "replace"
       /\ contract.engine = "databricks"
       /\ \A s \in source: Partition(s.val) \in scope[r]
       /\ rows' = {t \in rows: Partition(t.val) \notin scope[r]} \cup InsertedAll(source)
    \/ /\ pc[r] = "write" /\ contract.mode \in MergeModes
       /\ contract.mode = "partition" => contract.engine = "databricks"
       /\ contract.mode = "hash_diff" => contract.engine # "databricks"
       /\ \/ Merges(r, source)
          \/ compared[r] /\ Merges(r, Candidates)
    \/ /\ pc[r] = "create" /\ contract.engine \in {"fabric", "aws"}
       /\ contract.engine = "aws" => ~exists
       /\ rows' = InsertedAll(source)
    \/ /\ pc[r] = "insert" /\ Versioned
       /\ rows' = rows \cup InsertedAll(scanned[r])

LEMMA InsertedIs ==
    ASSUME RowTypes, NEW s \in source
    PROVE  Inserted(s) \in TargetRow
BY DEF RowTypes, Inserted, TargetRow, SourceRow

\* One update of a MERGE.
LEMMA UpdateIs ==
    ASSUME NEW r \in Run, NEW df, df \subseteq source, RowTypes, NEW t \in rows, NEW u,
           \/ \E s \in df: On(r, t, s) /\ When(t, s) /\ u = Updated(t, s)
           \/ /\ \A s \in df: ~(On(r, t, s) /\ When(t, s))
              /\ u = IF Gone(t) THEN [t EXCEPT !.active = FALSE] ELSE t
    PROVE  Became(r, df, t, u)
<1>1. t \in TargetRow /\ t.active \in BOOLEAN /\ df \subseteq SourceRow BY DEF RowTypes, TargetRow
<1>2. ASSUME NEW s \in df, On(r, t, s) /\ When(t, s) /\ u = Updated(t, s)
      PROVE  Became(r, df, t, u)
      <2>3. s.val \in Val BY <1>1 DEF SourceRow
      <2>4. u \in TargetRow /\ u.key = t.key /\ u.born = t.born /\ u.val = s.val /\ u.active = TRUE
            BY <1>1, <1>2, <2>3 DEF Updated, TargetRow
      <2> QED BY <1>2, <2>4 DEF Became
<1>3. CASE /\ \A s \in df: ~(On(r, t, s) /\ When(t, s))
           /\ u = IF Gone(t) THEN [t EXCEPT !.active = FALSE] ELSE t
      <2>2. u \in TargetRow /\ u.key = t.key /\ u.born = t.born /\ u.val = t.val
            BY <1>1, <1>3 DEF TargetRow
      <2>3. u.active = (t.active /\ ~Gone(t))
            <3>1. CASE Gone(t) BY <1>1, <1>3, <3>1 DEF TargetRow
            <3>2. CASE ~Gone(t) BY <1>1, <1>3, <3>2
            <3> QED BY <3>1, <3>2
      <2> QED BY <1>3, <2>2, <2>3 DEF Became
<1> QED BY <1>2, <1>3

LEMMA InsertIs ==
    ASSUME RowTypes, NEW s \in source, NEW u,
           u = IF Gone(Inserted(s)) THEN [Inserted(s) EXCEPT !.active = FALSE] ELSE Inserted(s)
    PROVE  IsNewRow(s, u)
<1>1. Inserted(s) \in TargetRow BY InsertedIs
<1>2. u \in TargetRow /\ u.key = s.key /\ u.val = s.val /\ u.born = <<commits + 1, s>>
      BY <1>1 DEF TargetRow, Inserted
<1>3. Gone(u) <=> Gone(Inserted(s)) BY <1>1, <1>2 DEF Gone, Same, Inserted
<1>4. u.active = ~Gone(u)
      <2>1. CASE Gone(Inserted(s)) BY <2>1, <1>1, <1>3 DEF TargetRow
      <2>2. CASE ~Gone(Inserted(s)) BY <2>2, <1>1, <1>3 DEF Inserted
      <2> QED BY <2>1, <2>2
<1> QED BY <1>2, <1>4 DEF IsNewRow

\* What each adapter makes of the rows: "update" of each row of the target, and
\* "insert" of each row of df that matches none.
LEMMA MergeIs ==
    ASSUME NEW r \in Run, NEW df, df \subseteq source, RowTypes,
           NEW updates, NEW inserts, rows' = updates \cup inserts,
           \A t \in rows: \E u \in updates: Became(r, df, t, u),
           \A u \in updates: \E t \in rows: Became(r, df, t, u),
           \A s \in df: Unmatched(r, s) => \E u \in inserts: IsNewRow(s, u),
           \A u \in inserts: \E s \in df: Unmatched(r, s) /\ IsNewRow(s, u),
           \A t \in rows: \A s, v \in df:
              On(r, t, s) /\ On(r, t, v) /\ When(t, s) /\ When(t, v) => s = v
    PROVE  Merges(r, df)
BY DEF Merges

LEMMA DatabricksMerges ==
    ASSUME NEW r \in Run, RowTypes, contract.engine = "databricks",
           contract.mode \in {"upsert", "partition", "snapshot"},
           Databricks!Merge(r)
    PROVE  Merges(r, source)
<1> DEFINE Hit(t, s) == Databricks!OnKey(r, t, s) /\ Databricks!WhenMatched(t, s)
           Update(t) == IF \E s \in source: Hit(t, s)
                        THEN Databricks!Updated(t, CHOOSE s \in source: Hit(t, s)) ELSE t
           Closed(t) == IF contract.mode = "snapshot" /\ \A s \in source: ~Databricks!Same(t, s)
                       THEN [t EXCEPT !.active = FALSE] ELSE t
           new == {s \in source: \A t \in rows: ~Databricks!OnKey(r, t, s)}
           updates == {Closed(Update(t)): t \in rows}
           inserts == {Closed(Databricks!Inserted(s)): s \in new}
<1>1. /\ rows' = {Closed(u): u \in {Update(t): t \in rows} \cup {Databricks!Inserted(s): s \in new}}
      /\ \A t \in rows: \A s, u \in source:
            s # u => ~(/\ Databricks!OnKey(r, t, s) /\ Databricks!OnKey(r, t, u)
                       /\ Databricks!WhenMatched(t, s) /\ Databricks!WhenMatched(t, u))
      BY DEF Databricks!Merge, Databricks!Commit, Databricks!Deactivated, Databricks!Merged,
             Databricks!InsertedAll, Databricks!Ambiguous
<1>2. rows' = updates \cup inserts
      <2> HIDE DEF Closed, Update, new
      <2> QED BY <1>1
<1>3. \A t \in rows, s \in source:
         /\ Databricks!OnKey(r, t, s) <=> On(r, t, s)
         /\ Databricks!WhenMatched(t, s) <=> When(t, s)
         /\ Hit(t, s) <=> On(r, t, s) /\ When(t, s)
      BY DEF Databricks!OnKey, On, Databricks!Same, Same, Databricks!WhenMatched, When,
             Databricks!Differs, Differs
<1>4. \A t: Closed(t) = IF Gone(t) THEN [t EXCEPT !.active = FALSE] ELSE t
      BY DEF Gone, Databricks!Same, Same
<1>5. ASSUME NEW t \in rows PROVE Became(r, source, t, Closed(Update(t)))
      <2>1. CASE \E s \in source: Hit(t, s)
            <3> DEFINE s == CHOOSE s \in source: Hit(t, s)
            <3>1. s \in source /\ Hit(t, s) BY <2>1
            <3>2. Update(t) = Databricks!Updated(t, s) BY <2>1
            <3> HIDE DEF s
            <3>3. Databricks!Updated(t, s) = Updated(t, s) BY DEF Databricks!Updated, Updated
            <3>4. Updated(t, s).key = t.key BY DEF Updated, RowTypes, TargetRow
            <3>5. Same(Updated(t, s), s) BY <1>3, <3>1, <3>4 DEF On, Same
            <3>6. Closed(Update(t)) = Updated(t, s)
                  BY <3>1, <3>2, <3>3, <3>5 DEF Databricks!Same, Same
            <3> QED BY <1>3, <3>1, <3>6, UpdateIs
      <2>2. CASE ~\E s \in source: Hit(t, s)
            <3>1. Update(t) = t BY <2>2
            <3> QED BY <1>3, <1>4, <2>2, <3>1, UpdateIs
      <2> QED BY <2>1, <2>2
<1>6. \A s \in source: Databricks!Inserted(s) = Inserted(s) BY DEF Databricks!Inserted, Inserted
<1>7. ASSUME NEW s \in source PROVE IsNewRow(s, Closed(Databricks!Inserted(s)))
      BY <1>4, <1>6, InsertIs
<1> HIDE DEF Hit, Update, Closed
<1>8. \A s \in source: s \in new <=> Unmatched(r, s) BY <1>3 DEF Unmatched
<1>9. /\ \A t \in rows: \E u \in updates: Became(r, source, t, u)
      /\ \A u \in updates: \E t \in rows: Became(r, source, t, u)
      BY <1>5
<1>10. /\ \A s \in source: Unmatched(r, s) => \E u \in inserts: IsNewRow(s, u)
       /\ \A u \in inserts: \E s \in source: Unmatched(r, s) /\ IsNewRow(s, u)
      BY <1>7, <1>8
<1>11. \A t \in rows: \A s, v \in source:
          On(r, t, s) /\ On(r, t, v) /\ When(t, s) /\ When(t, v) => s = v
      BY <1>1, <1>3
<1> HIDE DEF new, updates, inserts
<1> QED BY <1>2, <1>9, <1>10, <1>11, MergeIs

LEMMA FabricMerges ==
    ASSUME NEW r \in Run, RowTypes, contract.engine = "fabric",
           contract.mode \in {"upsert", "hash_diff", "snapshot"},
           Fabric!Merge(r)
    PROVE  Merges(r, IF compared[r] THEN Candidates ELSE source)
<1> DEFINE df == IF compared[r] THEN Candidates ELSE source
           Hit(t, s) == Fabric!Same(t, s) /\ Fabric!WhenMatched(t, s)
           Update(t) == IF \E s \in df: Hit(t, s)
                        THEN Fabric!Updated(t, CHOOSE s \in df: Hit(t, s)) ELSE t
           Closed(t) == IF contract.mode = "snapshot" /\ \A s \in source: ~Fabric!Same(t, s)
                       THEN [t EXCEPT !.active = FALSE] ELSE t
           new == {s \in df: \A t \in rows: ~Fabric!Same(t, s)}
           updates == {Closed(Update(t)): t \in rows}
           inserts == {Closed(Fabric!Inserted(s)): s \in new}
<1>d. Candidates \subseteq source /\ Fabric!Candidates = Candidates
      BY DEF Candidates, Fabric!Candidates, Changed, Fabric!Changed, Same, Fabric!Same, Differs,
             Fabric!Differs
<1>1. /\ rows' = {Closed(u): u \in {Update(t): t \in rows} \cup {Fabric!Inserted(s): s \in new}}
      /\ \A t \in rows: \A s, u \in df:
            s # u => ~(/\ Fabric!Same(t, s) /\ Fabric!Same(t, u)
                       /\ Fabric!WhenMatched(t, s) /\ Fabric!WhenMatched(t, u))
      BY <1>d DEF Fabric!Merge, Fabric!Commit, Fabric!Deactivated, Fabric!Merged,
             Fabric!InsertedAll, Fabric!Ambiguous
<1>2. rows' = updates \cup inserts
      <2> HIDE DEF Closed, Update, new
      <2> QED BY <1>1
<1>0. df \subseteq source BY <1>d
<1> HIDE DEF df
<1>3. \A t \in rows, s \in source:
         /\ Fabric!Same(t, s) <=> On(r, t, s)
         /\ Fabric!WhenMatched(t, s) <=> When(t, s)
         /\ Hit(t, s) <=> On(r, t, s) /\ When(t, s)
      BY DEF On, Fabric!Same, Same, Fabric!WhenMatched, When, Fabric!Differs, Differs
<1>4. \A t: Closed(t) = IF Gone(t) THEN [t EXCEPT !.active = FALSE] ELSE t
      BY DEF Gone, Fabric!Same, Same
<1>5. ASSUME NEW t \in rows PROVE Became(r, df, t, Closed(Update(t)))
      <2>1. CASE \E s \in df: Hit(t, s)
            <3> DEFINE s == CHOOSE s \in df: Hit(t, s)
            <3>1. s \in df /\ Hit(t, s) BY <2>1
            <3>2. Update(t) = Fabric!Updated(t, s) BY <2>1
            <3> HIDE DEF s
            <3>3. Fabric!Updated(t, s) = Updated(t, s) BY DEF Fabric!Updated, Updated
            <3>4. Updated(t, s).key = t.key BY DEF Updated, RowTypes, TargetRow
            <3>5. Same(Updated(t, s), s) BY <1>0, <1>3, <3>1, <3>4 DEF On, Same
            <3>6. Closed(Update(t)) = Updated(t, s)
                  BY <1>0, <3>1, <3>2, <3>3, <3>5 DEF Fabric!Same, Same
            <3>7. On(r, t, s) /\ When(t, s) BY <1>0, <1>3, <3>1
            <3> QED BY <1>0, <3>1, <3>6, <3>7, UpdateIs
      <2>2. CASE ~\E s \in df: Hit(t, s)
            <3>1. Update(t) = t BY <2>2
            <3>2. \A s \in df: ~(On(r, t, s) /\ When(t, s)) BY <1>0, <1>3, <2>2
            <3>3. Closed(Update(t)) = IF Gone(t) THEN [t EXCEPT !.active = FALSE] ELSE t
                  BY <1>4, <3>1
            <3> HIDE DEF Closed, Update
            <3> QED BY <1>0, <3>2, <3>3, UpdateIs
      <2> QED BY <2>1, <2>2
<1>6. \A s \in source: Fabric!Inserted(s) = Inserted(s) BY DEF Fabric!Inserted, Inserted
<1>7. ASSUME NEW s \in source PROVE IsNewRow(s, Closed(Fabric!Inserted(s)))
      BY <1>4, <1>6, InsertIs
<1> HIDE DEF Hit, Update, Closed
<1>8. \A s \in df: s \in new <=> Unmatched(r, s) BY <1>0, <1>3 DEF Unmatched
<1>9. /\ \A t \in rows: \E u \in updates: Became(r, df, t, u)
      /\ \A u \in updates: \E t \in rows: Became(r, df, t, u)
      BY <1>5
<1>10. /\ \A s \in df: Unmatched(r, s) => \E u \in inserts: IsNewRow(s, u)
       /\ \A u \in inserts: \E s \in df: Unmatched(r, s) /\ IsNewRow(s, u)
      BY <1>0, <1>7, <1>8
<1>11. \A t \in rows: \A s, v \in df:
          On(r, t, s) /\ On(r, t, v) /\ When(t, s) /\ When(t, v) => s = v
      BY <1>0, <1>1, <1>3
<1> HIDE DEF new, updates, inserts
<1>12. Merges(r, df) BY <1>0, <1>2, <1>9, <1>10, <1>11, MergeIs
<1> QED BY <1>12 DEF df

LEMMA AwsMerges ==
    ASSUME NEW r \in Run, RowTypes, contract.mode \in {"upsert", "hash_diff"},
           Aws!Merge(r)
    PROVE  Merges(r, IF compared[r] THEN Candidates ELSE source)
<1> DEFINE df == IF compared[r] THEN Candidates ELSE source
           Hit(t, s) == Aws!Same(t, s) /\ Aws!WhenMatched(t, s)
           Update(t) == IF \E s \in df: Hit(t, s)
                        THEN Aws!Updated(t, CHOOSE s \in df: Hit(t, s)) ELSE t
           new == {s \in df: \A t \in rows: ~Aws!Same(t, s)}
           updates == {Update(t): t \in rows}
           inserts == {Aws!Inserted(s): s \in new}
<1>d. Candidates \subseteq source /\ Aws!Candidates = Candidates
      BY DEF Candidates, Aws!Candidates, Changed, Aws!Changed, Same, Aws!Same, Differs, Aws!Differs
<1>1. /\ rows' = updates \cup inserts
      /\ \A t \in rows: \A s, u \in df:
            s # u => ~(/\ Aws!Same(t, s) /\ Aws!Same(t, u)
                       /\ Aws!WhenMatched(t, s) /\ Aws!WhenMatched(t, u))
      BY <1>d DEF Aws!Merge, Aws!Commit, Aws!Merged, Aws!InsertedAll, Aws!Ambiguous
<1>0. df \subseteq source BY <1>d
<1> HIDE DEF df
<1>3. \A t \in rows, s \in source:
         /\ Aws!Same(t, s) <=> On(r, t, s)
         /\ Aws!WhenMatched(t, s) <=> When(t, s)
         /\ Hit(t, s) <=> On(r, t, s) /\ When(t, s)
      BY DEF On, Aws!Same, Same, Aws!WhenMatched, When, Aws!Differs, Differs
<1>4. \A t: ~Gone(t) BY DEF Gone
<1>5. ASSUME NEW t \in rows PROVE Became(r, df, t, Update(t))
      <2>1. CASE \E s \in df: Hit(t, s)
            <3> DEFINE s == CHOOSE s \in df: Hit(t, s)
            <3>1. s \in df /\ Hit(t, s) BY <2>1
            <3>2. Update(t) = Aws!Updated(t, s) BY <2>1
            <3> HIDE DEF s
            <3>3. Aws!Updated(t, s) = Updated(t, s) BY DEF Aws!Updated, Updated
            <3>7. On(r, t, s) /\ When(t, s) BY <1>0, <1>3, <3>1
            <3> QED BY <1>0, <3>1, <3>2, <3>3, <3>7, UpdateIs
      <2>2. CASE ~\E s \in df: Hit(t, s)
            <3>1. Update(t) = t BY <2>2
            <3>2. \A s \in df: ~(On(r, t, s) /\ When(t, s)) BY <1>0, <1>3, <2>2
            <3>3. Update(t) = IF Gone(t) THEN [t EXCEPT !.active = FALSE] ELSE t
                  BY <1>4, <3>1
            <3> HIDE DEF Update
            <3> QED BY <1>0, <3>2, <3>3, UpdateIs
      <2> QED BY <2>1, <2>2
<1>6. \A s \in source: Aws!Inserted(s) = Inserted(s) BY DEF Aws!Inserted, Inserted
<1>7. ASSUME NEW s \in source PROVE IsNewRow(s, Aws!Inserted(s))
      BY <1>4, <1>6, InsertIs
<1> HIDE DEF Hit, Update
<1>8. \A s \in df: s \in new <=> Unmatched(r, s) BY <1>0, <1>3 DEF Unmatched
<1>9. /\ \A t \in rows: \E u \in updates: Became(r, df, t, u)
      /\ \A u \in updates: \E t \in rows: Became(r, df, t, u)
      BY <1>5
<1>10. /\ \A s \in df: Unmatched(r, s) => \E u \in inserts: IsNewRow(s, u)
       /\ \A u \in inserts: \E s \in df: Unmatched(r, s) /\ IsNewRow(s, u)
      BY <1>0, <1>7, <1>8
<1>11. \A t \in rows: \A s, v \in df:
          On(r, t, s) /\ On(r, t, v) /\ When(t, s) /\ When(t, v) => s = v
      BY <1>0, <1>1, <1>3
<1> HIDE DEF new, updates, inserts
<1>12. Merges(r, df) BY <1>0, <1>1, <1>9, <1>10, <1>11, MergeIs
<1> QED BY <1>12 DEF df

LEMMA SnowflakeMerges ==
    ASSUME NEW r \in Run, RowTypes, contract.mode \in {"upsert", "hash_diff"},
           Snowflake!Write(r)
    PROVE  Merges(r, source)
<1> DEFINE df == source
           Hit(t, s) == Snowflake!Same(t, s) /\ Snowflake!WhenMatched(t, s)
           Update(t) == IF \E s \in df: Hit(t, s)
                        THEN Snowflake!Updated(t, CHOOSE s \in df: Hit(t, s)) ELSE t
           new == {s \in df: \A t \in rows: ~Snowflake!Same(t, s)}
           updates == {Update(t): t \in rows}
           inserts == {Snowflake!Inserted(s): s \in new}
<1>1. /\ rows' = updates \cup inserts
      /\ \A t \in rows: \A s, u \in df:
            s # u => ~(/\ Snowflake!Same(t, s) /\ Snowflake!Same(t, u)
                       /\ Snowflake!WhenMatched(t, s) /\ Snowflake!WhenMatched(t, u))
      BY DEF Snowflake!Write, Snowflake!Commit, Snowflake!Merged, Snowflake!InsertedAll,
             Snowflake!Ambiguous
<1>0. df \subseteq source OBVIOUS
<1> HIDE DEF df
<1>3. \A t \in rows, s \in source:
         /\ Snowflake!Same(t, s) <=> On(r, t, s)
         /\ Snowflake!WhenMatched(t, s) <=> When(t, s)
         /\ Hit(t, s) <=> On(r, t, s) /\ When(t, s)
      BY DEF On, Snowflake!Same, Same, Snowflake!WhenMatched, When, Snowflake!Differs, Differs
<1>4. \A t: ~Gone(t) BY DEF Gone
<1>5. ASSUME NEW t \in rows PROVE Became(r, df, t, Update(t))
      <2>1. CASE \E s \in df: Hit(t, s)
            <3> DEFINE s == CHOOSE s \in df: Hit(t, s)
            <3>1. s \in df /\ Hit(t, s) BY <2>1
            <3>2. Update(t) = Snowflake!Updated(t, s) BY <2>1
            <3> HIDE DEF s
            <3>3. Snowflake!Updated(t, s) = Updated(t, s) BY DEF Snowflake!Updated, Updated
            <3>7. On(r, t, s) /\ When(t, s) BY <1>0, <1>3, <3>1
            <3> QED BY <1>0, <3>1, <3>2, <3>3, <3>7, UpdateIs
      <2>2. CASE ~\E s \in df: Hit(t, s)
            <3>1. Update(t) = t BY <2>2
            <3>2. \A s \in df: ~(On(r, t, s) /\ When(t, s)) BY <1>0, <1>3, <2>2
            <3>3. Update(t) = IF Gone(t) THEN [t EXCEPT !.active = FALSE] ELSE t
                  BY <1>4, <3>1
            <3> HIDE DEF Update
            <3> QED BY <1>0, <3>2, <3>3, UpdateIs
      <2> QED BY <2>1, <2>2
<1>6. \A s \in source: Snowflake!Inserted(s) = Inserted(s) BY DEF Snowflake!Inserted, Inserted
<1>7. ASSUME NEW s \in source PROVE IsNewRow(s, Snowflake!Inserted(s))
      BY <1>4, <1>6, InsertIs
<1> HIDE DEF Hit, Update
<1>8. \A s \in df: s \in new <=> Unmatched(r, s) BY <1>0, <1>3 DEF Unmatched
<1>9. /\ \A t \in rows: \E u \in updates: Became(r, df, t, u)
      /\ \A u \in updates: \E t \in rows: Became(r, df, t, u)
      BY <1>5
<1>10. /\ \A s \in df: Unmatched(r, s) => \E u \in inserts: IsNewRow(s, u)
       /\ \A u \in inserts: \E s \in df: Unmatched(r, s) /\ IsNewRow(s, u)
      BY <1>0, <1>7, <1>8
<1>11. \A t \in rows: \A s, v \in df:
          On(r, t, s) /\ On(r, t, v) /\ When(t, s) /\ When(t, v) => s = v
      BY <1>0, <1>1, <1>3
<1> HIDE DEF new, updates, inserts
<1>12. Merges(r, df) BY <1>0, <1>1, <1>9, <1>10, <1>11, MergeIs
<1> QED BY <1>12 DEF df

Past == {"scope", "write", "lookup", "create", "compare", "written", "unchanged"}

\* Where the run of each adapter may be, and the comparison of a run.
Place(r) ==
    /\ \/ pc[r] \in Ended
       \/ /\ contract.engine = "databricks"
          /\ \/ pc[r] \in {"nulls", "duplicates"} /\ contract.mode \in Databricks!MERGE_WRITE_MODES
             \/ pc[r] = "scope" /\ contract.mode \in {"partition", "replace"}
             \/ pc[r] \in {"validate", "scan", "insert"} /\ contract.mode = "hash_diff"
             \/ pc[r] = "write" /\ contract.mode # "hash_diff"
       \/ /\ contract.engine \in {"fabric", "aws"}
          /\ \/ pc[r] \in {"nulls", "duplicates"}
             \/ pc[r] \in Past \ {"scope", "compare"}
             \/ pc[r] = "compare" /\ contract.mode = "hash_diff"
       \/ /\ contract.engine = "snowflake"
          /\ pc[r] \in {"nulls", "duplicates", "write"}
    /\ compared[r] =>
          /\ contract.mode = "hash_diff" /\ contract.engine \in {"fabric", "aws"}
          /\ pc[r] \in Ended \cup {"write", "written", "unchanged"}

\* What a run knows of the keys of its source.
Known(r) ==
    /\ guarded[r] <= changes
    /\ clean[r] => guarded[r] = changes
    /\ guarded[r] = changes /\ OneRowPerKey =>
          /\ contract.engine = "databricks" /\ trusted[r] /\ pc[r] \notin Ended => ~DuplicateKeys
          /\ contract.engine # "databricks" /\ pc[r] \in Past \cup {"duplicates"} => NullKeys = {}
          /\ pc[r] \in Past =>
                ~DuplicateKeys \/ (contract.engine = "databricks" /\ ~contract.metrics)

Choices == IF contract.ordered THEN Databricks!LatestChoices ELSE {rows}

Fresh(latest) == {s \in source: Databricks!IsNew(s, latest)}

\* What a run knows that nothing disturbed.
Undisturbed(r) ==
    clean[r] =>
        /\ contract.engine = "databricks" /\ contract.mode \in {"partition", "replace"} /\ pc[r] = "write"
              => scope[r] = Databricks!PartitionsOf(source)
        /\ pc[r] = "create" => rows = {}
        /\ pc[r] = "insert" => \E latest \in Choices: scanned[r] = Fresh(latest)
        /\ ~contract.ordered /\ pc[r] \in {"scan", "insert"} => KeysAreUnique
        /\ compared[r] /\ pc[r] \in {"written", "unchanged"} => Candidates = {}

ExecutionInv(r) == Place(r) /\ Known(r) /\ Undisturbed(r)

\* The target: a row has a birth of its own, and is active outside of snapshots.
TargetInv ==
    /\ \A t \in rows: t.born[1] <= commits
    /\ \A t, u \in rows: t.born = u.born => t = u
    /\ contract.mode # "snapshot" => \A t \in rows: t.active
    /\ ~exists => rows = {}

\* A step of a run that commits nothing.
WritesNothing(r) ==
    /\ UNCHANGED <<contract, source, changes, rows, commits, settled>>
    /\ exists' \in {exists, TRUE}
    /\ \A x \in Run \ {r}:
          /\ pc'[x] = pc[x] /\ trusted'[x] = trusted[x] /\ compared'[x] = compared[x]
          /\ clean'[x] = clean[x] /\ scope'[x] = scope[x] /\ scanned'[x] = scanned[x]
          /\ measured'[x] = measured[x] /\ guarded'[x] = guarded[x]

\* What it measures: the second half of CommitMeansMode.
Measures(r) ==
    pc'[r] # pc[r] /\ pc'[r] \in {"done", "skipped"} /\ clean'[r] /\ contract.engine \in {"fabric", "aws"}
       => measured'[r] = IF compared'[r] THEN {} ELSE source

Quiet(r) == RowTypes' /\ WritesNothing(r) /\ ExecutionInv(r)' /\ Measures(r)

\* A run stands where it stood, over the same source; and it counts as undisturbed
\* only if the target is the same, too.
LEMMA RunStays ==
    ASSUME NEW x \in Run, ExecutionInv(x),
           contract' = contract, source' = source, changes' = changes, pc'[x] = pc[x],
           trusted'[x] = trusted[x], compared'[x] = compared[x], scope'[x] = scope[x],
           scanned'[x] = scanned[x], guarded'[x] = guarded[x],
           clean'[x] \in BOOLEAN, clean'[x] => clean[x] /\ rows' = rows
    PROVE  ExecutionInv(x)'
<1>1. Place(x)' BY DEF ExecutionInv, Place
<1>2. Known(x)'
      <2>1. DuplicateKeys' = DuplicateKeys /\ NullKeys' = NullKeys /\ OneRowPerKey' = OneRowPerKey
            BY DEF DuplicateKeys, NullKeys, OneRowPerKey, Versioned
      <2> QED BY <2>1 DEF ExecutionInv, Known
<1>3. Undisturbed(x)'
      <2>1. SUFFICES ASSUME clean'[x] PROVE Undisturbed(x)' BY DEF Undisturbed
      <2>2. rows' = rows /\ clean[x] BY <2>1
      <2>3. Candidates' = Candidates BY <2>2 DEF Candidates, Changed, Same, Differs
      <2>4. Choices' = Choices
            BY <2>2 DEF Choices, Databricks!LatestChoices, Databricks!Latest, Databricks!Versions
      <2>5. \A latest: Fresh(latest)' = Fresh(latest)
            BY DEF Fresh, Databricks!IsNew, Databricks!Differs
      <2> QED BY <2>2, <2>3, <2>4, <2>5
              DEF ExecutionInv, Undisturbed, KeysAreUnique, Databricks!PartitionsOf
<1> QED BY <1>1, <1>2, <1>3 DEF ExecutionInv

LEMMA OtherRunsKeep ==
    ASSUME RowTypes, NEW r \in Run, WritesNothing(r), NEW x \in Run \ {r}, ExecutionInv(x)
    PROVE  ExecutionInv(x)'
<1>1. clean[x] \in BOOLEAN BY DEF RowTypes
<1> QED BY <1>1, RunStays DEF WritesNothing

-----------------------------------------------------------------------------
(* The steps that all adapters have *)

LEMMA Fails ==
    ASSUME NEW r \in Run, RowTypes, ExecutionInv(r), Fail(r)
    PROVE  Quiet(r)
<1>1. /\ pc' = [pc EXCEPT ![r] = "failed"]
      /\ UNCHANGED <<contract, source, changes, table, locals, history>>
      BY DEF Fail, Goto
<1>2. RowTypes'
      <2>0. "failed" \in RowLabel BY DEF RowLabel
      <2>1. pc' \in [Run -> RowLabel] BY <1>1, <2>0 DEF RowTypes
      <2> QED BY <1>1, <2>1 DEF RowTypes, table, locals, history
<1>3. WritesNothing(r) BY <1>1 DEF WritesNothing, RowTypes, table, locals, history
<1>4. pc'[r] = "failed" BY <1>1 DEF RowTypes
<1>5. Place(r)' BY <1>1, <1>4 DEF ExecutionInv, Place, Ended, Past, locals
<1>6. Known(r)'
      BY <1>1, <1>4 DEF ExecutionInv, Known, Ended, Past, locals, history, OneRowPerKey, Versioned,
         DuplicateKeys, NullKeys
<1>7. Undisturbed(r)' BY <1>4 DEF Undisturbed
<1>8. Measures(r) BY <1>4 DEF Measures
<1> QED BY <1>2, <1>3, <1>5, <1>6, <1>7, <1>8 DEF Quiet, ExecutionInv

LEMMA Begins ==
    ASSUME NEW r \in Run, RowTypes, NEW label \in RowLabel, Begin(r, label),
           exists' \in {exists, TRUE},
           NEW passed \in BOOLEAN, trusted' = [trusted EXCEPT ![r] = passed]
    PROVE  /\ RowTypes' /\ WritesNothing(r)
           /\ pc'[r] = label /\ trusted'[r] = passed /\ compared'[r] = FALSE
           /\ clean'[r] = TRUE /\ guarded'[r] = changes
<1>1. {} \in FiniteSource BY FS_EmptySet DEF FiniteSource
<1>2. {} \in SUBSET SourceRow OBVIOUS
<1> QED BY <1>1, <1>2 DEF Begin, Goto, RowTypes, WritesNothing

LEMMA Checks ==
    ASSUME NEW r \in Run, RowTypes, NEW from \in RowLabel, NEW bad \in BOOLEAN, NEW to \in RowLabel,
           Check(r, from, bad, to)
    PROVE  /\ RowTypes' /\ WritesNothing(r)
           /\ pc[r] = from /\ pc'[r] = IF bad THEN "failed" ELSE to
           /\ trusted'[r] = trusted[r] /\ compared'[r] = compared[r] /\ clean'[r] = clean[r]
           /\ guarded'[r] = IF from = "nulls" /\ ~trusted[r] THEN changes ELSE guarded[r]
<1>1. /\ pc[r] = from
      /\ pc' = [pc EXCEPT ![r] = IF bad THEN "failed" ELSE to]
      /\ guarded' = [guarded EXCEPT ![r] = IF from = "nulls" /\ ~trusted[r] THEN changes ELSE @]
      /\ UNCHANGED <<contract, source, changes, table, starts, locals, clean, settled, measured>>
      BY DEF Check, Goto
<1>a. (IF bad THEN "failed" ELSE to) \in RowLabel BY DEF RowLabel
<1>b. pc' \in [Run -> RowLabel] BY <1>1, <1>a DEF RowTypes
<1>9. guarded' \in [Run -> Nat] BY <1>1 DEF RowTypes
<1>2. pc' \in [Run -> RowLabel] /\ guarded' \in [Run -> Nat] BY <1>b, <1>9
<1>3. RowTypes' BY <1>1, <1>2 DEF RowTypes, table, locals
<1>4. WritesNothing(r) BY <1>1 DEF RowTypes, WritesNothing, table, locals
<1> QED BY <1>1, <1>3, <1>4 DEF RowTypes, table, locals

\* A step that moves the run only.
LEMMA RunMoves ==
    ASSUME NEW r \in Run, RowTypes, NEW to \in RowLabel, pc' = [pc EXCEPT ![r] = to],
           UNCHANGED <<contract, source, changes, table, locals, history>>
    PROVE  /\ RowTypes' /\ WritesNothing(r) /\ pc'[r] = to
           /\ trusted'[r] = trusted[r] /\ compared'[r] = compared[r] /\ clean'[r] = clean[r]
           /\ guarded'[r] = guarded[r] /\ scope'[r] = scope[r] /\ scanned'[r] = scanned[r]
BY DEF RowTypes, WritesNothing, table, locals, history

-----------------------------------------------------------------------------
(* Databricks *)

LEMMA DatabricksSame ==
    /\ Databricks!DuplicateKeys <=> DuplicateKeys
    /\ Databricks!NullKeys = NullKeys
    /\ Databricks!Ended = Ended
    /\ Databricks!locals = locals /\ Databricks!table = table /\ Databricks!history = history
    /\ \A r, l: Databricks!Begin(r, l) <=> Begin(r, l)
    /\ \A r, l: Databricks!Goto(r, l) <=> Goto(r, l)
    /\ \A r: Databricks!Fail(r) <=> Fail(r)
    /\ \A rs: Databricks!InsertedAll(rs) = InsertedAll(rs)
    /\ \A S: Databricks!Cardinality(S) = Cardinality(S)
<1>1. Databricks!DuplicateKeys <=> DuplicateKeys BY DEF Databricks!DuplicateKeys, DuplicateKeys
<1>2. Databricks!NullKeys = NullKeys BY DEF Databricks!NullKeys, NullKeys
<1>3. Databricks!Ended = Ended BY DEF Databricks!Ended, Ended
<1>4. Databricks!locals = locals /\ Databricks!table = table /\ Databricks!history = history
      BY DEF Databricks!locals, locals, Databricks!table, table, Databricks!history, history
<1>5. \A r, l: Databricks!Goto(r, l) <=> Goto(r, l) BY DEF Databricks!Goto, Goto
<1>9. \A S: Databricks!Cardinality(S) = Cardinality(S) BY DEF Databricks!Cardinality, Cardinality
<1>6. \A r, l: Databricks!Begin(r, l) <=> Begin(r, l)
      BY <1>9 DEF Databricks!Begin, Begin, Databricks!Goto, Goto, Databricks!Ended, Ended
<1>7. \A r: Databricks!Fail(r) <=> Fail(r)
      BY DEF Databricks!Fail, Fail, Databricks!Goto, Goto, Databricks!Ended, Ended, Databricks!locals, locals,
             Databricks!table, table, Databricks!history, history
<1>8. \A rs: Databricks!InsertedAll(rs) = InsertedAll(rs)
      BY DEF Databricks!InsertedAll, InsertedAll, Databricks!Inserted, Inserted
<1> QED BY <1>1, <1>2, <1>3, <1>4, <1>5, <1>6, <1>7, <1>8, <1>9

\* The contract of a target that Databricks writes.
OnDatabricks == contract \in Contract /\ contract.engine = "databricks"

LEMMA DatabricksPrepares ==
    ASSUME NEW r \in Run, RowTypes, ExecutionInv(r), OnDatabricks, Databricks!Prepare(r)
    PROVE  Quiet(r)
<1> DEFINE checks == contract.mode \in Databricks!MERGE_WRITE_MODES /\ contract.metrics /\ source # {}
           label == IF checks THEN "nulls" ELSE Databricks!Attempt
           passed == contract.ruled /\ ~DuplicateKeys
<1>1. Begin(r, label) /\ exists' = TRUE /\ trusted' = [trusted EXCEPT ![r] = passed]
      BY DatabricksSame DEF Databricks!Prepare
<1>2. label \in RowLabel BY DEF Databricks!Attempt, RowLabel
<1>3. passed \in BOOLEAN BY DEF OnDatabricks, Contract
<1>4. UNCHANGED <<contract, source, changes>> BY <1>1 DEF Begin
<1> HIDE DEF label, passed
<1>5. /\ RowTypes' /\ WritesNothing(r)
      /\ pc'[r] = label /\ trusted'[r] = passed /\ compared'[r] = FALSE
      /\ clean'[r] = TRUE /\ guarded'[r] = changes
      BY <1>1, <1>2, <1>3, Begins
<1>6. contract.mode \in Mode BY DEF OnDatabricks, Contract
<1>7. Place(r)'
      BY <1>4, <1>5, <1>6 DEF Place, label, OnDatabricks, Databricks!Attempt, Databricks!MERGE_WRITE_MODES, Mode
<1>8. pc'[r] \in Past /\ OneRowPerKey => ~DuplicateKeys \/ ~contract.metrics
      BY <1>5, <1>6 DEF label, OneRowPerKey, Versioned, OnDatabricks, Databricks!Attempt,
                  Databricks!MERGE_WRITE_MODES, Mode, DuplicateKeys, Past
<1>9. Known(r)'
      BY <1>4, <1>5, <1>8 DEF Known, passed, OnDatabricks, DuplicateKeys, OneRowPerKey, Versioned, RowTypes
<1>10. Undisturbed(r)'
      BY <1>4, <1>5 DEF Undisturbed, label, Databricks!Attempt
<1>11. Measures(r) BY DEF Measures, OnDatabricks
<1> QED BY <1>5, <1>7, <1>9, <1>10, <1>11 DEF Quiet, ExecutionInv

LEMMA DatabricksChecks ==
    ASSUME NEW r \in Run, RowTypes, ExecutionInv(r), OnDatabricks,
           Databricks!CheckNulls(r) \/ Databricks!CheckDuplicates(r)
    PROVE  Quiet(r)
<1>1. contract.mode \in Mode BY DEF OnDatabricks, Contract
<1>2. Measures(r) BY DEF Measures, OnDatabricks
<1>3. CASE Databricks!CheckNulls(r)
      <2> DEFINE bad == Cardinality(NullKeys) = counted[r]
                 to == IF trusted[r] THEN Databricks!Attempt ELSE "duplicates"
      <2>1. Check(r, "nulls", bad, to)
            BY <1>3, DatabricksSame DEF Databricks!CheckNulls, Databricks!Check, Check,
               Databricks!Goto, Goto, Databricks!locals, locals, Databricks!table, table
      <2>2. "nulls" \in RowLabel /\ bad \in BOOLEAN /\ to \in RowLabel
            BY DEF Databricks!Attempt, RowLabel
      <2>3. UNCHANGED <<contract, source, changes, locals>> BY <2>1 DEF Check
      <2> HIDE DEF bad, to
      <2>4. /\ RowTypes' /\ WritesNothing(r)
            /\ pc[r] = "nulls" /\ pc'[r] = IF bad THEN "failed" ELSE to
            /\ trusted'[r] = trusted[r] /\ compared'[r] = compared[r] /\ clean'[r] = clean[r]
            /\ guarded'[r] = IF ~trusted[r] THEN changes ELSE guarded[r]
            BY <2>1, <2>2, Checks
      <2>5. contract.mode \in Databricks!MERGE_WRITE_MODES /\ compared[r] = FALSE
            BY <2>4 DEF ExecutionInv, Place, Ended, OnDatabricks, RowTypes
      <2>6. Place(r)'
            BY <2>3, <2>4, <2>5 DEF Place, to, OnDatabricks, Databricks!Attempt,
               Databricks!MERGE_WRITE_MODES, Ended
      <2>7. pc'[r] \in Past /\ guarded'[r] = changes /\ OneRowPerKey => ~DuplicateKeys
            BY <2>4 DEF to, ExecutionInv, Known, Past, Ended, OnDatabricks
      <2>8. guarded'[r] = changes /\ OneRowPerKey /\ trusted[r] => ~DuplicateKeys
            BY <2>4 DEF ExecutionInv, Known, Ended, OnDatabricks
      <2>9. guarded'[r] <= changes /\ (clean[r] => guarded'[r] = changes)
            BY <2>4 DEF ExecutionInv, Known, RowTypes
      <2>10. Known(r)'
            BY <2>3, <2>4, <2>7, <2>8, <2>9 DEF Known, DuplicateKeys, OneRowPerKey, Versioned, OnDatabricks
      <2>11. Undisturbed(r)' BY <2>3, <2>4, <2>5 DEF Undisturbed, to, Databricks!Attempt, Databricks!MERGE_WRITE_MODES
      <2> QED BY <1>2, <2>4, <2>6, <2>10, <2>11 DEF Quiet, ExecutionInv
<1>4. CASE Databricks!CheckDuplicates(r)
      <2>1. Check(r, "duplicates", DuplicateKeys, Databricks!Attempt)
            BY <1>4, DatabricksSame DEF Databricks!CheckDuplicates, Databricks!Check, Check,
               Databricks!Goto, Goto, Databricks!locals, locals, Databricks!table, table
      <2>2. "duplicates" \in RowLabel /\ DuplicateKeys \in BOOLEAN /\ Databricks!Attempt \in RowLabel
            BY DEF Databricks!Attempt, RowLabel, DuplicateKeys
      <2>3. UNCHANGED <<contract, source, changes, locals>> BY <2>1 DEF Check
      <2>4. /\ RowTypes' /\ WritesNothing(r)
            /\ pc[r] = "duplicates"
            /\ pc'[r] = IF DuplicateKeys THEN "failed" ELSE Databricks!Attempt
            /\ trusted'[r] = trusted[r] /\ compared'[r] = compared[r] /\ clean'[r] = clean[r]
            /\ guarded'[r] = guarded[r]
            BY <2>1, <2>2, Checks
      <2>5. contract.mode \in Databricks!MERGE_WRITE_MODES /\ compared[r] = FALSE
            BY <2>4 DEF ExecutionInv, Place, Ended, OnDatabricks, RowTypes
      <2>6. Place(r)'
            BY <2>3, <2>4, <2>5 DEF Place, OnDatabricks, Databricks!Attempt,
               Databricks!MERGE_WRITE_MODES, Ended
      <2>7. pc'[r] \in Past => ~DuplicateKeys BY <2>4 DEF Past
      <2>8. Known(r)'
            BY <2>3, <2>4, <2>7 DEF ExecutionInv, Known, DuplicateKeys, OneRowPerKey, Versioned, OnDatabricks, Ended
      <2>9. Undisturbed(r)' BY <2>3, <2>4, <2>5 DEF Undisturbed, Databricks!Attempt, Databricks!MERGE_WRITE_MODES
      <2> QED BY <1>2, <2>4, <2>6, <2>8, <2>9 DEF Quiet, ExecutionInv
<1> QED BY <1>3, <1>4

LEMMA DatabricksFindsScope ==
    ASSUME NEW r \in Run, RowTypes, ExecutionInv(r), OnDatabricks, Databricks!FindScope(r)
    PROVE  Quiet(r)
<1> DEFINE P == Databricks!PartitionsOf(source)
           to == IF P = {} THEN "failed" ELSE "write"
<1>1. /\ pc[r] = "scope" /\ pc' = [pc EXCEPT ![r] = to]
      /\ scope' = [scope EXCEPT ![r] = P]
      /\ UNCHANGED <<contract, source, changes, exists, rows, commits, counted, trusted, scanned,
                     compared, attempt, guarded, clean, settled, measured>>
      BY DEF Databricks!FindScope, Databricks!Goto, Databricks!table, Databricks!history
<1>2. P \subseteq {Partition(v): v \in Val}
      BY DEF RowTypes, Databricks!PartitionsOf, SourceRow
<1>3. to \in RowLabel BY DEF RowLabel
<1>4. pc' \in [Run -> RowLabel] BY <1>1, <1>3 DEF RowTypes
<1>5. RowTypes'
      <2> HIDE DEF P
      <2>1. scope' \in [Run -> SUBSET {Partition(v): v \in Val}] BY <1>1, <1>2 DEF RowTypes
      <2> QED BY <1>1, <1>4, <2>1 DEF RowTypes
<1>6. WritesNothing(r) BY <1>1 DEF RowTypes, WritesNothing
<1>7. /\ pc'[r] = to /\ scope'[r] = P /\ trusted'[r] = trusted[r] /\ compared'[r] = compared[r]
      /\ clean'[r] = clean[r] /\ guarded'[r] = guarded[r]
      BY <1>1 DEF RowTypes
<1>8. contract.mode \in {"partition", "replace"} /\ compared[r] = FALSE
      BY <1>1 DEF ExecutionInv, Place, Ended, OnDatabricks, RowTypes
<1>9. Place(r)' BY <1>1, <1>7, <1>8 DEF Place, OnDatabricks, Ended
<1>10. Known(r)'
      BY <1>1, <1>7 DEF ExecutionInv, Known, DuplicateKeys, OneRowPerKey, Versioned, OnDatabricks, Ended, Past
<1>11. Undisturbed(r)' BY <1>1, <1>7, <1>8 DEF Undisturbed, Databricks!PartitionsOf
<1>12. Measures(r) BY DEF Measures, OnDatabricks
<1> QED BY <1>5, <1>6, <1>9, <1>10, <1>11, <1>12 DEF Quiet, ExecutionInv

LEMMA TwoAreMore ==
    ASSUME NEW S, IsFiniteSet(S), NEW a \in S, NEW b \in S, a # b
    PROVE  Cardinality(S) > 1
<1>1. Cardinality(S) \in Nat BY FS_CardinalityType
<1>2. Cardinality(S) # 0 BY FS_EmptySet
<1>3. Cardinality(S) # 1 BY FS_Singleton
<1> QED BY <1>1, <1>2, <1>3

LEMMA DatabricksValidates ==
    ASSUME NEW r \in Run, RowTypes, ExecutionInv(r), OnDatabricks,
           Databricks!Validate(r)
    PROVE  Quiet(r)
<1> DEFINE bad == ~contract.ordered /\ \E t \in rows: Cardinality(Databricks!Versions(t.key)) > 1
           to == IF bad THEN "failed" ELSE "scan"
<1>1. /\ pc[r] = "validate" /\ pc' = [pc EXCEPT ![r] = to]
      /\ UNCHANGED <<contract, source, changes, table, locals, history>>
      BY DatabricksSame DEF Databricks!Validate, Databricks!Goto, Databricks!locals, locals,
         Databricks!table, table, Databricks!history, history
<1>2. to \in RowLabel BY DEF RowLabel
<1>3. ASSUME ~bad, ~contract.ordered PROVE KeysAreUnique
      <2>1. SUFFICES ASSUME NEW t \in rows, NEW u \in rows, t.key = u.key, t # u PROVE FALSE
            BY DEF KeysAreUnique
      <2>2. t \in Databricks!Versions(t.key) /\ u \in Databricks!Versions(t.key)
            BY <2>1 DEF Databricks!Versions
      <2>3. IsFiniteSet(Databricks!Versions(t.key))
            BY FS_Subset DEF RowTypes, Databricks!Versions
      <2>4. Cardinality(Databricks!Versions(t.key)) > 1 BY <2>1, <2>2, <2>3, TwoAreMore
      <2> QED BY <1>3, <2>1, <2>4
<1> HIDE DEF bad
<1>4. /\ RowTypes' /\ WritesNothing(r) /\ pc'[r] = to
      /\ trusted'[r] = trusted[r] /\ compared'[r] = compared[r] /\ clean'[r] = clean[r]
      /\ guarded'[r] = guarded[r] /\ scope'[r] = scope[r] /\ scanned'[r] = scanned[r]
      BY <1>1, <1>2, RunMoves
<1>5. contract.mode = "hash_diff" /\ compared[r] = FALSE
      BY <1>1 DEF ExecutionInv, Place, Ended, OnDatabricks, RowTypes
<1>6. contract' = contract /\ source' = source /\ changes' = changes /\ rows' = rows BY <1>4 DEF WritesNothing
<1>7. Place(r)' BY <1>4, <1>5, <1>6 DEF Place, OnDatabricks, Ended
<1>8. ~OneRowPerKey' BY <1>5, <1>6 DEF OneRowPerKey, Versioned, OnDatabricks
<1>9. Known(r)' BY <1>4, <1>6, <1>8 DEF ExecutionInv, Known
<1>10. Undisturbed(r)' BY <1>3, <1>4, <1>6 DEF Undisturbed, KeysAreUnique
<1>11. Measures(r) BY DEF Measures, OnDatabricks
<1> QED BY <1>4, <1>7, <1>9, <1>10, <1>11 DEF Quiet, ExecutionInv

LEMMA DatabricksScans ==
    ASSUME NEW r \in Run, RowTypes, ExecutionInv(r), OnDatabricks,
           Databricks!Scan(r)
    PROVE  Quiet(r)
<1>1. PICK latest \in Choices: scanned' = [scanned EXCEPT ![r] = Fresh(latest)]
      BY DEF Databricks!Scan, Choices, Fresh
<1>2. /\ pc[r] = "scan" /\ pc' = [pc EXCEPT ![r] = "insert"]
      /\ UNCHANGED <<contract, source, changes, exists, rows, commits, counted, trusted, scope,
                     compared, attempt, guarded, clean, settled, measured>>
      BY DEF Databricks!Scan, Databricks!Goto, Databricks!table, Databricks!history
<1>3. Fresh(latest) \in FiniteSource BY FS_Subset DEF Fresh, RowTypes, FiniteSource
<1>4. pc' \in [Run -> RowLabel] BY <1>2 DEF RowTypes, RowLabel
<1>5. scanned' \in [Run -> FiniteSource] BY <1>1, <1>3 DEF RowTypes
<1>6. RowTypes' BY <1>2, <1>4, <1>5 DEF RowTypes
<1>7. WritesNothing(r) BY <1>1, <1>2 DEF RowTypes, WritesNothing
<1>8. /\ pc'[r] = "insert" /\ scanned'[r] = Fresh(latest) /\ compared'[r] = compared[r]
      /\ clean'[r] = clean[r] /\ guarded'[r] = guarded[r]
      BY <1>1, <1>2 DEF RowTypes
<1>9. contract.mode = "hash_diff" /\ compared[r] = FALSE
      BY <1>2 DEF ExecutionInv, Place, Ended, OnDatabricks, RowTypes
<1>10. Place(r)' BY <1>2, <1>8, <1>9 DEF Place, OnDatabricks, Ended
<1>11. ~OneRowPerKey' BY <1>2, <1>9 DEF OneRowPerKey, Versioned, OnDatabricks
<1>12. Known(r)' BY <1>2, <1>8, <1>11 DEF ExecutionInv, Known
<1>13. Choices' = Choices
      BY <1>2 DEF Choices, Databricks!LatestChoices, Databricks!Latest, Databricks!Versions
<1>14. Fresh(latest)' = Fresh(latest)
      BY <1>2 DEF Fresh, Databricks!IsNew, Databricks!Differs
<1>15. Undisturbed(r)'
      BY <1>2, <1>8, <1>13, <1>14 DEF ExecutionInv, Undisturbed, KeysAreUnique
<1>16. Measures(r) BY DEF Measures, OnDatabricks
<1> QED BY <1>6, <1>7, <1>10, <1>12, <1>15, <1>16 DEF Quiet, ExecutionInv

LEMMA DatabricksRetries ==
    ASSUME NEW r \in Run, RowTypes, ExecutionInv(r), OnDatabricks,
           Databricks!Retry(r)
    PROVE  Quiet(r)
<1>1. /\ pc[r] \in {"scope", "validate", "scan", "write", "insert"}
      /\ pc' = [pc EXCEPT ![r] = Databricks!Attempt]
      /\ UNCHANGED <<contract, source, changes, exists, rows, commits, counted, trusted, scope,
                     scanned, compared, guarded, clean, settled, measured>>
      BY DEF Databricks!Retry, Databricks!Goto, Databricks!table, Databricks!history
<1>2. Databricks!Attempt \in RowLabel BY DEF Databricks!Attempt, RowLabel
<1>3. pc' \in [Run -> RowLabel] /\ pc'[r] = Databricks!Attempt BY <1>1, <1>2 DEF RowTypes
<1>4. RowTypes' BY <1>1, <1>3 DEF RowTypes
<1>5. WritesNothing(r) BY <1>1 DEF RowTypes, WritesNothing
<1>6. contract.mode \in Mode BY DEF OnDatabricks, Contract
<1>7. compared[r] = FALSE BY <1>1 DEF ExecutionInv, Place, Ended, OnDatabricks, RowTypes
<1>8. Place(r)'
      BY <1>1, <1>3, <1>6, <1>7 DEF Place, OnDatabricks, Ended, Databricks!Attempt
<1>9. pc[r] \in {"validate", "scan", "insert"} => contract.mode = "hash_diff"
      BY DEF ExecutionInv, Place, Ended, OnDatabricks, Past
<1>10. OneRowPerKey => pc[r] \in {"scope", "write"} BY <1>1, <1>9 DEF OneRowPerKey, Versioned, OnDatabricks
<1>11. OneRowPerKey' = OneRowPerKey /\ DuplicateKeys' = DuplicateKeys
      BY <1>1 DEF OneRowPerKey, Versioned, DuplicateKeys
<1>12. Known(r)'
      <2>1. guarded'[r] <= changes' /\ (clean'[r] => guarded'[r] = changes') BY <1>1 DEF ExecutionInv, Known
      <2>2. ASSUME guarded'[r] = changes', OneRowPerKey'
            PROVE  /\ trusted'[r] => ~DuplicateKeys'
                   /\ ~DuplicateKeys' \/ ~contract'.metrics
            <3>1. pc[r] \in {"scope", "write"} /\ guarded[r] = changes /\ OneRowPerKey
                  BY <1>1, <1>10, <1>11, <2>2
            <3>2. (trusted[r] => ~DuplicateKeys) /\ (~DuplicateKeys \/ ~contract.metrics)
                  BY <3>1 DEF ExecutionInv, Known, Past, Ended, OnDatabricks
            <3> QED BY <1>1, <1>11, <3>2
      <2> QED BY <1>1, <2>1, <2>2 DEF Known, OnDatabricks
<1>13. Undisturbed(r)'
      <2>1. CASE contract.mode \in {"partition", "replace"}
            BY <1>1, <1>3, <1>7, <2>1 DEF Undisturbed, Databricks!Attempt
      <2>2. CASE contract.mode \notin {"partition", "replace"}
            BY <1>1, <1>3, <1>7, <2>2 DEF Undisturbed, Databricks!Attempt
      <2> QED BY <2>1, <2>2
<1>14. Measures(r) BY DEF Measures, OnDatabricks
<1> QED BY <1>4, <1>5, <1>8, <1>12, <1>13, <1>14 DEF Quiet, ExecutionInv

LEMMA DatabricksWrites ==
    ASSUME NEW r \in Run, RowTypes, ExecutionInv(r), OnDatabricks,
           Databricks!Write(r) \/ Databricks!Insert(r)
    PROVE  Committed(r, "done") /\ Writes(r)
<1>9. ASSUME NEW new, Databricks!Commit(r, new, "done"),
             UNCHANGED <<contract, source, changes, locals, guarded, measured>>
      PROVE  Committed(r, "done") /\ rows' = new
      BY <1>9 DEF Databricks!Commit, Committed, Databricks!Goto
<1>1. ASSUME Databricks!Write(r) PROVE Committed(r, "done") /\ Writes(r)
      <2>1. pc[r] = "write" /\ UNCHANGED <<contract, source, changes, locals, guarded, measured>>
            BY <1>1 DEF Databricks!Write, Databricks!locals, locals
      <2>2. CASE contract.mode = "append" /\ Databricks!Commit(r, rows \cup Databricks!InsertedAll(source), "done")
            BY <1>9, <2>1, <2>2, DatabricksSame DEF Writes
      <2>3. CASE contract.mode = "overwrite" /\ Databricks!Commit(r, Databricks!InsertedAll(source), "done")
            BY <1>9, <2>1, <2>3, DatabricksSame DEF Writes
      <2>4. CASE contract.mode \in {"upsert", "partition", "snapshot"} /\ Databricks!Merge(r)
            <3>1. Merges(r, source) BY <2>4, DatabricksMerges DEF OnDatabricks
            <3>2. PICK new: Databricks!Commit(r, new, "done")
                  BY <2>4 DEF Databricks!Merge, Databricks!Ambiguous, Databricks!Merged
            <3>3. Committed(r, "done") BY <1>9, <2>1, <3>2
            <3> QED BY <2>1, <2>4, <3>1, <3>3 DEF Writes, MergeModes, OnDatabricks
      <2>5. CASE contract.mode = "replace" /\ Databricks!ReplacePartitions(r)
            <3> DEFINE new == {t \in rows: Partition(t.val) \notin scope[r]} \cup InsertedAll(source)
            <3>1. /\ \A s \in source: Partition(s.val) \in scope[r]
                  /\ Databricks!Commit(r, new, "done")
                  BY <2>5, DatabricksSame DEF Databricks!ReplacePartitions
            <3>2. Committed(r, "done") /\ rows' = new BY <1>9, <2>1, <3>1
            <3> QED BY <2>1, <2>5, <3>1, <3>2 DEF Writes, OnDatabricks
      <2> QED BY <1>1, <2>2, <2>3, <2>4, <2>5 DEF Databricks!Write
<1>2. ASSUME Databricks!Insert(r) PROVE Committed(r, "done") /\ Writes(r)
      <2>1. /\ pc[r] = "insert" /\ UNCHANGED <<contract, source, changes, locals, guarded, measured>>
            /\ Databricks!Commit(r, rows \cup InsertedAll(scanned[r]), "done")
            BY <1>2, DatabricksSame DEF Databricks!Insert, Databricks!locals, locals
      <2>2. contract.mode = "hash_diff" BY <2>1 DEF ExecutionInv, Place, Ended, OnDatabricks, Past
      <2> QED BY <1>9, <2>1, <2>2 DEF Writes, Versioned, OnDatabricks
<1> QED BY <1>1, <1>2

LEMMA DatabricksSteps ==
    ASSUME RowTypes, \A r \in Run: ExecutionInv(r), OnDatabricks, Databricks!Next
    PROVE  \E r \in Run: Quiet(r) \/ (Committed(r, "done") /\ Writes(r))
<1>1. PICK r \in Run:
         \/ Databricks!Prepare(r) \/ Databricks!CheckNulls(r) \/ Databricks!CheckDuplicates(r)
         \/ Databricks!FindScope(r) \/ Databricks!Write(r) \/ Databricks!Validate(r)
         \/ Databricks!Scan(r) \/ Databricks!Insert(r) \/ Databricks!Retry(r) \/ Fail(r)
      BY DatabricksSame DEF Databricks!Next
<1>2. ExecutionInv(r) OBVIOUS
<1> QED BY <1>1, <1>2, DatabricksPrepares, DatabricksChecks, DatabricksFindsScope, DatabricksWrites,
           DatabricksValidates, DatabricksScans, DatabricksRetries, Fails

-----------------------------------------------------------------------------
(* Fabric *)

LEMMA FabricSame ==
    /\ Fabric!DuplicateKeys <=> DuplicateKeys
    /\ Fabric!NullKeys = NullKeys
    /\ Fabric!Ended = Ended
    /\ Fabric!Candidates = Candidates
    /\ \A r, l: Fabric!Begin(r, l) <=> Begin(r, l)
    /\ \A r: Fabric!Fail(r) <=> Fail(r)
    /\ \A rs: Fabric!InsertedAll(rs) = InsertedAll(rs)
<1>1. Fabric!DuplicateKeys <=> DuplicateKeys BY DEF Fabric!DuplicateKeys, DuplicateKeys
<1>2. Fabric!NullKeys = NullKeys BY DEF Fabric!NullKeys, NullKeys
<1>3. Fabric!Ended = Ended BY DEF Fabric!Ended, Ended
<1>4. Fabric!Candidates = Candidates
      BY DEF Candidates, Fabric!Candidates, Changed, Fabric!Changed, Same, Fabric!Same, Differs, Fabric!Differs
<1>5. \A S: Fabric!Cardinality(S) = Cardinality(S) BY DEF Fabric!Cardinality, Cardinality
<1>6. \A r, l: Fabric!Begin(r, l) <=> Begin(r, l)
      BY <1>5 DEF Fabric!Begin, Begin, Fabric!Goto, Goto, Fabric!Ended, Ended
<1>7. \A r: Fabric!Fail(r) <=> Fail(r)
      BY DEF Fabric!Fail, Fail, Fabric!Goto, Goto, Fabric!Ended, Ended, Fabric!locals, locals,
             Fabric!table, table, Fabric!history, history
<1>8. \A rs: Fabric!InsertedAll(rs) = InsertedAll(rs)
      BY DEF Fabric!InsertedAll, InsertedAll, Fabric!Inserted, Inserted
<1> QED BY <1>1, <1>2, <1>3, <1>4, <1>6, <1>7, <1>8

OnFabric == contract \in Contract /\ contract.engine = "fabric"

LEMMA FabricStarts ==
    ASSUME NEW r \in Run, RowTypes, ExecutionInv(r), OnFabric, Fabric!Start(r)
    PROVE  Quiet(r)
<1> DEFINE label == IF contract.mode \in {"append", "overwrite"} THEN "write" ELSE "nulls"
<1>1. Begin(r, label) /\ exists' \in {exists, TRUE} /\ trusted' = trusted
      BY FabricSame DEF Fabric!Start
<1>2. label \in RowLabel BY DEF RowLabel
<1>3. UNCHANGED <<contract, source, changes>> BY <1>1 DEF Begin
<1>4. trusted[r] \in BOOLEAN /\ trusted' = [trusted EXCEPT ![r] = trusted[r]] BY <1>1 DEF RowTypes
<1> HIDE DEF label
<1>5. /\ RowTypes' /\ WritesNothing(r)
      /\ pc'[r] = label /\ trusted'[r] = trusted[r] /\ compared'[r] = FALSE
      /\ clean'[r] = TRUE /\ guarded'[r] = changes
      BY <1>1, <1>2, <1>4, Begins
<1>6. contract.mode \in Mode BY DEF OnFabric, Contract
<1>7. Place(r)' BY <1>3, <1>5, <1>6 DEF Place, label, OnFabric, Mode, Past
<1>8. OneRowPerKey' => pc'[r] = "nulls"
      BY <1>3, <1>5, <1>6 DEF label, OneRowPerKey, Mode, OnFabric
<1>9. Known(r)'
      BY <1>3, <1>5, <1>8 DEF Known, OnFabric, RowTypes, Past
<1>10. Undisturbed(r)'
      BY <1>3, <1>5 DEF Undisturbed, label, OnFabric
<1>11. Measures(r) BY <1>5 DEF Measures, label
<1> QED BY <1>5, <1>7, <1>9, <1>10, <1>11 DEF Quiet, ExecutionInv

LEMMA FabricChecks ==
    ASSUME NEW r \in Run, RowTypes, ExecutionInv(r), OnFabric, Fabric!CheckNulls(r) \/ Fabric!CheckDuplicates(r)
    PROVE  Quiet(r)
<1>3. CASE Fabric!CheckNulls(r)
      <2> DEFINE bad == NullKeys # {}
      <2>1. Check(r, "nulls", bad, "duplicates")
            BY <1>3, FabricSame DEF Fabric!CheckNulls, Fabric!Check, Check,
               Fabric!Goto, Goto, Fabric!locals, locals, Fabric!table, table
      <2>2. "nulls" \in RowLabel /\ bad \in BOOLEAN /\ "duplicates" \in RowLabel BY DEF RowLabel
      <2>3. UNCHANGED <<contract, source, changes, locals>> BY <2>1 DEF Check
      <2> HIDE DEF bad
      <2>4. /\ RowTypes' /\ WritesNothing(r)
            /\ pc[r] = "nulls" /\ pc'[r] = IF bad THEN "failed" ELSE "duplicates"
            /\ trusted'[r] = trusted[r] /\ compared'[r] = compared[r] /\ clean'[r] = clean[r]
            /\ guarded'[r] = IF ~trusted[r] THEN changes ELSE guarded[r]
            BY <2>1, <2>2, Checks
      <2>5. compared[r] = FALSE BY <2>4 DEF ExecutionInv, Place, Ended, OnFabric, RowTypes
      <2>6. Place(r)' BY <2>3, <2>4, <2>5 DEF Place, OnFabric, Ended
      <2>7. guarded'[r] <= changes /\ (clean[r] => guarded'[r] = changes)
            BY <2>4 DEF ExecutionInv, Known, RowTypes
      <2>8. Known(r)'
            BY <2>3, <2>4, <2>7 DEF Known, bad, OnFabric, NullKeys, Past, Ended
      <2>9. Undisturbed(r)' BY <2>3, <2>4, <2>5 DEF Undisturbed
      <2>10. Measures(r) BY <2>4 DEF Measures
      <2> QED BY <2>4, <2>6, <2>8, <2>9, <2>10 DEF Quiet, ExecutionInv
<1>4. CASE Fabric!CheckDuplicates(r)
      <2>1. Check(r, "duplicates", DuplicateKeys, "lookup")
            BY <1>4, FabricSame DEF Fabric!CheckDuplicates, Fabric!Check, Check,
               Fabric!Goto, Goto, Fabric!locals, locals, Fabric!table, table
      <2>2. "duplicates" \in RowLabel /\ DuplicateKeys \in BOOLEAN /\ "lookup" \in RowLabel
            BY DEF RowLabel, DuplicateKeys
      <2>3. UNCHANGED <<contract, source, changes, locals>> BY <2>1 DEF Check
      <2>4. /\ RowTypes' /\ WritesNothing(r)
            /\ pc[r] = "duplicates" /\ pc'[r] = IF DuplicateKeys THEN "failed" ELSE "lookup"
            /\ trusted'[r] = trusted[r] /\ compared'[r] = compared[r] /\ clean'[r] = clean[r]
            /\ guarded'[r] = guarded[r]
            BY <2>1, <2>2, Checks
      <2>5. compared[r] = FALSE BY <2>4 DEF ExecutionInv, Place, Ended, OnFabric, RowTypes
      <2>6. Place(r)' BY <2>3, <2>4, <2>5 DEF Place, OnFabric, Ended, Past
      <2>7. Known(r)'
            BY <2>3, <2>4 DEF ExecutionInv, Known, DuplicateKeys, NullKeys, OneRowPerKey, Versioned, OnFabric, Ended, Past
      <2>8. Undisturbed(r)' BY <2>3, <2>4, <2>5 DEF Undisturbed, OnFabric
      <2>9. Measures(r) BY <2>4 DEF Measures
      <2> QED BY <2>4, <2>6, <2>7, <2>8, <2>9 DEF Quiet, ExecutionInv
<1> QED BY <1>3, <1>4

LEMMA FabricLooksUp ==
    ASSUME NEW r \in Run, RowTypes, TargetInv, ExecutionInv(r), OnFabric, Fabric!LookUpTable(r)
    PROVE  Quiet(r)
<1> DEFINE to == IF ~exists THEN "create" ELSE IF contract.mode = "hash_diff" THEN "compare" ELSE "write"
<1>1. /\ pc[r] = "lookup" /\ pc' = [pc EXCEPT ![r] = to]
      /\ UNCHANGED <<contract, source, changes, table, locals, history>>
      BY DEF Fabric!LookUpTable, Fabric!Goto, Fabric!locals, locals, Fabric!table, table, Fabric!history, history
<1>2. to \in RowLabel BY DEF RowLabel
<1> HIDE DEF to
<1>3. /\ RowTypes' /\ WritesNothing(r) /\ pc'[r] = to
      /\ trusted'[r] = trusted[r] /\ compared'[r] = compared[r] /\ clean'[r] = clean[r]
      /\ guarded'[r] = guarded[r] /\ scope'[r] = scope[r] /\ scanned'[r] = scanned[r]
      BY <1>1, <1>2, RunMoves
<1>4. contract' = contract /\ source' = source /\ changes' = changes /\ rows' = rows BY <1>3 DEF WritesNothing
<1>5. compared[r] = FALSE BY <1>1 DEF ExecutionInv, Place, Ended, OnFabric, RowTypes
<1>6. Place(r)' BY <1>3, <1>4, <1>5 DEF Place, OnFabric, to, Past
<1>7. Known(r)'
      BY <1>1, <1>3, <1>4 DEF ExecutionInv, Known, DuplicateKeys, NullKeys, OneRowPerKey, Versioned, OnFabric, Ended, Past
<1>8. Undisturbed(r)' BY <1>3, <1>4, <1>5 DEF Undisturbed, TargetInv, OnFabric, to
<1>9. Measures(r) BY <1>3 DEF Measures, to
<1> QED BY <1>3, <1>6, <1>7, <1>8, <1>9 DEF Quiet, ExecutionInv

LEMMA FabricCompares ==
    ASSUME NEW r \in Run, RowTypes, ExecutionInv(r), OnFabric, Fabric!Compare(r)
    PROVE  Quiet(r)
<1> DEFINE to == IF Candidates = {} THEN "written" ELSE "write"
<1>1. /\ pc[r] = "compare" /\ pc' = [pc EXCEPT ![r] = to]
      /\ compared' = [compared EXCEPT ![r] = TRUE]
      /\ UNCHANGED <<contract, source, changes, exists, rows, commits, counted, trusted, scope,
                     scanned, attempt, guarded, clean, settled, measured>>
      BY FabricSame DEF Fabric!Compare, Fabric!Goto, Fabric!table, Fabric!history
<1>2. to \in RowLabel BY DEF RowLabel
<1>3. pc' \in [Run -> RowLabel] BY <1>1, <1>2 DEF RowTypes
<1>4. compared' \in [Run -> BOOLEAN] BY <1>1 DEF RowTypes
<1>5. RowTypes' BY <1>1, <1>3, <1>4 DEF RowTypes
<1>6. WritesNothing(r) BY <1>1 DEF RowTypes, WritesNothing
<1>7. /\ pc'[r] = to /\ compared'[r] = TRUE
      /\ trusted'[r] = trusted[r] /\ clean'[r] = clean[r] /\ guarded'[r] = guarded[r]
      BY <1>1 DEF RowTypes
<1>8. contract.mode = "hash_diff" BY <1>1 DEF ExecutionInv, Place, Ended, OnFabric, Past
<1>9. Place(r)' BY <1>1, <1>7, <1>8 DEF Place, OnFabric, Past
<1>10. Known(r)'
      BY <1>1, <1>7 DEF ExecutionInv, Known, DuplicateKeys, NullKeys, OneRowPerKey, Versioned, OnFabric, Ended, Past
<1>11. Candidates' = Candidates BY <1>1 DEF Candidates, Changed, Same, Differs
<1>12. Undisturbed(r)'
      <2>1. pc'[r] = "written" => Candidates = {} BY <1>7
      <2>2. pc'[r] \in {"written", "write"} BY <1>7
      <2> HIDE DEF to
      <2> QED BY <1>1, <1>11, <2>1, <2>2 DEF Undisturbed, OnFabric
<1>13. Measures(r) BY <1>7 DEF Measures
<1> QED BY <1>5, <1>6, <1>9, <1>10, <1>12, <1>13 DEF Quiet, ExecutionInv

LEMMA FabricMeasures ==
    ASSUME NEW r \in Run, RowTypes, ExecutionInv(r), OnFabric, Fabric!Measure(r)
    PROVE  Quiet(r)
<1> DEFINE df == IF compared[r] THEN Candidates ELSE source
           to == "done"
<1>1. /\ pc[r] \in {"written"} /\ pc' = [pc EXCEPT ![r] = to]
      /\ measured' = [measured EXCEPT ![r] = df]
      /\ UNCHANGED <<contract, source, changes, exists, rows, commits, counted, trusted, scope,
                     scanned, compared, attempt, guarded, clean, settled>>
      BY FabricSame DEF Fabric!Measure, Fabric!Goto, Fabric!table, Fabric!locals
<1>2. to \in RowLabel /\ to \in {"done", "skipped"} BY DEF RowLabel
<1>3. df \subseteq SourceRow BY DEF RowTypes, Candidates
<1> HIDE DEF to
<1>4. pc' \in [Run -> RowLabel] BY <1>1, <1>2 DEF RowTypes
<1>5. measured' \in [Run -> SUBSET SourceRow] BY <1>1, <1>3 DEF RowTypes
<1>6. RowTypes' BY <1>1, <1>4, <1>5 DEF RowTypes
<1>7. WritesNothing(r) BY <1>1 DEF RowTypes, WritesNothing
<1>8. /\ pc'[r] = to /\ compared'[r] = compared[r] /\ measured'[r] = df
      /\ trusted'[r] = trusted[r] /\ clean'[r] = clean[r] /\ guarded'[r] = guarded[r]
      BY <1>1 DEF RowTypes
<1>9. Place(r)' BY <1>1, <1>2, <1>8 DEF ExecutionInv, Place, OnFabric, Ended
<1>10. Known(r)'
      BY <1>1, <1>2, <1>8 DEF ExecutionInv, Known, OnFabric, Past
<1>11. Undisturbed(r)' BY <1>2, <1>8 DEF Undisturbed
<1>12. Measures(r)
      <2>1. clean[r] /\ compared[r] => Candidates = {} BY <1>1 DEF ExecutionInv, Undisturbed
      <2> QED BY <1>8, <1>1, <2>1 DEF Measures
<1> QED BY <1>6, <1>7, <1>9, <1>10, <1>11, <1>12 DEF Quiet, ExecutionInv

LEMMA FabricWrites ==
    ASSUME NEW r \in Run, RowTypes, ExecutionInv(r), OnFabric, Fabric!Write(r) \/ Fabric!Create(r)
    PROVE  Committed(r, "written") /\ Writes(r)
<1>9. ASSUME NEW new, Fabric!Commit(r, new, "written"),
             UNCHANGED <<contract, source, changes, locals, guarded, measured>>
      PROVE  Committed(r, "written") /\ rows' = new
      BY <1>9 DEF Fabric!Commit, Committed, Fabric!Goto
<1>1. ASSUME Fabric!Write(r) PROVE Committed(r, "written") /\ Writes(r)
      <2>1. pc[r] = "write" /\ UNCHANGED <<contract, source, changes, locals, guarded, measured>>
            BY <1>1 DEF Fabric!Write, Fabric!locals, locals
      <2>2. CASE contract.mode = "append" /\ Fabric!Commit(r, rows \cup Fabric!InsertedAll(source), "written")
            BY <1>9, <2>1, <2>2, FabricSame DEF Writes
      <2>3. CASE contract.mode = "overwrite" /\ Fabric!Commit(r, Fabric!InsertedAll(source), "written")
            BY <1>9, <2>1, <2>3, FabricSame DEF Writes
      <2>4. CASE contract.mode \in {"upsert", "hash_diff", "snapshot"} /\ Fabric!Merge(r)
            <3>1. Merges(r, IF compared[r] THEN Candidates ELSE source)
                  BY <2>4, FabricMerges DEF OnFabric
            <3>2. PICK new: Fabric!Commit(r, new, "written")
                  BY <2>4 DEF Fabric!Merge, Fabric!Ambiguous, Fabric!Merged
            <3>3. Committed(r, "written") BY <1>9, <2>1, <3>2
            <3>4. Merges(r, source) \/ (compared[r] /\ Merges(r, Candidates)) BY <3>1
            <3> QED BY <2>1, <2>4, <3>3, <3>4 DEF Writes, MergeModes, OnFabric
      <2> QED BY <1>1, <2>2, <2>3, <2>4 DEF Fabric!Write
<1>2. ASSUME Fabric!Create(r) PROVE Committed(r, "written") /\ Writes(r)
      <2>1. /\ pc[r] = "create" /\ UNCHANGED <<contract, source, changes, locals, guarded, measured>>
            /\ Fabric!Commit(r, InsertedAll(source), "written")
            /\ contract.engine = "aws" => ~exists
            BY <1>2, FabricSame DEF Fabric!Create, Fabric!locals, locals, OnFabric
      <2> QED BY <1>9, <2>1 DEF Writes, OnFabric
<1> QED BY <1>1, <1>2

LEMMA FabricSteps ==
    ASSUME RowTypes, TargetInv, \A r \in Run: ExecutionInv(r), OnFabric, Fabric!Next
    PROVE  \E r \in Run: Quiet(r) \/ (Committed(r, "written") /\ Writes(r))
<1>1. PICK r \in Run:
         \/ Fabric!Start(r) \/ Fabric!CheckNulls(r) \/ Fabric!CheckDuplicates(r) \/ Fabric!LookUpTable(r)
         \/ Fabric!Create(r) \/ Fabric!Compare(r) \/ Fabric!Write(r) \/ Fabric!Measure(r) \/ Fail(r)
      BY FabricSame DEF Fabric!Next
<1>2. ExecutionInv(r) OBVIOUS
<1> QED BY <1>1, <1>2, FabricStarts, FabricChecks, FabricLooksUp, FabricCompares, FabricMeasures, FabricWrites, Fails

-----------------------------------------------------------------------------
(* AWS *)

LEMMA AwsSame ==
    /\ Aws!DuplicateKeys <=> DuplicateKeys
    /\ Aws!NullKeys = NullKeys
    /\ Aws!Ended = Ended
    /\ Aws!Candidates = Candidates
    /\ \A r, l: Aws!Begin(r, l) <=> Begin(r, l)
    /\ \A r: Aws!Fail(r) <=> Fail(r)
    /\ \A rs: Aws!InsertedAll(rs) = InsertedAll(rs)
<1>1. Aws!DuplicateKeys <=> DuplicateKeys BY DEF Aws!DuplicateKeys, DuplicateKeys
<1>2. Aws!NullKeys = NullKeys BY DEF Aws!NullKeys, NullKeys
<1>3. Aws!Ended = Ended BY DEF Aws!Ended, Ended
<1>4. Aws!Candidates = Candidates
      BY DEF Candidates, Aws!Candidates, Changed, Aws!Changed, Same, Aws!Same, Differs, Aws!Differs
<1>5. \A S: Aws!Cardinality(S) = Cardinality(S) BY DEF Aws!Cardinality, Cardinality
<1>6. \A r, l: Aws!Begin(r, l) <=> Begin(r, l)
      BY <1>5 DEF Aws!Begin, Begin, Aws!Goto, Goto, Aws!Ended, Ended
<1>7. \A r: Aws!Fail(r) <=> Fail(r)
      BY DEF Aws!Fail, Fail, Aws!Goto, Goto, Aws!Ended, Ended, Aws!locals, locals,
             Aws!table, table, Aws!history, history
<1>8. \A rs: Aws!InsertedAll(rs) = InsertedAll(rs)
      BY DEF Aws!InsertedAll, InsertedAll, Aws!Inserted, Inserted
<1> QED BY <1>1, <1>2, <1>3, <1>4, <1>6, <1>7, <1>8

OnAws == contract \in Contract /\ contract.engine = "aws"

LEMMA AwsStarts ==
    ASSUME NEW r \in Run, RowTypes, ExecutionInv(r), OnAws, Aws!Start(r)
    PROVE  Quiet(r)
<1> DEFINE label == CASE contract.mode = "append" -> "lookup"
                      [] contract.mode = "overwrite" -> "write"
                      [] OTHER -> "nulls"
<1>1. Begin(r, label) /\ exists' \in {exists, TRUE} /\ trusted' = trusted
      BY AwsSame DEF Aws!Start
<1>2. label \in RowLabel BY DEF RowLabel
<1>3. UNCHANGED <<contract, source, changes>> BY <1>1 DEF Begin
<1>4. trusted[r] \in BOOLEAN /\ trusted' = [trusted EXCEPT ![r] = trusted[r]] BY <1>1 DEF RowTypes
<1> HIDE DEF label
<1>5. /\ RowTypes' /\ WritesNothing(r)
      /\ pc'[r] = label /\ trusted'[r] = trusted[r] /\ compared'[r] = FALSE
      /\ clean'[r] = TRUE /\ guarded'[r] = changes
      BY <1>1, <1>2, <1>4, Begins
<1>6. contract.mode \in Mode BY DEF OnAws, Contract
<1>7. Place(r)' BY <1>3, <1>5, <1>6 DEF Place, label, OnAws, Mode, Past
<1>8. OneRowPerKey' => pc'[r] = "nulls"
      BY <1>3, <1>5, <1>6 DEF label, OneRowPerKey, Mode, OnAws
<1>9. Known(r)'
      BY <1>3, <1>5, <1>8 DEF Known, OnAws, RowTypes, Past
<1>10. Undisturbed(r)'
      BY <1>3, <1>5 DEF Undisturbed, label, OnAws
<1>11. Measures(r) BY <1>5 DEF Measures, label
<1> QED BY <1>5, <1>7, <1>9, <1>10, <1>11 DEF Quiet, ExecutionInv

LEMMA AwsChecks ==
    ASSUME NEW r \in Run, RowTypes, ExecutionInv(r), OnAws, Aws!CheckNulls(r) \/ Aws!CheckDuplicates(r)
    PROVE  Quiet(r)
<1>3. CASE Aws!CheckNulls(r)
      <2> DEFINE bad == NullKeys # {}
      <2>1. Check(r, "nulls", bad, "duplicates")
            BY <1>3, AwsSame DEF Aws!CheckNulls, Aws!Check, Check,
               Aws!Goto, Goto, Aws!locals, locals, Aws!table, table
      <2>2. "nulls" \in RowLabel /\ bad \in BOOLEAN /\ "duplicates" \in RowLabel BY DEF RowLabel
      <2>3. UNCHANGED <<contract, source, changes, locals>> BY <2>1 DEF Check
      <2> HIDE DEF bad
      <2>4. /\ RowTypes' /\ WritesNothing(r)
            /\ pc[r] = "nulls" /\ pc'[r] = IF bad THEN "failed" ELSE "duplicates"
            /\ trusted'[r] = trusted[r] /\ compared'[r] = compared[r] /\ clean'[r] = clean[r]
            /\ guarded'[r] = IF ~trusted[r] THEN changes ELSE guarded[r]
            BY <2>1, <2>2, Checks
      <2>5. compared[r] = FALSE BY <2>4 DEF ExecutionInv, Place, Ended, OnAws, RowTypes
      <2>6. Place(r)' BY <2>3, <2>4, <2>5 DEF Place, OnAws, Ended
      <2>7. guarded'[r] <= changes /\ (clean[r] => guarded'[r] = changes)
            BY <2>4 DEF ExecutionInv, Known, RowTypes
      <2>8. Known(r)'
            BY <2>3, <2>4, <2>7 DEF Known, bad, OnAws, NullKeys, Past, Ended
      <2>9. Undisturbed(r)' BY <2>3, <2>4, <2>5 DEF Undisturbed
      <2>10. Measures(r) BY <2>4 DEF Measures
      <2> QED BY <2>4, <2>6, <2>8, <2>9, <2>10 DEF Quiet, ExecutionInv
<1>4. CASE Aws!CheckDuplicates(r)
      <2>1. Check(r, "duplicates", DuplicateKeys, "lookup")
            BY <1>4, AwsSame DEF Aws!CheckDuplicates, Aws!Check, Check,
               Aws!Goto, Goto, Aws!locals, locals, Aws!table, table
      <2>2. "duplicates" \in RowLabel /\ DuplicateKeys \in BOOLEAN /\ "lookup" \in RowLabel
            BY DEF RowLabel, DuplicateKeys
      <2>3. UNCHANGED <<contract, source, changes, locals>> BY <2>1 DEF Check
      <2>4. /\ RowTypes' /\ WritesNothing(r)
            /\ pc[r] = "duplicates" /\ pc'[r] = IF DuplicateKeys THEN "failed" ELSE "lookup"
            /\ trusted'[r] = trusted[r] /\ compared'[r] = compared[r] /\ clean'[r] = clean[r]
            /\ guarded'[r] = guarded[r]
            BY <2>1, <2>2, Checks
      <2>5. compared[r] = FALSE BY <2>4 DEF ExecutionInv, Place, Ended, OnAws, RowTypes
      <2>6. Place(r)' BY <2>3, <2>4, <2>5 DEF Place, OnAws, Ended, Past
      <2>7. Known(r)'
            BY <2>3, <2>4 DEF ExecutionInv, Known, DuplicateKeys, NullKeys, OneRowPerKey, Versioned, OnAws, Ended, Past
      <2>8. Undisturbed(r)' BY <2>3, <2>4, <2>5 DEF Undisturbed, OnAws
      <2>9. Measures(r) BY <2>4 DEF Measures
      <2> QED BY <2>4, <2>6, <2>7, <2>8, <2>9 DEF Quiet, ExecutionInv
<1> QED BY <1>3, <1>4

LEMMA AwsLooksUp ==
    ASSUME NEW r \in Run, RowTypes, TargetInv, ExecutionInv(r), OnAws, Aws!DescribeTable(r)
    PROVE  Quiet(r)
<1> DEFINE to == IF ~exists THEN "create" ELSE IF contract.mode = "hash_diff" THEN "compare" ELSE "write"
<1>1. /\ pc[r] = "lookup" /\ pc' = [pc EXCEPT ![r] = to]
      /\ UNCHANGED <<contract, source, changes, table, locals, history>>
      BY DEF Aws!DescribeTable, Aws!Goto, Aws!locals, locals, Aws!table, table, Aws!history, history
<1>2. to \in RowLabel BY DEF RowLabel
<1> HIDE DEF to
<1>3. /\ RowTypes' /\ WritesNothing(r) /\ pc'[r] = to
      /\ trusted'[r] = trusted[r] /\ compared'[r] = compared[r] /\ clean'[r] = clean[r]
      /\ guarded'[r] = guarded[r] /\ scope'[r] = scope[r] /\ scanned'[r] = scanned[r]
      BY <1>1, <1>2, RunMoves
<1>4. contract' = contract /\ source' = source /\ changes' = changes /\ rows' = rows BY <1>3 DEF WritesNothing
<1>5. compared[r] = FALSE BY <1>1 DEF ExecutionInv, Place, Ended, OnAws, RowTypes
<1>6. Place(r)' BY <1>3, <1>4, <1>5 DEF Place, OnAws, to, Past
<1>7. Known(r)'
      BY <1>1, <1>3, <1>4 DEF ExecutionInv, Known, DuplicateKeys, NullKeys, OneRowPerKey, Versioned, OnAws, Ended, Past
<1>8. Undisturbed(r)' BY <1>3, <1>4, <1>5 DEF Undisturbed, TargetInv, OnAws, to
<1>9. Measures(r) BY <1>3 DEF Measures, to
<1> QED BY <1>3, <1>6, <1>7, <1>8, <1>9 DEF Quiet, ExecutionInv

LEMMA AwsCompares ==
    ASSUME NEW r \in Run, RowTypes, ExecutionInv(r), OnAws, Aws!Compare(r)
    PROVE  Quiet(r)
<1> DEFINE to == IF Candidates = {} THEN "unchanged" ELSE "write"
<1>1. /\ pc[r] = "compare" /\ pc' = [pc EXCEPT ![r] = to]
      /\ compared' = [compared EXCEPT ![r] = TRUE]
      /\ UNCHANGED <<contract, source, changes, exists, rows, commits, counted, trusted, scope,
                     scanned, attempt, guarded, clean, settled, measured>>
      BY AwsSame DEF Aws!Compare, Aws!Goto, Aws!table, Aws!history
<1>2. to \in RowLabel BY DEF RowLabel
<1>3. pc' \in [Run -> RowLabel] BY <1>1, <1>2 DEF RowTypes
<1>4. compared' \in [Run -> BOOLEAN] BY <1>1 DEF RowTypes
<1>5. RowTypes' BY <1>1, <1>3, <1>4 DEF RowTypes
<1>6. WritesNothing(r) BY <1>1 DEF RowTypes, WritesNothing
<1>7. /\ pc'[r] = to /\ compared'[r] = TRUE
      /\ trusted'[r] = trusted[r] /\ clean'[r] = clean[r] /\ guarded'[r] = guarded[r]
      BY <1>1 DEF RowTypes
<1>8. contract.mode = "hash_diff" BY <1>1 DEF ExecutionInv, Place, Ended, OnAws, Past
<1>9. Place(r)' BY <1>1, <1>7, <1>8 DEF Place, OnAws, Past
<1>10. Known(r)'
      BY <1>1, <1>7 DEF ExecutionInv, Known, DuplicateKeys, NullKeys, OneRowPerKey, Versioned, OnAws, Ended, Past
<1>11. Candidates' = Candidates BY <1>1 DEF Candidates, Changed, Same, Differs
<1>12. Undisturbed(r)'
      <2>1. pc'[r] = "unchanged" => Candidates = {} BY <1>7
      <2>2. pc'[r] \in {"unchanged", "write"} BY <1>7
      <2> HIDE DEF to
      <2> QED BY <1>1, <1>11, <2>1, <2>2 DEF Undisturbed, OnAws
<1>13. Measures(r) BY <1>7 DEF Measures
<1> QED BY <1>5, <1>6, <1>9, <1>10, <1>12, <1>13 DEF Quiet, ExecutionInv

LEMMA AwsMeasures ==
    ASSUME NEW r \in Run, RowTypes, ExecutionInv(r), OnAws, Aws!Measure(r)
    PROVE  Quiet(r)
<1> DEFINE df == IF compared[r] THEN Candidates ELSE source
           to == IF pc[r] = "unchanged" THEN "skipped" ELSE "done"
<1>1. /\ pc[r] \in {"written", "unchanged"} /\ pc' = [pc EXCEPT ![r] = to]
      /\ measured' = [measured EXCEPT ![r] = df]
      /\ UNCHANGED <<contract, source, changes, exists, rows, commits, counted, trusted, scope,
                     scanned, compared, attempt, guarded, clean, settled>>
      BY AwsSame DEF Aws!Measure, Aws!Goto, Aws!table, Aws!locals
<1>2. to \in RowLabel /\ to \in {"done", "skipped"} BY DEF RowLabel
<1>3. df \subseteq SourceRow BY DEF RowTypes, Candidates
<1> HIDE DEF to
<1>4. pc' \in [Run -> RowLabel] BY <1>1, <1>2 DEF RowTypes
<1>5. measured' \in [Run -> SUBSET SourceRow] BY <1>1, <1>3 DEF RowTypes
<1>6. RowTypes' BY <1>1, <1>4, <1>5 DEF RowTypes
<1>7. WritesNothing(r) BY <1>1 DEF RowTypes, WritesNothing
<1>8. /\ pc'[r] = to /\ compared'[r] = compared[r] /\ measured'[r] = df
      /\ trusted'[r] = trusted[r] /\ clean'[r] = clean[r] /\ guarded'[r] = guarded[r]
      BY <1>1 DEF RowTypes
<1>9. Place(r)' BY <1>1, <1>2, <1>8 DEF ExecutionInv, Place, OnAws, Ended
<1>10. Known(r)'
      BY <1>1, <1>2, <1>8 DEF ExecutionInv, Known, OnAws, Past
<1>11. Undisturbed(r)' BY <1>2, <1>8 DEF Undisturbed
<1>12. Measures(r)
      <2>1. clean[r] /\ compared[r] => Candidates = {} BY <1>1 DEF ExecutionInv, Undisturbed
      <2> QED BY <1>8, <1>1, <2>1 DEF Measures
<1> QED BY <1>6, <1>7, <1>9, <1>10, <1>11, <1>12 DEF Quiet, ExecutionInv

LEMMA AwsWrites ==
    ASSUME NEW r \in Run, RowTypes, ExecutionInv(r), OnAws, Aws!Write(r) \/ Aws!Create(r)
    PROVE  Committed(r, "written") /\ Writes(r)
<1>9. ASSUME NEW new, Aws!Commit(r, new, "written"),
             UNCHANGED <<contract, source, changes, locals, guarded, measured>>
      PROVE  Committed(r, "written") /\ rows' = new
      BY <1>9 DEF Aws!Commit, Committed, Aws!Goto
<1>1. ASSUME Aws!Write(r) PROVE Committed(r, "written") /\ Writes(r)
      <2>1. pc[r] = "write" /\ UNCHANGED <<contract, source, changes, locals, guarded, measured>>
            BY <1>1 DEF Aws!Write, Aws!locals, locals
      <2>2. CASE contract.mode = "append" /\ Aws!Commit(r, rows \cup Aws!InsertedAll(source), "written")
            BY <1>9, <2>1, <2>2, AwsSame DEF Writes
      <2>3. CASE contract.mode = "overwrite" /\ Aws!Commit(r, Aws!InsertedAll(source), "written")
            BY <1>9, <2>1, <2>3, AwsSame DEF Writes
      <2>4. CASE contract.mode \in {"upsert", "hash_diff"} /\ Aws!Merge(r)
            <3>1. Merges(r, IF compared[r] THEN Candidates ELSE source)
                  BY <2>4, AwsMerges DEF OnAws
            <3>2. PICK new: Aws!Commit(r, new, "written")
                  BY <2>4 DEF Aws!Merge, Aws!Ambiguous, Aws!Merged
            <3>3. Committed(r, "written") BY <1>9, <2>1, <3>2
            <3>4. Merges(r, source) \/ (compared[r] /\ Merges(r, Candidates)) BY <3>1
            <3> QED BY <2>1, <2>4, <3>3, <3>4 DEF Writes, MergeModes, OnAws
      <2> QED BY <1>1, <2>2, <2>3, <2>4 DEF Aws!Write
<1>2. ASSUME Aws!Create(r) PROVE Committed(r, "written") /\ Writes(r)
      <2>1. /\ pc[r] = "create" /\ UNCHANGED <<contract, source, changes, locals, guarded, measured>>
            /\ Aws!Commit(r, InsertedAll(source), "written")
            /\ contract.engine = "aws" => ~exists
            BY <1>2, AwsSame DEF Aws!Create, Aws!locals, locals, OnAws
      <2> QED BY <1>9, <2>1 DEF Writes, OnAws
<1> QED BY <1>1, <1>2

LEMMA AwsSteps ==
    ASSUME RowTypes, TargetInv, \A r \in Run: ExecutionInv(r), OnAws, Aws!Next
    PROVE  \E r \in Run: Quiet(r) \/ (Committed(r, "written") /\ Writes(r))
<1>1. PICK r \in Run:
         \/ Aws!Start(r) \/ Aws!CheckNulls(r) \/ Aws!CheckDuplicates(r) \/ Aws!DescribeTable(r)
         \/ Aws!Create(r) \/ Aws!Compare(r) \/ Aws!Write(r) \/ Aws!Measure(r) \/ Fail(r)
      BY AwsSame DEF Aws!Next
<1>2. ExecutionInv(r) OBVIOUS
<1> QED BY <1>1, <1>2, AwsStarts, AwsChecks, AwsLooksUp, AwsCompares, AwsMeasures, AwsWrites, Fails

-----------------------------------------------------------------------------
(* Snowflake *)

LEMMA SnowflakeSame ==
    /\ Snowflake!DuplicateKeys <=> DuplicateKeys
    /\ Snowflake!NullKeys = NullKeys
    /\ Snowflake!Ended = Ended
    /\ Snowflake!Candidates = Candidates
    /\ \A r, l: Snowflake!Begin(r, l) <=> Begin(r, l)
    /\ \A r: Snowflake!Fail(r) <=> Fail(r)
    /\ \A rs: Snowflake!InsertedAll(rs) = InsertedAll(rs)
<1>1. Snowflake!DuplicateKeys <=> DuplicateKeys BY DEF Snowflake!DuplicateKeys, DuplicateKeys
<1>2. Snowflake!NullKeys = NullKeys BY DEF Snowflake!NullKeys, NullKeys
<1>3. Snowflake!Ended = Ended BY DEF Snowflake!Ended, Ended
<1>4. Snowflake!Candidates = Candidates
      BY DEF Candidates, Snowflake!Candidates, Changed, Snowflake!Changed, Same, Snowflake!Same, Differs, Snowflake!Differs
<1>5. \A S: Snowflake!Cardinality(S) = Cardinality(S) BY DEF Snowflake!Cardinality, Cardinality
<1>6. \A r, l: Snowflake!Begin(r, l) <=> Begin(r, l)
      BY <1>5 DEF Snowflake!Begin, Begin, Snowflake!Goto, Goto, Snowflake!Ended, Ended
<1>7. \A r: Snowflake!Fail(r) <=> Fail(r)
      BY DEF Snowflake!Fail, Fail, Snowflake!Goto, Goto, Snowflake!Ended, Ended, Snowflake!locals, locals,
             Snowflake!table, table, Snowflake!history, history
<1>8. \A rs: Snowflake!InsertedAll(rs) = InsertedAll(rs)
      BY DEF Snowflake!InsertedAll, InsertedAll, Snowflake!Inserted, Inserted
<1> QED BY <1>1, <1>2, <1>3, <1>4, <1>6, <1>7, <1>8

OnSnowflake == contract \in Contract /\ contract.engine = "snowflake"

LEMMA SnowflakeStarts ==
    ASSUME NEW r \in Run, RowTypes, ExecutionInv(r), OnSnowflake, Snowflake!Start(r)
    PROVE  Quiet(r)
<1> DEFINE label == IF contract.mode \in {"append", "overwrite"} THEN "write" ELSE "nulls"
<1>a. exists \in BOOLEAN BY DEF RowTypes
<1>b. (exists \/ contract.mode # "overwrite") \in {exists, TRUE} BY <1>a
<1>1. Begin(r, label) /\ exists' \in {exists, TRUE} /\ trusted' = trusted
      BY <1>b, SnowflakeSame DEF Snowflake!Start
<1>2. label \in RowLabel BY DEF RowLabel
<1>3. UNCHANGED <<contract, source, changes>> BY <1>1 DEF Begin
<1>4. trusted[r] \in BOOLEAN /\ trusted' = [trusted EXCEPT ![r] = trusted[r]] BY <1>1 DEF RowTypes
<1> HIDE DEF label
<1>5. /\ RowTypes' /\ WritesNothing(r)
      /\ pc'[r] = label /\ trusted'[r] = trusted[r] /\ compared'[r] = FALSE
      /\ clean'[r] = TRUE /\ guarded'[r] = changes
      BY <1>1, <1>2, <1>4, Begins
<1>6. contract.mode \in Mode BY DEF OnSnowflake, Contract
<1>7. Place(r)' BY <1>3, <1>5, <1>6 DEF Place, label, OnSnowflake, Mode, Past
<1>8. OneRowPerKey' => pc'[r] = "nulls"
      BY <1>3, <1>5, <1>6 DEF label, OneRowPerKey, Mode, OnSnowflake
<1>9. Known(r)'
      BY <1>3, <1>5, <1>8 DEF Known, OnSnowflake, RowTypes, Past
<1>10. Undisturbed(r)'
      BY <1>3, <1>5 DEF Undisturbed, label, OnSnowflake
<1>11. Measures(r) BY <1>5 DEF Measures, label
<1> QED BY <1>5, <1>7, <1>9, <1>10, <1>11 DEF Quiet, ExecutionInv

LEMMA SnowflakeChecks ==
    ASSUME NEW r \in Run, RowTypes, ExecutionInv(r), OnSnowflake, Snowflake!CheckNulls(r) \/ Snowflake!CheckDuplicates(r)
    PROVE  Quiet(r)
<1>3. CASE Snowflake!CheckNulls(r)
      <2> DEFINE bad == NullKeys # {}
      <2>1. Check(r, "nulls", bad, "duplicates")
            BY <1>3, SnowflakeSame DEF Snowflake!CheckNulls, Snowflake!Check, Check,
               Snowflake!Goto, Goto, Snowflake!locals, locals, Snowflake!table, table
      <2>2. "nulls" \in RowLabel /\ bad \in BOOLEAN /\ "duplicates" \in RowLabel BY DEF RowLabel
      <2>3. UNCHANGED <<contract, source, changes, locals>> BY <2>1 DEF Check
      <2> HIDE DEF bad
      <2>4. /\ RowTypes' /\ WritesNothing(r)
            /\ pc[r] = "nulls" /\ pc'[r] = IF bad THEN "failed" ELSE "duplicates"
            /\ trusted'[r] = trusted[r] /\ compared'[r] = compared[r] /\ clean'[r] = clean[r]
            /\ guarded'[r] = IF ~trusted[r] THEN changes ELSE guarded[r]
            BY <2>1, <2>2, Checks
      <2>5. compared[r] = FALSE BY <2>4 DEF ExecutionInv, Place, Ended, OnSnowflake, RowTypes
      <2>6. Place(r)' BY <2>3, <2>4, <2>5 DEF Place, OnSnowflake, Ended
      <2>7. guarded'[r] <= changes /\ (clean[r] => guarded'[r] = changes)
            BY <2>4 DEF ExecutionInv, Known, RowTypes
      <2>8. Known(r)'
            BY <2>3, <2>4, <2>7 DEF Known, bad, OnSnowflake, NullKeys, Past, Ended
      <2>9. Undisturbed(r)' BY <2>3, <2>4, <2>5 DEF Undisturbed
      <2>10. Measures(r) BY <2>4 DEF Measures
      <2> QED BY <2>4, <2>6, <2>8, <2>9, <2>10 DEF Quiet, ExecutionInv
<1>4. CASE Snowflake!CheckDuplicates(r)
      <2>1. Check(r, "duplicates", DuplicateKeys, "write")
            BY <1>4, SnowflakeSame DEF Snowflake!CheckDuplicates, Snowflake!Check, Check,
               Snowflake!Goto, Goto, Snowflake!locals, locals, Snowflake!table, table
      <2>2. "duplicates" \in RowLabel /\ DuplicateKeys \in BOOLEAN /\ "write" \in RowLabel
            BY DEF RowLabel, DuplicateKeys
      <2>3. UNCHANGED <<contract, source, changes, locals>> BY <2>1 DEF Check
      <2>4. /\ RowTypes' /\ WritesNothing(r)
            /\ pc[r] = "duplicates" /\ pc'[r] = IF DuplicateKeys THEN "failed" ELSE "write"
            /\ trusted'[r] = trusted[r] /\ compared'[r] = compared[r] /\ clean'[r] = clean[r]
            /\ guarded'[r] = guarded[r]
            BY <2>1, <2>2, Checks
      <2>5. compared[r] = FALSE BY <2>4 DEF ExecutionInv, Place, Ended, OnSnowflake, RowTypes
      <2>6. Place(r)' BY <2>3, <2>4, <2>5 DEF Place, OnSnowflake, Ended, Past
      <2>7. Known(r)'
            BY <2>3, <2>4 DEF ExecutionInv, Known, DuplicateKeys, NullKeys, OneRowPerKey, Versioned, OnSnowflake, Ended, Past
      <2>8. Undisturbed(r)' BY <2>3, <2>4, <2>5 DEF Undisturbed, OnSnowflake
      <2>9. Measures(r) BY <2>4 DEF Measures
      <2> QED BY <2>4, <2>6, <2>7, <2>8, <2>9 DEF Quiet, ExecutionInv
<1> QED BY <1>3, <1>4

LEMMA SnowflakeWrites ==
    ASSUME NEW r \in Run, RowTypes, ExecutionInv(r), OnSnowflake, Snowflake!Write(r)
    PROVE  Committed(r, "done") /\ Writes(r)
<1>9. ASSUME NEW new, Snowflake!Commit(r, new, "done"),
             UNCHANGED <<contract, source, changes, locals, guarded, measured>>
      PROVE  Committed(r, "done") /\ rows' = new
      BY <1>9 DEF Snowflake!Commit, Committed, Snowflake!Goto
<1>1. pc[r] = "write" /\ UNCHANGED <<contract, source, changes, locals, guarded, measured>>
      BY DEF Snowflake!Write, Snowflake!locals, locals
<1>2. CASE contract.mode = "append" /\ Snowflake!Commit(r, rows \cup Snowflake!InsertedAll(source), "done")
      BY <1>9, <1>1, <1>2, SnowflakeSame DEF Writes
<1>3. CASE contract.mode = "overwrite" /\ Snowflake!Commit(r, Snowflake!InsertedAll(source), "done")
      BY <1>9, <1>1, <1>3, SnowflakeSame DEF Writes
<1>4. CASE contract.mode \in {"upsert", "hash_diff"}
      <2>1. Merges(r, source) BY <1>4, SnowflakeMerges DEF OnSnowflake
      <2>2. PICK new: Snowflake!Commit(r, new, "done") BY <1>4 DEF Snowflake!Write, Snowflake!Ambiguous, Snowflake!Merged
      <2>3. Committed(r, "done") BY <1>9, <1>1, <2>2
      <2> QED BY <1>1, <1>4, <2>1, <2>3 DEF Writes, MergeModes, OnSnowflake
<1> QED BY <1>2, <1>3, <1>4 DEF Snowflake!Write, Snowflake!Ambiguous, Snowflake!Merged

LEMMA SnowflakeSteps ==
    ASSUME RowTypes, TargetInv, \A r \in Run: ExecutionInv(r), OnSnowflake, Snowflake!Next
    PROVE  \E r \in Run: Quiet(r) \/ (Committed(r, "done") /\ Writes(r))
<1>1. PICK r \in Run:
         Snowflake!Start(r) \/ Snowflake!CheckNulls(r) \/ Snowflake!CheckDuplicates(r) \/ Snowflake!Write(r) \/ Fail(r)
      BY SnowflakeSame DEF Snowflake!Next
<1>2. ExecutionInv(r) OBVIOUS
<1> QED BY <1>1, <1>2, SnowflakeStarts, SnowflakeChecks, SnowflakeWrites, Fails

-----------------------------------------------------------------------------
(* What a commit leaves *)

LEMMA InsertedAllIs ==
    ASSUME RowTypes, NEW S \in FiniteSource
    PROVE  /\ InsertedAll(S) \subseteq TargetRow
           /\ IsFiniteSet(InsertedAll(S)) /\ Cardinality(InsertedAll(S)) = Cardinality(S)
           /\ \A u \in InsertedAll(S): \E s \in S: u = Inserted(s)
           /\ \A s \in S: /\ Inserted(s) \in InsertedAll(S)
                          /\ Inserted(s).key = s.key /\ Inserted(s).val = s.val
                          /\ Inserted(s).active = TRUE /\ Inserted(s).born = <<commits + 1, s>>
<1>1. \A s \in S: /\ Inserted(s) \in InsertedAll(S)
                  /\ Inserted(s).key = s.key /\ Inserted(s).val = s.val
                  /\ Inserted(s).active = TRUE /\ Inserted(s).born = <<commits + 1, s>>
      BY DEF InsertedAll, Inserted
<1>2. \A u \in InsertedAll(S): \E s \in S: u = Inserted(s) BY DEF InsertedAll
<1>3. S \subseteq SourceRow /\ IsFiniteSet(S) BY DEF FiniteSource
<1>4. InsertedAll(S) \subseteq TargetRow
      <2>1. ASSUME NEW s \in S PROVE Inserted(s) \in TargetRow
            BY <1>3 DEF RowTypes, Inserted, TargetRow, SourceRow
      <2> QED BY <1>2, <2>1
<1> DEFINE f == [s \in S |-> Inserted(s)]
<1>5. f \in [S -> InsertedAll(S)] BY <1>1
<1>6. \A s, x \in S: f[s] = f[x] => s = x
      <2>1. SUFFICES ASSUME NEW s \in S, NEW x \in S, Inserted(s) = Inserted(x) PROVE s = x
            OBVIOUS
      <2>2. <<commits + 1, s>> = <<commits + 1, x>> BY <1>1, <2>1
      <2> QED BY <2>2
<1>7. \A u \in InsertedAll(S): \E s \in S: f[s] = u BY <1>2
<1> HIDE DEF f
<1>8. f \in Bijection(S, InsertedAll(S))
      BY <1>5, <1>6, <1>7 DEF Bijection, Injection, Surjection, IsInjective
<1>9. ExistsBijection(S, InsertedAll(S)) BY <1>8 DEF ExistsBijection
<1>10. IsFiniteSet(InsertedAll(S)) /\ Cardinality(InsertedAll(S)) = Cardinality(S)
      BY <1>3, <1>9, FS_Bijection
<1> QED BY <1>1, <1>2, <1>4, <1>10

LEMMA CandidatesAre == Candidates \subseteq source
BY DEF Candidates

LEMMA MergeLeaves ==
    ASSUME RowTypes, TargetInv, NEW r \in Run, NEW df, df \subseteq source, Merges(r, df)
    PROVE  /\ rows' \subseteq TargetRow /\ IsFiniteSet(rows')
           /\ \A u \in rows': u.born[1] <= commits + 1
           /\ \A u, v \in rows': u.born = v.born => u = v
           /\ contract.mode # "snapshot" => \A u \in rows': u.active
           /\ \A t \in rows: \E u \in rows': u.born = t.born
<1>1. \A u \in rows': \/ \E t \in rows: Became(r, df, t, u)
                      \/ \E s \in df: Unmatched(r, s) /\ IsNewRow(s, u)
      BY DEF Merges
<1>2. rows' \subseteq TargetRow BY <1>1 DEF Became, IsNewRow
<1>3. \A t \in rows: t \in TargetRow /\ t.born[1] \in Nat /\ t.born[1] <= commits
      BY DEF RowTypes, TargetRow, TargetInv
<1>4. ASSUME NEW u \in rows' PROVE u.born[1] <= commits + 1
      <2>1. CASE \E t \in rows: Became(r, df, t, u)
            BY <1>3, <2>1 DEF Became, RowTypes
      <2>2. CASE \E s \in df: IsNewRow(s, u)
            BY <2>2 DEF IsNewRow, RowTypes
      <2> QED BY <1>1, <2>1, <2>2
<1>5. ASSUME NEW u \in rows', NEW v \in rows', u.born = v.born PROVE u = v
      <2>1. u \in TargetRow /\ v \in TargetRow BY <1>2
      <2>2. SUFFICES u.key = v.key /\ u.val = v.val /\ u.active = v.active
            BY <1>5, <2>1 DEF TargetRow
      <2>3. ASSUME NEW t \in rows, Became(r, df, t, u), NEW x \in rows, Became(r, df, x, v)
            PROVE  u.key = v.key /\ u.val = v.val /\ u.active = v.active
            <3>1. t = x BY <1>5, <2>3 DEF Became, TargetInv
            <3>2. \A s, y \in df: On(r, t, s) /\ On(r, t, y) /\ When(t, s) /\ When(t, y) => s = y
                  BY DEF Merges
            <3> QED BY <2>3, <3>1, <3>2 DEF Became
      <2>4. ASSUME NEW t \in rows, Became(r, df, t, u), NEW s \in df, IsNewRow(s, v)
            PROVE  FALSE
            <3>0. t.born = <<commits + 1, s>> BY <1>5, <2>4 DEF Became, IsNewRow
            <3>1. t.born[1] = commits + 1 BY <3>0
            <3> QED BY <1>3, <3>1 DEF RowTypes
      <2>5. ASSUME NEW t \in rows, Became(r, df, t, v), NEW s \in df, IsNewRow(s, u)
            PROVE  FALSE
            <3>0. t.born = <<commits + 1, s>> BY <1>5, <2>5 DEF Became, IsNewRow
            <3>1. t.born[1] = commits + 1 BY <3>0
            <3> QED BY <1>3, <3>1 DEF RowTypes
      <2>6. ASSUME NEW s \in df, IsNewRow(s, u), NEW x \in df, IsNewRow(x, v)
            PROVE  u.key = v.key /\ u.val = v.val /\ u.active = v.active
            <3>0. <<commits + 1, s>> = <<commits + 1, x>> BY <1>5, <2>6 DEF IsNewRow
            <3>1. s = x BY <3>0
            <3>2. u.key = v.key /\ u.val = v.val BY <2>6, <3>1 DEF IsNewRow
            <3>3. Gone(u) <=> Gone(v) BY <3>2 DEF Gone, Same
            <3> QED BY <2>6, <3>2, <3>3 DEF IsNewRow
      <2> QED BY <1>1, <2>3, <2>4, <2>5, <2>6
<1>6. ASSUME contract.mode # "snapshot", NEW u \in rows' PROVE u.active
      <2>1. \A t: ~Gone(t) BY <1>6 DEF Gone
      <2>2. CASE \E t \in rows: Became(r, df, t, u)
            BY <1>6, <2>1, <2>2 DEF Became, TargetInv
      <2>3. CASE \E s \in df: IsNewRow(s, u)
            BY <2>1, <2>3 DEF IsNewRow
      <2> QED BY <1>1, <2>2, <2>3
<1>7. \A t \in rows: \E u \in rows': u.born = t.born BY DEF Merges, Became
<1>8. IsFiniteSet(rows')
      <2> DEFINE B == {t.born: t \in rows}
                 N == {<<commits + 1, s>>: s \in source}
                 f == [t \in rows |-> t.born]
                 g == [s \in source |-> <<commits + 1, s>>]
                 h == [u \in rows' |-> u.born]
      <2>1. f \in Surjection(rows, B) BY DEF Surjection
      <2>2. g \in Surjection(source, N) BY DEF Surjection
      <2>3. IsFiniteSet(B) BY <2>1, FS_Surjection DEF RowTypes
      <2>4. IsFiniteSet(N) BY <2>2, FS_Surjection DEF RowTypes
      <2>5. IsFiniteSet(B \cup N) BY <2>3, <2>4, FS_Union
      <2>6. \A u \in rows': u.born \in B \cup N
            BY <1>1 DEF Became, IsNewRow
      <2>7. h \in Injection(rows', B \cup N)
            BY <1>5, <2>6 DEF Injection, IsInjective
      <2> HIDE DEF h, B, N
      <2> QED BY <2>5, <2>7, FS_Injection
<1> QED BY <1>2, <1>4, <1>5, <1>6, <1>7, <1>8

\* Rows that are kept, next to rows that are inserted.
LEMMA InsertLeaves ==
    ASSUME RowTypes, TargetInv, NEW K, K \subseteq rows, NEW S \in FiniteSource,
           rows' = K \cup InsertedAll(S)
    PROVE  /\ rows' \subseteq TargetRow /\ IsFiniteSet(rows')
           /\ \A u \in rows': u.born[1] <= commits + 1
           /\ \A u, v \in rows': u.born = v.born => u = v
           /\ contract.mode # "snapshot" => \A u \in rows': u.active
           /\ K \cap InsertedAll(S) = {}
<1>1. /\ InsertedAll(S) \subseteq TargetRow /\ IsFiniteSet(InsertedAll(S))
      /\ \A u \in InsertedAll(S): \E s \in S: u = Inserted(s)
      /\ \A s \in S: Inserted(s).active = TRUE /\ Inserted(s).born = <<commits + 1, s>>
      BY InsertedAllIs
<1>2. \A t \in rows: t \in TargetRow /\ t.born[1] \in Nat /\ t.born[1] <= commits
      BY DEF RowTypes, TargetRow, TargetInv
<1>3. IsFiniteSet(K) BY FS_Subset DEF RowTypes
<1>4. rows' \subseteq TargetRow BY <1>1, <1>2
<1>5. IsFiniteSet(rows') BY <1>1, <1>3, FS_Union
<1>6. \A u \in rows': \/ u \in K /\ u.born[1] <= commits /\ u.born[1] \in Nat
                      \/ \E s \in S: u = Inserted(s) /\ u.born = <<commits + 1, s>> /\ u.active = TRUE
      BY <1>1, <1>2
<1>7. commits \in Nat BY DEF RowTypes
<1>8. \A u \in rows': u.born[1] <= commits + 1 BY <1>6, <1>7
<1>9. ASSUME NEW u \in rows', NEW v \in rows', u.born = v.born PROVE u = v
      <2>1. CASE u \in K /\ v \in K BY <1>9, <2>1 DEF TargetInv
      <2>2. CASE u \notin K /\ v \notin K
            <3>1. PICK s \in S: u = Inserted(s) /\ u.born = <<commits + 1, s>> BY <1>6, <2>2
            <3>2. PICK x \in S: v = Inserted(x) /\ v.born = <<commits + 1, x>> BY <1>6, <2>2
            <3>3. s = x BY <1>9, <3>1, <3>2
            <3> QED BY <3>1, <3>2, <3>3
      <2>3. ASSUME NEW a \in rows', NEW b \in rows', a \in K, b \notin K, a.born = b.born PROVE FALSE
            <3>1. b.born[1] = commits + 1 BY <1>6, <2>3
            <3>2. a.born[1] <= commits BY <1>2, <2>3
            <3> QED BY <1>7, <2>3, <3>1, <3>2
      <2> QED BY <1>9, <2>1, <2>2, <2>3
<1>10. ASSUME contract.mode # "snapshot", NEW u \in rows' PROVE u.active
      BY <1>6, <1>10 DEF TargetInv
<1>11. K \cap InsertedAll(S) = {}
      <2>1. SUFFICES ASSUME NEW u \in K, u \in InsertedAll(S) PROVE FALSE OBVIOUS
      <2>2. u.born[1] = commits + 1 BY <1>1, <2>1
      <2> QED BY <1>2, <1>7, <2>1, <2>2
<1> QED BY <1>4, <1>5, <1>8, <1>9, <1>10, <1>11

\* Where a commit leaves its run.
Landing == IF contract.engine \in {"fabric", "aws"} THEN "written" ELSE "done"

LEMMA WriteLeaves ==
    ASSUME RowTypes, TargetInv, NEW r \in Run, Writes(r)
    PROVE  /\ rows' \subseteq TargetRow /\ IsFiniteSet(rows')
           /\ \A u \in rows': u.born[1] <= commits + 1
           /\ \A u, v \in rows': u.born = v.born => u = v
           /\ contract.mode # "snapshot" => \A u \in rows': u.active
<1>1. source \in FiniteSource /\ scanned[r] \in FiniteSource BY DEF RowTypes, FiniteSource
<1>2. ASSUME NEW K, K \subseteq rows, NEW S \in FiniteSource, rows' = K \cup InsertedAll(S)
      PROVE  /\ rows' \subseteq TargetRow /\ IsFiniteSet(rows')
             /\ \A u \in rows': u.born[1] <= commits + 1
             /\ \A u, v \in rows': u.born = v.born => u = v
             /\ contract.mode # "snapshot" => \A u \in rows': u.active
      BY <1>2, InsertLeaves
<1>3. CASE Merges(r, source) BY <1>3, MergeLeaves
<1>4. CASE Merges(r, Candidates) BY <1>4, CandidatesAre, MergeLeaves
<1>5. CASE rows' = rows \cup InsertedAll(source) BY <1>1, <1>2, <1>5
<1>6. CASE rows' = InsertedAll(source)
      <2>1. rows' = {} \cup InsertedAll(source) /\ {} \subseteq rows BY <1>6
      <2> QED BY <1>1, <1>2, <2>1
<1>7. CASE rows' = {t \in rows: Partition(t.val) \notin scope[r]} \cup InsertedAll(source)
      <2>1. {t \in rows: Partition(t.val) \notin scope[r]} \subseteq rows OBVIOUS
      <2> QED BY <1>1, <1>2, <1>7, <2>1
<1>8. CASE rows' = rows \cup InsertedAll(scanned[r]) BY <1>1, <1>2, <1>8
<1> QED BY <1>3, <1>4, <1>5, <1>6, <1>7, <1>8 DEF Writes

Twice(S) == \E s, t \in S: s # t /\ s.key = t.key

\* The rows are what a write of S leaves, and would leave again.
Reflects(S) ==
    /\ OneRowPerKey /\ contract.mode # "partition"
          /\ (contract.mode = "snapshot" => contract.metrics \/ ~Twice(S)) =>
          /\ \A s \in S: \E t \in rows: Same(t, s) /\ t.val = s.val
          /\ \A t \in rows, s \in S: Same(t, s) => \E x \in S: Same(t, x) /\ t.val = x.val
          /\ contract.mode # "upsert" => ~Twice(S)
          /\ contract.mode = "snapshot" => \A t \in rows: t.active <=> \E s \in S: Same(t, s)
    /\ contract.mode = "partition" => \A s \in S: \E t \in rows: t.key = s.key /\ t.val = s.val
    /\ Versioned /\ ~Twice(S) =>
          \A s \in S: s.key # Null => \E t \in Newest(rows): t.key = s.key /\ t.val = s.val

SettledInv == \A S \in settled: Reflects(S)

\* What an undisturbed write of a mode with a key knows of its source.
LEMMA KnownIs ==
    ASSUME NEW r \in Run, ExecutionInv(r), clean[r], OneRowPerKey, pc[r] \in Past
    PROVE  /\ contract.engine # "databricks" => NullKeys = {}
           /\ ~DuplicateKeys \/ (contract.engine = "databricks" /\ ~contract.metrics)
BY DEF ExecutionInv, Known

\* Matching needs a key that is not NULL, except on Databricks.
LEMMA SameIs ==
    /\ \A t, u, s: u.key = t.key => (Same(t, s) <=> Same(u, s))
    /\ \A t, s, x: Same(t, s) /\ x.key = s.key => Same(t, x)
    /\ \A t, s: Same(t, s) => t.key = s.key
BY DEF Same

LEMMA MergeHits ==
    ASSUME NEW r \in Run, NEW df, Merges(r, df), contract.mode \in MergeModes, contract.mode # "partition",
           df = source \/ (df = Candidates /\ contract.mode = "hash_diff"),
           NEW t \in rows, NEW u \in rows', Became(r, df, t, u),
           NEW s \in source, Same(t, s)
    PROVE  \E x \in source: Same(t, x) /\ u.val = x.val
<1>1. df \subseteq source BY CandidatesAre
<1>2. CASE \E x \in df: On(r, t, x) /\ u.val = x.val BY <1>1, <1>2 DEF On
<1>3. CASE (\A x \in df: ~(On(r, t, x) /\ When(t, x))) /\ u.val = t.val
      <2>1. On(r, t, s) BY DEF On
      <2>2. CASE s \in df
            <3>1. ~When(t, s) BY <1>3, <2>1, <2>2
            <3>2. t.val = s.val BY <3>1 DEF When, MergeModes, Differs
            <3> QED BY <1>3, <3>2
      <2>3. CASE s \notin df
            <3>1. df = Candidates BY <2>3
            <3>2. t \notin Changed(s) BY <2>3, <3>1 DEF Candidates
            <3>3. t.val = s.val BY <3>2 DEF Changed, Differs
            <3> QED BY <1>3, <3>3
      <2> QED BY <2>2, <2>3
<1> QED BY <1>2, <1>3 DEF Became

LEMMA MergeSettles ==
    ASSUME RowTypes, TargetInv, contract \in Contract, NEW r \in Run, ExecutionInv(r), clean[r],
           pc[r] = "write", contract.mode \in MergeModes,
           contract.mode = "partition" => contract.engine = "databricks",
           contract.mode = "hash_diff" => contract.engine # "databricks",
           NEW df, df = source \/ (df = Candidates /\ compared[r]), Merges(r, df),
           contract' = contract, source' = source
    PROVE  Reflects(source)'
<1>1. OneRowPerKey /\ ~Versioned BY DEF OneRowPerKey, Versioned, MergeModes
<1>2. df \subseteq source BY CandidatesAre
<1>3. compared[r] => contract.mode = "hash_diff" BY DEF ExecutionInv, Place
<1>4. /\ contract.engine # "databricks" => NullKeys = {}
      /\ ~DuplicateKeys \/ (contract.engine = "databricks" /\ ~contract.metrics)
      BY <1>1, KnownIs DEF Past
<1>5. /\ \A t \in rows: \E u \in rows': Became(r, df, t, u)
      /\ \A s \in df: Unmatched(r, s) => \E u \in rows': IsNewRow(s, u)
      /\ \A u \in rows': \/ \E t \in rows: Became(r, df, t, u)
                         \/ \E s \in df: Unmatched(r, s) /\ IsNewRow(s, u)
      /\ \A t \in rows: \A s, v \in df:
            On(r, t, s) /\ On(r, t, v) /\ When(t, s) /\ When(t, v) => s = v
      BY DEF Merges
<1>6. \A s \in source: s.key = Null => contract.engine = "databricks" BY <1>4 DEF NullKeys
<1>7. CASE contract.mode = "partition"
      <2>1. df = source BY <1>3, <1>7
      <2>2. ASSUME NEW s \in source PROVE \E u \in rows': u.key = s.key /\ u.val = s.val
            <3>1. CASE Unmatched(r, s) BY <1>5, <2>1, <3>1 DEF IsNewRow
            <3>2. CASE ~Unmatched(r, s)
                  <4>1. PICK t \in rows: On(r, t, s) BY <3>2 DEF Unmatched
                  <4>2. \A x: When(t, x) BY <1>7 DEF When
                  <4>3. PICK u \in rows': Became(r, df, t, u) BY <1>5
                  <4>4. PICK x \in df: On(r, t, x) /\ u.val = x.val
                        BY <2>1, <4>1, <4>2, <4>3 DEF Became
                  <4>5. x = s BY <1>5, <2>1, <4>1, <4>2, <4>4
                  <4>6. u.key = s.key BY <4>1, <4>3, SameIs DEF Became, On
                  <4> QED BY <4>4, <4>5, <4>6
            <3> QED BY <3>1, <3>2
      <2> QED BY <1>7, <2>2 DEF Reflects, Versioned
<1>8. CASE contract.mode # "partition"
      <2>1. \A t, s: On(r, t, s) <=> Same(t, s) BY <1>8 DEF On
      <2>2. df = source \/ (df = Candidates /\ contract.mode = "hash_diff") BY <1>3
      <2>3. SUFFICES ASSUME contract.mode = "snapshot" => contract.metrics \/ ~Twice(source)
                     PROVE  /\ \A s \in source: \E u \in rows': Same(u, s) /\ u.val = s.val
                            /\ \A u \in rows', s \in source:
                                  Same(u, s) => \E x \in source: Same(u, x) /\ u.val = x.val
                            /\ contract.mode # "upsert" => ~Twice(source)
                            /\ contract.mode = "snapshot" =>
                                  \A u \in rows': u.active <=> \E s \in source: Same(u, s)
            BY <1>1, <1>8 DEF Reflects, Versioned, OneRowPerKey, Same, Twice
      <2>4. contract.mode # "upsert" => ~Twice(source)
            BY <1>4, <1>8, <2>3 DEF Twice, DuplicateKeys, MergeModes
      <2>5. ASSUME NEW s \in source PROVE \E u \in rows': Same(u, s) /\ u.val = s.val
            <3>1. CASE \E t \in rows: Same(t, s)
                  <4>1. PICK t \in rows: Same(t, s) BY <3>1
                  <4>2. PICK u \in rows': Became(r, df, t, u) BY <1>5
                  <4>3. PICK x \in source: Same(t, x) /\ u.val = x.val
                        BY <1>8, <2>2, <4>1, <4>2, MergeHits
                  <4>4. u.key = t.key BY <4>2 DEF Became
                  <4>5. x = s
                        <5>1. CASE ~DuplicateKeys BY <4>1, <4>3, <5>1, SameIs DEF DuplicateKeys
                        <5>2. CASE contract.mode = "snapshot" BY <2>4, <4>1, <4>3, <5>2, SameIs DEF Twice
                        <5>3. CASE contract.mode = "upsert"
                              <6>1. When(t, x) /\ When(t, s) BY <5>3 DEF When
                              <6>2. df = source BY <2>2, <5>3
                              <6> QED BY <1>5, <2>1, <4>1, <4>3, <6>1, <6>2
                        <5> QED BY <1>4, <1>8, <5>1, <5>2, <5>3 DEF MergeModes
                  <4> QED BY <4>1, <4>3, <4>4, <4>5, SameIs
            <3>2. CASE \A t \in rows: ~Same(t, s)
                  <4>1. s \in df BY <2>2, <3>2 DEF Candidates
                  <4>2. Unmatched(r, s) BY <2>1, <3>2 DEF Unmatched
                  <4>3. PICK u \in rows': IsNewRow(s, u) BY <1>5, <4>1, <4>2
                  <4>4. u.key = s.key /\ u.val = s.val BY <4>3 DEF IsNewRow
                  <4> QED BY <1>6, <4>4 DEF Same
            <3> QED BY <3>1, <3>2
      <2>6. ASSUME NEW u \in rows', NEW s \in source, Same(u, s)
            PROVE  \E x \in source: Same(u, x) /\ u.val = x.val
            <3>1. CASE \E t \in rows: Became(r, df, t, u)
                  <4>1. PICK t \in rows: Became(r, df, t, u) BY <3>1
                  <4>2. u.key = t.key BY <4>1 DEF Became
                  <4>3. Same(t, s) BY <2>6, <4>2, SameIs
                  <4>4. PICK x \in source: Same(t, x) /\ u.val = x.val
                        BY <1>8, <2>2, <4>1, <4>3, MergeHits
                  <4> QED BY <4>2, <4>4, SameIs
            <3>2. CASE \E x \in df: IsNewRow(x, u)
                  <4>1. PICK x \in df: IsNewRow(x, u) BY <3>2
                  <4>2. x \in source /\ u.key = x.key /\ u.val = x.val BY <1>2, <4>1 DEF IsNewRow
                  <4>3. x.key = s.key BY <2>6, <4>2, SameIs
                  <4> QED BY <2>6, <4>2, <4>3, SameIs
            <3> QED BY <1>5, <3>1, <3>2
      <2>7. ASSUME contract.mode = "snapshot", NEW u \in rows'
            PROVE  u.active <=> \E s \in source: Same(u, s)
            <3>1. df = source BY <2>2, <2>7
            <3>2. CASE \E t \in rows: Became(r, df, t, u)
                  <4>1. PICK t \in rows: Became(r, df, t, u) BY <3>2
                  <4>2. u.key = t.key BY <4>1 DEF Became
                  <4>3. \A s: Same(t, s) <=> Same(u, s) BY <4>2, SameIs
                  <4>4. t.active \in BOOLEAN BY DEF RowTypes, TargetRow
                  <4>5. CASE \E s \in df: On(r, t, s) /\ When(t, s) /\ u.val = s.val /\ u.active = TRUE
                        BY <2>1, <3>1, <4>3, <4>5
                  <4>6. CASE /\ \A s \in df: ~(On(r, t, s) /\ When(t, s))
                             /\ u.active = (t.active /\ ~Gone(t))
                        <5>1. \A s \in source: Same(t, s) => t.active
                              BY <2>1, <2>7, <3>1, <4>4, <4>6 DEF When
                        <5>2. Gone(t) <=> \A s \in source: ~Same(t, s) BY <2>7 DEF Gone
                        <5> QED BY <4>3, <4>4, <4>6, <5>1, <5>2
                  <4> QED BY <4>1, <4>5, <4>6 DEF Became
            <3>3. CASE \E x \in df: IsNewRow(x, u) BY <2>7, <3>3 DEF IsNewRow, Gone
            <3> QED BY <1>5, <3>2, <3>3
      <2> QED BY <2>4, <2>5, <2>6, <2>7
<1> QED BY <1>7, <1>8

LEMMA SourceIs ==
    ASSUME RowTypes
    PROVE  source \in FiniteSource
BY DEF RowTypes, FiniteSource

LEMMA CreateSettles ==
    ASSUME RowTypes, contract \in Contract, NEW r \in Run, ExecutionInv(r), clean[r],
           pc[r] = "create", contract.engine \in {"fabric", "aws"}, rows' = InsertedAll(source),
           contract' = contract, source' = source
    PROVE  Reflects(source)'
<1>1. ~Versioned BY DEF Versioned
<1>2. OneRowPerKey => NullKeys = {} /\ ~DuplicateKeys BY KnownIs DEF Past
<1>3. /\ \A u \in rows': \E s \in source: u = Inserted(s)
      /\ \A s \in source: /\ Inserted(s) \in rows'
                          /\ Inserted(s).key = s.key /\ Inserted(s).val = s.val
                          /\ Inserted(s).active = TRUE
      BY InsertedAllIs, SourceIs
<1>4. contract.mode = "partition" => \A s \in source: \E u \in rows': u.key = s.key /\ u.val = s.val
      BY <1>3
<1>5. ASSUME OneRowPerKey
      PROVE  /\ \A s \in source: \E u \in rows': Same(u, s) /\ u.val = s.val
             /\ \A u \in rows', s \in source:
                   Same(u, s) => \E x \in source: Same(u, x) /\ u.val = x.val
             /\ ~Twice(source) /\ \A u \in rows': u.active <=> \E s \in source: Same(u, s)
      <2>1. \A s \in source: s.key # Null BY <1>2, <1>5 DEF NullKeys
      <2>2. \A s \in source: Same(Inserted(s), s) BY <1>3, <2>1 DEF Same
      <2>3. ~Twice(source) BY <1>2, <1>5 DEF Twice, DuplicateKeys
      <2> QED BY <1>3, <2>2, <2>3
<1> QED BY <1>1, <1>4, <1>5 DEF Reflects, Versioned, OneRowPerKey, Same, Twice

\* The versions that an INSERT joins: the newest of their keys, and one of
\* each key that has a newest one.
LEMMA ChoiceIs ==
    ASSUME RowTypes, NEW latest \in Choices, ~contract.ordered => KeysAreUnique
    PROVE  /\ latest \subseteq Newest(rows)
           /\ \A t \in Newest(rows): \E u \in latest: u.key = t.key
<1>0. \A t \in rows: t.born[1] \in Nat BY DEF RowTypes, TargetRow
<1>1. CASE ~contract.ordered
      <2>1. latest = rows BY <1>1 DEF Choices
      <2>2. rows \subseteq Newest(rows) BY <1>0, <1>1 DEF Newest, KeysAreUnique
      <2> QED BY <2>1, <2>2 DEF Newest
<1>2. CASE contract.ordered
      <2> DEFINE newest == UNION {Databricks!Latest(t.key): t \in rows}
      <2>1. latest \subseteq newest
            /\ \A t \in newest: Cardinality({u \in latest: u.key = t.key}) = 1
            BY <1>2, DatabricksSame DEF Choices, Databricks!LatestChoices
      <2>2. newest = Newest(rows) BY DEF Databricks!Latest, Databricks!Versions, Newest
      <2> HIDE DEF newest
      <2>3. ASSUME NEW t \in Newest(rows) PROVE \E u \in latest: u.key = t.key
            <3>1. Cardinality({u \in latest: u.key = t.key}) = 1 BY <2>1, <2>2
            <3>2. {u \in latest: u.key = t.key} # {}
                  <4>1. SUFFICES ASSUME {u \in latest: u.key = t.key} = {} PROVE FALSE OBVIOUS
                  <4>2. Cardinality({}) = 1 BY <3>1, <4>1
                  <4> QED BY <4>2, FS_EmptySet
            <3> QED BY <3>2
      <2> QED BY <2>1, <2>2, <2>3
<1> QED BY <1>1, <1>2

\* What an undisturbed INSERT of hash-diff reads, and leaves.
LEMMA InsertIsFresh ==
    ASSUME RowTypes, TargetInv, NEW r \in Run, ExecutionInv(r), clean[r], pc[r] = "insert",
           rows' = rows \cup InsertedAll(scanned[r])
    PROVE  \E latest:
              /\ latest \subseteq Newest(rows)
              /\ \A t \in Newest(rows): \E u \in latest: u.key = t.key
              /\ scanned[r] \subseteq source
              /\ \A s \in source:
                    s \in scanned[r] <=> \/ s.key = Null
                                         \/ \A t \in latest: t.key # s.key
                                         \/ \E t \in latest: t.key = s.key /\ t.val # s.val
<1>1. PICK latest \in Choices: scanned[r] = Fresh(latest) BY DEF ExecutionInv, Undisturbed
<1>2. ~contract.ordered => KeysAreUnique BY DEF ExecutionInv, Undisturbed
<1>3. /\ latest \subseteq Newest(rows)
      /\ \A t \in Newest(rows): \E u \in latest: u.key = t.key
      BY <1>2, ChoiceIs
<1>4. /\ scanned[r] \subseteq source
      /\ \A s \in source:
            s \in scanned[r] <=> \/ s.key = Null
                                 \/ \A t \in latest: t.key # s.key
                                 \/ \E t \in latest: t.key = s.key /\ t.val # s.val
      BY <1>1 DEF Fresh, Databricks!IsNew, Databricks!Differs
<1> QED BY <1>3, <1>4

\* The newest versions after an INSERT of the rows S.
LEMMA NewestAre ==
    ASSUME RowTypes, TargetInv, NEW S \in FiniteSource, rows' = rows \cup InsertedAll(S)
    PROVE  /\ \A s \in S: Inserted(s) \in Newest(rows')
           /\ \A t \in Newest(rows): (\A s \in S: s.key # t.key) => t \in Newest(rows')
           /\ \A u \in Newest(rows'):
                 \/ \E s \in S: u = Inserted(s)
                 \/ u \in Newest(rows) /\ \A s \in S: s.key # u.key
<1>1. /\ \A u \in InsertedAll(S): \E s \in S: u = Inserted(s)
      /\ \A s \in S: /\ Inserted(s) \in InsertedAll(S) /\ Inserted(s).key = s.key
                     /\ Inserted(s).born = <<commits + 1, s>>
      BY InsertedAllIs
<1>2. \A s \in S: Inserted(s).born[1] = commits + 1 BY <1>1
<1>3. commits \in Nat /\ \A t \in rows: t.born[1] \in Nat /\ t.born[1] <= commits
      BY DEF RowTypes, TargetRow, TargetInv
<1>4. \A u \in rows': u.born[1] <= commits + 1 /\ u.born[1] \in Nat BY <1>1, <1>2, <1>3
<1>5. ASSUME NEW s \in S PROVE Inserted(s) \in Newest(rows')
      BY <1>1, <1>2, <1>4 DEF Newest
<1>6. ASSUME NEW t \in Newest(rows), \A s \in S: s.key # t.key PROVE t \in Newest(rows')
      <2>1. \A u \in rows': u.key = t.key => u \in rows BY <1>1, <1>6
      <2> QED BY <2>1 DEF Newest
<1>7. ASSUME NEW u \in Newest(rows'), \A s \in S: u # Inserted(s)
      PROVE  u \in Newest(rows) /\ \A s \in S: s.key # u.key
      <2>1. u \in rows BY <1>1, <1>7 DEF Newest
      <2>2. u \in Newest(rows) BY <2>1 DEF Newest
      <2>3. ASSUME NEW s \in S, s.key = u.key PROVE FALSE
            <3>1. Inserted(s) \in rows' /\ Inserted(s).key = u.key BY <1>1, <2>3
            <3>2. Inserted(s).born[1] <= u.born[1] BY <3>1 DEF Newest
            <3> QED BY <1>2, <1>3, <2>1, <3>2
      <2> QED BY <2>2, <2>3
<1> QED BY <1>5, <1>6, <1>7

LEMMA InsertSettles ==
    ASSUME RowTypes, TargetInv, contract \in Contract, NEW r \in Run, ExecutionInv(r), clean[r],
           pc[r] = "insert", Versioned, rows' = rows \cup InsertedAll(scanned[r]),
           contract' = contract, source' = source
    PROVE  Reflects(source)'
<1>1. ~OneRowPerKey /\ contract.mode # "partition" BY DEF OneRowPerKey, Versioned
<1>2. PICK latest:
         /\ latest \subseteq Newest(rows)
         /\ \A t \in Newest(rows): \E u \in latest: u.key = t.key
         /\ scanned[r] \subseteq source
         /\ \A s \in source:
               s \in scanned[r] <=> \/ s.key = Null
                                    \/ \A t \in latest: t.key # s.key
                                    \/ \E t \in latest: t.key = s.key /\ t.val # s.val
      BY InsertIsFresh
<1>3. scanned[r] \in FiniteSource BY DEF RowTypes
<1>4. /\ \A s \in scanned[r]: Inserted(s) \in Newest(rows')
      /\ \A t \in Newest(rows): (\A s \in scanned[r]: s.key # t.key) => t \in Newest(rows')
      BY <1>3, NewestAre
<1>5. ASSUME ~Twice(source), NEW s \in source, s.key # Null
      PROVE  \E t \in Newest(rows'): t.key = s.key /\ t.val = s.val
      <2>1. CASE s \in scanned[r]
            BY <1>3, <1>4, <2>1, InsertedAllIs
      <2>2. CASE s \notin scanned[r]
            <3>1. PICK t \in latest: t.key = s.key /\ t.val = s.val BY <1>2, <1>5, <2>2
            <3>2. \A x \in scanned[r]: x.key # t.key BY <1>2, <1>5, <2>2, <3>1 DEF Twice
            <3> QED BY <1>2, <1>4, <3>1, <3>2
      <2> QED BY <2>1, <2>2
<1> QED BY <1>1, <1>5 DEF Reflects, OneRowPerKey, Versioned, Twice, Newest

LEMMA WriteSettles ==
    ASSUME RowTypes, TargetInv, contract \in Contract, NEW r \in Run, ExecutionInv(r), clean[r],
           Writes(r), contract' = contract, source' = source
    PROVE  Reflects(source)'
<1>1. CASE contract.mode \in {"append", "overwrite", "replace"}
      BY <1>1 DEF Reflects, OneRowPerKey, Versioned
<1>2. CASE /\ pc[r] = "write" /\ contract.mode \in MergeModes
           /\ contract.mode = "partition" => contract.engine = "databricks"
           /\ contract.mode = "hash_diff" => contract.engine # "databricks"
           /\ Merges(r, source) \/ (compared[r] /\ Merges(r, Candidates))
      BY <1>2, MergeSettles
<1>3. CASE pc[r] = "create" /\ contract.engine \in {"fabric", "aws"} /\ rows' = InsertedAll(source)
      BY <1>3, CreateSettles
<1>4. CASE pc[r] = "insert" /\ Versioned /\ rows' = rows \cup InsertedAll(scanned[r])
      BY <1>4, InsertSettles
<1> QED BY <1>1, <1>2, <1>3, <1>4 DEF Writes

\* The inductive invariant of the rows.
RowsInv ==
    /\ contract \in Contracts \cup {Null}
    /\ RowTypes /\ TargetInv /\ SettledInv
    /\ \A r \in Run: ExecutionInv(r)

LEMMA CommitTypes ==
    ASSUME RowTypes, TargetInv, NEW r \in Run, NEW label \in RowLabel, Committed(r, label), Writes(r)
    PROVE  RowTypes' /\ TargetInv'
<1>1. /\ exists' = TRUE /\ commits' = commits + 1
      /\ clean' = [x \in Run |-> clean[x] /\ (x = r \/ rows' = rows)]
      /\ settled' = IF clean[r] THEN {source} ELSE IF rows' = rows THEN settled ELSE {}
      /\ pc' = [pc EXCEPT ![r] = label]
      /\ contract' = contract /\ source' = source /\ changes' = changes
      /\ trusted' = trusted /\ compared' = compared /\ scope' = scope /\ scanned' = scanned
      /\ measured' = measured /\ guarded' = guarded
      BY DEF Committed, locals
<1>2. /\ rows' \subseteq TargetRow /\ IsFiniteSet(rows')
      /\ \A u \in rows': u.born[1] <= commits + 1
      /\ \A u, v \in rows': u.born = v.born => u = v
      /\ contract.mode # "snapshot" => \A u \in rows': u.active
      BY WriteLeaves
<1>3. pc' \in [Run -> RowLabel] BY <1>1 DEF RowTypes
<1>4. clean' \in [Run -> BOOLEAN] BY <1>1 DEF RowTypes
<1>5. settled' \subseteq SUBSET SourceRow BY <1>1 DEF RowTypes
<1>6. RowTypes' BY <1>1, <1>2, <1>3, <1>4, <1>5 DEF RowTypes
<1>7. TargetInv' BY <1>1, <1>2 DEF TargetInv
<1> QED BY <1>6, <1>7

LEMMA LandingIs ==
    ASSUME contract \in Contract
    PROVE  /\ Landing \in RowLabel /\ Landing \in {"done", "written"}
           /\ Landing = "written" <=> contract.engine \in {"fabric", "aws"}
BY DEF Landing, RowLabel

LEMMA CommitRuns ==
    ASSUME RowTypes, TargetInv, contract \in Contract, \A x \in Run: ExecutionInv(x),
           NEW r \in Run, Committed(r, Landing), Writes(r), NEW x \in Run
    PROVE  ExecutionInv(x)'
<1>1. /\ clean'[x] = (clean[x] /\ (x = r \/ rows' = rows))
      /\ pc'[x] = IF x = r THEN Landing ELSE pc[x]
      /\ contract' = contract /\ source' = source /\ changes' = changes
      /\ trusted' = trusted /\ compared' = compared /\ scope' = scope /\ scanned' = scanned
      /\ guarded' = guarded
      BY DEF Committed, locals, RowTypes
<1>2. DuplicateKeys' = DuplicateKeys /\ NullKeys' = NullKeys /\ OneRowPerKey' = OneRowPerKey
      BY <1>1 DEF DuplicateKeys, NullKeys, OneRowPerKey, Versioned
<1>3. CASE x # r
      <2>1. clean[x] \in BOOLEAN BY DEF RowTypes
      <2> QED BY <1>1, <1>3, <2>1, RunStays
<1>4. CASE x = r
      <2>1. pc'[r] = Landing /\ clean'[r] = clean[r] BY <1>1, <1>4 DEF RowTypes
      <2>2. pc[r] \in {"write", "create", "insert"} BY DEF Writes
      <2>3. Place(r)' BY <1>1, <2>1, <2>2, LandingIs DEF ExecutionInv, Place, Ended, Past
      <2>4. pc[r] \in Past \/ Versioned BY <2>2 DEF Writes, Past
      <2>5. Known(r)'
            <3>1. guarded[r] <= changes /\ (clean[r] => guarded[r] = changes) BY DEF ExecutionInv, Known
            <3>2. ASSUME guarded[r] = changes, OneRowPerKey
                  PROVE  /\ contract.engine # "databricks" => NullKeys = {}
                         /\ ~DuplicateKeys \/ (contract.engine = "databricks" /\ ~contract.metrics)
                  <4>1. pc[r] \in Past BY <2>4, <3>2 DEF OneRowPerKey
                  <4> QED BY <3>2, <4>1 DEF ExecutionInv, Known
            <3>3. contract.engine = "databricks" => pc'[r] \in Ended /\ pc'[r] \notin Past
                  BY <2>1, LandingIs DEF Ended, Past
            <3> QED BY <1>1, <1>2, <2>1, <3>1, <3>2, <3>3 DEF Known
      <2>6. ASSUME clean[r], compared[r] PROVE Candidates' = {}
            <3>1. contract.mode = "hash_diff" /\ contract.engine \in {"fabric", "aws"} /\ pc[r] = "write"
                  BY <2>2, <2>6 DEF ExecutionInv, Place, Ended
            <3>2. OneRowPerKey BY <3>1 DEF OneRowPerKey, Versioned
            <3>3. ~DuplicateKeys BY <2>6, <3>1, <3>2, KnownIs DEF Past
            <3>4. Reflects(source)' BY <1>1, <2>6, WriteSettles
            <3>5. /\ \A s \in source: \E t \in rows': Same(t, s) /\ t.val = s.val
                  /\ \A t \in rows', s \in source: Same(t, s) => \E y \in source: Same(t, y) /\ t.val = y.val
                  BY <1>1, <1>2, <3>1, <3>2, <3>4 DEF Reflects, Same
            <3>6. \A t \in rows', s \in source: Same(t, s) => t.val = s.val
                  BY <3>3, <3>5, SameIs DEF DuplicateKeys
            <3>7. \A t, s: Same(t, s)' <=> Same(t, s) BY <1>1 DEF Same
            <3> QED BY <1>1, <3>5, <3>6, <3>7 DEF Candidates, Changed, Differs
      <2>7. Undisturbed(r)'
            BY <1>1, <2>1, <2>6, LandingIs DEF Undisturbed
      <2> QED BY <1>4, <2>3, <2>5, <2>7 DEF ExecutionInv
<1> QED BY <1>3, <1>4

LEMMA ReflectsStays ==
    ASSUME NEW S, Reflects(S), rows' = rows, contract' = contract
    PROVE  Reflects(S)'
BY DEF Reflects, OneRowPerKey, Versioned, Same, Twice, Newest

LEMMA CommitKeeps ==
    ASSUME RowsInv, contract \in Contract, NEW r \in Run, Committed(r, Landing), Writes(r)
    PROVE  RowsInv'
<1>1. contract' = contract /\ source' = source
      /\ settled' = IF clean[r] THEN {source} ELSE IF rows' = rows THEN settled ELSE {}
      BY DEF Committed
<1>2. RowTypes' /\ TargetInv' BY CommitTypes, LandingIs DEF RowsInv
<1>3. \A x \in Run: ExecutionInv(x)' BY CommitRuns DEF RowsInv
<1>4. SettledInv'
      <2>1. CASE clean[r]
            <3>1. Reflects(source)' BY <1>1, <2>1, WriteSettles DEF RowsInv
            <3>2. settled' = {source} BY <1>1, <2>1
            <3>3. \A S \in settled': S = source' BY <1>1, <3>2
            <3>4. \A S \in settled': Reflects(S)' BY <1>1, <3>1, <3>2
            <3> QED BY <3>4 DEF SettledInv
      <2>2. CASE ~clean[r] /\ rows' = rows
            <3>1. settled' = settled BY <1>1, <2>2
            <3> QED BY <1>1, <2>2, <3>1, ReflectsStays DEF RowsInv, SettledInv
      <2>3. CASE ~clean[r] /\ rows' # rows BY <1>1, <2>3 DEF SettledInv
      <2> QED BY <2>1, <2>2, <2>3
<1> QED BY <1>1, <1>2, <1>3, <1>4 DEF RowsInv

LEMMA QuietKeeps ==
    ASSUME RowsInv, NEW r \in Run, Quiet(r)
    PROVE  RowsInv'
<1>1. /\ contract' = contract /\ rows' = rows /\ settled' = settled /\ commits' = commits
      /\ exists' \in {exists, TRUE}
      BY DEF Quiet, WritesNothing
<1>2. \A x \in Run: ExecutionInv(x)' BY OtherRunsKeep DEF Quiet, RowsInv
<1>3. TargetInv' BY <1>1 DEF RowsInv, TargetInv, RowTypes
<1>4. SettledInv' BY <1>1, ReflectsStays DEF RowsInv, SettledInv
<1> QED BY <1>1, <1>2, <1>3, <1>4 DEF RowsInv, Quiet

LEMMA ChangeKeeps ==
    ASSUME RowsInv, Change
    PROVE  RowsInv'
<1>1. /\ changes' = changes + 1 /\ source' \in Sources
      /\ clean' = [r \in Run |-> FALSE]
      /\ contract' = contract /\ exists' = exists /\ rows' = rows /\ commits' = commits /\ pc' = pc
      /\ trusted' = trusted /\ compared' = compared /\ scope' = scope /\ scanned' = scanned
      /\ measured' = measured /\ guarded' = guarded /\ settled' = settled
      BY DEF Change, table, locals
<1>2. RowTypes'
      <2>1. source' \in SUBSET SourceRow /\ IsFiniteSet(source') BY <1>1, SourcesAssumption
      <2>2. changes' \in Nat BY <1>1 DEF RowsInv, RowTypes
      <2> QED BY <1>1, <2>1, <2>2 DEF RowsInv, RowTypes
<1>3. TargetInv' BY <1>1 DEF RowsInv, TargetInv
<1>4. SettledInv' BY <1>1, ReflectsStays DEF RowsInv, SettledInv
<1>5. ASSUME NEW r \in Run PROVE ExecutionInv(r)'
      <2>1. Place(r)' BY <1>1 DEF RowsInv, ExecutionInv, Place
      <2>2. guarded'[r] < changes' /\ guarded'[r] \in Nat /\ changes' \in Nat
            BY <1>1 DEF RowsInv, ExecutionInv, Known, RowTypes
      <2>3. Known(r)' BY <1>1, <2>2 DEF Known
      <2>4. Undisturbed(r)' BY <1>1 DEF Undisturbed
      <2> QED BY <2>1, <2>3, <2>4 DEF ExecutionInv
<1> QED BY <1>1, <1>2, <1>3, <1>4, <1>5 DEF RowsInv

\* A step of the rows is one of these.
LEMMA RowsSteps ==
    ASSUME RowsInv, RowsNext
    PROVE  /\ contract \in Contract
           /\ \/ Change
              \/ \E r \in Run: Quiet(r)
              \/ \E r \in Run: Committed(r, Landing) /\ Writes(r)
<1>1. contract \in Contract BY ContractsAssumption DEF RowsInv, RowsNext
<1>2. RowTypes /\ TargetInv /\ \A r \in Run: ExecutionInv(r) BY DEF RowsInv
<1>3. CASE contract.engine = "databricks" /\ Databricks!Next
      BY <1>1, <1>2, <1>3, DatabricksSteps DEF OnDatabricks, Landing
<1>4. CASE contract.engine = "fabric" /\ Fabric!Next
      BY <1>1, <1>2, <1>4, FabricSteps DEF OnFabric, Landing
<1>5. CASE contract.engine = "aws" /\ Aws!Next
      BY <1>1, <1>2, <1>5, AwsSteps DEF OnAws, Landing
<1>6. CASE contract.engine = "snowflake" /\ Snowflake!Next
      BY <1>1, <1>2, <1>6, SnowflakeSteps DEF OnSnowflake, Landing
<1> QED BY <1>1, <1>3, <1>4, <1>5, <1>6 DEF RowsNext

LEMMA RowsInvStarts ==
    ASSUME RowsInit \/ ColumnsInit
    PROVE  RowsInv
<1>1. contract \in Contracts \cup {Null} /\ source \in Sources \cup {{}} /\ Empty
      BY DEF RowsInit, ColumnsInit, Init
<1>2. source \in SUBSET SourceRow /\ IsFiniteSet(source)
      BY <1>1, SourcesAssumption, FS_EmptySet
<1>3. {} \in FiniteSource BY FS_EmptySet DEF FiniteSource
<1>4. {} \in SUBSET SourceRow /\ {} \in SUBSET {Partition(v): v \in Val} OBVIOUS
<1>5. RowTypes BY <1>1, <1>2, <1>3, <1>4, FS_EmptySet DEF RowTypes, Empty, RowLabel, TargetRow
<1>6. TargetInv /\ SettledInv BY <1>1 DEF Empty, TargetInv, SettledInv
<1>7. ASSUME NEW r \in Run PROVE ExecutionInv(r)
      BY <1>1 DEF Empty, ExecutionInv, Place, Known, Undisturbed, Ended, Past
<1> QED BY <1>1, <1>5, <1>6, <1>7 DEF RowsInv

LEMMA VarsStay ==
    ASSUME RowsInv, UNCHANGED vars
    PROVE  RowsInv'
<1>1. /\ contract' = contract /\ source' = source /\ changes' = changes
      /\ exists' = exists /\ rows' = rows /\ commits' = commits /\ pc' = pc
      /\ trusted' = trusted /\ compared' = compared /\ scope' = scope /\ scanned' = scanned
      /\ measured' = measured /\ guarded' = guarded /\ settled' = settled /\ clean' = clean
      BY DEF vars, table, locals, history
<1>2. RowTypes' /\ TargetInv' BY <1>1 DEF RowsInv, RowTypes, TargetInv
<1>3. SettledInv' BY <1>1, ReflectsStays DEF RowsInv, SettledInv
<1>4. ASSUME NEW r \in Run PROVE ExecutionInv(r)'
      <2>1. clean[r] \in BOOLEAN BY DEF RowsInv, RowTypes
      <2> QED BY <1>1, <2>1, RunStays DEF RowsInv
<1> QED BY <1>1, <1>2, <1>3, <1>4 DEF RowsInv

LEMMA RowsInvHolds == Spec => []RowsInv
<1>1. RowsInit \/ ColumnsInit => RowsInv BY RowsInvStarts
<1>2. RowsInv /\ [Next]_<<vars, columnVars>> => RowsInv'
      <2>1. ASSUME RowsInv, RowsNext PROVE RowsInv'
            BY <2>1, RowsSteps, ChangeKeeps, QuietKeeps, CommitKeeps
      <2>2. ASSUME RowsInv, UNCHANGED vars PROVE RowsInv'
            BY <2>2, VarsStay
      <2> QED BY <2>1, <2>2 DEF Next, ColumnsNext
<1> QED BY <1>1, <1>2, PTL DEF Spec

LEMMA CommitsAre ==
    ASSUME RowsInv, [Next]_<<vars, columnVars>>, NEW r \in Run, Commits(r)
    PROVE  contract \in Contract /\ Committed(r, Landing) /\ Writes(r)
<1>1. commits' # commits /\ pc'[r] # pc[r] BY DEF Commits
<1>2. ~UNCHANGED vars BY <1>1 DEF vars, table
<1>3. RowsNext BY <1>2 DEF Next, ColumnsNext
<1>4. ~Change BY <1>1 DEF Change, table
<1>5. \A x \in Run: ~Quiet(x) BY <1>1 DEF Quiet, WritesNothing
<1>6. PICK x \in Run: Committed(x, Landing) /\ Writes(x) BY <1>3, <1>4, <1>5, RowsSteps
<1>7. x = r BY <1>1, <1>6 DEF Committed, RowsInv, RowTypes
<1> QED BY <1>3, <1>6, <1>7, RowsSteps

\* A row that a commit inserts was not there.
LEMMA BornNow ==
    ASSUME RowTypes, TargetInv, NEW t \in rows
    PROVE  t.born[1] # commits + 1
<1>1. t.born[1] \in Nat /\ t.born[1] <= commits /\ commits \in Nat BY DEF RowTypes, TargetInv, TargetRow
<1> QED BY <1>1

LEMMA NoSecondRow ==
    ASSUME RowsInv, contract \in Contract, NEW r \in Run, Committed(r, Landing), Writes(r), OneRowPerKey,
           NEW t \in rows', NEW u \in rows', t # u, t.key = u.key, t.born[1] = commits + 1,
           changes = guarded[r]
    PROVE  \/ contract.mode = "partition" /\ Partition(u.val) \notin scope[r]
           \/ ~contract.metrics /\ DuplicateKeys
<1>1. pc[r] \in Past
      BY DEF Writes, Past, OneRowPerKey
<1>2. /\ contract.engine # "databricks" => NullKeys = {}
      /\ ~DuplicateKeys \/ (contract.engine = "databricks" /\ ~contract.metrics)
      BY <1>1 DEF RowsInv, ExecutionInv, Known
<1>3. SUFFICES ASSUME ~DuplicateKeys
               PROVE  contract.mode = "partition" /\ Partition(u.val) \notin scope[r]
      BY <1>2
<1>4. ASSUME NEW df, df \subseteq source, Merges(r, df)
      PROVE  contract.mode = "partition" /\ Partition(u.val) \notin scope[r]
      <2>1. \A v \in rows': \/ \E x \in rows: Became(r, df, x, v)
                            \/ \E s \in df: Unmatched(r, s) /\ IsNewRow(s, v)
            BY <1>4 DEF Merges
      <2>2. PICK s \in df: Unmatched(r, s) /\ IsNewRow(s, t)
            BY <2>1, BornNow DEF Became, RowsInv
      <2>3. \A a, b \in rows': a.born = b.born => a = b BY WriteLeaves DEF RowsInv
      <2>4. ~\E y \in df: IsNewRow(y, u)
            <3>1. SUFFICES ASSUME NEW y \in df, IsNewRow(y, u) PROVE FALSE OBVIOUS
            <3>2. y.key = s.key BY <2>2, <3>1 DEF IsNewRow
            <3>3. y = s BY <1>3, <1>4, <3>2 DEF DuplicateKeys
            <3>4. u.born = t.born BY <2>2, <3>1, <3>3 DEF IsNewRow
            <3> QED BY <2>3, <3>4
      <2>5. PICK x \in rows: Became(r, df, x, u) BY <2>1, <2>4
      <2>6. x.key = s.key BY <2>2, <2>5 DEF Became, IsNewRow
      <2>7. Same(x, s) BY <1>2, <1>4, <2>6 DEF Same, NullKeys
      <2>8. contract.mode = "partition" /\ Partition(x.val) \notin scope[r]
            BY <2>2, <2>7 DEF Unmatched, On
      <2>9. u.val = x.val BY <2>5, <2>8 DEF Became, On
      <2> QED BY <2>8, <2>9
<1>5. ASSUME rows' = InsertedAll(source) PROVE FALSE
      <2>1. RowTypes /\ source \in FiniteSource BY SourceIs DEF RowsInv
      <2>2. PICK s \in source: t = Inserted(s) BY <1>5, <2>1, InsertedAllIs
      <2>3. PICK x \in source: u = Inserted(x) BY <1>5, <2>1, InsertedAllIs
      <2>4. s.key = x.key BY <2>1, <2>2, <2>3, InsertedAllIs
      <2> QED BY <1>3, <2>2, <2>3, <2>4 DEF DuplicateKeys
<1> QED BY <1>4, <1>5, CandidatesAre DEF Writes, OneRowPerKey

LEMMA RowsStay ==
    ASSUME RowsInv, contract \in Contract, NEW r \in Run, Committed(r, Landing), Writes(r),
           contract.mode \notin {"overwrite", "replace"}
    PROVE  \/ \A t \in rows: \E u \in rows': u.born = t.born
           \/ contract.engine = "fabric" /\ pc[r] = "create" /\ exists
<1>1. ASSUME NEW df, df \subseteq source, Merges(r, df)
      PROVE  \A t \in rows: \E u \in rows': u.born = t.born
      BY <1>1, MergeLeaves DEF RowsInv
<1>2. ~exists => rows = {} BY DEF RowsInv, TargetInv
<1> QED BY <1>1, <1>2, CandidatesAre DEF Writes

(* A commit gives a key a second row only if the source changed since the    *)
(* run checked its keys, if a row moved out of the partitions that its MERGE *)
(* looks at, or if Databricks counted nothing and checked nothing; and no    *)
(* mode but overwrite and replace_partitions removes a row, except a first   *)
(* write on Fabric that another one overtook: for any target, sources and    *)
(* number of runs.                                                           *)
THEOREM KeysStayUnique == Spec => RowsAreKeptOnce
<1>1. ASSUME RowsInv, [Next]_<<vars, columnVars>>, NEW r \in Run, Commits(r)
      PROVE  /\ OneRowPerKey =>
                   \A t, u \in rows': t # u /\ t.key = u.key /\ Born(t) =>
                      \/ changes # guarded[r]
                      \/ contract.mode = "partition" /\ Partition(u.val) \notin scope[r]
                      \/ ~contract.metrics /\ DuplicateKeys
             /\ contract.mode \notin {"overwrite", "replace"} =>
                   \/ \A t \in rows: \E u \in rows': u.born = t.born
                   \/ contract.engine = "fabric" /\ pc[r] = "create" /\ exists
      <2>1. contract \in Contract /\ Committed(r, Landing) /\ Writes(r) BY <1>1, CommitsAre
      <2>2. commits' = commits + 1 BY <2>1 DEF Committed
      <2>3. ASSUME OneRowPerKey, NEW t \in rows', NEW u \in rows', t # u, t.key = u.key, Born(t),
                   changes = guarded[r]
            PROVE  \/ contract.mode = "partition" /\ Partition(u.val) \notin scope[r]
                   \/ ~contract.metrics /\ DuplicateKeys
            <3>1. t.born[1] = commits + 1 BY <2>2, <2>3 DEF Born
            <3> QED BY <1>1, <2>1, <2>3, <3>1, NoSecondRow
      <2> QED BY <1>1, <2>1, <2>3, RowsStay
<1>2. RowsInv /\ [Next]_<<vars, columnVars>> =>
         [\A r \in Run: Commits(r) =>
             /\ OneRowPerKey =>
                   \A t, u \in rows': t # u /\ t.key = u.key /\ Born(t) =>
                      \/ changes # guarded[r]
                      \/ contract.mode = "partition" /\ Partition(u.val) \notin scope[r]
                      \/ ~contract.metrics /\ DuplicateKeys
             /\ contract.mode \notin {"overwrite", "replace"} =>
                   \/ \A t \in rows: \E u \in rows': u.born = t.born
                   \/ contract.engine = "fabric" /\ pc[r] = "create" /\ exists]_vars
      BY <1>1
<1> QED BY <1>2, RowsInvHolds, PTL DEF Spec, RowsAreKeptOnce

LEMMA NewestIsOne ==
    ASSUME RowTypes, Versioned, OneVersionEach, NEW t \in Newest(rows), NEW u \in Newest(rows), t.key = u.key
    PROVE  t = u
<1> DEFINE S == {x \in Newest(rows): x.key = t.key}
<1>1. S \subseteq rows BY DEF Newest
<1>2. IsFiniteSet(S) BY <1>1, FS_Subset DEF RowTypes
<1>3. t \in S /\ u \in S OBVIOUS
<1>4. t.key \in Key BY <1>1, <1>3 DEF RowTypes, TargetRow
<1>5. Cardinality(S) <= 1 BY <1>4 DEF OneVersionEach
<1>6. Cardinality(S) \in Nat BY <1>2, FS_CardinalityType
<1> HIDE DEF S
<1>7. t # u => Cardinality(S) > 1 BY <1>2, <1>3, TwoAreMore
<1> QED BY <1>5, <1>6, <1>7

LEMMA VersionedWrite ==
    ASSUME contract \in Contract, NEW r \in Run, Writes(r), Versioned
    PROVE  pc[r] = "insert" /\ rows' = rows \cup InsertedAll(scanned[r])
BY DEF Writes, Versioned

\* A MERGE that finds every row of the target as it would make it.
LEMMA MergeChangesNothing ==
    ASSUME RowTypes, NEW r \in Run, NEW df, Merges(r, df),
           \A s \in df: ~Unmatched(r, s),
           \A t \in rows, s \in df: On(r, t, s) /\ When(t, s) => t.val = s.val /\ t.active = TRUE,
           \A t \in rows: Gone(t) => ~t.active
    PROVE  rows' = rows
<1>1. /\ \A t \in rows: \E u \in rows': Became(r, df, t, u)
      /\ \A u \in rows': \E t \in rows: Became(r, df, t, u)
      BY DEF Merges
<1>2. ASSUME NEW t \in rows, NEW u, Became(r, df, t, u) PROVE u = t
      <2>1. t \in TargetRow /\ u \in TargetRow /\ t.active \in BOOLEAN
            BY <1>2 DEF RowTypes, TargetRow, Became
      <2>2. u.key = t.key /\ u.born = t.born BY <1>2 DEF Became
      <2>3. u.val = t.val /\ u.active = t.active
            <3>1. CASE \E s \in df: On(r, t, s) /\ When(t, s) /\ u.val = s.val /\ u.active = TRUE
                  BY <3>1
            <3>2. CASE u.val = t.val /\ u.active = (t.active /\ ~Gone(t))
                  BY <2>1, <3>2
            <3> QED BY <1>2, <3>1, <3>2 DEF Became
      <2> QED BY <2>1, <2>2, <2>3 DEF TargetRow
<1> QED BY <1>1, <1>2

LEMMA MergeReplays ==
    ASSUME RowsInv, contract \in Contract, NEW r \in Run,
           pc[r] = "write", contract.mode \in MergeModes,
           contract.mode = "partition" => contract.engine = "databricks",
           contract.mode = "hash_diff" => contract.engine # "databricks",
           NEW df, df = source \/ (df = Candidates /\ compared[r]), Merges(r, df),
           Reflects(source),
           contract.mode = "partition" => KeysAreUnique /\ \A s \in source: Partition(s.val) \in scope[r],
           contract.mode = "snapshot" => contract.metrics \/ ~DuplicateKeys
    PROVE  rows' = rows
<1>1. OneRowPerKey BY DEF OneRowPerKey, Versioned, MergeModes
<1>2. df \subseteq source BY CandidatesAre
<1>3. compared[r] => contract.mode = "hash_diff" BY DEF RowsInv, ExecutionInv, Place
<1>4. \A t \in rows: t.active \in BOOLEAN /\ (contract.mode # "snapshot" => t.active = TRUE)
      BY DEF RowsInv, RowTypes, TargetInv, TargetRow
<1>5. contract.mode # "snapshot" => \A t: ~Gone(t) BY DEF Gone
<1>6. CASE contract.mode = "partition"
      <2>1. df = source BY <1>3, <1>6
      <2>2. ASSUME NEW s \in source PROVE \E t \in rows: t.key = s.key /\ t.val = s.val /\ On(r, t, s)
            <3>1. PICK t \in rows: t.key = s.key /\ t.val = s.val BY <1>6 DEF Reflects
            <3> QED BY <1>6, <3>1 DEF On, Same
      <2>3. \A s \in df: ~Unmatched(r, s) BY <2>1, <2>2 DEF Unmatched
      <2>4. \A t \in rows, s \in df: On(r, t, s) => t.val = s.val
            BY <1>6, <2>1, <2>2, SameIs DEF KeysAreUnique, On
      <2>5. \A t \in rows, s \in df: On(r, t, s) /\ When(t, s) => t.val = s.val /\ t.active = TRUE
            BY <1>4, <1>6, <2>4
      <2>6. \A t \in rows: Gone(t) => ~t.active BY <1>5, <1>6
      <2>7. RowTypes BY DEF RowsInv
      <2> QED BY <2>3, <2>5, <2>6, <2>7, MergeChangesNothing
<1>7. CASE contract.mode # "partition"
      <2>1. /\ \A s \in source: \E t \in rows: Same(t, s) /\ t.val = s.val
            /\ \A t \in rows, s \in source: Same(t, s) => \E x \in source: Same(t, x) /\ t.val = x.val
            /\ contract.mode # "upsert" => ~Twice(source)
            /\ contract.mode = "snapshot" => \A t \in rows: t.active <=> \E s \in source: Same(t, s)
            BY <1>1, <1>7 DEF Reflects, Twice, DuplicateKeys
      <2>2. \A t, s: On(r, t, s) <=> Same(t, s) BY <1>7 DEF On
      <2>3. \A s \in df: ~Unmatched(r, s) BY <1>2, <2>1, <2>2 DEF Unmatched
      <2>4. ASSUME NEW t \in rows, NEW s \in df, On(r, t, s), When(t, s)
            PROVE  t.val = s.val /\ t.active = TRUE
            <3>1. Same(t, s) /\ s \in source BY <1>2, <2>2, <2>4
            <3>2. PICK x \in source: Same(t, x) /\ t.val = x.val BY <2>1, <3>1
            <3>3. x = s
                  <4>1. CASE contract.mode # "upsert" BY <2>1, <3>1, <3>2, <4>1, SameIs DEF Twice
                  <4>2. CASE contract.mode = "upsert"
                        <5>1. df = source BY <1>3, <4>2
                        <5>2. When(t, x) /\ On(r, t, x) BY <2>2, <3>2, <4>2 DEF When
                        <5> QED BY <2>4, <5>1, <5>2 DEF Merges
                  <4> QED BY <4>1, <4>2
            <3>4. t.active = TRUE BY <1>4, <2>1, <3>1
            <3> QED BY <3>2, <3>3, <3>4
      <2>5. \A t \in rows: Gone(t) => ~t.active BY <2>1 DEF Gone
      <2> QED BY <2>3, <2>4, <2>5, MergeChangesNothing DEF RowsInv
<1> QED BY <1>6, <1>7

LEMMA VersionsReplay ==
    ASSUME RowsInv, contract \in Contract, NEW r \in Run, Writes(r), Versioned, clean[r], OneVersionEach
    PROVE  /\ Reflects(source) /\ NullKeys = {} => rows' = rows
           /\ \A t \in rows' \ rows, u \in Newest(rows): u.key = t.key /\ t.key # Null => t.val # u.val
<1>1. pc[r] = "insert" /\ rows' = rows \cup InsertedAll(scanned[r]) BY VersionedWrite
<1>2. PICK latest:
         /\ latest \subseteq Newest(rows)
         /\ \A t \in Newest(rows): \E u \in latest: u.key = t.key
         /\ scanned[r] \subseteq source
         /\ \A s \in source:
               s \in scanned[r] <=> \/ s.key = Null
                                    \/ \A t \in latest: t.key # s.key
                                    \/ \E t \in latest: t.key = s.key /\ t.val # s.val
      BY <1>1, InsertIsFresh DEF RowsInv
<1>3. ~Twice(source) BY DEF OneVersionEach, Twice, DuplicateKeys
<1>4. \A t, u \in Newest(rows): t.key = u.key => t = u BY NewestIsOne DEF RowsInv
<1>5. ASSUME Reflects(source), NullKeys = {} PROVE rows' = rows
      <2>1. ASSUME NEW s \in scanned[r] PROVE FALSE
            <3>1. s \in source /\ s.key # Null BY <1>2, <1>5, <2>1 DEF NullKeys
            <3>2. PICK t \in Newest(rows): t.key = s.key /\ t.val = s.val
                  BY <1>3, <1>5, <3>1 DEF Reflects
            <3>3. PICK u \in latest: u.key = s.key /\ u.val # s.val BY <1>2, <2>1, <3>1, <3>2
            <3> QED BY <1>2, <1>4, <3>2, <3>3
      <2>2. InsertedAll(scanned[r]) = {} BY <2>1 DEF InsertedAll
      <2> QED BY <1>1, <2>2
<1>6. ASSUME NEW t \in rows' \ rows, NEW u \in Newest(rows), u.key = t.key, t.key # Null
      PROVE  t.val # u.val
      <2>1. RowTypes /\ scanned[r] \in FiniteSource BY DEF RowsInv, RowTypes
      <2>2. PICK s \in scanned[r]: t = Inserted(s) BY <1>1, <1>6, <2>1, InsertedAllIs
      <2>3. t.key = s.key /\ t.val = s.val BY <2>1, <2>2, InsertedAllIs
      <2>4. PICK y \in latest: y.key = u.key BY <1>2
      <2>5. PICK x \in latest: x.key = s.key /\ x.val # s.val BY <1>2, <1>6, <2>3, <2>4
      <2>6. x = u BY <1>2, <1>4, <1>6, <2>3, <2>5
      <2> QED BY <2>3, <2>5, <2>6
<1> QED BY <1>5, <1>6

(* Writing again the source whose undisturbed write came last changes        *)
(* nothing, in every mode with a key and under the conditions that the       *)
(* property names: for any target, sources and number of runs.               *)
THEOREM RepeatedWritesAddNothing == Spec => ReplayWritesNothing
<1>1. ASSUME RowsInv, [Next]_<<vars, columnVars>>, NEW r \in Run, Commits(r)
      PROVE  /\ /\ settled = {source} /\ pc[r] # "create"
                /\ OneRowPerKey \/ (Versioned /\ clean[r] /\ OneVersionEach /\ NullKeys = {})
                /\ contract.mode = "partition" =>
                      KeysAreUnique /\ \A s \in source: Partition(s.val) \in scope[r]
                /\ contract.mode = "snapshot" => contract.metrics \/ ~DuplicateKeys
                => Pairs(rows') = Pairs(rows) /\ Cardinality(rows') = Cardinality(rows)
             /\ Versioned /\ clean[r] =>
                   \A t \in rows' \ rows, u \in Newest(rows):
                      u.key = t.key /\ t.key # Null => t.val # u.val \/ ~OneVersionEach
      <2>1. contract \in Contract /\ Committed(r, Landing) /\ Writes(r) BY <1>1, CommitsAre
      <2>2. ASSUME settled = {source}, pc[r] # "create",
                   OneRowPerKey \/ (Versioned /\ clean[r] /\ OneVersionEach /\ NullKeys = {}),
                   contract.mode = "partition" =>
                      KeysAreUnique /\ \A s \in source: Partition(s.val) \in scope[r],
                   contract.mode = "snapshot" => contract.metrics \/ ~DuplicateKeys
            PROVE  rows' = rows
            <3>1. Reflects(source) BY <1>1, <2>2 DEF RowsInv, SettledInv
            <3>2. CASE Versioned BY <1>1, <2>1, <2>2, <3>1, <3>2, VersionsReplay DEF OneRowPerKey
            <3>3. CASE ~Versioned
                  <4>1. OneRowPerKey BY <2>2, <3>3
                  <4>2. /\ pc[r] = "write" /\ contract.mode \in MergeModes
                        /\ contract.mode = "partition" => contract.engine = "databricks"
                        /\ contract.mode = "hash_diff" => contract.engine # "databricks"
                        /\ Merges(r, source) \/ (compared[r] /\ Merges(r, Candidates))
                        BY <2>1, <2>2, <4>1 DEF Writes, OneRowPerKey
                  <4> QED BY <1>1, <2>1, <2>2, <3>1, <4>2, MergeReplays
            <3> QED BY <3>2, <3>3
      <2>3. ASSUME Versioned, clean[r], OneVersionEach
            PROVE  \A t \in rows' \ rows, u \in Newest(rows): u.key = t.key /\ t.key # Null => t.val # u.val
            BY <1>1, <2>1, <2>3, VersionsReplay
      <2>4. rows' = rows => Pairs(rows') = Pairs(rows) /\ Cardinality(rows') = Cardinality(rows)
            OBVIOUS
      <2> QED BY <2>2, <2>3, <2>4
<1>2. RowsInv /\ [Next]_<<vars, columnVars>> =>
         [\A r \in Run: Commits(r) =>
             /\ /\ settled = {source} /\ pc[r] # "create"
                /\ OneRowPerKey \/ (Versioned /\ clean[r] /\ OneVersionEach /\ NullKeys = {})
                /\ contract.mode = "partition" =>
                      KeysAreUnique /\ \A s \in source: Partition(s.val) \in scope[r]
                /\ contract.mode = "snapshot" => contract.metrics \/ ~DuplicateKeys
                => Pairs(rows') = Pairs(rows) /\ Cardinality(rows') = Cardinality(rows)
             /\ Versioned /\ clean[r] =>
                   \A t \in rows' \ rows, u \in Newest(rows):
                      u.key = t.key /\ t.key # Null => t.val # u.val \/ ~OneVersionEach]_vars
      BY <1>1
<1> QED BY <1>2, RowsInvHolds, PTL DEF Spec, ReplayWritesNothing

\* Of rows that are inserted all are seen.
LEMMA InsertedAreSeen ==
    ASSUME RowTypes, NEW S \in FiniteSource
    PROVE  Visible(InsertedAll(S)) = Pairs(S)
<1>1. /\ \A u \in InsertedAll(S): \E s \in S: u = Inserted(s)
      /\ \A s \in S: /\ Inserted(s) \in InsertedAll(S)
                     /\ Inserted(s).key = s.key /\ Inserted(s).val = s.val
                     /\ Inserted(s).active = TRUE
      BY InsertedAllIs
<1> HIDE DEF Inserted, InsertedAll
<1> QED BY <1>1 DEF Visible, Pairs

\* Means, one mode at a time.
LEMMA MeansIs ==
    ASSUME contract \in Contract, NEW before, NEW after,
           contract.mode = "append" =>
              /\ before \subseteq after
              /\ Cardinality(after) = Cardinality(before) + Cardinality(source),
           contract.mode = "overwrite" =>
              Visible(after) = Pairs(source) /\ Cardinality(after) = Cardinality(source),
           contract.mode = "replace" =>
              Visible(after) = Pairs(source)
                 \cup {p \in Visible(before): Partition(p[2]) \notin {Partition(s.val): s \in source}},
           contract.mode = "snapshot" =>
              /\ Visible(after) = Pairs(source)
              /\ \A t \in before: \E u \in after: u.key = t.key,
           Versioned =>
              /\ before \subseteq after
              /\ Visible(Newest(after)) = Pairs(source) \cup Others(Visible(Newest(before))),
           contract.mode \in {"upsert", "partition"} \/ (contract.mode = "hash_diff" /\ ~Versioned) =>
              Visible(after) = Pairs(source) \cup Others(Visible(before))
    PROVE  Means(before, after)
<1>1. contract.mode \in {"append", "overwrite", "upsert", "hash_diff", "snapshot", "partition", "replace"}
      BY DEF Contract, Mode
<1>2. Versioned => contract.mode = "hash_diff" BY DEF Versioned
<1>3. CASE contract.mode = "append" BY <1>2, <1>3 DEF Means
<1>4. CASE contract.mode = "overwrite" BY <1>2, <1>4 DEF Means
<1>5. CASE contract.mode = "replace" BY <1>2, <1>5 DEF Means
<1>6. CASE contract.mode = "snapshot" BY <1>2, <1>6 DEF Means
<1>7. CASE Versioned BY <1>2, <1>7 DEF Means
<1>8. CASE contract.mode \in {"upsert", "partition"} \/ (contract.mode = "hash_diff" /\ ~Versioned)
      BY <1>2, <1>8 DEF Means
<1> QED BY <1>1, <1>3, <1>4, <1>5, <1>6, <1>7, <1>8

LEMMA AppendMeans ==
    ASSUME RowTypes, TargetInv, contract \in Contract, contract.mode = "append",
           rows' = rows \cup InsertedAll(source)
    PROVE  Means(rows, rows')
<1>1. source \in FiniteSource BY SourceIs
<1>2. rows \cap InsertedAll(source) = {} BY <1>1, InsertLeaves
<1>3. IsFiniteSet(InsertedAll(source)) /\ Cardinality(InsertedAll(source)) = Cardinality(source)
      BY <1>1, InsertedAllIs
<1>4. IsFiniteSet(rows) /\ IsFiniteSet(source) BY DEF RowTypes
<1>5. Cardinality(rows') = Cardinality(rows) + Cardinality(source) - Cardinality({})
      BY <1>2, <1>3, <1>4, FS_Union
<1>6. Cardinality(rows) \in Nat /\ Cardinality(source) \in Nat /\ Cardinality({}) = 0
      BY <1>4, FS_CardinalityType, FS_EmptySet
<1>7. Cardinality(rows') = Cardinality(rows) + Cardinality(source) BY <1>5, <1>6
<1>8. rows \subseteq rows' OBVIOUS
<1> QED BY <1>7, <1>8, MeansIs DEF Versioned

LEMMA ReplaceMeans ==
    ASSUME RowTypes, TargetInv, contract \in Contract, contract.mode = "replace", NEW r \in Run,
           scope[r] = Databricks!PartitionsOf(source),
           \A s \in source: Partition(s.val) \in scope[r],
           rows' = {t \in rows: Partition(t.val) \notin scope[r]} \cup InsertedAll(source)
    PROVE  Means(rows, rows')
<1> DEFINE K == {t \in rows: Partition(t.val) \notin scope[r]}
<1>1. scope[r] = {Partition(s.val): s \in source} BY DEF Databricks!PartitionsOf
<1>2. \A t \in rows: t.active BY DEF TargetInv
<1>3. Visible(InsertedAll(source)) = Pairs(source) BY SourceIs, InsertedAreSeen
<1>4. Visible(K) = {p \in Visible(rows): Partition(p[2]) \notin {Partition(s.val): s \in source}}
      <2>1. \A t \in rows: <<t.key, t.val>>[2] = t.val OBVIOUS
      <2> QED BY <1>1, <1>2, <2>1 DEF Visible, Pairs
<1>5. Visible(rows') = Visible(K) \cup Visible(InsertedAll(source))
      <2> DEFINE I == InsertedAll(source)
      <2>1. rows' = K \cup I OBVIOUS
      <2> HIDE DEF K, I
      <2>2. Visible(rows') = Visible(K) \cup Visible(I) BY <2>1 DEF Visible, Pairs
      <2> QED BY <2>2 DEF I
<1> HIDE DEF K
<1>6. Visible(rows') = Pairs(source)
         \cup {p \in Visible(rows): Partition(p[2]) \notin {Partition(s.val): s \in source}}
      BY <1>3, <1>4, <1>5
<1> QED BY <1>6, MeansIs DEF Versioned

\* Overwriting, or the first write of a table.
LEMMA CreateMeans ==
    ASSUME RowTypes, contract \in Contract, ~Versioned,
           rows = {} \/ contract.mode = "overwrite", rows' = InsertedAll(source)
    PROVE  Means(rows, rows')
<1>1. Visible(rows') = Pairs(source) BY SourceIs, InsertedAreSeen
<1>2. Cardinality(rows') = Cardinality(source) BY SourceIs, InsertedAllIs
<1>3. Cardinality(source) \in Nat BY FS_CardinalityType DEF RowTypes
<1>4. CASE contract.mode = "overwrite" BY <1>1, <1>2, <1>4, MeansIs
<1>5. CASE rows = {}
      <2>1. Cardinality(rows') = Cardinality(rows) + Cardinality(source)
            BY <1>2, <1>3, <1>5, FS_EmptySet
      <2>2. Visible(rows) = {} BY <1>5 DEF Visible, Pairs
      <2>3. Others(Visible(rows)) = {} BY <2>2 DEF Others
      <2> QED BY <1>1, <1>2, <1>5, <2>1, <2>2, <2>3, MeansIs
<1> QED BY <1>4, <1>5

\* What a MERGE makes of a row whose key the source has.
LEMMA MergeTakes ==
    ASSUME RowTypes, TargetInv, NEW r \in Run, contract.mode \in MergeModes, ~DuplicateKeys,
           NEW df, df = source \/ (df = Candidates /\ contract.mode = "hash_diff"),
           NEW t \in rows, NEW u, Became(r, df, t, u),
           NEW s \in source, On(r, t, s)
    PROVE  u.val = s.val /\ u.active = TRUE
<1>1. df \subseteq source BY CandidatesAre
<1>2. \A x \in df: On(r, t, x) => x = s
      BY <1>1, SameIs DEF On, DuplicateKeys
<1>3. CASE \E x \in df: On(r, t, x) /\ When(t, x) /\ u.val = x.val /\ u.active = TRUE
      BY <1>2, <1>3
<1>4. CASE /\ \A x \in df: ~(On(r, t, x) /\ When(t, x))
           /\ u.val = t.val /\ u.active = (t.active /\ ~Gone(t))
      <2>1. ~Gone(t) BY DEF Gone, On
      <2>2. t.active \in BOOLEAN /\ (contract.mode # "snapshot" => t.active = TRUE)
            BY DEF RowTypes, TargetInv, TargetRow
      <2>3. CASE s \in df
            <3>1. ~When(t, s) BY <1>4, <2>3
            <3> QED BY <1>4, <2>1, <2>2, <3>1 DEF When, Differs, MergeModes
      <2>4. CASE s \notin df
            <3>1. df = Candidates /\ contract.mode = "hash_diff" BY <2>4
            <3>2. Changed(s) = {} BY <2>4, <3>1 DEF Candidates
            <3>3. t.val = s.val BY <3>2 DEF Changed, Differs, On
            <3> QED BY <1>4, <2>1, <2>2, <3>1, <3>3
      <2> QED BY <2>3, <2>4
<1> QED BY <1>3, <1>4 DEF Became

LEMMA MergeMeans ==
    ASSUME RowTypes, TargetInv, contract \in Contract, NEW r \in Run, ~Versioned,
           contract.mode \in MergeModes, ~DuplicateKeys,
           contract.engine # "databricks" => NullKeys = {},
           contract.mode = "partition" =>
              \A t \in rows, s \in source: t.key = s.key => Partition(t.val) \in scope[r],
           NEW df, df = source \/ (df = Candidates /\ contract.mode = "hash_diff"), Merges(r, df)
    PROVE  Means(rows, rows')
<1>1. df \subseteq source BY CandidatesAre
<1>2. /\ \A t, s \in source: t.key = s.key => Same(t, s)
      /\ \A t: \A s \in source: t.key = s.key <=> Same(t, s)
      BY DEF Same, NullKeys
<1>3. \A t \in rows, s \in source: On(r, t, s) <=> t.key = s.key BY <1>2 DEF On
<1>4. /\ \A t \in rows: \E u \in rows': Became(r, df, t, u)
      /\ \A s \in df: Unmatched(r, s) => \E u \in rows': IsNewRow(s, u)
      /\ \A u \in rows':
            \/ \E t \in rows: Became(r, df, t, u)
            \/ \E s \in df: Unmatched(r, s) /\ IsNewRow(s, u)
      BY DEF Merges
<1>5. ASSUME NEW t \in rows, NEW u, Became(r, df, t, u), NEW s \in source, s.key = t.key
      PROVE  u.key = s.key /\ u.val = s.val /\ u.active = TRUE
      <2>1. On(r, t, s) BY <1>3, <1>5
      <2>2. u.key = t.key BY <1>5 DEF Became
      <2>3. u.val = s.val /\ u.active = TRUE BY <1>5, <2>1, MergeTakes
      <2> QED BY <1>5, <2>2, <2>3
<1>6. ASSUME NEW s \in df, NEW u, IsNewRow(s, u)
      PROVE  u.key = s.key /\ u.val = s.val /\ u.active = TRUE
      <2>1. u.key = s.key BY <1>6 DEF IsNewRow
      <2>2. Same(u, s) BY <1>1, <1>2, <2>1
      <2>3. ~Gone(u) BY <1>1, <2>2 DEF Gone
      <2> QED BY <1>6, <2>3 DEF IsNewRow
<1>7. ASSUME NEW t \in rows, NEW u, Became(r, df, t, u), \A s \in source: s.key # t.key
      PROVE  u.key = t.key /\ u.val = t.val /\ u.active = (t.active /\ contract.mode # "snapshot")
      <2>1. \A s \in df: ~On(r, t, s) BY <1>1, <1>3, <1>7
      <2>2. Gone(t) <=> contract.mode = "snapshot" BY <1>2, <1>7 DEF Gone
      <2>3. u.key = t.key /\ u.val = t.val /\ u.active = (t.active /\ ~Gone(t))
            BY <1>7, <2>1 DEF Became
      <2> QED BY <2>2, <2>3
<1>8. ASSUME NEW s \in source
      PROVE  \E u \in rows': u.key = s.key /\ u.val = s.val /\ u.active = TRUE
      <2>1. CASE \E t \in rows: t.key = s.key BY <1>4, <1>5, <2>1
      <2>2. CASE ~\E t \in rows: t.key = s.key
            <3>1. Unmatched(r, s) BY <1>3, <2>2 DEF Unmatched
            <3>2. s \in df BY <2>2, SameIs DEF Candidates
            <3> QED BY <1>4, <1>6, <3>1, <3>2
      <2> QED BY <2>1, <2>2
<1>9. ASSUME NEW u \in rows', u.active
      PROVE  \/ \E s \in source: u.key = s.key /\ u.val = s.val
             \/ /\ contract.mode # "snapshot" /\ \A s \in source: s.key # u.key
                /\ \E t \in rows: t.active /\ u.key = t.key /\ u.val = t.val
      <2>1. CASE \E s \in df: IsNewRow(s, u) BY <1>1, <1>6, <2>1
      <2>2. CASE \E t \in rows: Became(r, df, t, u)
            <3>1. PICK t \in rows: Became(r, df, t, u) BY <2>2
            <3>2. CASE \E s \in source: s.key = t.key BY <1>5, <3>1, <3>2
            <3>3. CASE \A s \in source: s.key # t.key
                  <4>1. u.key = t.key /\ u.val = t.val /\ u.active = (t.active /\ contract.mode # "snapshot")
                        BY <1>7, <3>1, <3>3
                  <4> QED BY <1>9, <3>3, <4>1
            <3> QED BY <3>2, <3>3
      <2> QED BY <1>4, <2>1, <2>2
<1>10. ASSUME NEW t \in rows, t.active, contract.mode # "snapshot", \A s \in source: s.key # t.key
       PROVE  \E u \in rows': u.active /\ u.key = t.key /\ u.val = t.val
       BY <1>4, <1>7, <1>10
<1>11. Pairs(source) \subseteq Visible(rows') BY <1>8 DEF Pairs, Visible
<1>12. \A u: <<u.key, u.val>>[1] = u.key OBVIOUS
<1>13. CASE contract.mode = "snapshot"
       <2>1. Visible(rows') \subseteq Pairs(source) BY <1>9, <1>13 DEF Pairs, Visible
       <2>2. \A t \in rows: \E u \in rows': u.key = t.key BY <1>4 DEF Became
       <2>3. Visible(rows') = Pairs(source) BY <1>11, <2>1
       <2> QED BY <1>13, <2>2, <2>3, MeansIs DEF Versioned
<1>14. CASE contract.mode # "snapshot"
       <2>1. Visible(rows') \subseteq Pairs(source) \cup Others(Visible(rows))
             BY <1>9, <1>12 DEF Pairs, Visible, Others
       <2>2. Others(Visible(rows)) \subseteq Visible(rows')
             BY <1>10, <1>12, <1>14 DEF Pairs, Visible, Others
       <2>3. Visible(rows') = Pairs(source) \cup Others(Visible(rows)) BY <1>11, <2>1, <2>2
       <2> QED BY <1>14, <2>3, MeansIs DEF MergeModes
<1> QED BY <1>13, <1>14

LEMMA VersionsMean ==
    ASSUME RowsInv, contract \in Contract, NEW r \in Run, Writes(r), Versioned, clean[r], OneVersionEach
    PROVE  Means(rows, rows')
<1>1. pc[r] = "insert" /\ rows' = rows \cup InsertedAll(scanned[r]) BY VersionedWrite
<1>2. PICK latest:
         /\ latest \subseteq Newest(rows)
         /\ \A t \in Newest(rows): \E u \in latest: u.key = t.key
         /\ scanned[r] \subseteq source
         /\ \A s \in source:
               s \in scanned[r] <=> \/ s.key = Null
                                    \/ \A t \in latest: t.key # s.key
                                    \/ \E t \in latest: t.key = s.key /\ t.val # s.val
      BY <1>1, InsertIsFresh DEF RowsInv
<1>3. \A s, x \in source: s.key = x.key => s = x BY DEF OneVersionEach, DuplicateKeys
<1>4. \A t, u \in Newest(rows): t.key = u.key => t = u BY NewestIsOne DEF RowsInv
<1>5. RowTypes /\ TargetInv /\ scanned[r] \in FiniteSource BY DEF RowsInv, RowTypes
<1>6. /\ \A s \in scanned[r]: Inserted(s) \in Newest(rows')
      /\ \A t \in Newest(rows): (\A s \in scanned[r]: s.key # t.key) => t \in Newest(rows')
      /\ \A u \in Newest(rows'):
            \/ \E s \in scanned[r]: u = Inserted(s)
            \/ u \in Newest(rows) /\ \A s \in scanned[r]: s.key # u.key
      BY <1>1, <1>5, NewestAre
<1>7. \A s \in scanned[r]: Inserted(s).key = s.key /\ Inserted(s).val = s.val /\ Inserted(s).active = TRUE
      BY <1>5, InsertedAllIs
<1>8. \A t \in Newest(rows): t.active BY <1>5 DEF Newest, TargetInv, Versioned
<1>9. ASSUME NEW s \in source
      PROVE  \E u \in Newest(rows'): u.key = s.key /\ u.val = s.val /\ u.active
      <2>1. CASE s \in scanned[r] BY <1>6, <1>7, <2>1
      <2>2. CASE s \notin scanned[r]
            <3>1. PICK t \in latest: t.key = s.key /\ t.val = s.val BY <1>2, <2>2
            <3>2. t \in Newest(rows) /\ \A x \in scanned[r]: x.key # t.key
                  BY <1>2, <1>3, <2>2, <3>1
            <3> QED BY <1>6, <1>8, <3>1, <3>2
      <2> QED BY <2>1, <2>2
<1>10. ASSUME NEW u \in Newest(rows')
       PROVE  \/ \E s \in source: u.key = s.key /\ u.val = s.val
              \/ u \in Newest(rows) /\ \A s \in source: s.key # u.key
       <2>1. CASE \E s \in scanned[r]: u = Inserted(s) BY <1>2, <1>7, <2>1
       <2>2. CASE u \in Newest(rows) /\ \A s \in scanned[r]: s.key # u.key
             <3>1. ASSUME NEW s \in source, s.key = u.key PROVE u.val = s.val
                   <4>1. s \notin scanned[r] BY <2>2, <3>1
                   <4>2. PICK t \in latest: t.key = s.key /\ t.val = s.val BY <1>2, <4>1
                   <4>3. t = u BY <1>2, <1>4, <2>2, <3>1, <4>2
                   <4> QED BY <4>2, <4>3
             <3> QED BY <2>2, <3>1
       <2> QED BY <1>6, <2>1, <2>2
<1>11. ASSUME NEW t \in Newest(rows), \A s \in source: s.key # t.key
       PROVE  t \in Newest(rows')
       BY <1>2, <1>6, <1>11
<1>12. \A u: <<u.key, u.val>>[1] = u.key OBVIOUS
<1>13. Visible(Newest(rows')) = Pairs(source) \cup Others(Visible(Newest(rows)))
       <2> DEFINE before == Newest(rows)
                  after == Newest(rows')
       <2>1. /\ \A s \in source: \E u \in after: u.key = s.key /\ u.val = s.val /\ u.active
             /\ \A u \in after: \/ \E s \in source: u.key = s.key /\ u.val = s.val
                                \/ u \in before /\ \A s \in source: s.key # u.key
             /\ \A t \in before: (\A s \in source: s.key # t.key) => t \in after
             BY <1>9, <1>10, <1>11
       <2> HIDE DEF before, after
       <2>2. Pairs(source) \subseteq Visible(after) BY <2>1 DEF Pairs, Visible
       <2>3. Visible(after) \subseteq Pairs(source) \cup Others(Visible(before))
             BY <1>12, <2>1 DEF Pairs, Visible, Others
       <2>4. Others(Visible(before)) \subseteq Visible(after)
             BY <1>12, <2>1 DEF Pairs, Visible, Others
       <2>5. Visible(after) = Pairs(source) \cup Others(Visible(before)) BY <2>2, <2>3, <2>4
       <2> QED BY <2>5 DEF before, after
<1>14. rows \subseteq rows' BY <1>1
<1> QED BY <1>13, <1>14, MeansIs DEF Versioned

LEMMA WriteMeans ==
    ASSUME RowsInv, contract \in Contract, NEW r \in Run, Writes(r), clean[r], OneVersionEach,
           OneRowPerKey => KeysAreUnique /\ (contract.metrics \/ ~DuplicateKeys),
           contract.mode = "partition" =>
              \A t \in rows, s \in source: t.key = s.key => Partition(t.val) \in scope[r]
    PROVE  Means(rows, rows')
<1>1. RowTypes /\ TargetInv /\ ExecutionInv(r) /\ Undisturbed(r) BY DEF RowsInv, ExecutionInv
<1>2. CASE contract.mode = "append" /\ rows' = rows \cup InsertedAll(source)
      BY <1>1, <1>2, AppendMeans
<1>3. CASE contract.mode = "overwrite" /\ rows' = InsertedAll(source)
      BY <1>1, <1>3, CreateMeans DEF Versioned
<1>4. CASE /\ pc[r] = "write" /\ contract.mode = "replace" /\ contract.engine = "databricks"
           /\ \A s \in source: Partition(s.val) \in scope[r]
           /\ rows' = {t \in rows: Partition(t.val) \notin scope[r]} \cup InsertedAll(source)
      <2>1. scope[r] = Databricks!PartitionsOf(source) BY <1>1, <1>4 DEF Undisturbed
      <2> QED BY <1>1, <1>4, <2>1, ReplaceMeans
<1>5. CASE /\ pc[r] = "write" /\ contract.mode \in MergeModes
           /\ contract.mode = "hash_diff" => contract.engine # "databricks"
           /\ Merges(r, source) \/ (compared[r] /\ Merges(r, Candidates))
      <2>1. ~Versioned /\ OneRowPerKey BY <1>5 DEF Versioned, OneRowPerKey, MergeModes
      <2>2. ~DuplicateKeys /\ (contract.engine # "databricks" => NullKeys = {})
            BY <1>1, <1>5, <2>1, KnownIs DEF Past
      <2>3. compared[r] => contract.mode = "hash_diff" BY <1>1 DEF ExecutionInv, Place
      <2> QED BY <1>1, <1>5, <2>1, <2>2, <2>3, MergeMeans
<1>6. CASE pc[r] = "create" /\ contract.engine \in {"fabric", "aws"} /\ rows' = InsertedAll(source)
      <2>1. rows = {} BY <1>1, <1>6 DEF Undisturbed
      <2> QED BY <1>1, <1>6, <2>1, CreateMeans DEF Versioned
<1>7. CASE Versioned BY <1>7, VersionsMean
<1> QED BY <1>2, <1>3, <1>4, <1>5, <1>6, <1>7 DEF Writes

\* A run that ends on Fabric or AWS has measured what df holds.
LEMMA EndsMeasured ==
    ASSUME RowsInv, [Next]_<<vars, columnVars>>, NEW r \in Run,
           pc'[r] # pc[r], pc'[r] \in {"done", "skipped"}, clean'[r],
           contract.engine \in {"fabric", "aws"}
    PROVE  measured'[r] = IF compared'[r] THEN {} ELSE source
<1>1. ~UNCHANGED vars BY DEF vars
<1>2. RowsNext BY <1>1 DEF Next, ColumnsNext
<1>3. CASE Change BY <1>3 DEF Change
<1>4. ASSUME NEW x \in Run, Quiet(x)
      PROVE  measured'[r] = IF compared'[r] THEN {} ELSE source
      <2>1. x = r BY <1>4 DEF Quiet, WritesNothing
      <2> QED BY <1>4, <2>1 DEF Quiet, Measures
<1>5. ASSUME NEW x \in Run, Committed(x, Landing)
      PROVE  FALSE
      <2>1. pc'[r] = Landing BY <1>5 DEF Committed, RowsInv, RowTypes
      <2>2. Landing = "written" BY <1>2, RowsSteps, LandingIs
      <2> QED BY <2>1, <2>2
<1> QED BY <1>2, <1>3, <1>4, <1>5, RowsSteps

(* A run that nothing disturbed leaves the target as its mode says, on every *)
(* path of every adapter, for any target, sources and number of runs, given  *)
(* what the property asks of keys and partitions; and on Fabric and AWS what *)
(* it then measures is the source, or nothing after a comparison.            *)
THEOREM CommitsMeanTheirMode == Spec => CommitMeansMode
<1>1. ASSUME RowsInv, [Next]_<<vars, columnVars>>, NEW r \in Run
      PROVE  /\ /\ Commits(r) /\ clean[r] /\ OneVersionEach
                /\ OneRowPerKey => KeysAreUnique /\ (contract.metrics \/ ~DuplicateKeys)
                /\ contract.mode = "partition" =>
                      \A t \in rows, s \in source: t.key = s.key => Partition(t.val) \in scope[r]
                => Means(rows, rows')
             /\ pc'[r] # pc[r] /\ pc'[r] \in {"done", "skipped"} /\ clean'[r]
                   /\ contract.engine \in {"fabric", "aws"} =>
                   measured'[r] = IF compared'[r] THEN {} ELSE source
      <2>1. ASSUME Commits(r), clean[r], OneVersionEach,
                   OneRowPerKey => KeysAreUnique /\ (contract.metrics \/ ~DuplicateKeys),
                   contract.mode = "partition" =>
                      \A t \in rows, s \in source: t.key = s.key => Partition(t.val) \in scope[r]
            PROVE  Means(rows, rows')
            <3>1. contract \in Contract /\ Writes(r) BY <1>1, <2>1, CommitsAre
            <3> QED BY <1>1, <2>1, <3>1, WriteMeans
      <2>2. pc'[r] # pc[r] /\ pc'[r] \in {"done", "skipped"} /\ clean'[r]
                   /\ contract.engine \in {"fabric", "aws"} =>
                   measured'[r] = IF compared'[r] THEN {} ELSE source
            BY <1>1, EndsMeasured
      <2> QED BY <2>1, <2>2
<1>2. RowsInv /\ [Next]_<<vars, columnVars>> =>
         [\A r \in Run:
             /\ /\ Commits(r) /\ clean[r] /\ OneVersionEach
                /\ OneRowPerKey => KeysAreUnique /\ (contract.metrics \/ ~DuplicateKeys)
                /\ contract.mode = "partition" =>
                      \A t \in rows, s \in source: t.key = s.key => Partition(t.val) \in scope[r]
                => Means(rows, rows')
             /\ pc'[r] # pc[r] /\ pc'[r] \in {"done", "skipped"} /\ clean'[r]
                   /\ contract.engine \in {"fabric", "aws"} =>
                   measured'[r] = IF compared'[r] THEN {} ELSE source]_vars
      BY <1>1
<1> QED BY <1>2, RowsInvHolds, PTL DEF Spec, CommitMeansMode

==============================================================================
