-------------------------- MODULE RestReader_proofs --------------------------
(***************************************************************************)
(* What a bounded REST read keeps for every server, page size, limit and   *)
(* kind of pagination, and every number of runs.                           *)
(***************************************************************************)
EXTENDS RestReader, FiniteSetTheorems, TLAPS

-----------------------------------------------------------------------------
(* Positions in a listing *)

\* The order of a listing, as Before, for either direction.
Precedes(o, v, w) == IF o = "oldest" THEN v.stamp < w.stamp ELSE v.stamp > w.stamp

Ahead(S, o, v) == {w \in S: Precedes(o, w, v)}

Position(S, o, v) == Cardinality(Ahead(S, o, v)) + 1

\* Finitely many records, each with a stamp of its own.
Listing(S) ==
    /\ IsFiniteSet(S)
    /\ \A v \in S: v.stamp \in Nat
    /\ \A v, w \in S: v.stamp = w.stamp => v = w

LEMMA PositionType ==
    ASSUME NEW S, NEW o, NEW v, IsFiniteSet(S)
    PROVE  /\ IsFiniteSet(Ahead(S, o, v))
           /\ Position(S, o, v) \in Nat \ {0}
           /\ Cardinality(Ahead(S, o, v)) = Position(S, o, v) - 1
<1>1. IsFiniteSet(Ahead(S, o, v))
      BY FS_Subset DEF Ahead
<1> QED BY <1>1, FS_CardinalityType DEF Position

\* Of two records one is ahead of the other, and has the lower position.
LEMMA PositionsGrow ==
    ASSUME NEW S, NEW o, Listing(S), NEW v \in S, NEW w \in S, Precedes(o, v, w)
    PROVE  Position(S, o, v) < Position(S, o, w)
<1>1. IsFiniteSet(Ahead(S, o, v)) /\ IsFiniteSet(Ahead(S, o, w))
      BY PositionType DEF Listing
<1>2. v \notin Ahead(S, o, v)
      BY DEF Ahead, Precedes, Listing
<1>3. Ahead(S, o, v) \cup {v} \subseteq Ahead(S, o, w)
      BY DEF Ahead, Precedes, Listing
<1>4. Cardinality(Ahead(S, o, v) \cup {v}) = Cardinality(Ahead(S, o, v)) + 1
      BY <1>1, <1>2, FS_AddElement
<1>5. Cardinality(Ahead(S, o, v) \cup {v}) <= Cardinality(Ahead(S, o, w))
      BY <1>1, <1>3, FS_Subset
<1>6. Cardinality(Ahead(S, o, v)) \in Nat /\ Cardinality(Ahead(S, o, w)) \in Nat
      BY <1>1, FS_CardinalityType
<1> QED BY <1>4, <1>5, <1>6 DEF Position

LEMMA PositionOrder ==
    ASSUME NEW S, NEW o, Listing(S), NEW v \in S, NEW w \in S
    PROVE  /\ v = w \/ Precedes(o, v, w) \/ Precedes(o, w, v)
           /\ Precedes(o, v, w) <=> Position(S, o, v) < Position(S, o, w)
           /\ Position(S, o, v) = Position(S, o, w) => v = w
<1>1. v = w \/ Precedes(o, v, w) \/ Precedes(o, w, v)
      BY DEF Precedes, Listing
<1>2. Position(S, o, v) \in Nat /\ Position(S, o, w) \in Nat
      BY PositionType DEF Listing
<1>3. Precedes(o, v, w) => Position(S, o, v) < Position(S, o, w)
      BY PositionsGrow
<1>4. Precedes(o, w, v) => Position(S, o, w) < Position(S, o, v)
      BY PositionsGrow
<1>5. v = w => ~Precedes(o, v, w)
      BY DEF Precedes, Listing
<1> QED BY <1>1, <1>2, <1>3, <1>4, <1>5

\* As many records as positions, at most, lie within an interval.
LEMMA PositionsWithin ==
    ASSUME NEW S, NEW o, Listing(S), NEW a \in Nat, NEW b \in Nat, a <= b,
           NEW T \in SUBSET S, \A v \in T: Position(S, o, v) \in (a + 1)..b
    PROVE  Cardinality(T) <= b - a
<1> DEFINE f == [v \in T |-> Position(S, o, v)]
<1>1. f \in Injection(T, (a + 1)..b)
      <2>1. f \in [T -> (a + 1)..b]
            OBVIOUS
      <2>2. \A v, w \in T: f[v] = f[w] => v = w
            BY PositionOrder
      <2> HIDE DEF f
      <2> QED BY <2>1, <2>2 DEF Injection, IsInjective
<1>2. IsFiniteSet((a + 1)..b) /\ Cardinality((a + 1)..b) = b - a
      <2>1. a + 1 \in Int /\ b \in Int
            OBVIOUS
      <2>2. IsFiniteSet((a + 1)..b) /\ Cardinality((a + 1)..b) = IF a + 1 > b THEN 0 ELSE b - (a + 1) + 1
            BY <2>1, FS_Interval
      <2> QED BY <2>2
<1> HIDE DEF f
<1>3. Cardinality(T) <= Cardinality((a + 1)..b)
      BY <1>1, <1>2, FS_Injection
<1> QED BY <1>2, <1>3

\* The records beyond position n that are ahead of a record beyond n: those
\* up to n are exactly n.
LEMMA PositionBeyond ==
    ASSUME NEW S, NEW o, Listing(S), NEW n \in Nat, NEW v \in S, Position(S, o, v) > n
    PROVE  LET beyond == {w \in S: Position(S, o, w) > n}
           IN  /\ IsFiniteSet(Ahead(beyond, o, v))
               /\ Cardinality(Ahead(beyond, o, v)) = Position(S, o, v) - 1 - n
<1> DEFINE k == Position(S, o, v) - 1
           beyond == {w \in S: Position(S, o, w) > n}
           low == {w \in S: Position(S, o, w) <= n}
           high == Ahead(beyond, o, v)
<1>1. k \in Nat /\ n <= k /\ Cardinality(Ahead(S, o, v)) = k /\ IsFiniteSet(Ahead(S, o, v))
      BY PositionType DEF Listing
<1>2. \A w \in S: Position(S, o, w) \in Nat \ {0}
      BY PositionType DEF Listing
<1>3. \A w \in S: Precedes(o, w, v) <=> Position(S, o, w) < Position(S, o, v)
      BY PositionOrder
<1>4. Ahead(S, o, v) = low \cup high /\ low \cap high = {}
      BY <1>2, <1>3 DEF Ahead
<1>5. IsFiniteSet(low) /\ IsFiniteSet(high)
      BY <1>1, <1>4, FS_Subset
<1>6. Cardinality(low) <= n
      <2>1. \A w \in low: Position(S, o, w) \in (0 + 1)..n
            BY <1>2
      <2>2. low \in SUBSET S /\ 0 \in Nat /\ 0 <= n
            OBVIOUS
      <2> HIDE DEF low
      <2>3. Cardinality(low) <= n - 0
            BY <2>1, <2>2, PositionsWithin
      <2> QED BY <2>3
<1>7. Cardinality(high) <= k - n
      <2>1. \A w \in high: Position(S, o, w) \in (n + 1)..k
            BY <1>1, <1>2, <1>3 DEF Ahead
      <2>2. high \in SUBSET S
            BY DEF Ahead
      <2> HIDE DEF high, k
      <2> QED BY <1>1, <2>1, <2>2, PositionsWithin
<1>8. k = Cardinality(low) + Cardinality(high)
      <2> HIDE DEF low, high, k
      <2>1. Cardinality(low \cup high) = Cardinality(low) + Cardinality(high) - Cardinality(low \cap high)
            BY <1>5, FS_Union
      <2>2. Cardinality(low \cap high) = 0
            BY <1>4, FS_EmptySet
      <2>3. Cardinality(low) \in Nat /\ Cardinality(high) \in Nat
            BY <1>5, FS_CardinalityType
      <2> QED BY <1>1, <1>4, <2>1, <2>2, <2>3
<1>9. Cardinality(low) \in Nat /\ Cardinality(high) \in Nat
      BY <1>5, FS_CardinalityType
<1> HIDE DEF low, high
<1>10. Cardinality(high) = k - n
      BY <1>1, <1>6, <1>7, <1>8, <1>9
<1> QED BY <1>5, <1>10 DEF high

\* A bounded set of numbers has a greatest one.
LEMMA Maximum ==
    ASSUME NEW N \in Nat, NEW T, T \subseteq 0..N, T # {}
    PROVE  \E x \in T: \A y \in T: y <= x
<1> DEFINE R == StrictSubsetOrdering(0..N)
           Above(n) == n..N
           TT == {Above(n): n \in T}
<1>1. IsWellFoundedOn(R, FiniteSubsetsOf(0..N))
      BY FS_StrictSubsetOrderingWellFounded
<1>2. TT \subseteq FiniteSubsetsOf(0..N) /\ TT # {}
      <2>1. ASSUME NEW n \in T
            PROVE  IsFiniteSet(Above(n)) /\ Above(n) \subseteq 0..N
            <3>1. n \in 0..N /\ n \in Int /\ N \in Int
                  OBVIOUS
            <3>2. IsFiniteSet(n..N)
                  BY <3>1, FS_Interval
            <3> QED BY <3>1, <3>2
      <2> HIDE DEF Above
      <2> QED BY <2>1 DEF FiniteSubsetsOf
<1>3. \E x \in TT: \A y \in TT: ~(<<y, x>> \in R)
      <2> HIDE DEF R, TT
      <2> QED BY <1>1, <1>2, WFMin
<1>4. PICK x \in T: \A y \in T: ~(<<Above(y), Above(x)>> \in R)
      BY <1>3
<1>5. ASSUME NEW y \in T, x < y
      PROVE  <<Above(y), Above(x)>> \in R
      <2>1. Above(y) \subseteq Above(x) /\ x \in Above(x) \ Above(y)
            BY <1>5
      <2> QED BY <2>1 DEF StrictSubsetOrdering
<1>6. \A y \in T: ~(x < y)
      BY <1>4, <1>5
<1>7. \A y \in T: y <= x
      BY <1>6
<1> QED BY <1>7

-----------------------------------------------------------------------------
(* Pages *)

\* The server gives each version a stamp of its own, and a key one version.
Ordered ==
    /\ IsFiniteSet(served) /\ served \subseteq Version
    /\ stamp \in 0..MaxStamp
    /\ \A v \in served: v.stamp <= stamp
    /\ \A v, w \in served: v.stamp = w.stamp \/ v.id = w.id => v = w

LEMMA ListedIsListing ==
    ASSUME Ordered
    PROVE  Listing(Listed) /\ Listed \subseteq served /\ Listed \subseteq Version
<1>1. Listed \subseteq served
      BY DEF Listed
<1>2. IsFiniteSet(Listed)
      BY <1>1, FS_Subset DEF Ordered
<1> QED BY <1>1, <1>2 DEF Listing, Ordered, Version

LEMMA RankIsPosition ==
    /\ \A v, w: Before(v, w) <=> Precedes(source.order, v, w)
    /\ \A v: Rank(v) = Position(Listed, source.order, v)
BY DEF Before, Precedes, Rank, Position, Ahead

\* A page by position is the listing between two positions.
LEMMA PageByPosition ==
    ASSUME Ordered, source.pagination # "cursor", NEW request, NEW n \in Nat,
           n = (request - 1) * PageSize
    PROVE  /\ From(request) = {v \in Listed: Rank(v) > n}
           /\ Page(request) = {v \in Listed: Rank(v) > n /\ Rank(v) <= n + PageSize}
<1> DEFINE o == source.order
<1>1. From(request) = {v \in Listed: Rank(v) > n}
      BY DEF From
<1>2. ASSUME NEW v \in Listed, Rank(v) > n
      PROVE  Cardinality({w \in From(request): Before(w, v)}) = Rank(v) - 1 - n
      <2>1. {w \in From(request): Before(w, v)}
                = Ahead({w \in Listed: Position(Listed, o, w) > n}, o, v)
            BY <1>1, RankIsPosition DEF Ahead
      <2>2. Position(Listed, o, v) > n
            BY <1>2, RankIsPosition
      <2>3. Listing(Listed)
            BY ListedIsListing
      <2>4. Cardinality(Ahead({w \in Listed: Position(Listed, o, w) > n}, o, v))
                = Position(Listed, o, v) - 1 - n
            <3> HIDE DEF o
            <3> QED BY <2>2, <2>3, PositionBeyond
      <2> QED BY <2>1, <2>4, RankIsPosition
<1>3. \A v \in Listed: Rank(v) \in Nat \ {0}
      BY RankIsPosition, ListedIsListing, PositionType DEF Listing
<1>4. PageSize \in Nat \ {0}
      BY BoundAssumption
<1>5. \A r \in Nat: r - 1 - n < PageSize <=> r <= n + PageSize
      BY <1>4
<1>6. \A v \in Listed: Rank(v) > n =>
            (Cardinality({w \in From(request): Before(w, v)}) < PageSize <=> Rank(v) <= n + PageSize)
      BY <1>2, <1>3, <1>5
<1> QED BY <1>1, <1>6 DEF Page

\* A page is the head of what the request may return.
LEMMA PageIsHead ==
    ASSUME Ordered, NEW request
    PROVE  /\ Page(request) \subseteq From(request) /\ From(request) \subseteq Listed
           /\ \A v \in From(request), w \in Page(request): Before(v, w) => v \in Page(request)
           /\ From(request) # {} => Page(request) # {}
<1>1. Page(request) \subseteq From(request) /\ From(request) \subseteq Listed
      BY DEF Page, From
<1>2. IsFiniteSet(From(request))
      BY <1>1, ListedIsListing, FS_Subset DEF Listing
<1> DEFINE Up(v) == {w \in From(request): Before(w, v)}
<1>3. \A v: IsFiniteSet(Up(v)) /\ Cardinality(Up(v)) \in Nat
      <2>1. \A v: IsFiniteSet(Up(v))
            BY <1>2, FS_Subset
      <2> HIDE DEF Up
      <2> QED BY <2>1, FS_CardinalityType
<1>4. ASSUME NEW v \in From(request), NEW w \in Page(request), Before(v, w)
      PROVE  v \in Page(request)
      <2>1. Up(v) \subseteq Up(w)
            BY <1>1, <1>4, ListedIsListing DEF Before, Listing
      <2>2. Cardinality(Up(v)) <= Cardinality(Up(w))
            <3> HIDE DEF Up
            <3> QED BY <1>3, <2>1, FS_Subset
      <2>3. Cardinality(Up(w)) < PageSize
            BY DEF Page
      <2>4. Cardinality(Up(v)) < PageSize
            <3> HIDE DEF Up
            <3> QED BY <1>3, <2>2, <2>3, BoundAssumption
      <2> QED BY <2>4 DEF Page
<1>5. ASSUME From(request) # {}
      PROVE  Page(request) # {}
      <2> DEFINE o == source.order
                 S == From(request)
      <2>1. Listing(S)
            BY <1>1, <1>2, ListedIsListing DEF Listing
      <2>2. PICK v \in S: \A w \in S: ~Precedes(o, w, v)
            <3> DEFINE D == {Cardinality(S) - Cardinality(Ahead(S, o, w)): w \in S}
            <3>1. \A w \in S: /\ Cardinality(Ahead(S, o, w)) \in Nat
                              /\ Cardinality(Ahead(S, o, w)) <= Cardinality(S)
                  BY <1>2, FS_Subset, FS_CardinalityType DEF Ahead
            <3>2. Cardinality(S) \in Nat
                  BY <1>2, FS_CardinalityType
            <3>3. D \subseteq 0..Cardinality(S) /\ D # {}
                  <4> HIDE DEF S
                  <4> QED BY <1>5, <3>1, <3>2 DEF S
            <3>4. \E x \in D: \A y \in D: y <= x
                  <4> HIDE DEF D
                  <4> QED BY <3>2, <3>3, Maximum
            <3>5. PICK v \in S: \A w \in S: Cardinality(S) - Cardinality(Ahead(S, o, w))
                                           <= Cardinality(S) - Cardinality(Ahead(S, o, v))
                  BY <3>4
            <3>6. ASSUME NEW w \in S, Precedes(o, w, v)
                  PROVE  FALSE
                  <4>1. Position(S, o, w) < Position(S, o, v)
                        BY <2>1, <3>6, PositionsGrow
                  <4>2. Cardinality(Ahead(S, o, v)) <= Cardinality(Ahead(S, o, w))
                        <5> HIDE DEF S
                        <5> QED BY <3>1, <3>2, <3>5
                  <4> QED BY <3>1, <4>1, <4>2 DEF Position
            <3> QED BY <3>6
      <2>3. Up(v) = {}
            BY <2>2, RankIsPosition
      <2>4. Cardinality(Up(v)) < PageSize
            BY <2>3, FS_EmptySet, BoundAssumption
      <2> QED BY <2>4 DEF Page
<1> QED BY <1>1, <1>4, <1>5

\* The record that a cursor goes on from: the last of its page.
LEMMA LastIsLast ==
    ASSUME Ordered, NEW page, page \subseteq Listed, page # {}
    PROVE  /\ LastOf(page) \in page
           /\ \A w \in page: w = LastOf(page) \/ Before(w, LastOf(page))
<1> DEFINE o == source.order
           D == {Position(Listed, o, w) - 1: w \in page}
<1>1. Listing(Listed)
      BY ListedIsListing
<1>2. Cardinality(Listed) \in Nat
      BY <1>1, FS_CardinalityType DEF Listing
<1>3. \A w \in page: Position(Listed, o, w) \in Nat \ {0} /\ Position(Listed, o, w) - 1 <= Cardinality(Listed)
      <2> TAKE w \in page
      <2>1. IsFiniteSet(Listed) /\ Ahead(Listed, o, w) \subseteq Listed
            BY <1>1 DEF Listing, Ahead
      <2>2. Cardinality(Ahead(Listed, o, w)) <= Cardinality(Listed)
            BY <2>1, FS_Subset
      <2> QED BY <2>1, <2>2, PositionType
<1>4. D \subseteq 0..Cardinality(Listed) /\ D # {}
      BY <1>2, <1>3
<1>5. \E x \in D: \A y \in D: y <= x
      <2> HIDE DEF D
      <2> QED BY <1>2, <1>4, Maximum
<1>6. PICK l \in page: \A w \in page: Position(Listed, o, w) - 1 <= Position(Listed, o, l) - 1
      BY <1>5
<1>7. \A w \in page: w = l \/ Before(w, l)
      <2> TAKE w \in page
      <2>1. Position(Listed, o, w) <= Position(Listed, o, l)
            BY <1>3, <1>6
      <2>2. ~Precedes(o, l, w)
            BY <1>1, <1>3, <2>1, PositionOrder
      <2> QED BY <1>1, <2>2, PositionOrder, RankIsPosition
<1> QED BY <1>7 DEF LastOf

-----------------------------------------------------------------------------
(* Types and the order of the server's records *)

Typed ==
    /\ TypeOK
    /\ Ordered
    /\ phase = "reading" => pages < source.maxPages
    /\ phase = "reading" /\ source.pagination # "cursor" => asked \in Nat \ {0}
    /\ steady \subseteq Listed
    /\ \A v \in records: v.stamp <= stamp

LEMMA SourceType ==
    ASSUME source \in Source
    PROVE  /\ source.pagination \in Positional \cup {"cursor"}
           /\ source.order \in {"oldest", "newest"}
           /\ source.maxPages \in Nat \ {0} /\ source.attempts \in Nat \ {0} /\ source.since \in Nat
BY SourceAssumption DEF Contract

LEMMA PageType ==
    ASSUME Ordered, NEW request
    PROVE  /\ Page(request) \subseteq Version /\ IsFiniteSet(Page(request))
           /\ Cardinality(Page(request)) \in Nat
<1>1. Page(request) \subseteq Listed
      BY PageIsHead
<1>2. IsFiniteSet(Page(request))
      BY <1>1, ListedIsListing, FS_Subset DEF Listing
<1> QED BY <1>1, <1>2, ListedIsListing, FS_CardinalityType

\* What a request without the cursor's Null leads to.
LEMMA NextRequestType ==
    ASSUME Typed, phase = "reading", NEW next \in NextRequests(asked, Page(asked)), next # Null
    PROVE  /\ source.pagination # "cursor" => next = asked + 1 /\ next \in Nat \ {0}
           /\ source.pagination = "cursor" =>
                 /\ Further(asked) /\ Page(asked) # {}
                 /\ next = LastOf(Page(asked)).stamp /\ next \in Nat
                 /\ LastOf(Page(asked)) \in Page(asked)
<1>1. source.pagination \in Positional \cup {"cursor"}
      BY SourceType DEF Typed, TypeOK
<1>2. CASE source.pagination # "cursor"
      BY <1>1, <1>2 DEF NextRequests, Typed, Positional
<1>3. CASE source.pagination = "cursor"
      <2>1. Further(asked) /\ next = LastOf(Page(asked)).stamp
            BY <1>3 DEF NextRequests
      <2>2. Page(asked) # {} /\ Page(asked) \subseteq Listed
            BY <2>1, PageIsHead DEF Further, Typed
      <2>3. LastOf(Page(asked)) \in Page(asked)
            BY <2>2, LastIsLast DEF Typed
      <2> QED BY <1>3, <2>1, <2>2, <2>3, ListedIsListing DEF Typed, Version
<1> QED BY <1>2, <1>3

LEMMA ListedGrows ==
    ASSUME Typed, NEW i \in Id, Insert(i)
    PROVE  Ordered' /\ Listed \subseteq Listed'
<1> DEFINE new == [id |-> i, stamp |-> stamp + 1]
<1>1. served' = served \cup {new} /\ new \in Version /\ stamp' = stamp + 1 /\ stamp' \in 0..MaxStamp
      BY BoundAssumption DEF Insert, Typed, Ordered, Version
<1>2. IsFiniteSet(served')
      BY <1>1, FS_AddElement DEF Typed, Ordered
<1>3. \A v \in served: v.stamp \in Nat /\ v.stamp <= stamp /\ stamp \in Nat
      BY DEF Typed, Ordered, Version
<1>4. \A v \in served': v.stamp <= stamp'
      BY <1>1, <1>3
<1>5. \A v, w \in served': v.stamp = w.stamp \/ v.id = w.id => v = w
      BY <1>1, <1>3 DEF Insert, Typed, Ordered
<1>6. Listed \subseteq Listed'
      BY <1>1 DEF Listed, Insert
<1> QED BY <1>1, <1>2, <1>4, <1>5, <1>6 DEF Typed, Ordered

LEMMA ListedShrinks ==
    ASSUME Typed, NEW v \in served, Remove(v)
    PROVE  Ordered' /\ Listed' = Listed \ {v}
<1>1. IsFiniteSet(served')
      BY FS_Subset DEF Remove, Typed, Ordered
<1> QED BY <1>1 DEF Remove, Typed, Ordered, Listed

LEMMA ListedChanges ==
    ASSUME Typed, NEW v \in served, Update(v)
    PROVE  Ordered' /\ Listed \ {v} \subseteq Listed'
           /\ Listed' \subseteq (Listed \ {v}) \cup {[v EXCEPT !.stamp = stamp + 1]}
<1> DEFINE new == [v EXCEPT !.stamp = stamp + 1]
<1>1. served' = (served \ {v}) \cup {new} /\ stamp' = stamp + 1
      BY DEF Update
<1>2. /\ new \in Version /\ new.id = v.id /\ new.stamp = stamp + 1
      /\ stamp' \in 0..MaxStamp /\ stamp \in Nat
      BY BoundAssumption DEF Update, Typed, Ordered, Version
<1>3. IsFiniteSet(served \ {v})
      BY FS_Subset DEF Typed, Ordered
<1> HIDE DEF new
<1>4. IsFiniteSet(served')
      BY <1>1, <1>3, FS_AddElement
<1>5. \A w \in served: w.stamp \in Nat /\ w.stamp <= stamp
      BY DEF Typed, Ordered, Version
<1>6. \A w \in served': w.stamp <= stamp'
      BY <1>1, <1>2, <1>5
<1>7. \A w, u \in served': w.stamp = u.stamp \/ w.id = u.id => w = u
      BY <1>1, <1>2, <1>5 DEF Typed, Ordered
<1>8. Listed \ {v} \subseteq Listed' /\ Listed' \subseteq (Listed \ {v}) \cup {new}
      BY <1>1 DEF Listed, Update
<1> QED BY <1>1, <1>2, <1>4, <1>6, <1>7, <1>8 DEF Typed, Ordered, new

\* What the steps of the reader and of a run leave to the server.
LEMMA ReaderKeepsServer ==
    ASSUME Typed, UNCHANGED <<source, server>>
    PROVE  Ordered' /\ Listed' = Listed
BY DEF server, Typed, Ordered, Listed

\* The watermark column follows the order of the changes.
LEMMA MarksFollowStamps ==
    ASSUME source \in Source, NEW v \in Version
    PROVE  /\ Mark(v) \in Nat
           /\ \A w \in Version: v.stamp <= w.stamp => Mark(v) <= Mark(w)
<1>1. \A w \in Version: w.stamp \in 1..MaxStamp
      BY DEF Version
<1>2. source.marks \in [1..MaxStamp -> Nat]
      BY SourceAssumption DEF Contract
<1> QED BY <1>1, <1>2, SourceAssumption DEF Mark

\* The greatest of the marks of received records exists.
LEMMA GreatestIsGreatest ==
    ASSUME source \in Source, NEW kept, kept # {}, kept \subseteq Version
    PROVE  LET marks == {Mark(v): v \in kept}
           IN  Greatest(marks) \in marks /\ \A v \in kept: Mark(v) <= Greatest(marks)
<1> DEFINE marks == {Mark(v): v \in kept}
           bound == source.marks[MaxStamp]
<1>1. \A v \in kept: Mark(v) \in Nat /\ Mark(v) <= bound /\ bound \in Nat
      <2> SUFFICES ASSUME NEW v \in kept
                   PROVE  Mark(v) \in Nat /\ Mark(v) <= bound /\ bound \in Nat
          OBVIOUS
      <2>1. v.stamp \in 1..MaxStamp /\ MaxStamp \in 1..MaxStamp /\ v.stamp <= MaxStamp
            BY BoundAssumption DEF Version
      <2>2. source.marks \in [1..MaxStamp -> Nat]
            BY SourceAssumption DEF Contract
      <2> QED BY <2>1, <2>2, SourceAssumption DEF Mark
<1>2. bound \in Nat /\ marks \subseteq 0..bound /\ marks # {}
      BY <1>1
<1>3. \E s \in marks: \A t \in marks: t <= s
      <2> HIDE DEF marks, bound
      <2> QED BY <1>2, Maximum
<1>4. Greatest(marks) \in marks /\ \A t \in marks: t <= Greatest(marks)
      <2> HIDE DEF marks
      <2> QED BY <1>3 DEF Greatest
<1> QED BY <1>4

LEMMA TypedInit == Init => Typed
<1> SUFFICES ASSUME Init
             PROVE  Typed
    OBVIOUS
<1>1. Ordered
      BY BoundAssumption, FS_EmptySet DEF Init, Ordered
<1>2. source \in Source /\ source.maxPages \in Nat \ {0} /\ source.attempts \in Nat \ {0}
      BY SourceType DEF Init
<1>3. 0 \in 0..source.maxPages /\ 1 \in 1..source.attempts /\ 0 \in 0..MaxRead /\ 0 \in 0..MaxStamp
      BY <1>2, BoundAssumption
<1>4. TypeOK
      BY <1>2, <1>3 DEF Init, TypeOK
<1> QED BY <1>1, <1>4 DEF Init, Typed

\* Types are kept by each step.
LEMMA TypedNext == Typed /\ [Next]_vars => Typed'
<1> SUFFICES ASSUME Typed, [Next]_vars
             PROVE  Typed'
    OBVIOUS
<1> USE DEF Typed, TypeOK, server, reader, target, history
<1>1. \A v \in records: v.stamp <= stamp /\ v.stamp \in Nat /\ stamp \in Nat
      BY DEF Ordered, Version
<1>2. ASSUME NEW i \in Id, Insert(i)
      PROVE  Typed'
      <2>1. Ordered' /\ Listed \subseteq Listed'
            BY <1>2, ListedGrows
      <2>2. \A v \in records': v.stamp <= stamp'
            BY <1>1, <1>2 DEF Insert
      <2> QED BY <1>2, <2>1, <2>2 DEF Insert, Ordered
<1>3. ASSUME NEW v \in served, Remove(v)
      PROVE  Typed'
      <2>1. Ordered' /\ Listed' = Listed \ {v}
            BY <1>3, ListedShrinks
      <2> QED BY <1>3, <2>1 DEF Remove, Ordered
<1>4. ASSUME NEW v \in served, Update(v)
      PROVE  Typed'
      <2>1. Ordered' /\ Listed \ {v} \subseteq Listed'
            BY <1>4, ListedChanges
      <2>2. \A w \in records': w.stamp <= stamp'
            BY <1>1, <1>4 DEF Update
      <2>3. v.id \in Id
            BY DEF Ordered, Version
      <2> QED BY <1>4, <2>1, <2>2, <2>3 DEF Update, Ordered
<1>5. CASE Start
      <2>1. Ordered' /\ Listed' = Listed /\ Listed \subseteq Version
            BY <1>5, ReaderKeepsServer, ListedIsListing DEF Start
      <2>2. source.maxPages \in Nat \ {0} /\ source.attempts \in Nat \ {0}
            BY SourceType
      <2>3. pages' \in 0..source'.maxPages /\ pages' < source'.maxPages /\ attempt' \in 1..source'.attempts
            BY <1>5, <2>2 DEF Start
      <2>4. reads' \in 0..MaxRead
            BY <1>5, BoundAssumption DEF Start
      <2>5. asked' \in Nat \cup {Null} /\ (source'.pagination # "cursor" => asked' \in Nat \ {0})
            BY <1>5 DEF Start, FirstRequest
      <2>6. steady' \subseteq Version /\ steady' \subseteq Listed'
            BY <1>5, <2>1 DEF Start
      <2>7. records' = {} /\ total' = 0 /\ repeated' = {} /\ updated' = {}
            /\ {movedUp', movedDown', wentOn', cut', holes'} \subseteq BOOLEAN
            BY <1>5 DEF Start
      <2> QED BY <1>5, <2>1, <2>3, <2>4, <2>5, <2>6, <2>7 DEF Start
<1>6. CASE Answered
      <2>1. Ordered' /\ Listed' = Listed
            BY <1>6, ReaderKeepsServer DEF Answered
      <2>2. /\ Page(asked) \subseteq Version /\ Page(asked) \subseteq served
            /\ Cardinality(Page(asked)) \in Nat
            BY PageType, PageIsHead, ListedIsListing
      <2>3. source.maxPages \in Nat \ {0} /\ source.attempts \in Nat \ {0}
            BY SourceType
      <2>4. \A v \in records': v.stamp <= stamp'
            BY <1>1, <1>6, <2>2 DEF Answered, Ordered
      <2>5. PICK next \in NextRequests(asked, Page(asked)):
                IF LastPage(pages + 1) \/ next = Null
                THEN /\ phase' = "read" /\ cut' = Further(asked) /\ asked' = Null /\ UNCHANGED wentOn
                ELSE /\ asked' = next
                     /\ wentOn' = (wentOn \/ Cardinality(Page(asked)) < PageSize)
                     /\ UNCHANGED <<phase, cut>>
            BY <1>6 DEF Answered
      <2>6. /\ source' = source /\ served' = served /\ stamp' = stamp
            /\ pages' = pages + 1 /\ attempt' = 1 /\ records' = records \cup Page(asked)
            /\ repeated' = repeated \cup (records \cap Page(asked))
            /\ total' = total + Cardinality(Page(asked)) /\ phase = "reading"
            /\ UNCHANGED <<watermark, wrote, reads, steady, movedUp, movedDown, updated, holes>>
            BY <1>6 DEF Answered
      <2>7. pages' \in 0..source'.maxPages
            BY <2>3, <2>6
      <2>8. CASE LastPage(pages + 1) \/ next = Null
            <3>1. Further(asked) \in BOOLEAN
                  BY DEF Further
            <3> QED BY <2>1, <2>2, <2>3, <2>4, <2>5, <2>6, <2>7, <2>8, <3>1
      <2>9. CASE ~(LastPage(pages + 1) \/ next = Null)
            <3>1. next \in Nat /\ (source.pagination # "cursor" => next \in Nat \ {0})
                  BY <2>6, <2>9, NextRequestType
            <3>2. pages' < source'.maxPages
                  BY <2>3, <2>6, <2>9 DEF LastPage
            <3>3. (wentOn \/ Cardinality(Page(asked)) < PageSize) \in BOOLEAN
                  OBVIOUS
            <3> QED BY <2>1, <2>2, <2>3, <2>4, <2>5, <2>6, <2>7, <2>9, <3>1, <3>2, <3>3
      <2> QED BY <2>8, <2>9
<1>7. CASE Retry
      <2>1. Ordered' /\ Listed' = Listed
            BY <1>7, ReaderKeepsServer DEF Retry
      <2> QED BY <1>7, <2>1, SourceType DEF Retry
<1>8. CASE Fails
      <2>1. Ordered' /\ Listed' = Listed
            BY <1>8, ReaderKeepsServer DEF Fails
      <2> QED BY <1>8, <2>1 DEF Fails
<1>9. CASE Write
      <2>1. Ordered' /\ Listed' = Listed
            BY <1>9, ReaderKeepsServer DEF Write
      <2> DEFINE kept == {v \in records: Kept(v)}
      <2>2. kept # {} => Greatest({Mark(v): v \in kept}) \in {Mark(v): v \in kept}
            BY GreatestIsGreatest
      <2>3. \A v \in kept: Mark(v) \in Nat
            BY MarksFollowStamps
      <2>5. watermark' \in Nat \cup {Null, Valueless}
            BY <1>9, <2>2, <2>3 DEF Write
      <2>4. (holes \/ HasHoles) \in BOOLEAN
            OBVIOUS
      <2> QED BY <1>9, <2>1, <2>4, <2>5 DEF Write
<1>10. CASE Undecodable
      <2>1. Ordered' /\ Listed' = Listed
            BY <1>10, ReaderKeepsServer DEF Undecodable
      <2> QED BY <1>10, <2>1 DEF Undecodable
<1>11. CASE UNCHANGED vars
      <2>1. Ordered' /\ Listed' = Listed
            BY <1>11, ReaderKeepsServer DEF vars
      <2> QED BY <1>11, <2>1 DEF vars
<1> QED BY <1>2, <1>3, <1>4, <1>5, <1>6, <1>7, <1>8, <1>9, <1>10, <1>11 DEF Next, ServerStep

\* The state of a read has its type, for every server and every source contract.
THEOREM ReaderTypes == Spec => []Typed
BY TypedInit, TypedNext, PTL DEF Spec

-----------------------------------------------------------------------------
(* What the watermark says of the target *)

\* A watermark is the greatest mark written, and no stamp written is of the future.
MarkIsBehind ==
    /\ watermark = Null => wrote = {}
    /\ \A v \in wrote: v.stamp <= stamp
    /\ watermark \in Nat =>
          (\E w \in wrote: Mark(w) = watermark) /\ \A v \in wrote: Mark(v) <= watermark

\* Only the write of a run moves it.
LEMMA MarkIsBehindNext == Typed /\ MarkIsBehind /\ [Next]_vars => MarkIsBehind'
<1> SUFFICES ASSUME Typed, MarkIsBehind, [Next]_vars
             PROVE  MarkIsBehind'
    OBVIOUS
<1>1. /\ stamp \in Nat /\ \A v \in records: v.stamp \in Nat /\ v.stamp <= stamp
      /\ source \in Source /\ records \subseteq Version /\ wrote \subseteq Version
      BY BoundAssumption DEF Typed, TypeOK, Version
<1>0. \A v \in Version: v.stamp \in Nat
      BY DEF Version
<1>2. CASE Write
      <2> DEFINE kept == {v \in records: Kept(v)}
                 top == Greatest({Mark(v): v \in kept})
      <2>1. /\ wrote' = wrote \cup kept /\ stamp' = stamp /\ watermark # Valueless
            /\ source' = source /\ kept \subseteq Version /\ \A v \in wrote': v.stamp <= stamp'
            BY <1>1, <1>2 DEF Write, server, MarkIsBehind
      <2>2. CASE kept = {}
            BY <1>2, <2>1, <2>2, MarkAssumption DEF Write, MarkIsBehind
      <2>3. CASE kept # {}
            <3>1. \A v \in Version: Mark(v) \in Nat
                  BY <1>1, MarksFollowStamps
            <3>2. top \in {Mark(v): v \in kept} /\ \A v \in kept: Mark(v) <= top
                  <4> HIDE DEF kept
                  <4> QED BY <1>1, <2>1, <2>3, GreatestIsGreatest
            <3>3. top \in Nat
                  BY <2>1, <3>1, <3>2
            <3>4. watermark' = top
                  BY <1>2, <2>3 DEF Write
            <3>5. \A v \in wrote: Mark(v) <= top
                  <4>1. CASE watermark = Null
                        BY <4>1 DEF MarkIsBehind
                  <4>2. CASE watermark # Null
                        <5>1. watermark \in Nat
                              BY <2>1, <4>2 DEF Typed, TypeOK
                        <5>2. PICK v \in kept: Mark(v) = top
                              BY <3>2
                        <5>3. watermark < top
                              BY <2>1, <3>1, <3>3, <4>2, <5>1, <5>2 DEF Kept
                        <5>4. \A u \in wrote: Mark(u) \in Nat
                              BY <1>1, <3>1
                        <5> QED BY <3>3, <5>1, <5>3, <5>4 DEF MarkIsBehind
                  <4> QED BY <4>1, <4>2
            <3>6. \A v: Mark(v)' = Mark(v)
                  BY <2>1 DEF Mark
            <3> HIDE DEF kept, top
            <3>7. \E w \in wrote': Mark(w)' = watermark'
                  BY <2>1, <3>2, <3>4, <3>6
            <3>8. \A v \in wrote': Mark(v)' <= watermark'
                  BY <2>1, <3>2, <3>4, <3>5, <3>6
            <3> QED BY <2>1, <3>3, <3>4, <3>7, <3>8, MarkAssumption DEF MarkIsBehind
      <2> QED BY <2>2, <2>3
<1>3. ASSUME UNCHANGED <<source, watermark, wrote>>, stamp' \in Nat, stamp <= stamp'
      PROVE  MarkIsBehind'
      <2>1. \A v: Mark(v)' = Mark(v)
            BY <1>3 DEF Mark
      <2>2. \A v \in wrote: v.stamp <= stamp'
            BY <1>0, <1>1, <1>3 DEF MarkIsBehind
      <2> QED BY <1>3, <2>1, <2>2 DEF MarkIsBehind
<1>4. CASE ServerStep
      <2>1. UNCHANGED <<source, watermark, wrote>> /\ stamp' \in {stamp, stamp + 1}
            BY <1>4 DEF ServerStep, Insert, Remove, Update, target
      <2> QED BY <1>1, <1>3, <2>1
<1>5. CASE Start
      BY <1>1, <1>3, <1>5 DEF Start, server
<1>6. CASE Answered \/ Retry \/ Fails \/ Undecodable
      BY <1>1, <1>3, <1>6 DEF Answered, Retry, Fails, Undecodable, target, server
<1>7. CASE UNCHANGED vars
      BY <1>1, <1>3, <1>7 DEF vars, target, server
<1> QED BY <1>2, <1>4, <1>5, <1>6, <1>7 DEF Next

LEMMA MarkStaysBehind == Spec => []MarkIsBehind
<1>1. Init => MarkIsBehind
      BY MarkAssumption DEF Init, MarkIsBehind
<1> QED BY <1>1, MarkIsBehindNext, ReaderTypes, PTL DEF Spec

\* No version is written twice, whatever the server does between two runs and
\* however often a read is cut off, retried or repeated.
THEOREM WritesAreNew == Spec => []NothingIsWrittenTwice
<1>1. Typed /\ MarkIsBehind => NothingIsWrittenTwice
      <2> SUFFICES ASSUME Typed, MarkIsBehind, watermark # Valueless,
                          NEW v \in records, Kept(v), v \in wrote
                   PROVE  FALSE
          BY DEF NothingIsWrittenTwice
      <2>1. watermark \in Nat \cup {Null} /\ Mark(v) \in Nat
            BY MarksFollowStamps DEF Typed, TypeOK
      <2> QED BY <2>1 DEF Kept, MarkIsBehind
<1> QED BY <1>1, MarkStaysBehind, ReaderTypes, PTL

-----------------------------------------------------------------------------
(* How positions move while a page is awaited *)

LEMMA PositionsCompare ==
    ASSUME NEW S, NEW T, NEW o, NEW v, IsFiniteSet(T), Ahead(S, o, v) \subseteq Ahead(T, o, v)
    PROVE  Position(S, o, v) <= Position(T, o, v)
<1>1. IsFiniteSet(Ahead(T, o, v))
      BY PositionType
<1>2. /\ IsFiniteSet(Ahead(S, o, v))
      /\ Cardinality(Ahead(S, o, v)) <= Cardinality(Ahead(T, o, v))
      BY <1>1, FS_Subset
<1>3. Cardinality(Ahead(S, o, v)) \in Nat /\ Cardinality(Ahead(T, o, v)) \in Nat
      BY <1>1, <1>2, FS_CardinalityType
<1> QED BY <1>2, <1>3 DEF Position

\* One record leaves and another takes a place ahead: nobody moves up.
LEMMA PositionsExchange ==
    ASSUME NEW S, NEW T, NEW o, NEW v, IsFiniteSet(S), IsFiniteSet(T), NEW u, NEW new,
           new \notin S, (Ahead(S, o, v) \ {u}) \cup {new} \subseteq Ahead(T, o, v)
    PROVE  Position(S, o, v) <= Position(T, o, v)
<1> DEFINE A == Ahead(S, o, v)
           B == Ahead(T, o, v)
           Kin == A \ {u}
<1>1. IsFiniteSet(A) /\ IsFiniteSet(B) /\ new \notin A
      BY PositionType DEF Ahead
<1> HIDE DEF A, B
<1>2. IsFiniteSet(Kin) /\ new \notin Kin
      BY <1>1, FS_Subset
<1>3. Cardinality(Kin) \in Nat /\ Cardinality(A) \in Nat /\ Cardinality(B) \in Nat
      BY <1>1, <1>2, FS_CardinalityType
<1>4. Cardinality(A) <= Cardinality(Kin) + 1
      <2>1. CASE u \in A
            <3>1. Cardinality(Kin) = Cardinality(A) - 1
                  BY <1>1, <2>1, FS_RemoveElement
            <3> QED BY <1>3, <3>1
      <2>2. CASE u \notin A
            <3>1. Kin = A
                  BY <2>2
            <3> QED BY <1>3, <3>1
      <2> QED BY <2>1, <2>2
<1>5. Cardinality(Kin \cup {new}) = Cardinality(Kin) + 1
      BY <1>2, FS_AddElement
<1>6. Cardinality(Kin \cup {new}) <= Cardinality(B)
      <2>1. Kin \cup {new} \subseteq B
            BY DEF A, B
      <2> HIDE DEF Kin
      <2> QED BY <1>1, <2>1, FS_Subset
<1> HIDE DEF Kin
<1>7. Cardinality(A) <= Cardinality(B)
      BY <1>3, <1>4, <1>5, <1>6
<1> QED BY <1>3, <1>7 DEF Position, A, B

\* A server step during a read: records keep their place or move the way that
\* the history variables say; what is new has a stamp beyond all others.
LEMMA ServerMoves ==
    ASSUME Typed, ServerStep, phase = "reading"
    PROVE  /\ Listing(Listed) /\ Listing(Listed')
           /\ source' = source /\ steady' \subseteq steady /\ UNCHANGED <<reader, target>>
           /\ (movedUp => movedUp') /\ (movedDown => movedDown') /\ updated \subseteq updated'
           /\ wentOn' = wentOn /\ repeated' = repeated
           /\ \A v \in Listed' \ Listed: v.stamp > stamp
           /\ ~movedDown' =>
                \A v \in Listed \cap Listed':
                    Position(Listed', source.order, v) <= Position(Listed, source.order, v)
           /\ ~movedUp' =>
                \A v \in Listed \cap Listed':
                    Position(Listed, source.order, v) <= Position(Listed', source.order, v)
<1> DEFINE o == source.order
<1>1. /\ Listing(Listed) /\ stamp \in Nat
      /\ \A v \in Listed: v.stamp \in Nat /\ v.stamp <= stamp
      BY ListedIsListing DEF Typed, TypeOK, Ordered, Listing
<1>2. Ordered' /\ source' = source
      BY ListedGrows, ListedShrinks, ListedChanges DEF ServerStep, Insert, Remove, Update
<1>3. Listing(Listed')
      <2>1. Listed' \subseteq served'
            BY DEF Listed
      <2>2. IsFiniteSet(Listed')
            BY <1>2, <2>1, FS_Subset DEF Ordered
      <2> QED BY <1>2, <2>1, <2>2 DEF Listing, Ordered, Version
<1>4. IsFiniteSet(Listed) /\ IsFiniteSet(Listed')
      BY <1>1, <1>3 DEF Listing
<1>5. o \in {"oldest", "newest"}
      BY SourceType DEF Typed, TypeOK
<1>6. ASSUME NEW i \in Id, Insert(i)
      PROVE  /\ steady' \subseteq steady /\ (movedUp => movedUp') /\ (movedDown => movedDown')
             /\ updated \subseteq updated' /\ UNCHANGED <<reader, target, wentOn, repeated>>
             /\ \A v \in Listed' \ Listed: v.stamp > stamp
             /\ ~movedDown' => \A v \in Listed \cap Listed': Position(Listed', o, v) <= Position(Listed, o, v)
             /\ ~movedUp' => \A v \in Listed \cap Listed': Position(Listed, o, v) <= Position(Listed', o, v)
      <2>1. Listed \subseteq Listed'
            BY <1>6, ListedGrows
      <2>2. \A v \in Listed' \ Listed: v.stamp = stamp + 1
            BY <1>6 DEF Insert, Listed
      <2>3. ASSUME NEW v \in Listed
            PROVE  Position(Listed, o, v) <= Position(Listed', o, v)
            <3>1. Ahead(Listed, o, v) \subseteq Ahead(Listed', o, v)
                  BY <2>1 DEF Ahead
            <3> QED BY <1>4, <3>1, PositionsCompare
      <2>4. ASSUME NEW v \in Listed, ~movedDown'
            PROVE  Position(Listed', o, v) <= Position(Listed, o, v)
            <3>1. o = "oldest"
                  BY <1>5, <1>6, <2>4 DEF Insert, Reading
            <3>2. Ahead(Listed', o, v) \subseteq Ahead(Listed, o, v)
                  BY <1>1, <2>2, <3>1 DEF Ahead, Precedes
            <3> QED BY <1>4, <3>2, PositionsCompare
      <2>5. \A v \in Listed' \ Listed: v.stamp > stamp
            BY <1>1, <2>2
      <2>6. /\ steady' \subseteq steady /\ (movedUp => movedUp') /\ (movedDown => movedDown')
            /\ updated \subseteq updated' /\ UNCHANGED <<reader, target, wentOn, repeated>>
            BY <1>6 DEF Insert
      <2> QED BY <2>3, <2>4, <2>5, <2>6
<1>7. ASSUME NEW u \in served, Remove(u)
      PROVE  /\ steady' \subseteq steady /\ (movedUp => movedUp') /\ (movedDown => movedDown')
             /\ updated \subseteq updated' /\ UNCHANGED <<reader, target, wentOn, repeated>>
             /\ \A v \in Listed' \ Listed: v.stamp > stamp
             /\ ~movedDown' => \A v \in Listed \cap Listed': Position(Listed', o, v) <= Position(Listed, o, v)
             /\ movedUp'
      <2>1. Listed' = Listed \ {u}
            BY <1>7, ListedShrinks
      <2>2. ASSUME NEW v \in Listed
            PROVE  Position(Listed', o, v) <= Position(Listed, o, v)
            <3>1. Ahead(Listed', o, v) \subseteq Ahead(Listed, o, v)
                  BY <2>1 DEF Ahead
            <3> QED BY <1>4, <3>1, PositionsCompare
      <2> QED BY <1>7, <2>1, <2>2 DEF Remove, Reading
<1>8. ASSUME NEW u \in served, Update(u)
      PROVE  /\ steady' \subseteq steady /\ (movedUp => movedUp') /\ (movedDown => movedDown')
             /\ updated \subseteq updated' /\ UNCHANGED <<reader, target, wentOn, repeated>>
             /\ \A v \in Listed' \ Listed: v.stamp > stamp
             /\ ~movedDown' => \A v \in Listed \cap Listed': Position(Listed', o, v) <= Position(Listed, o, v)
             /\ ~movedUp' => \A v \in Listed \cap Listed': Position(Listed, o, v) <= Position(Listed', o, v)
      <2> DEFINE new == [u EXCEPT !.stamp = stamp + 1]
      <2>1. Listed \ {u} \subseteq Listed' /\ Listed' \subseteq (Listed \ {u}) \cup {new}
            BY <1>8, ListedChanges
      <2>2. new.stamp = stamp + 1 /\ u.stamp \in Nat
            <3>1. u \in [id: Id, stamp: 1..MaxStamp]
                  BY DEF Typed, Ordered, Version
            <3> QED BY <3>1, BoundAssumption
      <2>3. new \notin Listed
            <3> HIDE DEF new
            <3> QED BY <1>1, <2>2
      <2>4. u \in Listed => new \in Listed'
            <3>1. source.since \in Nat
                  BY SourceType DEF Typed, TypeOK
            <3>2. u.stamp <= stamp
                  BY DEF Typed, Ordered
            <3>3. new \in served'
                  BY <1>8 DEF Update
            <3>4. u \in Listed => u.stamp > source.since
                  BY DEF Listed
            <3>5. u \in Listed => new.stamp > source'.since
                  BY <1>1, <1>2, <2>2, <3>1, <3>2, <3>4
            <3> QED BY <3>3, <3>5 DEF Listed
      <2> HIDE DEF new
      <2>5. ASSUME NEW v \in Listed \cap Listed', ~movedDown'
            PROVE  Position(Listed', o, v) <= Position(Listed, o, v)
            <3>1. o = "oldest"
                  BY <1>5, <1>8, <2>5 DEF Update, Reading
            <3>2. Ahead(Listed', o, v) \subseteq Ahead(Listed, o, v)
                  BY <1>1, <2>1, <2>2, <3>1 DEF Ahead, Precedes
            <3> QED BY <1>4, <3>2, PositionsCompare
      <2>6. ASSUME NEW v \in Listed \cap Listed', ~movedUp'
            PROVE  Position(Listed, o, v) <= Position(Listed', o, v)
            <3>1. o = "newest"
                  BY <1>5, <1>8, <2>6 DEF Update, Reading
            <3>2. CASE u \in Listed
                  <4>1. new \in Ahead(Listed', o, v)
                        BY <1>1, <2>2, <2>4, <3>1, <3>2 DEF Ahead, Precedes
                  <4>2. (Ahead(Listed, o, v) \ {u}) \cup {new} \subseteq Ahead(Listed', o, v)
                        BY <2>1, <4>1 DEF Ahead
                  <4> QED BY <1>4, <2>3, <4>2, PositionsExchange
            <3>3. CASE u \notin Listed
                  <4>1. Ahead(Listed, o, v) \subseteq Ahead(Listed', o, v)
                        BY <2>1, <3>3 DEF Ahead
                  <4> QED BY <1>4, <4>1, PositionsCompare
            <3> QED BY <3>2, <3>3
      <2>7. \A v \in Listed' \ Listed: v.stamp > stamp
            BY <1>1, <2>1, <2>2
      <2> QED BY <1>8, <2>5, <2>6, <2>7 DEF Update
<1> QED BY <1>1, <1>2, <1>3, <1>6, <1>7, <1>8 DEF ServerStep

\* What a server step lists anew has a stamp beyond all that was given before.
LEMMA ServerStepListsLater ==
    ASSUME Typed, ServerStep, NEW v \in Listed', NEW bound \in Nat, bound <= stamp, v.stamp <= bound
    PROVE  v \in Listed
<1>1. stamp \in Nat
      BY DEF Typed, TypeOK
<1>2. CASE \E i \in Id: Insert(i)
      <2>1. v \in Listed \/ v.stamp = stamp + 1
            BY <1>2 DEF Insert, Listed
      <2> QED BY <1>1, <2>1
<1>3. CASE \E u \in served: Remove(u)
      BY <1>3 DEF Remove, Listed
<1>4. ASSUME NEW u \in served, Update(u)
      PROVE  v \in Listed
      <2> DEFINE new == [u EXCEPT !.stamp = stamp + 1]
      <2>1. new.stamp = stamp + 1
            <3>1. u \in [id: Id, stamp: 1..MaxStamp]
                  BY DEF Typed, Ordered, Version
            <3> QED BY <3>1
      <2>2. v \in Listed \/ v = new
            BY <1>4, ListedChanges
      <2> HIDE DEF new
      <2> QED BY <1>1, <2>1, <2>2
<1> QED BY <1>2, <1>3, <1>4 DEF ServerStep

-----------------------------------------------------------------------------
(* Where a read stands *)

\* How far the pages by position have come.
Done == (asked - 1) * PageSize

Place(v) == Position(Listed, source.order, v)

\* What the listing keeps of its order: records received are behind the request as
\* long as none moved down, those still to come are beyond it as long as none moved up.
PositionIsAhead ==
    phase = "reading" /\ source.pagination # "cursor" =>
        /\ ~movedDown => \A v \in records \cap Listed: Place(v) <= Done
        /\ ~movedUp => \A v \in steady: v \in records \/ Place(v) > Done

\* A cursor names the last record received.
CursorIsAhead ==
    phase = "reading" /\ source.pagination = "cursor" =>
        /\ asked = Null => records = {}
        /\ asked # Null =>
              /\ \E v \in records: v.stamp = asked
              /\ \A v \in records: v.stamp = asked \/ Before(v, [stamp |-> asked])
        /\ \A v \in steady: v \in records \/ asked = Null \/ Before([stamp |-> asked], v)

\* A record on the server is as received, or later and among the updated ones.
VersionsGrow ==
    phase = "reading" =>
        \A v \in records, w \in served:
            v.id = w.id => v.stamp <= w.stamp /\ (v = w \/ v.id \in updated)

\* What one answer does.
LEMMA AnswerFacts ==
    ASSUME Typed, Answered
    PROVE  /\ phase = "reading" /\ Listed' = Listed /\ source' = source
           /\ UNCHANGED <<server, steady, movedUp, movedDown, updated, watermark, wrote, holes>>
           /\ records' = records \cup Page(asked)
           /\ repeated' = repeated \cup (records \cap Page(asked))
           /\ \/ /\ phase' = "read" /\ cut' = Further(asked) /\ wentOn' = wentOn
              \/ /\ phase' = "reading"
                 /\ wentOn' = (wentOn \/ Cardinality(Page(asked)) < PageSize)
                 /\ source.pagination # "cursor" => asked' = asked + 1
                 /\ source.pagination = "cursor" =>
                       /\ Page(asked) # {} /\ LastOf(Page(asked)) \in Page(asked)
                       /\ asked' = LastOf(Page(asked)).stamp /\ asked' \in Nat
<1>1. phase = "reading" /\ Listed' = Listed /\ source' = source
      BY ReaderKeepsServer DEF Answered
<1>2. PICK next \in NextRequests(asked, Page(asked)):
          IF LastPage(pages + 1) \/ next = Null
          THEN /\ phase' = "read" /\ cut' = Further(asked) /\ asked' = Null /\ UNCHANGED wentOn
          ELSE /\ asked' = next
               /\ wentOn' = (wentOn \/ Cardinality(Page(asked)) < PageSize)
               /\ UNCHANGED <<phase, cut>>
      BY DEF Answered
<1>3. /\ UNCHANGED <<server, steady, movedUp, movedDown, updated, watermark, wrote, holes>>
      /\ records' = records \cup Page(asked)
      /\ repeated' = repeated \cup (records \cap Page(asked))
      BY DEF Answered, target
<1>4. CASE LastPage(pages + 1) \/ next = Null
      BY <1>1, <1>2, <1>3, <1>4
<1>5. CASE ~(LastPage(pages + 1) \/ next = Null)
      <2>1. phase' = "reading" /\ asked' = next
            /\ wentOn' = (wentOn \/ Cardinality(Page(asked)) < PageSize)
            BY <1>1, <1>2, <1>5
      <2>2. next # Null
            BY <1>5
      <2> QED BY <1>1, <1>3, <2>1, <2>2, NextRequestType
<1> QED BY <1>4, <1>5

\* The page at a position, and where it leaves the request.
LEMMA PageAtPosition ==
    ASSUME Typed, phase = "reading", source.pagination # "cursor"
    PROVE  /\ Done \in Nat
           /\ From(asked) = {v \in Listed: Place(v) > Done}
           /\ Page(asked) = {v \in Listed: Place(v) > Done /\ Place(v) <= Done + PageSize}
           /\ \A v \in Listed: Place(v) \in Nat \ {0}
           /\ asked' = asked + 1 => Done' = Done + PageSize
<1>1. asked \in Nat \ {0} /\ PageSize \in Nat
      BY BoundAssumption DEF Typed
<1>2. Done \in Nat
      BY <1>1 DEF Done
<1>3. asked' = asked + 1 => Done' = Done + PageSize
      BY <1>1 DEF Done
<1>4. \A v \in Listed: Place(v) \in Nat \ {0}
      BY ListedIsListing, PositionType DEF Typed, Listing, Place
<1>5. \A v: Rank(v) = Place(v)
      BY RankIsPosition DEF Place
<1>6. /\ From(asked) = {v \in Listed: Rank(v) > Done}
      /\ Page(asked) = {v \in Listed: Rank(v) > Done /\ Rank(v) <= Done + PageSize}
      BY <1>2, PageByPosition DEF Typed, Done
<1> QED BY <1>2, <1>3, <1>4, <1>5, <1>6

\* The steps that neither go on with a read nor move its records.
LEMMA OtherSteps ==
    ASSUME Typed, Retry \/ Fails \/ Write \/ Undecodable \/ UNCHANGED vars, phase' = "reading"
    PROVE  /\ phase = "reading" /\ Listed' = Listed
           /\ UNCHANGED <<source, server, asked, records, history>>
<1>1. UNCHANGED <<source, server, asked, records, history>>
      BY DEF Retry, Fails, Write, Undecodable, vars, reader
<1>2. phase = "reading"
      BY DEF Retry, Fails, Write, Undecodable, vars, reader
<1> QED BY <1>1, <1>2, ReaderKeepsServer

LEMMA PositionIsAheadNext == Typed /\ Typed' /\ PositionIsAhead /\ [Next]_vars => PositionIsAhead'
<1> SUFFICES ASSUME Typed, Typed', PositionIsAhead, [Next]_vars,
                    phase' = "reading", source'.pagination # "cursor"
             PROVE  /\ ~movedDown' => \A v \in records' \cap Listed': Place(v)' <= Done'
                    /\ ~movedUp' => \A v \in steady': v \in records' \/ Place(v)' > Done'
    BY DEF PositionIsAhead
<1>1. CASE ServerStep
      <2>1. phase = "reading" /\ records' = records /\ asked' = asked /\ source' = source
            BY <1>1 DEF ServerStep, Insert, Remove, Update, reader
      <2>2. /\ Done' = Done /\ Done \in Nat
            /\ \A v \in Listed: Place(v) \in Nat
            BY <2>1, PageAtPosition DEF Done
      <2>3. /\ \A v: Place(v)' = Position(Listed', source.order, v)
            /\ \A v \in Listed': Place(v)' \in Nat
            BY <1>1, <2>1, ServerMoves, PositionType DEF Place, Listing
      <2>4. ASSUME NEW v \in records' \cap Listed', ~movedDown'
            PROVE  Place(v)' <= Done'
            <3>1. v \in Listed
                  <4>1. v.stamp \in Nat /\ v.stamp <= stamp /\ stamp \in Nat
                        BY <2>1 DEF Typed, TypeOK, Version
                  <4> QED BY <1>1, <2>1, <4>1, ServerMoves
            <3>2. Place(v) <= Done
                  BY <1>1, <2>1, <2>4, <3>1, ServerMoves DEF PositionIsAhead
            <3>3. Place(v)' <= Place(v)
                  BY <1>1, <2>1, <2>3, <2>4, <3>1, ServerMoves DEF Place
            <3> QED BY <2>2, <2>3, <2>4, <3>1, <3>2, <3>3
      <2>5. ASSUME NEW v \in steady', ~movedUp', v \notin records'
            PROVE  Place(v)' > Done'
            <3>1. v \in steady /\ v \in Listed /\ v \in Listed'
                  BY <1>1, <2>1, ServerMoves DEF Typed
            <3>2. Place(v) > Done
                  BY <1>1, <2>1, <2>5, <3>1, ServerMoves DEF PositionIsAhead
            <3>3. Place(v) <= Place(v)'
                  BY <1>1, <2>1, <2>3, <2>5, <3>1, ServerMoves DEF Place
            <3> QED BY <2>2, <2>3, <3>1, <3>2, <3>3
      <2> QED BY <2>4, <2>5
<1>2. CASE Start
      <2>1. records' = {} /\ steady' \subseteq Listed' /\ Done' = 0
            <3>1. asked' = 1 /\ PageSize \in Nat
                  BY <1>2, BoundAssumption DEF Start, FirstRequest
            <3> QED BY <1>2, <3>1 DEF Start, Done, Typed
      <2>2. \A v \in Listed': Place(v)' \in Nat \ {0}
            <3>1. Listed' = Listed /\ source' = source
                  BY <1>2, ReaderKeepsServer DEF Start
            <3> QED BY <3>1, ListedIsListing, PositionType DEF Typed, Listing, Place
      <2> QED BY <2>1, <2>2
<1>3. CASE Answered
      <2>1. phase = "reading" /\ Listed' = Listed /\ source' = source /\ steady' = steady
            /\ records' = records \cup Page(asked) /\ movedUp' = movedUp /\ movedDown' = movedDown
            /\ asked' = asked + 1
            BY <1>3, AnswerFacts
      <2>2. /\ Done \in Nat /\ Done' = Done + PageSize /\ PageSize \in Nat
            /\ Page(asked) = {v \in Listed: Place(v) > Done /\ Place(v) <= Done + PageSize}
            /\ \A v \in Listed: Place(v) \in Nat
            BY <2>1, PageAtPosition, BoundAssumption
      <2>3. \A v: Place(v)' = Place(v)
            BY <2>1 DEF Place
      <2>4. ASSUME NEW v \in records' \cap Listed', ~movedDown'
            PROVE  Place(v)' <= Done'
            BY <2>1, <2>2, <2>3, <2>4 DEF PositionIsAhead
      <2>5. ASSUME NEW v \in steady', ~movedUp', v \notin records'
            PROVE  Place(v)' > Done'
            <3>1. v \in Listed /\ v \notin Page(asked) /\ Place(v) > Done
                  BY <2>1, <2>5 DEF PositionIsAhead, Typed
            <3>2. ~(Place(v) <= Done + PageSize)
                  BY <2>2, <3>1
            <3> QED BY <2>2, <2>3, <3>1, <3>2
      <2> QED BY <2>4, <2>5
<1>4. CASE Retry \/ Fails \/ Write \/ Undecodable \/ UNCHANGED vars
      <2>1. phase = "reading" /\ Listed' = Listed
            /\ UNCHANGED <<source, asked, records, steady, movedUp, movedDown>>
            BY <1>4, OtherSteps DEF history
      <2> QED BY <2>1 DEF PositionIsAhead, Place, Done
<1> QED BY <1>1, <1>2, <1>3, <1>4 DEF Next

\* The page at a cursor: its last record is the next cursor, and all that the
\* page leaves of the listing comes after it.
LEMMA PageAtCursor ==
    ASSUME Typed, phase = "reading", source.pagination = "cursor"
    PROVE  LET page == Page(asked)
               last == LastOf(page)
           IN  /\ From(asked) = {v \in Listed: asked = Null \/ Before([stamp |-> asked], v)}
               /\ page \subseteq From(asked)
               /\ page # {} =>
                    /\ last \in page /\ last.stamp \in Nat
                    /\ \A v \in page: v = last \/ Before(v, last)
                    /\ \A v \in From(asked) \ page: Before(last, v)
<1> DEFINE page == Page(asked)
           last == LastOf(page)
<1>1. From(asked) = {v \in Listed: asked = Null \/ Before([stamp |-> asked], v)}
      BY DEF From
<1>2. /\ page \subseteq From(asked) /\ From(asked) \subseteq Listed
      /\ \A v \in From(asked), w \in page: Before(v, w) => v \in page
      BY PageIsHead DEF Typed
<1>3. Listing(Listed)
      BY ListedIsListing DEF Typed
<1>4. ASSUME page # {}
      PROVE  /\ last \in page /\ last.stamp \in Nat
             /\ \A v \in page: v = last \/ Before(v, last)
             /\ \A v \in From(asked) \ page: Before(last, v)
      <2>1. last \in page /\ \A v \in page: v = last \/ Before(v, last)
            BY <1>2, <1>4, LastIsLast DEF Typed
      <2>2. \A v \in Listed: v = last \/ Before(v, last) \/ Before(last, v)
            BY <1>2, <1>3, <2>1 DEF Before, Listing
      <2> QED BY <1>2, <1>3, <2>1, <2>2 DEF Listing
<1> QED BY <1>1, <1>2, <1>4

LEMMA CursorIsAheadNext == Typed /\ CursorIsAhead /\ [Next]_vars => CursorIsAhead'
<1> SUFFICES ASSUME Typed, CursorIsAhead, [Next]_vars,
                    phase' = "reading", source'.pagination = "cursor"
             PROVE  CursorIsAhead'
    BY DEF CursorIsAhead
<1>1. CASE ServerStep
      <2>1. phase = "reading" /\ records' = records /\ asked' = asked /\ source' = source
            BY <1>1 DEF ServerStep, Insert, Remove, Update, reader
      <2>2. steady' \subseteq steady
            BY <1>1, <2>1, ServerMoves
      <2> QED BY <2>1, <2>2 DEF CursorIsAhead, Before
<1>2. CASE Start
      <2>1. records' = {} /\ asked' = Null
            BY <1>2 DEF Start, FirstRequest
      <2> QED BY <2>1 DEF CursorIsAhead
<1>3. CASE Answered
      <2> DEFINE page == Page(asked)
                 last == LastOf(page)
      <2>1. phase = "reading" /\ source' = source /\ steady' = steady
            /\ records' = records \cup page
            BY <1>3, AnswerFacts
      <2>2. page # {} /\ last \in page /\ asked' = last.stamp /\ asked' \in Nat
            BY <1>3, <2>1, AnswerFacts
      <2>3. /\ From(asked) = {v \in Listed: asked = Null \/ Before([stamp |-> asked], v)}
            /\ page \subseteq From(asked)
            /\ \A v \in page: v = last \/ Before(v, last)
            /\ \A v \in From(asked) \ page: Before(last, v)
            BY <2>1, <2>2, PageAtCursor
      <2> HIDE DEF page, last
      <2>4. \A v: /\ Before(v, [stamp |-> asked])' <=> Before(v, last)
                  /\ Before([stamp |-> asked], v)' <=> Before(last, v)
            BY <2>1, <2>2 DEF Before
      <2>5. \A v \in records: v.stamp \in Nat
            BY DEF Typed, TypeOK, Version
      <2>6. ASSUME NEW v \in records'
            PROVE  v.stamp = asked' \/ Before(v, [stamp |-> asked])'
            <3>1. CASE v \in page
                  BY <2>2, <2>3, <2>4, <3>1
            <3>2. CASE v \in records
                  <4>1. asked # Null /\ asked \in Nat
                        BY <2>1, <3>2 DEF CursorIsAhead, Typed, TypeOK
                  <4>2. v.stamp = asked \/ Before(v, [stamp |-> asked])
                        BY <2>1, <3>2, <4>1 DEF CursorIsAhead
                  <4>3. Before([stamp |-> asked], last)
                        BY <2>2, <2>3, <4>1
                  <4>4. Before(v, last)
                        BY <2>2, <2>5, <3>2, <4>1, <4>2, <4>3 DEF Before
                  <4> QED BY <2>2, <2>4, <4>4
            <3> QED BY <2>1, <3>1, <3>2
      <2>7. ASSUME NEW v \in steady', v \notin records'
            PROVE  Before([stamp |-> asked], v)'
            <3>1. v \in From(asked) \ page
                  BY <2>1, <2>3, <2>7 DEF CursorIsAhead, Typed
            <3> QED BY <2>2, <2>3, <2>4, <3>1
      <2>8. \E v \in records': v.stamp = asked'
            BY <2>1, <2>2
      <2>9. asked' # Null
            BY <2>2, MarkAssumption
      <2> QED BY <2>6, <2>7, <2>8, <2>9 DEF CursorIsAhead
<1>4. CASE Retry \/ Fails \/ Write \/ Undecodable \/ UNCHANGED vars
      <2>1. phase = "reading" /\ UNCHANGED <<source, asked, records, steady>>
            BY <1>4, OtherSteps DEF history
      <2> QED BY <2>1 DEF CursorIsAhead, Before
<1> QED BY <1>1, <1>2, <1>3, <1>4 DEF Next

LEMMA VersionsGrowNext == Typed /\ VersionsGrow /\ [Next]_vars => VersionsGrow'
<1> SUFFICES ASSUME Typed, VersionsGrow, [Next]_vars, phase' = "reading"
             PROVE  VersionsGrow'
    BY DEF VersionsGrow
<1>1. /\ stamp \in Nat /\ \A v \in records: v.stamp \in Nat /\ v.stamp <= stamp
      /\ \A v, w \in served: v.stamp = w.stamp \/ v.id = w.id => v = w
      /\ \A v \in served: v.stamp \in Nat
      BY BoundAssumption DEF Typed, TypeOK, Ordered, Version
<1>2. CASE ServerStep
      <2>1. phase = "reading" /\ records' = records
            BY <1>2 DEF ServerStep, Insert, Remove, Update, reader
      <2>2. ASSUME NEW i \in Id, Insert(i)
            PROVE  VersionsGrow'
            <3>1. served' = served \cup {[id |-> i, stamp |-> stamp + 1]} /\ updated' = updated \cup {i}
                  BY <2>1, <2>2 DEF Insert, Reading
            <3> QED BY <1>1, <2>1, <3>1 DEF VersionsGrow
      <2>3. ASSUME NEW u \in served, Remove(u)
            PROVE  VersionsGrow'
            BY <2>1, <2>3 DEF Remove, VersionsGrow
      <2>4. ASSUME NEW u \in served, Update(u)
            PROVE  VersionsGrow'
            <3> DEFINE new == [u EXCEPT !.stamp = stamp + 1]
            <3>1. new.id = u.id /\ new.stamp = stamp + 1
                  <4>1. u \in [id: Id, stamp: 1..MaxStamp]
                        BY DEF Typed, Ordered, Version
                  <4> QED BY <4>1
            <3>2. served' = (served \ {u}) \cup {new} /\ updated' = updated \cup {u.id}
                  BY <2>1, <2>4 DEF Update, Reading
            <3> HIDE DEF new
            <3> QED BY <1>1, <2>1, <3>1, <3>2 DEF VersionsGrow
      <2> QED BY <1>2, <2>2, <2>3, <2>4 DEF ServerStep
<1>3. CASE Start
      BY <1>3 DEF Start, VersionsGrow
<1>4. CASE Answered
      <2>1. phase = "reading" /\ served' = served /\ updated' = updated
            /\ records' = records \cup Page(asked) /\ Page(asked) \subseteq served
            BY <1>4, AnswerFacts, PageIsHead, ListedIsListing DEF server, Typed
      <2> QED BY <1>1, <2>1 DEF VersionsGrow
<1>5. CASE Retry \/ Fails \/ Write \/ Undecodable \/ UNCHANGED vars
      <2>1. phase = "reading" /\ UNCHANGED <<served, records, updated>>
            BY <1>5, OtherSteps DEF history, server
      <2> QED BY <2>1 DEF VersionsGrow
<1> QED BY <1>2, <1>3, <1>4, <1>5 DEF Next

\* Where each read stands, at every moment.
Underway == Typed /\ PositionIsAhead /\ CursorIsAhead /\ VersionsGrow

LEMMA ReadsAreUnderway == Spec => []Underway
<1>1. Init => PositionIsAhead /\ CursorIsAhead /\ VersionsGrow
      BY DEF Init, PositionIsAhead, CursorIsAhead, VersionsGrow
<1>2. Underway /\ Typed' /\ [Next]_vars => Underway'
      BY PositionIsAheadNext, CursorIsAheadNext, VersionsGrowNext DEF Underway
<1> QED BY <1>1, <1>2, TypedInit, ReaderTypes, PTL DEF Spec, Underway

-----------------------------------------------------------------------------
(* What a read hands over *)

\* The steps that leave what was received, and what it is judged by, alone.
LEMMA QuietSteps ==
    ASSUME Typed, [Next]_vars, ~Answered, ~Start
    PROVE  /\ UNCHANGED <<source, records, repeated>> /\ steady' \subseteq steady
           /\ (phase' = "read" => phase = "read")
           /\ (movedUp => movedUp') /\ (movedDown => movedDown')
           /\ updated \subseteq updated' /\ cut' = cut /\ wentOn' = wentOn
<1>1. CASE ServerStep
      <2>1. UNCHANGED <<source, reader, repeated, cut, wentOn>>
            BY <1>1 DEF ServerStep, Insert, Remove, Update
      <2>2. steady' \subseteq steady /\ updated \subseteq updated'
            BY <1>1 DEF ServerStep, Insert, Remove, Update
      <2>3. ASSUME NEW i \in Id, Insert(i)
            PROVE  (movedUp => movedUp') /\ (movedDown => movedDown')
            BY <2>3 DEF Insert
      <2>4. ASSUME NEW v \in served, Remove(v)
            PROVE  (movedUp => movedUp') /\ (movedDown => movedDown')
            BY <2>4 DEF Remove
      <2>5. ASSUME NEW v \in served, Update(v)
            PROVE  (movedUp => movedUp') /\ (movedDown => movedDown')
            BY <2>5 DEF Update
      <2> QED BY <1>1, <2>1, <2>2, <2>3, <2>4, <2>5 DEF reader, ServerStep
<1>2. CASE Retry \/ Fails \/ Write \/ Undecodable \/ UNCHANGED vars
      <2>1. UNCHANGED <<source, records, history>> /\ (phase' = "read" => phase = "read")
            BY <1>2 DEF Retry, Fails, Write, Undecodable, vars, reader
      <2> QED BY <2>1 DEF history
<1> QED BY <1>1, <1>2 DEF Next

LEMMA RepeatsNeedAMoveNext == Underway /\ RepeatsNeedAMove /\ [Next]_vars => RepeatsNeedAMove'
<1> SUFFICES ASSUME Underway, RepeatsNeedAMove, [Next]_vars
             PROVE  RepeatsNeedAMove'
    OBVIOUS
<1>1. CASE Answered
      <2> DEFINE page == Page(asked)
      <2>1. phase = "reading" /\ source' = source /\ movedDown' = movedDown /\ updated' = updated
            /\ records' = records \cup page /\ repeated' = repeated \cup (records \cap page)
            BY <1>1, AnswerFacts DEF Underway
      <2>2. page \subseteq Listed /\ page \subseteq served
            /\ (\A v \in served: v.stamp \in Nat) /\ (\A v \in records: v.stamp \in Nat)
            /\ \A v, w \in served: v.id = w.id => v = w
            <3>1. page \subseteq Listed /\ page \subseteq served
                  BY PageIsHead, ListedIsListing DEF Underway, Typed
            <3> QED BY <3>1 DEF Underway, Typed, TypeOK, Ordered, Version
      <2>3. source.pagination \in Positional \cup {"cursor"} /\ source.order \in {"oldest", "newest"}
            BY SourceType DEF Underway, Typed, TypeOK
      <2>4. ASSUME NEW v \in records \cap page
            PROVE  source.pagination \in Positional /\ movedDown
            <3>1. CASE source.pagination = "cursor"
                  <4>1. asked # Null /\ asked \in Nat
                        BY <2>1, <2>4, <3>1 DEF CursorIsAhead, Underway, Typed, TypeOK
                  <4>2. v.stamp = asked \/ Before(v, [stamp |-> asked])
                        BY <2>1, <2>4, <3>1, <4>1 DEF CursorIsAhead, Underway
                  <4>3. Before([stamp |-> asked], v)
                        BY <2>1, <2>4, <3>1, <4>1, PageAtCursor DEF Underway
                  <4> QED BY <2>2, <2>4, <4>1, <4>2, <4>3 DEF Before
            <3>2. CASE source.pagination # "cursor"
                  <4>1. Place(v) > Done /\ Place(v) \in Nat /\ Done \in Nat
                        BY <2>1, <2>2, <2>4, <3>2, PageAtPosition DEF Underway
                  <4>2. ~movedDown => Place(v) <= Done
                        BY <2>1, <2>2, <2>4, <3>2 DEF PositionIsAhead, Underway
                  <4> QED BY <2>3, <3>2, <4>1, <4>2 DEF Underway, Typed, TypeOK
            <3> QED BY <3>1, <3>2
      <2>5. ASSUME NEW v \in records, NEW w \in page, v.id = w.id, v # w
            PROVE  /\ v.id \in updated
                   /\ source.pagination = "cursor" => source.order = "oldest"
            <3>1. v.stamp <= w.stamp /\ v.id \in updated
                  BY <2>1, <2>2, <2>5 DEF VersionsGrow, Underway
            <3>2. ASSUME source.pagination = "cursor", source.order # "oldest"
                  PROVE  FALSE
                  <4>1. asked # Null /\ asked \in Nat
                        BY <2>1, <3>2 DEF CursorIsAhead, Underway, Typed, TypeOK
                  <4>2. v.stamp = asked \/ Before(v, [stamp |-> asked])
                        BY <2>1, <3>2, <4>1 DEF CursorIsAhead, Underway
                  <4>3. Before([stamp |-> asked], w)
                        BY <2>1, <3>2, <4>1, PageAtCursor DEF Underway
                  <4>4. v.stamp \in Nat /\ w.stamp \in Nat
                        BY <2>2
                  <4> QED BY <3>1, <3>2, <4>1, <4>2, <4>3, <4>4 DEF Before
            <3> QED BY <3>1, <3>2
      <2> HIDE DEF page
      <2>6. repeated' # {} => source'.pagination \in Positional /\ movedDown'
            BY <2>1, <2>4 DEF RepeatsNeedAMove
      <2>7. ASSUME NEW v \in records', NEW w \in records', v.id = w.id, v # w
            PROVE  /\ v.id \in updated'
                   /\ source'.pagination = "cursor" => source'.order = "oldest"
            BY <2>1, <2>2, <2>5, <2>7 DEF RepeatsNeedAMove
      <2> QED BY <2>6, <2>7 DEF RepeatsNeedAMove
<1>2. CASE Start
      BY <1>2 DEF Start, RepeatsNeedAMove
<1>3. CASE ~Answered /\ ~Start
      <2>1. /\ UNCHANGED <<source, records, repeated>> /\ (movedDown => movedDown')
            /\ updated \subseteq updated'
            BY <1>3, QuietSteps DEF Underway
      <2> QED BY <2>1 DEF RepeatsNeedAMove
<1> QED BY <1>1, <1>2, <1>3

\* A record is received twice only when others moved down under a paging by
\* position; two versions of it mean that it changed meanwhile.
THEOREM RepeatsAreMoves == Spec => []RepeatsNeedAMove
<1>1. Init => RepeatsNeedAMove
      BY DEF Init, RepeatsNeedAMove
<1> QED BY <1>1, RepeatsNeedAMoveNext, ReadsAreUnderway, PTL DEF Spec, Underway

LEMMA ReadIsCompleteNext == Underway /\ ReadIsComplete /\ [Next]_vars => ReadIsComplete'
<1> SUFFICES ASSUME Underway, ReadIsComplete, [Next]_vars, phase' = "read", ~cut',
                    ~(source'.pagination \in Positional /\ movedUp')
             PROVE  steady' \subseteq records'
    BY DEF ReadIsComplete
<1>1. CASE Answered
      <2>1. phase = "reading" /\ source' = source /\ movedUp' = movedUp /\ steady' = steady
            /\ records' = records \cup Page(asked) /\ cut' = Further(asked)
            BY <1>1, AnswerFacts DEF Underway
      <2>2. From(asked) = Page(asked) /\ steady \subseteq Listed
            BY <2>1 DEF Further, Underway, Typed
      <2>3. source.pagination \in Positional \cup {"cursor"}
            BY SourceType DEF Underway, Typed, TypeOK
      <2>4. ASSUME NEW v \in steady, v \notin records
            PROVE  v \in Page(asked)
            <3>1. CASE source.pagination = "cursor"
                  BY <2>1, <2>2, <2>4, <3>1, PageAtCursor DEF CursorIsAhead, Underway
            <3>2. CASE source.pagination # "cursor"
                  <4>1. Place(v) > Done
                        BY <2>1, <2>3, <2>4, <3>2 DEF PositionIsAhead, Underway
                  <4> QED BY <2>1, <2>2, <2>4, <3>2, <4>1, PageAtPosition DEF Underway
            <3> QED BY <3>1, <3>2
      <2> QED BY <2>1, <2>4
<1>2. CASE Start
      BY <1>2 DEF Start
<1>3. CASE ~Answered /\ ~Start
      <2>1. /\ UNCHANGED <<source, records>> /\ steady' \subseteq steady
            /\ phase = "read" /\ cut' = cut /\ (movedUp => movedUp')
            BY <1>3, QuietSteps DEF Underway
      <2> QED BY <2>1 DEF ReadIsComplete
<1> QED BY <1>1, <1>2, <1>3

\* A read that is not cut off, and under which no record moved up, has every
\* record that was there all the while, whatever else happened to the others.
THEOREM ReadsAreComplete == Spec => []ReadIsComplete
<1>1. Init => ReadIsComplete
      BY DEF Init, ReadIsComplete
<1> QED BY <1>1, ReadIsCompleteNext, ReadsAreUnderway, PTL DEF Spec, Underway

-----------------------------------------------------------------------------
(* Where a read may leave a gap *)

\* What came before a record that was received was received too, or is still to
\* come: a paging by position, unless records moved up or a page after a short one
\* was asked for while records arrived, and a cursor always.
PositionLeavesNoGap ==
    phase = "reading" /\ source.pagination # "cursor" /\ ~movedUp /\ ~(wentOn /\ updated # {}) =>
        /\ source.order = "oldest" =>
              /\ \A v \in Listed: Place(v) <= Done => v \in records
              /\ ~wentOn => Done <= Cardinality(Listed)
        /\ \A v \in Listed, m \in records: v.stamp <= m.stamp =>
              v \in records \/ (source.order = "newest" /\ Place(v) > Done)

CursorLeavesNoGap ==
    phase = "reading" /\ source.pagination = "cursor" =>
        \A v \in Listed, m \in records: v.stamp <= m.stamp =>
            v \in records \/ Before([stamp |-> asked], v)

ReadLeavesNoGap ==
    phase = "read" /\ ~HasHoles =>
        \A v \in Listed, m \in records: v.stamp <= m.stamp => v \in records

\* The last record has the last position.
LEMMA PositionIsBounded ==
    ASSUME NEW S, NEW o, Listing(S), NEW v \in S
    PROVE  Position(S, o, v) <= Cardinality(S)
<1>1. Ahead(S, o, v) \subseteq S \ {v}
      BY DEF Ahead, Precedes, Listing
<1>2. IsFiniteSet(S) /\ IsFiniteSet(S \ {v})
      BY FS_Subset DEF Listing
<1>3. Cardinality(Ahead(S, o, v)) <= Cardinality(S \ {v})
      BY <1>1, <1>2, FS_Subset
<1>4. Cardinality(S \ {v}) = Cardinality(S) - 1
      BY <1>2, FS_RemoveElement
<1>5. Cardinality(S) \in Nat /\ Cardinality(Ahead(S, o, v)) \in Nat
      BY <1>2, PositionType, FS_CardinalityType
<1> QED BY <1>3, <1>4, <1>5 DEF Position

\* A record that an answer still leaves out, though a later one was received, is
\* beyond its page, and only newest first.
LEMMA GapByPosition ==
    ASSUME Underway, PositionLeavesNoGap, phase = "reading", source.pagination # "cursor",
           ~movedUp, ~(wentOn /\ updated # {}),
           NEW v \in Listed, NEW m \in records \cup Page(asked), v.stamp <= m.stamp,
           v \notin records, v \notin Page(asked)
    PROVE  source.order = "newest" /\ Place(v) > Done + PageSize
<1> DEFINE o == source.order
<1>1. /\ Done \in Nat /\ PageSize \in Nat
      /\ Page(asked) = {w \in Listed: Place(w) > Done /\ Place(w) <= Done + PageSize}
      /\ \A w \in Listed: Place(w) \in Nat
      BY PageAtPosition, BoundAssumption DEF Underway
<1>2. Listing(Listed) /\ o \in {"oldest", "newest"}
      BY ListedIsListing, SourceType DEF Underway, Typed, TypeOK
<1>3. CASE m \in records
      <2>1. o = "newest" /\ Place(v) > Done
            BY <1>3 DEF PositionLeavesNoGap
      <2> QED BY <1>1, <2>1
<1>4. CASE m \in Page(asked)
      <2>1. m \in Listed /\ Place(m) > Done /\ Place(m) <= Done + PageSize
            BY <1>1, <1>4
      <2>2. v.stamp < m.stamp
            BY <1>2, <1>4, <2>1 DEF Listing
      <2>3. CASE o = "oldest"
            <3>1. Precedes(o, v, m)
                  BY <2>2, <2>3 DEF Precedes
            <3>2. Place(v) < Place(m)
                  BY <1>2, <2>1, <3>1, PositionsGrow DEF Place
            <3>3. Place(v) > Done
                  BY <1>1, <2>3 DEF PositionLeavesNoGap
            <3> QED BY <1>1, <2>1, <3>2, <3>3
      <2>4. CASE o = "newest"
            <3>1. Precedes(o, m, v)
                  BY <1>2, <2>1, <2>2, <2>4 DEF Precedes, Listing
            <3>2. Place(m) < Place(v)
                  BY <1>2, <2>1, <3>1, PositionsGrow DEF Place
            <3> QED BY <1>1, <2>1, <2>4, <3>2
      <2> QED BY <1>2, <2>3, <2>4
<1> QED BY <1>3, <1>4

\* A full page ends within the listing.
LEMMA FullPageIsListed ==
    ASSUME Typed, phase = "reading", source.pagination # "cursor",
           Done <= Cardinality(Listed), ~(Cardinality(Page(asked)) < PageSize)
    PROVE  Done + PageSize <= Cardinality(Listed)
<1>1. /\ Done \in Nat /\ PageSize \in Nat
      /\ Page(asked) = {w \in Listed: Place(w) > Done /\ Place(w) <= Done + PageSize}
      /\ \A w \in Listed: Place(w) \in Nat
      BY PageAtPosition, BoundAssumption
<1>2. Listing(Listed) /\ Cardinality(Listed) \in Nat /\ Cardinality(Page(asked)) \in Nat
      BY ListedIsListing, PageType, FS_CardinalityType DEF Typed, Listing
<1>3. \A w \in Listed: Place(w) <= Cardinality(Listed)
      BY <1>2, PositionIsBounded DEF Place
<1>4. Page(asked) \in SUBSET Listed
      BY <1>1
<1>5. \A w \in Page(asked): Position(Listed, source.order, w) \in (Done + 1)..Cardinality(Listed)
      BY <1>1, <1>2, <1>3 DEF Place
<1>6. Cardinality(Page(asked)) <= Cardinality(Listed) - Done
      BY <1>1, <1>2, <1>4, <1>5, PositionsWithin
<1> QED BY <1>1, <1>2, <1>6

\* Oldest first, an arriving record takes the place after the last.
LEMMA ArrivalIsLast ==
    ASSUME Typed, ServerStep, phase = "reading", source.order = "oldest", ~movedUp'
    PROVE  /\ updated' # {}
           /\ IsFiniteSet(Listed') /\ Listed \subseteq Listed'
           /\ \A v \in Listed' \ Listed: Position(Listed', source.order, v) > Cardinality(Listed)
<1>1. PICK i \in Id: Insert(i)
      BY DEF ServerStep, Remove, Update, Reading
<1>2. Listed \subseteq Listed' /\ Listing(Listed') /\ \A v \in Listed' \ Listed: v.stamp > stamp
      BY <1>1, ListedGrows, ServerMoves
<1>3. updated' # {}
      BY <1>1 DEF Insert, Reading
<1>4. IsFiniteSet(Listed') /\ stamp \in Nat /\ \A w \in Listed: w.stamp \in Nat /\ w.stamp <= stamp
      BY <1>2, ListedIsListing DEF Listing, Typed, TypeOK, Ordered
<1>5. ASSUME NEW v \in Listed' \ Listed
      PROVE  Position(Listed', source.order, v) > Cardinality(Listed)
      <2>1. v.stamp > stamp /\ v.stamp \in Nat
            BY <1>2 DEF Listing
      <2>2. Listed \subseteq Ahead(Listed', source.order, v)
            BY <1>2, <1>4, <2>1 DEF Ahead, Precedes
      <2>3. IsFiniteSet(Ahead(Listed', source.order, v))
            BY <1>4, PositionType
      <2>4. Cardinality(Listed) <= Cardinality(Ahead(Listed', source.order, v))
            BY <2>2, <2>3, FS_Subset
      <2>5. Cardinality(Listed) \in Nat /\ Cardinality(Ahead(Listed', source.order, v)) \in Nat
            BY <2>2, <2>3, FS_Subset, FS_CardinalityType
      <2> QED BY <2>4, <2>5 DEF Position
<1> QED BY <1>2, <1>3, <1>4, <1>5

LEMMA PositionLeavesNoGapNext ==
    Underway /\ Underway' /\ PositionLeavesNoGap /\ [Next]_vars => PositionLeavesNoGap'
<1> SUFFICES ASSUME Underway, Underway', PositionLeavesNoGap, [Next]_vars,
                    phase' = "reading", source'.pagination # "cursor",
                    ~movedUp', ~(wentOn' /\ updated' # {})
             PROVE  /\ source'.order = "oldest" =>
                          /\ \A v \in Listed': Place(v)' <= Done' => v \in records'
                          /\ ~wentOn' => Done' <= Cardinality(Listed')
                    /\ \A v \in Listed', m \in records': v.stamp <= m.stamp =>
                          v \in records' \/ (source'.order = "newest" /\ Place(v)' > Done')
    BY DEF PositionLeavesNoGap
<1>1. CASE ServerStep
      <2>1. /\ phase = "reading" /\ records' = records /\ asked' = asked /\ source' = source
            /\ wentOn' = wentOn /\ Done' = Done
            BY <1>1 DEF ServerStep, Insert, Remove, Update, reader, Done
      <2>2. ~movedUp /\ ~(wentOn /\ updated # {})
            <3>1. (movedUp => movedUp') /\ updated \subseteq updated'
                  BY <1>1, <2>1, ServerMoves DEF Underway
            <3> QED BY <2>1, <3>1
      <2>3. /\ Done \in Nat
            /\ \A v \in Listed: Place(v) \in Nat
            /\ \A v \in Listed': Place(v)' \in Nat
            <3>1. Listing(Listed')
                  BY <1>1, <2>1, ServerMoves DEF Underway
            <3>2. \A v \in Listed': Place(v)' \in Nat
                  BY <3>1, PositionType DEF Place, Listing
            <3> QED BY <2>1, <2>2, <3>2, PageAtPosition DEF Underway
      <2>4. \A v \in Listed \cap Listed': Place(v) <= Place(v)'
            BY <1>1, <2>1, ServerMoves DEF Underway, Place
      <2>5. ASSUME source.order = "oldest", NEW v \in Listed', Place(v)' <= Done, v \notin records
            PROVE  FALSE
            <3>1. v \notin Listed
                  BY <2>1, <2>2, <2>3, <2>4, <2>5 DEF PositionLeavesNoGap
            <3>2. updated' # {} /\ Place(v)' > Cardinality(Listed)
                  BY <1>1, <2>1, <2>5, <3>1, ArrivalIsLast DEF Underway, Place
            <3>3. Done <= Cardinality(Listed)
                  BY <2>1, <2>2, <2>5, <3>2 DEF PositionLeavesNoGap
            <3>4. Cardinality(Listed) \in Nat
                  BY ListedIsListing, FS_CardinalityType DEF Underway, Typed, Listing
            <3> QED BY <2>3, <2>5, <3>2, <3>3, <3>4
      <2>6. ASSUME source.order = "oldest", ~wentOn
            PROVE  Done <= Cardinality(Listed')
            <3>1. IsFiniteSet(Listed') /\ Listed \subseteq Listed'
                  BY <1>1, <2>1, <2>6, ArrivalIsLast DEF Underway
            <3>2. /\ Cardinality(Listed) <= Cardinality(Listed')
                  /\ Cardinality(Listed) \in Nat /\ Cardinality(Listed') \in Nat
                  BY <3>1, FS_Subset, FS_CardinalityType
            <3>3. Done <= Cardinality(Listed)
                  BY <2>1, <2>2, <2>6 DEF PositionLeavesNoGap
            <3> QED BY <2>3, <3>2, <3>3
      <2>7. ASSUME NEW v \in Listed', NEW m \in records, v.stamp <= m.stamp, v \notin records
            PROVE  source.order = "newest" /\ Place(v)' > Done
            <3>1. v \in Listed
                  <4>1. m.stamp \in Nat /\ m.stamp <= stamp
                        BY DEF Underway, Typed, TypeOK, Version
                  <4> QED BY <1>1, <2>7, <4>1, ServerStepListsLater DEF Underway
            <3>2. source.order = "newest" /\ Place(v) > Done
                  BY <2>1, <2>2, <2>7, <3>1 DEF PositionLeavesNoGap
            <3>3. Place(v) <= Place(v)'
                  BY <2>4, <3>1
            <3> QED BY <2>3, <3>1, <3>2, <3>3
      <2> QED BY <2>1, <2>5, <2>6, <2>7
<1>2. CASE Start
      <2>1. /\ records' = {} /\ wentOn' = FALSE /\ Done' = 0
            <3>1. asked' = 1 /\ PageSize \in Nat
                  BY <1>2, BoundAssumption DEF Start, FirstRequest
            <3> QED BY <1>2, <3>1 DEF Start, Done
      <2>2. Listing(Listed) /\ Listed' = Listed /\ source' = source
            BY <1>2, ReaderKeepsServer, ListedIsListing DEF Start, Underway, Typed
      <2>3. /\ \A v \in Listed': Place(v)' \in Nat \ {0}
            /\ Cardinality(Listed') \in Nat
            BY <2>2, PositionType, FS_CardinalityType DEF Listing, Place
      <2> QED BY <2>1, <2>3
<1>3. CASE Answered
      <2> DEFINE page == Page(asked)
      <2>1. /\ phase = "reading" /\ Listed' = Listed /\ source' = source
            /\ records' = records \cup page /\ movedUp' = movedUp /\ updated' = updated
            /\ asked' = asked + 1 /\ wentOn' = (wentOn \/ Cardinality(page) < PageSize)
            BY <1>3, AnswerFacts DEF Underway
      <2>2. ~movedUp /\ ~(wentOn /\ updated # {})
            BY <2>1
      <2>3. /\ Done \in Nat /\ Done' = Done + PageSize /\ PageSize \in Nat
            /\ page = {v \in Listed: Place(v) > Done /\ Place(v) <= Done + PageSize}
            /\ \A v \in Listed: Place(v) \in Nat
            BY <2>1, PageAtPosition, BoundAssumption DEF Underway
      <2>4. \A v: Place(v)' = Place(v)
            BY <2>1 DEF Place
      <2>5. ASSUME source.order = "oldest", NEW v \in Listed, Place(v) <= Done + PageSize
            PROVE  v \in records'
            BY <2>1, <2>2, <2>3, <2>5 DEF PositionLeavesNoGap
      <2>6. ASSUME source.order = "oldest", ~wentOn'
            PROVE  Done + PageSize <= Cardinality(Listed)
            <3>1. ~wentOn /\ ~(Cardinality(page) < PageSize)
                  BY <2>1, <2>6
            <3>2. Done <= Cardinality(Listed)
                  BY <2>1, <2>2, <2>6, <3>1 DEF PositionLeavesNoGap
            <3> QED BY <2>1, <3>1, <3>2, FullPageIsListed DEF Underway
      <2>7. ASSUME NEW v \in Listed, NEW m \in records', v.stamp <= m.stamp, v \notin records'
            PROVE  source.order = "newest" /\ Place(v) > Done + PageSize
            BY <2>1, <2>2, <2>7, GapByPosition
      <2> HIDE DEF page
      <2> QED BY <2>1, <2>3, <2>4, <2>5, <2>6, <2>7
<1>4. CASE Retry \/ Fails \/ Write \/ Undecodable \/ UNCHANGED vars
      <2>1. phase = "reading" /\ Listed' = Listed
            /\ UNCHANGED <<source, asked, records, movedUp, wentOn, updated>>
            BY <1>4, OtherSteps DEF history, Underway
      <2> QED BY <2>1 DEF PositionLeavesNoGap, Place, Done
<1> QED BY <1>1, <1>2, <1>3, <1>4 DEF Next

LEMMA GapByCursor ==
    ASSUME Underway, CursorLeavesNoGap, phase = "reading", source.pagination = "cursor",
           NEW v \in Listed, NEW m \in records \cup Page(asked), v.stamp <= m.stamp,
           v \notin records, v \notin Page(asked)
    PROVE  v \in From(asked) /\ source.order = "newest"
<1> DEFINE o == source.order
           page == Page(asked)
<1>1. /\ From(asked) = {w \in Listed: asked = Null \/ Before([stamp |-> asked], w)}
      /\ page \subseteq From(asked)
      /\ \A w \in From(asked), u \in page: Before(w, u) => w \in page
      BY PageAtCursor, PageIsHead DEF Underway, Typed
<1>2. Listing(Listed) /\ o \in {"oldest", "newest"} /\ (\A w \in records: w.stamp \in Nat)
      /\ asked \in Nat \cup {Null}
      BY ListedIsListing, SourceType DEF Underway, Typed, TypeOK, Version
<1>3. asked # Null => \A w \in records: w.stamp = asked \/ Before(w, [stamp |-> asked])
      BY DEF Underway, CursorIsAhead
<1>4. CASE m \in records
      <2>1. asked # Null /\ asked \in Nat
            BY <1>2, <1>4 DEF Underway, CursorIsAhead
      <2>2. Before([stamp |-> asked], v)
            BY <1>4 DEF CursorLeavesNoGap
      <2>3. o # "oldest"
            BY <1>2, <1>3, <1>4, <2>1, <2>2 DEF Before, Listing
      <2> QED BY <1>1, <1>2, <2>2, <2>3
<1>5. CASE m \in page
      <2>1. m \in Listed /\ m \in From(asked) /\ v.stamp < m.stamp
            BY <1>1, <1>2, <1>5 DEF Listing
      <2>2. v \in From(asked)
            <3>1. CASE asked = Null
                  BY <1>1, <3>1
            <3>2. CASE asked # Null /\ o = "newest"
                  <4>1. Before([stamp |-> asked], m) /\ asked \in Nat
                        BY <1>1, <1>2, <2>1, <3>2
                  <4>2. v.stamp \in Nat /\ m.stamp \in Nat
                        BY <1>2, <2>1 DEF Listing
                  <4>3. Before([stamp |-> asked], v)
                        BY <2>1, <3>2, <4>1, <4>2 DEF Before
                  <4> QED BY <1>1, <4>3
            <3>3. CASE asked # Null /\ o = "oldest"
                  <4>1. PICK u \in records: u.stamp = asked
                        BY <3>3 DEF Underway, CursorIsAhead
                  <4>2. v.stamp <= u.stamp => Before([stamp |-> asked], v)
                        BY <4>1 DEF CursorLeavesNoGap
                  <4>3. v.stamp \in Nat /\ asked \in Nat
                        BY <1>2, <3>3 DEF Listing
                  <4>4. Before([stamp |-> asked], v)
                        BY <3>3, <4>1, <4>2, <4>3 DEF Before
                  <4> QED BY <1>1, <4>4
            <3> QED BY <1>2, <3>1, <3>2, <3>3
      <2>3. o # "oldest"
            BY <1>1, <1>5, <2>1, <2>2 DEF Before
      <2> QED BY <1>2, <2>2, <2>3
<1> QED BY <1>4, <1>5

LEMMA CursorLeavesNoGapNext ==
    Underway /\ CursorLeavesNoGap /\ [Next]_vars => CursorLeavesNoGap'
<1> SUFFICES ASSUME Underway, CursorLeavesNoGap, [Next]_vars,
                    phase' = "reading", source'.pagination = "cursor",
                    NEW v \in Listed', NEW m \in records', v.stamp <= m.stamp, v \notin records'
             PROVE  Before([stamp |-> asked], v)'
    BY DEF CursorLeavesNoGap
<1>1. CASE ServerStep
      <2>1. phase = "reading" /\ records' = records /\ asked' = asked /\ source' = source
            BY <1>1 DEF ServerStep, Insert, Remove, Update, reader
      <2>2. m.stamp \in Nat /\ m.stamp <= stamp
            BY <2>1 DEF Underway, Typed, TypeOK, Version
      <2>3. v \in Listed
            BY <1>1, <2>2, ServerStepListsLater DEF Underway
      <2> QED BY <2>1, <2>3 DEF CursorLeavesNoGap, Before
<1>2. CASE Start
      BY <1>2 DEF Start
<1>3. CASE Answered
      <2> DEFINE page == Page(asked)
                 last == LastOf(page)
      <2>1. phase = "reading" /\ source' = source /\ Listed' = Listed
            /\ records' = records \cup page
            BY <1>3, AnswerFacts DEF Underway
      <2>2. page # {} /\ last \in page /\ asked' = last.stamp
            BY <1>3, <2>1, AnswerFacts DEF Underway
      <2>3. v \in From(asked) \ page
            BY <2>1, GapByCursor
      <2>4. Before(last, v)
            BY <2>1, <2>2, <2>3, PageAtCursor DEF Underway
      <2> HIDE DEF last
      <2> QED BY <2>1, <2>2, <2>4 DEF Before
<1>4. CASE Retry \/ Fails \/ Write \/ Undecodable \/ UNCHANGED vars
      <2>1. phase = "reading" /\ Listed' = Listed /\ UNCHANGED <<source, asked, records>>
            BY <1>4, OtherSteps DEF Underway
      <2> QED BY <2>1 DEF CursorLeavesNoGap, Before
<1> QED BY <1>1, <1>2, <1>3, <1>4 DEF Next

LEMMA ReadLeavesNoGapNext ==
    Underway /\ PositionLeavesNoGap /\ CursorLeavesNoGap /\ ReadLeavesNoGap /\ [Next]_vars
        => ReadLeavesNoGap'
<1> SUFFICES ASSUME Underway, PositionLeavesNoGap, CursorLeavesNoGap, ReadLeavesNoGap, [Next]_vars,
                    phase' = "read", ~HasHoles',
                    NEW v \in Listed', NEW m \in records', v.stamp <= m.stamp, v \notin records'
             PROVE  FALSE
    BY DEF ReadLeavesNoGap
<1>1. CASE Answered
      <2> DEFINE page == Page(asked)
      <2>1. /\ phase = "reading" /\ source' = source /\ Listed' = Listed
            /\ records' = records \cup page /\ cut' = Further(asked)
            /\ movedUp' = movedUp /\ updated' = updated /\ wentOn' = wentOn
            BY <1>1, AnswerFacts DEF Underway
      <2>2. source.pagination \in Positional \cup {"cursor"}
            BY SourceType DEF Underway, Typed, TypeOK
      <2>3. source.order = "newest" => From(asked) = page
            BY <2>1 DEF HasHoles, Further
      <2>4. CASE source.pagination = "cursor"
            BY <2>1, <2>3, <2>4, GapByCursor
      <2>5. CASE source.pagination # "cursor"
            <3>1. ~movedUp /\ ~(wentOn /\ updated # {})
                  BY <2>1, <2>2, <2>5 DEF HasHoles
            <3>2. source.order = "newest" /\ Place(v) > Done + PageSize
                  BY <2>1, <2>5, <3>1, GapByPosition
            <3>3. /\ Done \in Nat /\ PageSize \in Nat /\ Place(v) \in Nat
                  /\ From(asked) = {w \in Listed: Place(w) > Done}
                  BY <2>1, <2>5, PageAtPosition, BoundAssumption DEF Underway
            <3>4. v \in From(asked)
                  BY <2>1, <3>2, <3>3
            <3> QED BY <2>1, <2>3, <3>2, <3>4
      <2> QED BY <2>4, <2>5
<1>2. CASE Start
      BY <1>2 DEF Start
<1>3. CASE ~Answered /\ ~Start
      <2>1. /\ UNCHANGED <<source, records, cut, wentOn>> /\ phase = "read"
            /\ (movedUp => movedUp') /\ updated \subseteq updated'
            BY <1>3, QuietSteps DEF Underway
      <2>2. ~HasHoles
            BY <2>1 DEF HasHoles
      <2>3. v \in Listed
            <3>1. CASE ServerStep
                  <4>1. m.stamp \in Nat /\ m.stamp <= stamp
                        BY <2>1 DEF Underway, Typed, TypeOK, Version
                  <4> QED BY <3>1, <4>1, ServerStepListsLater DEF Underway
            <3>2. CASE Retry \/ Fails \/ Write \/ Undecodable \/ UNCHANGED vars
                  <4>1. UNCHANGED <<source, server>>
                        BY <3>2 DEF Retry, Fails, Write, Undecodable, vars
                  <4> QED BY <4>1, ReaderKeepsServer DEF Underway
            <3> QED BY <1>3, <3>1, <3>2 DEF Next
      <2> QED BY <2>1, <2>2, <2>3 DEF ReadLeavesNoGap
<1> QED BY <1>1, <1>2, <1>3 DEF Next

LEMMA ReadsLeaveNoGap == Spec => []ReadLeavesNoGap
<1>1. Init => PositionLeavesNoGap /\ CursorLeavesNoGap /\ ReadLeavesNoGap
      BY DEF Init, PositionLeavesNoGap, CursorLeavesNoGap, ReadLeavesNoGap
<1> QED BY <1>1, PositionLeavesNoGapNext, CursorLeavesNoGapNext, ReadLeavesNoGapNext,
           ReadsAreUnderway, PTL DEF Spec

LEMMA WatermarkCoversDeliveryNext ==
    Typed /\ MarkIsBehind /\ ReadLeavesNoGap /\ WatermarkCoversDelivery /\ [Next]_vars
        => WatermarkCoversDelivery'
<1> SUFFICES ASSUME Typed, MarkIsBehind, ReadLeavesNoGap, WatermarkCoversDelivery, [Next]_vars,
                    watermark' \in Nat, ~holes',
                    NEW v \in Listed', Mark(v)' <= watermark'
             PROVE  v \in wrote' \/ Tied(v)'
    BY DEF WatermarkCoversDelivery
<1>a. /\ source \in Source /\ source' = source /\ \A w: Mark(w)' = Mark(w)
      /\ stamp \in Nat /\ records \subseteq Version /\ wrote \subseteq Version
      <2>1. source' = source
            BY DEF Next, ServerStep, Insert, Remove, Update, Start, Answered, Retry, Fails, Write, Undecodable, vars
      <2> QED BY <2>1, BoundAssumption DEF Typed, TypeOK, Mark
<1>b. v \in Version /\ \A w \in Version: w.stamp \in Nat /\ Mark(w) \in Nat
      <2>1. served' \subseteq Version
            BY TypedNext DEF Typed, TypeOK
      <2>2. \A w \in Version: Mark(w) \in Nat
            BY <1>a, MarksFollowStamps
      <2> QED BY <2>1, <2>2 DEF Listed, Version
\* What was written before it with a mark that is the watermark ties it.
<1>c. ASSUME NEW m \in wrote', m \in Version, Mark(m) = watermark', m.stamp < v.stamp
      PROVE  Tied(v)'
      <2>1. Mark(m) <= Mark(v)
            BY <1>a, <1>b, <1>c, MarksFollowStamps
      <2>2. Mark(m) = Mark(v)
            BY <1>a, <1>b, <1>c, <2>1
      <2> QED BY <1>a, <1>c, <2>2 DEF Tied
\* What was covered before is so still.
<1>d. ASSUME v \in Listed, wrote \subseteq wrote', watermark \in Nat, ~holes, Mark(v) <= watermark
      PROVE  v \in wrote' \/ Tied(v)'
      <2>1. v \in wrote \/ Tied(v)
            BY <1>d DEF WatermarkCoversDelivery
      <2> QED BY <1>a, <1>d, <2>1 DEF Tied
<1>1. CASE Write
      <2> DEFINE kept == {w \in records: Kept(w)}
                 top == Greatest({Mark(w): w \in kept})
      <2>1. /\ phase = "read" /\ ~HasHoles /\ ~holes /\ wrote' = wrote \cup kept
            /\ Listed' = Listed /\ watermark # Valueless
            BY <1>1, ReaderKeepsServer DEF Write
      <2>2. kept # {} /\ watermark' = top
            BY <1>1, MarkAssumption DEF Write
      <2>3. kept \subseteq Version
            BY <1>a
      <2>4. top \in {Mark(w): w \in kept}
            <3> HIDE DEF kept
            <3> QED BY <1>a, <2>2, <2>3, GreatestIsGreatest
      <2>5. PICK m \in kept: Mark(m) = top
            BY <2>4
      <2>6. m \in records /\ m \in wrote' /\ m \in Version /\ Mark(m) = watermark'
            BY <1>a, <2>1, <2>2, <2>5
      <2>7. CASE m.stamp < v.stamp
            BY <1>c, <2>6, <2>7
      <2>8. CASE ~(m.stamp < v.stamp)
            <3>1. v.stamp <= m.stamp
                  BY <1>b, <2>6, <2>8
            <3>2. v \in records
                  BY <2>1, <2>6, <3>1 DEF ReadLeavesNoGap
            <3>3. CASE Kept(v)
                  BY <2>1, <3>2, <3>3
            <3>4. CASE ~Kept(v)
                  <4>1. watermark \in Nat /\ ~(Mark(v) > watermark)
                        BY <2>1, <3>4 DEF Kept, Typed, TypeOK
                  <4>2. Mark(v) <= watermark
                        BY <1>b, <4>1
                  <4> QED BY <1>d, <2>1, <4>1, <4>2
            <3> QED BY <3>3, <3>4
      <2> QED BY <2>7, <2>8
<1>2. CASE ~Write
      <2>1. UNCHANGED <<watermark, wrote, holes>>
            BY <1>2 DEF Next, ServerStep, Insert, Remove, Update, Start, Answered, Retry, Fails,
                        Undecodable, vars, target
      <2>2. watermark \in Nat /\ ~holes /\ Mark(v) <= watermark
            BY <1>a, <2>1
      <2>3. CASE v \in Listed
            BY <1>d, <2>1, <2>2, <2>3
      <2>4. CASE v \notin Listed
            <3>1. ServerStep
                  <4>1. CASE Start \/ Answered \/ Retry \/ Fails \/ Undecodable \/ UNCHANGED vars
                        <5>1. UNCHANGED <<source, server>>
                              BY <4>1 DEF Start, Answered, Retry, Fails, Undecodable, vars
                        <5> QED BY <2>4, <5>1, ReaderKeepsServer
                  <4> QED BY <1>2, <4>1 DEF Next
            <3>2. v.stamp > stamp
                  <4>1. ~(v.stamp <= stamp)
                        BY <1>a, <2>4, <3>1, ServerStepListsLater
                  <4> QED BY <1>a, <1>b, <4>1
            <3>3. PICK m \in wrote: Mark(m) = watermark
                  BY <2>2 DEF MarkIsBehind
            <3>4. m \in Version /\ m.stamp <= stamp
                  BY <1>a, <3>3 DEF MarkIsBehind
            <3>5. m.stamp < v.stamp
                  BY <1>a, <1>b, <3>2, <3>4
            <3> QED BY <1>c, <2>1, <3>3, <3>4, <3>5
      <2> QED BY <2>3, <2>4
<1> QED BY <1>1, <1>2

\* What is on the server at or below the watermark is in the target, or shares its
\* value of the watermark column with an earlier change that is, unless a run wrote a
\* read with a hole, of which the three ways are known.
THEOREM WatermarkIsCovered == Spec => []WatermarkCoversDelivery
<1>1. Init => WatermarkCoversDelivery
      BY MarkAssumption DEF Init, WatermarkCoversDelivery
<1> QED BY <1>1, WatermarkCoversDeliveryNext, ReadsLeaveNoGap, MarkStaysBehind, ReaderTypes,
           PTL DEF Spec

=============================================================================
