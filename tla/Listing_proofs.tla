--------------------------- MODULE Listing_proofs ---------------------------
(***************************************************************************)
(* Theorems about Listing, for any ids, times, limits and pages, and their *)
(* proofs.                                                                 *)
(***************************************************************************)
EXTENDS Listing, TLAPS, FiniteSetTheorems, SequenceTheorems, WellFoundedInduction

\* What the proofs need of the constants.
LEMMA Constants ==
  /\ Ids \subseteq Nat
  /\ MaxClock \in Nat /\ MaxAsked \in Nat
  /\ DefaultLimit \in Nat /\ MaxLimit \in Nat
  /\ 1 <= DefaultLimit /\ DefaultLimit <= MaxLimit
  /\ Low \in Nat /\ Width \in Nat /\ 1 <= Width
  /\ Low <= MaxClock /\ MaxClock < Low + Width
BY ListingAssumption

\* No row and no key is None.
LEMMA NoneApart == \A x \in Row \cup Key : x # None
BY ListingAssumption

Rows == [Ids -> Row \cup {None}]

\* What is there has a time, an arrival and a key.
LEMMA RowType ==
  ASSUME NEW rows \in Rows, NEW i \in Present(rows)
  PROVE  /\ i \in Ids /\ rows[i] \in Row
         /\ rows[i].at \in Times /\ rows[i].in \in Times
         /\ KeyOf(rows, i) \in Key /\ KeyOf(rows, i).at = rows[i].at /\ KeyOf(rows, i).id = i
<1>1. i \in Ids /\ rows[i] \in Row
  BY DEF Rows, Present
<1>2. rows[i].at \in Times /\ rows[i].in \in Times
  BY <1>1 DEF Row
<1>3. QED
  BY <1>1, <1>2, Constants DEF KeyOf, Key, Times

-----------------------------------------------------------------------------
(* The operators of the community modules that Listing uses.               *)

\* A non-empty set of naturals has a least element.
LEMMA LeastNatural ==
  ASSUME NEW T, T \subseteq Nat, T # {}
  PROVE  \E x \in T : \A y \in T : x <= y
<1>1. PICK x \in T : \A y \in T : ~(<<y, x>> \in OpToRel(<, Nat))
  BY WFMin, NatLessThanWellFounded, Zenon
<1>2. \A y \in T : ~(y < x)
  BY <1>1, Zenon DEF OpToRel
<1>3. QED
  BY <1>2

\* The maximum of a bounded set of naturals is in it, and no less than any of it.
LEMMA MaxBounded ==
  ASSUME NEW N \in Nat, NEW S, S \subseteq 0..N, S # {}
  PROVE  Max(S) \in S /\ \A y \in S : y <= Max(S)
<1> DEFINE T == {b \in Nat : \A y \in S : y <= b}
<1>1. N \in T /\ T \subseteq Nat
  OBVIOUS
<1>2. PICK b \in T : \A c \in T : b <= c
  BY <1>1, LeastNatural
<1>3. b \in S
  <2>1. SUFFICES ASSUME b \notin S PROVE FALSE
    OBVIOUS
  <2>2. PICK z \in S : z \in 0..N
    OBVIOUS
  <2>3. b \in Nat /\ \A y \in S : y \in Nat /\ y <= b /\ y # b
    BY <2>1
  <2>4. b # 0 /\ b - 1 \in Nat
    BY <2>2, <2>3
  <2>5. \A y \in S : y <= b - 1
    BY <2>3
  <2>6. b - 1 \in T
    BY <2>4, <2>5
  <2>7. QED
    BY <1>2, <2>3, <2>6
<1>4. \E x \in S : \A y \in S : x >= y
  BY <1>3
<1>5. Max(S) \in S /\ \A y \in S : Max(S) >= y
  BY <1>4, Zenon DEF Max
<1>6. QED
  BY <1>5

\* An element no less than any other is the maximum.
LEMMA MaxIs ==
  ASSUME NEW N \in Nat, NEW S, S \subseteq 0..N, NEW m \in S, \A y \in S : y <= m
  PROVE  Max(S) = m
<1>1. Max(S) \in S /\ \A y \in S : y <= Max(S)
  BY MaxBounded
<1>2. m <= Max(S) /\ Max(S) <= m
  BY <1>1
<1>3. 0..N \subseteq Int
  OBVIOUS
<1>4. m \in Int /\ Max(S) \in Int
  BY <1>1, <1>3, Zenon
<1>5. QED
  BY <1>2, <1>4

\* The smaller of two.
LEMMA MinOfTwo ==
  ASSUME NEW a \in Nat, NEW b \in Nat
  PROVE  Min({a, b}) = IF a <= b THEN a ELSE b
<1> DEFINE m == IF a <= b THEN a ELSE b
<1>1. m \in {a, b} /\ \A y \in {a, b} : m =< y
  OBVIOUS
<1>2. Min({a, b}) \in {a, b} /\ \A y \in {a, b} : Min({a, b}) =< y
  BY <1>1, Zenon DEF Min
<1>3. QED
  BY <1>2

\* The first n numbers are n.
LEMMA FirstNumbers ==
  ASSUME NEW n \in Nat
  PROVE  IsFiniteSet(1..n) /\ Cardinality(1..n) = n
<1>1. 1 \in Int /\ n \in Int
  OBVIOUS
<1>2. IsFiniteSet(1..n) /\ Cardinality(1..n) = IF 1 > n THEN 0 ELSE n - 1 + 1
  BY <1>1, FS_Interval, Zenon
<1>3. QED
  BY <1>2

-----------------------------------------------------------------------------
(* The quality of events.                                                  *)

\* The arrivals of the events that happened before a time, and the zero time.
Before(rows, t) == {0} \cup {rows[j].in : j \in {x \in Present(rows) : rows[x].at < t}}

\* They are times.
LEMMA BeforeType ==
  ASSUME NEW rows \in Rows, NEW t \in Nat
  PROVE  /\ Before(rows, t) \subseteq Times /\ 0 \in Before(rows, t)
         /\ Max(Before(rows, t)) \in Before(rows, t)
         /\ \A y \in Before(rows, t) : y <= Max(Before(rows, t))
<1>1. Before(rows, t) \subseteq Times /\ 0 \in Before(rows, t)
  BY RowType, Constants DEF Before, Times
<1>2. QED
  BY <1>1, MaxBounded, Constants DEF Times

\* From one time to the next, the arrivals of the group in between are added.
LEMMA BeforeStep ==
  ASSUME NEW rows \in Rows, NEW t \in Nat, t # 0
  PROVE  Max({Max(Before(rows, t - 1))} \cup {rows[i].in : i \in Group(rows, t - 1)})
           = Max(Before(rows, t))
<1> DEFINE G == {rows[i].in : i \in Group(rows, t - 1)}
           B == Max(Before(rows, t - 1))
<1>1. t - 1 \in Nat
  OBVIOUS
<1>2. Before(rows, t) = Before(rows, t - 1) \cup G
  <2>1. \A i \in Present(rows) : rows[i].at \in Nat
    BY RowType, Constants DEF Times
  <2>2. \A i \in Present(rows) : rows[i].at < t <=> (rows[i].at < t - 1 \/ rows[i].at = t - 1)
    BY <2>1
  <2>3. QED
    BY <2>2 DEF Before, Group
<1>3. B \in Before(rows, t - 1) /\ \A y \in Before(rows, t - 1) : y <= B
  BY <1>1, BeforeType
<1>4. Before(rows, t) \subseteq Times /\ Before(rows, t - 1) \subseteq Times
  BY <1>1, BeforeType
<1>5. {B} \cup G \subseteq Times
  BY <1>2, <1>3, <1>4
<1>6. Max({B} \cup G) \in {B} \cup G /\ \A y \in {B} \cup G : y <= Max({B} \cup G)
  BY <1>5, MaxBounded, Constants DEF Times
<1>7. Max({B} \cup G) \in Before(rows, t)
  BY <1>2, <1>3, <1>6
<1>8. ASSUME NEW y \in Before(rows, t) PROVE y <= Max({B} \cup G)
  <2>1. CASE y \in G
    BY <1>6, <2>1
  <2>2. CASE y \in Before(rows, t - 1)
    <3>1. y <= B /\ B <= Max({B} \cup G)
      BY <1>3, <1>6, <2>2
    <3>2. y \in Times /\ B \in Times /\ Max({B} \cup G) \in Times
      BY <1>3, <1>4, <1>5, <1>6
    <3>3. QED
      BY <3>1, <3>2, Constants DEF Times
  <2>3. QED
    BY <1>2, <2>1, <2>2
<1>9. QED
  BY <1>4, <1>7, <1>8, MaxIs, Constants DEF Times

\* The mark that the loop carries from group to group is the latest of these arrivals.
LEMMA HighWater ==
  ASSUME NEW rows \in Rows, NEW at \in Nat
  PROVE  HighWaterMark(rows, at) = Max(Before(rows, at))
<1> DEFINE Next1(m, t) == Max({m} \cup {rows[i].in : i \in Group(rows, t - 1)})
           Carries(f) == f = [t \in 0..at |-> IF t = 0 THEN 0 ELSE Next1(f[t - 1], t)]
           mark == CHOOSE f : Carries(f)
           W == [t \in 0..at |-> Max(Before(rows, t))]
<1>1. HighWaterMark(rows, at) = mark[at]
  BY DEF HighWaterMark
<1>2. Max(Before(rows, 0)) = 0
  <2>1. \A x \in Present(rows) : ~(rows[x].at < 0)
    BY RowType, Constants DEF Times
  <2>2. Before(rows, 0) = {0}
    BY <2>1 DEF Before
  <2>3. QED
    BY <2>2, BeforeType
<1>3. Carries(W)
  <2>1. ASSUME NEW t \in 0..at
        PROVE  Max(Before(rows, t)) = IF t = 0 THEN 0 ELSE Next1(W[t - 1], t)
    <3>1. CASE t = 0
      BY <1>2, <3>1
    <3>2. CASE t # 0
      <4>1. W[t - 1] = Max(Before(rows, t - 1)) /\ t \in Nat
        BY <3>2
      <4>2. QED
        BY <3>2, <4>1, BeforeStep
    <3>3. QED
      BY <3>1, <3>2
  <2>2. QED
    BY <2>1
<1>4. Carries(mark)
  BY <1>3, Zenon
<1> HIDE DEF mark, Next1
<1>5. mark[0] = 0 /\ \A t \in 0..at : t # 0 => mark[t] = Next1(mark[t - 1], t)
  BY <1>4
<1>6. \A t \in 0..at : mark[t] = Max(Before(rows, t))
  <2> DEFINE T == {t \in 0..at : mark[t] # Max(Before(rows, t))}
  <2>1. SUFFICES ASSUME T # {} PROVE FALSE
    OBVIOUS
  <2>2. PICK t \in T : \A u \in T : t <= u
    <3>1. T \subseteq Nat
      OBVIOUS
    <3> HIDE DEF T
    <3>2. QED
      BY <2>1, <3>1, LeastNatural
  <2>3. t # 0 /\ t - 1 \in 0..at /\ t \in Nat
    BY <1>2, <1>5, <2>2
  <2>4. mark[t - 1] = Max(Before(rows, t - 1))
    BY <2>2, <2>3
  <2>5. QED
    BY <1>5, <2>2, <2>3, <2>4, BeforeStep DEF Next1
<1>7. QED
  BY <1>1, <1>6

\* Whatever the rows are, those flagged are those that one of an earlier time arrived after.
LEMMA FlaggedAre ==
  ASSUME NEW rows \in Rows
  PROVE  Flagged(rows) = {i \in Present(rows) :
           \E j \in Present(rows) : rows[j].at < rows[i].at /\ rows[i].in < rows[j].in}
<1>1. SUFFICES ASSUME NEW i \in Present(rows)
               PROVE  rows[i].in < HighWaterMark(rows, rows[i].at) <=>
                        \E j \in Present(rows) : rows[j].at < rows[i].at /\ rows[i].in < rows[j].in
  BY DEF Flagged
<1>2. rows[i].at \in Nat /\ rows[i].in \in Nat
  BY RowType, Constants DEF Times
<1> DEFINE B == Before(rows, rows[i].at)
<1>3. /\ HighWaterMark(rows, rows[i].at) = Max(B)
      /\ B \subseteq Times /\ Max(B) \in B /\ \A y \in B : y <= Max(B)
  BY <1>2, HighWater, BeforeType
<1>4. ASSUME rows[i].in < Max(B)
      PROVE  \E j \in Present(rows) : rows[j].at < rows[i].at /\ rows[i].in < rows[j].in
  BY <1>2, <1>3, <1>4 DEF Before
<1>5. ASSUME NEW j \in Present(rows), rows[j].at < rows[i].at, rows[i].in < rows[j].in
      PROVE  rows[i].in < Max(B)
  <2>1. rows[j].in \in B
    BY <1>5 DEF Before
  <2>2. rows[j].in <= Max(B) /\ rows[j].in \in Nat /\ Max(B) \in Nat
    BY <1>3, <2>1, Constants DEF Times
  <2>3. QED
    BY <1>2, <1>5, <2>2
<1>6. QED
  BY <1>3, <1>4, <1>5

-----------------------------------------------------------------------------
(* The order of a page.                                                    *)

\* The order of the list is a strict total order of the keys.
LEMMA Order ==
  /\ \A k \in Key : ~Precedes(k, k)
  /\ \A k, l, m \in Key : Precedes(k, l) /\ Precedes(l, m) => Precedes(k, m)
  /\ \A k, l \in Key : k = l \/ Precedes(k, l) \/ Precedes(l, k)
<1>1. \A k \in Key : k.at \in Nat /\ k.id \in Nat
  BY Constants DEF Key
<1>2. \A k, l \in Key : k.at = l.at /\ k.id = l.id => k = l
  BY DEF Key
<1>3. /\ \A k \in Key : ~Ascends(k, k)
      /\ \A k, l, m \in Key : Ascends(k, l) /\ Ascends(l, m) => Ascends(k, m)
      /\ \A k, l \in Key : k = l \/ Ascends(k, l) \/ Ascends(l, k)
  BY <1>1, <1>2 DEF Ascends
<1>4. QED
  BY <1>3 DEF Precedes

\* ORDER BY returns the keys of a finite set, each of them, in the order of the list.  The
\* sequence is the one that has each key at one more than the number of those before it.
LEMMA Ordered ==
  ASSUME NEW S, IsFiniteSet(S), S \subseteq Key
  PROVE  /\ Cardinality(S) \in Nat
         /\ InOrder(S) \in [1..Cardinality(S) -> S]
         /\ \A m, n \in 1..Cardinality(S) : m < n => Precedes(InOrder(S)[m], InOrder(S)[n])
         /\ \A k \in S : \E m \in 1..Cardinality(S) : InOrder(S)[m] = k
<1> DEFINE c == Cardinality(S)
           Down(k) == {l \in S : Precedes(l, k)}
           rank == [k \in S |-> Cardinality(Down(k)) + 1]
           Sorted(s) == \A m, n \in 1..c : m < n => Precedes(s[m], s[n])
<1>1. c \in Nat /\ c = Cardinality(S)
  BY FS_CardinalityType
<1>2. ASSUME NEW k \in S
      PROVE  IsFiniteSet(Down(k)) /\ Cardinality(Down(k)) \in Nat /\ Cardinality(Down(k)) < c
  <2>1. Down(k) \in SUBSET S /\ k \notin Down(k)
    BY Order
  <2>2. Down(k) # S
    BY <2>1
  <2>3. IsFiniteSet(Down(k)) /\ Cardinality(Down(k)) <= c /\ Cardinality(Down(k)) # c
    BY <2>1, <2>2, FS_Subset
  <2>4. Cardinality(Down(k)) \in Nat
    BY <2>3, FS_CardinalityType
  <2>5. QED
    BY <1>1, <2>3, <2>4
<1>3. ASSUME NEW k \in S, NEW l \in S, Precedes(k, l)
      PROVE  rank[k] < rank[l]
  <2>1. Down(k) \in SUBSET Down(l) /\ k \in Down(l) /\ k \notin Down(k)
    BY <1>3, Order
  <2>2. Down(k) # Down(l)
    BY <2>1
  <2>3. Cardinality(Down(k)) <= Cardinality(Down(l)) /\ Cardinality(Down(k)) # Cardinality(Down(l))
    BY <1>2, <2>1, <2>2, FS_Subset
  <2> HIDE DEF Down
  <2>4. /\ Cardinality(Down(k)) < Cardinality(Down(l))
        /\ rank[k] = Cardinality(Down(k)) + 1 /\ rank[l] = Cardinality(Down(l)) + 1
    BY <1>2, <2>3
  <2>5. QED
    BY <1>2, <2>4
<1> HIDE DEF Down, c
<1>4. rank \in [S -> 1..c]
  <2>1. \A k \in S : Cardinality(Down(k)) + 1 \in 1..c
    BY <1>1, <1>2
  <2>2. QED
    BY <2>1
<1>5. \A k, l \in S : rank[k] = rank[l] => k = l
  <2>1. \A k, l \in S : k # l => rank[k] < rank[l] \/ rank[l] < rank[k]
    BY <1>3, Order
  <2>2. \A k \in S : rank[k] \in Int
    BY <1>4
  <2> HIDE DEF rank
  <2>3. QED
    BY <2>1, <2>2
<1> HIDE DEF rank
<1>6. rank \in Surjection(S, 1..c)
  <2>1. rank \in Injection(S, 1..c)
    BY <1>4, <1>5 DEF Injection, IsInjective
  <2>2. IsFiniteSet(1..c) /\ Cardinality(1..c) = c
    BY <1>1, FirstNumbers
  <2>3. QED
    BY <1>1, <2>1, <2>2, FS_Injection
<1>7. \E s \in [1..c -> S] : Sorted(s)
  <2> DEFINE s == [m \in 1..c |-> CHOOSE k \in S : rank[k] = m]
  <2>1. \A m \in 1..c : s[m] \in S /\ rank[s[m]] = m
    BY <1>6 DEF Surjection
  <2>2. s \in [1..c -> S]
    BY <2>1
  <2>3. ASSUME NEW m \in 1..c, NEW n \in 1..c, m < n PROVE Precedes(s[m], s[n])
    <3>1. ~Precedes(s[n], s[m])
      BY <1>3, <2>1, <2>3
    <3>2. s[m] # s[n] /\ s[m] \in Key /\ s[n] \in Key
      BY <2>1, <2>3
    <3>3. QED
      BY <3>1, <3>2, Order
  <2>4. QED
    BY <2>2, <2>3
<1> DEFINE o == InOrder(S)
<1>8. o \in [1..c -> S] /\ Sorted(o)
  BY <1>7, Zenon DEF InOrder, c
<1> HIDE DEF o
<1>9. o \in Surjection(1..c, S)
  <2>1. \A m, n \in 1..c : o[m] = o[n] => m = n
    <3>1. \A m \in 1..c : o[m] \in Key
      BY <1>8
    <3>2. \A m, n \in 1..c : m < n => o[m] # o[n]
      BY <1>8, <3>1, Order
    <3>3. QED
      BY <1>1, <3>2
  <2>2. o \in Injection(1..c, S)
    BY <1>8, <2>1 DEF Injection, IsInjective
  <2>3. Cardinality(1..c) = c
    BY <1>1, FirstNumbers
  <2>4. QED
    BY <1>1, <2>2, <2>3, FS_Injection
<1>10. \A k \in S : \E m \in 1..c : o[m] = k
  BY <1>9 DEF Surjection
<1>11. QED
  BY <1>1, <1>8, <1>10 DEF o, c
-----------------------------------------------------------------------------
(* A page.                                                                 *)

\* A page has a positive limit, and no more than the maximum.
LEMMA ClampedType ==
  ASSUME NEW asked \in 0..MaxAsked
  PROVE  Clamped(asked) \in 1..MaxLimit
BY Constants DEF Clamped

\* The keys past the cursor.
Past(rows) == {k \in {KeyOf(rows, i) : i \in Present(rows)} : cursor = None \/ Precedes(cursor, k)}

LEMMA PastType ==
  ASSUME NEW rows \in Rows, IsFiniteSet(Present(rows))
  PROVE  IsFiniteSet(Past(rows)) /\ Past(rows) \subseteq Key
<1> DEFINE K == {KeyOf(rows, i) : i \in Present(rows)}
           f == [i \in Present(rows) |-> KeyOf(rows, i)]
<1>1. f \in Surjection(Present(rows), K)
  BY DEF Surjection
<1> HIDE DEF f
<1>2. IsFiniteSet(K)
  BY <1>1, FS_Surjection
<1>3. K \subseteq Key
  BY RowType
<1>4. Past(rows) \in SUBSET K
  BY DEF Past
<1>5. QED
  BY <1>2, <1>3, <1>4, FS_Subset

\* What a page shows: in order, of the keys past the cursor, and none of them left out up to
\* the cursor that it ends with.
Shows(rows, shown) ==
  /\ shown \in Seq(Key) /\ Len(shown) <= MaxLimit
  /\ listed' = listed \o shown
  /\ page' = {k.id : k \in ToSet(shown)}
  /\ first' = IF listed = <<>> THEN Present(rows) ELSE first
  /\ \A m, n \in 1..Len(shown) : m < n => Precedes(shown[m], shown[n])
  /\ \A m \in 1..Len(shown) : shown[m] \in Past(rows)

ShowsAll(rows, shown) ==
  /\ pc' = "done" /\ cursor' = None
  /\ \A k \in Past(rows) : \E m \in 1..Len(shown) : shown[m] = k

ShowsSome(rows, shown) ==
  /\ pc' = "idle" /\ Len(shown) \in 1..Len(shown)
  /\ cursor' = ThroughCursor(shown[Len(shown)])
  /\ \A k \in Past(rows) :
       (\E m \in 1..Len(shown) : shown[m] = k) \/ Precedes(shown[Len(shown)], k)

LEMMA ShowStep ==
  ASSUME NEW rows \in Rows, IsFiniteSet(Present(rows)), NEW asked \in 0..MaxAsked,
         Show(rows, asked)
  PROVE  \E shown : Shows(rows, shown) /\ (ShowsAll(rows, shown) \/ ShowsSome(rows, shown))
<1> DEFINE P == Past(rows)
           c == Cardinality(P)
           o == InOrder(P)
           limit == Clamped(asked)
           f == IF limit + 1 <= c THEN limit + 1 ELSE c
           h == IF limit <= f THEN limit ELSE f
           keys == Fetched(rows, limit)
           shown == SubSeq(keys, 1, Min({limit, Len(keys)}))
<1>1. limit \in Nat /\ 1 <= limit /\ limit <= MaxLimit
  BY ClampedType, Constants
<1>2. /\ c \in Nat
      /\ o \in [1..c -> P]
      /\ \A m, n \in 1..c : m < n => Precedes(o[m], o[n])
      /\ \A k \in P : \E m \in 1..c : o[m] = k
  BY PastType, Ordered
<1>3. P \subseteq Key
  BY PastType
<1> HIDE DEF P, c, o, limit
<1>4. o \in Seq(Key) /\ Len(o) = c
  BY <1>2, <1>3
<1>5. f \in Nat /\ f <= c /\ f <= limit + 1
  BY <1>1, <1>2
<1>6. keys \in Seq(Key) /\ Len(keys) = f /\ \A m \in 1..f : keys[m] = o[m]
  <2>1. keys = SubSeq(o, 1, Min({limit + 1, Len(o)}))
    BY DEF Fetched, Past, P, o
  <2>2. Min({limit + 1, Len(o)}) = f
    BY <1>1, <1>2, <1>4, MinOfTwo
  <2>3. \A m \in 1..f : o[m] \in Key
    BY <1>2, <1>3, <1>5
  <2>4. keys = SubSeq(o, 1, f)
    BY <2>1, <2>2
  <2> HIDE DEF f, keys
  <2>5. keys \in Seq(Key) /\ Len(keys) = f /\ \A m \in 1..f : keys[m] = o[m]
    BY <1>5, <2>3, <2>4, SubSeqProperties
  <2>6. QED
    BY <2>5
<1> HIDE DEF f
<1>7. h \in Nat /\ h <= limit /\ h <= f
  BY <1>1, <1>5
<1>8. shown \in Seq(Key) /\ Len(shown) = h /\ \A m \in 1..h : shown[m] = o[m]
  <2>1. Min({limit, Len(keys)}) = h
    BY <1>1, <1>5, <1>6, MinOfTwo
  <2> HIDE DEF keys
  <2>2. \A m \in 1..h : keys[m] \in Key
    BY <1>5, <1>6, <1>7
  <2>3. shown = SubSeq(keys, 1, h)
    BY <2>1
  <2> HIDE DEF shown, f, h
  <2>4. shown \in Seq(Key) /\ Len(shown) = h /\ \A m \in 1..h : shown[m] = keys[m]
    BY <1>7, <2>2, <2>3, SubSeqProperties
  <2>5. QED
    BY <1>5, <1>6, <1>7, <2>4
<1>9. /\ cursor' = IF Len(keys) > limit THEN ThroughCursor(LastOf(keys, limit)) ELSE None
      /\ pc' = IF Len(keys) > limit THEN "idle" ELSE "done"
      /\ page' = {k.id : k \in ToSet(shown)}
      /\ listed' = listed \o shown
      /\ first' = IF listed = <<>> THEN Present(rows) ELSE first
  BY DEF Show, limit
<1> HIDE DEF keys, shown
<1>10. Shows(rows, shown)
  <2>1. \A m \in 1..h : m \in 1..c
    BY <1>2, <1>5, <1>7
  <2>2. Len(shown) <= MaxLimit
    BY <1>1, <1>7, <1>8, Constants
  <2>3. \A m, n \in 1..h : m < n => Precedes(shown[m], shown[n])
    BY <1>2, <1>8, <2>1
  <2>4. \A m \in 1..h : shown[m] \in Past(rows)
    BY <1>2, <1>8, <2>1 DEF P
  <2>5. QED
    BY <1>8, <1>9, <2>2, <2>3, <2>4 DEF Shows
<1>11. CASE Len(keys) > limit
  <2>1. f = limit + 1 /\ h = limit /\ h \in 1..h /\ h < c /\ h \in 1..f
    BY <1>1, <1>2, <1>5, <1>6, <1>11 DEF f
  <2>2. LastOf(keys, limit) = shown[h] /\ shown[h] = o[h]
    BY <1>6, <1>8, <2>1 DEF LastOf
  <2>3. ASSUME NEW k \in P PROVE (\E m \in 1..h : shown[m] = k) \/ Precedes(shown[h], k)
    <3>1. PICK m \in 1..c : o[m] = k
      BY <1>2
    <3>2. m \in 1..h \/ h < m
      BY <1>2, <1>7, <2>1
    <3>3. h \in 1..c
      BY <1>2, <2>1
    <3>4. QED
      BY <1>2, <1>8, <2>2, <3>1, <3>2, <3>3
  <2>4. ShowsSome(rows, shown)
    BY <1>8, <1>9, <1>11, <2>1, <2>2, <2>3 DEF ShowsSome, P
  <2>5. QED
    BY <1>10, <2>4
<1>12. CASE ~(Len(keys) > limit)
  <2>1. f = c /\ h = c
    BY <1>1, <1>2, <1>5, <1>6, <1>12 DEF f
  <2>2. \A k \in P : \E m \in 1..h : shown[m] = k
    BY <1>2, <1>8, <2>1
  <2>3. ShowsAll(rows, shown)
    BY <1>8, <1>9, <1>12, <2>2 DEF ShowsAll, P
  <2>4. QED
    BY <1>10, <2>3
<1>13. QED
  BY <1>11, <1>12
-----------------------------------------------------------------------------
(* The inductive invariant.  ListedOnceInOrder alone does not say where the *)
(* walk stands: at the last key shown, with everything it still owes past  *)
(* it.                                                                     *)

\* The rows are finitely many, and those of likes fit a cursor; events are never removed.
RowsOK ==
  /\ IsFiniteSet(Present(row)) /\ IsFiniteSet(Present(snap))
  /\ Low <= clock
  /\ list = "likes" => /\ \A i \in Present(row) : row[i].at >= Low
                       /\ pc \in {"idle", "done"}
  /\ list = "session" => removed = {}

\* The rows that a page is taken from are there as they were.
Agrees(rows) == \A i \in Present(rows) : row[i] = rows[i]

\* A page is taken from the snapshot that was counted.
SnapOK ==
  pc = "page" => /\ list = "session"
                 /\ counted = Present(snap)
                 /\ Agrees(snap)
                 /\ first \subseteq Present(snap)

\* The client holds a cursor just when it was shown something.
CursorOK == pc \in {"idle", "page"} => (cursor = None <=> listed = <<>>)

\* What was shown is as it was, unless it was unliked since.
ListedOK ==
  \A m \in 1..Len(listed) :
    \/ listed[m].id \in removed
    \/ listed[m].id \in Present(row) /\ listed[m] = KeyOf(row, listed[m].id)

\* What was there at the first page is, unless it was unliked since.
FirstOK ==
  /\ first \ removed \subseteq Present(row)
  /\ listed = <<>> => first = {}

Walking == pc \in {"idle", "page"}
InWindow == \A i \in Present(row) : row[i].at >= Low

\* The cursor is the last key shown, and what was there from the first page on and was not
\* shown comes after it.
WalkOK ==
  /\ Walking /\ cursor # None => cursor = listed[Len(listed)]
  /\ \A m, n \in 1..Len(listed) : m < n => Precedes(listed[m], listed[n])
  /\ \A i \in first \ removed :
       \/ \E m \in 1..Len(listed) : listed[m].id = i
       \/ Walking /\ cursor # None /\ Precedes(cursor, KeyOf(row, i))

StaticInv == RowsOK /\ SnapOK /\ CursorOK /\ ListedOK /\ FirstOK

ListingInv == TypeOK /\ StaticInv /\ (InWindow => WalkOK) /\ SummaryCoversPage

\* The client starts with nothing.
LEMMA InitInv == Init => ListingInv
<1> SUFFICES ASSUME Init PROVE ListingInv
  OBVIOUS
<1>1. row = NoRows /\ snap = NoRows /\ Present(NoRows) = {} /\ NoRows \in Rows
  BY DEF Init, Present, NoRows, Rows
<1>2. IsFiniteSet({}) /\ Cardinality({}) = 0
  BY FS_EmptySet
<1>3. TypeOK
  BY <1>1, <1>2, Constants DEF Init, TypeOK, Rows, Times
<1>4. StaticInv
  BY <1>1, <1>2, Constants DEF Init, StaticInv, RowsOK, SnapOK, CursorOK, ListedOK, FirstOK
<1>5. WalkOK /\ SummaryCoversPage
  BY <1>1, <1>2 DEF Init, WalkOK, SummaryCoversPage
<1>6. QED
  BY <1>3, <1>4, <1>5 DEF ListingInv

\* A row is added: what was there stays as it was.
LEMMA InsertStep ==
  ASSUME ListingInv, NEW i \in Ids, Insert(i)
  PROVE  ListingInv'
<1> USE DEF ListingInv
<1>1. /\ row \in Rows /\ snap \in Rows /\ clock \in Times /\ clock + 1 \in Times
      /\ Low <= clock + 1
  BY Constants DEF TypeOK, Rows, Insert, Times, StaticInv, RowsOK
<1>2. UNCHANGED <<list, pc, snap, counted, cursor, page, listed, first, removed>>
  BY DEF Insert, walk
<1>3. PICK at \in Times, in \in Low..clock :
        (list = "likes" => at = in) /\ row' = [row EXCEPT ![i] = [at |-> at, in |-> in]]
  BY DEF Insert
<1>4. [at |-> at, in |-> in] \in Row /\ at \in Nat /\ (list = "likes" => at >= Low)
  BY <1>1, <1>3, Constants DEF Row, Times
<1>5. row' \in Rows /\ row'[i] = [at |-> at, in |-> in] /\ \A j \in Ids \ {i} : row'[j] = row[j]
  BY <1>1, <1>3, <1>4 DEF Rows
<1>6. row[i] = None /\ [at |-> at, in |-> in] # None
  BY <1>4, NoneApart DEF Insert
<1>7. /\ Present(row') = Present(row) \cup {i}
      /\ \A j \in Present(row) : row'[j] = row[j] /\ KeyOf(row', j) = KeyOf(row, j)
  BY <1>5, <1>6 DEF Present, KeyOf
<1>8. TypeOK'
  BY <1>1, <1>2, <1>5 DEF TypeOK, Rows, Insert
<1>9. RowsOK'
  <2>1. IsFiniteSet(Present(row'))
    BY <1>7, FS_AddElement DEF StaticInv, RowsOK
  <2>2. Low <= clock'
    BY <1>1 DEF Insert
  <2>3. list = "likes" => \A j \in Present(row') : row'[j].at >= Low
    BY <1>4, <1>5, <1>7 DEF StaticInv, RowsOK
  <2>4. QED
    BY <1>2, <2>1, <2>2, <2>3 DEF StaticInv, RowsOK
<1>10. SnapOK'
  <2>1. Agrees(snap) => Agrees(snap)'
    BY <1>2, <1>7 DEF Agrees, Present
  <2>2. QED
    BY <1>2, <2>1 DEF StaticInv, SnapOK
<1>11. ListedOK' /\ FirstOK' /\ CursorOK'
  BY <1>2, <1>7 DEF StaticInv, ListedOK, FirstOK, CursorOK
<1>12. InWindow' => WalkOK'
  <2>1. InWindow' => InWindow
    BY <1>7 DEF InWindow
  <2>2. \A j \in first \ removed : KeyOf(row', j) = KeyOf(row, j)
    BY <1>7 DEF StaticInv, FirstOK
  <2>3. WalkOK => WalkOK'
    BY <1>2, <2>2 DEF WalkOK, Walking, Precedes
  <2>4. QED
    BY <2>1, <2>3
<1>13. SummaryCoversPage'
  BY <1>2 DEF SummaryCoversPage
<1>14. QED
  BY <1>8, <1>9, <1>10, <1>11, <1>12, <1>13 DEF StaticInv

\* A song is unliked: the others stay as they were.
LEMMA UnlikeStep ==
  ASSUME ListingInv, NEW i \in Ids, Unlike(i)
  PROVE  ListingInv'
<1> USE DEF ListingInv
<1>1. /\ UNCHANGED <<list, clock, pc, snap, counted, cursor, page, listed, first>>
      /\ list = "likes" /\ row' = [row EXCEPT ![i] = None]
      /\ removed' = IF listed = <<>> THEN {} ELSE removed \cup {i}
  BY DEF Unlike, walk
<1>2. row \in Rows /\ row' \in Rows /\ row'[i] = None /\ \A j \in Ids \ {i} : row'[j] = row[j]
  BY <1>1 DEF TypeOK, Rows
<1>3. /\ Present(row') = Present(row) \ {i}
      /\ \A j \in Present(row') : row'[j] = row[j] /\ KeyOf(row', j) = KeyOf(row, j)
  BY <1>2 DEF Present, KeyOf
<1>4. TypeOK'
  BY <1>1, <1>2 DEF TypeOK, Rows
<1>5. RowsOK'
  <2>1. IsFiniteSet(Present(row'))
    BY <1>3, FS_RemoveElement DEF StaticInv, RowsOK
  <2>2. QED
    BY <1>1, <1>3, <2>1 DEF StaticInv, RowsOK
<1>6. SnapOK' /\ CursorOK'
  BY <1>1 DEF StaticInv, RowsOK, SnapOK, CursorOK
<1>7. listed # <<>> => removed' = removed \cup {i}
  BY <1>1
<1>8. listed = <<>> => first = {} /\ Len(listed) = 0
  BY DEF StaticInv, FirstOK
<1>9. ListedOK'
  <2>1. SUFFICES ASSUME NEW m \in 1..Len(listed)
                 PROVE  \/ listed[m].id \in removed'
                        \/ listed[m].id \in Present(row') /\ listed[m] = KeyOf(row', listed[m].id)
    BY <1>1 DEF ListedOK
  <2>2. removed' = removed \cup {i}
    BY <1>7, <1>8
  <2>3. \/ listed[m].id \in removed
        \/ listed[m].id \in Present(row) /\ listed[m] = KeyOf(row, listed[m].id)
    BY DEF StaticInv, ListedOK
  <2>4. QED
    BY <1>3, <2>2, <2>3
<1>10. FirstOK' /\ first' \ removed' \subseteq (first \ removed) \ {i}
  BY <1>1, <1>3, <1>7, <1>8 DEF StaticInv, FirstOK
<1>11. WalkOK'
  <2>1. WalkOK
    BY <1>1 DEF StaticInv, RowsOK, InWindow
  <2>2. \A j \in first' \ removed' : j \in first \ removed /\ KeyOf(row', j) = KeyOf(row, j)
    BY <1>3, <1>10 DEF FirstOK
  <2>3. QED
    BY <1>1, <2>1, <2>2 DEF WalkOK, Walking, Precedes
<1>12. SummaryCoversPage'
  BY <1>1 DEF SummaryCoversPage
<1>13. QED
  BY <1>4, <1>5, <1>6, <1>9, <1>10, <1>11, <1>12 DEF StaticInv

\* The overview counts the snapshot that the page beside it is taken from.
LEMMA OverviewStep ==
  ASSUME ListingInv, Overview
  PROVE  ListingInv'
<1> USE DEF ListingInv
<1>1. /\ UNCHANGED <<list, row, clock, cursor, page, listed, first, removed>>
      /\ list = "session" /\ pc = "idle"
      /\ pc' = IF Present(row) = {} THEN "404" ELSE "page"
      /\ snap' = row /\ counted' = Present(row)
  BY DEF Overview
<1>2. TypeOK'
  BY <1>1 DEF TypeOK, Present
<1>3. removed = {} /\ first \subseteq Present(row)
  BY <1>1 DEF StaticInv, RowsOK, FirstOK
<1>4. RowsOK' /\ SnapOK'
  BY <1>1, <1>3 DEF StaticInv, RowsOK, SnapOK, Agrees
<1>5. CursorOK' /\ ListedOK' /\ FirstOK'
  BY <1>1 DEF StaticInv, CursorOK, ListedOK, FirstOK
<1>6. InWindow' => WalkOK'
  <2>1. InWindow' => InWindow
    BY <1>1 DEF InWindow
  <2>2. pc' = "page" \/ first = {}
    BY <1>1, <1>3
  <2>3. Walking /\ (pc' = "page" => Walking') /\ (Walking' => Walking)
    BY <1>1 DEF Walking
  <2>4. WalkOK => WalkOK'
    BY <1>1, <2>2, <2>3 DEF WalkOK, Precedes
  <2>5. QED
    BY <2>1, <2>4
<1>7. SummaryCoversPage'
  BY <1>1 DEF SummaryCoversPage
<1>8. QED
  BY <1>2, <1>4, <1>5, <1>6, <1>7 DEF StaticInv
\* The part of a key that a cursor does not keep is its time, where that does not fit.
LEMMA CursorType ==
  ASSUME NEW key \in Key
  PROVE  /\ ThroughCursor(key) \in Key
         /\ key.at >= Low /\ key.at <= MaxClock => ThroughCursor(key) = key
<1> DEFINE back == Low + ((key.at - Low) % Width)
<1>1. key.at \in Nat /\ key.id \in Ids /\ key = [at |-> key.at, id |-> key.id]
  BY DEF Key
<1>2. ThroughCursor(key) = [at |-> back, id |-> key.id]
  BY <1>1 DEF ThroughCursor
<1>3. back \in Nat
  BY <1>1, Constants
<1>4. key.at >= Low /\ key.at <= MaxClock => back = key.at
  BY <1>1, Constants
<1>5. QED
  BY <1>1, <1>2, <1>3, <1>4 DEF Key

\* A page has no more items than keys were shown.
LEMMA PageSize ==
  ASSUME NEW shown \in Seq(Key)
  PROVE  LET ids == {k.id : k \in ToSet(shown)}
         IN  /\ ids \subseteq Ids
             /\ Cardinality(ids) \in Nat /\ Cardinality(ids) <= Len(shown)
<1> DEFINE ids == {k.id : k \in ToSet(shown)}
           f == [m \in 1..Len(shown) |-> shown[m].id]
<1>1. Len(shown) \in Nat /\ DOMAIN shown = 1..Len(shown) /\ \A m \in 1..Len(shown) : shown[m] \in Key
  OBVIOUS
<1>2. ids = {shown[m].id : m \in 1..Len(shown)}
  BY <1>1 DEF ToSet
<1> HIDE DEF ids
<1>3. f \in Surjection(1..Len(shown), ids)
  <2>1. \A m \in 1..Len(shown) : shown[m].id \in ids
    BY <1>2
  <2>2. \A i \in ids : \E m \in 1..Len(shown) : f[m] = i
    BY <1>2
  <2>3. QED
    BY <2>1, <2>2 DEF Surjection
<1>4. IsFiniteSet(1..Len(shown)) /\ Cardinality(1..Len(shown)) = Len(shown)
  BY <1>1, FirstNumbers
<1>5. IsFiniteSet(ids) /\ Cardinality(ids) <= Len(shown)
  BY <1>3, <1>4, FS_Surjection
<1>6. ids \subseteq Ids
  BY <1>1, <1>2 DEF Key
<1>7. QED
  BY <1>5, <1>6, FS_CardinalityType DEF ids

\* What a page is taken from: the rows as they are, or as they were counted.
Source(rows) ==
  /\ rows \in Rows /\ IsFiniteSet(Present(rows))
  /\ Agrees(rows)
  /\ first \ removed \subseteq Present(rows)
  /\ Walking

\* The keys of a page are those of its rows, and no less than the window when the rows are.
LEMMA PastKeys ==
  ASSUME NEW rows, Source(rows), row \in Rows, NEW k \in Past(rows)
  PROVE  /\ k \in Key /\ k.id \in Present(row) /\ k = KeyOf(row, k.id)
         /\ InWindow => ThroughCursor(k) = k
         /\ cursor # None => Precedes(cursor, k)
<1>1. PICK i \in Present(rows) : k = KeyOf(rows, i)
  BY DEF Past
<1>2. rows \in Rows /\ row[i] = rows[i]
  BY DEF Source, Agrees
<1>3. i \in Present(row) /\ k.id = i /\ k = KeyOf(row, i) /\ k \in Key
  BY <1>1, <1>2, RowType DEF Present, KeyOf
<1>4. k.at = row[i].at /\ k.at \in Times
  BY <1>3, RowType
<1>5. InWindow => k.at >= Low /\ k.at <= MaxClock
  BY <1>3, <1>4, Constants DEF InWindow, Times
<1>6. QED
  BY <1>3, <1>5, CursorType DEF Past

\* A page keeps the types.
LEMMA PageType ==
  ASSUME TypeOK, NEW rows \in Rows, NEW shown, Shows(rows, shown),
         ShowsAll(rows, shown) \/ ShowsSome(rows, shown),
         UNCHANGED <<list, row, clock, counted, removed>>, snap' \in Rows
  PROVE  TypeOK'
<1>1. shown \in Seq(Key) /\ Len(shown) \in Nat /\ Len(shown) <= MaxLimit
  BY DEF Shows
<1>2. listed' \in Seq(Key)
  BY <1>1 DEF Shows, TypeOK
<1>3. page' \subseteq Ids /\ Cardinality(page') <= MaxLimit
  BY <1>1, PageSize, Constants DEF Shows
<1>4. cursor' \in Key \cup {None}
  BY <1>1, CursorType DEF ShowsAll, ShowsSome
<1>5. first' \subseteq Ids /\ pc' \in {"idle", "done"}
  BY DEF TypeOK, Present, Shows, ShowsAll, ShowsSome
<1>6. QED
  BY <1>2, <1>3, <1>4, <1>5 DEF TypeOK, Rows

\* A page goes on where the walk stands.
LEMMA PageStep ==
  ASSUME TypeOK, StaticInv, InWindow => WalkOK, NEW rows, Source(rows), NEW shown,
         Shows(rows, shown), ShowsAll(rows, shown) \/ ShowsSome(rows, shown),
         UNCHANGED <<list, row, clock, counted, removed>>,
         snap' \in Rows, IsFiniteSet(Present(snap'))
  PROVE  StaticInv' /\ (InWindow => WalkOK)'
<1> DEFINE L == Len(listed)
           M == Len(shown)
<1>1. /\ row \in Rows /\ listed \in Seq(Key) /\ L \in Nat /\ cursor \in Key \cup {None}
      /\ shown \in Seq(Key) /\ M \in Nat
  BY DEF TypeOK, Rows, Shows
<1>2. /\ Len(listed') = L + M
      /\ \A m \in 1..L : listed'[m] = listed[m]
      /\ \A m \in 1..M : listed'[L + m] = shown[m]
  BY <1>1 DEF Shows
<1>3. \A m \in 1..Len(listed') : m \in 1..L \/ (m - L \in 1..M /\ listed'[m] = shown[m - L])
  BY <1>1, <1>2
<1>4. \A m \in 1..M :
        /\ shown[m] \in Past(rows) /\ shown[m] \in Key
        /\ shown[m].id \in Present(row) /\ shown[m] = KeyOf(row, shown[m].id)
        /\ cursor # None => Precedes(cursor, shown[m])
  BY <1>1, PastKeys DEF Shows
<1>5. cursor = None <=> L = 0
  BY <1>1 DEF StaticInv, CursorOK, Source, Walking
<1>6. ListedOK'
  BY <1>1, <1>2, <1>3, <1>4 DEF StaticInv, ListedOK
\* What was there at the first page is past the cursor or was shown.
<1>7. ASSUME NEW i \in first' \ removed
      PROVE  /\ i \in Present(row) /\ KeyOf(row, i) = KeyOf(rows, i) /\ i \in Present(rows)
             /\ KeyOf(row, i).id = i
             /\ L = 0 => KeyOf(row, i) \in Past(rows)
             /\ L # 0 => i \in first \ removed
  <2>1. i \in Present(rows)
    BY DEF Shows, Source
  <2>2. row[i] = rows[i] /\ i \in Ids /\ rows[i] # None
    BY <2>1 DEF Source, Agrees, Present
  <2>3. L # 0 => i \in first \ removed
    BY <1>1 DEF Shows
  <2>4. QED
    BY <1>5, <2>1, <2>2, <2>3 DEF Present, KeyOf, Past
<1>8. FirstOK'
  <2>1. ASSUME listed' = <<>> PROVE first' = {}
    <3>1. L = 0 /\ M = 0
      BY <1>1, <1>2, <2>1
    <3>2. Past(rows) = {}
      BY <3>1 DEF ShowsAll, ShowsSome
    <3>3. Present(rows) = {}
      BY <1>5, <3>1, <3>2 DEF Past
    <3>4. QED
      BY <1>1, <3>1, <3>3 DEF Shows
  <2>2. QED
    BY <1>7, <2>1 DEF FirstOK
<1>9. CursorOK'
  <2>1. ASSUME ShowsSome(rows, shown) PROVE cursor' # None /\ listed' # <<>>
    <3>1. M \in 1..M
      BY <2>1 DEF ShowsSome
    <3>2. cursor' \in Key
      BY <1>4, <2>1, <3>1, CursorType DEF ShowsSome
    <3>3. QED
      BY <1>1, <1>2, <3>1, <3>2, NoneApart
  <2>2. QED
    BY <2>1 DEF CursorOK, ShowsAll, ShowsSome
<1>10. RowsOK' /\ SnapOK'
  BY DEF StaticInv, RowsOK, SnapOK, ShowsAll, ShowsSome
<1>11. ASSUME InWindow PROVE WalkOK'
  <2>1. WalkOK
    BY <1>11
  <2>2. ASSUME NEW m \in 1..L, NEW n \in 1..M PROVE Precedes(listed[m], shown[n])
    <3>1. cursor # None /\ cursor = listed[L] /\ Precedes(cursor, shown[n])
      BY <1>1, <1>4, <1>5, <2>1 DEF WalkOK, Source
    <3>2. m = L \/ (m < L /\ Precedes(listed[m], listed[L]))
      BY <1>1, <2>1 DEF WalkOK
    <3>3. listed[m] \in Key /\ listed[L] \in Key /\ shown[n] \in Key
      BY <1>1
    <3>4. QED
      BY <3>1, <3>2, <3>3, Order
  <2>3. ASSUME NEW m \in 1..Len(listed'), NEW n \in 1..Len(listed'), m < n
        PROVE  Precedes(listed'[m], listed'[n])
    <3>1. CASE n \in 1..L
      BY <1>1, <1>2, <2>1, <2>3, <3>1 DEF WalkOK
    <3>2. CASE n \notin 1..L /\ m \in 1..L
      BY <1>2, <1>3, <2>2, <3>2
    <3>3. CASE n \notin 1..L /\ m \notin 1..L
      <4>1. /\ m - L \in 1..M /\ listed'[m] = shown[m - L]
            /\ n - L \in 1..M /\ listed'[n] = shown[n - L]
        BY <1>3, <3>3
      <4>2. m \in Int /\ n \in Int /\ m - L < n - L
        BY <1>1, <2>3
      <4>3. QED
        BY <4>1, <4>2 DEF Shows
    <3>4. QED
      BY <3>1, <3>2, <3>3
  <2>4. Walking' => /\ ShowsSome(rows, shown) /\ M \in 1..M
                    /\ cursor' = shown[M] /\ cursor' = listed'[Len(listed')] /\ cursor' # None
    <3>1. SUFFICES ASSUME Walking'
                   PROVE  /\ ShowsSome(rows, shown) /\ M \in 1..M
                          /\ cursor' = shown[M] /\ cursor' = listed'[Len(listed')] /\ cursor' # None
      OBVIOUS
    <3>2. ShowsSome(rows, shown) /\ M \in 1..M /\ cursor' = ThroughCursor(shown[M])
      BY <3>1 DEF Walking, ShowsAll, ShowsSome
    <3>3. ThroughCursor(shown[M]) = shown[M] /\ shown[M] \in Key
      BY <1>1, <1>4, <1>11, <3>2, PastKeys
    <3>4. QED
      BY <1>1, <1>2, <3>2, <3>3, NoneApart
  <2>5. ASSUME NEW i \in first' \ removed
        PROVE  \/ \E m \in 1..Len(listed') : listed'[m].id = i
               \/ Walking' /\ cursor' # None /\ Precedes(cursor', KeyOf(row, i))
    <3>1. CASE \E m \in 1..L : listed[m].id = i
      BY <1>1, <1>2, <3>1
    <3>2. CASE KeyOf(row, i) \in Past(rows)
      <4>1. ASSUME NEW m \in 1..M, shown[m] = KeyOf(row, i)
            PROVE  \E n \in 1..Len(listed') : listed'[n].id = i
        <5>1. L + m \in 1..Len(listed') /\ listed'[L + m].id = i
          BY <1>1, <1>2, <1>7, <4>1
        <5>2. QED
          BY <5>1
      <4>2. CASE ShowsAll(rows, shown)
        BY <3>2, <4>1, <4>2 DEF ShowsAll
      <4>3. CASE ShowsSome(rows, shown)
        BY <2>4, <3>2, <4>1, <4>3 DEF ShowsSome, Walking
      <4>4. QED
        BY <4>2, <4>3
    <3>3. CASE L # 0 /\ ~\E m \in 1..L : listed[m].id = i
      <4>1. Precedes(cursor, KeyOf(row, i))
        BY <1>7, <2>1, <3>3 DEF WalkOK
      <4>2. KeyOf(row, i) \in Past(rows)
        BY <1>7, <4>1 DEF Past
      <4>3. QED
        BY <3>2, <4>2
    <3>4. QED
      BY <1>7, <3>1, <3>2, <3>3
  <2>6. QED
    BY <2>3, <2>4, <2>5 DEF WalkOK, Precedes
<1>12. InWindow' => InWindow
  BY DEF InWindow
<1>13. QED
  BY <1>6, <1>8, <1>9, <1>10, <1>11, <1>12 DEF StaticInv
\* A page of events is of the session that the overview beside it has counted.
LEMMA EventsStep ==
  ASSUME ListingInv, NEW asked \in 0..MaxAsked, PageOfEvents(asked)
  PROVE  ListingInv'
<1> USE DEF ListingInv
<1>1. /\ pc = "page" /\ Show(snap, asked) /\ snap' = NoRows
      /\ UNCHANGED <<list, row, clock, counted, removed>>
  BY DEF PageOfEvents
<1>2. list = "session" /\ counted = Present(snap) /\ removed = {} /\ snap \in Rows
  BY <1>1 DEF StaticInv, SnapOK, RowsOK, TypeOK, Rows
<1>3. Source(snap)
  BY <1>1, <1>2 DEF Source, StaticInv, SnapOK, RowsOK, Walking
<1>4. snap' \in Rows /\ IsFiniteSet(Present(snap'))
  <2>1. NoRows \in Rows /\ Present(NoRows) = {}
    BY DEF NoRows, Rows, Present
  <2>2. QED
    BY <1>1, <2>1, FS_EmptySet
<1>5. PICK shown : Shows(snap, shown) /\ (ShowsAll(snap, shown) \/ ShowsSome(snap, shown))
  BY <1>1, <1>3, ShowStep DEF Source
<1>6. TypeOK'
  BY <1>1, <1>2, <1>4, <1>5, PageType
<1>7. StaticInv' /\ (InWindow => WalkOK)'
  BY <1>1, <1>3, <1>4, <1>5, PageStep
<1> DEFINE M == Len(shown)
<1>8. /\ shown \in Seq(Key) /\ M \in Nat /\ DOMAIN shown = 1..M
      /\ \A m \in 1..M : shown[m] \in Past(snap)
      /\ listed' = listed \o shown
  BY <1>5 DEF Shows
<1>9. page' = {shown[m].id : m \in 1..M}
  BY <1>5, <1>8 DEF Shows, ToSet
<1>10. page' \subseteq counted
  <2>1. \A k \in Past(snap) : k.id \in Present(snap)
    BY <1>2, RowType DEF Past
  <2>2. QED
    BY <1>2, <1>8, <1>9, <2>1
<1>11. ASSUME pc' = "done", Len(listed') = Cardinality(page') PROVE counted \subseteq page'
  <2>1. Cardinality(page') \in Nat /\ Cardinality(page') <= M
    BY <1>5, <1>8, PageSize DEF Shows
  <2>2. listed \in Seq(Key) /\ Len(listed) \in Nat /\ Len(listed') = Len(listed) + M
    BY <1>8 DEF TypeOK
  <2>3. Len(listed) = 0
    BY <1>8, <1>11, <2>1, <2>2
  <2>4. cursor = None
    BY <1>1, <2>2, <2>3 DEF StaticInv, CursorOK
  <2>5. ShowsAll(snap, shown)
    BY <1>5, <1>11 DEF ShowsSome
  <2>6. ASSUME NEW i \in Present(snap) PROVE i \in page'
    <3>1. KeyOf(snap, i) \in Past(snap) /\ KeyOf(snap, i).id = i
      BY <1>2, <2>4, RowType DEF Past
    <3>2. QED
      BY <1>9, <2>5, <3>1 DEF ShowsAll
  <2>7. QED
    BY <1>2, <2>6
<1>12. SummaryCoversPage'
  BY <1>1, <1>10, <1>11 DEF SummaryCoversPage
<1>13. QED
  BY <1>6, <1>7, <1>12

\* A page of songs is of the rows as they are.
LEMMA SongsStep ==
  ASSUME ListingInv, NEW asked \in 0..MaxAsked, PageOfSongs(asked)
  PROVE  ListingInv'
<1> USE DEF ListingInv
<1>1. /\ list = "likes" /\ pc = "idle" /\ Show(row, asked)
      /\ UNCHANGED <<list, row, clock, snap, counted, removed>>
  BY DEF PageOfSongs
<1>2. row \in Rows /\ snap \in Rows /\ IsFiniteSet(Present(row)) /\ IsFiniteSet(Present(snap))
  BY DEF TypeOK, Rows, StaticInv, RowsOK
<1>3. Source(row)
  BY <1>1, <1>2 DEF Source, Agrees, Walking, StaticInv, FirstOK
<1>4. PICK shown : Shows(row, shown) /\ (ShowsAll(row, shown) \/ ShowsSome(row, shown))
  BY <1>1, <1>2, ShowStep
<1>5. TypeOK'
  BY <1>1, <1>2, <1>4, PageType
<1>6. StaticInv' /\ (InWindow => WalkOK)'
  BY <1>1, <1>2, <1>3, <1>4, PageStep
<1>7. SummaryCoversPage'
  BY <1>1 DEF SummaryCoversPage
<1>8. QED
  BY <1>5, <1>6, <1>7

\* ListingInv is inductive.
LEMMA Invariance == Spec => []ListingInv
<1>1. ListingInv /\ [Next]_vars => ListingInv'
  <2>1. SUFFICES ASSUME ListingInv, [Next]_vars PROVE ListingInv'
    OBVIOUS
  <2>2. ASSUME NEW i \in Ids, Insert(i) \/ Unlike(i) PROVE ListingInv'
    BY <2>1, <2>2, InsertStep, UnlikeStep
  <2>3. CASE Overview
    BY <2>1, <2>3, OverviewStep
  <2>4. ASSUME NEW asked \in 0..MaxAsked, PageOfEvents(asked) \/ PageOfSongs(asked)
        PROVE  ListingInv'
    BY <2>1, <2>4, EventsStep, SongsStep
  <2>5. CASE UNCHANGED vars
    <3>1. UNCHANGED <<list, row, clock, pc, snap, counted, cursor, page, listed, first, removed>>
      BY <2>5 DEF vars, walk
    <3>2. TypeOK' /\ SummaryCoversPage'
      BY <2>1, <3>1 DEF ListingInv, TypeOK, SummaryCoversPage
    <3>3. StaticInv'
      BY <2>1, <3>1 DEF ListingInv, StaticInv, RowsOK, SnapOK, Agrees, CursorOK, ListedOK, FirstOK
    <3>4. (InWindow => WalkOK)'
      BY <2>1, <3>1 DEF ListingInv, InWindow, WalkOK, Walking, Precedes
    <3>5. QED
      BY <3>2, <3>3, <3>4 DEF ListingInv
  <2>6. QED
    BY <2>1, <2>2, <2>3, <2>4, <2>5 DEF Next
<1>2. QED
  BY <1>1, InitInv, PTL DEF Spec

-----------------------------------------------------------------------------
(* The theorems.                                                           *)

\* Every variable has its type, and no page is longer than the maximum.
THEOREM TypeCorrect == Spec => []TypeOK
<1>1. ListingInv => TypeOK
  BY DEF ListingInv
<1>2. QED
  BY <1>1, Invariance, PTL

\* The walk shows the keys in order, none twice, and all that was there from the first page
\* on, whatever is written between the pages.
THEOREM PagesInOrder == Spec => []ListedOnceInOrder
<1>1. ListingInv => ListedOnceInOrder
  <2>1. SUFFICES ASSUME ListingInv, InWindow
                 PROVE  /\ \A m, n \in 1..Len(listed) : m < n =>
                             /\ Precedes(listed[m], listed[n])
                             /\ listed[m].id = listed[n].id => listed[m].id \in removed
                        /\ pc = "done" => first \ removed \subseteq {k.id : k \in ToSet(listed)}
    BY DEF ListedOnceInOrder, InWindow
  <2>2. WalkOK /\ ListedOK /\ listed \in Seq(Key)
    BY <2>1 DEF ListingInv, StaticInv, TypeOK
  <2>3. ASSUME NEW m \in 1..Len(listed), NEW n \in 1..Len(listed), m < n
        PROVE  /\ Precedes(listed[m], listed[n])
               /\ listed[m].id = listed[n].id => listed[m].id \in removed
    <3>1. Precedes(listed[m], listed[n])
      BY <2>2, <2>3 DEF WalkOK
    <3>2. listed[m] # listed[n]
      BY <2>2, <3>1, Order
    <3>3. QED
      BY <2>2, <3>1, <3>2 DEF ListedOK
  <2>4. ASSUME pc = "done", NEW i \in first \ removed
        PROVE  i \in {k.id : k \in ToSet(listed)}
    <3>1. PICK m \in 1..Len(listed) : listed[m].id = i
      BY <2>2, <2>4 DEF WalkOK, Walking
    <3>2. listed[m] \in ToSet(listed)
      BY <2>2, <3>1 DEF ToSet
    <3>3. QED
      BY <3>1, <3>2
  <2>5. QED
    BY <2>3, <2>4
<1>2. QED
  BY <1>1, Invariance, PTL

\* The mark that detectOutOfOrder carries over the groups flags just the events that one of an
\* earlier time arrived after.
THEOREM FlagsAreExact == Spec => []FlagsAreRelative
<1>1. ListingInv => FlagsAreRelative
  BY FlaggedAre DEF ListingInv, TypeOK, Rows, FlagsAreRelative
<1>2. QED
  BY <1>1, Invariance, PTL

\* The events of a page are among those that the summary beside it counts, and all of them
\* where the page is the only one.
THEOREM SummaryIsOfThePage == Spec => []SummaryCoversPage
<1>1. ListingInv => SummaryCoversPage
  BY DEF ListingInv
<1>2. QED
  BY <1>1, Invariance, PTL
=============================================================================
