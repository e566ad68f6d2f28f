------------------------ MODULE InitiativeTrackerProofs ------------------------
(***************************************************************************)
(* For any roster, any requests and any number of handlers, every document *)
(* the tracker stores is well formed and in sync, and an open one carries  *)
(* no TTL date; within one encounter's history no write is lost and no     *)
(* player ends a turn that is not his, and the handlers together implement *)
(* Encounter.                                                              *)
(*                                                                         *)
(* TurnInSync alone is not inductive: a document is computed from a copy a *)
(* handler read earlier, so the copies must be as good as what is stored,  *)
(* and SyncTurnState lists everybody once only if list positions differ    *)
(* and the order it starts from names nobody twice.                        *)
(*                                                                         *)
(* The first part is about the operators of TurnOrder, the second about    *)
(* what the handlers do to a call, the third about rounds and about the    *)
(* slices of turnorder.go, the last about the tracker.                     *)
(***************************************************************************)
EXTENDS InitiativeTracker, FiniteSetTheorems, FunctionTheorems, SequenceTheorems,
        WellFoundedInduction, TLAPS

(***************************************************************************)
(* The turn order: what a listing along a strict order contains, that      *)
(* rotating and dropping keep an order free of duplicates, and that        *)
(* SyncTurnState brings any call with distinct list positions in sync.     *)
(***************************************************************************)
StrictOrderOn(R, S) ==
    /\ \A x \in S : <<x, x>> \notin R
    /\ \A x, y \in S : x # y => <<x, y>> \in R \/ <<y, x>> \in R
    /\ \A x, y, z \in S : <<x, y>> \in R /\ <<y, z>> \in R => <<x, z>> \in R

\* Who comes later in a strict order has more before him.
LEMMA LaterHasMoreBefore ==
    ASSUME NEW S, IsFiniteSet(S), NEW R, StrictOrderOn(R, S),
           NEW x \in S, NEW y \in S, <<x, y>> \in R
    PROVE  Cardinality({z \in S : <<z, x>> \in R})
               < Cardinality({z \in S : <<z, y>> \in R})
<1> DEFINE Below(z) == {w \in S : <<w, z>> \in R}
<1>1. Below(x) \in SUBSET Below(y) /\ Below(x) # Below(y) /\ Below(y) \in SUBSET S
  BY DEF StrictOrderOn
<1>2. IsFiniteSet(Below(y)) /\ Cardinality(Below(y)) \in Nat
  BY <1>1, FS_Subset, FS_CardinalityType
<1>3. /\ IsFiniteSet(Below(x)) /\ Cardinality(Below(x)) <= Cardinality(Below(y))
      /\ Cardinality(Below(x)) # Cardinality(Below(y))
  BY <1>1, <1>2, FS_Subset
<1>4. Cardinality(Below(x)) \in Nat
  BY <1>3, FS_CardinalityType
<1> QED
  BY <1>2, <1>3, <1>4

\* Along a strict order every element of a finite set gets a place of its own,
\* and whoever precedes another is listed before him.
LEMMA ListingIsBijection ==
    ASSUME NEW S, IsFiniteSet(S), NEW R, StrictOrderOn(R, S)
    PROVE  /\ Cardinality(S) \in Nat
           /\ Listing(S, R) \in [1 .. Cardinality(S) -> S]
           /\ \A i, j \in 1 .. Cardinality(S) :
                 Listing(S, R)[i] = Listing(S, R)[j] => i = j
           /\ Range(Listing(S, R)) = S
           /\ \A i, j \in 1 .. Cardinality(S) :
                 i < j => <<Listing(S, R)[i], Listing(S, R)[j]>> \in R
<1> DEFINE n == Cardinality(S)
           Below(x) == {y \in S : <<y, x>> \in R}
           rank == [x \in S |-> Cardinality(Below(x)) + 1]
<1>1. n \in Nat
  BY FS_CardinalityType
<1>2. \A x \in S : IsFiniteSet(Below(x)) /\ Cardinality(Below(x)) \in 0 .. n - 1
  <2> TAKE x \in S
  <2>1. Below(x) \in SUBSET S /\ Below(x) # S
    BY DEF StrictOrderOn
  <2>2. /\ IsFiniteSet(Below(x)) /\ Cardinality(Below(x)) <= n
        /\ Cardinality(Below(x)) # n
    BY <2>1, FS_Subset
  <2>3. Cardinality(Below(x)) \in Nat
    BY <2>2, FS_CardinalityType
  <2>4. QED
    BY <1>1, <2>2, <2>3
<1>3. \A x, y \in S : x # y => Cardinality(Below(x)) # Cardinality(Below(y))
  <2>1. ASSUME NEW x \in S, NEW y \in S, <<x, y>> \in R
        PROVE  /\ Cardinality(Below(x)) \in Int /\ Cardinality(Below(y)) \in Int
               /\ Cardinality(Below(x)) < Cardinality(Below(y))
    <3>1. Cardinality(Below(x)) < Cardinality(Below(y))
      BY <2>1, LaterHasMoreBefore
    <3> HIDE DEF Below
    <3> QED
      BY <1>1, <1>2, <3>1
  <2>2. \A x, y \in S : x # y => <<x, y>> \in R \/ <<y, x>> \in R
    BY DEF StrictOrderOn
  <2> HIDE DEF Below, n
  <2> TAKE x, y \in S
  <2> HAVE x # y
  <2>3. CASE <<x, y>> \in R
    BY <2>1, <2>3
  <2>4. CASE <<y, x>> \in R
    BY <2>1, <2>4
  <2>5. QED
    BY <2>2, <2>3, <2>4
<1>4. \A x \in S : rank[x] \in 1 .. n /\ rank[x] - 1 = Cardinality(Below(x))
  <2> TAKE x \in S
  <2>1. Cardinality(Below(x)) \in 0 .. n - 1
    BY <1>2
  <2> HIDE DEF Below
  <2>2. rank[x] = Cardinality(Below(x)) + 1
    OBVIOUS
  <2> HIDE DEF rank, n
  <2>3. QED
    BY <1>1, <2>1, <2>2
<1>5. rank \in [S -> 1 .. n]
  <2>1. rank = [x \in S |-> rank[x]]
    OBVIOUS
  <2> HIDE DEF rank, n
  <2>2. QED
    BY <1>4, <2>1
<1> HIDE DEF rank, n, Below
<1>6. \A x, y \in S : rank[x] = rank[y] => x = y
  BY <1>3, <1>4
<1>7. rank \in Surjection(S, 1 .. n)
  <2>1. IsFiniteSet(1 .. n) /\ Cardinality(1 .. n) = n
    BY <1>1, FS_Interval
  <2>2. rank \in Injection(S, 1 .. n)
    BY <1>5, <1>6, Fun_IsInj
  <2>3. QED
    BY <2>1, <2>2, FS_Injection DEF n
<1>8. \A k \in 1 .. n : \E x \in S : rank[x] = k
  BY <1>7, Fun_SurjectionProperties
<1>9. \A k \in 1 .. n : \E x \in S : Cardinality(Below(x)) = k - 1
  BY <1>4, <1>8
<1>10. \A k \in 1 .. n : /\ Listing(S, R)[k] \in S
                         /\ Cardinality(Below(Listing(S, R)[k])) = k - 1
  BY <1>9 DEF Listing, n, Below
<1>11. Listing(S, R) \in [1 .. n -> S]
  BY <1>10 DEF Listing, n
<1>12. ASSUME NEW x \in S
       PROVE  x \in Range(Listing(S, R))
  <2>1. Listing(S, R)[rank[x]] = x
    <3>1. rank[x] \in 1 .. n
      BY <1>4
    <3>2. rank[Listing(S, R)[rank[x]]] = rank[x]
      BY <1>4, <1>10, <3>1
    <3>3. QED
      BY <1>6, <1>10, <3>1, <3>2
  <2>2. QED
    BY <1>4, <1>11, <2>1 DEF Range
<1>13. \A i, j \in 1 .. n : Listing(S, R)[i] = Listing(S, R)[j] => i = j
  BY <1>1, <1>10
<1>14. ASSUME NEW i \in 1 .. n, NEW j \in 1 .. n, i < j
       PROVE  <<Listing(S, R)[i], Listing(S, R)[j]>> \in R
  <2> DEFINE x == Listing(S, R)[i]
             y == Listing(S, R)[j]
  <2>1. /\ x \in S /\ y \in S /\ x # y
        /\ Cardinality(Below(x)) = i - 1 /\ Cardinality(Below(y)) = j - 1
    BY <1>1, <1>10, <1>13, <1>14
  <2>2. <<x, y>> \in R \/ <<y, x>> \in R
    BY <2>1 DEF StrictOrderOn
  <2>3. ~(<<y, x>> \in R)
    <3>1. ASSUME <<y, x>> \in R PROVE Cardinality(Below(y)) < Cardinality(Below(x))
      BY <2>1, <3>1, LaterHasMoreBefore DEF Below
    <3> QED
      BY <1>1, <1>14, <2>1, <3>1
  <2> QED
    BY <2>2, <2>3
<1>15. QED
  BY <1>1, <1>11, <1>12, <1>13, <1>14 DEF Range, n

\* There is only one way to write a set out along a strict order.
LEMMA SortedIsListing ==
    ASSUME NEW S, IsFiniteSet(S), NEW R, StrictOrderOn(R, S),
           NEW s \in [1 .. Cardinality(S) -> S], Range(s) = S,
           \A i, j \in 1 .. Cardinality(S) : i < j => <<s[i], s[j]>> \in R
    PROVE  s = Listing(S, R)
<1> DEFINE n == Cardinality(S)
           Below(x) == {y \in S : <<y, x>> \in R}
<1>1. n \in Nat
  BY FS_CardinalityType
<1>2. \A i, j \in 1 .. n : i < j => s[i] # s[j]
  BY DEF StrictOrderOn
<1>3. ASSUME NEW k \in 1 .. n
      PROVE  Cardinality(Below(s[k])) = k - 1
  <2> DEFINE f == [i \in 1 .. k - 1 |-> s[i]]
  <2>1. \A i \in 1 .. k - 1 : i \in 1 .. n /\ i < k
    BY <1>1
  <2>2. \A i \in 1 .. k - 1 : f[i] = s[i] /\ s[i] \in Below(s[k])
    BY <2>1
  <2>3. \A y \in Below(s[k]) : \E i \in 1 .. k - 1 : f[i] = y
    <3> TAKE y \in Below(s[k])
    <3>1. PICK i \in 1 .. n : s[i] = y
      BY DEF Range
    <3>2. ~(k <= i)
      <4>1. <<s[i], s[k]>> \in R /\ s[i] \in S /\ s[k] \in S
        BY <3>1
      <4>2. <<s[k], s[i]>> \notin R /\ s[i] # s[k]
        BY <4>1 DEF StrictOrderOn
      <4> QED
        BY <1>1, <4>2
    <3>3. i \in 1 .. k - 1
      BY <1>1, <3>2
    <3> QED
      BY <3>1, <3>3
  <2>4. f \in [1 .. k - 1 -> Below(s[k])]
    BY <2>2
  <2>5. \A i, j \in 1 .. k - 1 : f[i] = f[j] => i = j
    BY <1>1, <1>2, <2>1, <2>2
  <2> HIDE DEF f, Below
  <2>6. f \in Bijection(1 .. k - 1, Below(s[k]))
    BY <2>3, <2>4, <2>5, Fun_IsBij
  <2> DEFINE m == k - 1
  <2>7. m \in Nat
    BY <1>1
  <2>8. ExistsBijection(1 .. m, Below(s[k]))
    BY <2>6 DEF ExistsBijection
  <2> HIDE DEF m
  <2>9. IsFiniteSet(1 .. m) /\ Cardinality(1 .. m) = m
    BY <2>7, FS_Interval
  <2>10. Cardinality(Below(s[k])) = m
    BY <2>8, <2>9, FS_Bijection
  <2> QED
    BY <2>10 DEF m
<1>4. \A x, y \in S : Cardinality(Below(x)) = Cardinality(Below(y)) => x = y
  <2>1. ASSUME NEW x \in S, NEW y \in S, <<x, y>> \in R
        PROVE  Cardinality(Below(x)) # Cardinality(Below(y))
    <3>1. Cardinality(Below(x)) < Cardinality(Below(y))
      BY <2>1, LaterHasMoreBefore
    <3>2. Below(x) \in SUBSET S /\ Below(y) \in SUBSET S
      OBVIOUS
    <3>3. Cardinality(Below(x)) \in Nat /\ Cardinality(Below(y)) \in Nat
      BY <3>2, FS_Subset, FS_CardinalityType
    <3> QED
      BY <3>1, <3>3
  <2>2. \A x, y \in S : x # y => <<x, y>> \in R \/ <<y, x>> \in R
    BY DEF StrictOrderOn
  <2> HIDE DEF Below
  <2> QED
    BY <2>1, <2>2
<1>5. \A k \in 1 .. n : Listing(S, R)[k] = s[k]
  <2> TAKE k \in 1 .. n
  <2>1. s[k] \in S /\ Cardinality(Below(s[k])) = k - 1
    BY <1>3
  <2>2. Listing(S, R)[k] = CHOOSE x \in S : Cardinality(Below(x)) = k - 1
    BY DEF Listing
  <2> HIDE DEF Below, n
  <2> QED
    BY <1>4, <2>1, <2>2
<1>6. Listing(S, R) \in [1 .. n -> S]
  BY <1>5 DEF Listing
<1>7. s \in [1 .. n -> S]
  OBVIOUS
<1> DEFINE t == Listing(S, R)
<1>8. t \in [1 .. n -> S] /\ \A k \in 1 .. n : t[k] = s[k]
  BY <1>5, <1>6
<1> DEFINE D == 1 .. n
<1>9. /\ t \in [D -> S] /\ s \in [D -> S]
      /\ \A k \in D : t[k] = s[k]
  BY <1>7, <1>8
<1> HIDE DEF D, t
<1>10. t = [k \in D |-> t[k]] /\ s = [k \in D |-> s[k]]
  BY <1>9
<1>11. [k \in D |-> t[k]] = [k \in D |-> s[k]]
  BY <1>9
<1> QED
  BY <1>10, <1>11 DEF t

\* The order SyncTurnState lists by is strict on the participants that take
\* turns: their list positions differ, so every tie is broken.
DistinctSeats(c) ==
    \A i, j \in Present(c) : c.parts[i].seat = c.parts[j].seat => i = j

IsInjectiveSeq(s, S) ==
    /\ s \in Seq(S)
    /\ \A i, j \in DOMAIN s : s[i] = s[j] => i = j

LEMMA MergeIsStrict ==
    ASSUME NEW c \in Call, DistinctSeats(c), IsInjectiveSeq(c.order, Ids)
    PROVE  StrictOrderOn(Merge(c), Eligible(c))
<1> DEFINE frozen == Frozen(c)
           E == Eligible(c)
           Ahead(x, y) == \E i, j \in DOMAIN frozen :
                              i < j /\ frozen[i] = x /\ frozen[j] = y
           In(x) == x \in Range(frozen)
           Sorted(x, y) == SortsBefore(c.parts[x], c.parts[y])
           Precedes(x, y) == \/ Ahead(x, y)
                             \/ In(x) /\ ~In(y)
                             \/ ~In(x) /\ ~In(y) /\ Sorted(x, y)
<1>1. \A x, y \in E : <<x, y>> \in Merge(c) <=> Precedes(x, y)
  BY DEF Merge
<1>2. \A x \in E : /\ c.parts[x].roll \in Int /\ c.parts[x].name \in Nat
                   /\ c.parts[x].seat \in Nat /\ x \in Present(c)
  BY DEF Call, Participant, Eligible, Present
<1>3. /\ \A x \in E : ~Sorted(x, x)
      /\ \A x, y \in E : x # y => Sorted(x, y) \/ Sorted(y, x)
      /\ \A x, y, z \in E : Sorted(x, y) /\ Sorted(y, z) => Sorted(x, z)
  BY <1>2 DEF SortsBefore, DistinctSeats
<1>4. IsInjectiveSeq(frozen, Ids)
  BY DEF Frozen, IsInjectiveSeq
<1>5. DOMAIN frozen \subseteq Int
  BY <1>4 DEF IsInjectiveSeq
<1>6. /\ \A x : ~Ahead(x, x)
      /\ \A x, y : Ahead(x, y) => In(x) /\ In(y)
      /\ \A x, y : In(x) /\ In(y) /\ x # y => Ahead(x, y) \/ Ahead(y, x)
      /\ \A x, y, z : Ahead(x, y) /\ Ahead(y, z) => Ahead(x, z)
  BY <1>4, <1>5 DEF IsInjectiveSeq, Range
<1> HIDE DEF frozen, E, Ahead, In, Sorted
<1>7. /\ \A x \in E : ~Precedes(x, x)
      /\ \A x, y \in E : x # y => Precedes(x, y) \/ Precedes(y, x)
      /\ \A x, y, z \in E : Precedes(x, y) /\ Precedes(y, z) => Precedes(x, z)
  BY <1>3, <1>6
<1> HIDE DEF Precedes
<1>8. QED
  BY <1>1, <1>7 DEF StrictOrderOn, E

-----------------------------------------------------------------------------
\* rotateIDsToFront loses nobody, doubles nobody and puts x first.
LEMMA RotateKeepsOrder ==
    ASSUME NEW S, NEW s, IsInjectiveSeq(s, S), NEW x
    PROVE  /\ IsInjectiveSeq(RotateToFront(s, x), S)
           /\ Len(RotateToFront(s, x)) = Len(s)
           /\ Range(RotateToFront(s, x)) = Range(s)
           /\ x \in Range(s) => Head(RotateToFront(s, x)) = x
<1>1. CASE x \notin Range(s)
  BY <1>1 DEF RotateToFront
<1>2. CASE x \in Range(s)
  <2> DEFINE n == Len(s)
             k == PositionOf(x, s)
             t == RotateToFront(s, x)
             Origin(i) == IF i <= n - k + 1 THEN i + k - 1 ELSE i - (n - k + 1)
  <2>1. n \in Nat /\ DOMAIN s = 1 .. n /\ s \in Seq(S) /\ \A i \in 1 .. n : s[i] \in S
    BY DEF IsInjectiveSeq
  <2>2. k \in 1 .. n /\ s[k] = x
    BY <1>2, <2>1 DEF PositionOf, Range
  <2> DEFINE u == SubSeq(s, k, n)
             v == SubSeq(s, 1, k - 1)
  <2>3. t = u \o v
    BY <1>2 DEF RotateToFront
  <2> HIDE DEF k, n, t
  <2>4. /\ u \in Seq(S) /\ Len(u) = n - k + 1
        /\ \A i \in 1 .. n - k + 1 : u[i] = s[k + i - 1]
    BY <2>1, <2>2, SubSeqProperties
  <2>5. /\ v \in Seq(S) /\ Len(v) = k - 1
        /\ \A i \in 1 .. k - 1 : v[i] = s[i]
    BY <2>1, <2>2, SubSeqProperties
  <2> HIDE DEF u, v
  <2>6. /\ t \in Seq(S) /\ Len(t) = n
        /\ \A i \in 1 .. n : t[i] = IF i <= n - k + 1 THEN u[i]
                                     ELSE v[i - (n - k + 1)]
    <3>1. /\ t \in Seq(S) /\ Len(t) = Len(u) + Len(v)
          /\ \A i \in 1 .. Len(u) + Len(v) :
                t[i] = IF i <= Len(u) THEN u[i] ELSE v[i - Len(u)]
      BY <2>3, <2>4, <2>5, ConcatProperties
    <3>2. Len(u) + Len(v) = n
      BY <2>1, <2>2, <2>4, <2>5
    <3>3. QED
      BY <2>4, <3>1, <3>2
  <2>7. \A i \in 1 .. n : Origin(i) \in 1 .. n /\ t[i] = s[Origin(i)]
    <3> TAKE i \in 1 .. n
    <3>1. CASE i <= n - k + 1
      <4>1. t[i] = u[i] /\ i \in 1 .. n - k + 1 /\ Origin(i) = i + k - 1
        BY <2>1, <2>2, <2>6, <3>1
      <4>2. u[i] = s[k + i - 1] /\ k + i - 1 = i + k - 1 /\ i + k - 1 \in 1 .. n
        BY <2>1, <2>2, <2>4, <4>1
      <4>3. QED
        BY <4>1, <4>2
    <3>2. CASE i > n - k + 1
      <4>1. /\ t[i] = v[i - (n - k + 1)] /\ Origin(i) = i - (n - k + 1)
            /\ i - (n - k + 1) \in 1 .. k - 1
        BY <2>1, <2>2, <2>6, <3>2
      <4>2. v[i - (n - k + 1)] = s[i - (n - k + 1)]
        BY <2>5, <4>1
      <4>3. QED
        BY <2>1, <2>2, <4>1, <4>2
    <3>3. QED
      BY <2>1, <2>2, <3>1, <3>2
  <2>8. \A i, j \in 1 .. n : Origin(i) = Origin(j) => i = j
    BY <2>1, <2>2
  <2>9. \A m \in 1 .. n : \E i \in 1 .. n : Origin(i) = m
    <3> TAKE m \in 1 .. n
    <3>1. CASE m < k
      <4>1. m + (n - k + 1) \in 1 .. n /\ Origin(m + (n - k + 1)) = m
        BY <2>1, <2>2, <3>1
      <4>2. QED
        BY <4>1
    <3>2. CASE m >= k
      <4>1. m - k + 1 \in 1 .. n /\ Origin(m - k + 1) = m
        BY <2>1, <2>2, <3>2
      <4>2. QED
        BY <4>1
    <3>3. QED
      BY <2>1, <2>2, <3>1, <3>2
  <2>10. Origin(1) = k /\ 1 \in 1 .. n
    BY <2>1, <2>2
  <2> HIDE DEF Origin
  <2>11. DOMAIN t = 1 .. n
    BY <2>1, <2>6
  <2>12. \A i, j \in DOMAIN t : t[i] = t[j] => i = j
    BY <2>1, <2>7, <2>8, <2>11 DEF IsInjectiveSeq
  <2>13. Range(t) = Range(s)
    <3>1. \A y \in Range(t) : y \in Range(s)
      BY <2>1, <2>7, <2>11 DEF Range
    <3>2. \A y \in Range(s) : y \in Range(t)
      BY <2>1, <2>7, <2>9, <2>11 DEF Range
    <3>3. QED
      BY <3>1, <3>2
  <2>14. Head(t) = x
    BY <2>2, <2>6, <2>7, <2>10
  <2>15. QED
    BY <2>6, <2>12, <2>13, <2>14 DEF IsInjectiveSeq, t, n
<1>3. QED
  BY <1>1, <1>2

\* Who is in front already stays there, and who is not there moves nobody.
LEMMA RotateFirst ==
    ASSUME NEW S, NEW s, IsInjectiveSeq(s, S), NEW x,
           x \in Range(s) => s # <<>> /\ x = Head(s)
    PROVE  RotateToFront(s, x) = s
<1>1. CASE x \notin Range(s)
  BY <1>1 DEF RotateToFront
<1>2. CASE x \in Range(s)
  <2>1. s \in Seq(S) /\ Len(s) \in Nat /\ Len(s) >= 1 /\ s[1] = x /\ DOMAIN s = 1 .. Len(s)
    BY <1>2 DEF IsInjectiveSeq
  <2>2. PositionOf(x, s) = 1
    BY <2>1 DEF PositionOf, IsInjectiveSeq
  <2>3. RotateToFront(s, x) = SubSeq(s, 1, Len(s)) \o SubSeq(s, 1, 0)
    BY <1>2, <2>2 DEF RotateToFront
  <2>4. SubSeq(s, 1, Len(s)) = s /\ SubSeq(s, 1, 0) = <<>>
    BY <2>1
  <2> QED
    BY <2>1, <2>3, <2>4
<1> QED
  BY <1>1, <1>2

\* x is listed before y.
Before(s, x, y) == \E i, j \in DOMAIN s : i < j /\ s[i] = x /\ s[j] = y

\* What the listing of a call's participants is, before and after the rotation.
LEMMA MergedListsEligible ==
    ASSUME NEW c \in Call, IsFiniteSet(Present(c)), DistinctSeats(c),
           IsInjectiveSeq(c.order, Ids)
    PROVE  /\ IsInjectiveSeq(Listing(Eligible(c), Merge(c)), Ids)
           /\ IsListingOf(Listing(Eligible(c), Merge(c)), Eligible(c))
           /\ \A x, y \in Ids :
                 Before(Listing(Eligible(c), Merge(c)), x, y) => <<x, y>> \in Merge(c)
<1> DEFINE E == Eligible(c)
           merged == Listing(E, Merge(c))
<1>1. E \subseteq Ids /\ E \subseteq Present(c)
  BY DEF Eligible, Present
<1>2. IsFiniteSet(E) /\ StrictOrderOn(Merge(c), E)
  BY <1>1, FS_Subset, MergeIsStrict
<1> HIDE DEF E
<1>3. /\ Cardinality(E) \in Nat
      /\ merged \in [1 .. Cardinality(E) -> E]
      /\ \A i, j \in 1 .. Cardinality(E) : merged[i] = merged[j] => i = j
      /\ Range(merged) = E
      /\ \A i, j \in 1 .. Cardinality(E) : i < j => <<merged[i], merged[j]>> \in Merge(c)
  BY <1>2, ListingIsBijection
<1> HIDE DEF merged
<1>4. IsInjectiveSeq(merged, Ids) /\ Len(merged) = Cardinality(E)
  BY <1>1, <1>3 DEF IsInjectiveSeq
<1>5. \A x, y \in Ids : Before(merged, x, y) => <<x, y>> \in Merge(c)
  BY <1>3 DEF Before
<1> QED
  BY <1>3, <1>4, <1>5 DEF IsListingOf, E, merged

LEMMA TurnOrderListsEligible ==
    ASSUME NEW c \in Call, IsFiniteSet(Present(c)), DistinctSeats(c),
           IsInjectiveSeq(c.order, Ids), c.status = "open"
    PROVE  /\ IsInjectiveSeq(TurnOrderIds(c), Ids)
           /\ IsListingOf(TurnOrderIds(c), Eligible(c))
<1> DEFINE merged == Listing(Eligible(c), Merge(c))
<1>1. IsInjectiveSeq(merged, Ids) /\ IsListingOf(merged, Eligible(c))
  BY MergedListsEligible
<1>2. TurnOrderIds(c) = IF c.started THEN RotateToFront(merged, c.current)
                        ELSE merged
  BY DEF TurnOrderIds
<1> HIDE DEF merged
<1> QED
  BY <1>1, <1>2, RotateKeepsOrder DEF IsListingOf

\* A call whose list positions differ, and whose order names nobody twice.
Orderly(c) ==
    /\ c \in Call
    /\ IsFiniteSet(Present(c))
    /\ DistinctSeats(c)
    /\ \A i \in Present(c) : c.parts[i].seat <= c.seats
    /\ IsInjectiveSeq(c.order, Ids)

\* SyncTurnState brings every open orderly call in sync, and leaves alone
\* everything but the order and the turn.
LEMMA SyncBringsInSync ==
    ASSUME NEW c, Orderly(c), c.status = "open"
    PROVE  /\ Orderly(SyncTurnState(c)) /\ TurnStateInSync(SyncTurnState(c))
           /\ SyncTurnState(c) = [c EXCEPT !.order = SyncTurnState(c).order,
                                          !.current = SyncTurnState(c).current]
<1> DEFINE ids == TurnOrderIds(c)
           d == SyncTurnState(c)
<1>1. IsInjectiveSeq(ids, Ids) /\ IsListingOf(ids, Eligible(c))
  BY TurnOrderListsEligible DEF Orderly
<1>2. d = [c EXCEPT !.order = ids,
                    !.current = IF ids = <<>> THEN NoId ELSE Head(ids)]
  BY DEF SyncTurnState
<1> HIDE DEF ids, d
<1>3. (IF ids = <<>> THEN NoId ELSE Head(ids)) \in Ids \cup {NoId}
  BY <1>1 DEF IsInjectiveSeq
<1>4. /\ d \in Call /\ d.order = ids /\ d.parts = c.parts /\ d.seats = c.seats
      /\ d.current = IF ids = <<>> THEN NoId ELSE Head(ids)
  BY <1>1, <1>2, <1>3 DEF Orderly, Call, IsInjectiveSeq
<1>5. Present(d) = Present(c) /\ Eligible(d) = Eligible(c)
  BY <1>4 DEF Present, Eligible
<1>6. Orderly(d)
  BY <1>1, <1>4, <1>5 DEF Orderly, DistinctSeats
<1>7. TurnStateInSync(d)
  BY <1>1, <1>4, <1>5 DEF TurnStateInSync
<1>8. d = [c EXCEPT !.order = d.order, !.current = d.current]
  BY <1>2, <1>4
<1>9. QED
  BY <1>6, <1>7, <1>8 DEF d

\* Who takes turns, and in which order, depends on the participants and the
\* frozen order alone.
LEMMA MergeDependsOn ==
    ASSUME NEW c, NEW d, d.parts = c.parts, Frozen(d) = Frozen(c)
    PROVE  /\ Present(d) = Present(c) /\ Eligible(d) = Eligible(c)
           /\ Merge(d) = Merge(c)
<1>1. Present(d) = Present(c) /\ Eligible(d) = Eligible(c)
  BY DEF Present, Eligible
<1>2. Merge(d) = Merge(c)
  BY <1>1 DEF Merge
<1> QED
  BY <1>1, <1>2

\* Before the first turn has ended the order is the sorted one.
SortedUnlessStarted(c) == ~c.started => c.order = Listing(Eligible(c), Merge(c))

LEMMA SortedDependsOn ==
    ASSUME NEW c, NEW d, d.parts = c.parts, d.order = c.order, d.started = c.started,
           SortedUnlessStarted(c)
    PROVE  SortedUnlessStarted(d)
<1>1. Frozen(d) = Frozen(c)
  BY DEF Frozen
<1>2. Eligible(d) = Eligible(c) /\ Merge(d) = Merge(c)
  BY <1>1, MergeDependsOn
<1> QED
  BY <1>2 DEF SortedUnlessStarted

LEMMA SyncSorts ==
    ASSUME NEW c, Orderly(c), c.status = "open"
    PROVE  SortedUnlessStarted(SyncTurnState(c))
<1> DEFINE d == SyncTurnState(c)
<1> SUFFICES ASSUME ~d.started PROVE d.order = Listing(Eligible(d), Merge(d))
  BY DEF SortedUnlessStarted
<1>1. /\ d.parts = c.parts /\ d.started = c.started /\ d.order = TurnOrderIds(c)
  BY DEF SyncTurnState, Orderly, Call
<1> HIDE DEF d
<1>2. Frozen(d) = Frozen(c)
  BY <1>1 DEF Frozen
<1>3. Eligible(d) = Eligible(c) /\ Merge(d) = Merge(c)
  BY <1>1, <1>2, MergeDependsOn
<1> QED
  BY <1>1, <1>3 DEF TurnOrderIds

\* In a running cycle, those who take turns are listed in the frozen order.
LEMMA FrozenIsListing ==
    ASSUME NEW c, Orderly(c), c.started, IsListingOf(c.order, Eligible(c))
    PROVE  c.order = Listing(Eligible(c), Merge(c))
<1> DEFINE E == Eligible(c)
           s == c.order
<1>1. IsFiniteSet(E) /\ StrictOrderOn(Merge(c), E)
  <2>1. E \subseteq Present(c)
    BY DEF Eligible
  <2> QED
    BY <2>1, FS_Subset, MergeIsStrict DEF Orderly
<1>2. s \in [1 .. Cardinality(E) -> E] /\ Range(s) = E
  BY DEF IsListingOf, Orderly, IsInjectiveSeq, Range
<1>3. ASSUME NEW i \in 1 .. Cardinality(E), NEW j \in 1 .. Cardinality(E), i < j
      PROVE  <<s[i], s[j]>> \in Merge(c)
  <2>1. s[i] \in E /\ s[j] \in E /\ i \in DOMAIN s /\ j \in DOMAIN s
    BY <1>2
  <2> QED
    BY <1>3, <2>1 DEF Merge, Frozen
<1> QED
  BY <1>1, <1>2, <1>3, SortedIsListing

\* What is in sync is derived again as it is.
LEMMA SyncIsStable ==
    ASSUME NEW c, Orderly(c), TurnStateInSync(c), SortedUnlessStarted(c),
           c.status = "open"
    PROVE  SyncTurnState(c) = c
<1>1. c.order = Listing(Eligible(c), Merge(c))
  BY FrozenIsListing DEF TurnStateInSync, SortedUnlessStarted
<1>2. c.current \in Range(c.order) => c.order # <<>> /\ c.current = Head(c.order)
  <2>1. \A i \in Range(c.order) : i \in Ids
    BY DEF Orderly, IsInjectiveSeq, Range
  <2> QED
    BY <2>1, NoIdAssumption DEF TurnStateInSync
<1>3. RotateToFront(c.order, c.current) = c.order
  BY <1>2, RotateFirst DEF Orderly
<1>4. TurnOrderIds(c) = c.order
  BY <1>1, <1>3 DEF TurnOrderIds
<1> QED
  BY <1>4 DEF SyncTurnState, TurnStateInSync, Orderly, Call

\* In an open call that is in sync, the turn is with the first of the order the
\* handlers derive from it.
LEMMA DerivedHeadIsCurrent ==
    ASSUME NEW c, Orderly(c), TurnStateInSync(c), SortedUnlessStarted(c),
           c.status = "open", TurnOrderIds(c) # <<>>
    PROVE  Head(TurnOrderIds(c)) = c.current
<1> DEFINE ids == TurnOrderIds(c)
           merged == Listing(Eligible(c), Merge(c))
<1>1. IsInjectiveSeq(ids, Ids) /\ IsListingOf(ids, Eligible(c))
  BY TurnOrderListsEligible DEF Orderly
<1>2. c.order \in Seq(Ids) /\ ids \in Seq(Ids)
  BY <1>1 DEF Orderly, IsInjectiveSeq
<1>3. Len(c.order) = Len(ids) /\ Range(c.order) = Range(ids)
  BY <1>1 DEF TurnStateInSync, IsListingOf
<1>4. c.order # <<>> /\ c.current = Head(c.order) /\ c.current \in Range(c.order)
  BY <1>2, <1>3 DEF TurnStateInSync, Range
<1>5. CASE ~c.started
  BY <1>4, <1>5 DEF TurnOrderIds, SortedUnlessStarted
<1>6. CASE c.started
  <2>1. ids = RotateToFront(merged, c.current)
    BY <1>6 DEF TurnOrderIds
  <2>2. IsInjectiveSeq(merged, Ids)
    BY MergedListsEligible DEF Orderly
  <2> HIDE DEF merged
  <2>3. c.current \in Range(merged)
    BY <1>3, <1>4, <2>1, <2>2, RotateKeepsOrder
  <2> QED
    BY <2>1, <2>2, <2>3, RotateKeepsOrder
<1> QED
  BY <1>5, <1>6

-----------------------------------------------------------------------------
(***************************************************************************)
(* What each handler does to a call keeps the call orderly: its list       *)
(* positions stay distinct and its order names nobody twice.  Together with*)
(* SyncBringsInSync this is what the stored document rests on.             *)
(***************************************************************************)
\* Dropping one id closes up the places behind it.
LEMMA WithoutSkipsOne ==
    ASSUME NEW S, NEW s, IsInjectiveSeq(s, S), NEW x \in Range(s)
    PROVE  LET n == Len(s)
               k == PositionOf(x, s)
               t == Without(s, x)
               Origin(i) == IF i < k THEN i ELSE i + 1
           IN  /\ t \in Seq(S)
               /\ DOMAIN t = 1 .. n - 1
               /\ \A i \in 1 .. n - 1 : Origin(i) \in 1 .. n /\ t[i] = s[Origin(i)]
<1> DEFINE n == Len(s)
           k == PositionOf(x, s)
           t == Without(s, x)
           u == SubSeq(s, 1, k - 1)
           v == SubSeq(s, k + 1, n)
           Origin(i) == IF i < k THEN i ELSE i + 1
<1>1. n \in Nat /\ DOMAIN s = 1 .. n /\ s \in Seq(S) /\ \A i \in 1 .. n : s[i] \in S
  BY DEF IsInjectiveSeq
<1>2. k \in 1 .. n
  BY <1>1 DEF PositionOf, Range
<1>3. t = u \o v
  BY DEF Without
<1> HIDE DEF k, n, t
<1>4. /\ u \in Seq(S) /\ Len(u) = k - 1
      /\ \A i \in 1 .. k - 1 : u[i] = s[i]
  BY <1>1, <1>2, SubSeqProperties
<1>5. /\ v \in Seq(S) /\ Len(v) = n - k
      /\ \A i \in 1 .. n - k : v[i] = s[k + i]
  <2>1. \A i \in k + 1 .. n : s[i] \in S
    BY <1>1, <1>2
  <2>2. /\ v \in Seq(S)
        /\ Len(v) = IF k + 1 <= n THEN n - (k + 1) + 1 ELSE 0
        /\ \A i \in 1 .. n - (k + 1) + 1 : v[i] = s[(k + 1) + i - 1]
    BY <1>1, <1>2, <2>1, SubSeqProperties
  <2>3. \A i \in 1 .. n - k : (k + 1) + i - 1 = k + i
    BY <1>1, <1>2
  <2>4. QED
    BY <1>1, <1>2, <2>2, <2>3
<1> HIDE DEF u, v
<1>6. /\ t \in Seq(S) /\ Len(t) = Len(u) + Len(v)
      /\ \A i \in 1 .. Len(u) + Len(v) :
            t[i] = IF i <= Len(u) THEN u[i] ELSE v[i - Len(u)]
  BY <1>3, <1>4, <1>5, ConcatProperties
<1>7. DOMAIN t = 1 .. n - 1
  BY <1>1, <1>2, <1>4, <1>5, <1>6
<1>8. \A i \in 1 .. n - 1 : Origin(i) \in 1 .. n /\ t[i] = s[Origin(i)]
  <2> TAKE i \in 1 .. n - 1
  <2>1. CASE i < k
    BY <1>1, <1>2, <1>4, <1>5, <1>6, <2>1
  <2>2. CASE i >= k
    <3>1. t[i] = v[i - (k - 1)] /\ i - (k - 1) \in 1 .. n - k
      BY <1>1, <1>2, <1>4, <1>5, <1>6, <2>2
    <3>2. v[i - (k - 1)] = s[k + (i - (k - 1))] /\ k + (i - (k - 1)) = i + 1
      BY <1>1, <1>2, <1>5, <3>1
    <3>3. QED
      BY <1>1, <1>2, <2>2, <3>1, <3>2
  <2>3. QED
    BY <1>1, <1>2, <2>1, <2>2
<1>9. QED
  BY <1>6, <1>7, <1>8 DEF t, n, k

\* Dropping one id from an order without duplicates leaves no duplicates.
LEMMA WithoutKeepsOrder ==
    ASSUME NEW S, NEW s, IsInjectiveSeq(s, S), NEW x
    PROVE  IsInjectiveSeq(Without(s, x), S)
<1>1. CASE x \notin Range(s)
  BY <1>1 DEF Without
<1>2. CASE x \in Range(s)
  <2> DEFINE n == Len(s)
             k == PositionOf(x, s)
             t == Without(s, x)
             Origin(i) == IF i < k THEN i ELSE i + 1
  <2>1. n \in Nat /\ DOMAIN s = 1 .. n /\ k \in 1 .. n
    BY <1>2 DEF IsInjectiveSeq, PositionOf, Range
  <2>2. /\ t \in Seq(S) /\ DOMAIN t = 1 .. n - 1
        /\ \A i \in 1 .. n - 1 : Origin(i) \in 1 .. n /\ t[i] = s[Origin(i)]
    BY <1>2, WithoutSkipsOne
  <2> HIDE DEF n, k, t
  <2>3. \A i, j \in 1 .. n - 1 : Origin(i) = Origin(j) => i = j
    BY <2>1
  <2> HIDE DEF Origin
  <2>4. \A i, j \in DOMAIN t : t[i] = t[j] => i = j
    BY <2>1, <2>2, <2>3 DEF IsInjectiveSeq
  <2>5. QED
    BY <2>2, <2>4 DEF IsInjectiveSeq, t
<1>3. QED
  BY <1>1, <1>2

\* Dropping one id drops no other and leaves the others in their order.
LEMMA WithoutKeepsPlaces ==
    ASSUME NEW S, NEW s, IsInjectiveSeq(s, S), NEW x
    PROVE  /\ \A y \in S : y # x => (y \in Range(Without(s, x)) <=> y \in Range(s))
           /\ \A y, z \in S : y # x /\ z # x
                 => (Before(Without(s, x), y, z) <=> Before(s, y, z))
<1>1. CASE x \notin Range(s)
  BY <1>1 DEF Without
<1>2. CASE x \in Range(s)
  <2> DEFINE n == Len(s)
             k == PositionOf(x, s)
             t == Without(s, x)
             Origin(i) == IF i < k THEN i ELSE i + 1
             Place(i) == IF i < k THEN i ELSE i - 1
  <2>1. n \in Nat /\ DOMAIN s = 1 .. n
    BY DEF IsInjectiveSeq
  <2>2. k \in 1 .. n /\ s[k] = x
    BY <1>2, <2>1 DEF PositionOf, Range
  <2>3. /\ DOMAIN t = 1 .. n - 1
        /\ \A i \in 1 .. n - 1 : Origin(i) \in 1 .. n /\ t[i] = s[Origin(i)]
    BY <1>2, WithoutSkipsOne
  <2> HIDE DEF n, k, t
  <2>4. \A i, j \in 1 .. n - 1 : i < j => Origin(i) < Origin(j)
    BY <2>1, <2>2
  <2>5. \A i \in 1 .. n : s[i] # x => Place(i) \in 1 .. n - 1 /\ t[Place(i)] = s[i]
    <3> TAKE i \in 1 .. n
    <3> HAVE s[i] # x
    <3>1. i # k
      BY <2>2
    <3>2. Place(i) \in 1 .. n - 1 /\ Origin(Place(i)) = i
      BY <2>1, <2>2, <3>1
    <3> QED
      BY <2>3, <3>2
  <2>6. \A i, j \in 1 .. n : i < j /\ i # k /\ j # k => Place(i) < Place(j)
    BY <2>1, <2>2
  <2> HIDE DEF Origin, Place
  <2>7. \A y \in S : y # x => (y \in Range(t) <=> y \in Range(s))
    BY <2>1, <2>3, <2>5 DEF Range
  <2>8. \A y, z \in S : y # x /\ z # x /\ Before(t, y, z) => Before(s, y, z)
    BY <2>1, <2>3, <2>4 DEF Before
  <2>9. \A y, z \in S : y # x /\ z # x /\ Before(s, y, z) => Before(t, y, z)
    BY <2>1, <2>2, <2>3, <2>5, <2>6 DEF Before
  <2> QED
    BY <2>7, <2>8, <2>9 DEF t
<1> QED
  BY <1>1, <1>2

\* Ending a turn moves the first to the end.
NextTurn(s) == Tail(s) \o <<Head(s)>>

LEMMA NextTurnPlaces ==
    ASSUME NEW S, NEW s \in Seq(S), s # <<>>
    PROVE  /\ Len(NextTurn(s)) = Len(s) /\ NextTurn(s) \in Seq(S)
           /\ \A i \in 1 .. Len(s) :
                 NextTurn(s)[i] = s[IF i < Len(s) THEN i + 1 ELSE 1]
<1> DEFINE n == Len(s)
           h == <<Head(s)>>
           r == Tail(s)
           t == r \o h
<1>1. n \in Nat /\ n >= 1 /\ \A i \in 1 .. n : s[i] \in S
  OBVIOUS
<1>2. h \in Seq(S) /\ Len(h) = 1 /\ h[1] = s[1]
  BY <1>1
<1>3. r \in Seq(S) /\ Len(r) = n - 1 /\ \A i \in 1 .. n - 1 : r[i] = s[i + 1]
  BY <1>1, HeadTailProperties
<1> HIDE DEF n, h, r
<1>4. /\ t \in Seq(S) /\ Len(t) = Len(r) + Len(h)
      /\ \A i \in 1 .. Len(r) + Len(h) :
            t[i] = IF i <= Len(r) THEN r[i] ELSE h[i - Len(r)]
  BY <1>2, <1>3, ConcatProperties
<1> HIDE DEF t
<1>5. Len(t) = n
  BY <1>1, <1>2, <1>3, <1>4
<1>6. ASSUME NEW i \in 1 .. n
      PROVE  t[i] = s[IF i < n THEN i + 1 ELSE 1]
  <2>1. CASE i < n
    <3>1. i <= Len(r) /\ i \in 1 .. n - 1 /\ i \in 1 .. Len(r) + Len(h)
      BY <1>1, <1>2, <1>3, <2>1
    <3> QED
      BY <1>3, <1>4, <2>1, <3>1
  <2>2. CASE i = n
    <3>1. /\ ~(i <= Len(r)) /\ i \in 1 .. Len(r) + Len(h) /\ i - Len(r) = 1
          /\ ~(i < n)
      BY <1>1, <1>2, <1>3, <2>2
    <3> QED
      BY <1>2, <1>4, <3>1
  <2> QED
    BY <1>1, <2>1, <2>2
<1> QED
  BY <1>4, <1>5, <1>6 DEF NextTurn, t, r, h, n

\* It leaves no duplicates.
LEMMA NextTurnKeepsOrder ==
    ASSUME NEW S, NEW s, IsInjectiveSeq(s, S), s # <<>>
    PROVE  IsInjectiveSeq(NextTurn(s), S) /\ Head(NextTurn(s)) \in S
<1> DEFINE n == Len(s)
           t == NextTurn(s)
           Origin(i) == IF i < n THEN i + 1 ELSE 1
<1>1. /\ n \in Nat /\ n >= 1 /\ DOMAIN s = 1 .. n /\ s \in Seq(S)
      /\ \A i \in 1 .. n : s[i] \in S
  BY DEF IsInjectiveSeq
<1>2. /\ t \in Seq(S) /\ Len(t) = n
      /\ \A i \in 1 .. n : Origin(i) \in 1 .. n /\ t[i] = s[Origin(i)]
  BY <1>1, NextTurnPlaces
<1> HIDE DEF n, t
<1>3. \A i, j \in 1 .. n : Origin(i) = Origin(j) => i = j
  BY <1>1
<1> HIDE DEF Origin
<1>4. \A i, j \in DOMAIN t : t[i] = t[j] => i = j
  BY <1>1, <1>2, <1>3 DEF IsInjectiveSeq
<1>5. Head(t) \in S
  BY <1>1, <1>2
<1> QED
  BY <1>2, <1>4, <1>5 DEF IsInjectiveSeq, t

-----------------------------------------------------------------------------
\* What a mutate closure returns: an orderly call, open or resolved as before.
Kept(d, c) == /\ Orderly(d)
              /\ d.status = c.status
              /\ d.expires = c.expires
              /\ d.enc = c.enc

\* Changing one participant without moving it keeps a call orderly.
LEMMA ChangeKeepsOrderly ==
    ASSUME NEW c, Orderly(c), NEW x \in Present(c), NEW p \in Participant,
           p.seat = c.parts[x].seat
    PROVE  Kept([c EXCEPT !.parts = [c.parts EXCEPT ![x] = p]], c)
<1> DEFINE parts == [c.parts EXCEPT ![x] = p]
           d == [c EXCEPT !.parts = parts]
<1>1. c.parts \in [Ids -> Participant \cup {Absent}] /\ x \in Ids
  BY DEF Orderly, Call, Present
<1>2. p # Absent /\ c.parts[x] # Absent
  BY AbsentAssumption DEF Present
<1>3. /\ parts \in [Ids -> Participant \cup {Absent}]
      /\ \A i \in Ids : parts[i] = Absent <=> c.parts[i] = Absent
      /\ \A i \in Present(c) : parts[i].seat = c.parts[i].seat
  BY <1>1, <1>2 DEF Present
<1> HIDE DEF parts
<1>4. /\ d \in Call /\ d.parts = parts /\ d.order = c.order /\ d.seats = c.seats
      /\ d.status = c.status /\ d.expires = c.expires /\ d.enc = c.enc
  BY <1>3 DEF Orderly, Call
<1> HIDE DEF d
<1>5. Present(d) = Present(c)
  BY <1>3, <1>4 DEF Present
<1>6. QED
  BY <1>3, <1>4, <1>5 DEF Kept, Orderly, DistinctSeats, d, parts

LEMMA PresentIsParticipant ==
    ASSUME NEW c, Orderly(c), NEW x \in Present(c)
    PROVE  c.parts[x] \in Participant
BY DEF Orderly, Call, Present

LEMMA SubmitRollOrderly ==
    ASSUME NEW c, Orderly(c), NEW r \in Request, r.target \in Present(c)
    PROVE  Kept(SubmitRoll(c, r), c)
<1> DEFINE p == [c.parts[r.target] EXCEPT !.roll = r.roll]
<1>1. p \in Participant /\ p.seat = c.parts[r.target].seat
  <2>1. c.parts[r.target] \in Participant
    BY PresentIsParticipant
  <2>2. QED
    BY <2>1 DEF Participant, Request
<1>2. SubmitRoll(c, r) = [c EXCEPT !.parts = [c.parts EXCEPT ![r.target] = p]]
  BY DEF SubmitRoll, Orderly, Call, Present
<1> HIDE DEF p
<1>3. QED
  BY <1>1, <1>2, ChangeKeepsOrderly

LEMMA SetEnemyOrderly ==
    ASSUME NEW c, Orderly(c), NEW r \in Request, r.target \in Present(c)
    PROVE  Kept(SetEnemy(c, r), c)
<1> DEFINE p == [c.parts[r.target] EXCEPT !.roll = r.roll, !.name = r.name]
<1>1. p \in Participant /\ p.seat = c.parts[r.target].seat
  <2>1. c.parts[r.target] \in Participant
    BY PresentIsParticipant
  <2>2. QED
    BY <2>1 DEF Participant, Request
<1>2. SetEnemy(c, r) = [c EXCEPT !.parts = [c.parts EXCEPT ![r.target] = p]]
  BY DEF SetEnemy, Orderly, Call, Present
<1> HIDE DEF p
<1>3. QED
  BY <1>1, <1>2, ChangeKeepsOrderly

LEMMA SetSkippedOrderly ==
    ASSUME NEW c, Orderly(c), NEW r \in Request, r.target \in Present(c)
    PROVE  Kept(SetSkipped(c, r), c)
<1> DEFINE p == [c.parts[r.target] EXCEPT !.skipped = r.skip]
<1>1. p \in Participant /\ p.seat = c.parts[r.target].seat
  <2>1. c.parts[r.target] \in Participant
    BY PresentIsParticipant
  <2>2. QED
    BY <2>1 DEF Participant, Request
<1>2. SetSkipped(c, r) = [c EXCEPT !.parts = [c.parts EXCEPT ![r.target] = p]]
  BY DEF SetSkipped, Orderly, Call, Present
<1> HIDE DEF p
<1>3. QED
  BY <1>1, <1>2, ChangeKeepsOrderly

\* The new participant takes a place nobody has had.
LEMMA AddEnemyOrderly ==
    ASSUME NEW c, Orderly(c), NEW r \in Request, NEW id \in Ids,
           id \notin Present(c)
    PROVE  Kept(AddEnemy(c, r, id), c)
<1> DEFINE enemy == [kind |-> "enemy", name |-> r.name, roll |-> r.roll,
                     skipped |-> FALSE, seat |-> c.seats + 1]
           parts == [c.parts EXCEPT ![id] = enemy]
           seats == c.seats + 1
           d == AddEnemy(c, r, id)
<1>1. c.parts \in [Ids -> Participant \cup {Absent}] /\ c.seats \in Nat
  BY DEF Orderly, Call
<1>2. enemy \in Participant /\ enemy.seat = c.seats + 1
  BY <1>1 DEF Participant, Request
<1>3. enemy # Absent
  BY <1>2, AbsentAssumption
<1>4. d = [c EXCEPT !.parts = parts, !.seats = seats] /\ seats \in Nat
  BY <1>1 DEF AddEnemy, Orderly, Call
<1> HIDE DEF enemy, d
<1>5. /\ parts \in [Ids -> Participant \cup {Absent}]
      /\ parts[id] = enemy /\ \A i \in Ids \ {id} : parts[i] = c.parts[i]
  BY <1>1, <1>2
<1> HIDE DEF parts, seats
<1>6. /\ d \in Call /\ d.parts = parts /\ d.seats = seats
      /\ d.order = c.order
      /\ d.status = c.status /\ d.expires = c.expires /\ d.enc = c.enc
  BY <1>1, <1>4, <1>5 DEF Orderly, Call
<1>7. Present(d) = Present(c) \cup {id}
  BY <1>3, <1>5, <1>6 DEF Present
<1>8. IsFiniteSet(Present(d))
  BY <1>7, FS_AddElement DEF Orderly
<1>9. \A i \in Present(c) : /\ d.parts[i] = c.parts[i]
                            /\ d.parts[i].seat \in Nat
                            /\ d.parts[i].seat <= c.seats
  BY <1>1, <1>5, <1>6 DEF Orderly, Present, Participant
<1>10. d.parts[id].seat = c.seats + 1 /\ d.seats = c.seats + 1
  BY <1>2, <1>5, <1>6 DEF seats
<1>11. \A i \in Present(d) : d.parts[i].seat <= d.seats
  BY <1>1, <1>6, <1>7, <1>9, <1>10
<1>12. DistinctSeats(d)
  BY <1>1, <1>7, <1>9, <1>10 DEF DistinctSeats, Orderly
<1>13. QED
  BY <1>6, <1>8, <1>11, <1>12 DEF Kept, Orderly, d

LEMMA PassTurnOrderly ==
    ASSUME NEW c, Orderly(c), c.status = "open", TurnOrderIds(c) # <<>>
    PROVE  Kept(PassTurn(c), c)
<1> DEFINE ids == TurnOrderIds(c)
           next == NextTurn(ids)
           d == PassTurn(c)
<1>1. IsInjectiveSeq(next, Ids) /\ Head(next) \in Ids
  BY TurnOrderListsEligible, NextTurnKeepsOrder DEF Orderly
<1>2. d = [c EXCEPT !.order = next, !.current = Head(next), !.started = TRUE]
  BY DEF PassTurn, NextTurn
<1> HIDE DEF next, d
<1>3. /\ d \in Call /\ d.parts = c.parts /\ d.order = next /\ d.seats = c.seats
      /\ d.status = c.status /\ d.expires = c.expires /\ d.enc = c.enc
  BY <1>1, <1>2 DEF Orderly, Call, IsInjectiveSeq
<1>4. Present(d) = Present(c)
  BY <1>3 DEF Present
<1>5. QED
  BY <1>1, <1>3, <1>4 DEF Kept, Orderly, DistinctSeats, d

LEMMA DropOrderOrderly ==
    ASSUME NEW c, Orderly(c)
    PROVE  Kept(DropOrder(c), c)
<1> DEFINE d == DropOrder(c)
<1>1. /\ d \in Call /\ d.parts = c.parts /\ d.order = <<>> /\ d.seats = c.seats
      /\ d.status = c.status /\ d.expires = c.expires /\ d.enc = c.enc
  BY EmptySeq DEF Orderly, Call, DropOrder
<1> HIDE DEF d
<1>2. Present(d) = Present(c)
  BY <1>1 DEF Present
<1>3. QED
  BY <1>1, <1>2 DEF Kept, Orderly, DistinctSeats, IsInjectiveSeq, d

LEMMA RemoveEnemyOrderly ==
    ASSUME NEW c, Orderly(c), NEW r \in Request
    PROVE  Kept(RemoveEnemy(c, r), c)
<1> DEFINE parts == [c.parts EXCEPT ![r.target] = Absent]
           order == Without(c.order, r.target)
           current == IF c.current = r.target THEN NoId ELSE c.current
           d == RemoveEnemy(c, r)
<1>1. c.parts \in [Ids -> Participant \cup {Absent}] /\ r.target \in Ids
  BY DEF Orderly, Call, Request
<1>2. IsInjectiveSeq(order, Ids)
  BY WithoutKeepsOrder DEF Orderly
<1>3. current \in Ids \cup {NoId}
  BY DEF Orderly, Call
<1>4. d = [c EXCEPT !.parts = parts, !.order = order, !.current = current]
  BY <1>1 DEF RemoveEnemy, Orderly, Call
<1>5. parts \in [Ids -> Participant \cup {Absent}]
  BY <1>1
<1>6. /\ parts[r.target] = Absent
      /\ \A i \in Ids \ {r.target} : parts[i] = c.parts[i]
  BY <1>1
<1> HIDE DEF parts, order, current, d
<1>7. /\ d \in Call /\ d.parts = parts /\ d.order = order /\ d.seats = c.seats
      /\ d.status = c.status /\ d.expires = c.expires /\ d.enc = c.enc
  BY <1>2, <1>3, <1>4, <1>5 DEF Orderly, Call, IsInjectiveSeq
<1>8. /\ Present(d) \subseteq Present(c)
      /\ \A i \in Present(d) : d.parts[i] = c.parts[i]
  BY <1>6, <1>7 DEF Present
<1>9. IsFiniteSet(Present(d))
  BY <1>8, FS_Subset DEF Orderly
<1>10. QED
  BY <1>2, <1>7, <1>8, <1>9 DEF Kept, Orderly, DistinctSeats, d

\* Start's call: the roster in its listed places, nobody rolled yet.
LEMMA FreshCallOrderly ==
    ASSUME NEW e \in Encounters
    PROVE  /\ Orderly(FreshCall(e)) /\ TurnStateInSync(FreshCall(e))
           /\ SortedUnlessStarted(FreshCall(e))
           /\ FreshCall(e).status = "open" /\ ~FreshCall(e).expires
           /\ FreshCall(e).version = 1 /\ FreshCall(e).enc = e
<1> DEFINE d == FreshCall(e)
           person(i) == [kind |-> IF i \in PCs THEN "player" ELSE "enemy",
                         name |-> RosterName[i], roll |-> NoRoll,
                         skipped |-> FALSE, seat |-> RosterSeat[i]]
<1>1. \A i \in Roster : person(i) \in Participant /\ person(i).seat = RosterSeat[i]
                        /\ person(i).roll = NoRoll
  BY RosterAssumption DEF Participant
<1>2. \A i \in Roster : person(i) # Absent
  BY <1>1, AbsentAssumption
<1>3. /\ d.parts = [i \in Ids |-> IF i \in Roster THEN person(i) ELSE Absent]
      /\ d.order = <<>> /\ d.seats = RosterSize /\ d.status = "open"
      /\ d.current = NoId /\ d.version = 1 /\ d.enc = e /\ d.expires = FALSE
      /\ d.started = FALSE
  BY DEF FreshCall
<1> HIDE DEF person
<1>4. /\ d.parts \in [Ids -> Participant \cup {Absent}]
      /\ Present(d) = Roster
      /\ \A i \in Roster : d.parts[i] = person(i)
  BY <1>1, <1>2, <1>3, RosterAssumption DEF Present
<1> DEFINE parts == d.parts
<1>5. d = [enc |-> e, version |-> 1, status |-> "open", parts |-> parts,
           seats |-> RosterSize, order |-> <<>>, current |-> NoId,
           started |-> FALSE, expires |-> FALSE]
  BY DEF FreshCall
<1>6. d \in Call
  <2>1. parts \in [Ids -> Participant \cup {Absent}]
    BY <1>4
  <2> HIDE DEF d, parts
  <2>2. QED
    BY <1>5, <2>1, EmptySeq, RosterAssumption DEF Call
<1> HIDE DEF d
<1>7. Orderly(d)
  BY <1>1, <1>3, <1>4, <1>6, RosterAssumption
     DEF Orderly, DistinctSeats, IsInjectiveSeq
<1>8. Eligible(d) = {}
  BY <1>1, <1>4 DEF Eligible
<1>9. TurnStateInSync(d)
  BY <1>3, <1>8, FS_EmptySet DEF TurnStateInSync, IsListingOf, Range
<1>10. SortedUnlessStarted(d)
  <2>1. Cardinality({}) = 0 /\ 1 .. 0 = {}
    BY FS_EmptySet
  <2>2. Listing({}, Merge(d)) = <<>>
    BY <2>1 DEF Listing
  <2> QED
    BY <1>3, <1>8, <2>2 DEF SortedUnlessStarted
<1>11. QED
  BY <1>3, <1>7, <1>9, <1>10 DEF d

-----------------------------------------------------------------------------
(***************************************************************************)
(* Rounds.  The call after k ended turns has its order rotated by k, which *)
(* is shown by counting the turns; a round is counted by a recursive       *)
(* function, and the rotated calls are the function it chooses.            *)
(***************************************************************************)
\* Numbers from 0 on that are closed under the next one are all numbers.
LEMMA Counting ==
    ASSUME NEW T \in SUBSET Nat, 0 \in T, \A k \in T : k + 1 \in T
    PROVE  T = Nat
<1> DEFINE R == {e \in Nat \X Nat : e[1] < e[2]}
<1> SUFFICES ASSUME Nat \ T # {} PROVE FALSE
  OBVIOUS
<1>1. IsWellFoundedOn(R, Nat)
  BY NatLessThanWellFounded DEF OpToRel
<1>2. \A x, y \in Nat : <<x, y>> \in R <=> x < y
  OBVIOUS
<1> HIDE DEF R
<1>3. PICK x \in Nat \ T : \A y \in Nat \ T : ~(<<y, x>> \in R)
  BY <1>1, WFMin
<1>4. x # 0 /\ \A y \in Nat \ T : ~(y < x)
  BY <1>2, <1>3
<1>5. x - 1 \in Nat /\ x - 1 < x /\ x - 1 + 1 = x
  BY <1>4
<1>6. x - 1 \in T
  BY <1>4, <1>5
<1> QED
  BY <1>3, <1>5, <1>6

\* Remainders.
LEMMA RemainderSmall ==
    ASSUME NEW n \in Nat, n > 0
    PROVE  /\ \A k \in Nat : k % n \in 0 .. n - 1
           /\ \A k \in 0 .. n - 1 : k % n = k
OBVIOUS

LEMMA DivisionIsUnique ==
    ASSUME NEW n \in Nat, n > 0, NEW q \in Int, NEW p \in Int,
           NEW r \in 0 .. n - 1, NEW s \in 0 .. n - 1, n * q + r = n * p + s
    PROVE  r = s
<1>1. ~(q > p)
  <2> SUFFICES ASSUME q > p PROVE FALSE
    OBVIOUS
  <2> DEFINE d == q - p
  <2>1. d >= 1 /\ d \in Int /\ n * d = s - r
    OBVIOUS
  <2>2. n * d >= n
    BY <2>1
  <2> QED
    BY <2>1, <2>2
<1>2. ~(p > q)
  <2> SUFFICES ASSUME p > q PROVE FALSE
    OBVIOUS
  <2> DEFINE d == p - q
  <2>1. d >= 1 /\ d \in Int /\ n * d = r - s
    OBVIOUS
  <2>2. n * d >= n
    BY <2>1
  <2> QED
    BY <2>1, <2>2
<1> QED
  BY <1>1, <1>2

LEMMA RemainderRepeats ==
    ASSUME NEW n \in Nat, n > 0, NEW k \in Nat
    PROVE  (k + n) % n = k % n
<1>1. \A m \in Nat : m \div n \in Nat /\ m = n * (m \div n) + (m % n)
  OBVIOUS
<1> DEFINE q == k \div n
           p == (k + n) \div n
           r == k % n
           s == (k + n) % n
<1>2. /\ q \in Int /\ p \in Int /\ r \in 0 .. n - 1 /\ s \in 0 .. n - 1
      /\ k = n * q + r /\ k + n = n * p + s
  BY <1>1, RemainderSmall
<1> HIDE DEF q, p, r, s
<1>3. n * (q + 1) + r = n * p + s /\ q + 1 \in Int
  BY <1>2
<1>4. r = s
  BY <1>2, <1>3, DivisionIsUnique
<1> QED
  BY <1>4 DEF r, s

-----------------------------------------------------------------------------
\* The order s after k turns have ended.
Rotated(s, k) == [i \in 1 .. Len(s) |-> s[((i - 1 + k) % Len(s)) + 1]]

\* Rotating once more is ending one more turn, and a full turn is none.
LEMMA RotatedOnce ==
    ASSUME NEW S, NEW s \in Seq(S), s # <<>>, NEW k \in Nat
    PROVE  /\ Rotated(s, k) \in Seq(S) /\ Len(Rotated(s, k)) = Len(s)
           /\ Rotated(s, k) # <<>> /\ Head(Rotated(s, k)) = s[(k % Len(s)) + 1]
           /\ NextTurn(Rotated(s, k)) = Rotated(s, k + 1)
           /\ Rotated(s, 0) = s /\ Rotated(s, Len(s)) = s
<1> DEFINE n == Len(s)
           t == Rotated(s, k)
<1>1. n \in Nat /\ n > 0 /\ s \in [1 .. n -> S]
  OBVIOUS
<1>2. \A j \in Nat : /\ j % n \in 0 .. n - 1 /\ (j + n) % n = j % n
                     /\ ((j % n) + 1) \in 1 .. n
  <2> TAKE j \in Nat
  <2>1. j % n \in 0 .. n - 1 /\ (j + n) % n = j % n
    BY <1>1, RemainderSmall, RemainderRepeats
  <2> HIDE DEF n
  <2> QED
    BY <1>1, <2>1
<1>3. \A j \in Nat, i \in 1 .. n : /\ i - 1 + j \in Nat
                                   /\ s[((i - 1 + j) % n) + 1] \in S
  <2> TAKE j \in Nat, i \in 1 .. n
  <2>1. i - 1 + j \in Nat
    BY <1>1
  <2>2. (((i - 1 + j) % n) + 1) \in 1 .. n
    BY <1>2, <2>1
  <2> QED
    BY <1>1, <2>1, <2>2
<1>4. \A j \in Nat : /\ Rotated(s, j) \in [1 .. n -> S]
                     /\ \A i \in 1 .. n : Rotated(s, j)[i] = s[((i - 1 + j) % n) + 1]
  BY <1>3 DEF Rotated
<1> HIDE DEF n
<1>5. t \in Seq(S) /\ Len(t) = n /\ t # <<>>
  BY <1>1, <1>4
<1>6. Head(t) = s[(k % n) + 1]
  <2>1. 1 \in 1 .. n /\ 1 - 1 + k = k
    BY <1>1
  <2>2. t[1] = s[(k % n) + 1]
    BY <1>4, <2>1
  <2> QED
    BY <1>5, <2>2
<1>7. NextTurn(t) = Rotated(s, k + 1)
  <2> HIDE DEF t
  <2>1. /\ NextTurn(t) \in [1 .. n -> S]
        /\ \A i \in 1 .. n : NextTurn(t)[i] = t[IF i < n THEN i + 1 ELSE 1]
    BY <1>1, <1>5, NextTurnPlaces
  <2>2. ASSUME NEW i \in 1 .. n
        PROVE  NextTurn(t)[i] = Rotated(s, k + 1)[i]
    <3>1. Rotated(s, k + 1)[i] = s[((i + k) % n) + 1]
      <4>1. i - 1 + (k + 1) = i + k /\ k + 1 \in Nat
        BY <1>1
      <4> QED
        BY <1>4, <4>1
    <3>2. CASE i < n
      <4>1. i + 1 \in 1 .. n /\ i + 1 - 1 + k = i + k
        BY <1>1, <3>2
      <4>2. t[i + 1] = s[((i + k) % n) + 1]
        BY <1>4, <4>1 DEF t
      <4> QED
        BY <2>1, <3>1, <3>2, <4>2
    <3>3. CASE i = n
      <4>1. 1 \in 1 .. n /\ 1 - 1 + k = k /\ (k + n) % n = k % n /\ i + k = k + n
        BY <1>1, <1>2, <3>3
      <4>2. t[1] = s[(k % n) + 1]
        BY <1>4, <4>1 DEF t
      <4>3. NextTurn(t)[i] = t[1]
        BY <2>1, <3>3, <1>1
      <4> QED
        BY <3>1, <4>1, <4>2, <4>3
    <3> QED
      BY <1>1, <3>2, <3>3
  <2>3. k + 1 \in Nat
    OBVIOUS
  <2>4. Rotated(s, k + 1) \in [1 .. n -> S]
    BY <1>4, <2>3
  <2> DEFINE D == 1 .. n
             u == NextTurn(t)
             v == Rotated(s, k + 1)
  <2>5. u \in [D -> S] /\ v \in [D -> S] /\ \A i \in D : u[i] = v[i]
    BY <2>1, <2>2, <2>4
  <2> HIDE DEF D, u, v
  <2>6. u = v
    BY <2>5
  <2> QED
    BY <2>6 DEF u, v
<1>8. \A i \in 1 .. n : (((i - 1 + 0) % n) + 1) = i /\ (((i - 1 + n) % n) + 1) = i
  <2> TAKE i \in 1 .. n
  <2>1. i - 1 \in 0 .. n - 1 /\ i - 1 \in Nat
    BY <1>1
  <2>2. (i - 1) % n = i - 1 /\ (i - 1 + n) % n = i - 1
    BY <1>1, <1>2, <2>1, RemainderSmall
  <2> QED
    BY <2>1, <2>2
<1>9. Rotated(s, 0) = s /\ Rotated(s, n) = s
  <2>1. \A i \in 1 .. n : Rotated(s, 0)[i] = s[i] /\ Rotated(s, n)[i] = s[i]
    BY <1>1, <1>4, <1>8
  <2>2. Rotated(s, 0) \in [1 .. n -> S] /\ Rotated(s, n) \in [1 .. n -> S]
    BY <1>1, <1>4
  <2> QED
    BY <1>1, <2>1, <2>2
<1> QED
  BY <1>5, <1>6, <1>7, <1>9 DEF n

-----------------------------------------------------------------------------
\* What the tracker stores while somebody takes turns.
Running(c) ==
    /\ Orderly(c) /\ TurnStateInSync(c) /\ SortedUnlessStarted(c)
    /\ c.status = "open" /\ c.order # <<>>

\* Ending a turn moves the first to the end, syncs to itself, and that is all.
LEMMA EndingATurn ==
    ASSUME NEW c, Running(c)
    PROVE  /\ Running(SyncTurnState(PassTurn(c)))
           /\ SyncTurnState(PassTurn(c)) =
                 [c EXCEPT !.order = NextTurn(c.order),
                           !.current = Head(NextTurn(c.order)), !.started = TRUE]
<1> DEFINE p == PassTurn(c)
<1>1. TurnOrderIds(c) = c.order
  <2>1. SyncTurnState(c) = c
    BY SyncIsStable DEF Running
  <2> QED
    BY <2>1 DEF SyncTurnState, Running, Orderly, Call
<1>2. p = [c EXCEPT !.order = NextTurn(c.order),
                    !.current = Head(NextTurn(c.order)), !.started = TRUE]
  BY <1>1 DEF PassTurn, NextTurn
<1>3. Orderly(p) /\ p.status = "open"
  BY <1>1, PassTurnOrderly DEF Kept, Running
<1> HIDE DEF p
<1>4. /\ p.order = NextTurn(c.order) /\ p.parts = c.parts /\ p.started
      /\ p.current = Head(p.order)
  BY <1>2 DEF Running, Orderly, Call
<1>5. Eligible(p) = Eligible(c)
  BY <1>4 DEF Eligible, Present
<1>6. Len(p.order) = Len(c.order) /\ Range(p.order) = Range(c.order) /\ p.order # <<>>
  <2> DEFINE s == c.order
             t == NextTurn(s)
             n == Len(s)
  <2>1. s \in Seq(Ids) /\ s # <<>>
    BY DEF Running, Orderly, IsInjectiveSeq
  <2>2. /\ n \in Nat /\ n > 0 /\ t \in Seq(Ids) /\ Len(t) = n
        /\ \A i \in 1 .. n : t[i] = s[IF i < n THEN i + 1 ELSE 1]
    BY <2>1, NextTurnPlaces
  <2> HIDE DEF t, s
  <2>3. DOMAIN t = 1 .. n /\ DOMAIN s = 1 .. n
    BY <2>1, <2>2
  <2> HIDE DEF n
  <2>4. \A i \in 1 .. n : \E j \in 1 .. n : t[i] = s[j]
    BY <2>2
  <2>5. \A j \in 1 .. n : \E i \in 1 .. n : t[i] = s[j]
    <3> TAKE j \in 1 .. n
    <3>1. CASE j = 1
      BY <2>2, <3>1
    <3>2. CASE j # 1
      <4>1. j - 1 \in 1 .. n /\ j - 1 < n /\ (j - 1) + 1 = j
        BY <2>2, <3>2
      <4> QED
        BY <2>2, <4>1
    <3> QED
      BY <3>1, <3>2
  <2>6. Range(t) = Range(s)
    <3>1. ASSUME NEW x \in Range(t) PROVE x \in Range(s)
      <4>1. PICK i \in 1 .. n : t[i] = x
        BY <2>3 DEF Range
      <4>2. PICK j \in 1 .. n : t[i] = s[j]
        BY <2>4
      <4> QED
        BY <2>3, <4>1, <4>2 DEF Range
    <3>2. ASSUME NEW x \in Range(s) PROVE x \in Range(t)
      <4>1. PICK j \in 1 .. n : s[j] = x
        BY <2>3 DEF Range
      <4>2. PICK i \in 1 .. n : t[i] = s[j]
        BY <2>5
      <4> QED
        BY <2>3, <4>1, <4>2 DEF Range
    <3> QED
      BY <3>1, <3>2
  <2>7. t # <<>>
    BY <2>2
  <2> QED
    BY <1>4, <2>2, <2>6, <2>7 DEF t, s, n
<1>7. TurnStateInSync(p)
  BY <1>4, <1>5, <1>6 DEF TurnStateInSync, IsListingOf, Running
<1>8. SortedUnlessStarted(p)
  BY <1>4 DEF SortedUnlessStarted
<1>9. SyncTurnState(p) = p
  BY <1>3, <1>7, <1>8, SyncIsStable
<1>10. Running(p)
  BY <1>3, <1>6, <1>7, <1>8 DEF Running
<1> QED
  BY <1>2, <1>9, <1>10 DEF p

\* The call after k ended turns.
TurnsLater(c, k) ==
    IF k = 0 THEN c
    ELSE [c EXCEPT !.order = Rotated(c.order, k),
                   !.current = Head(Rotated(c.order, k)), !.started = TRUE]

LEMMA OneTurnLater ==
    ASSUME NEW c, Running(c), NEW k \in Nat, Running(TurnsLater(c, k))
    PROVE  /\ Running(TurnsLater(c, k + 1))
           /\ TurnsLater(c, k + 1) = SyncTurnState(PassTurn(TurnsLater(c, k)))
<1> DEFINE d == TurnsLater(c, k)
           s == c.order
<1>1. s \in Seq(Ids) /\ s # <<>> /\ c \in Call
  BY DEF Running, Orderly, IsInjectiveSeq
<1>2. /\ Rotated(s, 0) = s /\ NextTurn(Rotated(s, k)) = Rotated(s, k + 1)
      /\ Rotated(s, k) \in Seq(Ids) /\ Rotated(s, k) # <<>>
  BY <1>1, RotatedOnce
<1>3. d.order = Rotated(s, k)
  BY <1>1, <1>2 DEF TurnsLater, Call
<1>4. /\ Running(SyncTurnState(PassTurn(d)))
      /\ SyncTurnState(PassTurn(d)) =
            [d EXCEPT !.order = Rotated(s, k + 1),
                      !.current = Head(Rotated(s, k + 1)), !.started = TRUE]
  BY <1>2, <1>3, EndingATurn
<1>5. SyncTurnState(PassTurn(d)) = TurnsLater(c, k + 1)
  <2>1. k + 1 # 0
    OBVIOUS
  <2> QED
    BY <1>1, <1>4, <2>1 DEF TurnsLater, Call
<1> QED
  BY <1>4, <1>5

\* Counting turns, every call of a round is known.
LEMMA RoundUnfolds ==
    ASSUME NEW c, Running(c), NEW f,
           f = [k \in Nat |-> IF k = 0 THEN c ELSE SyncTurnState(PassTurn(f[k - 1]))]
    PROVE  \A k \in Nat : f[k] = TurnsLater(c, k)
<1> DEFINE T == {k \in Nat : Running(TurnsLater(c, k)) /\ f[k] = TurnsLater(c, k)}
<1>1. f[0] = c /\ \A k \in Nat : f[k + 1] = SyncTurnState(PassTurn(f[k]))
  <2> DEFINE Body(k) == IF k = 0 THEN c ELSE SyncTurnState(PassTurn(f[k - 1]))
  <2>1. f = [k \in Nat |-> Body(k)]
    OBVIOUS
  <2>2. Body(0) = c /\ \A k \in Nat : Body(k + 1) = SyncTurnState(PassTurn(f[k]))
    <3>1. \A k \in Nat : k + 1 # 0 /\ k + 1 - 1 = k
      OBVIOUS
    <3> QED
      BY <3>1
  <2> HIDE DEF Body
  <2>3. \A k \in Nat : f[k] = Body(k)
    BY <2>1
  <2> QED
    BY <2>2, <2>3
<1>2. 0 \in T
  BY <1>1 DEF TurnsLater
<1>3. \A k \in T : k + 1 \in T
  BY <1>1, OneTurnLater
<1> HIDE DEF T
<1>4. T \in SUBSET Nat
  BY DEF T
<1>5. T = Nat
  BY <1>2, <1>3, <1>4, Counting
<1> QED
  BY <1>5 DEF T

\* The turns can be counted to begin with.
LEMMA RoundExists ==
    ASSUME NEW c, Running(c)
    PROVE  \E f : f = [k \in Nat |-> IF k = 0 THEN c
                                     ELSE SyncTurnState(PassTurn(f[k - 1]))]
<1> DEFINE T == {k \in Nat : Running(TurnsLater(c, k))}
           g == [k \in Nat |-> TurnsLater(c, k)]
           Body(k) == IF k = 0 THEN c ELSE SyncTurnState(PassTurn(g[k - 1]))
<1>1. 0 \in T /\ \A k \in T : k + 1 \in T
  <2>1. TurnsLater(c, 0) = c
    BY DEF TurnsLater
  <2> QED
    BY <2>1, OneTurnLater
<1> HIDE DEF T
<1>2. T \in SUBSET Nat
  BY DEF T
<1>3. T = Nat
  BY <1>1, <1>2, Counting
<1>4. \A k \in Nat : TurnsLater(c, k) = Body(k)
  <2> TAKE k \in Nat
  <2>1. CASE k = 0
    BY <2>1 DEF TurnsLater
  <2>2. CASE k # 0
    <3> DEFINE j == k - 1
    <3>1. j \in Nat /\ j + 1 = k
      BY <2>2
    <3>2. TurnsLater(c, j + 1) = SyncTurnState(PassTurn(TurnsLater(c, j)))
      BY <1>3, <3>1, OneTurnLater DEF T
    <3>3. g[j] = TurnsLater(c, j)
      BY <3>1
    <3> QED
      BY <2>2, <3>1, <3>2, <3>3
  <2> QED
    BY <2>1, <2>2
<1> HIDE DEF Body
<1>5. g = [k \in Nat |-> Body(k)]
  BY <1>4
<1> QED
  BY <1>5 DEF Body

LEMMA RunningRoundIsFair ==
    ASSUME NEW c, Running(c)
    PROVE  RoundIsFair(c)
<1> DEFINE n == Cardinality(Eligible(c))
           s == c.order
           f == CHOOSE f : f = [k \in Nat |-> IF k = 0 THEN c
                                  ELSE SyncTurnState(PassTurn(f[k - 1]))]
<1>1. f = [k \in Nat |-> IF k = 0 THEN c ELSE SyncTurnState(PassTurn(f[k - 1]))]
  BY RoundExists
<1> HIDE DEF f
<1>2. \A k \in Nat : f[k] = TurnsLater(c, k)
  BY <1>1, RoundUnfolds
<1>3. /\ s \in Seq(Ids) /\ s # <<>> /\ c \in Call
      /\ Len(s) = n /\ Range(s) = Eligible(c) /\ c.current = Head(s)
  BY DEF Running, Orderly, IsInjectiveSeq, TurnStateInSync, IsListingOf
<1> HIDE DEF n
<1>4. n \in Nat /\ n > 0 /\ DOMAIN s = 1 .. n
  BY <1>3
<1>5. \A k \in Nat : /\ f[k].order = Rotated(s, k)
                     /\ f[k].current = s[(k % n) + 1]
  <2> TAKE k \in Nat
  <2>1. /\ Head(Rotated(s, k)) = s[(k % n) + 1] /\ Rotated(s, 0) = s
        /\ Rotated(s, k) \in Seq(Ids)
    BY <1>3, RotatedOnce
  <2>2. CASE k = 0
    BY <1>2, <1>3, <2>1, <2>2 DEF TurnsLater
  <2>3. CASE k # 0
    BY <1>2, <1>3, <2>1, <2>3 DEF TurnsLater, Call
  <2> QED
    BY <2>2, <2>3
<1>6. {f[k].current : k \in 0 .. n - 1} = Eligible(c)
  <2>1. \A k \in 0 .. n - 1 : f[k].current = s[k + 1] /\ k + 1 \in 1 .. n
    <3> TAKE k \in 0 .. n - 1
    <3>1. k \in Nat /\ k % n = k /\ k + 1 \in 1 .. n
      BY <1>4, RemainderSmall
    <3> QED
      BY <1>5, <3>1
  <2>2. \A i \in 1 .. n : i - 1 \in 0 .. n - 1 /\ i - 1 + 1 = i
    BY <1>4
  <2>3. \A x : x \in Range(s) <=> \E i \in 1 .. n : s[i] = x
    BY <1>4 DEF Range
  <2>4. \A k \in 0 .. n - 1 : f[k].current \in Range(s)
    BY <2>1, <2>3
  <2>5. \A x \in Range(s) : \E k \in 0 .. n - 1 : f[k].current = x
    <3> TAKE x \in Range(s)
    <3>1. PICK i \in 1 .. n : s[i] = x
      BY <2>3
    <3>2. i - 1 \in 0 .. n - 1 /\ f[i - 1].current = s[i]
      BY <2>1, <2>2
    <3> QED
      BY <3>1, <3>2
  <2> QED
    BY <1>3, <2>4, <2>5
<1>7. f[n].order = s
  BY <1>3, <1>4, <1>5, RotatedOnce
<1> QED
  BY <1>6, <1>7 DEF RoundIsFair, f, n

-----------------------------------------------------------------------------
(***************************************************************************)
(* The slice code.  Each loop of turnorder.go has passed some elements and *)
(* holds a slice; what it holds in the end is shown by counting them.      *)
(***************************************************************************)
\* f says what a loop over m elements holds that starts from b and makes at
\* element n what st says of the t it holds.
IsLoop(f, V, m, b, st) ==
    /\ f \in [0 .. m -> V] /\ f[0] = b
    /\ \A n \in 1 .. m : f[n] = st[<<f[n - 1], n>>]

\* A loop runs to its end.
LEMMA LoopRuns ==
    ASSUME NEW V, NEW b \in V, NEW N \in Nat, NEW st \in [V \X (1 .. N) -> V]
    PROVE  \E f : IsLoop(f, V, N, b, st)
<1> DEFINE Runs(f, m) == IsLoop(f, V, m, b, st)
           T == {m \in Nat : m <= N => \E f : Runs(f, m)}
<1> USE DEF IsLoop
<1>1. 0 \in T
  <2> DEFINE f == [n \in 0 .. 0 |-> b]
  <2>1. Runs(f, 0)
    OBVIOUS
  <2> QED
    BY <2>1
<1>2. ASSUME NEW m \in T PROVE m + 1 \in T
  <2>1. m \in Nat /\ m + 1 \in Nat
    OBVIOUS
  <2> SUFFICES ASSUME m + 1 <= N PROVE \E g : Runs(g, m + 1)
    BY <2>1
  <2>2. PICK f : Runs(f, m)
    BY <2>1
  <2> DEFINE k == m + 1
             g == [n \in 0 .. k |-> IF n <= m THEN f[n] ELSE st[<<f[m], k>>]]
  <2>3. f[m] \in V /\ k \in 1 .. N /\ st[<<f[m], k>>] \in V
    BY <2>1, <2>2
  <2>4. /\ \A n \in 0 .. m : g[n] = f[n] /\ f[n] \in V
        /\ g[k] = st[<<f[m], k>>]
    BY <2>1, <2>2
  <2>5. g \in [0 .. k -> V]
    <3>1. \A n \in 0 .. k : (IF n <= m THEN f[n] ELSE st[<<f[m], k>>]) \in V
      <4> TAKE n \in 0 .. k
      <4>1. n <= m => n \in 0 .. m
        BY <2>1
      <4> QED
        BY <2>3, <2>4, <4>1
    <3> QED
      BY <3>1
  <2> HIDE DEF g
  <2>6. g[0] = b
    BY <2>1, <2>2, <2>4
  <2>7. \A n \in 1 .. k : g[n] = st[<<g[n - 1], n>>]
    <3> TAKE n \in 1 .. k
    <3>1. CASE n <= m
      <4>1. n \in 1 .. m /\ n \in 0 .. m /\ n - 1 \in 0 .. m
        BY <2>1, <3>1
      <4> QED
        BY <2>2, <2>4, <4>1
    <3>2. CASE ~(n <= m)
      <4>1. n = k /\ n - 1 = m /\ m \in 0 .. m
        BY <2>1, <3>2
      <4> QED
        BY <2>4, <4>1
    <3> QED
      BY <3>1, <3>2
  <2> QED
    BY <2>5, <2>6, <2>7
<1> HIDE DEF T
<1>3. T \in SUBSET Nat
  BY DEF T
<1>4. N \in T
  BY <1>1, <1>2, <1>3, Counting
<1> QED
  BY <1>4 DEF T

\* Whatever follows the same rule is that loop.
LEMMA LoopIsUnique ==
    ASSUME NEW V, NEW b \in V, NEW N \in Nat, NEW st \in [V \X (1 .. N) -> V],
           NEW f, f = [n \in 0 .. N |-> f[n]], f[0] = b,
           \A n \in 1 .. N : f[n - 1] \in V => f[n] = st[<<f[n - 1], n>>]
    PROVE  IsLoop(f, V, N, b, st)
<1> DEFINE T == {n \in Nat : n <= N => f[n] \in V}
<1>1. 0 \in T
  OBVIOUS
<1>2. ASSUME NEW k \in T PROVE k + 1 \in T
  <2> SUFFICES ASSUME k + 1 <= N PROVE f[k + 1] \in V
    OBVIOUS
  <2> DEFINE j == k + 1
  <2>1. j \in 1 .. N /\ j - 1 = k /\ f[k] \in V
    OBVIOUS
  <2> HIDE DEF j
  <2>2. f[j] = st[<<f[k], j>>]
    BY <2>1
  <2> QED
    BY <2>1, <2>2 DEF j
<1> HIDE DEF T
<1>3. T \in SUBSET Nat
  BY DEF T
<1>4. T = Nat
  BY <1>1, <1>2, <1>3, Counting
<1>5. \A n \in 0 .. N : f[n] \in V
  <2>1. \A n \in Nat : n <= N => f[n] \in V
    BY <1>4 DEF T
  <2> QED
    BY <2>1
<1>6. \A n \in 1 .. N : n - 1 \in 0 .. N
  OBVIOUS
<1> QED
  BY <1>5, <1>6 DEF IsLoop

\* A filter of a slice is a loop,
FilterLoop(f, S, s, keep) ==
    /\ f \in [0 .. Len(s) -> Seq(S)]
    /\ f[0] = <<>> /\ Filtered(s, keep) = f[Len(s)]
    /\ \A n \in 1 .. Len(s) :
          f[n] = IF s[n] \in keep THEN Append(f[n - 1], s[n]) ELSE f[n - 1]

LEMMA FilterRuns ==
    ASSUME NEW S, NEW s \in Seq(S), NEW keep
    PROVE  \E f : FilterLoop(f, S, s, keep)
<1> DEFINE N == Len(s)
           V == Seq(S)
           b == <<>>
           Step(t, n) == IF s[n] \in keep THEN Append(t, s[n]) ELSE t
           st == [e \in V \X (1 .. N) |-> Step(e[1], e[2])]
           Body(f) == [n \in 0 .. N |-> IF n = 0 THEN <<>>
                          ELSE IF s[n] \in keep THEN Append(f[n - 1], s[n]) ELSE f[n - 1]]
           f == CHOOSE f : f = Body(f)
<1>1. N \in Nat /\ b \in V /\ \A n \in 1 .. N : s[n] \in S
  OBVIOUS
<1>2. \A t \in V, n \in 1 .. N : Step(t, n) \in V
  BY <1>1
<1>3. \A h : \A n \in 1 .. N : Body(h)[n] = Step(h[n - 1], n)
  BY <1>1
<1>4. \A h : Body(h)[0] = b /\ Body(h) = [n \in 0 .. N |-> Body(h)[n]]
  BY <1>1
<1>5. Filtered(s, keep) = f[N]
  BY DEF Filtered
<1> HIDE DEF N, V, b, Step
<1>6. /\ st \in [V \X (1 .. N) -> V]
      /\ \A t \in V, n \in 1 .. N : st[<<t, n>>] = Step(t, n)
  BY <1>2
<1> HIDE DEF st
<1>7. PICK g : IsLoop(g, V, N, b, st)
  BY <1>1, <1>6, LoopRuns
<1>8. g = Body(g)
  <2>1. \A n \in 1 .. N : n - 1 \in 0 .. N
    BY <1>1
  <2>2. \A n \in 1 .. N : g[n] = Step(g[n - 1], n)
    BY <1>6, <1>7, <2>1 DEF IsLoop
  <2>3. \A n \in 0 .. N : g[n] = Body(g)[n]
    <3>1. \A n \in 0 .. N : n = 0 \/ n \in 1 .. N
      BY <1>1
    <3> HIDE DEF Body
    <3> QED
      BY <1>3, <1>4, <1>7, <2>2, <3>1 DEF IsLoop
  <2>4. g = [n \in 0 .. N |-> g[n]]
    BY <1>7 DEF IsLoop
  <2> HIDE DEF Body
  <2>5. [n \in 0 .. N |-> g[n]] = [n \in 0 .. N |-> Body(g)[n]]
    BY <2>3
  <2> QED
    BY <1>4, <2>4, <2>5
<1> HIDE DEF Body
<1>9. f = Body(f)
  BY <1>8
<1> HIDE DEF f
<1>10. /\ f = [n \in 0 .. N |-> f[n]] /\ f[0] = b
       /\ \A n \in 1 .. N : f[n] = Step(f[n - 1], n)
  BY <1>3, <1>4, <1>9
<1>11. IsLoop(f, V, N, b, st)
  BY <1>1, <1>6, <1>10, LoopIsUnique
<1>12. f \in [0 .. N -> V]
  BY <1>11 DEF IsLoop
<1> QED
  BY <1>5, <1>10, <1>12 DEF N, V, b, Step, FilterLoop

\* and so is the sort.
LEMMA FilteredIsSeq ==
    ASSUME NEW S, NEW s \in Seq(S), NEW keep
    PROVE  Filtered(s, keep) \in Seq(S)
<1>1. Len(s) \in 0 .. Len(s)
  OBVIOUS
<1> QED
  BY <1>1, FilterRuns DEF FilterLoop

LEMMA InsertedIsSeq ==
    ASSUME NEW c, NEW S, NEW s \in Seq(S), NEW i \in S
    PROVE  Inserted(c, s, i) \in Seq(S)
<1> DEFINE greater == {j \in Range(s) : Less(c, i, j)}
           t == Filtered(s, Range(s) \ greater)
           u == Filtered(s, greater)
<1>1. t \in Seq(S) /\ u \in Seq(S)
  BY FilteredIsSeq
<1>2. Inserted(c, s, i) = Append(t, i) \o u
  BY DEF Inserted
<1> HIDE DEF t, u
<1> QED
  BY <1>1, <1>2

SortLoop(f, c, S, s) ==
    /\ f \in [0 .. Len(s) -> Seq(S)]
    /\ f[0] = <<>> /\ SortParticipants(c, s) = f[Len(s)]
    /\ \A n \in 1 .. Len(s) : f[n] = Inserted(c, f[n - 1], s[n])

LEMMA SortRuns ==
    ASSUME NEW c, NEW S, NEW s \in Seq(S)
    PROVE  \E f : SortLoop(f, c, S, s)
<1> DEFINE N == Len(s)
           V == Seq(S)
           b == <<>>
           Step(t, n) == Inserted(c, t, s[n])
           st == [e \in V \X (1 .. N) |-> Step(e[1], e[2])]
           Body(f) == [n \in 0 .. N |-> IF n = 0 THEN <<>> ELSE Inserted(c, f[n - 1], s[n])]
           f == CHOOSE f : f = Body(f)
<1>1. N \in Nat /\ b \in V /\ \A n \in 1 .. N : s[n] \in S
  OBVIOUS
<1>2. \A t \in V, n \in 1 .. N : Step(t, n) \in V
  BY <1>1, InsertedIsSeq
<1>3. \A h : \A n \in 1 .. N : Body(h)[n] = Step(h[n - 1], n)
  BY <1>1
<1>4. \A h : Body(h)[0] = b /\ Body(h) = [n \in 0 .. N |-> Body(h)[n]]
  BY <1>1
<1>5. SortParticipants(c, s) = f[N]
  BY DEF SortParticipants
<1> HIDE DEF N, V, b, Step
<1>6. /\ st \in [V \X (1 .. N) -> V]
      /\ \A t \in V, n \in 1 .. N : st[<<t, n>>] = Step(t, n)
  BY <1>2
<1> HIDE DEF st
<1>7. PICK g : IsLoop(g, V, N, b, st)
  BY <1>1, <1>6, LoopRuns
<1>8. g = Body(g)
  <2>1. \A n \in 1 .. N : n - 1 \in 0 .. N
    BY <1>1
  <2>2. \A n \in 1 .. N : g[n] = Step(g[n - 1], n)
    BY <1>6, <1>7, <2>1 DEF IsLoop
  <2>3. \A n \in 0 .. N : g[n] = Body(g)[n]
    <3>1. \A n \in 0 .. N : n = 0 \/ n \in 1 .. N
      BY <1>1
    <3> HIDE DEF Body
    <3> QED
      BY <1>3, <1>4, <1>7, <2>2, <3>1 DEF IsLoop
  <2>4. g = [n \in 0 .. N |-> g[n]]
    BY <1>7 DEF IsLoop
  <2> HIDE DEF Body
  <2>5. [n \in 0 .. N |-> g[n]] = [n \in 0 .. N |-> Body(g)[n]]
    BY <2>3
  <2> QED
    BY <1>4, <2>4, <2>5
<1> HIDE DEF Body
<1>9. f = Body(f)
  BY <1>8
<1> HIDE DEF f
<1>10. /\ f = [n \in 0 .. N |-> f[n]] /\ f[0] = b
       /\ \A n \in 1 .. N : f[n] = Step(f[n - 1], n)
  BY <1>3, <1>4, <1>9
<1>11. IsLoop(f, V, N, b, st)
  BY <1>1, <1>6, <1>10, LoopIsUnique
<1>12. f \in [0 .. N -> V]
  BY <1>11 DEF IsLoop
<1> QED
  BY <1>5, <1>10, <1>12 DEF N, V, b, Step, SortLoop

-----------------------------------------------------------------------------
\* What appending and joining do to who is listed, how often and before whom.
LEMMA EmptyListsNobody ==
    ASSUME NEW S
    PROVE  /\ IsInjectiveSeq(<<>>, S) /\ Range(<<>>) = {}
           /\ \A x, y : ~Before(<<>>, x, y)
BY EmptySeq DEF IsInjectiveSeq, Range, Before

LEMMA AppendLists ==
    ASSUME NEW S, NEW s, IsInjectiveSeq(s, S), NEW x \in S, x \notin Range(s)
    PROVE  /\ IsInjectiveSeq(Append(s, x), S)
           /\ Range(Append(s, x)) = Range(s) \cup {x}
           /\ \A y, z : Before(Append(s, x), y, z)
                 => Before(s, y, z) \/ (y \in Range(s) /\ z = x)
<1> DEFINE n == Len(s)
           t == Append(s, x)
<1>1. /\ s \in Seq(S) /\ n \in Nat /\ DOMAIN s = 1 .. n
      /\ \A i \in 1 .. n : s[i] \in Range(s)
      /\ \A i, j \in 1 .. n : s[i] = s[j] => i = j
      /\ \A y \in Range(s) : \E i \in 1 .. n : s[i] = y
  BY DEF IsInjectiveSeq, Range
<1>2. /\ t \in Seq(S) /\ DOMAIN t = 1 .. n + 1 /\ t[n + 1] = x
      /\ \A i \in 1 .. n : t[i] = s[i]
  BY <1>1
<1> HIDE DEF n, t
<1>3. \A i \in 1 .. n + 1 : i \in 1 .. n \/ i = n + 1
  BY <1>1
<1>4. \A i \in 1 .. n : i \in 1 .. n + 1 /\ i < n + 1
  BY <1>1
<1>5. n + 1 \in 1 .. n + 1
  BY <1>1
<1>6. IsInjectiveSeq(t, S)
  BY <1>1, <1>2, <1>3 DEF IsInjectiveSeq
<1>7. Range(t) = Range(s) \cup {x}
  <2>1. \A y : y \in Range(t) <=> \E i \in 1 .. n + 1 : t[i] = y
    BY <1>2 DEF Range
  <2> QED
    BY <1>1, <1>2, <1>3, <1>4, <1>5, <2>1
<1>8. ASSUME NEW y, NEW z, Before(t, y, z)
      PROVE  Before(s, y, z) \/ (y \in Range(s) /\ z = x)
  <2>1. PICK i \in 1 .. n + 1, j \in 1 .. n + 1 : i < j /\ t[i] = y /\ t[j] = z
    BY <1>2, <1>8 DEF Before
  <2>2. i \in 1 .. n
    BY <1>1, <2>1
  <2> QED
    BY <1>1, <1>2, <1>3, <2>1, <2>2 DEF Before
<1> QED
  BY <1>6, <1>7, <1>8 DEF t

LEMMA JoinLists ==
    ASSUME NEW S, NEW s, IsInjectiveSeq(s, S), NEW t, IsInjectiveSeq(t, S),
           Range(s) \cap Range(t) = {}
    PROVE  /\ IsInjectiveSeq(s \o t, S)
           /\ Range(s \o t) = Range(s) \cup Range(t)
           /\ \A y, z : Before(s \o t, y, z)
                 => \/ Before(s, y, z) \/ Before(t, y, z)
                    \/ y \in Range(s) /\ z \in Range(t)
<1> DEFINE n == Len(s)
           m == Len(t)
           u == s \o t
<1>1. /\ s \in Seq(S) /\ n \in Nat /\ DOMAIN s = 1 .. n
      /\ \A i \in 1 .. n : s[i] \in Range(s)
      /\ \A i, j \in 1 .. n : s[i] = s[j] => i = j
      /\ \A y \in Range(s) : \E i \in 1 .. n : s[i] = y
  BY DEF IsInjectiveSeq, Range
<1>2. /\ t \in Seq(S) /\ m \in Nat /\ DOMAIN t = 1 .. m
      /\ \A i \in 1 .. m : t[i] \in Range(t)
      /\ \A i, j \in 1 .. m : t[i] = t[j] => i = j
      /\ \A y \in Range(t) : \E i \in 1 .. m : t[i] = y
  BY DEF IsInjectiveSeq, Range
<1>3. /\ u \in Seq(S) /\ DOMAIN u = 1 .. n + m
      /\ \A i \in 1 .. n + m : u[i] = IF i <= n THEN s[i] ELSE t[i - n]
  BY <1>1, <1>2, ConcatProperties
<1> HIDE DEF n, m, u
<1>4. /\ \A i \in 1 .. n : i \in 1 .. n + m /\ u[i] = s[i]
      /\ \A i \in 1 .. m : i + n \in 1 .. n + m /\ u[i + n] = t[i]
  <2>1. \A i \in 1 .. n : i \in 1 .. n + m /\ i <= n
    BY <1>1, <1>2
  <2>2. \A i \in 1 .. m : i + n \in 1 .. n + m /\ ~(i + n <= n) /\ i + n - n = i
    BY <1>1, <1>2
  <2>3. ASSUME NEW i \in 1 .. m PROVE u[i + n] = t[i]
    <3> DEFINE j == i + n
    <3>1. j \in 1 .. n + m /\ ~(j <= n) /\ j - n = i
      BY <1>1, <1>2
    <3> HIDE DEF j
    <3>2. u[j] = t[i]
      BY <1>3, <3>1
    <3> QED
      BY <3>2 DEF j
  <2> QED
    BY <1>3, <2>1, <2>2, <2>3
<1>5. \A i \in 1 .. n + m :
          \/ i \in 1 .. n /\ u[i] = s[i] /\ u[i] \in Range(s)
          \/ i - n \in 1 .. m /\ u[i] = t[i - n] /\ u[i] \in Range(t) /\ ~(i <= n)
  <2> TAKE i \in 1 .. n + m
  <2>1. i \in 1 .. n \/ (i - n \in 1 .. m /\ ~(i <= n))
    BY <1>1, <1>2
  <2> QED
    BY <1>1, <1>2, <1>3, <2>1
<1>6. IsInjectiveSeq(u, S)
  <2>1. \A i, j \in 1 .. n + m : i - n = j - n => i = j
    BY <1>1, <1>2
  <2>2. ASSUME NEW i \in 1 .. n + m, NEW j \in 1 .. n + m, u[i] = u[j]
        PROVE  i = j
    BY <1>1, <1>2, <1>5, <2>1, <2>2
  <2> QED
    BY <1>3, <2>2 DEF IsInjectiveSeq
<1>7. Range(u) = Range(s) \cup Range(t)
  <2>1. \A y : y \in Range(u) <=> \E i \in 1 .. n + m : u[i] = y
    BY <1>3 DEF Range
  <2>2. \A y \in Range(u) : y \in Range(s) \cup Range(t)
    BY <1>5, <2>1
  <2>3. \A y \in Range(s) : y \in Range(u)
    BY <1>1, <1>4, <2>1
  <2>4. \A y \in Range(t) : y \in Range(u)
    BY <1>2, <1>4, <2>1
  <2> QED
    BY <2>2, <2>3, <2>4
<1>8. ASSUME NEW y, NEW z, Before(u, y, z)
      PROVE  \/ Before(s, y, z) \/ Before(t, y, z)
             \/ y \in Range(s) /\ z \in Range(t)
  <2>1. PICK i \in 1 .. n + m, j \in 1 .. n + m : i < j /\ u[i] = y /\ u[j] = z
    BY <1>3, <1>8 DEF Before
  <2>2. ~(i <= n) => ~(j <= n)
    BY <1>1, <1>2, <2>1
  <2>3. i - n < j - n
    BY <1>1, <1>2, <2>1
  <2>4. CASE i \in 1 .. n
    BY <1>1, <1>2, <1>5, <2>1, <2>4 DEF Before
  <2>5. CASE ~(i <= n)
    BY <1>1, <1>2, <1>5, <2>1, <2>2, <2>3, <2>5 DEF Before
  <2> QED
    BY <1>1, <1>2, <2>4, <2>5
<1> QED
  BY <1>6, <1>7, <1>8 DEF u

\* A filter keeps those asked for, in the order they had.
LEMMA FilterLists ==
    ASSUME NEW S, NEW s, IsInjectiveSeq(s, S), NEW keep
    PROVE  /\ IsInjectiveSeq(Filtered(s, keep), S)
           /\ Range(Filtered(s, keep)) = Range(s) \cap keep
           /\ \A x, y : Before(Filtered(s, keep), x, y) => Before(s, x, y)
<1> DEFINE N == Len(s)
<1>1. /\ s \in Seq(S) /\ N \in Nat /\ DOMAIN s = 1 .. N
      /\ \A i, j \in 1 .. N : s[i] = s[j] => i = j
      /\ \A i \in 1 .. N : s[i] \in S
  BY DEF IsInjectiveSeq
<1>2. PICK f : FilterLoop(f, S, s, keep)
  BY <1>1, FilterRuns
<1>3. /\ f \in [0 .. N -> Seq(S)] /\ f[0] = <<>> /\ Filtered(s, keep) = f[N]
      /\ \A n \in 1 .. N :
            f[n] = IF s[n] \in keep THEN Append(f[n - 1], s[n]) ELSE f[n - 1]
  BY <1>2 DEF FilterLoop
<1> DEFINE Lists(n) ==
               /\ IsInjectiveSeq(f[n], S)
               /\ Range(f[n]) = {s[i] : i \in 1 .. n} \cap keep
               /\ \A x, y : Before(f[n], x, y) => Before(s, x, y)
           T == {n \in Nat : n <= N => Lists(n)}
<1> HIDE DEF N
<1>4. Lists(0)
  <2>1. {s[i] : i \in 1 .. 0} = {}
    OBVIOUS
  <2> QED
    BY <1>3, <2>1, EmptyListsNobody
<1>5. ASSUME NEW k \in Nat, k + 1 <= N, Lists(k) PROVE Lists(k + 1)
  <2> DEFINE n == k + 1
  <2> SUFFICES Lists(n)
    OBVIOUS
  <2>1. n \in 1 .. N /\ n - 1 = k /\ k \in Nat
    BY <1>1, <1>5
  <2>2. \A i \in 1 .. k : i \in 1 .. N /\ i < n
    BY <1>1, <2>1
  <2>3. {s[i] : i \in 1 .. n} = {s[i] : i \in 1 .. k} \cup {s[n]}
    <3>1. \A i : i \in 1 .. n <=> i \in 1 .. k \/ i = n
      BY <2>1
    <3> HIDE DEF n
    <3> QED
      BY <3>1
  <2> HIDE DEF n
  <2>4. f[n] = IF s[n] \in keep THEN Append(f[k], s[n]) ELSE f[k]
    BY <1>3, <2>1
  <2>5. CASE s[n] \notin keep
    <3>1. {s[i] : i \in 1 .. n} \cap keep = {s[i] : i \in 1 .. k} \cap keep
      BY <2>3, <2>5
    <3> QED
      BY <1>5, <2>4, <2>5, <3>1
  <2>6. CASE s[n] \in keep
    <3> DEFINE t == f[k]
    <3>1. s[n] \notin Range(t) /\ s[n] \in S /\ IsInjectiveSeq(t, S)
      BY <1>1, <1>5, <2>1, <2>2
    <3>2. f[n] = Append(t, s[n]) /\ Range(t) = {s[i] : i \in 1 .. k} \cap keep
      BY <1>5, <2>4, <2>6
    <3> HIDE DEF t
    <3>3. /\ IsInjectiveSeq(f[n], S) /\ Range(f[n]) = Range(t) \cup {s[n]}
          /\ \A x, y : Before(f[n], x, y)
                => Before(t, x, y) \/ (x \in Range(t) /\ y = s[n])
      BY <3>1, <3>2, AppendLists
    <3>4. \A x, y : Before(t, x, y) => Before(s, x, y)
      BY <1>5 DEF t
    <3>5. \A x \in Range(t) : Before(s, x, s[n])
      BY <1>1, <2>1, <2>2, <3>2 DEF Before
    <3>6. Range(f[n]) = {s[i] : i \in 1 .. n} \cap keep
      BY <2>3, <2>6, <3>2, <3>3
    <3> QED
      BY <3>3, <3>4, <3>5, <3>6
  <2> QED
    BY <2>5, <2>6
<1> HIDE DEF Lists
<1>6. 0 \in T /\ \A k \in T : k + 1 \in T
  <2>1. \A k \in Nat : k + 1 <= N => k <= N
    BY <1>1
  <2> QED
    BY <1>4, <1>5, <2>1
<1>7. T \in SUBSET Nat
  OBVIOUS
<1> HIDE DEF T
<1>8. T = Nat
  BY <1>6, <1>7, Counting
<1>9. Lists(N)
  BY <1>1, <1>8 DEF T
<1>10. {s[i] : i \in 1 .. N} = Range(s)
  BY <1>1 DEF Range
<1> QED
  BY <1>3, <1>9, <1>10 DEF Lists

-----------------------------------------------------------------------------
\* Each participant goes in where SortsBefore puts him, if those sorted so far
\* sat in front of him in the slice: that is what makes the sort stable.
SortedSlice(c, t) ==
    \A x, y : Before(t, x, y) => SortsBefore(c.parts[x], c.parts[y])

LEMMA InsertSorts ==
    ASSUME NEW c, NEW E, \A x \in E : c.parts[x] \in Participant /\ c.parts[x].roll \in Int,
           NEW t, IsInjectiveSeq(t, E), SortedSlice(c, t),
           NEW i \in E, i \notin Range(t),
           \A x \in Range(t) : c.parts[x].seat < c.parts[i].seat
    PROVE  /\ IsInjectiveSeq(Inserted(c, t, i), E)
           /\ Range(Inserted(c, t, i)) = Range(t) \cup {i}
           /\ SortedSlice(c, Inserted(c, t, i))
<1> DEFINE greater == {j \in Range(t) : Less(c, i, j)}
           front == Filtered(t, Range(t) \ greater)
           back == Filtered(t, greater)
           upto == Append(front, i)
           R(x, y) == SortsBefore(c.parts[x], c.parts[y])
<1>1. Inserted(c, t, i) = upto \o back
  BY DEF Inserted
<1>2. Range(t) \subseteq E
  BY DEF IsInjectiveSeq, Range
<1>3. /\ greater \subseteq Range(t)
      /\ \A x \in Range(t) \ greater : R(x, i)
      /\ \A x \in greater : R(i, x)
  <2>1. \A x \in E : c.parts[x].roll \in Int /\ c.parts[x].name \in Nat
    BY DEF Participant
  <2> QED
    BY <1>2, <2>1 DEF Less, SortsBefore
<1>4. \A x, y, z \in E : R(x, y) /\ R(y, z) => R(x, z)
  <2>1. \A x \in E : /\ c.parts[x].roll \in Int /\ c.parts[x].name \in Nat
                     /\ c.parts[x].seat \in Nat
    BY DEF Participant
  <2> QED
    BY <2>1 DEF SortsBefore
<1> HIDE DEF greater, R
<1>5. /\ IsInjectiveSeq(front, E) /\ Range(front) = Range(t) \ greater
      /\ \A x, y : Before(front, x, y) => Before(t, x, y)
  <2>1. Range(t) \cap (Range(t) \ greater) = Range(t) \ greater
    OBVIOUS
  <2> QED
    BY <2>1, FilterLists
<1>6. /\ IsInjectiveSeq(back, E) /\ Range(back) = greater
      /\ \A x, y : Before(back, x, y) => Before(t, x, y)
  <2>1. Range(t) \cap greater = greater
    BY <1>3
  <2> QED
    BY <2>1, FilterLists
<1> HIDE DEF front, back
<1>7. /\ IsInjectiveSeq(upto, E) /\ Range(upto) = Range(front) \cup {i}
      /\ \A x, y : Before(upto, x, y) => Before(front, x, y) \/ (x \in Range(front) /\ y = i)
  BY <1>5, AppendLists
<1> HIDE DEF upto
<1>8. Range(upto) \cap Range(back) = {}
  BY <1>3, <1>5, <1>6, <1>7
<1>9. /\ IsInjectiveSeq(upto \o back, E) /\ Range(upto \o back) = Range(upto) \cup Range(back)
      /\ \A x, y : Before(upto \o back, x, y)
            => \/ Before(upto, x, y) \/ Before(back, x, y)
               \/ x \in Range(upto) /\ y \in Range(back)
  BY <1>6, <1>7, <1>8, JoinLists
<1>10. Range(upto \o back) = Range(t) \cup {i}
  BY <1>3, <1>5, <1>6, <1>7, <1>9
<1>11. \A x, y : Before(t, x, y) => R(x, y)
  BY DEF SortedSlice, R
<1>12. \A x, y : Before(upto, x, y) => R(x, y)
  BY <1>3, <1>5, <1>7, <1>11
<1>13. ASSUME NEW x \in Range(upto), NEW y \in Range(back) PROVE R(x, y)
  <2>1. R(i, y) /\ y \in E
    BY <1>2, <1>3, <1>6, <1>13
  <2>2. CASE x = i
    BY <2>1, <2>2
  <2>3. CASE x # i
    <3>1. x \in E /\ R(x, i)
      BY <1>2, <1>3, <1>5, <1>7, <1>13, <2>3
    <3> QED
      BY <1>4, <2>1, <3>1
  <2> QED
    BY <2>2, <2>3
<1>14. \A x, y : Before(upto \o back, x, y) => R(x, y)
  BY <1>6, <1>9, <1>11, <1>12, <1>13
<1> QED
  BY <1>1, <1>9, <1>10, <1>14 DEF SortedSlice, R

\* The sorted slice lists those in the slice, by roll, name and seat.
LEMMA SortSorts ==
    ASSUME NEW c, NEW E, \A x \in E : c.parts[x] \in Participant /\ c.parts[x].roll \in Int,
           NEW s, IsInjectiveSeq(s, E),
           \A x, y : Before(s, x, y) => c.parts[x].seat < c.parts[y].seat
    PROVE  /\ IsInjectiveSeq(SortParticipants(c, s), E)
           /\ Range(SortParticipants(c, s)) = Range(s)
           /\ SortedSlice(c, SortParticipants(c, s))
<1> DEFINE N == Len(s)
<1>1. /\ s \in Seq(E) /\ N \in Nat /\ DOMAIN s = 1 .. N
      /\ \A i, j \in 1 .. N : s[i] = s[j] => i = j
      /\ \A i \in 1 .. N : s[i] \in E
  BY DEF IsInjectiveSeq
<1>2. PICK f : SortLoop(f, c, E, s)
  BY <1>1, SortRuns
<1>3. /\ f[0] = <<>> /\ SortParticipants(c, s) = f[N]
      /\ \A n \in 1 .. N : f[n] = Inserted(c, f[n - 1], s[n])
  BY <1>2 DEF SortLoop
<1> DEFINE Sorts(n) == /\ IsInjectiveSeq(f[n], E)
                       /\ Range(f[n]) = {s[i] : i \in 1 .. n}
                       /\ SortedSlice(c, f[n])
           T == {n \in Nat : n <= N => Sorts(n)}
<1> HIDE DEF N
<1>4. Sorts(0)
  <2>1. {s[i] : i \in 1 .. 0} = {}
    OBVIOUS
  <2> QED
    BY <1>3, <2>1, EmptyListsNobody DEF SortedSlice
<1>5. ASSUME NEW k \in Nat, k + 1 <= N, Sorts(k) PROVE Sorts(k + 1)
  <2> DEFINE n == k + 1
  <2> SUFFICES Sorts(n)
    OBVIOUS
  <2>1. n \in 1 .. N /\ n - 1 = k /\ k \in Nat
    BY <1>1, <1>5
  <2>2. \A i \in 1 .. k : i \in 1 .. N /\ i < n
    BY <1>1, <2>1
  <2>3. {s[i] : i \in 1 .. n} = {s[i] : i \in 1 .. k} \cup {s[n]}
    <3>1. \A i : i \in 1 .. n <=> i \in 1 .. k \/ i = n
      BY <2>1
    <3> HIDE DEF n
    <3> QED
      BY <3>1
  <2> HIDE DEF n
  <2>4. f[n] = Inserted(c, f[k], s[n])
    BY <1>3, <2>1
  <2> DEFINE t == f[k]
  <2>5. /\ IsInjectiveSeq(t, E) /\ SortedSlice(c, t) /\ f[n] = Inserted(c, t, s[n])
        /\ Range(t) = {s[i] : i \in 1 .. k}
    BY <1>5, <2>4
  <2> HIDE DEF t
  <2>6. s[n] \in E /\ s[n] \notin Range(t)
    BY <1>1, <2>1, <2>2, <2>5
  <2>7. \A x \in Range(t) : c.parts[x].seat < c.parts[s[n]].seat
    <3>1. \A x \in Range(t) : Before(s, x, s[n])
      BY <1>1, <2>1, <2>2, <2>5 DEF Before
    <3> QED
      BY <3>1
  <2>8. /\ IsInjectiveSeq(f[n], E) /\ Range(f[n]) = Range(t) \cup {s[n]}
        /\ SortedSlice(c, f[n])
    BY <2>5, <2>6, <2>7, InsertSorts
  <2> QED
    BY <2>3, <2>5, <2>8
<1> HIDE DEF Sorts
<1>6. 0 \in T /\ \A k \in T : k + 1 \in T
  <2>1. \A k \in Nat : k + 1 <= N => k <= N
    BY <1>1
  <2> QED
    BY <1>4, <1>5, <2>1
<1>7. T \in SUBSET Nat
  OBVIOUS
<1> HIDE DEF T
<1>8. T = Nat
  BY <1>6, <1>7, Counting
<1>9. Sorts(N)
  BY <1>1, <1>8 DEF T
<1>10. {s[i] : i \in 1 .. N} = Range(s)
  BY <1>1 DEF Range
<1> QED
  BY <1>3, <1>9, <1>10 DEF Sorts

\* The participant slice, in the order of the seats.
LEMMA SliceIsSeated ==
    ASSUME NEW c, Orderly(c)
    PROVE  /\ IsInjectiveSeq(Participants(c), Ids)
           /\ Range(Participants(c)) = Present(c)
           /\ \A x, y : Before(Participants(c), x, y) => c.parts[x].seat < c.parts[y].seat
<1> DEFINE P == Present(c)
           R == {e \in P \X P : c.parts[e[1]].seat < c.parts[e[2]].seat}
           s == Listing(P, R)
<1>1. IsFiniteSet(P) /\ P \subseteq Ids /\ \A x \in P : c.parts[x].seat \in Nat
  BY PresentIsParticipant DEF Orderly, Present, Participant
<1>2. \A x, y \in P : <<x, y>> \in R <=> c.parts[x].seat < c.parts[y].seat
  OBVIOUS
<1>3. \A x, y \in P : c.parts[x].seat = c.parts[y].seat => x = y
  BY DEF Orderly, DistinctSeats
<1>4. Participants(c) = s
  BY DEF Participants
<1> HIDE DEF P, R
<1>5. StrictOrderOn(R, P)
  BY <1>1, <1>2, <1>3 DEF StrictOrderOn
<1>6. /\ Cardinality(P) \in Nat /\ s \in [1 .. Cardinality(P) -> P]
      /\ \A i, j \in 1 .. Cardinality(P) : s[i] = s[j] => i = j
      /\ Range(s) = P
      /\ \A i, j \in 1 .. Cardinality(P) : i < j => <<s[i], s[j]>> \in R
  BY <1>1, <1>5, ListingIsBijection
<1> HIDE DEF s
<1>7. IsInjectiveSeq(s, Ids)
  BY <1>1, <1>6 DEF IsInjectiveSeq
<1>8. ASSUME NEW x, NEW y, Before(s, x, y) PROVE c.parts[x].seat < c.parts[y].seat
  BY <1>2, <1>6, <1>8 DEF Before
<1> QED
  BY <1>4, <1>6, <1>7, <1>8 DEF P

-----------------------------------------------------------------------------
LEMMA SameListing ==
    ASSUME NEW S, NEW E, NEW s, IsInjectiveSeq(s, S), Range(s) \subseteq E
    PROVE  IsInjectiveSeq(s, E)
<1>1. /\ s \in Seq(S) /\ Len(s) \in Nat /\ DOMAIN s = 1 .. Len(s)
      /\ \A i \in 1 .. Len(s) : s[i] \in E
  BY DEF IsInjectiveSeq, Range
<1>2. s \in Seq(E)
  BY <1>1
<1> QED
  BY <1>2 DEF IsInjectiveSeq

\* A slice without duplicates whose elements stand along a strict order is the
\* listing along it.
LEMMA ListedAlong ==
    ASSUME NEW E, IsFiniteSet(E), NEW R, StrictOrderOn(R, E),
           NEW s, IsInjectiveSeq(s, E), Range(s) = E,
           \A x, y : Before(s, x, y) => <<x, y>> \in R
    PROVE  s = Listing(E, R)
<1> DEFINE n == Len(s)
           t == Listing(E, R)
           m == Cardinality(E)
<1>1. s \in Seq(E) /\ n \in Nat /\ DOMAIN s = 1 .. n /\ s \in [1 .. n -> E]
  BY DEF IsInjectiveSeq
<1>2. \A i, j \in 1 .. n : s[i] = s[j] => i = j
  BY <1>1 DEF IsInjectiveSeq
<1>3. \A x \in E : \E i \in 1 .. n : s[i] = x
  BY <1>1 DEF Range
<1> HIDE DEF n
<1>4. m = n
  <2>1. s \in Bijection(1 .. n, E)
    BY <1>1, <1>2, <1>3, Fun_IsBij
  <2> QED
    BY <1>1, <2>1, FS_CountingElements DEF ExistsBijection
<1>5. s \in [1 .. m -> E] /\ \A i, j \in 1 .. m : i < j => <<s[i], s[j]>> \in R
  BY <1>1, <1>4 DEF Before
<1> QED
  BY <1>5, SortedIsListing

\* Rotating by the first place of x is rotating by its only place.
LEMMA RotationsAgree ==
    ASSUME NEW S, NEW s, IsInjectiveSeq(s, S), NEW x
    PROVE  RotateIDsToFront(s, x) = RotateToFront(s, x)
<1> DEFINE places == {k \in DOMAIN s : s[k] = x}
           at == CHOOSE k \in places : \A j \in places : k <= j
<1>1. /\ s \in Seq(S) /\ Len(s) \in Nat /\ DOMAIN s = 1 .. Len(s)
      /\ \A i, j \in DOMAIN s : s[i] = s[j] => i = j
  BY DEF IsInjectiveSeq
<1>2. RotateIDsToFront(s, x) =
          IF places = {} \/ 1 \in places THEN s
          ELSE SubSeq(s, at, Len(s)) \o SubSeq(s, 1, at - 1)
  BY DEF RotateIDsToFront
<1>3. CASE x \notin Range(s)
  <2>1. places = {}
    BY <1>3 DEF Range
  <2> QED
    BY <1>2, <1>3, <2>1 DEF RotateToFront
<1>4. CASE x \in Range(s)
  <2> DEFINE k == PositionOf(x, s)
  <2>1. k \in DOMAIN s /\ s[k] = x
    BY <1>4 DEF PositionOf, Range
  <2> HIDE DEF k
  <2>2. places = {k}
    BY <1>1, <2>1
  <2>3. at = k
    <3>1. k <= k
      BY <1>1, <2>1
    <3> HIDE DEF places
    <3> QED
      BY <2>2, <3>1
  <2>4. CASE 1 \in places
    <3>1. x = Head(s) /\ s # <<>>
      BY <1>1, <2>4
    <3> QED
      BY <1>2, <2>4, <3>1, RotateFirst
  <2>5. CASE 1 \notin places
    BY <1>2, <1>4, <2>2, <2>3, <2>5 DEF RotateToFront, k
  <2> QED
    BY <2>4, <2>5
<1> QED
  BY <1>3, <1>4

\* The order along Merge is what the slices come to, for every orderly call.
LEMMA OrdersAgree ==
    ASSUME NEW c, Orderly(c), c.status = "open"
    PROVE  TurnOrderIds(c) = TurnOrderParticipantIDs(c)
<1> DEFINE E == Eligible(c)
           slice == Filtered(Participants(c), E)
           sorted == SortParticipants(c, slice)
           persisted == Filtered(c.order, Range(sorted))
           missing == Filtered(sorted, Range(sorted) \ Range(persisted))
           merged == IF persisted = <<>> THEN sorted ELSE persisted \o missing
           listed == Listing(E, Merge(c))
<1>1. TurnOrderParticipantIDs(c) =
          IF sorted = <<>> THEN <<>>
          ELSE IF c.started THEN RotateIDsToFront(merged, c.current) ELSE sorted
  BY DEF TurnOrderParticipantIDs, Eligible
<1>2. TurnOrderIds(c) = IF c.started THEN RotateToFront(listed, c.current) ELSE listed
  BY DEF TurnOrderIds
<1>3. /\ E \subseteq Present(c) /\ Present(c) \subseteq Ids
      /\ \A x \in E : c.parts[x] \in Participant /\ c.parts[x].roll \in Int
  BY PresentIsParticipant DEF Eligible, Present, Participant
<1>4. IsFiniteSet(E) /\ StrictOrderOn(Merge(c), E)
  BY <1>3, FS_Subset, MergeIsStrict DEF Orderly
<1>5. \A x, y \in E :
          <<x, y>> \in Merge(c) <=>
              \/ Before(Frozen(c), x, y)
              \/ x \in Range(Frozen(c)) /\ y \notin Range(Frozen(c))
              \/ /\ x \notin Range(Frozen(c)) /\ y \notin Range(Frozen(c))
                 /\ SortsBefore(c.parts[x], c.parts[y])
  BY DEF Merge, Before
<1> HIDE DEF E
<1>6. /\ IsInjectiveSeq(slice, E) /\ Range(slice) = E
      /\ \A x, y : Before(slice, x, y) => c.parts[x].seat < c.parts[y].seat
  <2>1. /\ IsInjectiveSeq(slice, Ids) /\ Range(slice) = Present(c) \cap E
        /\ \A x, y : Before(slice, x, y) => Before(Participants(c), x, y)
    BY SliceIsSeated, FilterLists
  <2>2. Range(slice) = E
    BY <1>3, <2>1
  <2> HIDE DEF slice
  <2> QED
    BY <2>1, <2>2, SliceIsSeated, SameListing
<1> HIDE DEF slice
<1>7. IsInjectiveSeq(sorted, E) /\ Range(sorted) = E /\ SortedSlice(c, sorted)
  BY <1>3, <1>6, SortSorts
<1> HIDE DEF sorted
<1>8. \A s : IsInjectiveSeq(s, E) =>
          \A x, y : Before(s, x, y) => x \in E /\ y \in E
  BY DEF IsInjectiveSeq, Before
<1>9. CASE ~c.started
  <2>1. Range(Frozen(c)) = {}
    BY <1>9 DEF Frozen, Range
  <2>2. \A x, y : Before(sorted, x, y) => <<x, y>> \in Merge(c)
    BY <1>5, <1>7, <1>8, <2>1 DEF SortedSlice
  <2>3. sorted = listed
    BY <1>4, <1>7, <2>2, ListedAlong
  <2> QED
    BY <1>1, <1>2, <1>9, <2>3
<1>10. CASE c.started
  <2>1. Frozen(c) = c.order /\ IsInjectiveSeq(c.order, Ids)
    BY <1>10 DEF Frozen, Orderly
  <2>2. /\ IsInjectiveSeq(persisted, E) /\ Range(persisted) = Range(c.order) \cap E
        /\ \A x, y : Before(persisted, x, y) => Before(c.order, x, y)
    <3>1. /\ IsInjectiveSeq(persisted, Ids) /\ Range(persisted) = Range(c.order) \cap E
          /\ \A x, y : Before(persisted, x, y) => Before(c.order, x, y)
      BY <1>7, <2>1, FilterLists
    <3> HIDE DEF persisted
    <3> QED
      BY <3>1, SameListing
  <2> HIDE DEF persisted
  <2>3. /\ IsInjectiveSeq(missing, E) /\ Range(missing) = E \ Range(persisted)
        /\ \A x, y : Before(missing, x, y) => Before(sorted, x, y)
    <3>1. Range(sorted) \cap (Range(sorted) \ Range(persisted)) = E \ Range(persisted)
      BY <1>7
    <3> QED
      BY <1>7, <3>1, FilterLists
  <2> HIDE DEF missing
  <2>4. \A x, y : Before(persisted, x, y) => <<x, y>> \in Merge(c)
    BY <1>5, <1>8, <2>1, <2>2
  <2>5. \A x \in Range(persisted), y \in Range(missing) : <<x, y>> \in Merge(c)
    BY <1>5, <2>1, <2>2, <2>3
  <2>6. \A x, y : Before(missing, x, y) => <<x, y>> \in Merge(c)
    <3> TAKE x, y
    <3> HAVE Before(missing, x, y)
    <3>1. /\ x \in E /\ y \in E /\ x \in Range(missing) /\ y \in Range(missing)
          /\ SortsBefore(c.parts[x], c.parts[y])
      BY <1>7, <1>8, <2>3 DEF SortedSlice, Before, Range
    <3> QED
      BY <1>5, <2>1, <2>2, <2>3, <3>1
  <2>7. /\ IsInjectiveSeq(merged, E) /\ Range(merged) = E
        /\ \A x, y : Before(merged, x, y) => <<x, y>> \in Merge(c)
    <3>1. CASE persisted = <<>>
      <4>1. Range(persisted) = {}
        BY <3>1 DEF Range
      <4>2. \A x, y : Before(sorted, x, y) => <<x, y>> \in Merge(c)
        BY <1>5, <1>7, <1>8, <2>1, <2>2, <4>1 DEF SortedSlice
      <4> QED
        BY <1>7, <3>1, <4>2
    <3>2. CASE persisted # <<>>
      <4>1. Range(persisted) \cap Range(missing) = {} /\ Range(persisted) \cup Range(missing) = E
        BY <2>2, <2>3
      <4>2. merged = persisted \o missing
        BY <3>2
      <4> HIDE DEF merged
      <4> QED
        BY <2>2, <2>3, <2>4, <2>5, <2>6, <4>1, <4>2, JoinLists
    <3> QED
      BY <3>1, <3>2
  <2> HIDE DEF merged
  <2>8. merged = listed
    BY <1>4, <2>7, ListedAlong
  <2>9. TurnOrderIds(c) = RotateIDsToFront(merged, c.current)
    BY <1>2, <1>10, <2>7, <2>8, RotationsAgree
  <2>10. CASE sorted = <<>>
    <3>1. Range(merged) = {}
      BY <1>7, <2>7, <2>10 DEF Range
    <3>2. merged = <<>>
      BY <2>7, <3>1 DEF IsInjectiveSeq, Range
    <3>3. RotateIDsToFront(merged, c.current) = merged
      BY <2>7, <3>1, RotationsAgree DEF RotateToFront
    <3> QED
      BY <1>1, <2>9, <2>10, <3>2, <3>3
  <2>11. CASE sorted # <<>>
    BY <1>1, <1>10, <2>9, <2>11
  <2> QED
    BY <2>10, <2>11
<1> QED
  BY <1>9, <1>10

\* An edit of an orderly open call is orderly and open.
LEMMA EditedIsOrderly ==
    ASSUME NEW c, Orderly(c), c.status = "open", NEW d \in Edited(c)
    PROVE  Orderly(d) /\ d.status = "open"
<1>1. PICK r \in Requests : Accepts(r, c) /\ d \in ClosureOf(r, c)
  BY DEF Edited
<1>2. r \in Request
  BY RequestsAssumption
<1>3. Kept(d, c)
  <2>1. CASE r.op \in {"submit", "enemy", "skip"}
    <3>1. r.target \in Present(c)
      BY <1>1, <2>1 DEF Accepts
    <3> QED
      BY <1>1, <1>2, <2>1, <3>1, SubmitRollOrderly, SetEnemyOrderly, SetSkippedOrderly
         DEF ClosureOf
  <2>2. CASE r.op = "addEnemy"
    <3>1. PICK id \in Ids \ (Roster \cup Present(c)) : d = AddEnemy(c, r, id)
      BY <1>1, <2>2 DEF ClosureOf
    <3> QED
      BY <1>2, <3>1, AddEnemyOrderly
  <2>3. CASE r.op = "endTurn"
    <3>1. TurnOrderIds(c) # <<>>
      BY <1>1, <2>3 DEF Accepts
    <3> QED
      BY <1>1, <2>3, <3>1, PassTurnOrderly DEF ClosureOf
  <2>4. CASE r.op \in {"resort", "remove"}
    BY <1>1, <1>2, <2>4, DropOrderOrderly, RemoveEnemyOrderly DEF ClosureOf
  <2>5. CASE r.op \in {"start", "resolve"}
    BY <1>1, <2>5 DEF ClosureOf
  <2> QED
    BY <1>2, <2>1, <2>2, <2>3, <2>4, <2>5 DEF Request, Ops
<1> QED
  BY <1>3 DEF Kept

-----------------------------------------------------------------------------
(***************************************************************************)
(* The tracker: what handlers hold and what is stored.                     *)
(***************************************************************************)
Sound(c) ==
    /\ Orderly(c)
    /\ TurnStateInSync(c)
    /\ SortedUnlessStarted(c)
    /\ c.expires => c.status = "resolved"

SoundIfAny(c) == c = NoCall \/ Sound(c)

\* A busy handler has a request it may serve; one about to write holds an open
\* call its request was accepted on.
WorkerSound(w) ==
    /\ w \in Worker
    /\ SoundIfAny(w.snap)
    /\ w.stage # "idle" => w.rq \in Requests /\ Authorised(w.rq)
    /\ w.stage \in {"start", "resolve"} => w.rq.op = w.stage
    /\ w.stage = "commit" =>
          /\ w.snap # NoCall /\ w.snap.status = "open"
          /\ Accepts(w.rq, w.snap)

IInv ==
    /\ SoundIfAny(call)
    /\ worker \in [Handlers -> Worker]
    /\ \A h \in Handlers : WorkerSound(worker[h])

-----------------------------------------------------------------------------
LEMMA OneWorkerMoves ==
    ASSUME IInv, NEW h \in Handlers, NEW w, WorkerSound(w),
           worker' = [worker EXCEPT ![h] = w]
    PROVE  /\ worker' \in [Handlers -> Worker]
           /\ \A g \in Handlers : WorkerSound(worker'[g])
<1>1. w \in Worker
  BY DEF WorkerSound
<1>2. worker' \in [Handlers -> Worker]
  BY <1>1 DEF IInv
<1>3. ASSUME NEW g \in Handlers PROVE WorkerSound(worker'[g])
  <2>1. worker'[g] = IF g = h THEN w ELSE worker[g]
    BY DEF IInv
  <2>2. QED
    BY <2>1 DEF IInv
<1>4. QED
  BY <1>2, <1>3

LEMMA IdleIsSound == WorkerSound(Idle)
<1>1. MaxTries \in Nat /\ 0 \in 0 .. MaxTries - 1
  BY DEF MaxTries
<1>2. QED
  BY <1>1 DEF WorkerSound, SoundIfAny, Idle, Worker, Stages

\* Whoever answers is idle, and that is a sound state to be in.
LEMMA AnswerKeepsSound ==
    ASSUME IInv, NEW h \in Handlers, Answer(h)
    PROVE  /\ worker' \in [Handlers -> Worker]
           /\ \A g \in Handlers : WorkerSound(worker'[g])
BY IdleIsSound, OneWorkerMoves DEF Answer

\* A busy handler may go on, outside "commit", with any sound call in hand.
LEMMA BecomeKeepsSound ==
    ASSUME IInv, NEW h \in Handlers, worker[h].stage # "idle",
           NEW stage \in {"commit", "reread", "publish"}, NEW snap, SoundIfAny(snap),
           stage = "commit" =>
               /\ snap # NoCall /\ snap.status = "open"
               /\ Accepts(worker[h].rq, snap),
           Become(h, stage, snap)
    PROVE  /\ worker' \in [Handlers -> Worker]
           /\ \A g \in Handlers : WorkerSound(worker'[g])
<1> DEFINE w == [worker[h] EXCEPT !.stage = stage, !.snap = snap]
<1>1. WorkerSound(worker[h]) /\ worker[h] \in Worker
  BY DEF IInv, WorkerSound
<1>2. snap \in Call \cup {NoCall}
  BY DEF SoundIfAny, Sound, Orderly
<1>3. /\ w \in Worker /\ w.stage = stage /\ w.snap = snap
      /\ w.rq = worker[h].rq
  BY <1>1, <1>2 DEF Worker, Stages
<1>4. worker' = [worker EXCEPT ![h] = w]
  BY DEF Become, IInv
<1> HIDE DEF w
<1>5. WorkerSound(w)
  BY <1>1, <1>3 DEF WorkerSound
<1>6. QED
  BY <1>4, <1>5, OneWorkerMoves

\* What UpdateWithVersion stores: an open orderly call, synced and numbered.
LEMMA SyncedIsSound ==
    ASSUME NEW c, Orderly(c), c.status = "open", ~c.expires, NEW n \in Nat
    PROVE  Sound([SyncTurnState(c) EXCEPT !.version = n])
<1> DEFINE d == SyncTurnState(c)
           e == [d EXCEPT !.version = n]
<1>1. /\ Orderly(d) /\ TurnStateInSync(d)
      /\ d = [c EXCEPT !.order = d.order, !.current = d.current]
  BY SyncBringsInSync
<1> HIDE DEF d
<1>2. c \in Call /\ d \in Call
  BY <1>1 DEF Orderly
<1>3. d.expires = c.expires
  BY <1>1, <1>2 DEF Call
<1>4. /\ e \in Call /\ e.parts = d.parts /\ e.order = d.order
      /\ e.seats = d.seats /\ e.current = d.current /\ e.expires = d.expires
      /\ e.started = d.started
  BY <1>2 DEF Call
<1> HIDE DEF e
<1>5. Present(e) = Present(d) /\ Eligible(e) = Eligible(d)
  BY <1>4 DEF Present, Eligible
<1>6. Orderly(e)
  BY <1>1, <1>4, <1>5 DEF Orderly, DistinctSeats
<1>7. TurnStateInSync(e)
  BY <1>1, <1>4, <1>5 DEF TurnStateInSync
<1>8. SortedUnlessStarted(e)
  BY <1>4, SyncSorts, SortedDependsOn DEF d
<1>9. QED
  BY <1>3, <1>4, <1>6, <1>7, <1>8 DEF Sound, e, d

LEMMA ResolvedIsSound ==
    ASSUME NEW c, Sound(c)
    PROVE  Sound(Resolved(c))
<1> DEFINE d == Resolved(c)
<1>1. /\ d \in Call /\ d.parts = c.parts /\ d.order = c.order
      /\ d.seats = c.seats /\ d.current = c.current /\ d.status = "resolved"
      /\ d.started = c.started
  BY DEF Sound, Orderly, Call, Resolved
<1> HIDE DEF d
<1>2. Present(d) = Present(c) /\ Eligible(d) = Eligible(c)
  BY <1>1 DEF Present, Eligible
<1>3. Orderly(d)
  BY <1>1, <1>2 DEF Orderly, DistinctSeats, Sound
<1>4. TurnStateInSync(d)
  BY <1>1, <1>2 DEF TurnStateInSync, Sound
<1>5. SortedUnlessStarted(d)
  BY <1>1, SortedDependsOn DEF Sound
<1>6. QED
  BY <1>1, <1>3, <1>4, <1>5 DEF Sound, d

\* Each of the seven writes: an orderly open call in, a sound document out.
LEMMA WriteKeepsSound ==
    ASSUME IInv, NEW h \in Handlers, worker[h].stage = "commit",
           NEW c, Kept(c, worker[h].snap), Write(h, c)
    PROVE  IInv'
<1> DEFINE snap == worker[h].snap
           n == snap.version + 1
           next == [SyncTurnState(c) EXCEPT !.version = n]
<1>1. WorkerSound(worker[h]) /\ Sound(snap) /\ snap.status = "open"
  BY DEF IInv, WorkerSound, SoundIfAny
<1>2. ~snap.expires /\ n \in Nat
  BY <1>1 DEF Sound, Orderly, Call
<1>3. Orderly(c) /\ c.status = "open" /\ ~c.expires
  BY <1>1, <1>2 DEF Kept
<1>4. call' = next /\ Become(h, "publish", next)
  BY DEF Write
<1> HIDE DEF n, snap
<1>5. Sound(next)
  BY <1>2, <1>3, SyncedIsSound
<1> HIDE DEF next
<1>6. SoundIfAny(next)
  BY <1>5 DEF SoundIfAny
<1>7. /\ worker' \in [Handlers -> Worker]
      /\ \A g \in Handlers : WorkerSound(worker'[g])
  BY <1>4, <1>6, BecomeKeepsSound
<1>8. QED
  BY <1>4, <1>6, <1>7 DEF IInv, SoundIfAny

\* c is what the closure of the request r makes of the call s.
Edits(r, s, c) ==
    \/ r.op = "submit" /\ c = SubmitRoll(s, r)
    \/ r.op = "enemy" /\ c = SetEnemy(s, r)
    \/ /\ r.op = "addEnemy"
       /\ \E id \in Ids \ (Roster \cup Present(s)) : c = AddEnemy(s, r, id)
    \/ r.op = "endTurn" /\ c = PassTurn(s)
    \/ r.op = "resort" /\ c = DropOrder(s)
    \/ r.op = "skip" /\ c = SetSkipped(s, r)
    \/ r.op = "remove" /\ c = RemoveEnemy(s, r)

LEMMA CommitWritesKept ==
    ASSUME IInv, NEW h \in Handlers, Commit(h)
    PROVE  /\ worker[h].stage = "commit"
           /\ \E c : /\ Edits(worker[h].rq, worker[h].snap, c)
                    /\ Kept(c, worker[h].snap)
                    /\ Write(h, c)
<1> DEFINE r == worker[h].rq
           snap == worker[h].snap
<1>1. worker[h].stage = "commit"
  BY DEF Commit, CommitSubmit, CommitEnemy, CommitNewEnemy, CommitEndTurn,
         CommitResort, CommitSkip, CommitRemove, Committing
<1>2. /\ snap # NoCall /\ Orderly(snap) /\ snap.status = "open"
      /\ r \in Request /\ Accepts(r, snap)
  BY <1>1, RequestsAssumption DEF IInv, WorkerSound, SoundIfAny, Sound
<1>3. CASE CommitSubmit(h)
  <2>1. r.target \in Present(snap)
    BY <1>2, <1>3 DEF CommitSubmit, Committing, Accepts
  <2>2. Kept(SubmitRoll(snap, r), snap)
    BY <1>2, <2>1, SubmitRollOrderly
  <2>3. QED
    BY <1>1, <1>3, <2>2 DEF CommitSubmit, Committing, Edits
<1>4. CASE CommitEnemy(h)
  <2>1. r.target \in Present(snap)
    BY <1>2, <1>4 DEF CommitEnemy, Committing, Accepts
  <2>2. Kept(SetEnemy(snap, r), snap)
    BY <1>2, <2>1, SetEnemyOrderly
  <2>3. QED
    BY <1>1, <1>4, <2>2 DEF CommitEnemy, Committing, Edits
<1>5. CASE CommitSkip(h)
  <2>1. r.target \in Present(snap)
    BY <1>2, <1>5 DEF CommitSkip, Committing, Accepts
  <2>2. Kept(SetSkipped(snap, r), snap)
    BY <1>2, <2>1, SetSkippedOrderly
  <2>3. QED
    BY <1>1, <1>5, <2>2 DEF CommitSkip, Committing, Edits
<1>6. CASE CommitNewEnemy(h)
  <2>1. PICK id \in Ids : FreshId(id) /\ Write(h, AddEnemy(snap, r, id))
    BY <1>6 DEF CommitNewEnemy
  <2>2. id \notin Present(snap) /\ id \notin Roster
    BY <1>2, <2>1 DEF FreshId
  <2>3. Kept(AddEnemy(snap, r, id), snap)
    BY <1>2, <2>2, AddEnemyOrderly
  <2>4. QED
    BY <1>1, <1>6, <2>1, <2>2, <2>3 DEF CommitNewEnemy, Committing, Edits
<1>7. CASE CommitEndTurn(h)
  <2>1. TurnOrderIds(snap) # <<>>
    BY <1>2, <1>7 DEF CommitEndTurn, Committing, Accepts
  <2>2. Kept(PassTurn(snap), snap)
    BY <1>2, <2>1, PassTurnOrderly
  <2>3. QED
    BY <1>1, <1>7, <2>2 DEF CommitEndTurn, Committing, Edits
<1>8. CASE CommitResort(h)
  BY <1>1, <1>2, <1>8, DropOrderOrderly DEF CommitResort, Committing, Edits
<1>9. CASE CommitRemove(h)
  BY <1>1, <1>2, <1>9, RemoveEnemyOrderly DEF CommitRemove, Committing, Edits
<1>10. QED
  BY <1>3, <1>4, <1>5, <1>6, <1>7, <1>8, <1>9 DEF Commit

LEMMA CommitKeepsSound ==
    ASSUME IInv, NEW h \in Handlers, Commit(h)
    PROVE  IInv'
BY CommitWritesKept, WriteKeepsSound

LEMMA InitIsSound == Init => IInv
BY IdleIsSound DEF Init, IInv, SoundIfAny, WorkerSound

LEMMA ServeKeepsSound ==
    ASSUME IInv, NEW h \in Handlers, Serve(h)
    PROVE  IInv'
<1> USE DEF Stages
<1>1. CASE StartReplace(h)
  <2>1. PICK e \in Encounters : /\ call' = FreshCall(e)
                                /\ Become(h, "publish", FreshCall(e))
    BY <1>1 DEF StartReplace
  <2>2. SoundIfAny(FreshCall(e))
    BY FreshCallOrderly DEF SoundIfAny, Sound
  <2>3. QED
    BY <1>1, <2>1, <2>2, BecomeKeepsSound DEF StartReplace, IInv
<1>2. CASE ResolveOpen(h)
  <2>1. CASE IsOpen(call)
    <3>1. SoundIfAny(Resolved(call))
      BY <2>1, ResolvedIsSound DEF IInv, SoundIfAny, IsOpen
    <3>2. QED
      BY <1>2, <2>1, <3>1, BecomeKeepsSound DEF ResolveOpen, IInv
  <2>2. CASE ~IsOpen(call)
    <3>1. SoundIfAny(NoCall)
      BY DEF SoundIfAny
    <3>2. QED
      BY <1>2, <2>2, <3>1, BecomeKeepsSound DEF ResolveOpen, IInv
  <2>3. QED
    BY <2>1, <2>2
<1>3. CASE ResolveReread(h)
  <2>1. CASE call = NoCall
    BY <1>3, <2>1, AnswerKeepsSound DEF ResolveReread, IInv
  <2>2. CASE call # NoCall
    BY <1>3, <2>2, BecomeKeepsSound DEF ResolveReread, IInv
  <2>3. QED
    BY <2>1, <2>2
<1>4. CASE LoadRejected(h)
  BY <1>4, AnswerKeepsSound DEF LoadRejected, IInv
<1>5. CASE Load(h)
  BY <1>5, BecomeKeepsSound DEF Load, IInv, IsOpen
<1>6. CASE Commit(h)
  BY <1>6, CommitKeepsSound
<1>7. CASE Conflict(h)
  <2>1. CASE worker[h].attempt < MaxTries - 1
    <3> DEFINE tries == worker[h].attempt + 1
               w == [worker[h] EXCEPT !.stage = "load", !.snap = NoCall,
                                      !.attempt = tries]
    <3>1. WorkerSound(worker[h]) /\ worker[h] \in Worker
      BY DEF IInv, WorkerSound
    <3>2. tries \in 0 .. MaxTries - 1
      BY <2>1, <3>1 DEF Worker, MaxTries
    <3>3. worker' = [worker EXCEPT ![h] = w]
      BY <1>7, <2>1 DEF Conflict, IInv
    <3> HIDE DEF tries
    <3>4. /\ w \in Worker /\ w.stage = "load" /\ w.snap = NoCall
          /\ w.rq = worker[h].rq
      BY <3>1, <3>2 DEF Worker
    <3> HIDE DEF w
    <3>5. WorkerSound(w)
      BY <1>7, <3>1, <3>4 DEF WorkerSound, SoundIfAny, Conflict
    <3>6. QED
      BY <1>7, <3>3, <3>5, OneWorkerMoves DEF Conflict, IInv
  <2>2. CASE ~(worker[h].attempt < MaxTries - 1)
    BY <1>7, <2>2, AnswerKeepsSound DEF Conflict, IInv
  <2>3. QED
    BY <2>1, <2>2
<1>8. CASE Publish(h)
  BY <1>8, AnswerKeepsSound DEF Publish, IInv
<1>9. QED
  BY <1>1, <1>2, <1>3, <1>4, <1>5, <1>6, <1>7, <1>8 DEF Serve

LEMMA NextKeepsSound == IInv /\ [Next]_vars => IInv'
<1> SUFFICES ASSUME IInv, [Next]_vars PROVE IInv'
  OBVIOUS
<1>1. ASSUME NEW h \in Handlers, Serve(h) PROVE IInv'
  BY <1>1, ServeKeepsSound
<1>2. ASSUME NEW h \in Handlers, Abort(h) PROVE IInv'
  BY <1>2, AnswerKeepsSound DEF Abort, IInv
<1>3. ASSUME NEW h \in Handlers, NEW r \in Requests, Receive(h, r) PROVE IInv'
  <2> DEFINE w == [worker[h] EXCEPT !.stage = FirstStage(r), !.rq = r]
  <2>1. WorkerSound(worker[h]) /\ worker[h] \in Worker
    BY DEF IInv, WorkerSound
  <2>2. /\ FirstStage(r) \in Stages /\ FirstStage(r) # "commit"
        /\ FirstStage(r) \in {"start", "resolve"} => r.op = FirstStage(r)
    BY DEF FirstStage, Stages
  <2>3. /\ w \in Worker /\ w.stage = FirstStage(r) /\ w.snap = worker[h].snap
        /\ w.rq = r
    BY <2>1, <2>2 DEF Worker
  <2>4. worker' = [worker EXCEPT ![h] = w]
    BY <1>3 DEF Receive, IInv
  <2> HIDE DEF w
  <2>5. WorkerSound(w)
    BY <1>3, <2>1, <2>2, <2>3 DEF WorkerSound, Receive
  <2>6. QED
    BY <1>3, <2>4, <2>5, OneWorkerMoves DEF Receive, IInv
<1>4. CASE Expire
  BY <1>4 DEF Expire, IInv, SoundIfAny
<1>5. CASE UNCHANGED vars
  BY <1>5 DEF vars, IInv
<1>6. QED
  BY <1>1, <1>2, <1>3, <1>4, <1>5 DEF Next

LEMMA AlwaysSound == Spec => []IInv
BY InitIsSound, NextKeepsSound, PTL DEF Spec

\* Type correctness of the document and of every handler.
THEOREM TypesHold == Spec => []TypeOK
<1>1. IInv => TypeOK
  BY DEF IInv, TypeOK, SoundIfAny, Sound, Orderly
<1>2. QED
  BY <1>1, AlwaysSound, PTL

\* However the handlers interleave, conflict, abort and restart encounters, a
\* stored order lists exactly those who take turns, once each, and the turn is
\* with the first of them.
THEOREM TurnsInSync == Spec => []TurnInSync
<1>1. IInv => TurnInSync
  BY DEF IInv, TurnInSync, SoundIfAny, Sound
<1>2. QED
  BY <1>1, AlwaysSound, PTL

\* A document the TTL index may delete is a resolved one, also when a late
\* write has reopened a resolved call.
THEOREM OpenNeverExpires == Spec => []OpenCallsNeverExpire
<1>1. IInv => OpenCallsNeverExpire
  BY DEF IInv, OpenCallsNeverExpire, SoundIfAny, Sound
<1>2. QED
  BY <1>1, AlwaysSound, PTL

\* What a client is sent and what end-turn starts from are the same order: the
\* one stored in an open document is the one derived from it.
THEOREM OrdersAreStable == Spec => []StoredOrderIsStable
<1>1. IInv => StoredOrderIsStable
  BY SyncIsStable DEF IInv, SoundIfAny, Sound, IsOpen, StoredOrderIsStable
<1>2. QED
  BY <1>1, AlwaysSound, PTL

\* Whatever was rolled, skipped, added and removed, and however the handlers
\* overlapped, a round from here serves everybody once and restores the order.
THEOREM RoundsAreFair == Spec => []ARoundIsFair
<1>1. ASSUME IInv PROVE ARoundIsFair
  <2> SUFFICES ASSUME IsOpen(call) PROVE RoundIsFair(call)
    BY DEF ARoundIsFair
  <2>1. CASE call.order # <<>>
    BY <1>1, <2>1, RunningRoundIsFair DEF IInv, SoundIfAny, Sound, IsOpen, Running
  <2>2. CASE call.order = <<>>
    <3>1. Range(call.order) = Eligible(call)
      BY <1>1 DEF IInv, SoundIfAny, Sound, IsOpen, TurnStateInSync, IsListingOf
    <3>2. Eligible(call) = {}
      BY <2>2, <3>1 DEF Range
    <3> QED
      BY <3>2 DEF RoundIsFair
  <2> QED
    BY <2>1, <2>2
<1> QED
  BY <1>1, AlwaysSound, PTL

\* On every call the tracker ever stores, and on every edit of it, filtering,
\* sorting, merging and rotating the slices as turnorder.go does yields the
\* declarative order that all the other theorems are about.
THEOREM CodeAgrees == Spec => []AgreesWithCode
<1>1. ASSUME IInv PROVE AgreesWithCode
  <2> SUFFICES ASSUME IsOpen(call), NEW d \in {call} \cup Edited(call)
               PROVE  TurnOrderIds(d) = TurnOrderParticipantIDs(d)
    BY DEF AgreesWithCode, OrderAgreesWithCode
  <2>1. Orderly(call) /\ call.status = "open"
    BY <1>1 DEF IInv, SoundIfAny, Sound, IsOpen
  <2> QED
    BY <2>1, EditedIsOrderly, OrdersAgree
<1> QED
  BY <1>1, AlwaysSound, PTL

-----------------------------------------------------------------------------
(***************************************************************************)
(* One encounter's history, under QuietSpec: the copy of a handler about   *)
(* to write is never newer than the stored call and, if their versions     *)
(* agree, is that call but for a Resolve in between.                       *)
(***************************************************************************)
UpToDate(w) ==
    w.stage = "commit" /\ call # NoCall =>
        /\ w.snap.version <= call.version
        /\ w.snap.version = call.version => Content(w.snap) = Content(call)

HistoryInv == IInv /\ \A h \in Handlers : UpToDate(worker[h])

QuietNext == Next /\ QuietStart

\* A write that goes through replaces the call its copy was taken from.
LEMMA MatchIsCurrent ==
    ASSUME HistoryInv, NEW h \in Handlers, worker[h].stage = "commit",
           VersionMatches(h)
    PROVE  call # NoCall /\ Content(worker[h].snap) = Content(call)
BY DEF HistoryInv, UpToDate, VersionMatches

\* Who commits in a step is the one who writes in it.
LEMMA CommitsWrites ==
    ASSUME IInv, Next, NEW h \in Handlers, Commits(h)
    PROVE  Commit(h) /\ VersionMatches(h)
<1>1. ASSUME NEW g \in Handlers, NEW w, worker' = [worker EXCEPT ![g] = w]
      PROVE  g = h /\ w.stage = "publish"
  BY <1>1 DEF IInv, Commits
<1>2. ~Expire
  BY DEF Expire, Commits
<1>3. PICK g \in Handlers :
         Serve(g) \/ Abort(g) \/ (\E r \in Requests : Receive(g, r))
  BY <1>2 DEF Next
<1>4. g = h
  <2>1. \E w : worker' = [worker EXCEPT ![g] = w]
    <3>1. CASE Serve(g) \/ Abort(g)
      BY <3>1 DEF Serve, Abort, StartReplace, ResolveOpen, ResolveReread, LoadRejected,
             Load, Commit, CommitSubmit, CommitEnemy, CommitNewEnemy, CommitEndTurn,
             CommitResort, CommitSkip, CommitRemove, Write, Conflict, Publish,
             Become, Answer, IInv
    <3>2. CASE \E r \in Requests : Receive(g, r)
      BY <3>2 DEF Receive, IInv
    <3> QED
      BY <1>3, <3>1, <3>2
  <2> QED
    BY <1>1, <2>1
<1>5. worker[h].stage = "commit"
  BY DEF Commits
<1>6. ~Conflict(h) /\ ~Abort(h)
  <2>1. \A w : worker' = [worker EXCEPT ![h] = w] => w.stage = "publish"
    BY <1>1
  <2>2. ~Answer(h)
    <3>1. Idle.stage = "idle"
      BY DEF Idle
    <3> QED
      BY <2>1, <3>1 DEF Answer
  <2>3. worker' # [worker EXCEPT ![h].stage = "load", ![h].snap = NoCall,
                                 ![h].attempt = @ + 1]
    BY DEF Commits, IInv, WorkerSound, Worker
  <2> QED
    BY <2>2, <2>3 DEF Conflict, Abort
<1>7. Commit(h)
  BY <1>3, <1>4, <1>5, <1>6 DEF Serve, Receive, StartReplace, ResolveOpen, ResolveReread,
     LoadRejected, Load, Publish
<1> QED
  BY <1>7 DEF Commit, CommitSubmit, CommitEnemy, CommitNewEnemy, CommitEndTurn,
     CommitResort, CommitSkip, CommitRemove, Write

\* A step that leaves the call and brings no copy into "commit".
LEMMA SameCallKeepsHistory ==
    ASSUME HistoryInv, IInv', UNCHANGED call, NEW h \in Handlers, NEW w,
           worker' = [worker EXCEPT ![h] = w], w.stage # "commit"
    PROVE  HistoryInv'
BY DEF HistoryInv, IInv, UpToDate, Content

\* A write makes every other copy older than the call it stores.
LEMMA WriteKeepsHistory ==
    ASSUME HistoryInv, IInv', NEW h \in Handlers, worker[h].stage = "commit",
           NEW c, Kept(c, worker[h].snap), Write(h, c)
    PROVE  HistoryInv'
<1> DEFINE n == worker[h].snap.version
           m == n + 1
           d == SyncTurnState(c)
<1>1. /\ call # NoCall /\ call.version = n
      /\ call' = [d EXCEPT !.version = m]
      /\ Become(h, "publish", call')
  BY DEF Write, VersionMatches
<1>2. n \in Nat
  BY DEF HistoryInv, IInv, WorkerSound, SoundIfAny, Sound, Orderly, Call
<1>3. d \in Call
  BY SyncBringsInSync DEF Kept, Orderly, HistoryInv, IInv, WorkerSound
<1> HIDE DEF d, n
<1>4. call'.version = m
  BY <1>1, <1>3 DEF Call
<1>5. ASSUME NEW g \in Handlers PROVE UpToDate(worker[g])'
  <2>1. CASE g = h
    BY <1>1, <2>1 DEF Become, UpToDate, HistoryInv, IInv
  <2>2. CASE g # h /\ worker[g].stage = "commit"
    <3>1. worker'[g] = worker[g]
      BY <1>1, <2>2 DEF Become, HistoryInv, IInv
    <3>2. worker[g].snap.version \in Nat /\ worker[g].snap.version <= n
      BY <1>1, <2>2 DEF HistoryInv, IInv, WorkerSound, SoundIfAny, Sound, Orderly,
         Call, UpToDate
    <3> QED
      BY <1>2, <1>4, <3>1, <3>2 DEF UpToDate
  <2>3. CASE g # h /\ worker[g].stage # "commit"
    BY <1>1, <2>3 DEF Become, UpToDate, HistoryInv, IInv
  <2> QED
    BY <2>1, <2>2, <2>3
<1> QED
  BY <1>5 DEF HistoryInv

LEMMA HistoryKept == HistoryInv /\ [QuietNext]_vars => HistoryInv'
<1> SUFFICES ASSUME HistoryInv, [QuietNext]_vars PROVE HistoryInv'
  OBVIOUS
<1>1. IInv /\ IInv'
  BY NextKeepsSound DEF HistoryInv, QuietNext
<1>2. ASSUME NEW h \in Handlers, StartReplace(h), QuietStart PROVE HistoryInv'
  <2>1. Starts(h)
    BY <1>1, <1>2 DEF StartReplace, Starts, Become, IInv
  <2>2. \A g \in Handlers : worker'[g].stage # "commit"
    BY <1>1, <1>2, <2>1 DEF QuietStart, StartReplace, Become, IInv
  <2> QED
    BY <1>1, <2>2 DEF HistoryInv, UpToDate
<1>3. ASSUME NEW h \in Handlers, ResolveOpen(h) PROVE HistoryInv'
  <2>1. PICK stage \in {"publish", "reread"} : \E snap : Become(h, stage, snap)
    BY <1>3 DEF ResolveOpen
  <2>2. \A g \in Handlers : \/ worker'[g] = worker[g]
                            \/ worker'[g].stage # "commit"
    BY <1>1, <2>1 DEF Become, IInv, WorkerSound, Worker
  <2>3. CASE ~IsOpen(call)
    BY <1>1, <1>3, <2>2, <2>3 DEF HistoryInv, UpToDate, ResolveOpen
  <2>4. CASE IsOpen(call)
    <3>1. call \in Call /\ call # NoCall /\ call' = Resolved(call)
      BY <1>1, <1>3, <2>4 DEF ResolveOpen, IsOpen, IInv, SoundIfAny, Sound, Orderly
    <3>2. call'.version = call.version /\ Content(call') = Content(call)
      BY <3>1 DEF Resolved, Content, Call
    <3> QED
      BY <1>1, <2>2, <3>1, <3>2 DEF HistoryInv, UpToDate
  <2> QED
    BY <2>3, <2>4
<1>4. ASSUME NEW h \in Handlers, Load(h) PROVE HistoryInv'
  <2>1. \A g \in Handlers : \/ worker'[g] = worker[g]
                            \/ worker'[g].snap = call
    BY <1>1, <1>4 DEF Load, Become, IInv
  <2>2. call.version \in Nat
    BY <1>1, <1>4 DEF Load, IsOpen, IInv, SoundIfAny, Sound, Orderly, Call
  <2> QED
    BY <1>1, <1>4, <2>1, <2>2 DEF HistoryInv, UpToDate, Load
<1>5. ASSUME NEW h \in Handlers, Commit(h) PROVE HistoryInv'
  BY <1>1, <1>5, CommitWritesKept, WriteKeepsHistory
<1>6. ASSUME NEW h \in Handlers,
             \/ Abort(h) \/ (\E r \in Requests : Receive(h, r))
             \/ ResolveReread(h) \/ LoadRejected(h) \/ Conflict(h) \/ Publish(h)
      PROVE  HistoryInv'
  <2>1. UNCHANGED call
    BY <1>6 DEF Abort, Receive, ResolveReread, LoadRejected, Conflict, Publish
  <2>2. \A g \in Handlers : \/ worker'[g] = worker[g]
                            \/ worker'[g].stage # "commit"
    <3>1. CASE Answer(h)
      <4>1. Idle.stage # "commit"
        BY DEF Idle
      <4> QED
        BY <1>1, <3>1, <4>1 DEF Answer, IInv
    <3>2. CASE Become(h, "publish", call)
      BY <1>1, <3>2 DEF Become, IInv, WorkerSound, Worker
    <3>3. CASE \E r \in Requests : Receive(h, r)
      <4>1. PICK r \in Requests : Receive(h, r)
        BY <3>3
      <4>2. FirstStage(r) # "commit"
        BY DEF FirstStage
      <4> QED
        BY <1>1, <4>1, <4>2 DEF Receive, IInv, WorkerSound, Worker
    <3>4. CASE Conflict(h) /\ ~Answer(h)
      BY <1>1, <3>4 DEF Conflict, IInv, WorkerSound, Worker
    <3> QED
      BY <1>6, <3>1, <3>2, <3>3, <3>4 DEF Abort, ResolveReread, LoadRejected, Publish
  <2> QED
    BY <1>1, <2>1, <2>2 DEF HistoryInv, UpToDate
<1>7. CASE Expire
  BY <1>1, <1>7 DEF Expire, HistoryInv, UpToDate
<1>8. CASE UNCHANGED vars
  BY <1>1, <1>8 DEF vars, HistoryInv, UpToDate
<1> QED
  BY <1>2, <1>3, <1>4, <1>5, <1>6, <1>7, <1>8 DEF QuietNext, Next, Serve

LEMMA AlwaysCurrent == QuietSpec => []HistoryInv
<1>1. Init => HistoryInv
  BY InitIsSound DEF HistoryInv, Init, UpToDate
<1> QED
  BY <1>1, HistoryKept, PTL DEF QuietSpec, QuietNext

\* No lost update: a write that goes through replaces the very document it was
\* computed from, but for a Resolve in between, however many handlers race.
THEOREM WritesLoseNothing == QuietSpec => NoLostUpdate
<1>1. HistoryInv /\ [QuietNext]_vars =>
         [\A h \in Handlers : Commits(h) =>
             call # NoCall /\ Content(worker[h].snap) = Content(call)]_vars
  BY CommitsWrites, MatchIsCurrent DEF HistoryInv, QuietNext, Commits
<1> QED
  BY <1>1, AlwaysCurrent, PTL DEF QuietSpec, QuietNext, NoLostUpdate

\* Whose end-turn goes through, the DM's apart, is the one whose turn it is in
\* the stored call: no turn is ended twice and none by somebody else.
THEOREM PlayersEndTheirOwn == QuietSpec => PlayersEndOnlyTheirTurn
<1>1. ASSUME HistoryInv, QuietNext, NEW h \in Handlers,
             Commits(h), worker[h].rq.op = "endTurn", worker[h].rq.by # DM
      PROVE  call # NoCall /\ call.current = worker[h].rq.by
  <2> DEFINE snap == worker[h].snap
             r == worker[h].rq
  <2>1. worker[h].stage = "commit" /\ VersionMatches(h)
    BY <1>1, CommitsWrites DEF HistoryInv, QuietNext, Commits
  <2>2. call # NoCall /\ Content(snap) = Content(call)
    BY <1>1, <2>1, MatchIsCurrent
  <2>3. Sound(snap) /\ snap.status = "open" /\ Accepts(r, snap)
    BY <1>1, <2>1 DEF HistoryInv, IInv, WorkerSound, SoundIfAny
  <2>4. TurnOrderIds(snap) # <<>> /\ r.by = Head(TurnOrderIds(snap))
    BY <1>1, <2>3 DEF Accepts
  <2>5. snap.current = r.by
    BY <2>3, <2>4, DerivedHeadIsCurrent DEF Sound
  <2>6. snap \in Call /\ call \in Call
    BY <1>1, <2>2, <2>3 DEF Sound, Orderly, HistoryInv, IInv, SoundIfAny
  <2>7. Content(snap).current = snap.current /\ Content(call).current = call.current
    BY <2>6 DEF Content, Call
  <2> QED
    BY <2>2, <2>5, <2>7
<1>2. HistoryInv /\ [QuietNext]_vars =>
         [\A h \in Handlers :
             Commits(h) /\ worker[h].rq.op = "endTurn" /\ worker[h].rq.by # DM
             => call # NoCall /\ call.current = worker[h].rq.by]_vars
  BY <1>1
<1> QED
  BY <1>2, AlwaysCurrent, PTL DEF QuietSpec, QuietNext, PlayersEndOnlyTheirTurn

-----------------------------------------------------------------------------
(***************************************************************************)
(* The handlers together implement Encounter.  The instance has operators  *)
(* of its own for the order and the edits; they are the same ones.         *)
(***************************************************************************)
LEMMA SameOrder ==
    \A c : /\ Abstract!Present(c) = Present(c)
           /\ Abstract!TurnOrderIds(c) = TurnOrderIds(c)
           /\ Abstract!SyncTurnState(c) = SyncTurnState(c)
<1>1. \A S, R : Abstract!Listing(S, R) = Listing(S, R)
  BY DEF Abstract!Listing, Listing, Abstract!Cardinality, Cardinality
<1>2. \A c : Abstract!Present(c) = Present(c)
  BY DEF Abstract!Present, Present
<1>3. \A c : Abstract!Eligible(c) = Eligible(c)
  BY <1>2 DEF Abstract!Eligible, Eligible
<1>4. \A s, x : Abstract!RotateToFront(s, x) = RotateToFront(s, x)
  BY DEF Abstract!RotateToFront, RotateToFront, Abstract!PositionOf, PositionOf,
     Abstract!Range, Range
<1>5. \A c : Abstract!Merge(c) = Merge(c)
  BY <1>3 DEF Abstract!Merge, Merge, Abstract!Range, Range, Abstract!SortsBefore,
     SortsBefore, Abstract!Frozen, Frozen
<1>6. \A c : Abstract!TurnOrderIds(c) = TurnOrderIds(c)
  BY <1>1, <1>3, <1>4, <1>5 DEF Abstract!TurnOrderIds, TurnOrderIds
<1>7. \A c : Abstract!SyncTurnState(c) = SyncTurnState(c)
  BY <1>6 DEF Abstract!SyncTurnState, SyncTurnState
<1> QED
  BY <1>2, <1>6, <1>7

LEMMA SameRequests ==
    \A r, c : /\ Abstract!Authorised(r) <=> Authorised(r)
              /\ Abstract!Accepts(r, c) <=> Accepts(r, c)
BY SameOrder DEF Abstract!Authorised, Authorised, Abstract!Accepts, Accepts

LEMMA SameEdits ==
    /\ \A c, r : /\ Abstract!SubmitRoll(c, r) = SubmitRoll(c, r)
                 /\ Abstract!SetEnemy(c, r) = SetEnemy(c, r)
                 /\ Abstract!SetSkipped(c, r) = SetSkipped(c, r)
                 /\ Abstract!RemoveEnemy(c, r) = RemoveEnemy(c, r)
                 /\ \A id : Abstract!AddEnemy(c, r, id) = AddEnemy(c, r, id)
    /\ \A c : /\ Abstract!PassTurn(c) = PassTurn(c)
              /\ Abstract!DropOrder(c) = DropOrder(c)
              /\ Abstract!Resolved(c) = Resolved(c)
    /\ \A e : Abstract!FreshCall(e) = FreshCall(e)
<1>1. \A c, r : /\ Abstract!SubmitRoll(c, r) = SubmitRoll(c, r)
                /\ Abstract!SetEnemy(c, r) = SetEnemy(c, r)
                /\ Abstract!SetSkipped(c, r) = SetSkipped(c, r)
  BY DEF Abstract!SubmitRoll, SubmitRoll, Abstract!SetEnemy, SetEnemy,
     Abstract!SetSkipped, SetSkipped
<1>2. \A c, r : Abstract!RemoveEnemy(c, r) = RemoveEnemy(c, r)
  BY DEF Abstract!RemoveEnemy, RemoveEnemy, Abstract!Without, Without,
     Abstract!PositionOf, PositionOf, Abstract!Range, Range
<1>3. \A c, r, id : Abstract!AddEnemy(c, r, id) = AddEnemy(c, r, id)
  BY DEF Abstract!AddEnemy, AddEnemy
<1>4. \A c : Abstract!PassTurn(c) = PassTurn(c)
  BY SameOrder DEF Abstract!PassTurn, PassTurn
<1>5. \A c : Abstract!DropOrder(c) = DropOrder(c) /\ Abstract!Resolved(c) = Resolved(c)
  BY DEF Abstract!DropOrder, DropOrder, Abstract!Resolved, Resolved
<1>6. \A e : Abstract!FreshCall(e) = FreshCall(e)
  BY DEF Abstract!FreshCall, FreshCall
<1> QED
  BY <1>1, <1>2, <1>3, <1>4, <1>5, <1>6

\* Nothing but the handlers looks at the version.
Unversioned(c) == [c EXCEPT !.version = 1]

LEMMA OrderIgnoresVersion ==
    ASSUME NEW c \in Call
    PROVE  LET d == Unversioned(c)
           IN  /\ d \in Call
               /\ Present(d) = Present(c)
               /\ TurnOrderIds(d) = TurnOrderIds(c)
               /\ SyncTurnState(d) = Unversioned(SyncTurnState(c))
<1> DEFINE d == Unversioned(c)
           ids == TurnOrderIds(c)
<1>1. d \in Call /\ d = [c EXCEPT !.version = 1]
  BY DEF Unversioned, Call
<1>2. /\ d.parts = c.parts /\ d.order = c.order /\ d.started = c.started
      /\ d.status = c.status /\ d.current = c.current
  BY DEF Unversioned, Call
<1> HIDE DEF d
<1>3. Frozen(d) = Frozen(c)
  BY <1>2 DEF Frozen
<1>4. Present(d) = Present(c) /\ Eligible(d) = Eligible(c) /\ Merge(d) = Merge(c)
  BY <1>2, <1>3, MergeDependsOn
<1>5. TurnOrderIds(d) = ids
  BY <1>2, <1>4 DEF TurnOrderIds
<1> HIDE DEF ids
<1>6. SyncTurnState(d) = Unversioned(SyncTurnState(c))
  BY <1>1, <1>5 DEF SyncTurnState, Unversioned, Call, ids
<1> QED
  BY <1>1, <1>4, <1>5, <1>6 DEF d, ids

LEMMA EditsIgnoreVersion ==
    ASSUME NEW c \in Call, NEW r \in Request
    PROVE  LET d == Unversioned(c)
           IN  /\ SubmitRoll(d, r) = Unversioned(SubmitRoll(c, r))
               /\ SetEnemy(d, r) = Unversioned(SetEnemy(c, r))
               /\ SetSkipped(d, r) = Unversioned(SetSkipped(c, r))
               /\ RemoveEnemy(d, r) = Unversioned(RemoveEnemy(c, r))
               /\ PassTurn(d) = Unversioned(PassTurn(c))
               /\ DropOrder(d) = Unversioned(DropOrder(c))
               /\ Resolved(d) = Unversioned(Resolved(c))
               /\ \A id : AddEnemy(d, r, id) = Unversioned(AddEnemy(c, r, id))
<1> DEFINE d == Unversioned(c)
<1>1. SubmitRoll(d, r) = Unversioned(SubmitRoll(c, r))
  BY DEF SubmitRoll, Unversioned, Call
<1>2. SetEnemy(d, r) = Unversioned(SetEnemy(c, r))
  <2> DEFINE t == r.target
             p == [c.parts[t] EXCEPT !.roll = r.roll, !.name = r.name]
             parts == [c.parts EXCEPT ![t] = p]
  <2>1. c.parts \in [Ids -> Participant \cup {Absent}] /\ t \in Ids
    BY DEF Call, Request
  <2>2. SetEnemy(c, r) = [c EXCEPT !.parts = parts]
    BY <2>1 DEF SetEnemy, Call
  <2>3. d \in Call /\ d.parts = c.parts
    BY DEF Unversioned, Call
  <2>4. SetEnemy(d, r) = [d EXCEPT !.parts = parts]
    <3> HIDE DEF d
    <3> QED
      BY <2>1, <2>3 DEF SetEnemy, Call
  <2> HIDE DEF parts
  <2> QED
    BY <2>2, <2>4 DEF Unversioned, Call
<1>3. SetSkipped(d, r) = Unversioned(SetSkipped(c, r))
  BY DEF SetSkipped, Unversioned, Call
<1>4. RemoveEnemy(d, r) = Unversioned(RemoveEnemy(c, r))
  BY DEF RemoveEnemy, Unversioned, Call
<1>5. PassTurn(d) = Unversioned(PassTurn(c))
  BY OrderIgnoresVersion DEF PassTurn, Unversioned, Call
<1>6. DropOrder(d) = Unversioned(DropOrder(c)) /\ Resolved(d) = Unversioned(Resolved(c))
  BY DEF DropOrder, Resolved, Unversioned, Call
<1>7. \A id : AddEnemy(d, r, id) = Unversioned(AddEnemy(c, r, id))
  BY DEF AddEnemy, Unversioned, Call
<1> QED
  BY <1>1, <1>2, <1>3, <1>4, <1>5, <1>6, <1>7

\* Every write that goes through is the accepted request, carried out on the
\* copy it was computed from.
LEMMA CommitIsMutation ==
    ASSUME IInv, NEW h \in Handlers, Commit(h)
    PROVE  /\ call' # NoCall
           /\ Abstract!Mutation(Unversioned(worker[h].snap))
<1> DEFINE r == worker[h].rq
           snap == worker[h].snap
           n == snap.version + 1
           d == Unversioned(snap)
           Becomes(c) == Abstract!SyncTurnState(c) =
               IF call' = NoCall THEN NoCall ELSE [call' EXCEPT !.version = 1]
<1>1. worker[h].stage = "commit"
  BY CommitWritesKept
<1>2. /\ Sound(snap) /\ snap \in Call /\ snap.status = "open"
      /\ r \in Requests /\ r \in Request /\ Authorised(r) /\ Accepts(r, snap)
      /\ n \in Nat
  BY <1>1, RequestsAssumption DEF IInv, WorkerSound, SoundIfAny, Sound, Orderly, Call
<1>3. Abstract!Accepts(r, d) /\ Abstract!Authorised(r) /\ Abstract!Present(d) = Present(snap)
  <2>1. /\ Present(d) = Present(snap) /\ TurnOrderIds(d) = TurnOrderIds(snap)
        /\ d.parts = snap.parts
    BY <1>2, OrderIgnoresVersion DEF Unversioned, Call
  <2> HIDE DEF d
  <2>2. Accepts(r, d)
    BY <1>2, <2>1 DEF Accepts
  <2> QED
    BY <1>2, <2>1, <2>2, SameRequests, SameOrder
<1>4. PICK c : Edits(r, snap, c) /\ Kept(c, snap) /\ Write(h, c)
  BY CommitWritesKept
<1>5. call' # NoCall /\ Becomes(Unversioned(c))
  <2>1. call' = [SyncTurnState(c) EXCEPT !.version = n]
    BY <1>4 DEF Write
  <2>2. SyncTurnState(c) \in Call /\ c \in Call
    BY <1>2, <1>4, SyncBringsInSync DEF Kept, Orderly
  <2>3. SyncTurnState(Unversioned(c)) = Unversioned(SyncTurnState(c))
    BY <2>2, OrderIgnoresVersion
  <2> HIDE DEF n
  <2>4. call' \in Call /\ [call' EXCEPT !.version = 1] = Unversioned(SyncTurnState(c))
    BY <1>2, <2>1, <2>2 DEF Unversioned, Call
  <2> QED
    BY <2>3, <2>4, SentinelAssumption, SameOrder
<1> HIDE DEF n
<1>6. ASSUME r.op = "submit" PROVE Abstract!Mutation(d)
  <2>1. Unversioned(c) = Abstract!SubmitRoll(d, r)
    BY <1>2, <1>4, <1>6, EditsIgnoreVersion, SameEdits DEF Edits
  <2> HIDE DEF d
  <2> QED
    BY <1>2, <1>3, <1>5, <1>6, <2>1 DEF Abstract!Mutation, Abstract!Submit, Abstract!Accepted
<1>7. ASSUME r.op = "enemy" PROVE Abstract!Mutation(d)
  <2>1. Unversioned(c) = Abstract!SetEnemy(d, r)
    BY <1>2, <1>4, <1>7, EditsIgnoreVersion, SameEdits DEF Edits
  <2> HIDE DEF d
  <2> QED
    BY <1>2, <1>3, <1>5, <1>7, <2>1 DEF Abstract!Mutation, Abstract!Enemy, Abstract!Accepted
<1>8. ASSUME r.op = "addEnemy" PROVE Abstract!Mutation(d)
  <2>1. PICK id \in Ids \ (Roster \cup Abstract!Present(d)) :
             Unversioned(c) = Abstract!AddEnemy(d, r, id)
    BY <1>2, <1>3, <1>4, <1>8, EditsIgnoreVersion, SameEdits DEF Edits
  <2>2. d.seats \in Nat
    BY <1>2 DEF Unversioned, Call
  <2> HIDE DEF d
  <2> QED
    BY <1>2, <1>3, <1>5, <1>8, <2>1, <2>2
       DEF Abstract!Mutation, Abstract!NewEnemy, Abstract!Accepted
<1>9. ASSUME r.op = "endTurn" PROVE Abstract!Mutation(d)
  <2>1. Unversioned(c) = Abstract!PassTurn(d)
    BY <1>2, <1>4, <1>9, EditsIgnoreVersion, SameEdits DEF Edits
  <2> HIDE DEF d
  <2> QED
    BY <1>2, <1>3, <1>5, <1>9, <2>1 DEF Abstract!Mutation, Abstract!EndTurn, Abstract!Accepted
<1>10. ASSUME r.op = "resort" PROVE Abstract!Mutation(d)
  <2>1. Unversioned(c) = Abstract!DropOrder(d)
    BY <1>2, <1>4, <1>10, EditsIgnoreVersion, SameEdits DEF Edits
  <2> HIDE DEF d
  <2> QED
    BY <1>2, <1>3, <1>5, <1>10, <2>1 DEF Abstract!Mutation, Abstract!Resort, Abstract!Accepted
<1>11. ASSUME r.op = "skip" PROVE Abstract!Mutation(d)
  <2>1. Unversioned(c) = Abstract!SetSkipped(d, r)
    BY <1>2, <1>4, <1>11, EditsIgnoreVersion, SameEdits DEF Edits
  <2> HIDE DEF d
  <2> QED
    BY <1>2, <1>3, <1>5, <1>11, <2>1 DEF Abstract!Mutation, Abstract!Skip, Abstract!Accepted
<1>12. ASSUME r.op = "remove" PROVE Abstract!Mutation(d)
  <2>1. Unversioned(c) = Abstract!RemoveEnemy(d, r)
    BY <1>2, <1>4, <1>12, EditsIgnoreVersion, SameEdits DEF Edits
  <2> HIDE DEF d
  <2> QED
    BY <1>2, <1>3, <1>5, <1>12, <2>1 DEF Abstract!Mutation, Abstract!Remove, Abstract!Accepted
<1> QED
  BY <1>4, <1>5, <1>6, <1>7, <1>8, <1>9, <1>10, <1>11, <1>12 DEF Edits

\* The call as Encounter sees it.
Seen == IF call = NoCall THEN NoCall ELSE Unversioned(call)

LEMMA SeenIsACall ==
    ASSUME IInv, call # NoCall
    PROVE  /\ call \in Call /\ Sound(call)
           /\ Seen = [call EXCEPT !.version = 1] /\ Seen \in Call /\ Seen # NoCall
           /\ Seen.status = call.status /\ Seen.enc = call.enc
           /\ Seen.expires = call.expires
<1>1. call \in Call /\ Sound(call)
  BY DEF IInv, SoundIfAny, Sound, Orderly
<1> QED
  BY <1>1, SentinelAssumption DEF Seen, Unversioned, Call

LEMMA CommitImplements ==
    ASSUME HistoryInv, NEW h \in Handlers, Commit(h)
    PROVE  Abstract!Mutate \/ Abstract!Reopen
<1> DEFINE snap == worker[h].snap
<1>1. worker[h].stage = "commit" /\ VersionMatches(h)
  BY CommitWritesKept DEF Write, HistoryInv
<1>2. call # NoCall /\ Content(snap) = Content(call)
  BY <1>1, MatchIsCurrent
<1>3. call \in Call /\ Sound(call) /\ Seen = [call EXCEPT !.version = 1]
  BY <1>2, SeenIsACall DEF HistoryInv
<1>4. snap \in Call /\ Sound(snap) /\ snap.status = "open"
  BY <1>1 DEF HistoryInv, IInv, WorkerSound, SoundIfAny, Sound, Orderly
<1>5. ~snap.expires /\ Content(snap) = snap
  BY <1>4 DEF Sound, Content, Call
<1>6. Abstract!Mutation(Unversioned(snap))
  BY CommitIsMutation DEF HistoryInv
<1>7. CASE call.status = "open"
  <2>1. Content(call) = call
    BY <1>3, <1>7 DEF Sound, Content, Call
  <2>2. Unversioned(snap) = Seen
    BY <1>2, <1>3, <1>5, <2>1 DEF Unversioned
  <2> QED
    BY <1>2, <1>3, <1>6, <1>7, <2>2, SeenIsACall
       DEF Abstract!Mutate, Abstract!IsOpen, HistoryInv, Seen, Unversioned
<1>8. CASE call.status = "resolved"
  <2>1. Unversioned(snap) = [Seen EXCEPT !.status = "open", !.expires = FALSE]
    BY <1>2, <1>3, <1>5 DEF Unversioned, Content, Call
  <2> QED
    BY <1>2, <1>3, <1>6, <1>8, <2>1, SeenIsACall
       DEF Abstract!Reopen, Abstract!AsOpen, HistoryInv, Seen, Unversioned
<1> QED
  BY <1>3, <1>7, <1>8 DEF Call

LEMMA StartImplements ==
    ASSUME IInv, NEW h \in Handlers, StartReplace(h)
    PROVE  Abstract!Start
<1> DEFINE r == worker[h].rq
<1>1. PICK e \in Encounters : FreshEncounter(e) /\ call' = FreshCall(e)
  BY DEF StartReplace
<1>2. r \in Requests /\ Authorised(r) /\ r.op = "start"
  BY DEF StartReplace, IInv, WorkerSound
<1>3. FreshCall(e) \in Call /\ FreshCall(e).version = 1
  BY FreshCallOrderly DEF Orderly
<1>4. Seen' = FreshCall(e)
  <2>1. call' # NoCall
    BY <1>1, <1>3, SentinelAssumption
  <2>2. [FreshCall(e) EXCEPT !.version = 1] = FreshCall(e)
    BY <1>3 DEF Call
  <2> QED
    BY <1>1, <2>1, <2>2 DEF Seen, Unversioned
<1>5. IF Seen = NoCall THEN TRUE ELSE e # Seen.enc
  BY <1>1, SeenIsACall DEF FreshEncounter, Seen
<1> QED
  BY <1>2, <1>4, <1>5, SameRequests, SameEdits DEF Abstract!Start, Seen, Unversioned

LEMMA ResolveImplements ==
    ASSUME IInv, NEW h \in Handlers, ResolveOpen(h), IsOpen(call)
    PROVE  Abstract!Resolve
<1> DEFINE r == worker[h].rq
<1>1. r \in Requests /\ Authorised(r) /\ r.op = "resolve"
  BY DEF ResolveOpen, IInv, WorkerSound
<1>2. call' = Resolved(call) /\ call \in Call /\ Seen = [call EXCEPT !.version = 1]
      /\ Seen # NoCall /\ Seen.status = "open"
  BY SeenIsACall DEF ResolveOpen, IsOpen
<1>3. call' \in Call /\ Seen' = Resolved(Seen)
  <2>1. call' \in Call
    BY <1>2 DEF Resolved, Call
  <2>2. Unversioned(call') = Resolved(Seen)
    BY <1>2 DEF Resolved, Unversioned, Call
  <2> QED
    BY <2>1, <2>2, SentinelAssumption DEF Seen, Unversioned
<1> QED
  BY <1>1, <1>2, <1>3, SameRequests, SameEdits
     DEF Abstract!Resolve, Abstract!IsOpen, Seen, Unversioned

LEMMA StepImplements ==
    HistoryInv /\ [QuietNext]_vars =>
        [Abstract!Next \/ Abstract!Reopen]_(IF call = NoCall THEN NoCall
                                             ELSE [call EXCEPT !.version = 1])
<1> SUFFICES ASSUME HistoryInv, [QuietNext]_vars, ~UNCHANGED Seen
             PROVE  Abstract!Next \/ Abstract!Reopen
  BY DEF Seen, Unversioned
<1>1. call' # call
  BY DEF Seen
<1>2. CASE Expire
  BY <1>2, SeenIsACall DEF Expire, Abstract!Expire, Abstract!Next, Seen, HistoryInv, Unversioned
<1>3. ASSUME NEW h \in Handlers, Serve(h) PROVE Abstract!Next \/ Abstract!Reopen
  <2>1. CASE StartReplace(h)
    BY <2>1, StartImplements DEF HistoryInv, Abstract!Next
  <2>2. CASE ResolveOpen(h)
    BY <1>1, <2>2, ResolveImplements DEF HistoryInv, Abstract!Next, ResolveOpen
  <2>3. CASE Commit(h)
    BY <2>3, CommitImplements DEF Abstract!Next
  <2> QED
    BY <1>1, <1>3, <2>1, <2>2, <2>3 DEF Serve, ResolveReread, LoadRejected, Load, Conflict, Publish
<1> QED
  BY <1>1, <1>2, <1>3 DEF QuietNext, Next, Abort, Receive, vars

\* The tracker implements Encounter: whatever handlers overlap, the stored call
\* changes as if every request that was carried out had been so in one step, a
\* Resolve undone by a late write apart.
THEOREM TrackerImplementsEncounter == QuietSpec => ImplementsEncounter
<1>1. Init => Abstract!Init
  BY DEF Init, Abstract!Init
<1> QED
  BY <1>1, StepImplements, AlwaysCurrent, PTL
     DEF QuietSpec, QuietNext, ImplementsEncounter, Abstract!LateSpec

-----------------------------------------------------------------------------
(***************************************************************************)
(* The frozen order.  An edit other than ending a turn or re-sorting hands *)
(* SyncTurnState a call that inherits the order: those who still take part *)
(* stand in the frozen order as they stood.  What is listed from it keeps  *)
(* their places, and needs no rotation since the turn is with the first.   *)
(***************************************************************************)
Inherits(d, c) ==
    /\ Orderly(d) /\ d.started /\ d.status = "open"
    /\ d.current \in {c.current, NoId}
    /\ \A x \in Eligible(d) : x \in Range(d.order) <=> x \in Range(c.order)
    /\ \A x, y \in Eligible(d) : Before(d.order, x, y) <=> Before(c.order, x, y)

KeepsPlaces(s, t) ==
    \A i, j \in DOMAIN t :
        i < j /\ t[j] \in Range(s)
        => t[i] \in Range(s) /\ PositionOf(t[i], s) < PositionOf(t[j], s)

LEMMA SameOrderKeepsPlaces ==
    ASSUME NEW S, NEW s, IsInjectiveSeq(s, S)
    PROVE  KeepsPlaces(s, s)
<1>1. \A i \in DOMAIN s : PositionOf(s[i], s) = i
  BY DEF PositionOf, IsInjectiveSeq
<1>2. \A i \in DOMAIN s : s[i] \in Range(s)
  BY DEF Range, IsInjectiveSeq
<1> QED
  BY <1>1, <1>2 DEF KeepsPlaces

\* Whoever stays keeps his place among those who stay, and whoever joins is
\* listed behind them.
LEMMA MergeOfInherited ==
    ASSUME NEW c, Orderly(c), NEW d, Inherits(d, c),
           NEW x \in Eligible(d), NEW y \in Eligible(d), <<x, y>> \in Merge(d)
    PROVE  y \in Range(c.order) => Before(c.order, x, y)
<1> SUFFICES ASSUME y \in Range(c.order) PROVE Before(c.order, x, y)
  OBVIOUS
<1>1. Frozen(d) = d.order /\ y \in Range(d.order)
  BY DEF Inherits, Frozen
<1>2. Before(d.order, x, y)
  BY <1>1 DEF Merge, Before
<1> QED
  BY <1>2 DEF Inherits

\* The one who acts, if he stays, is listed first.
LEMMA ActingIsFirst ==
    ASSUME NEW c, Orderly(c), TurnStateInSync(c), NEW d, Inherits(d, c),
           d.current \in Eligible(d)
    PROVE  LET merged == Listing(Eligible(d), Merge(d))
           IN  merged # <<>> /\ Head(merged) = d.current
<1> DEFINE E == Eligible(d)
           merged == Listing(E, Merge(d))
           x == d.current
<1>1. /\ merged \in Seq(Ids) /\ DOMAIN merged = 1 .. Len(merged) /\ Len(merged) \in Nat
      /\ Range(merged) = E /\ E \subseteq Ids
      /\ \A a, b \in Ids : Before(merged, a, b) => <<a, b>> \in Merge(d)
  BY MergedListsEligible DEF Inherits, Orderly, IsInjectiveSeq, IsListingOf, Eligible, Present
<1>2. x \in Ids /\ x = c.current /\ c.order # <<>> /\ x = Head(c.order)
  BY <1>1, NoIdAssumption DEF Inherits, TurnStateInSync
<1>3. x \in Range(c.order) /\ \A a \in Ids : ~Before(c.order, a, x)
  <2>1. c.order \in Seq(Ids) /\ x = c.order[1] /\ 1 \in DOMAIN c.order
        /\ DOMAIN c.order \subseteq Nat \ {0}
    BY <1>2 DEF Orderly, IsInjectiveSeq
  <2> QED
    BY <2>1 DEF Before, Range, Orderly, IsInjectiveSeq
<1> HIDE DEF merged, E, x
<1>4. PICK k \in 1 .. Len(merged) : merged[k] = x
  BY <1>1 DEF Range, E, x
<1>5. k = 1
  <2>1. ASSUME k # 1 PROVE FALSE
    <3>1. 1 \in DOMAIN merged /\ 1 < k /\ k \in DOMAIN merged
      BY <1>1, <1>4, <2>1
    <3>2. merged[1] \in E /\ Before(merged, merged[1], x)
      BY <1>1, <1>4, <3>1 DEF Before, Range
    <3>3. <<merged[1], x>> \in Merge(d) /\ x \in E
      BY <1>1, <1>2, <3>2 DEF E, x
    <3>4. Before(c.order, merged[1], x)
      BY <1>3, <3>2, <3>3, MergeOfInherited DEF E
    <3> QED
      BY <1>1, <1>3, <3>2, <3>4
  <2> QED
    BY <2>1
<1> QED
  BY <1>1, <1>4, <1>5 DEF merged, E, x

LEMMA InheritedKeepsPlaces ==
    ASSUME NEW c, Orderly(c), TurnStateInSync(c), NEW d, Inherits(d, c)
    PROVE  KeepsPlaces(c.order, SyncTurnState(d).order)
<1> DEFINE E == Eligible(d)
           merged == Listing(E, Merge(d))
           s == c.order
<1>1. /\ IsInjectiveSeq(merged, Ids) /\ Range(merged) = E /\ E \subseteq Ids
      /\ \A a, b \in Ids : Before(merged, a, b) => <<a, b>> \in Merge(d)
  BY MergedListsEligible DEF Inherits, Orderly, IsListingOf, Eligible, Present
<1>2. d.current \in Range(merged) => merged # <<>> /\ d.current = Head(merged)
  BY <1>1, ActingIsFirst
<1>3. SyncTurnState(d).order = merged
  <2>1. TurnOrderIds(d) = RotateToFront(merged, d.current)
    BY DEF TurnOrderIds, Inherits
  <2>2. SyncTurnState(d).order = TurnOrderIds(d)
    BY DEF SyncTurnState, Inherits, Orderly, Call
  <2> HIDE DEF merged
  <2> QED
    BY <1>1, <1>2, <2>1, <2>2, RotateFirst
<1> HIDE DEF merged, E
<1>4. ASSUME NEW i \in DOMAIN merged, NEW j \in DOMAIN merged, i < j,
             merged[j] \in Range(s)
      PROVE  merged[i] \in Range(s) /\ PositionOf(merged[i], s) < PositionOf(merged[j], s)
  <2>1. merged[i] \in E /\ merged[j] \in E /\ Before(merged, merged[i], merged[j])
    BY <1>4, <1>1 DEF Range, Before
  <2>2. <<merged[i], merged[j]>> \in Merge(d)
    BY <1>1, <2>1
  <2>3. Before(s, merged[i], merged[j])
    BY <1>4, <2>1, <2>2, MergeOfInherited DEF E
  <2>4. PICK k \in DOMAIN s, m \in DOMAIN s : k < m /\ s[k] = merged[i] /\ s[m] = merged[j]
    BY <2>3 DEF Before
  <2>5. PositionOf(merged[i], s) = k /\ PositionOf(merged[j], s) = m
    BY <2>4 DEF PositionOf, Orderly, IsInjectiveSeq
  <2>6. merged[i] \in Range(s)
    BY <2>4 DEF Range
  <2> QED
    BY <2>4, <2>5, <2>6
<1> QED
  BY <1>3, <1>4 DEF KeepsPlaces

\* Changing who takes part leaves the order where it is.
LEMMA OrderIsInherited ==
    ASSUME NEW c, NEW d, Orderly(d), d.started, d.status = "open",
           d.order = c.order, d.current = c.current
    PROVE  Inherits(d, c)
BY DEF Inherits

LEMMA RemovalInherits ==
    ASSUME NEW c, Orderly(c), c.started, c.status = "open", NEW r \in Request
    PROVE  Inherits(RemoveEnemy(c, r), c)
<1> DEFINE d == RemoveEnemy(c, r)
           x == r.target
<1>1. Orderly(d) /\ d.status = "open"
  BY RemoveEnemyOrderly DEF Kept
<1>2. /\ d.started /\ d.order = Without(c.order, x)
      /\ d.current \in {c.current, NoId}
      /\ x \in Ids /\ d.parts[x] = Absent
  BY DEF RemoveEnemy, Orderly, Call, Request
<1> HIDE DEF d
<1>3. \A y \in Eligible(d) : y \in Ids /\ y # x
  BY <1>2 DEF Eligible, Present
<1> QED
  BY <1>1, <1>2, <1>3, WithoutKeepsPlaces DEF Inherits, Orderly, d

\* A re-sort leaves the turn where it is.
LEMMA ResortKeepsTurn ==
    ASSUME NEW c, Orderly(c), TurnStateInSync(c), c.started, c.status = "open"
    PROVE  SyncTurnState(DropOrder(c)).current = c.current
<1> DEFINE d == DropOrder(c)
           merged == Listing(Eligible(d), Merge(d))
           ids == TurnOrderIds(d)
<1>1. /\ Orderly(d) /\ d.status = "open" /\ d.started /\ d.current = c.current
      /\ d.parts = c.parts
  BY DropOrderOrderly DEF Kept, DropOrder, Orderly, Call
<1> HIDE DEF d
<1>2. Eligible(d) = Eligible(c)
  BY <1>1 DEF Eligible, Present
<1>3. IsInjectiveSeq(merged, Ids) /\ Range(merged) = Range(c.order)
  BY <1>1, <1>2, MergedListsEligible DEF Orderly, IsListingOf, TurnStateInSync
<1>4. ids = RotateToFront(merged, c.current)
  BY <1>1 DEF TurnOrderIds
<1> HIDE DEF merged
<1>5. /\ Range(ids) = Range(c.order) /\ ids \in Seq(Ids) /\ c.order \in Seq(Ids)
      /\ c.current \in Range(merged) => Head(ids) = c.current
  BY <1>3, <1>4, RotateKeepsOrder DEF IsInjectiveSeq, Orderly
<1> HIDE DEF ids
<1>6. SyncTurnState(d).current = IF ids = <<>> THEN NoId ELSE Head(ids)
  BY <1>1 DEF SyncTurnState, Orderly, Call, ids
<1>7. CASE c.order = <<>>
  <2>1. ids = <<>>
    BY <1>5, <1>7 DEF Range
  <2> QED
    BY <1>6, <1>7, <2>1 DEF TurnStateInSync, d
<1>8. CASE c.order # <<>>
  <2>1. c.current = Head(c.order) /\ c.current \in Range(c.order)
    BY <1>5, <1>8 DEF TurnStateInSync, Range
  <2>2. ids # <<>>
    <3>1. \E i \in DOMAIN ids : ids[i] = c.current
      BY <1>5, <2>1 DEF Range
    <3> QED
      BY <3>1
  <2> QED
    BY <1>3, <1>5, <1>6, <2>1, <2>2 DEF d
<1> QED
  BY <1>7, <1>8

LEMMA EditKeepsPlaces ==
    ASSUME NEW c, Orderly(c), TurnStateInSync(c), c.started, c.status = "open",
           NEW r \in Request, Accepts(r, c), r.op \notin {"endTurn", "resort"},
           NEW d, Edits(r, c, d)
    PROVE  KeepsPlaces(c.order, SyncTurnState(d).order)
<1>1. CASE r.op \in {"submit", "enemy", "skip"}
  <2>1. r.target \in Present(c)
    BY <1>1 DEF Accepts
  <2>2. Orderly(d) /\ d.status = "open"
    BY <1>1, <2>1, SubmitRollOrderly, SetEnemyOrderly, SetSkippedOrderly DEF Edits, Kept
  <2>3. d.started /\ d.order = c.order /\ d.current = c.current
    BY <1>1 DEF Edits, SubmitRoll, SetEnemy, SetSkipped, Orderly, Call
  <2> QED
    BY <2>2, <2>3, OrderIsInherited, InheritedKeepsPlaces
<1>2. CASE r.op = "addEnemy"
  <2>1. PICK id \in Ids \ (Roster \cup Present(c)) : d = AddEnemy(c, r, id)
    BY <1>2 DEF Edits
  <2>2. Orderly(d) /\ d.status = "open"
    BY <2>1, AddEnemyOrderly DEF Kept
  <2>3. d.started /\ d.order = c.order /\ d.current = c.current
    BY <2>1 DEF AddEnemy, Orderly, Call
  <2> QED
    BY <2>2, <2>3, OrderIsInherited, InheritedKeepsPlaces
<1>3. CASE r.op = "remove"
  BY <1>3, RemovalInherits, InheritedKeepsPlaces DEF Edits
<1> QED
  BY <1>1, <1>2, <1>3 DEF Edits

\* Each mutation of Encounter, on the stored call or on the one a late write
\* reopens.
LEMMA MutationFreezes ==
    ASSUME NEW c, Orderly(c), TurnStateInSync(c), c.started, c.status = "open",
           Abstract!Mutation(c)
    PROVE  \/ Abstract!EndTurn(c)
           \/ Abstract!Resort(c) /\ Seen'.current = c.current
           \/ KeepsPlaces(c.order, Seen'.order)
<1>1. \A e : (IF call' = NoCall THEN NoCall ELSE [call' EXCEPT !.version = 1]) = e
              <=> Seen' = e
  BY DEF Seen, Unversioned
<1>2. CASE Abstract!EndTurn(c)
  BY <1>2
<1>3. CASE Abstract!Resort(c)
  BY <1>1, <1>3, SameOrder, SameEdits, ResortKeepsTurn DEF Abstract!Resort
<1>4. CASE Abstract!Submit(c) \/ Abstract!Enemy(c) \/ Abstract!Skip(c) \/ Abstract!Remove(c)
  <2>1. PICK r \in Requests : \E d :
            /\ Accepts(r, c) /\ Edits(r, c, d) /\ Seen' = SyncTurnState(d)
            /\ r.op \in {"submit", "enemy", "skip", "remove"}
    BY <1>1, <1>4, SameOrder, SameEdits, SameRequests
       DEF Abstract!Submit, Abstract!Enemy, Abstract!Skip, Abstract!Remove,
           Abstract!Accepted, Edits
  <2> QED
    BY <2>1, EditKeepsPlaces, RequestsAssumption
<1>5. CASE Abstract!NewEnemy(c)
  <2>1. PICK r \in Requests : \E d :
            /\ Accepts(r, c) /\ Edits(r, c, d) /\ Seen' = SyncTurnState(d)
            /\ r.op = "addEnemy"
    BY <1>1, <1>5, SameOrder, SameEdits, SameRequests
       DEF Abstract!NewEnemy, Abstract!Accepted, Edits
  <2> QED
    BY <2>1, EditKeepsPlaces, RequestsAssumption
<1> QED
  BY <1>2, <1>3, <1>4, <1>5 DEF Abstract!Mutation

LEMMA StepFreezes ==
    ASSUME IInv, Abstract!Next \/ Abstract!Reopen, Abstract!SameEncounter, Seen.started
    PROVE  LET c == Abstract!AsOpen(Seen)
           IN  \/ Abstract!EndTurn(c)
               \/ Abstract!Resort(c) /\ Seen'.current = Seen.current
               \/ KeepsPlaces(Seen.order, Seen'.order)
<1> DEFINE c == Abstract!AsOpen(Seen)
<1>1. /\ Seen = (IF call = NoCall THEN NoCall ELSE [call EXCEPT !.version = 1])
      /\ Seen' = (IF call' = NoCall THEN NoCall ELSE [call' EXCEPT !.version = 1])
  BY DEF Seen, Unversioned
<1>2. /\ call # NoCall /\ Sound(call) /\ call \in Call /\ Seen \in Call
      /\ Seen # NoCall /\ Seen' # NoCall /\ Seen'.enc = Seen.enc
      /\ Seen = [call EXCEPT !.version = 1]
  <2>1. Seen # NoCall /\ Seen' # NoCall /\ Seen'.enc = Seen.enc
    BY <1>1 DEF Abstract!SameEncounter
  <2> QED
    BY <1>1, <2>1, SeenIsACall
<1>3. /\ c \in Call /\ c.parts = call.parts /\ c.order = call.order
      /\ c.current = call.current /\ c.seats = call.seats /\ c.started = call.started
      /\ c.status = "open" /\ c = [Seen EXCEPT !.status = "open", !.expires = FALSE]
      /\ Seen.order = call.order /\ Seen.current = call.current /\ Seen.started = call.started
      /\ Seen.status = call.status /\ Seen.expires = call.expires
  BY <1>2 DEF Abstract!AsOpen, Call
<1> HIDE DEF c
<1>4. Present(c) = Present(call) /\ Eligible(c) = Eligible(call)
  BY <1>3 DEF Present, Eligible
<1>5. Orderly(c) /\ TurnStateInSync(c)
  BY <1>2, <1>3, <1>4 DEF Sound, Orderly, DistinctSeats, TurnStateInSync
<1>6. CASE Abstract!Mutation(c)
  BY <1>3, <1>5, <1>6, MutationFreezes DEF c
<1>7. CASE Abstract!Mutate
  <2>1. Seen.status = "open" /\ Abstract!Mutation(Seen)
    BY <1>1, <1>7 DEF Abstract!Mutate, Abstract!IsOpen
  <2>2. ~Seen.expires
    BY <1>2, <1>3, <2>1 DEF Sound
  <2>3. c = Seen
    BY <1>2, <1>3, <2>1, <2>2 DEF Call
  <2> QED
    BY <1>6, <2>1, <2>3
<1>8. CASE Abstract!Reopen
  BY <1>1, <1>6, <1>8 DEF Abstract!Reopen, c
<1>9. CASE Abstract!Resolve
  <2>1. Seen' = Resolved(Seen)
    BY <1>1, <1>9, SameEdits DEF Abstract!Resolve
  <2>2. Seen'.order = Seen.order
    BY <1>2, <2>1 DEF Resolved, Call
  <2> QED
    BY <1>2, <1>3, <2>2, SameOrderKeepsPlaces DEF Sound, Orderly
<1>10. ~Abstract!Start
  <2>1. \A e \in Encounters : FreshCall(e).enc = e
    BY DEF FreshCall
  <2> QED
    BY <1>1, <1>2, <2>1, SameEdits DEF Abstract!Start
<1>11. ~Abstract!Expire
  BY <1>1, <1>2 DEF Abstract!Expire
<1> QED
  BY <1>7, <1>8, <1>9, <1>10, <1>11 DEF Abstract!Next, c

\* However requests overlap, conflict and arrive late, within one encounter's
\* history nobody is moved ahead in a running cycle: only ending a turn and
\* Resort change the places of those who stay.
THEOREM OrdersAreFrozen == QuietSpec => Abstract!OrderIsFrozen
<1> DEFINE seen == IF call = NoCall THEN NoCall ELSE [call EXCEPT !.version = 1]
           Freezes ==
               /\ Abstract!SameEncounter /\ seen.started
               => \/ Abstract!EndTurn(Abstract!AsOpen(seen))
                  \/ /\ Abstract!Resort(Abstract!AsOpen(seen))
                     /\ seen'.current = seen.current
                  \/ \A i, j \in DOMAIN seen'.order :
                        i < j /\ seen'.order[j] \in Abstract!Range(seen.order)
                        => /\ seen'.order[i] \in Abstract!Range(seen.order)
                           /\ Abstract!PositionOf(seen'.order[i], seen.order)
                                < Abstract!PositionOf(seen'.order[j], seen.order)
<1>1. HistoryInv /\ [QuietNext]_vars => [Freezes]_seen
  <2> SUFFICES ASSUME HistoryInv, [QuietNext]_vars, ~UNCHANGED seen PROVE Freezes
    OBVIOUS
  <2>1. Abstract!Next \/ Abstract!Reopen
    BY StepImplements
  <2>2. Seen = seen /\ Seen' = seen'
    BY DEF Seen, Unversioned
  <2>3. \A s, x : Abstract!Range(s) = Range(s) /\ Abstract!PositionOf(x, s) = PositionOf(x, s)
    BY DEF Abstract!Range, Range, Abstract!PositionOf, PositionOf
  <2> HIDE DEF seen
  <2> QED
    BY <2>1, <2>2, <2>3, StepFreezes DEF HistoryInv, KeepsPlaces
<1> QED
  BY <1>1, AlwaysCurrent, PTL DEF QuietSpec, QuietNext, Abstract!OrderIsFrozen
=============================================================================
