---------------------------- MODULE QueryLemmas ----------------------------
(***************************************************************************)
(* What the operators of ReadQueries return, for any finite table whose    *)
(* rows have a time and an identifier each: the newest row, the list of    *)
(* the newest rows, and counts of rows.                                    *)
(***************************************************************************)
EXTENDS ReadQueries, FiniteSetTheorems, TLAPS

(* ORDER BY checked_at, id puts rows in one order only.                     *)
Ordered(rows) ==
  /\ \A r \in rows : r.at \in Int /\ r.id \in Int
  /\ \A r, s \in rows : r.at = s.at /\ r.id = s.id => r = s

After(rows, r) == {s \in rows : Before(r, s)}
IsNewest(r, rows) == r \in rows /\ \A s \in rows : s = r \/ Before(s, r)

(* A row has fewer rows after it than one before it has.                    *)
LEMMA LaterHasFewerAfter ==
  ASSUME NEW rows, IsFiniteSet(rows), Ordered(rows),
         NEW r \in rows, NEW s \in rows, Before(r, s)
  PROVE  Cardinality(After(rows, s)) < Cardinality(After(rows, r))
<1>1. After(rows, s) \in SUBSET After(rows, r)
  BY DEF After, Before, Ordered
<1>2. s \in After(rows, r) /\ s \notin After(rows, s)
  BY DEF After, Before, Ordered
<1>3. IsFiniteSet(After(rows, r))
  <2>1. After(rows, r) \in SUBSET rows
    BY DEF After
  <2>2. QED
    BY <2>1, FS_Subset
<1>4. /\ IsFiniteSet(After(rows, s))
      /\ Cardinality(After(rows, s)) <= Cardinality(After(rows, r))
      /\ Cardinality(After(rows, s)) # Cardinality(After(rows, r))
  BY <1>1, <1>2, <1>3, FS_Subset
<1>5. Cardinality(After(rows, s)) \in Nat /\ Cardinality(After(rows, r)) \in Nat
  BY <1>3, <1>4, FS_CardinalityType
<1>6. QED
  BY <1>4, <1>5

(* Of n rows, one has none after it, one has one, and so on up to n - 1.    *)
LEMMA EveryRankOnce ==
  ASSUME NEW rows, IsFiniteSet(rows), Ordered(rows)
  PROVE  /\ Cardinality(rows) \in Nat
         /\ \A r \in rows : Cardinality(After(rows, r)) \in 0..(Cardinality(rows) - 1)
         /\ \A k \in 0..(Cardinality(rows) - 1) :
              \E r \in rows : Cardinality(After(rows, r)) = k
         /\ \A r, s \in rows :
              Cardinality(After(rows, r)) = Cardinality(After(rows, s)) => r = s
<1> DEFINE n == Cardinality(rows)
           rank == [r \in rows |-> Cardinality(After(rows, r))]
<1>1. n \in Nat
  BY FS_CardinalityType
<1>2. ASSUME NEW r \in rows PROVE Cardinality(After(rows, r)) \in 0..(n - 1)
  <2>1. After(rows, r) \in SUBSET rows /\ r \notin After(rows, r)
    BY DEF After, Before, Ordered
  <2>2. /\ IsFiniteSet(After(rows, r)) /\ Cardinality(After(rows, r)) <= n
        /\ Cardinality(After(rows, r)) # n
    BY <2>1, FS_Subset
  <2>3. Cardinality(After(rows, r)) \in Nat
    BY <2>2, FS_CardinalityType
  <2>4. QED
    BY <1>1, <2>2, <2>3
<1>3. ASSUME NEW r \in rows, NEW s \in rows,
             Cardinality(After(rows, r)) = Cardinality(After(rows, s))
      PROVE  r = s
  <2>1. r # s => Before(r, s) \/ Before(s, r)
    BY DEF Before, Ordered
  <2>2. Cardinality(After(rows, r)) \in Int
    BY <1>2
  <2>3. QED
    BY <1>3, <2>1, <2>2, LaterHasFewerAfter
<1>4. ASSUME NEW k \in 0..(n - 1) PROVE \E r \in rows : Cardinality(After(rows, r)) = k
  <2>1. rank \in Injection(rows, 0..(n - 1))
    BY <1>2, <1>3 DEF Injection, IsInjective
  <2>2. IsFiniteSet(0..(n - 1)) /\ Cardinality(0..(n - 1)) = n
    BY <1>1, FS_Interval
  <2>3. rank \in Surjection(rows, 0..(n - 1))
    BY <2>1, <2>2, FS_Injection
  <2>4. QED
    BY <2>3 DEF Surjection
<1>5. QED
  BY <1>1, <1>2, <1>3, <1>4

(* ORDER BY ... DESC LIMIT limit: the list is as long as the limit and the  *)
(* table allow, each place has the row with as many after it as there are   *)
(* places before.                                                           *)
LEMMA NewestFirstRanks ==
  ASSUME NEW rows, IsFiniteSet(rows), Ordered(rows), NEW limit \in Nat
  PROVE  LET n == IF limit < Cardinality(rows) THEN limit ELSE Cardinality(rows)
             list == NewestFirst(rows, limit)
         IN  /\ n \in Nat /\ list \in Seq(rows) /\ Len(list) = n
             /\ \A i \in 1..n : /\ list[i] \in rows
                                /\ Cardinality(After(rows, list[i])) = i - 1
             /\ \A i \in 1..n, r \in rows : Cardinality(After(rows, r)) = i - 1 => r = list[i]
<1> DEFINE n == IF limit < Cardinality(rows) THEN limit ELSE Cardinality(rows)
           list == NewestFirst(rows, limit)
           Place(i) == CHOOSE r \in rows : Cardinality(After(rows, r)) = i - 1
<1>1. n \in Nat /\ n <= Cardinality(rows)
  BY EveryRankOnce
<1>2. list = [i \in 1..n |-> Place(i)]
  BY DEF NewestFirst, After
<1>3. ASSUME NEW i \in 1..n
      PROVE  Place(i) \in rows /\ Cardinality(After(rows, Place(i))) = i - 1
  <2>1. i - 1 \in 0..(Cardinality(rows) - 1)
    BY <1>1, EveryRankOnce
  <2>2. \E r \in rows : Cardinality(After(rows, r)) = i - 1
    BY <2>1, EveryRankOnce
  <2>3. QED
    BY <2>2
<1>4. \A i \in 1..n : list[i] \in rows /\ Cardinality(After(rows, list[i])) = i - 1
  BY <1>2, <1>3
<1>5. list \in Seq(rows) /\ Len(list) = n
  <2> HIDE DEF Place
  <2>1. list \in [1..n -> rows]
    BY <1>2, <1>3
  <2>2. QED
    BY <1>1, <2>1
<1>6. ASSUME NEW i \in 1..n, NEW r \in rows, Cardinality(After(rows, r)) = i - 1
      PROVE  r = list[i]
  BY <1>4, <1>6, EveryRankOnce
<1>7. QED
  BY <1>1, <1>4, <1>5, <1>6

LEMMA NewestFirstIsShort ==
  ASSUME NEW rows, IsFiniteSet(rows), Ordered(rows), NEW limit \in Nat
  PROVE  NewestFirst(rows, limit) \in Seq(rows) /\ Len(NewestFirst(rows, limit)) <= limit
<1> DEFINE n == IF limit < Cardinality(rows) THEN limit ELSE Cardinality(rows)
           list == NewestFirst(rows, limit)
<1>1. list \in Seq(rows) /\ Len(list) = n
  BY NewestFirstRanks
<1>2. Cardinality(rows) \in Nat
  BY FS_CardinalityType
<1>3. n <= limit
  BY <1>2
<1> HIDE DEF n, list
<1>4. list \in Seq(rows) /\ Len(list) <= limit
  BY <1>1, <1>3
<1>5. QED
  BY <1>4 DEF list

(* A table with a row has a newest row, and only one.                       *)
LEMMA NewestExists ==
  ASSUME NEW rows, IsFiniteSet(rows), Ordered(rows), rows # {}
  PROVE  \E r : IsNewest(r, rows)
<1>1. Cardinality(rows) # 0 /\ Cardinality(rows) \in Nat
  BY FS_EmptySet, FS_CardinalityType
<1>2. PICK r \in rows : Cardinality(After(rows, r)) = 0
  BY <1>1, EveryRankOnce
<1>3. After(rows, r) = {}
  <2>1. After(rows, r) \in SUBSET rows
    BY DEF After
  <2>2. QED
    BY <1>2, <2>1, FS_Subset, FS_EmptySet
<1>4. IsNewest(r, rows)
  BY <1>3 DEF IsNewest, After, Before, Ordered
<1>5. QED
  BY <1>4

(* No table has two.                                                        *)
LEMMA NewestIsOne ==
  ASSUME NEW rows, Ordered(rows), NEW r, NEW s, IsNewest(r, rows), IsNewest(s, rows)
  PROVE  r = s
BY DEF IsNewest, Ordered, Before

(* It is the first of the list.                                             *)
LEMMA NewestIsFirst ==
  ASSUME NEW rows, IsFiniteSet(rows), Ordered(rows), NEW limit \in Nat \ {0},
         NEW r, IsNewest(r, rows)
  PROVE  /\ NewestFirst(rows, limit) # <<>>
         /\ NewestFirst(rows, limit)[1] = r
<1>1. Cardinality(rows) # 0 /\ Cardinality(rows) \in Nat
  BY FS_EmptySet, FS_CardinalityType DEF IsNewest
<1>2. After(rows, r) = {}
  BY DEF After, IsNewest, Before, Ordered
<1>3. Cardinality(After(rows, r)) = 1 - 1 /\ r \in rows
  BY <1>2, FS_EmptySet DEF IsNewest
<1>4. (IF limit < Cardinality(rows) THEN limit ELSE Cardinality(rows)) \in Nat \ {0}
  BY <1>1
<1> DEFINE n == IF limit < Cardinality(rows) THEN limit ELSE Cardinality(rows)
           list == NewestFirst(rows, limit)
<1>5. /\ Len(list) = n
      /\ \A i \in 1..n, s \in rows : Cardinality(After(rows, s)) = i - 1 => s = list[i]
  BY NewestFirstRanks
<1>6. 1 \in 1..n
  BY <1>4
<1> HIDE DEF n, list
<1>7. list[1] = r /\ Len(list) # 0
  BY <1>3, <1>5, <1>6
<1>8. QED
  BY <1>7 DEF list

(* ORDER BY checked_at DESC, id DESC LIMIT 1 and DISTINCT ON: the newest    *)
(* row of the endpoint.                                                     *)
Own(rows, e) == {r \in rows : r.endpoint = e}
LEMMA LatestIsNewest ==
  ASSUME NEW rows, Ordered(rows), NEW e, NEW r, IsNewest(r, Own(rows, e))
  PROVE  LatestState(rows, e) = r.state /\ LatestResults(rows)[e] = r
<1>1. r \in rows /\ r.endpoint = e
  BY DEF IsNewest, Own
<1>2. \A q \in Own(rows, e) : (\A s \in Own(rows, e) : s = q \/ Before(s, q)) <=> q = r
  <2>1. Ordered(Own(rows, e))
    BY DEF Ordered, Own
  <2>2. QED
    BY <2>1, NewestIsOne DEF IsNewest
<1>3. LatestState(rows, e) = r.state
  <2> DEFINE latest == CHOOSE q \in Own(rows, e) :
                         \A s \in Own(rows, e) : s = q \/ Before(s, q)
  <2>1. latest = r
    BY <1>2 DEF IsNewest
  <2>2. LatestState(rows, e) = latest.state
    BY <1>1 DEF LatestState, Own
  <2>3. QED
    BY <2>1, <2>2
<1>4. LatestResults(rows)[e] = r
  <2> DEFINE latest == CHOOSE q \in rows :
               q.endpoint = e /\ \A s \in rows : s.endpoint = e => s = q \/ Before(s, q)
  <2>1. \A q \in rows : (q.endpoint = e /\ \A s \in rows : s.endpoint = e => s = q \/ Before(s, q))
                          <=> q = r
    BY <1>1, <1>2 DEF Own
  <2>2. latest = r
    BY <1>1, <2>1
  <2>3. e \in {q.endpoint : q \in rows}
    BY <1>1
  <2>4. LatestResults(rows)[e] = latest
    BY <2>3 DEF LatestResults
  <2>5. QED
    BY <2>2, <2>4
<1>5. QED
  BY <1>3, <1>4

(* A row counted once makes a count of one or more; one left out makes the  *)
(* count smaller.                                                           *)
LEMMA CountsTell ==
  ASSUME NEW rows, IsFiniteSet(rows), NEW r \in rows, NEW part \in SUBSET rows
  PROVE  /\ Cardinality(part) \in Nat /\ Cardinality(rows) \in Nat /\ Cardinality(rows) >= 1
         /\ Cardinality(part) <= Cardinality(rows)
         /\ r \in part => Cardinality(part) >= 1
         /\ r \notin part => Cardinality(part) < Cardinality(rows)
<1>1. /\ IsFiniteSet(part) /\ Cardinality(part) <= Cardinality(rows)
      /\ Cardinality(part) = Cardinality(rows) => part = rows
  BY FS_Subset
<1>2. Cardinality(part) \in Nat /\ Cardinality(rows) \in Nat
  BY <1>1, FS_CardinalityType
<1>3. Cardinality(rows) # 0 /\ (r \in part => Cardinality(part) # 0)
  BY <1>1, FS_EmptySet
<1>4. QED
  BY <1>1, <1>2, <1>3
=============================================================================
