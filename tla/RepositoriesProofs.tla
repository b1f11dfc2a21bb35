------------------------- MODULE RepositoriesProofs -------------------------
(***************************************************************************)
(* Proofs about Repositories, for any endpoints, results, target and       *)
(* limits: how the figures of a window follow its results, and that the    *)
(* in-memory repository answers like PostgreSQL.                           *)
(***************************************************************************)
EXTENDS Repositories, QueryLemmas

-----------------------------------------------------------------------------
(* The figures as functions of two counts.                                  *)

LEMMA ProductsInOrder ==
  ASSUME NEW a \in Int, NEW b \in Int, NEW c \in Nat, a <= b
  PROVE  a * c \in Int /\ b * c \in Int /\ a * c <= b * c
<1>1. (b - a) * c >= 0
  OBVIOUS
<1>2. (b - a) * c = b * c - a * c
  OBVIOUS
<1>3. QED
  BY <1>1, <1>2

(* How far the target is from 1 and the part of the results that fail, over *)
(* the same denominator.                                                    *)
Slack == TargetDen - TargetNum
Burn(eligible, good) ==
  IF eligible > 0 THEN [num |-> (eligible - good) * TargetDen, den |-> eligible * Slack]
  ELSE Zero
Remaining(burn) == IF AtMost(burn, One) THEN Rest(burn) ELSE Zero
Fraction == [num : Nat, den : Nat \ {0}]

LEMMA FiguresOfCounts ==
  ASSUME NEW eligible \in Nat, NEW good \in Nat, NEW latencyGood \in Nat
  PROVE  LET f == Figures(eligible, good, latencyGood)
         IN  /\ f.burnRate = Burn(eligible, good)
             /\ f.budgetRemaining = Remaining(Burn(eligible, good))
             /\ f.sampleCount = eligible
             /\ f.availability = Ratio(good, eligible)
<1>1. TargetDen # 0
  BY SLOAssumption
<1>2. eligible > 0 => Over(Rest(Ratio(good, eligible)), Rest(Ratio(TargetNum, TargetDen)))
                        = Burn(eligible, good)
  BY <1>1 DEF Over, Rest, Ratio, Burn, Slack
<1>3. (IF eligible > 0
         THEN Over(Rest(Ratio(good, eligible)), Rest(Ratio(TargetNum, TargetDen)))
         ELSE Zero) = Burn(eligible, good)
  BY <1>2 DEF Burn
<1>4. QED
  BY <1>3 DEF Figures, Remaining

LEMMA BurnIsFraction ==
  ASSUME NEW eligible \in Nat, NEW good \in Nat, good <= eligible
  PROVE  Burn(eligible, good) \in Fraction
<1>1. Slack \in Nat \ {0} /\ TargetDen \in Nat \ {0}
  BY SLOAssumption DEF Slack
<1>2. (eligible - good) * TargetDen \in Nat
  BY <1>1
<1>3. eligible > 0 => eligible * Slack \in Nat \ {0}
  BY <1>1
<1>4. QED
  BY <1>2, <1>3 DEF Burn, Zero, Fraction

LEMMA RemainingFalls ==
  ASSUME NEW p \in Fraction, NEW q \in Fraction, AtMost(p, q)
  PROVE  AtMost(Remaining(q), Remaining(p))
<1>1. /\ p.num \in Nat /\ p.den \in Nat \ {0} /\ q.num \in Nat /\ q.den \in Nat \ {0}
      /\ p.num * q.den <= q.num * p.den
  BY DEF Fraction, AtMost
<1>2. CASE q.num <= q.den
  <2>1. q.num * p.den <= q.den * p.den
    BY <1>1, <1>2, ProductsInOrder
  <2>2. p.num <= p.den
    <3>1. SUFFICES ASSUME p.num >= p.den + 1 PROVE FALSE
      BY <1>1
    <3>2. (p.den + 1) * q.den <= p.num * q.den
      BY <1>1, <3>1, ProductsInOrder
    <3>3. QED
      BY <1>1, <2>1, <3>2
  <2>3. (q.den - q.num) * p.den <= (p.den - p.num) * q.den
    BY <1>1
  <2>4. AtMost(q, One) /\ AtMost(p, One)
    BY <1>1, <1>2, <2>2 DEF AtMost, One
  <2>5. QED
    BY <2>3, <2>4 DEF Remaining, Rest, AtMost
<1>3. CASE q.num > q.den
  <2>1. ~AtMost(q, One)
    BY <1>1, <1>3 DEF AtMost, One
  <2>2. CASE AtMost(p, One)
    <3>1. p.num <= p.den
      BY <1>1, <2>2 DEF AtMost, One
    <3>2. AtMost(Zero, Rest(p))
      BY <1>1, <3>1 DEF AtMost, Zero, Rest
    <3>3. QED
      BY <2>1, <2>2, <3>2 DEF Remaining
  <2>3. CASE ~AtMost(p, One)
    BY <2>1, <2>3 DEF Remaining, AtMost, Zero
  <2>4. QED
    BY <2>2, <2>3
<1>4. QED
  BY <1>1, <1>2, <1>3

LEMMA BurnOfCounts ==
  \A eligible, good, latencyGood \in Nat :
    /\ Figures(eligible, good, latencyGood).burnRate = Burn(eligible, good)
    /\ Figures(eligible, good, latencyGood).budgetRemaining = Remaining(Burn(eligible, good))
BY FiguresOfCounts

(* The promises of BudgetMeetsTarget hold of every count.                   *)
LEMMA FiguresMeetTarget ==
  ASSUME NEW eligible \in Nat, NEW good \in Nat, NEW latencyGood \in Nat, good <= eligible
  PROVE  BudgetMeetsTarget(Figures(eligible, good, latencyGood))
<1> DEFINE f == Figures(eligible, good, latencyGood)
           burn == Burn(eligible, good)
<1>1. /\ f.burnRate = burn /\ f.budgetRemaining = Remaining(burn)
      /\ f.sampleCount = eligible /\ f.availability = Ratio(good, eligible)
  BY FiguresOfCounts
<1>2. burn.num \in Nat /\ burn.den \in Nat \ {0}
  BY BurnIsFraction DEF Fraction
<1>3. ASSUME eligible > 0
      PROVE  AtMost(burn, One) <=> AtMost([num |-> TargetNum, den |-> TargetDen], Ratio(good, eligible))
  <2>1. burn = [num |-> (eligible - good) * TargetDen, den |-> eligible * (TargetDen - TargetNum)]
    BY <1>3 DEF Burn, Slack
  <2>2. TargetNum \in Nat /\ TargetDen \in Nat
    BY SLOAssumption
  <2>3. (eligible - good) * TargetDen <= eligible * (TargetDen - TargetNum)
          <=> TargetNum * eligible <= good * TargetDen
    BY <2>2
  <2>4. AtMost(burn, One) <=> (eligible - good) * TargetDen <= eligible * (TargetDen - TargetNum)
    BY <2>1, <2>2 DEF AtMost, One
  <2>5. AtMost([num |-> TargetNum, den |-> TargetDen], Ratio(good, eligible))
          <=> TargetNum * eligible <= good * TargetDen
    BY <1>3 DEF AtMost, Ratio
  <2>6. QED
    BY <2>3, <2>4, <2>5
<1>4. ASSUME eligible = 0 PROVE burn = Zero /\ Remaining(burn) = One
  BY <1>4 DEF Burn, Remaining, Zero, One, Rest, AtMost
<1>5. AtMost(Zero, Remaining(burn)) /\ AtMost(Remaining(burn), One)
  <2> HIDE DEF burn
  <2>1. CASE AtMost(burn, One)
    BY <1>2, <2>1 DEF Remaining, AtMost, Zero, One, Rest
  <2>2. CASE ~AtMost(burn, One)
    BY <2>2 DEF Remaining, AtMost, Zero, One
  <2>3. QED
    BY <2>1, <2>2
<1> HIDE DEF burn, f
<1>6. QED
  BY <1>1, <1>3, <1>4, <1>5 DEF BudgetMeetsTarget, f

(* One more result that is not good: the burn rate does not fall.           *)
LEMMA BurnAfterBad ==
  ASSUME NEW eligible \in Nat, NEW good \in Nat, good <= eligible
  PROVE  AtMost(Burn(eligible, good), Burn(eligible + 1, good))
<1> DEFINE d == TargetDen  k == TargetDen - TargetNum
<1>1. d \in Nat /\ k \in Nat
  BY SLOAssumption
<1> HIDE DEF d, k
<1>2. CASE eligible = 0
  BY <1>1, <1>2 DEF Burn, Zero, AtMost, Slack, d, k
<1>3. CASE eligible > 0
  <2>1. (eligible - good) * (eligible + 1) <= (eligible + 1 - good) * eligible
    OBVIOUS
  <2>2. /\ (eligible - good) * (eligible + 1) \in Nat
        /\ (eligible + 1 - good) * eligible \in Nat
        /\ d * k \in Nat
    BY <1>1
  <2>3. ((eligible - good) * (eligible + 1)) * (d * k)
          <= ((eligible + 1 - good) * eligible) * (d * k)
    BY <2>1, <2>2, ProductsInOrder
  <2>4. /\ ((eligible - good) * d) * ((eligible + 1) * k)
             = ((eligible - good) * (eligible + 1)) * (d * k)
        /\ ((eligible + 1 - good) * d) * (eligible * k)
             = ((eligible + 1 - good) * eligible) * (d * k)
    BY <1>1
  <2>5. QED
    BY <1>3, <2>3, <2>4 DEF Burn, AtMost, Slack, d, k
<1>4. QED
  BY <1>2, <1>3

(* One more good result: the burn rate does not rise.                       *)
LEMMA BurnAfterGood ==
  ASSUME NEW eligible \in Nat, NEW good \in Nat, good <= eligible
  PROVE  AtMost(Burn(eligible + 1, good + 1), Burn(eligible, good))
<1> DEFINE d == TargetDen  k == TargetDen - TargetNum
<1>1. d \in Nat /\ k \in Nat
  BY SLOAssumption
<1> HIDE DEF d, k
<1>2. CASE eligible = 0
  <2>1. good = 0 /\ (eligible + 1 - (good + 1)) * d = 0
    BY <1>1, <1>2
  <2>2. QED
    BY <1>1, <1>2, <2>1 DEF Burn, Zero, AtMost, Slack, d, k
<1>3. CASE eligible > 0
  <2>1. (eligible - good) * d \in Nat
    BY <1>1
  <2>2. eligible * k <= (eligible + 1) * k /\ eligible * k \in Nat /\ (eligible + 1) * k \in Nat
    BY <1>1, ProductsInOrder
  <2>3. (eligible * k) * ((eligible - good) * d) <= ((eligible + 1) * k) * ((eligible - good) * d)
    BY <2>1, <2>2, ProductsInOrder
  <2>4. ((eligible - good) * d) * (eligible * k) <= ((eligible - good) * d) * ((eligible + 1) * k)
    BY <2>1, <2>2, <2>3
  <2>5. eligible + 1 - (good + 1) = eligible - good
    OBVIOUS
  <2>6. QED
    BY <1>3, <2>4, <2>5 DEF Burn, AtMost, Slack, d, k
<1>4. QED
  BY <1>2, <1>3

-----------------------------------------------------------------------------
(* How one more result moves the counts of a window.                        *)

Counted(rows, e, since) == {r \in rows : r.endpoint = e /\ r.at >= since}
EligibleOf(rows, e, since) == {r \in Counted(rows, e, since) : Eligible(r)}
GoodOf(rows, e, since) == {r \in Counted(rows, e, since) : Good(r)}

LEMMA CountsAreNumbers ==
  ASSUME NEW rows, IsFiniteSet(rows), NEW e, NEW since
  PROVE  LET counts == CountsSince(rows, e, since, LatencyTarget)
         IN  /\ counts.eligible = Cardinality(EligibleOf(rows, e, since))
             /\ counts.good = Cardinality(GoodOf(rows, e, since))
             /\ counts.eligible \in Nat /\ counts.good \in Nat /\ counts.latencyGood \in Nat
             /\ counts.good <= counts.eligible
             /\ IsFiniteSet(EligibleOf(rows, e, since)) /\ IsFiniteSet(GoodOf(rows, e, since))
<1> DEFINE quick == {r \in Counted(rows, e, since) : LatencyGood(r, LatencyTarget)}
<1>1. CountsSince(rows, e, since, LatencyTarget) =
        [eligible |-> Cardinality(EligibleOf(rows, e, since)),
         good |-> Cardinality(GoodOf(rows, e, since)), latencyGood |-> Cardinality(quick)]
  BY DEF CountsSince, EligibleOf, GoodOf, Counted
<1>2. /\ EligibleOf(rows, e, since) \in SUBSET rows /\ quick \in SUBSET rows
      /\ GoodOf(rows, e, since) \in SUBSET EligibleOf(rows, e, since)
  BY DEF EligibleOf, GoodOf, Counted, Good, Eligible
<1>3. /\ IsFiniteSet(EligibleOf(rows, e, since)) /\ IsFiniteSet(quick)
      /\ IsFiniteSet(GoodOf(rows, e, since))
      /\ Cardinality(GoodOf(rows, e, since)) <= Cardinality(EligibleOf(rows, e, since))
  BY <1>2, FS_Subset
<1>4. /\ Cardinality(EligibleOf(rows, e, since)) \in Nat /\ Cardinality(quick) \in Nat
      /\ Cardinality(GoodOf(rows, e, since)) \in Nat
  BY <1>3, FS_CardinalityType
<1>5. QED
  BY <1>1, <1>3, <1>4

LEMMA CountsFollow ==
  ASSUME NEW rows, IsFiniteSet(rows), NEW r, r \notin rows, NEW e, NEW since
  PROVE  LET before == CountsSince(rows, e, since, LatencyTarget)
             after == CountsSince(rows \cup {r}, e, since, LatencyTarget)
         IN  /\ r.state = "Maintenance" \/ r.endpoint # e \/ ~(r.at >= since) => after = before
             /\ r.state = "Unavailable" /\ r.endpoint = e /\ r.at >= since =>
                  after.eligible = before.eligible + 1 /\ after.good = before.good
             /\ Good(r) /\ r.endpoint = e /\ r.at >= since =>
                  after.eligible = before.eligible + 1 /\ after.good = before.good + 1
<1> DEFINE more == rows \cup {r}
<1>1. IsFiniteSet(more)
  BY FS_AddElement
<1>2. ASSUME r.state = "Maintenance" \/ r.endpoint # e \/ ~(r.at >= since)
      PROVE  CountsSince(more, e, since, LatencyTarget) = CountsSince(rows, e, since, LatencyTarget)
  <2>1. /\ {q \in {p \in more : p.endpoint = e /\ p.at >= since} : Eligible(q)} =
             {q \in {p \in rows : p.endpoint = e /\ p.at >= since} : Eligible(q)}
        /\ {q \in {p \in more : p.endpoint = e /\ p.at >= since} : Good(q)} =
             {q \in {p \in rows : p.endpoint = e /\ p.at >= since} : Good(q)}
        /\ {q \in {p \in more : p.endpoint = e /\ p.at >= since} :
              LatencyGood(q, LatencyTarget)} =
             {q \in {p \in rows : p.endpoint = e /\ p.at >= since} :
              LatencyGood(q, LatencyTarget)}
    BY <1>2 DEF Eligible, Good, LatencyGood
  <2>2. QED
    BY <2>1 DEF CountsSince
<1>3. ASSUME r.endpoint = e, r.at >= since, r.state # "Maintenance"
      PROVE  Cardinality(EligibleOf(more, e, since)) = Cardinality(EligibleOf(rows, e, since)) + 1
  <2>1. /\ EligibleOf(more, e, since) = EligibleOf(rows, e, since) \cup {r}
        /\ r \notin EligibleOf(rows, e, since)
    BY <1>3 DEF EligibleOf, Counted, Eligible
  <2>2. IsFiniteSet(EligibleOf(rows, e, since))
    <3>1. EligibleOf(rows, e, since) \subseteq rows
      BY DEF EligibleOf, Counted
    <3>2. QED
      BY <3>1, FS_Subset
  <2>3. QED
    BY <2>1, <2>2, FS_AddElement
<1>4. ASSUME r.endpoint = e, r.at >= since, Good(r)
      PROVE  Cardinality(GoodOf(more, e, since)) = Cardinality(GoodOf(rows, e, since)) + 1
  <2>1. /\ GoodOf(more, e, since) = GoodOf(rows, e, since) \cup {r}
        /\ r \notin GoodOf(rows, e, since)
    BY <1>4 DEF GoodOf, Counted
  <2>2. IsFiniteSet(GoodOf(rows, e, since))
    <3>1. GoodOf(rows, e, since) \subseteq rows
      BY DEF GoodOf, Counted
    <3>2. QED
      BY <3>1, FS_Subset
  <2>3. QED
    BY <2>1, <2>2, FS_AddElement
<1>5. ASSUME r.state = "Unavailable" PROVE GoodOf(more, e, since) = GoodOf(rows, e, since)
  BY <1>5 DEF GoodOf, Counted, Good
<1>6. Good(r) => r.state # "Maintenance"
  BY DEF Good
<1> HIDE DEF more
<1>7. QED
  BY <1>1, <1>2, <1>3, <1>4, <1>5, <1>6, CountsAreNumbers DEF more

(* One result does to the figures what FiguresFollow says.                  *)
LEMMA OneResultFollows ==
  ASSUME IsFiniteSet(results), NEW r, r \notin results, r.at \in Int,
         NEW e \in Endpoint, NEW since \in Int
  PROVE  LET Of(rows) == CalculateSLOCounts(CountsSince(rows, e, since, LatencyTarget))
         IN  FiguresFollow(r, e, since, Of(results), Of(results \cup {r}))
<1> DEFINE more == results \cup {r}
           before == CountsSince(results, e, since, LatencyTarget)
           after == CountsSince(more, e, since, LatencyTarget)
<1>1. IsFiniteSet(more)
  BY FS_AddElement
<1>2. /\ before.eligible \in Nat /\ before.good \in Nat /\ before.latencyGood \in Nat
      /\ before.good <= before.eligible
      /\ after.eligible \in Nat /\ after.good \in Nat /\ after.latencyGood \in Nat
      /\ after.good <= after.eligible
  BY <1>1, CountsAreNumbers
<1>3. /\ r.state = "Maintenance" \/ r.endpoint # e \/ ~(r.at >= since) => after = before
      /\ r.state = "Unavailable" /\ r.endpoint = e /\ r.at >= since =>
           after.eligible = before.eligible + 1 /\ after.good = before.good
      /\ Good(r) /\ r.endpoint = e /\ r.at >= since =>
           after.eligible = before.eligible + 1 /\ after.good = before.good + 1
  BY CountsFollow, SMTT(30)
<1> HIDE DEF before, after, more
<1> DEFINE f == CalculateSLOCounts(before)
           g == CalculateSLOCounts(after)
<1>4. /\ f.burnRate = Burn(before.eligible, before.good)
      /\ f.budgetRemaining = Remaining(Burn(before.eligible, before.good))
      /\ g.burnRate = Burn(after.eligible, after.good)
      /\ g.budgetRemaining = Remaining(Burn(after.eligible, after.good))
      /\ BudgetMeetsTarget(g)
  <2>1. /\ f = Figures(before.eligible, before.good, before.latencyGood)
        /\ g = Figures(after.eligible, after.good, after.latencyGood)
    BY DEF CalculateSLOCounts
  <2> HIDE DEF f, g
  <2>2. /\ f.burnRate = Burn(before.eligible, before.good)
        /\ f.budgetRemaining = Remaining(Burn(before.eligible, before.good))
    BY <1>2, <2>1, BurnOfCounts
  <2>3. /\ g.burnRate = Burn(after.eligible, after.good)
        /\ g.budgetRemaining = Remaining(Burn(after.eligible, after.good))
    BY <1>2, <2>1, BurnOfCounts
  <2>4. BudgetMeetsTarget(g)
    BY <1>2, <2>1, FiguresMeetTarget
  <2>5. QED
    BY <2>2, <2>3, <2>4
<1>5. /\ Burn(before.eligible, before.good) \in Fraction
      /\ Burn(after.eligible, after.good) \in Fraction
  BY <1>2, BurnIsFraction
<1>6. AtMost(f.burnRate, f.burnRate) /\ AtMost(f.budgetRemaining, f.budgetRemaining)
  <2>1. AtMost(f.burnRate, f.burnRate)
    BY <1>4, <1>5 DEF AtMost, Fraction
  <2>2. QED
    BY <1>4, <1>5, <2>1, RemainingFalls
<1>7. r.at < since <=> ~(r.at >= since)
  OBVIOUS
<1>8. ASSUME r.state = "Maintenance" \/ r.endpoint # e \/ r.at < since PROVE g = f
  BY <1>3, <1>7, <1>8
<1> HIDE DEF f, g
<1>9. ASSUME r.state = "Unavailable"
      PROVE  /\ AtMost(f.burnRate, g.burnRate)
             /\ AtMost(g.budgetRemaining, f.budgetRemaining)
  <2>1. CASE r.endpoint # e \/ r.at < since
    BY <1>6, <1>8, <2>1
  <2>2. CASE r.endpoint = e /\ r.at >= since
    <3>1. AtMost(f.burnRate, g.burnRate)
      BY <1>2, <1>3, <1>4, <1>9, <2>2, BurnAfterBad
    <3>2. QED
      BY <1>4, <1>5, <3>1, RemainingFalls
  <2>3. QED
    BY <1>7, <2>1, <2>2
<1>10. ASSUME Good(r) PROVE AtMost(g.burnRate, f.burnRate)
  <2>1. CASE r.endpoint # e \/ r.at < since
    BY <1>6, <1>8, <2>1
  <2>2. CASE r.endpoint = e /\ r.at >= since
    BY <1>2, <1>3, <1>4, <1>10, <2>2, BurnAfterGood
  <2>3. QED
    BY <1>7, <2>1, <2>2
<1>11. FiguresFollow(r, e, since, f, g)
  BY <1>4, <1>8, <1>9, <1>10 DEF FiguresFollow
<1>12. QED
  BY <1>11 DEF f, g, before, after, more

-----------------------------------------------------------------------------
(* Which states the tables are in.                                          *)

ResultRow ==
  [id : Nat, endpoint : Endpoint, at : Nat, state : State, latency : Latency]

ResultsTyped ==
  /\ results \subseteq ResultRow
  /\ IsFiniteSet(results)
  /\ \A r \in results : r.id <= Cardinality(results)

NewRow(r) ==
  /\ r \in ResultRow
  /\ r.id = Cardinality(results) + 1
  /\ \A q \in results : q.endpoint = r.endpoint => q.at <= r.at

LEMMA RecordAddsRow ==
  ASSUME ResultsTyped, RecordBoth
  PROVE  \E r : /\ NewRow(r) /\ r \notin results
                /\ Cardinality(results) < MaxResults
                /\ Log!Record(r) /\ results' = results \cup {r}
                /\ memory' = MemoryRecord(memory, r)
<1>1. Cardinality(results) \in Nat
  BY FS_CardinalityType DEF ResultsTyped
<1>2. PICK e \in Endpoint, s \in State, l \in Latency, t \in 1..MaxTime :
        LET r == [id |-> Cardinality(results) + 1, endpoint |-> e, at |-> t, state |-> s,
                  latency |-> l]
        IN  /\ \A q \in results : q.endpoint = e => q.at <= t
            /\ Log!Record(r)
            /\ memory' = MemoryRecord(memory, r)
  BY DEF RecordBoth
<1> DEFINE r == [id |-> Cardinality(results) + 1, endpoint |-> e, at |-> t, state |-> s,
                 latency |-> l]
<1>3. t \in Nat
  BY RepositoriesAssumption
<1>4. NewRow(r)
  BY <1>1, <1>2, <1>3 DEF NewRow, ResultRow
<1>5. r \notin results
  BY <1>1 DEF ResultsTyped, ResultRow
<1>6. Log!Record(r) /\ results' = results \cup {r}
  BY <1>2 DEF Log!Record
<1>7. QED
  BY <1>2, <1>4, <1>5, <1>6 DEF RecordBoth

LEMMA ResultsTypedInit == Init => ResultsTyped
<1>1. Init => results = {}
  BY DEF Init, Log!LInit
<1>2. QED
  BY <1>1, FS_EmptySet DEF ResultsTyped

LEMMA ResultsTypedStep == ResultsTyped /\ [Next]_vars => ResultsTyped'
<1> SUFFICES ASSUME ResultsTyped, [Next]_vars PROVE ResultsTyped'
  OBVIOUS
<1>1. CASE RecordBoth
  <2>1. PICK r : NewRow(r) /\ r \notin results /\ results' = results \cup {r}
    BY <1>1, RecordAddsRow
  <2>2. Cardinality(results) \in Nat
    BY FS_CardinalityType DEF ResultsTyped
  <2>3. IsFiniteSet(results') /\ Cardinality(results') = Cardinality(results) + 1
    BY <2>1, FS_AddElement DEF ResultsTyped
  <2>4. QED
    BY <2>1, <2>2, <2>3 DEF ResultsTyped, NewRow, ResultRow
<1>2. CASE UNCHANGED vars
  BY <1>2 DEF vars, tables, ResultsTyped
<1>3. QED
  BY <1>1, <1>2 DEF Next, Full

(* README.md: maintenance is "excluded from uptime and SLO budgets", an     *)
(* outage never gives budget back, a good result never takes any, and the   *)
(* figures meet the target exactly when the burn rate is at most 1:         *)
(* whatever is recorded, for every target strictly between 0 and 1.         *)
THEOREM FiguresFollowEveryResult == Spec => BudgetFollowsResults
<1>1. ASSUME ResultsTyped, Next
      PROVE  \A before \in {AllFigures}, after \in {AllFigures'}, r \in results' \ results :
               \A e \in Endpoint, since \in Windows :
                 FiguresFollow(r, e, since, before[e][since], after[e][since])
  <2> SUFFICES ASSUME NEW r \in results' \ results, NEW e \in Endpoint, NEW since \in Windows
               PROVE  FiguresFollow(r, e, since, AllFigures[e][since], AllFigures'[e][since])
    OBVIOUS
  <2>1. RecordBoth
    BY <1>1 DEF Next, Full, vars, tables
  <2>2. NewRow(r) /\ r \notin results /\ results' = results \cup {r}
    <3>1. PICK q : NewRow(q) /\ q \notin results /\ results' = results \cup {q}
      BY <1>1, <2>1, RecordAddsRow
    <3>2. r = q
      BY <3>1
    <3>3. QED
      BY <3>1, <3>2
  <2>3. /\ AllFigures[e][since] =
             CalculateSLOCounts(CountsSince(results, e, since, LatencyTarget))
        /\ AllFigures'[e][since] =
             CalculateSLOCounts(CountsSince(results', e, since, LatencyTarget))
    BY DEF AllFigures
  <2>4. since \in Int /\ r.at \in Int
    BY <2>2, RepositoriesAssumption DEF Windows, NewRow, ResultRow
  <2>5. QED
    BY <1>1, <2>2, <2>3, <2>4, OneResultFollows DEF ResultsTyped
<1>2. QED
  BY <1>1, ResultsTypedInit, ResultsTypedStep, PTL DEF Spec, BudgetFollowsResults

-----------------------------------------------------------------------------
(* A list of the in-memory repository mirrors a table when its items are    *)
(* the rows, in the order of their identifiers, but for the identifiers.    *)

Mirror(o, list, rows) ==
  /\ \A i \in DOMAIN list : Facts(list[i]) = Facts(o[i])
  /\ \A i, j \in DOMAIN list : i < j => o[i].id < o[j].id
Mirrored(list, rows) == \E o \in Bijection(DOMAIN list, rows) : Mirror(o, list, rows)

LEMMA MirrorMaps ==
  ASSUME NEW D, NEW rows, NEW o \in Bijection(D, rows)
  PROVE  /\ \A i \in D : o[i] \in rows
         /\ \A i, j \in D : o[i] = o[j] => i = j
         /\ \A r \in rows : \E i \in D : o[i] = r
BY DEF Bijection, Injection, Surjection, IsInjective

LEMMA EmptyMirror == Mirrored(<<>>, {})
<1> DEFINE o == [i \in {} |-> 0]
<1>1. DOMAIN <<>> = {}
  OBVIOUS
<1>2. o \in Bijection({}, {})
  BY DEF Bijection, Injection, Surjection, IsInjective
<1>3. Mirror(o, <<>>, {})
  BY <1>1 DEF Mirror
<1>4. QED
  BY <1>1, <1>2, <1>3 DEF Mirrored

(* A row with a new highest identifier and an item with its facts.          *)
LEMMA MirrorGrows ==
  ASSUME NEW S, NEW list \in Seq(S), NEW rows, Mirrored(list, rows),
         \A q \in rows : q.id \in Int,
         NEW item \in S, NEW row, row.id \in Int, \A q \in rows : q.id < row.id,
         Facts(item) = Facts(row)
  PROVE  Mirrored(Append(list, item), rows \cup {row})
<1> DEFINE n == Len(list)  more == Append(list, item)
<1>1. /\ n \in Nat /\ DOMAIN list = 1..n /\ DOMAIN more = 1..(n + 1)
      /\ more[n + 1] = item /\ \A i \in 1..n : more[i] = list[i]
  OBVIOUS
<1>2. PICK o \in Bijection(1..n, rows) : Mirror(o, list, rows)
  BY <1>1 DEF Mirrored
<1>3. /\ \A i \in 1..n : o[i] \in rows
      /\ \A i, j \in 1..n : o[i] = o[j] => i = j
      /\ \A r \in rows : \E i \in 1..n : o[i] = r
  BY MirrorMaps
<1>4. row \notin rows
  OBVIOUS
<1> DEFINE p == [i \in 1..(n + 1) |-> IF i = n + 1 THEN row ELSE o[i]]
<1>5. p[n + 1] = row /\ \A i \in 1..n : p[i] = o[i]
  BY <1>1
<1>6. \A i \in 1..(n + 1) : i \in 1..n \/ i = n + 1
  BY <1>1
<1>7. n + 1 \in 1..(n + 1) /\ 1..n \subseteq 1..(n + 1)
  BY <1>1
<1>8. p \in [1..(n + 1) -> rows \cup {row}]
  BY <1>3, <1>6
<1> HIDE DEF p, more, n
<1>9. \A i, j \in 1..(n + 1) : p[i] = p[j] => i = j
  BY <1>3, <1>4, <1>5, <1>6
<1>10. \A r \in rows \cup {row} : \E i \in 1..(n + 1) : p[i] = r
  BY <1>3, <1>5, <1>7
<1>11. p \in Bijection(1..(n + 1), rows \cup {row})
  BY <1>8, <1>9, <1>10 DEF Bijection, Injection, Surjection, IsInjective
<1>12. \A i \in 1..(n + 1) : Facts(more[i]) = Facts(p[i])
  BY <1>1, <1>2, <1>5, <1>6 DEF Mirror
<1>13. ASSUME NEW i \in 1..(n + 1), NEW j \in 1..(n + 1), i < j PROVE p[i].id < p[j].id
  <2>1. i \in 1..n
    BY <1>1, <1>13
  <2>2. CASE j \in 1..n
    BY <1>1, <1>2, <1>5, <1>13, <2>1, <2>2 DEF Mirror
  <2>3. CASE j = n + 1
    BY <1>3, <1>5, <2>1, <2>3
  <2>4. QED
    BY <1>6, <2>2, <2>3
<1>14. Mirror(p, more, rows \cup {row})
  BY <1>1, <1>12, <1>13 DEF Mirror
<1>15. QED
  BY <1>1, <1>11, <1>14 DEF Mirrored, more

(* As many items as rows, of whatever kind.                                 *)
LEMMA MirrorCounts ==
  ASSUME NEW D, NEW rows, IsFiniteSet(rows), NEW o \in Bijection(D, rows),
         NEW A \in SUBSET D, NEW B \in SUBSET rows, \A i \in D : i \in A <=> o[i] \in B
  PROVE  IsFiniteSet(A) /\ Cardinality(A) = Cardinality(B)
<1>1. /\ \A i \in D : o[i] \in rows
      /\ \A i, j \in D : o[i] = o[j] => i = j
      /\ \A r \in rows : \E i \in D : o[i] = r
  BY MirrorMaps
<1> DEFINE g == [r \in B |-> CHOOSE i \in A : o[i] = r]
<1>2. \A r \in B : g[r] \in A /\ o[g[r]] = r
  BY <1>1
<1>3. g \in [B -> A]
  BY <1>2
<1> HIDE DEF g
<1>4. \A r, s \in B : g[r] = g[s] => r = s
  BY <1>2
<1>5. \A i \in A : \E r \in B : g[r] = i
  BY <1>1, <1>2
<1>6. g \in Bijection(B, A)
  BY <1>3, <1>4, <1>5 DEF Bijection, Injection, Surjection, IsInjective
<1>7. IsFiniteSet(B)
  BY FS_Subset
<1>8. QED
  BY <1>6, <1>7, FS_Bijection DEF ExistsBijection

(* The items at A are the rows B of the table, and rank puts them in the    *)
(* order of the rows, newest first.                                         *)
SameOrder(o, D, rows, A, B, rank) ==
  /\ IsFiniteSet(rows) /\ o \in Bijection(D, rows)
  /\ A \in SUBSET D /\ B \in SUBSET rows /\ Ordered(B)
  /\ \A i \in D : i \in A <=> o[i] \in B
  /\ DOMAIN rank = A
  /\ \A i \in A : rank[i] = Cardinality(After(B, o[i]))

(* Place by place the one list has an item at A and the other its row.      *)
SameItems(answer, rows, list, A, o) ==
  /\ DOMAIN answer = DOMAIN rows
  /\ \A place \in DOMAIN rows :
       \E i \in A : answer[place] = list[i] /\ rows[place] = o[i]

(* Then the list by rank is the list of the newest, item by item.           *)
LEMMA SameListing ==
  ASSUME NEW list, NEW o, NEW D, NEW rows, NEW A, NEW B, NEW rank,
         SameOrder(o, D, rows, A, B, rank), NEW limit \in Nat
  PROVE  SameItems(Listed(list, rank, limit), NewestFirst(B, limit), list, A, o)
<1> USE DEF SameOrder
<1>1. IsFiniteSet(B) /\ Cardinality(A) = Cardinality(B)
  BY MirrorCounts, FS_Subset
<1> DEFINE n == IF limit < Cardinality(B) THEN limit ELSE Cardinality(B)
           Place(place) == CHOOSE i \in DOMAIN rank : rank[i] = place - 1
<1>2. /\ n \in Nat /\ NewestFirst(B, limit) \in Seq(B) /\ Len(NewestFirst(B, limit)) = n
      /\ \A i \in 1..n : /\ NewestFirst(B, limit)[i] \in B
                         /\ Cardinality(After(B, NewestFirst(B, limit)[i])) = i - 1
      /\ \A i \in 1..n, r \in B :
           Cardinality(After(B, r)) = i - 1 => r = NewestFirst(B, limit)[i]
  <2>1. Ordered(B)
    OBVIOUS
  <2>2. QED
    BY ONLY <1>1, <2>1, limit \in Nat, NewestFirstRanks
<1>3. DOMAIN NewestFirst(B, limit) = 1..n
  BY <1>2
<1>4. Listed(list, rank, limit) = [place \in 1..n |-> list[Place(place)]]
  <2>1. DOMAIN rank = A
    OBVIOUS
  <2>2. QED
    BY ONLY <1>1, <2>1 DEF Listed
<1>5. ASSUME NEW place \in 1..n
      PROVE  \E i \in A : /\ Listed(list, rank, limit)[place] = list[i]
                          /\ NewestFirst(B, limit)[place] = o[i]
  <2>1. \A r \in rows : \E i \in D : o[i] = r
    BY MirrorMaps
  <2>2. PICK i \in D : o[i] = NewestFirst(B, limit)[place]
    BY <1>2, <2>1
  <2>3. i \in A /\ rank[i] = place - 1
    BY <1>2, <2>2
  <2>4. Place(place) \in A /\ rank[Place(place)] = place - 1
    BY <2>3
  <2>5. o[Place(place)] \in B
    BY <2>4
  <2> HIDE DEF Place
  <2>6. o[Place(place)] = NewestFirst(B, limit)[place]
    BY <1>2, <2>4, <2>5
  <2>7. Listed(list, rank, limit)[place] = list[Place(place)]
    BY <1>4
  <2>8. QED
    BY <2>4, <2>6, <2>7
<1>6. DOMAIN Listed(list, rank, limit) = DOMAIN NewestFirst(B, limit)
  BY <1>3, <1>4
<1> HIDE DEF n
<1>7. QED
  BY <1>3, <1>5, <1>6 DEF SameItems

-----------------------------------------------------------------------------
(* The states of both repositories, side by side.                           *)

TransitionRow ==
  [id : Nat, endpoint : Endpoint, at : Nat, from : State \cup {"Unknown"}, to : State]
AlertRow == [id : Nat, endpoint : Endpoint, at : Nat, state : State]

(* Results have identifiers of their own, in the order of their times for   *)
(* each endpoint.                                                           *)
ResultsInOrder ==
  /\ Cardinality(results) <= MaxResults
  /\ \A r, s \in results :
       /\ r.id = s.id => r = s
       /\ r.endpoint = s.endpoint /\ r.id < s.id => r.at <= s.at

(* A transition is of a result, one at most of each; so is an alert, of a   *)
(* result of the same state.                                                *)
TransitionsOfResults ==
  /\ transitions \subseteq TransitionRow
  /\ IsFiniteSet(transitions) /\ Cardinality(transitions) <= Cardinality(results)
  /\ \A t \in transitions : \E r \in results :
       r.id = t.id /\ r.endpoint = t.endpoint /\ r.at = t.at
  /\ \A t, u \in transitions : t.id = u.id => t = u
AlertsOfResults ==
  /\ alerts \subseteq AlertRow
  /\ IsFiniteSet(alerts)
  /\ \A a \in alerts : \E r \in results :
       r.id = a.id /\ r.endpoint = a.endpoint /\ r.at = a.at /\ r.state = a.state
  /\ \A a, b \in alerts : a.id = b.id => a = b

MemoryTyped ==
  /\ memory.results \in [Endpoint -> Seq(ResultRow)]
  /\ memory.transitions \in Seq(TransitionRow)
  /\ memory.alerts \in Seq(AlertRow)
  /\ memory.nextID \in Nat

(* The alerts go apart when two results are exactly the window apart.       *)
MemoryMirrors ==
  /\ \A e \in Endpoint : Mirrored(memory.results[e], Own(results, e))
  /\ Mirrored(memory.transitions, transitions)
  /\ ~ExactlyWindowApart => Mirrored(memory.alerts, alerts)

TablesInv == ResultsTyped /\ ResultsInOrder /\ TransitionsOfResults /\ AlertsOfResults
RepositoriesInv == TablesInv /\ MemoryTyped /\ MemoryMirrors

(* Rows with the same facts have the same columns, and the other way round. *)
LEMMA FactsOfResults ==
  ASSUME NEW r \in ResultRow, NEW s \in ResultRow
  PROVE  Facts(r) = Facts(s) <=> /\ r.endpoint = s.endpoint /\ r.at = s.at
                                 /\ r.state = s.state /\ r.latency = s.latency
<1>1. /\ Facts(r) = [id |-> 0, endpoint |-> r.endpoint, at |-> r.at, state |-> r.state,
                     latency |-> r.latency]
      /\ Facts(s) = [id |-> 0, endpoint |-> s.endpoint, at |-> s.at, state |-> s.state,
                     latency |-> s.latency]
  BY DEF Facts, ResultRow
<1>2. QED
  BY <1>1

LEMMA FactsOfTransitions ==
  ASSUME NEW t \in TransitionRow, NEW u \in TransitionRow
  PROVE  Facts(t) = Facts(u) <=> /\ t.endpoint = u.endpoint /\ t.at = u.at
                                 /\ t.from = u.from /\ t.to = u.to
<1>1. /\ Facts(t) = [id |-> 0, endpoint |-> t.endpoint, at |-> t.at, from |-> t.from, to |-> t.to]
      /\ Facts(u) = [id |-> 0, endpoint |-> u.endpoint, at |-> u.at, from |-> u.from, to |-> u.to]
  BY DEF Facts, TransitionRow
<1>2. QED
  BY <1>1

LEMMA FactsOfAlerts ==
  ASSUME NEW a \in AlertRow, NEW b \in AlertRow
  PROVE  Facts(a) = Facts(b) <=> a.endpoint = b.endpoint /\ a.at = b.at /\ a.state = b.state
<1>1. /\ Facts(a) = [id |-> 0, endpoint |-> a.endpoint, at |-> a.at, state |-> a.state]
      /\ Facts(b) = [id |-> 0, endpoint |-> b.endpoint, at |-> b.at, state |-> b.state]
  BY DEF Facts, AlertRow
<1>2. QED
  BY <1>1

(* ResultLog records by the rules of RecordRules.                           *)
LEMMA RecordByTheRules ==
  ASSUME NEW r, Log!Record(r)
  PROVE  LET from == LatestState(results, r.endpoint)
         IN  /\ results' = results \cup {r}
             /\ transitions' = transitions \cup TransitionRows(from, r)
             /\ alerts' = alerts \cup AlertRows(alerts, from, r)
<1>1. Log!LatestState(results, r.endpoint) = LatestState(results, r.endpoint)
  BY DEF Log!LatestState, LatestState, Log!Before, Before
<1>2. \A from : Log!TransitionRows(from, r) = TransitionRows(from, r)
  BY DEF Log!TransitionRows, TransitionRows
<1>3. \A from : Log!AlertRows(alerts, from, r) = AlertRows(alerts, from, r)
  BY DEF Log!AlertRows, AlertRows, Log!Duplicate, Duplicate, Log!Alertable, Alertable
<1>4. QED
  BY <1>1, <1>2, <1>3 DEF Log!Record

-----------------------------------------------------------------------------
(* What both repositories find the endpoint in.                             *)

LEMMA OwnResultsOrdered ==
  ASSUME TablesInv, NEW e
  PROVE  /\ Ordered(results) /\ IsFiniteSet(Own(results, e)) /\ Own(results, e) \subseteq results
         /\ \A r, s \in Own(results, e) : Before(r, s) <=> r.id < s.id
<1>1. Own(results, e) \in SUBSET results
  BY DEF Own
<1>2. IsFiniteSet(Own(results, e))
  BY <1>1, FS_Subset DEF TablesInv, ResultsTyped
<1>3. \A r \in results : r.id \in Nat /\ r.at \in Nat
  BY DEF TablesInv, ResultsTyped, ResultRow
<1>4. Ordered(results)
  BY <1>3 DEF Ordered, TablesInv, ResultsInOrder
<1>5. ASSUME NEW r \in Own(results, e), NEW s \in Own(results, e)
      PROVE  Before(r, s) <=> r.id < s.id
  <2>1. /\ r \in results /\ s \in results /\ r.endpoint = s.endpoint
        /\ r.id \in Nat /\ s.id \in Nat /\ r.at \in Nat /\ s.at \in Nat
    BY <1>3 DEF Own
  <2>2. /\ r.id < s.id => r.at <= s.at
        /\ s.id < r.id => s.at <= r.at
        /\ r.id = s.id => r.at = s.at
    BY <2>1 DEF TablesInv, ResultsInOrder
  <2>3. QED
    BY <2>1, <2>2 DEF Before
<1>6. QED
  BY <1>1, <1>2, <1>4, <1>5

(* The last item of the list is the newest row of the table.                *)
LEMMA LastIsNewest ==
  ASSUME RepositoriesInv, NEW e \in Endpoint
  PROVE  LET list == memory.results[e]
         IN  /\ list = <<>> <=> Own(results, e) = {}
             /\ list # <<>> => \E r : /\ IsNewest(r, Own(results, e))
                                      /\ Facts(list[Len(list)]) = Facts(r)
                                      /\ r \in ResultRow /\ list[Len(list)] \in ResultRow
<1> DEFINE list == memory.results[e]  own == Own(results, e)  n == Len(list)
<1>1. list \in Seq(ResultRow) /\ n \in Nat /\ DOMAIN list = 1..n /\ (list = <<>> <=> n = 0)
  BY DEF RepositoriesInv, MemoryTyped
<1>2. PICK o \in Bijection(1..n, own) : Mirror(o, list, own)
  BY <1>1 DEF RepositoriesInv, MemoryMirrors, Mirrored
<1>3. /\ \A i \in 1..n : o[i] \in own
      /\ \A i, j \in 1..n : o[i] = o[j] => i = j
      /\ \A r \in own : \E i \in 1..n : o[i] = r
  BY MirrorMaps
<1>4. /\ own \subseteq results /\ own \subseteq ResultRow
      /\ \A r, s \in own : Before(r, s) <=> r.id < s.id
  BY OwnResultsOrdered DEF RepositoriesInv, TablesInv, ResultsTyped
<1>5. ASSUME list # <<>>
      PROVE  IsNewest(o[n], own) /\ Facts(list[n]) = Facts(o[n]) /\ o[n] \in ResultRow
             /\ list[n] \in ResultRow
  <2>1. n \in 1..n
    BY <1>1, <1>5
  <2>2. ASSUME NEW s \in own, s # o[n] PROVE Before(s, o[n])
    <3>1. PICK i \in 1..n : o[i] = s
      BY <1>3
    <3>2. i < n
      BY <1>1, <2>2, <3>1
    <3>3. o[i].id < o[n].id
      BY <1>1, <1>2, <2>1, <3>2 DEF Mirror
    <3>4. QED
      BY <1>3, <1>4, <2>1, <3>1, <3>3
  <2>3. Facts(list[n]) = Facts(o[n])
    BY <1>1, <1>2, <2>1 DEF Mirror
  <2>4. o[n] \in own /\ list[n] \in ResultRow
    BY <1>1, <1>3, <2>1
  <2> HIDE DEF list, own, n
  <2>5. QED
    BY <1>4, <2>2, <2>3, <2>4 DEF IsNewest
<1>6. list = <<>> => own = {}
  BY <1>1, <1>3
<1>7. list # <<>> => own # {}
  BY <1>5 DEF IsNewest
<1>8. QED
  BY <1>5, <1>6, <1>7

LEMMA SameState ==
  ASSUME RepositoriesInv, NEW e \in Endpoint
  PROVE  /\ MemoryLatestState(memory, e) = LatestState(results, e)
         /\ LatestState(results, e) \in State \cup {"Unknown"}
<1> DEFINE list == memory.results[e]
<1>1. CASE list = <<>>
  <2>1. Own(results, e) = {}
    BY <1>1, LastIsNewest
  <2>2. QED
    BY <1>1, <2>1 DEF MemoryLatestState, LatestState, Own
<1>2. CASE list # <<>>
  <2>1. PICK r : /\ IsNewest(r, Own(results, e)) /\ Facts(list[Len(list)]) = Facts(r)
                 /\ r \in ResultRow /\ list[Len(list)] \in ResultRow
    BY <1>2, LastIsNewest
  <2>2. LatestState(results, e) = r.state
    BY <2>1, OwnResultsOrdered, LatestIsNewest DEF RepositoriesInv
  <2>3. list[Len(list)].state = r.state
    BY <2>1, FactsOfResults
  <2>4. QED
    BY <1>2, <2>1, <2>2, <2>3 DEF MemoryLatestState, ResultRow
<1>3. QED
  BY <1>1, <1>2

-----------------------------------------------------------------------------
(* A step keeps the tables.                                                 *)

LEMMA ResultsGrow ==
  ASSUME TablesInv, NEW r, NewRow(r)
  PROVE  \A q \in results : q.id < r.id
<1>1. Cardinality(results) \in Nat
  BY FS_CardinalityType DEF TablesInv, ResultsTyped
<1>2. QED
  BY <1>1 DEF TablesInv, ResultsTyped, ResultRow, NewRow

LEMMA ResultsInOrderStep ==
  ASSUME TablesInv, NEW r, NewRow(r), r \notin results, Cardinality(results) < MaxResults,
         results' = results \cup {r}
  PROVE  ResultsInOrder'
<1>1. Cardinality(results) \in Nat /\ Cardinality(results') = Cardinality(results) + 1
  BY FS_CardinalityType, FS_AddElement DEF TablesInv, ResultsTyped
<1>2. Cardinality(results') <= MaxResults
  BY <1>1, RepositoriesAssumption
<1>3. ASSUME NEW p \in results', NEW q \in results'
      PROVE  /\ p.id = q.id => p = q
             /\ p.endpoint = q.endpoint /\ p.id < q.id => p.at <= q.at
  <2>1. \A s \in results' : s.id \in Nat /\ s.at \in Nat
    BY DEF TablesInv, ResultsTyped, ResultRow, NewRow
  <2>2. CASE p \in results /\ q \in results
    BY <2>2 DEF TablesInv, ResultsInOrder
  <2>3. CASE p = r /\ q \in results
    BY <2>1, <2>3, ResultsGrow
  <2>4. CASE p \in results /\ q = r
    BY <2>1, <2>4, ResultsGrow DEF NewRow
  <2>5. CASE p = r /\ q = r
    BY <2>1, <2>5
  <2>6. QED
    BY <2>2, <2>3, <2>4, <2>5
<1>4. QED
  BY <1>2, <1>3 DEF ResultsInOrder

(* What the transaction may add follows from the result.                    *)
LEMMA NewTransitions ==
  ASSUME NEW from \in State \cup {"Unknown"}, NEW r, NewRow(r)
  PROVE  \/ TransitionRows(from, r) = {} /\ from = r.state
         \/ /\ from # r.state
            /\ \E t \in TransitionRow :
                 /\ TransitionRows(from, r) = {t}
                 /\ t.id = r.id /\ t.endpoint = r.endpoint /\ t.at = r.at
                 /\ t.from = from /\ t.to = r.state
<1> DEFINE t == [id |-> r.id, endpoint |-> r.endpoint, at |-> r.at, from |-> from,
                 to |-> r.state]
<1>1. t \in TransitionRow
  BY DEF TransitionRow, NewRow, ResultRow
<1>2. from = r.state => TransitionRows(from, r) = {}
  BY DEF TransitionRows
<1>3. from # r.state => TransitionRows(from, r) = {t}
  BY DEF TransitionRows
<1>4. t.id = r.id /\ t.endpoint = r.endpoint /\ t.at = r.at /\ t.from = from /\ t.to = r.state
  OBVIOUS
<1> HIDE DEF t
<1>5. QED
  BY <1>1, <1>2, <1>3, <1>4

LEMMA TransitionsStep ==
  ASSUME TablesInv, NEW r, NewRow(r), r \notin results, results' = results \cup {r},
         NEW from \in State \cup {"Unknown"},
         transitions' = transitions \cup TransitionRows(from, r)
  PROVE  /\ TransitionsOfResults'
         /\ \A t \in transitions : t.id < r.id
<1>1. /\ Cardinality(results) \in Nat /\ Cardinality(results') = Cardinality(results) + 1
      /\ Cardinality(transitions) \in Nat /\ IsFiniteSet(transitions)
      /\ Cardinality(transitions) <= Cardinality(results)
  BY FS_CardinalityType, FS_AddElement DEF TablesInv, ResultsTyped, TransitionsOfResults
<1>2. \A t \in transitions : t.id < r.id
  BY ResultsGrow DEF TablesInv, TransitionsOfResults
<1>3. CASE TransitionRows(from, r) = {}
  <2>1. transitions' = transitions
    BY <1>3
  <2>2. Cardinality(transitions') <= Cardinality(results')
    BY <1>1, <2>1
  <2>3. \A t \in transitions : \E q \in results' :
          q.id = t.id /\ q.endpoint = t.endpoint /\ q.at = t.at
    BY DEF TablesInv, TransitionsOfResults
  <2>4. QED
    BY <1>1, <1>2, <2>1, <2>2, <2>3 DEF TablesInv, TransitionsOfResults
<1>4. CASE TransitionRows(from, r) # {}
  <2>1. PICK t \in TransitionRow :
          /\ TransitionRows(from, r) = {t}
          /\ t.id = r.id /\ t.endpoint = r.endpoint /\ t.at = r.at
    BY <1>4, NewTransitions
  <2>2. transitions' = transitions \cup {t}
    BY <2>1
  <2>3. \A u \in transitions : u.id # t.id
    BY <1>2, <2>1 DEF TransitionRow
  <2>4. t \notin transitions
    BY <2>3
  <2>5. IsFiniteSet(transitions') /\ Cardinality(transitions') = Cardinality(transitions) + 1
    BY <1>1, <2>2, <2>4, FS_AddElement
  <2>6. Cardinality(transitions') <= Cardinality(results')
    BY <1>1, <2>5
  <2>7. \A u \in transitions' : \E q \in results' :
          q.id = u.id /\ q.endpoint = u.endpoint /\ q.at = u.at
    BY <2>1, <2>2 DEF TablesInv, TransitionsOfResults
  <2>8. \A u, v \in transitions' : u.id = v.id => u = v
    BY <2>2, <2>3 DEF TablesInv, TransitionsOfResults
  <2>9. transitions' \subseteq TransitionRow
    BY <2>2 DEF TablesInv, TransitionsOfResults
  <2>10. QED
    BY <1>2, <2>5, <2>6, <2>7, <2>8, <2>9 DEF TransitionsOfResults
<1>5. QED
  BY <1>3, <1>4

LEMMA NewAlerts ==
  ASSUME NEW from, NEW r, NewRow(r)
  PROVE  LET alerted == /\ Alertable(r.state) \/ (from # r.state /\ r.state = "Healthy")
                        /\ ~Duplicate(alerts, r)
             a == [id |-> r.id, endpoint |-> r.endpoint, at |-> r.at, state |-> r.state]
         IN  /\ a \in AlertRow
             /\ alerted => AlertRows(alerts, from, r) = {a}
             /\ ~alerted => AlertRows(alerts, from, r) = {}
BY DEF AlertRows, AlertRow, NewRow, ResultRow

LEMMA AlertsStep ==
  ASSUME TablesInv, NEW r, NewRow(r), results' = results \cup {r},
         NEW from, alerts' = alerts \cup AlertRows(alerts, from, r)
  PROVE  /\ AlertsOfResults'
         /\ \A a \in alerts : a.id < r.id
<1>1. \A a \in alerts : a.id < r.id
  BY ResultsGrow DEF TablesInv, AlertsOfResults
<1>2. CASE AlertRows(alerts, from, r) = {}
  <2>1. alerts' = alerts
    BY <1>2
  <2>2. QED
    BY <1>1, <2>1 DEF TablesInv, AlertsOfResults
<1>3. CASE AlertRows(alerts, from, r) # {}
  <2>1. PICK a \in AlertRow :
          /\ AlertRows(alerts, from, r) = {a}
          /\ a.id = r.id /\ a.endpoint = r.endpoint /\ a.at = r.at /\ a.state = r.state
    BY <1>3, NewAlerts
  <2>2. alerts' = alerts \cup {a}
    BY <2>1
  <2>3. \A b \in alerts : b.id # a.id
    BY <1>1, <2>1 DEF AlertRow
  <2>4. IsFiniteSet(alerts')
    BY <2>2, FS_AddElement DEF TablesInv, AlertsOfResults
  <2>5. \A b \in alerts' : \E q \in results' :
          q.id = b.id /\ q.endpoint = b.endpoint /\ q.at = b.at /\ q.state = b.state
    BY <2>1, <2>2 DEF TablesInv, AlertsOfResults
  <2>6. \A b, c \in alerts' : b.id = c.id => b = c
    BY <2>2, <2>3 DEF TablesInv, AlertsOfResults
  <2>7. alerts' \subseteq AlertRow
    BY <2>2 DEF TablesInv, AlertsOfResults
  <2>8. QED
    BY <1>1, <2>4, <2>5, <2>6, <2>7 DEF AlertsOfResults
<1>4. QED
  BY <1>2, <1>3

-----------------------------------------------------------------------------
(* A step keeps the mirrors.                                                *)

MemoryAlerted(from, r) ==
  /\ Alertable(r.state) \/ (from # r.state /\ r.state = "Healthy")
  /\ ~MemoryDuplicate(memory, r)

(* What the in-memory repository appends.                                   *)
LEMMA MemoryAppends ==
  ASSUME MemoryTyped, NEW r, NewRow(r), memory' = MemoryRecord(memory, r),
         NEW from \in State \cup {"Unknown"}, from = MemoryLatestState(memory, r.endpoint)
  PROVE  /\ \E item \in ResultRow :
              /\ Facts(item) = Facts(r)
              /\ memory'.results = [memory.results EXCEPT ![r.endpoint] = Append(@, item)]
         /\ from = r.state => memory'.transitions = memory.transitions
         /\ from # r.state => \E item \in TransitionRow :
              /\ item.endpoint = r.endpoint /\ item.at = r.at
              /\ item.from = from /\ item.to = r.state
              /\ memory'.transitions = Append(memory.transitions, item)
         /\ ~MemoryAlerted(from, r) => memory'.alerts = memory.alerts
         /\ MemoryAlerted(from, r) => \E item \in AlertRow :
              /\ item.endpoint = r.endpoint /\ item.at = r.at /\ item.state = r.state
              /\ memory'.alerts = Append(memory.alerts, item)
         /\ memory'.nextID \in Nat
<1> DEFINE id == memory.nextID
           alertID == id + (IF from # r.state THEN 2 ELSE 1)
           result == [r EXCEPT !.id = id]
           t == [id |-> id + 1, endpoint |-> r.endpoint, at |-> r.at, from |-> from,
                 to |-> r.state]
           a == [id |-> alertID, endpoint |-> r.endpoint, at |-> r.at, state |-> r.state]
<1>1. id \in Nat /\ alertID \in Nat
  BY DEF MemoryTyped
<1>2. memory' =
        [results |-> [memory.results EXCEPT ![r.endpoint] = Append(@, result)],
         transitions |-> IF from # r.state THEN Append(memory.transitions, t)
                         ELSE memory.transitions,
         alerts |-> IF MemoryAlerted(from, r) THEN Append(memory.alerts, a) ELSE memory.alerts,
         nextID |-> alertID + (IF MemoryAlerted(from, r) THEN 1 ELSE 0)]
  BY DEF MemoryRecord, MemoryAlerted
<1>3. result \in ResultRow /\ Facts(result) = Facts(r)
  <2>1. result = [id |-> id, endpoint |-> r.endpoint, at |-> r.at, state |-> r.state,
                  latency |-> r.latency]
    BY DEF NewRow, ResultRow
  <2>2. result \in ResultRow
    BY <1>1, <2>1 DEF NewRow, ResultRow
  <2>3. QED
    BY <2>1, <2>2, FactsOfResults DEF NewRow
<1>4. t \in TransitionRow
  BY <1>1 DEF TransitionRow, NewRow, ResultRow
<1>5. a \in AlertRow
  BY <1>1 DEF AlertRow, NewRow, ResultRow
<1>6. t.endpoint = r.endpoint /\ t.at = r.at /\ t.from = from /\ t.to = r.state
  OBVIOUS
<1>7. a.endpoint = r.endpoint /\ a.at = r.at /\ a.state = r.state
  OBVIOUS
<1> HIDE DEF id, alertID, result, t, a
<1>8. memory'.results = [memory.results EXCEPT ![r.endpoint] = Append(@, result)]
  BY <1>2
<1>9. /\ from = r.state => memory'.transitions = memory.transitions
      /\ from # r.state => memory'.transitions = Append(memory.transitions, t)
  BY <1>2
<1>10. /\ ~MemoryAlerted(from, r) => memory'.alerts = memory.alerts
       /\ MemoryAlerted(from, r) => memory'.alerts = Append(memory.alerts, a)
  BY <1>2
<1>11. memory'.nextID \in Nat
  BY <1>1, <1>2
<1>12. QED
  BY <1>3, <1>4, <1>5, <1>6, <1>7, <1>8, <1>9, <1>10, <1>11

LEMMA MemoryTypedStep ==
  ASSUME RepositoriesInv, NEW r, NewRow(r), memory' = MemoryRecord(memory, r)
  PROVE  MemoryTyped'
<1> DEFINE from == MemoryLatestState(memory, r.endpoint)
<1>1. r.endpoint \in Endpoint
  BY DEF NewRow, ResultRow
<1>2. from \in State \cup {"Unknown"} /\ MemoryTyped
  BY <1>1, SameState DEF RepositoriesInv
<1> HIDE DEF from
<1>3. memory'.results \in [Endpoint -> Seq(ResultRow)]
  <2>1. PICK item \in ResultRow :
          memory'.results = [memory.results EXCEPT ![r.endpoint] = Append(@, item)]
    BY <1>2, MemoryAppends DEF from
  <2>2. memory.results \in [Endpoint -> Seq(ResultRow)]
    BY <1>2 DEF MemoryTyped
  <2>3. Append(memory.results[r.endpoint], item) \in Seq(ResultRow)
    <3>1. memory.results[r.endpoint] \in Seq(ResultRow)
      BY ONLY <1>1, <2>2
    <3>2. QED
      BY ONLY <2>1, <3>1
  <2>4. QED
    BY ONLY <1>1, <2>1, <2>2, <2>3
<1>4. memory'.transitions \in Seq(TransitionRow)
  <2>1. memory.transitions \in Seq(TransitionRow)
    BY <1>2 DEF MemoryTyped
  <2>2. \/ memory'.transitions = memory.transitions
        \/ \E item \in TransitionRow : memory'.transitions = Append(memory.transitions, item)
    BY <1>2, MemoryAppends DEF from
  <2>3. QED
    BY <2>1, <2>2
<1>5. memory'.alerts \in Seq(AlertRow)
  <2>1. memory.alerts \in Seq(AlertRow)
    BY <1>2 DEF MemoryTyped
  <2>2. \/ memory'.alerts = memory.alerts
        \/ \E item \in AlertRow : memory'.alerts = Append(memory.alerts, item)
    BY <1>2, MemoryAppends DEF from
  <2>3. QED
    BY <2>1, <2>2
<1>6. memory'.nextID \in Nat
  BY <1>2, MemoryAppends DEF from
<1>7. QED
  BY <1>3, <1>4, <1>5, <1>6 DEF MemoryTyped

LEMMA ResultsMirrorStep ==
  ASSUME RepositoriesInv, NEW r, NewRow(r), results' = results \cup {r},
         memory' = MemoryRecord(memory, r), NEW e \in Endpoint
  PROVE  Mirrored(memory'.results[e], Own(results', e))
<1> DEFINE from == MemoryLatestState(memory, r.endpoint)
<1>1. r.endpoint \in Endpoint /\ r.id \in Int /\ r \in ResultRow
  BY DEF NewRow, ResultRow
<1>2. from \in State \cup {"Unknown"}
  BY <1>1, SameState
<1>3. PICK item \in ResultRow :
        /\ Facts(item) = Facts(r)
        /\ memory'.results = [memory.results EXCEPT ![r.endpoint] = Append(@, item)]
  BY <1>2, MemoryAppends DEF RepositoriesInv
<1>4. /\ memory.results \in [Endpoint -> Seq(ResultRow)]
      /\ Mirrored(memory.results[e], Own(results, e))
  BY DEF RepositoriesInv, MemoryTyped, MemoryMirrors
<1>5. CASE e = r.endpoint
  <2>1. memory'.results[e] = Append(memory.results[e], item)
    BY <1>3, <1>4, <1>5
  <2>2. Own(results', e) = Own(results, e) \cup {r}
    BY <1>5 DEF Own
  <2>3. \A q \in Own(results, e) : q.id \in Int /\ q.id < r.id
    BY ResultsGrow DEF RepositoriesInv, TablesInv, ResultsTyped, ResultRow, Own
  <2>4. memory.results[e] \in Seq(ResultRow)
    BY <1>4
  <2>5. Mirrored(Append(memory.results[e], item), Own(results, e) \cup {r})
    BY <1>1, <1>3, <1>4, <2>3, <2>4, MirrorGrows
  <2>6. QED
    BY <2>1, <2>2, <2>5
<1>6. CASE e # r.endpoint
  <2>1. memory'.results[e] = memory.results[e]
    BY <1>3, <1>4, <1>6
  <2>2. Own(results', e) = Own(results, e)
    BY <1>6 DEF Own
  <2>3. QED
    BY <1>4, <2>1, <2>2
<1>7. QED
  BY <1>5, <1>6

LEMMA TransitionsMirrorStep ==
  ASSUME RepositoriesInv, NEW r, NewRow(r), r \notin results, Log!Record(r),
         memory' = MemoryRecord(memory, r)
  PROVE  Mirrored(memory'.transitions, transitions')
<1> DEFINE from == LatestState(results, r.endpoint)
<1>1. from = MemoryLatestState(memory, r.endpoint) /\ from \in State \cup {"Unknown"}
  BY SameState DEF NewRow, ResultRow
<1>2. /\ results' = results \cup {r}
      /\ transitions' = transitions \cup TransitionRows(from, r)
  BY RecordByTheRules
<1> HIDE DEF from
<1>3. \A t \in transitions : t.id < r.id /\ t.id \in Int
  BY <1>1, <1>2, TransitionsStep DEF RepositoriesInv, TablesInv, TransitionsOfResults,
     TransitionRow
<1>4. memory.transitions \in Seq(TransitionRow) /\ Mirrored(memory.transitions, transitions)
  BY DEF RepositoriesInv, MemoryTyped, MemoryMirrors
<1>5. CASE from = r.state
  <2>1. TransitionRows(from, r) = {}
    BY <1>1, <1>5, NewTransitions
  <2>2. memory'.transitions = memory.transitions
    BY <1>1, <1>5, MemoryAppends DEF RepositoriesInv
  <2>3. QED
    BY <1>2, <1>4, <2>1, <2>2
<1>6. CASE from # r.state
  <2>1. PICK t \in TransitionRow :
          /\ TransitionRows(from, r) = {t}
          /\ t.id = r.id /\ t.endpoint = r.endpoint /\ t.at = r.at
          /\ t.from = from /\ t.to = r.state
    BY <1>1, <1>6, NewTransitions
  <2>2. PICK item \in TransitionRow :
          /\ item.endpoint = r.endpoint /\ item.at = r.at
          /\ item.from = from /\ item.to = r.state
          /\ memory'.transitions = Append(memory.transitions, item)
    BY <1>1, <1>6, MemoryAppends DEF RepositoriesInv
  <2>3. Facts(item) = Facts(t)
    BY <2>1, <2>2, FactsOfTransitions
  <2>4. t.id \in Int /\ \A q \in transitions : q.id < t.id
    BY <1>3, <2>1 DEF TransitionRow
  <2>5. Mirrored(Append(memory.transitions, item), transitions \cup {t})
    BY <1>3, <1>4, <2>3, <2>4, MirrorGrows
  <2>6. QED
    BY <1>2, <2>1, <2>2, <2>5
<1>7. QED
  BY <1>5, <1>6

(* Either repository has the duplicate or neither, unless a result of the   *)
(* same kind is exactly the window away.                                    *)
LEMMA SameDuplicates ==
  ASSUME RepositoriesInv, NEW r, NewRow(r), results' = results \cup {r},
         ~ExactlyWindowApart, ~ExactlyWindowApart'
  PROVE  MemoryDuplicate(memory, r) <=> Duplicate(alerts, r)
<1> DEFINE list == memory.alerts
<1>1. PICK o \in Bijection(DOMAIN list, alerts) : Mirror(o, list, alerts)
  BY DEF RepositoriesInv, MemoryMirrors, Mirrored
<1>2. /\ \A i \in DOMAIN list : o[i] \in alerts
      /\ \A a \in alerts : \E i \in DOMAIN list : o[i] = a
  BY MirrorMaps
<1>3. \A i \in DOMAIN list : list[i] \in AlertRow
  BY DEF RepositoriesInv, MemoryTyped
<1>4. alerts \subseteq AlertRow
  BY DEF RepositoriesInv, TablesInv, AlertsOfResults
<1>5. \A i \in DOMAIN list : /\ list[i].endpoint = o[i].endpoint
                             /\ list[i].at = o[i].at /\ list[i].state = o[i].state
  <2>1. \A i \in DOMAIN list : Facts(list[i]) = Facts(o[i])
    BY <1>1 DEF Mirror
  <2>2. QED
    BY <1>2, <1>3, <1>4, <2>1, FactsOfAlerts
<1>6. ASSUME NEW a \in alerts, a.endpoint = r.endpoint, a.state = r.state
      PROVE  r.at # a.at + Window
  <2>1. PICK q \in results : q.endpoint = a.endpoint /\ q.at = a.at /\ q.state = a.state
    BY DEF RepositoriesInv, TablesInv, AlertsOfResults
  <2>2. r \in results' /\ q \in results'
    OBVIOUS
  <2>3. QED
    BY <1>6, <2>1, <2>2 DEF ExactlyWindowApart
<1>7. ASSUME NEW a \in alerts, a.endpoint = r.endpoint, a.state = r.state
      PROVE  r.at - a.at < Window <=> a.at + Window >= r.at
  <2>1. a.at \in Nat /\ r.at \in Nat /\ Window \in Nat
    BY <1>4, WindowAssumption DEF AlertRow, NewRow, ResultRow
  <2>2. r.at # a.at + Window
    BY <1>6, <1>7
  <2>3. QED
    BY <2>1, <2>2
<1>8. MemoryDuplicate(memory, r) <=>
        \E i \in DOMAIN list : list[i].endpoint = r.endpoint /\ list[i].state = r.state
                               /\ r.at - list[i].at < Window
  BY DEF MemoryDuplicate
<1>9. ASSUME MemoryDuplicate(memory, r) PROVE Duplicate(alerts, r)
  <2>1. PICK i \in DOMAIN list : list[i].endpoint = r.endpoint /\ list[i].state = r.state
                                 /\ r.at - list[i].at < Window
    BY <1>8, <1>9
  <2>2. /\ o[i] \in alerts /\ o[i].endpoint = r.endpoint /\ o[i].state = r.state
        /\ r.at - o[i].at < Window
    BY <1>2, <1>5, <2>1
  <2>3. o[i].at + Window >= r.at
    BY <1>7, <2>2
  <2>4. QED
    BY <2>2, <2>3 DEF Duplicate
<1>10. ASSUME Duplicate(alerts, r) PROVE MemoryDuplicate(memory, r)
  <2>1. PICK a \in alerts : a.endpoint = r.endpoint /\ a.state = r.state /\ a.at + Window >= r.at
    BY <1>10 DEF Duplicate
  <2>2. r.at - a.at < Window
    BY <1>7, <2>1
  <2>3. PICK i \in DOMAIN list : o[i] = a
    BY <1>2
  <2>4. QED
    BY <1>5, <1>8, <2>1, <2>2, <2>3
<1>11. QED
  BY <1>9, <1>10

LEMMA AlertsMirrorStep ==
  ASSUME RepositoriesInv, NEW r, NewRow(r), Log!Record(r),
         memory' = MemoryRecord(memory, r), ~ExactlyWindowApart'
  PROVE  Mirrored(memory'.alerts, alerts')
<1> DEFINE from == LatestState(results, r.endpoint)
           a == [id |-> r.id, endpoint |-> r.endpoint, at |-> r.at, state |-> r.state]
<1>1. from = MemoryLatestState(memory, r.endpoint) /\ from \in State \cup {"Unknown"}
  BY SameState DEF NewRow, ResultRow
<1>2. /\ results' = results \cup {r}
      /\ alerts' = alerts \cup AlertRows(alerts, from, r)
  BY RecordByTheRules
<1> HIDE DEF from
<1>3. ~ExactlyWindowApart
  <2>1. results \subseteq results'
    BY <1>2
  <2>2. QED
    BY <2>1 DEF ExactlyWindowApart
<1>4. memory.alerts \in Seq(AlertRow) /\ Mirrored(memory.alerts, alerts)
  BY <1>3 DEF RepositoriesInv, MemoryTyped, MemoryMirrors
<1>5. \A b \in alerts : b.id < r.id /\ b.id \in Int
  BY <1>2, AlertsStep DEF RepositoriesInv, TablesInv, AlertsOfResults, AlertRow
<1>6. MemoryAlerted(from, r) <=>
        /\ Alertable(r.state) \/ (from # r.state /\ r.state = "Healthy")
        /\ ~Duplicate(alerts, r)
  BY <1>2, <1>3, SameDuplicates DEF MemoryAlerted
<1>7. CASE ~MemoryAlerted(from, r)
  <2>1. AlertRows(alerts, from, r) = {}
    BY <1>6, <1>7, NewAlerts
  <2>2. memory'.alerts = memory.alerts
    BY <1>1, <1>7, MemoryAppends DEF RepositoriesInv
  <2>3. QED
    BY <1>2, <1>4, <2>1, <2>2
<1>8. CASE MemoryAlerted(from, r)
  <2>1. AlertRows(alerts, from, r) = {a} /\ a \in AlertRow
    BY <1>6, <1>8, NewAlerts
  <2>2. PICK item \in AlertRow :
          /\ item.endpoint = r.endpoint /\ item.at = r.at /\ item.state = r.state
          /\ memory'.alerts = Append(memory.alerts, item)
    BY <1>1, <1>8, MemoryAppends DEF RepositoriesInv
  <2>3. Facts(item) = Facts(a)
    BY <2>1, <2>2, FactsOfAlerts
  <2>4. a.id \in Int /\ \A b \in alerts : b.id < a.id
    BY <1>5 DEF NewRow, ResultRow
  <2> HIDE DEF a
  <2>5. Mirrored(Append(memory.alerts, item), alerts \cup {a})
    BY <1>4, <1>5, <2>3, <2>4, MirrorGrows
  <2>6. QED
    BY <1>2, <2>1, <2>2, <2>5
<1>9. QED
  BY <1>7, <1>8

LEMMA RepositoriesInit == Init => RepositoriesInv
<1> SUFFICES ASSUME Init PROVE RepositoriesInv
  OBVIOUS
<1>1. results = {} /\ transitions = {} /\ alerts = {} /\ memory = NewMemory
  BY DEF Init, Log!LInit
<1>2. IsFiniteSet({}) /\ Cardinality({}) = 0
  BY FS_EmptySet
<1>3. TablesInv
  BY <1>1, <1>2, RepositoriesAssumption
     DEF TablesInv, ResultsTyped, ResultsInOrder, TransitionsOfResults, AlertsOfResults
<1>4. /\ memory.results = [e \in Endpoint |-> <<>>] /\ memory.transitions = <<>>
      /\ memory.alerts = <<>> /\ memory.nextID = 1
  BY <1>1 DEF NewMemory
<1>5. MemoryTyped
  BY <1>4 DEF MemoryTyped
<1>6. \A e \in Endpoint : Own(results, e) = {}
  BY <1>1 DEF Own
<1>7. MemoryMirrors
  BY <1>1, <1>4, <1>6, EmptyMirror DEF MemoryMirrors
<1>8. QED
  BY <1>3, <1>5, <1>7 DEF RepositoriesInv

LEMMA RepositoriesStep == RepositoriesInv /\ [Next]_vars => RepositoriesInv'
<1> SUFFICES ASSUME RepositoriesInv, [Next]_vars PROVE RepositoriesInv'
  OBVIOUS
<1>1. CASE RecordBoth
  <2>1. PICK r : /\ NewRow(r) /\ r \notin results /\ Cardinality(results) < MaxResults
                 /\ Log!Record(r) /\ results' = results \cup {r}
                 /\ memory' = MemoryRecord(memory, r)
    BY <1>1, RecordAddsRow DEF RepositoriesInv, TablesInv
  <2> DEFINE from == LatestState(results, r.endpoint)
  <2>2. /\ from \in State \cup {"Unknown"}
        /\ transitions' = transitions \cup TransitionRows(from, r)
        /\ alerts' = alerts \cup AlertRows(alerts, from, r)
    BY <2>1, SameState, RecordByTheRules DEF NewRow, ResultRow
  <2> HIDE DEF from
  <2>3. ResultsTyped'
    BY ResultsTypedStep DEF RepositoriesInv, TablesInv
  <2>4. ResultsInOrder'
    BY <2>1, ResultsInOrderStep DEF RepositoriesInv
  <2>5. TransitionsOfResults'
    BY <2>1, <2>2, TransitionsStep DEF RepositoriesInv
  <2>6. AlertsOfResults'
    BY <2>1, <2>2, AlertsStep DEF RepositoriesInv
  <2>7. MemoryTyped'
    BY <2>1, MemoryTypedStep
  <2>8. \A e \in Endpoint : Mirrored(memory'.results[e], Own(results', e))
    BY <2>1, ResultsMirrorStep
  <2>9. Mirrored(memory'.transitions, transitions')
    BY <2>1, TransitionsMirrorStep
  <2>10. ~ExactlyWindowApart' => Mirrored(memory'.alerts, alerts')
    BY <2>1, AlertsMirrorStep
  <2>11. MemoryMirrors'
    BY <2>8, <2>9, <2>10 DEF MemoryMirrors
  <2>12. QED
    BY <2>3, <2>4, <2>5, <2>6, <2>7, <2>11 DEF RepositoriesInv, TablesInv
<1>2. CASE UNCHANGED vars
  <2>1. /\ results' = results /\ transitions' = transitions /\ alerts' = alerts
        /\ memory' = memory
    BY <1>2 DEF vars, tables
  <2>2. TablesInv'
    BY <2>1 DEF RepositoriesInv, TablesInv, ResultsTyped, ResultsInOrder,
                TransitionsOfResults, AlertsOfResults
  <2>3. MemoryTyped'
    BY <2>1 DEF RepositoriesInv, MemoryTyped
  <2>4. MemoryMirrors'
    BY <2>1 DEF RepositoriesInv, MemoryMirrors, ExactlyWindowApart
  <2>5. QED
    BY <2>2, <2>3, <2>4 DEF RepositoriesInv
<1>3. QED
  BY <1>1, <1>2 DEF Next, Full

-----------------------------------------------------------------------------
(* The answers.                                                             *)

LEMMA SameLatestHolds == RepositoriesInv => SameLatest
<1> SUFFICES ASSUME RepositoriesInv PROVE SameLatest
  OBVIOUS
<1> DEFINE ours == MemoryLatestResults(memory)
           theirs == LatestResults(results)
<1>1. DOMAIN ours = {e \in Endpoint : memory.results[e] # <<>>}
  BY DEF MemoryLatestResults
<1>2. DOMAIN theirs = {r.endpoint : r \in results}
  BY DEF LatestResults
<1>3. \A r \in results : r.endpoint \in Endpoint
  BY DEF RepositoriesInv, TablesInv, ResultsTyped, ResultRow
<1>4. \A e \in Endpoint : memory.results[e] # <<>> <=> \E r \in results : r.endpoint = e
  BY LastIsNewest DEF Own
<1>5. DOMAIN ours = DOMAIN theirs
  BY <1>1, <1>2, <1>3, <1>4
<1>6. ASSUME NEW e \in DOMAIN ours
      PROVE  Facts(ours[e]) = Facts(theirs[e]) /\ ours[e].state = theirs[e].state
  <2>1. e \in Endpoint /\ memory.results[e] # <<>>
    BY <1>1
  <2>2. PICK r : /\ IsNewest(r, Own(results, e))
                 /\ Facts(memory.results[e][Len(memory.results[e])]) = Facts(r)
                 /\ r \in ResultRow /\ memory.results[e][Len(memory.results[e])] \in ResultRow
    BY <2>1, LastIsNewest
  <2>3. theirs[e] = r
    BY <2>2, OwnResultsOrdered, LatestIsNewest DEF RepositoriesInv
  <2>4. ours[e] = memory.results[e][Len(memory.results[e])]
    BY <2>1 DEF MemoryLatestResults
  <2> HIDE DEF ours, theirs
  <2>5. QED
    BY <2>2, <2>3, <2>4, FactsOfResults
<1>7. Aggregate(ours) = Aggregate(theirs)
  <2> HIDE DEF ours, theirs
  <2>1. \A s : {e \in Endpoint : IF e \in DOMAIN ours THEN ours[e].state = s ELSE s = "Unknown"}
                 = {e \in Endpoint : IF e \in DOMAIN theirs THEN theirs[e].state = s
                                     ELSE s = "Unknown"}
    BY <1>5, <1>6
  <2>2. QED
    BY <2>1 DEF Aggregate
<1>8. \A e \in DOMAIN ours : Facts(ours[e]) = Facts(theirs[e])
  BY <1>6
<1> HIDE DEF ours, theirs
<1>9. QED
  BY <1>5, <1>7, <1>8 DEF SameLatest, ours, theirs

(* The same counts, and so the same figures, by either calculation.         *)
LEMMA SameFiguresHolds == RepositoriesInv => SameFigures
<1> SUFFICES ASSUME RepositoriesInv, NEW e \in Endpoint, NEW since \in Windows
             PROVE  LET counts == CountsSince(results, e, since, LatencyTarget)
                    IN  /\ MemoryCountsSince(memory, e, since, LatencyTarget) = counts
                        /\ CalculateSLO(memory.results[e], since) = CalculateSLOCounts(counts)
  BY DEF SameFigures
<1> DEFINE list == memory.results[e]
           own == Own(results, e)
           in == {i \in DOMAIN list : ~(list[i].at < since) /\ list[i].state # "Maintenance"}
           rows == {r \in results : r.endpoint = e /\ r.at >= since}
           eligible == {r \in rows : Eligible(r)}
           good == {r \in rows : Good(r)}
           quick == {r \in rows : LatencyGood(r, LatencyTarget)}
           goodIn == {i \in in : list[i].state \in {"Healthy", "Degraded"}}
           quickIn == {i \in in : list[i].state # "Unavailable" /\ list[i].latency <= LatencyTarget}
<1>1. PICK o \in Bijection(DOMAIN list, own) : Mirror(o, list, own)
  BY DEF RepositoriesInv, MemoryMirrors, Mirrored
<1>2. IsFiniteSet(own)
  BY OwnResultsOrdered DEF RepositoriesInv
<1>3. /\ eligible \in SUBSET own /\ good \in SUBSET own /\ quick \in SUBSET own
      /\ in \in SUBSET DOMAIN list /\ goodIn \in SUBSET DOMAIN list
      /\ quickIn \in SUBSET DOMAIN list
  BY DEF Own
<1>4. ASSUME NEW i \in DOMAIN list
      PROVE  /\ o[i] \in results /\ o[i].endpoint = e
             /\ list[i].at = o[i].at /\ o[i].at \in Int
             /\ list[i].state = o[i].state /\ list[i].latency = o[i].latency
  <2>1. o[i] \in own
    BY MirrorMaps
  <2>2. o[i] \in ResultRow /\ list[i] \in ResultRow
    BY <2>1 DEF RepositoriesInv, TablesInv, ResultsTyped, MemoryTyped, Own
  <2>3. Facts(list[i]) = Facts(o[i])
    BY <1>1 DEF Mirror
  <2>4. QED
    BY <2>1, <2>2, <2>3, FactsOfResults DEF Own, ResultRow
<1>5. since \in Int
  BY RepositoriesAssumption DEF Windows
<1>6. \A i \in DOMAIN list : i \in in <=> o[i] \in eligible
  BY <1>4, <1>5 DEF Eligible
<1>7. \A i \in DOMAIN list : i \in goodIn <=> o[i] \in good
  BY <1>4, <1>5 DEF Good
<1>8. \A i \in DOMAIN list : i \in quickIn <=> o[i] \in quick
  BY <1>4, <1>5 DEF LatencyGood, Eligible
<1>9. /\ Cardinality(in) = Cardinality(eligible)
      /\ Cardinality(goodIn) = Cardinality(good)
      /\ Cardinality(quickIn) = Cardinality(quick)
  <2> HIDE DEF in, goodIn, quickIn, eligible, good, quick, own, list
  <2>1. QED
    BY <1>1, <1>2, <1>3, <1>6, <1>7, <1>8, MirrorCounts
<1>10. CountsSince(results, e, since, LatencyTarget) =
         [eligible |-> Cardinality(eligible), good |-> Cardinality(good),
          latencyGood |-> Cardinality(quick)]
  BY DEF CountsSince
<1>11. MemoryCountsSince(memory, e, since, LatencyTarget) =
         [eligible |-> Cardinality(in), good |-> Cardinality(goodIn),
          latencyGood |-> Cardinality(quickIn)]
  BY DEF MemoryCountsSince
<1>12. CalculateSLO(list, since) =
         Figures(Cardinality(in), Cardinality(goodIn), Cardinality(quickIn))
  <2>1. {i \in DOMAIN list : ~(list[i].at < since) /\ Eligible(list[i])} = in
    BY DEF Eligible
  <2>2. {i \in in : Good(list[i])} = goodIn
    BY DEF Good
  <2>3. {i \in in : list[i].latency <= LatencyTarget /\ list[i].state # "Unavailable"} = quickIn
    OBVIOUS
  <2> HIDE DEF in, goodIn, quickIn
  <2>4. QED
    BY <2>1, <2>2, <2>3 DEF CalculateSLO
<1> HIDE DEF in, goodIn, quickIn, eligible, good, quick
<1>13. CalculateSLOCounts(CountsSince(results, e, since, LatencyTarget)) =
         Figures(Cardinality(eligible), Cardinality(good), Cardinality(quick))
  BY <1>10 DEF CalculateSLOCounts
<1>14. QED
  BY <1>9, <1>10, <1>11, <1>12, <1>13

(* A limit is a number of rows.                                             *)
LEMMA LimitsAreNumbers == \A p \in Limits : parseLimit(p) \in Nat
BY RepositoriesAssumption DEF parseLimit

(* Of one endpoint both list the same transitions in the same order.        *)
LEMMA SameOwnTransitions ==
  ASSUME RepositoriesInv, NEW e \in Endpoint, NEW limit \in Nat
  PROVE  FactsOf(MemoryTransitions(memory, e, limit)) = FactsOf(Transitions(transitions, e, limit))
<1> DEFINE list == memory.transitions
           A == {i \in DOMAIN list : Asked(e, list[i])}
           B == {t \in transitions : Asked(e, t)}
           rank == [i \in A |-> Cardinality({j \in A : j > i})]
<1>1. PICK o \in Bijection(DOMAIN list, transitions) : Mirror(o, list, transitions)
  BY DEF RepositoriesInv, MemoryMirrors, Mirrored
<1>2. IsFiniteSet(transitions) /\ transitions \subseteq TransitionRow
  BY DEF RepositoriesInv, TablesInv, TransitionsOfResults
<1>3. list \in Seq(TransitionRow) /\ \A i \in DOMAIN list : i \in Int
  BY DEF RepositoriesInv, MemoryTyped
<1>4. \A i \in DOMAIN list : /\ o[i] \in transitions /\ list[i].endpoint = o[i].endpoint
                             /\ Facts(list[i]) = Facts(o[i])
  <2>1. \A i \in DOMAIN list : o[i] \in transitions
    BY MirrorMaps
  <2>2. \A i \in DOMAIN list : Facts(list[i]) = Facts(o[i])
    BY <1>1 DEF Mirror
  <2>3. \A i \in DOMAIN list : list[i] \in TransitionRow
    BY <1>3
  <2>4. QED
    BY <1>2, <2>1, <2>2, <2>3, FactsOfTransitions
<1>5. \A i \in DOMAIN list : i \in A <=> o[i] \in B
  BY <1>4 DEF Asked
<1>6. \A t \in B : t \in transitions /\ t.endpoint = e
  BY RepositoriesAssumption DEF Asked
<1>7. ASSUME NEW t \in B, NEW u \in B
      PROVE  /\ t.id \in Nat /\ u.id \in Nat /\ t.at \in Nat /\ u.at \in Nat
             /\ t.id = u.id => t = u
             /\ Before(t, u) <=> t.id < u.id
  <2>1. t \in TransitionRow /\ u \in TransitionRow /\ t \in transitions /\ u \in transitions
    BY <1>2, <1>6
  <2>2. PICK r \in results, s \in results :
          /\ r.id = t.id /\ r.endpoint = t.endpoint /\ r.at = t.at
          /\ s.id = u.id /\ s.endpoint = u.endpoint /\ s.at = u.at
    BY <2>1 DEF RepositoriesInv, TablesInv, TransitionsOfResults
  <2>3. r \in Own(results, e) /\ s \in Own(results, e)
    BY <1>6, <2>2 DEF Own
  <2>4. Before(r, s) <=> r.id < s.id
    BY <2>3, OwnResultsOrdered DEF RepositoriesInv
  <2>5. t.id = u.id => t = u
    BY <2>1 DEF RepositoriesInv, TablesInv, TransitionsOfResults
  <2>6. t.id \in Nat /\ u.id \in Nat /\ t.at \in Nat /\ u.at \in Nat
    BY <2>1 DEF TransitionRow
  <2>7. QED
    BY <2>2, <2>4, <2>5, <2>6 DEF Before
<1>8. Ordered(B)
  BY <1>7 DEF Ordered
<1>9. ASSUME NEW i \in A PROVE rank[i] = Cardinality(After(B, o[i]))
  <2>1. ASSUME NEW j \in DOMAIN list
        PROVE  j \in {k \in A : k > i} <=> o[j] \in After(B, o[i])
    <3>1. CASE j \notin A
      BY <1>5, <3>1 DEF After
    <3>2. CASE j \in A
      <4>1. o[i] \in B /\ o[j] \in B
        BY <1>5, <3>2
      <4>2. Before(o[i], o[j]) <=> o[i].id < o[j].id
        BY <1>7, <4>1
      <4>3. o[i].id \in Nat /\ o[j].id \in Nat
        BY <1>7, <4>1
      <4>4. /\ i < j => o[i].id < o[j].id
            /\ j < i => o[j].id < o[i].id
        BY <1>1, <3>2 DEF Mirror
      <4>5. i \in Int /\ j \in Int
        BY <1>3, <3>2
      <4>6. j > i <=> o[i].id < o[j].id
        BY <4>3, <4>4, <4>5
      <4>7. QED
        BY <3>2, <4>1, <4>2, <4>6 DEF After
    <3>3. QED
      BY <3>1, <3>2
  <2>2. {k \in A : k > i} \in SUBSET DOMAIN list /\ After(B, o[i]) \in SUBSET transitions
    BY DEF After
  <2> HIDE DEF A, B
  <2>3. Cardinality({k \in A : k > i}) = Cardinality(After(B, o[i]))
    BY <1>1, <1>2, <2>1, <2>2, MirrorCounts
  <2>4. QED
    BY <2>3
<1>10. /\ MemoryTransitions(memory, e, limit) = Listed(list, rank, limit)
       /\ Transitions(transitions, e, limit) = NewestFirst(B, limit)
  BY DEF MemoryTransitions, Transitions
<1>11. A \in SUBSET DOMAIN list /\ B \in SUBSET transitions /\ DOMAIN rank = A
  OBVIOUS
<1> HIDE DEF A, B, rank, list
<1>12. SameOrder(o, DOMAIN list, transitions, A, B, rank)
  BY <1>1, <1>2, <1>5, <1>8, <1>9, <1>11 DEF SameOrder
<1>13. SameItems(Listed(list, rank, limit), NewestFirst(B, limit), list, A, o)
  BY <1>12, SameListing
<1>14. \A place \in DOMAIN NewestFirst(B, limit) :
         Facts(Listed(list, rank, limit)[place]) = Facts(NewestFirst(B, limit)[place])
  BY <1>4, <1>11, <1>13 DEF SameItems
<1>15. FactsOf(Listed(list, rank, limit)) = FactsOf(NewestFirst(B, limit))
  BY <1>13, <1>14 DEF FactsOf, SameItems
<1>16. QED
  BY <1>10, <1>15

(* With room for all of them, a list from its end has every item,           *)
LEMMA ListedHasAll ==
  ASSUME NEW list, NEW n \in Nat, NEW limit \in Nat, n <= limit
  PROVE  LET rank == [i \in 1..n |-> Cardinality({j \in 1..n : j > i})]
         IN  Elements(FactsOf(Listed(list, rank, limit))) = {Facts(list[i]) : i \in 1..n}
<1> DEFINE rank == [i \in 1..n |-> Cardinality({j \in 1..n : j > i})]
           Place(place) == CHOOSE i \in DOMAIN rank : rank[i] = place - 1
<1>1. ASSUME NEW i \in 1..n PROVE rank[i] = n - i
  <2>1. {j \in 1..n : j > i} = (i + 1)..n
    OBVIOUS
  <2>2. Cardinality((i + 1)..n) = n - i
    BY FS_Interval
  <2>3. QED
    BY <2>1, <2>2
<1>2. Cardinality(DOMAIN rank) = n
  BY FS_Interval
<1>3. ASSUME NEW place \in 1..n PROVE Place(place) = n + 1 - place
  <2>1. n + 1 - place \in 1..n /\ rank[n + 1 - place] = place - 1
    BY <1>1
  <2>2. DOMAIN rank = 1..n
    OBVIOUS
  <2> HIDE DEF rank
  <2>3. Place(place) \in 1..n /\ rank[Place(place)] = place - 1
    BY <2>1, <2>2
  <2> HIDE DEF Place
  <2>4. QED
    BY <1>1, <2>3
<1>4. Listed(list, rank, limit) = [place \in 1..n |-> list[n + 1 - place]]
  <2>1. (IF limit < Cardinality(DOMAIN rank) THEN limit ELSE Cardinality(DOMAIN rank)) = n
    BY <1>2
  <2>2. Listed(list, rank, limit) = [place \in 1..n |-> list[Place(place)]]
    BY <2>1 DEF Listed
  <2> HIDE DEF Place
  <2>3. QED
    BY <1>3, <2>2
<1> HIDE DEF rank
<1>5. FactsOf(Listed(list, rank, limit)) = [place \in 1..n |-> Facts(list[n + 1 - place])]
  BY <1>4 DEF FactsOf
<1>6. Elements(FactsOf(Listed(list, rank, limit))) = {Facts(list[n + 1 - place]) : place \in 1..n}
  BY <1>5 DEF Elements
<1>7. \A i \in 1..n : n + 1 - i \in 1..n /\ n + 1 - (n + 1 - i) = i
  OBVIOUS
<1>8. {Facts(list[n + 1 - place]) : place \in 1..n} = {Facts(list[i]) : i \in 1..n}
  BY <1>7
<1>9. QED
  BY <1>6, <1>8 DEF rank

(* and the list of the newest every row.                                    *)
LEMMA NewestHasAll ==
  ASSUME NEW rows, IsFiniteSet(rows), Ordered(rows), NEW limit \in Nat,
         Cardinality(rows) <= limit
  PROVE  Elements(FactsOf(NewestFirst(rows, limit))) = {Facts(r) : r \in rows}
<1> DEFINE n == Cardinality(rows)  list == NewestFirst(rows, limit)
<1>1. n \in Nat /\ \A r \in rows : Cardinality(After(rows, r)) \in 0..(n - 1)
  BY EveryRankOnce
<1>2. (IF limit < n THEN limit ELSE n) = n
  BY <1>1
<1>3. /\ list \in Seq(rows) /\ Len(list) = n
      /\ \A i \in 1..n : list[i] \in rows
      /\ \A i \in 1..n, r \in rows : Cardinality(After(rows, r)) = i - 1 => r = list[i]
  BY <1>2, NewestFirstRanks
<1>4. DOMAIN list = 1..n
  BY <1>1, <1>3
<1> HIDE DEF n, list
<1>5. \A r \in rows : \E i \in 1..n : list[i] = r
  <2> TAKE r \in rows
  <2>1. Cardinality(After(rows, r)) + 1 \in 1..n
    BY <1>1
  <2>2. Cardinality(After(rows, r)) = (Cardinality(After(rows, r)) + 1) - 1
    BY <1>1
  <2>3. list[Cardinality(After(rows, r)) + 1] = r
    BY <1>3, <2>1, <2>2
  <2>4. QED
    BY <2>1, <2>3
<1>6. FactsOf(list) = [i \in 1..n |-> Facts(list[i])]
  BY <1>4 DEF FactsOf
<1>7. Elements(FactsOf(list)) = {Facts(list[i]) : i \in 1..n}
  BY <1>6 DEF Elements
<1>8. {Facts(list[i]) : i \in 1..n} = {Facts(r) : r \in rows}
  BY <1>3, <1>5
<1>9. QED
  BY <1>7, <1>8 DEF list

(* A mirror has the facts of its table.                                     *)
LEMMA MirrorFacts ==
  ASSUME NEW list, NEW rows, Mirrored(list, rows)
  PROVE  {Facts(list[i]) : i \in DOMAIN list} = {Facts(r) : r \in rows}
<1>1. PICK o \in Bijection(DOMAIN list, rows) : Mirror(o, list, rows)
  BY DEF Mirrored
<1>2. /\ \A i \in DOMAIN list : o[i] \in rows
      /\ \A r \in rows : \E i \in DOMAIN list : o[i] = r
  BY MirrorMaps
<1>3. \A i \in DOMAIN list : Facts(list[i]) = Facts(o[i])
  BY <1>1 DEF Mirror
<1>4. QED
  BY <1>2, <1>3

LEMMA SameTransitionsHolds == RepositoriesInv => SameTransitions
<1> SUFFICES ASSUME RepositoriesInv PROVE SameTransitions
  OBVIOUS
<1> DEFINE list == memory.transitions  n == Len(list)
           rank == [i \in 1..n |-> Cardinality({j \in 1..n : j > i})]
<1>1. ASSUME NEW e \in Endpoint, NEW p \in Limits
      PROVE  FactsOf(MemoryTransitions(memory, e, parseLimit(p))) =
               FactsOf(Transitions(transitions, e, parseLimit(p)))
  BY LimitsAreNumbers, SameOwnTransitions
<1>2. n \in Nat /\ DOMAIN list = 1..n
  BY DEF RepositoriesInv, MemoryTyped
<1>3. Mirrored(list, transitions) /\ IsFiniteSet(transitions) /\ transitions \subseteq TransitionRow
  BY DEF RepositoriesInv, MemoryMirrors, TablesInv, TransitionsOfResults
<1>4. Ordered(transitions)
  BY <1>3 DEF Ordered, TransitionRow, RepositoriesInv, TablesInv, TransitionsOfResults
<1>5. Cardinality(transitions) <= MaxResults
  <2>1. /\ Cardinality(transitions) <= Cardinality(results)
        /\ Cardinality(results) <= MaxResults
    BY DEF RepositoriesInv, TablesInv, TransitionsOfResults, ResultsInOrder
  <2>2. Cardinality(transitions) \in Nat /\ Cardinality(results) \in Nat
    BY <1>3, FS_CardinalityType DEF RepositoriesInv, TablesInv, ResultsTyped
  <2>3. QED
    BY <2>1, <2>2, RepositoriesAssumption
<1>6. n = Cardinality(transitions)
  <2>1. PICK o \in Bijection(1..n, transitions) : TRUE
    BY <1>2, <1>3 DEF Mirrored
  <2>2. \A i \in 1..n : o[i] \in transitions
    BY MirrorMaps
  <2>3. Cardinality(1..n) = Cardinality(transitions)
    BY <1>3, <2>2, MirrorCounts
  <2>4. Cardinality(1..n) = n
    <3>1. n \in Nat
      BY <1>2
    <3>2. Cardinality(1..n) = IF 1 > n THEN 0 ELSE n - 1 + 1
      BY <3>1, FS_Interval
    <3>3. QED
      BY ONLY <3>1, <3>2
  <2>5. QED
    BY <2>3, <2>4
<1>7. MemoryTransitions(memory, AnyEndpoint, MaxResults) = Listed(list, rank, MaxResults)
  <2>1. {i \in DOMAIN list : Asked(AnyEndpoint, list[i])} = 1..n
    BY <1>2 DEF Asked
  <2>2. QED
    BY <2>1 DEF MemoryTransitions
<1>8. Transitions(transitions, AnyEndpoint, MaxResults) = NewestFirst(transitions, MaxResults)
  <2>1. {t \in transitions : Asked(AnyEndpoint, t)} = transitions
    BY DEF Asked
  <2>2. QED
    BY <2>1 DEF Transitions
<1>9. Elements(FactsOf(Listed(list, rank, MaxResults))) = {Facts(list[i]) : i \in 1..n}
  BY <1>2, <1>5, <1>6, ListedHasAll, RepositoriesAssumption
<1>10. Elements(FactsOf(NewestFirst(transitions, MaxResults))) = {Facts(t) : t \in transitions}
  BY <1>3, <1>4, <1>5, NewestHasAll, RepositoriesAssumption
<1>11. {Facts(list[i]) : i \in 1..n} = {Facts(t) : t \in transitions}
  BY <1>2, <1>3, MirrorFacts
<1> HIDE DEF list, n, rank
<1>12. QED
  BY <1>1, <1>7, <1>8, <1>9, <1>10, <1>11 DEF SameTransitions

(* The alerts, and the times of the list of the newest.                     *)
LEMMA SameAlertTimes ==
  ASSUME RepositoriesInv, ~ExactlyWindowApart, NEW limit \in Nat
  PROVE  Times(MemoryAlerts(memory, limit)) = Times(Alerts(alerts, limit))
<1> DEFINE list == memory.alerts
           D == DOMAIN list
           Sooner == [i \in D |-> {j \in D : list[j].at > list[i].at
                                             \/ (list[j].at = list[i].at /\ j > i)}]
           rank == [i \in D |-> Cardinality(Sooner[i])]
<1>1. PICK o \in Bijection(D, alerts) : Mirror(o, list, alerts)
  BY DEF RepositoriesInv, MemoryMirrors, Mirrored
<1>2. /\ IsFiniteSet(alerts) /\ alerts \subseteq AlertRow
      /\ \A a, b \in alerts : a.id = b.id => a = b
  BY DEF RepositoriesInv, TablesInv, AlertsOfResults
<1>3. \A i \in D : i \in Int /\ list[i] \in AlertRow
  BY DEF RepositoriesInv, MemoryTyped
<1>4. ASSUME NEW i \in D
      PROVE  /\ o[i] \in alerts /\ list[i].at = o[i].at
             /\ o[i].at \in Nat /\ o[i].id \in Nat
  <2>1. o[i] \in alerts
    BY MirrorMaps
  <2>2. o[i] \in AlertRow /\ list[i] \in AlertRow
    BY <1>2, <1>3, <2>1
  <2>3. Facts(list[i]) = Facts(o[i])
    BY <1>1 DEF Mirror
  <2>4. QED
    BY <2>1, <2>2, <2>3, FactsOfAlerts DEF AlertRow
<1>5. Ordered(alerts)
  BY <1>2 DEF Ordered, AlertRow
<1>6. ASSUME NEW i \in D, NEW j \in D PROVE j \in Sooner[i] <=> Before(o[i], o[j])
  <2>1. /\ i < j => o[i].id < o[j].id
        /\ j < i => o[j].id < o[i].id
    BY <1>1 DEF Mirror
  <2>2. i \in Int /\ j \in Int
    BY <1>3
  <2>3. j > i <=> o[i].id < o[j].id
    <3>1. o[i].id \in Nat /\ o[j].id \in Nat
      BY <1>4
    <3>2. i = j => o[i].id = o[j].id
      OBVIOUS
    <3>3. QED
      BY <2>1, <2>2, <3>1, <3>2
  <2>4. list[i].at = o[i].at /\ list[j].at = o[j].at /\ o[i].at \in Nat /\ o[j].at \in Nat
    BY <1>4
  <2>5. QED
    BY <2>3, <2>4 DEF Before
<1>7. ASSUME NEW i \in D PROVE rank[i] = Cardinality(After(alerts, o[i]))
  <2> DEFINE J == Sooner[i]
  <2>1. \A j \in D : j \in J <=> o[j] \in After(alerts, o[i])
    BY <1>4, <1>6 DEF After
  <2>2. J \in SUBSET D /\ After(alerts, o[i]) \in SUBSET alerts
    BY DEF After
  <2>3. rank[i] = Cardinality(J)
    OBVIOUS
  <2> HIDE DEF J, D, rank
  <2>4. Cardinality(J) = Cardinality(After(alerts, o[i]))
    BY <1>1, <1>2, <2>1, <2>2, MirrorCounts
  <2>5. QED
    BY <2>3, <2>4
<1>8. /\ MemoryAlerts(memory, limit) = Listed(list, rank, limit)
      /\ Alerts(alerts, limit) = NewestFirst(alerts, limit)
  BY DEF MemoryAlerts, Alerts
<1>9. DOMAIN rank = D
  OBVIOUS
<1> HIDE DEF D, rank, list
<1>10. SameOrder(o, D, alerts, D, alerts, rank)
  BY <1>1, <1>2, <1>4, <1>5, <1>7, <1>9 DEF SameOrder
<1>11. SameItems(Listed(list, rank, limit), NewestFirst(alerts, limit), list, D, o)
  BY <1>10, SameListing
<1>12. \A place \in DOMAIN NewestFirst(alerts, limit) :
         Listed(list, rank, limit)[place].at = NewestFirst(alerts, limit)[place].at
  BY <1>4, <1>11 DEF SameItems
<1>13. QED
  BY <1>8, <1>11, <1>12 DEF SameItems, Times

LEMMA SameAlertsHolds == RepositoriesInv /\ ~ExactlyWindowApart => SameAlerts
<1> SUFFICES ASSUME RepositoriesInv, ~ExactlyWindowApart PROVE SameAlerts
  OBVIOUS
<1> DEFINE list == memory.alerts
<1>1. Mirrored(list, alerts)
  BY DEF RepositoriesInv, MemoryMirrors
<1>2. FactsOf(list) = [i \in DOMAIN list |-> Facts(list[i])]
  BY DEF FactsOf
<1> HIDE DEF list
<1>3. Elements(FactsOf(list)) = {Facts(list[i]) : i \in DOMAIN list}
  BY <1>2 DEF Elements
<1>4. {Facts(a) : a \in alerts} = Elements(FactsOf(list))
  BY <1>1, <1>3, MirrorFacts
<1>5. \A p \in Limits : Times(MemoryAlerts(memory, parseLimit(p))) = Times(Alerts(alerts, parseLimit(p)))
  BY LimitsAreNumbers, SameAlertTimes
<1>6. QED
  BY <1>4, <1>5 DEF SameAlerts, list

(* Whatever is recorded, in whatever order between the endpoints, the       *)
(* repository of the tests answers the queries of the status service like   *)
(* PostgreSQL does, for any number of endpoints, results and rows asked     *)
(* for; the alerts while no two results of a kind are exactly the dedupe    *)
(* window apart.                                                            *)
THEOREM RepositoriesAnswerAlike == Spec => []RepositoriesAgree
<1>1. RepositoriesInv => RepositoriesAgree
  BY SameLatestHolds, SameFiguresHolds, SameTransitionsHolds, SameAlertsHolds
     DEF RepositoriesAgree
<1>2. QED
  BY <1>1, RepositoriesInit, RepositoriesStep, PTL DEF Spec
=============================================================================
