-------------------------------- MODULE SLO --------------------------------
(***************************************************************************)
(* The arithmetic of internal/domain/types.go and docs/slo.md: figures of  *)
(* a window from the counts of its results.  A figure is a fraction        *)
(* [num, den]; where the code rounds to a float, the fraction is exact.    *)
(***************************************************************************)
EXTENDS ReadQueries

CONSTANTS
  TargetNum, TargetDen,  \* slo.availabilityTarget is TargetNum / TargetDen
  LatencyTarget          \* slo.latencyTarget

(* Validate lets through only targets strictly between 0 and 1.             *)
ASSUME SLOAssumption ==
  /\ TargetNum \in Nat /\ TargetDen \in Nat /\ 0 < TargetNum /\ TargetNum < TargetDen
  /\ LatencyTarget \in Nat \ {0}

Zero == [num |-> 0, den |-> 1]
One == [num |-> 1, den |-> 1]
AtMost(p, q) == p.num * q.den <= q.num * p.den

(* ratio, 0 of nothing                                                      *)
Ratio(n, d) == IF d = 0 THEN Zero ELSE [num |-> n, den |-> d]
(* 1 - p                                                                    *)
Rest(p) == [num |-> p.den - p.num, den |-> p.den]
Over(p, q) == [num |-> p.num * q.den, den |-> p.den * q.num]

(* The figures that both calculations arrive at.                            *)
Figures(eligible, good, latencyGood) ==
  LET availability == Ratio(good, eligible)
      burn == IF eligible > 0
                THEN Over(Rest(availability), Rest(Ratio(TargetNum, TargetDen)))
                ELSE Zero
  IN  [availability |-> availability,
       latencyCompliance |-> Ratio(latencyGood, eligible),
       burnRate |-> burn,
       budgetRemaining |-> IF AtMost(burn, One) THEN Rest(burn) ELSE Zero,
       sampleCount |-> eligible]

CalculateSLOCounts(counts) == Figures(counts.eligible, counts.good, counts.latencyGood)

(* The same from the results themselves, a sequence of them.                *)
CalculateSLO(list, since) ==
  LET counted == {i \in DOMAIN list : ~(list[i].at < since) /\ Eligible(list[i])}
  IN  Figures(Cardinality(counted),
              Cardinality({i \in counted : Good(list[i])}),
              Cardinality({i \in counted :
                 list[i].latency <= LatencyTarget /\ list[i].state # "Unavailable"}))
=============================================================================
