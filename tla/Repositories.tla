---------------------------- MODULE Repositories ----------------------------
(***************************************************************************)
(* The same results recorded in the tables of PostgreSQL, in one step as   *)
(* ResultLog has it, and in the in-memory repository the tests use in      *)
(* their place: do the questions of the status service have the same       *)
(* answers, and do the figures follow the results.                         *)
(*                                                                         *)
(* Results of one endpoint come in the order of their times, which one     *)
(* watchdog sees to (OneCheckAtATime of Scheduler); those of different     *)
(* endpoints, whose checks take different times, in any order.             *)
(***************************************************************************)
EXTENDS MemoryStore, SLO

CONSTANTS
  State,       \* states of the results
  Latency,     \* their latencies
  Limits,      \* values of the parameter limit of a request
  MaxTime,     \* bound: the times of the results
  MaxResults   \* bound: the number of results

(* Validate refuses an endpoint without an identifier.                      *)
ASSUME RepositoriesAssumption ==
  /\ AnyEndpoint \notin Endpoint
  /\ DefaultLimit \in Nat /\ MaxLimit \in Nat /\ Limits \subseteq Int
  /\ MaxTime \in Nat /\ MaxResults \in Nat

VARIABLES
  results, transitions, alerts,  \* the tables
  memory                         \* the in-memory repository

tables == <<results, transitions, alerts>>
vars == <<tables, memory>>

Log == INSTANCE ResultLog

Init == Log!LInit /\ memory = NewMemory

(* RecordResult of both with the same result                                *)
RecordBoth ==
  /\ Cardinality(results) < MaxResults
  /\ \E e \in Endpoint, s \in State, l \in Latency, t \in 1..MaxTime :
       LET r == [id |-> Cardinality(results) + 1, endpoint |-> e, at |-> t, state |-> s,
                 latency |-> l]
       IN  /\ \A q \in results : q.endpoint = e => q.at <= t
           /\ Log!Record(r)
           /\ memory' = MemoryRecord(memory, r)

Full == Cardinality(results) = MaxResults /\ UNCHANGED vars

Next == RecordBoth \/ Full

Spec == Init /\ [][Next]_vars

-----------------------------------------------------------------------------
(* addState over the endpoints of a snapshot                                *)
Aggregate(latest) ==
  [s \in {"Healthy", "Degraded", "Unavailable", "Maintenance", "Unknown"} |->
    Cardinality({e \in Endpoint :
      IF e \in DOMAIN latest THEN latest[e].state = s ELSE s = "Unknown"})]

(* What two rows have in common when their identifiers differ.              *)
Facts(row) == [row EXCEPT !.id = 0]
FactsOf(list) == [i \in DOMAIN list |-> Facts(list[i])]
Elements(list) == {list[i] : i \in DOMAIN list}
Times(list) == [i \in DOMAIN list |-> list[i].at]

SameLatest ==
  LET ours == MemoryLatestResults(memory)
      theirs == LatestResults(results)
  IN  /\ DOMAIN ours = DOMAIN theirs
      /\ \A e \in DOMAIN ours : Facts(ours[e]) = Facts(theirs[e])
      /\ Aggregate(ours) = Aggregate(theirs)

Windows == 0..(MaxTime + 1)   \* when the window of a figure begins

SameFigures ==
  \A e \in Endpoint, since \in Windows :
    LET counts == CountsSince(results, e, since, LatencyTarget)
    IN  /\ MemoryCountsSince(memory, e, since, LatencyTarget) = counts
        /\ CalculateSLO(memory.results[e], since) = CalculateSLOCounts(counts)

(* Of one endpoint the same list; of all of them the same transitions, but  *)
(* in the order of their times from one and as they came from the other, so *)
(* that a limit may cut off different ones.                                 *)
SameTransitions ==
  /\ \A e \in Endpoint, p \in Limits :
       FactsOf(MemoryTransitions(memory, e, parseLimit(p))) =
         FactsOf(Transitions(transitions, e, parseLimit(p)))
  /\ Elements(FactsOf(MemoryTransitions(memory, AnyEndpoint, MaxResults))) =
       Elements(FactsOf(Transitions(transitions, AnyEndpoint, MaxResults)))

(* Two results of the same kind are exactly the window apart: only then the *)
(* one repository has a duplicate and the other an alert.                   *)
ExactlyWindowApart ==
  \E r, s \in results : r.endpoint = s.endpoint /\ r.state = s.state /\ r.at = s.at + Window

SameAlerts ==
  /\ {Facts(a) : a \in alerts} = Elements(FactsOf(memory.alerts))
  /\ \A p \in Limits :
       Times(MemoryAlerts(memory, parseLimit(p))) = Times(Alerts(alerts, parseLimit(p)))

(* Whatever is recorded, the in-memory repository answers the queries of    *)
(* the status service like PostgreSQL, except that its dedupe window is     *)
(* open at the end where PostgreSQL's is closed; so what a test of the      *)
(* service sees is what the service does.                                   *)
RepositoriesAgree ==
  /\ SameLatest /\ SameFigures /\ SameTransitions
  /\ ~ExactlyWindowApart => SameAlerts

AllFigures ==
  [e \in Endpoint |-> [since \in Windows |->
    CalculateSLOCounts(CountsSince(results, e, since, LatencyTarget))]]

(* The burn rate passes 1 exactly when the availability is below its        *)
(* target, and a window without samples spends nothing (docs/slo.md).       *)
BudgetMeetsTarget(f) ==
  /\ f.sampleCount > 0 =>
       (AtMost(f.burnRate, One) <=> AtMost([num |-> TargetNum, den |-> TargetDen], f.availability))
  /\ f.sampleCount = 0 => f.burnRate = Zero /\ f.budgetRemaining = One
  /\ AtMost(Zero, f.budgetRemaining) /\ AtMost(f.budgetRemaining, One)

(* README.md: maintenance is "excluded from uptime and SLO budgets": such a *)
(* result changes no figure of any window; an outage never gives budget     *)
(* back, a good result never takes any, and no result moves the figures of  *)
(* another endpoint or of a window that begins after it.                    *)
FiguresFollow(r, e, since, before, after) ==
  /\ BudgetMeetsTarget(after)
  /\ r.state = "Maintenance" \/ r.endpoint # e \/ r.at < since => after = before
  /\ r.state = "Unavailable" =>
       /\ AtMost(before.burnRate, after.burnRate)
       /\ AtMost(after.budgetRemaining, before.budgetRemaining)
  /\ Good(r) => AtMost(after.burnRate, before.burnRate)

BudgetFollowsResults ==
  [][\A before \in {AllFigures}, after \in {AllFigures'}, r \in results' \ results :
       \A e \in Endpoint, since \in Windows :
         FiguresFollow(r, e, since, before[e][since], after[e][since])]_vars
=============================================================================
