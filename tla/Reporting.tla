----------------------------- MODULE Reporting -----------------------------
(***************************************************************************)
(* What the outside sees of one endpoint while its checks go on: the       *)
(* status, which Service.Snapshot puts together from queries that each see *)
(* the tables of their own moment, and the metrics, which Observe sets     *)
(* series by series and a scrape reads series by series.                   *)
(*                                                                         *)
(* Checks of one endpoint never overlap (Scheduler), and a result is       *)
(* stored in one step (PostgresStore).  Snapshot asks about the endpoints  *)
(* one after the other; for this one the others are time that passes.      *)
(* Neither reader changes anything, so a behaviour has one kind of reader, *)
(* chosen at the start.                                                    *)
(***************************************************************************)
EXTENDS ReadQueries

CONSTANTS
  State,             \* states of the results
  SLOWindow,         \* slo.window
  LatencyTarget,     \* slo.latencyTarget
  RecentLimit,       \* transitions in a status, 10 in the code
  MaxTime,           \* bound: the clock
  MaxChecks          \* bound: the checks

ASSUME ReportingAssumption ==
  /\ State \subseteq {"Healthy", "Degraded", "Unavailable", "Maintenance"}
  /\ SLOWindow \in Nat \ {0} /\ RecentLimit \in Nat \ {0}
  /\ Endpoint # {} /\ MaxTime \in Nat \ {0} /\ MaxChecks \in Nat

VARIABLES
  clock,                         \* the time
  results, transitions, alerts,  \* the committed rows
  stage,      \* where perform is
  result,     \* its result, the row to be
  setting,    \* the series of the state gauge that Observe sets next
  lit,        \* the states whose series is 1
  checks,     \* the counter of checks: state |-> value
  alerted,    \* the counter of alerts
  errors,     \* the counter of storage errors
  reader,     \* which reader there is
  request,    \* the status request
  scrape,     \* the scrape
  shown,      \* ghost: the state the gauge last showed in full, or "none"
  meant       \* ghost: the states the gauge was to show since the scrape began

tables == <<results, transitions, alerts>>
check == <<stage, result, setting>>
metrics == <<lit, checks, alerted, errors>>
ghosts == <<shown, meant>>
vars == <<clock, tables, check, metrics, reader, request, scrape, ghosts>>

TheEndpoint == CHOOSE e \in Endpoint : TRUE

(* The order in which Observe sets the series.                              *)
Series == <<"Healthy", "Degraded", "Unavailable", "Maintenance", "Unknown">>
SeriesStates == {Series[i] : i \in DOMAIN Series}

NewRow(id, at) ==
  [id |-> id, endpoint |-> TheEndpoint, at |-> at, state |-> "Unknown", latency |-> 0]
NoRow == NewRow(0, 1)
NoCounts == [eligible |-> 0, good |-> 0, latencyGood |-> 0]
(* at is the query that Snapshot has answered last; last holds the latest   *)
(* result if there is one.                                                  *)
NoRequest == [at |-> "none", last |-> {}, generatedAt |-> 0, counts |-> NoCounts, recent |-> <<>>]
NoScrape == [reading |-> FALSE, left |-> {}, ones |-> {}]

Init ==
  /\ clock = 1
  /\ results = {} /\ transitions = {} /\ alerts = {}
  /\ stage = "idle" /\ result = NoRow /\ setting = 1
  /\ lit = {} /\ checks = [s \in State |-> 0] /\ alerted = 0 /\ errors = 0
  /\ reader \in {"status", "scrape"}
  /\ request = NoRequest /\ scrape = NoScrape
  /\ shown = "none" /\ meant = {}

Tick ==
  /\ clock < MaxTime
  /\ clock' = clock + 1
  /\ UNCHANGED <<tables, check, metrics, reader, request, scrape, ghosts>>

-----------------------------------------------------------------------------
(* The time of the result: perform's now, or when the last probe began.     *)
BeginCheck ==
  /\ stage = "idle"
  /\ result.id < MaxChecks
  /\ result' = NewRow(result.id + 1, clock)
  /\ stage' = "checking"
  /\ UNCHANGED <<clock, tables, setting, metrics, reader, request, scrape, ghosts>>

(* The result is there, and Observe begins with the counter of checks.      *)
Observe ==
  /\ stage = "checking"
  /\ \E s \in State :
       /\ result' = [result EXCEPT !.state = s]
       /\ checks' = [checks EXCEPT ![s] = @ + 1]
       /\ meant' = IF scrape.reading THEN meant \cup {s} ELSE meant
  /\ stage' = "observing"
  /\ setting' = 1
  /\ UNCHANGED <<clock, tables, lit, alerted, errors, reader, request, scrape, shown>>

(* Mutant: Observe clears the gauge before it sets the state.               *)
SetSeriesAfterReset ==
  /\ stage = "observing"
  /\ lit' = IF setting = Len(Series) THEN {result.state} ELSE {}
  /\ setting' = IF setting = Len(Series) THEN 1 ELSE setting + 1
  /\ stage' = IF setting = Len(Series) THEN "recording" ELSE "observing"
  /\ shown' = IF setting = Len(Series) THEN result.state ELSE shown
  /\ UNCHANGED <<clock, tables, result, checks, alerted, errors, reader, request, scrape, meant>>

(* Observe sets the next series to 1 or 0.                                  *)
SetSeries ==
  /\ stage = "observing"
  /\ lit' = IF Series[setting] = result.state THEN lit \cup {Series[setting]}
            ELSE lit \ {Series[setting]}
  /\ setting' = IF setting = Len(Series) THEN 1 ELSE setting + 1
  /\ stage' = IF setting = Len(Series) THEN "recording" ELSE "observing"
  /\ shown' = IF setting = Len(Series) THEN result.state ELSE shown
  /\ UNCHANGED <<clock, tables, result, checks, alerted, errors, reader, request, scrape, meant>>

(* The rows that RecordResult adds.                                         *)
NewAlerts == AlertRows(alerts, LatestState(results, TheEndpoint), result)
Commit ==
  /\ results' = results \cup {result}
  /\ transitions' = transitions \cup TransitionRows(LatestState(results, TheEndpoint), result)
  /\ alerts' = alerts \cup NewAlerts

(* RecordResult returns an outcome; an alert is counted next.               *)
Record ==
  /\ stage = "recording"
  /\ Commit
  /\ stage' = IF NewAlerts = {} THEN "idle" ELSE "counting"
  /\ UNCHANGED <<clock, result, setting, metrics, reader, request, scrape, ghosts>>

CountAlert ==
  /\ stage = "counting"
  /\ alerted' = alerted + 1
  /\ stage' = "idle"
  /\ UNCHANGED <<clock, tables, result, setting, lit, checks, errors, reader, request, scrape, ghosts>>

(* Mutant: only an error that stored nothing is counted.                    *)
RecordFailsUncounted ==
  /\ stage = "recording"
  /\ \/ Commit /\ UNCHANGED errors
     \/ UNCHANGED tables /\ errors' = errors + 1
  /\ stage' = "idle"
  /\ UNCHANGED <<clock, result, setting, lit, checks, alerted, reader, request, scrape, ghosts>>

(* RecordResult returns an error, with the rows stored if it was the answer *)
(* to the commit that was lost.                                             *)
RecordFails ==
  /\ stage = "recording"
  /\ Commit \/ UNCHANGED tables
  /\ errors' = errors + 1
  /\ stage' = "idle"
  /\ UNCHANGED <<clock, result, setting, lit, checks, alerted, reader, request, scrape, ghosts>>

-----------------------------------------------------------------------------
(* A query of Snapshot is answered.                                         *)
Query(from, to, answer) ==
  /\ reader = "status" /\ request.at = from
  /\ request' = [answer EXCEPT !.at = to]
  /\ UNCHANGED <<clock, tables, check, metrics, reader, scrape, ghosts>>

LatestRow == {LatestResults(results)[e] : e \in DOMAIN LatestResults(results)}

(* LatestResults                                                            *)
QueryLatest == Query("none", "latest", [NoRequest EXCEPT !.last = LatestRow])

(* now := s.options.Now(): before the loop, after LatestResults.            *)
ReadClock == Query("latest", "dated", [request EXCEPT !.generatedAt = clock])

(* CountsSince                                                              *)
QueryCounts ==
  Query("dated", "counted",
        [request EXCEPT !.counts =
           CountsSince(results, TheEndpoint, request.generatedAt - SLOWindow, LatencyTarget)])

(* Mutant: the latest result is asked for after the counts.                 *)
QueryLatestLate ==
  Query("counted", "answered",
        [request EXCEPT !.recent = Transitions(transitions, TheEndpoint, RecentLimit),
                        !.last = LatestRow])

(* Transitions                                                              *)
QueryTransitions ==
  Query("counted", "answered",
        [request EXCEPT !.recent = Transitions(transitions, TheEndpoint, RecentLimit)])

(* A query fails, and the request is answered with an error.                *)
QueryFails ==
  /\ request.at \in {"none", "dated", "counted"}
  /\ Query(request.at, "none", NoRequest)

Answer == Query("answered", "none", NoRequest)

-----------------------------------------------------------------------------
BeginScrape ==
  /\ reader = "scrape" /\ ~scrape.reading
  /\ scrape' = [reading |-> TRUE, left |-> SeriesStates, ones |-> {}]
  /\ meant' = {shown} \cup (IF stage = "observing" THEN {result.state} ELSE {})
  /\ UNCHANGED <<clock, tables, check, metrics, reader, request, shown>>

(* The registry collects the series in no particular order.                 *)
ReadSeries ==
  /\ \E s \in scrape.left :
       scrape' = [scrape EXCEPT !.left = @ \ {s}, !.ones = @ \cup ({s} \cap lit)]
  /\ UNCHANGED <<clock, tables, check, metrics, reader, request, ghosts>>

EndScrape ==
  /\ scrape.reading /\ scrape.left = {}
  /\ scrape' = NoScrape
  /\ meant' = {}
  /\ UNCHANGED <<clock, tables, check, metrics, reader, request, shown>>

-----------------------------------------------------------------------------
Perform == BeginCheck \/ Observe \/ SetSeries \/ Record \/ CountAlert \/ RecordFails
Status ==
  QueryLatest \/ ReadClock \/ QueryCounts \/ QueryTransitions \/ QueryFails \/ Answer
Scrape == BeginScrape \/ ReadSeries \/ EndScrape

Next == Tick \/ Perform \/ Status \/ Scrape

Spec == Init /\ [][Next]_vars

-----------------------------------------------------------------------------
Row == [id : 1..MaxChecks, endpoint : Endpoint, at : 1..MaxTime, state : State, latency : {0}]

(* The types, and that an alert is not counted before it is stored.         *)
TypeOK ==
  /\ clock \in 1..MaxTime
  /\ results \subseteq Row
  /\ stage \in {"idle", "checking", "observing", "recording", "counting"}
  /\ setting \in 1..Len(Series)
  /\ lit \subseteq SeriesStates
  /\ checks \in [State -> 0..MaxChecks]
  /\ alerted \in 0..Cardinality(alerts)
  /\ errors \in 0..MaxChecks
  /\ request.last \subseteq Row /\ Cardinality(request.last) <= 1
  /\ Len(request.recent) <= RecentLimit
  /\ scrape.ones \subseteq SeriesStates /\ scrape.left \subseteq SeriesStates

(* The parts of an answered status go together although each is of another  *)
(* moment: r is the result it shows.                                        *)
(* The history explains the result: its newest transition led to the state  *)
(* shown or is of a later result.                                           *)
HistoryExplains(r) ==
  /\ request.recent # <<>>
  /\ LET t == request.recent[1] IN t.to = r.state \/ Before(r, t)
(* The figures include the result, if they can.                             *)
FiguresInclude(r) ==
  Eligible(r) /\ r.at >= request.generatedAt - SLOWindow =>
    /\ request.counts.eligible >= 1
    /\ Good(r) => request.counts.good >= 1
    /\ ~Good(r) => request.counts.good < request.counts.eligible
StatusIsCoherent ==
  request.at = "answered" => \A r \in request.last :
    HistoryExplains(r) /\ FiguresInclude(r) /\ r.at <= request.generatedAt

(* A scrape shows only states that the gauge was to show while it read, and *)
(* shows that state and no other when there was only one, also while checks *)
(* that find the same state again are observed: metrics.go's "One-hot       *)
(* endpoint state gauge".  When the state changes in between, none or two.  *)
ScrapeTellsState ==
  scrape.reading /\ scrape.left = {} =>
    /\ scrape.ones \subseteq meant
    /\ Cardinality(meant) = 1 => scrape.ones = meant \ {"none"}

(* Between checks the counters account for the rows: every stored result    *)
(* was counted under its state, every result not stored is a storage error, *)
(* and every stored alert is counted but for errors after the commit.       *)
(* docs/architecture.md: "writes fail visibly".                             *)
CountersAccount ==
  stage = "idle" =>
    LET total == Cardinality(results)
        stored(s) == Cardinality({r \in results : r.state = s})
        observed == result.id
    IN  /\ \A s \in State : stored(s) <= checks[s] /\ checks[s] <= stored(s) + errors
        /\ observed <= total + errors
        /\ Cardinality(alerts) <= alerted + errors
=============================================================================
