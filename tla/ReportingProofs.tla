-------------------------- MODULE ReportingProofs --------------------------
(***************************************************************************)
(* Proofs about Reporting: what the metrics of an endpoint tell, for any   *)
(* number of checks, any states and any window.                            *)
(***************************************************************************)
EXTENDS Reporting, QueryLemmas

(* The states that have a series, by name.                                  *)
LEMMA SeriesNames ==
  /\ Len(Series) = 5
  /\ SeriesStates = {"Healthy", "Degraded", "Unavailable", "Maintenance", "Unknown"}
  /\ State \subseteq SeriesStates /\ "none" \notin SeriesStates
<1>1. Len(Series) = 5 /\ DOMAIN Series = 1..5
  BY DEF Series
<1>2. SeriesStates = {"Healthy", "Degraded", "Unavailable", "Maintenance", "Unknown"}
  <2>1. SeriesStates = {Series[i] : i \in 1..5}
    BY <1>1 DEF SeriesStates
  <2>2. 1..5 = {1, 2, 3, 4, 5}
    OBVIOUS
  <2>3. QED
    BY <2>1, <2>2 DEF Series
<1>3. QED
  BY <1>1, <1>2, ReportingAssumption

(* What the gauge is about.                                                 *)
Result ==
  [id : Nat, endpoint : {TheEndpoint}, at : Nat, state : State \cup {"Unknown"}, latency : {0}]
GaugeTypes ==
  /\ clock \in Nat /\ result \in Result
  /\ stage \in {"idle", "checking", "observing", "recording", "counting"}
  /\ setting \in 1..5
  /\ lit \subseteq SeriesStates
  /\ shown \in State \cup {"none"}
  /\ stage = "observing" => result.state \in State
  /\ scrape \in [reading : BOOLEAN, left : SUBSET SeriesStates, ones : SUBSET SeriesStates]

(* The series that Observe has set tell the new state, the others the state *)
(* before.                                                                  *)
GaugeTells ==
  \A i \in 1..5 :
    Series[i] \in lit <=>
      Series[i] = IF stage = "observing" /\ i < setting THEN result.state ELSE shown

(* A scrape reads the gauge while it tells nothing but states in meant.     *)
ScrapeReads ==
  /\ scrape.reading =>
       /\ shown \in meant
       /\ stage = "observing" => result.state \in meant
       /\ meant \subseteq State \cup {"none"}
       /\ scrape.ones \subseteq meant
       /\ \A m : meant = {m} => scrape.ones = {m} \ (scrape.left \cup {"none"})
  /\ ~scrape.reading => scrape.left = {}

GaugeInv == GaugeTypes /\ GaugeTells /\ ScrapeReads

(* The gauge begins without a series that is 1.                              *)
LEMMA GaugeInit == Init => GaugeInv
<1> SUFFICES ASSUME Init PROVE GaugeInv
  OBVIOUS
<1> USE DEF Init
<1>1. GaugeTypes
  BY DEF GaugeTypes, NoScrape, Result, NoRow, NewRow
<1>2. GaugeTells
  <2> SUFFICES ASSUME NEW i \in 1..5 PROVE Series[i] # "none"
    BY DEF GaugeTells
  <2>1. Series[i] \in SeriesStates
    BY SeriesNames DEF SeriesStates, Series
  <2>2. QED
    BY <2>1, SeriesNames
<1>3. ScrapeReads
  BY DEF ScrapeReads, NoScrape
<1>4. QED
  BY <1>1, <1>2, <1>3 DEF GaugeInv

(* Observe sets the next series.                                            *)
LEMMA SetSeriesKeepsGauge == GaugeInv /\ SetSeries => GaugeInv'
<1> SUFFICES ASSUME GaugeInv, SetSeries PROVE GaugeInv'
  OBVIOUS
<1>1. /\ stage = "observing" /\ result' = result /\ clock' = clock /\ scrape' = scrape /\ meant' = meant
      /\ lit' = IF Series[setting] = result.state THEN lit \cup {Series[setting]}
                ELSE lit \ {Series[setting]}
      /\ IF setting = 5
           THEN setting' = 1 /\ stage' = "recording" /\ shown' = result.state
           ELSE setting' = setting + 1 /\ stage' = "observing" /\ shown' = shown
  BY SeriesNames DEF SetSeries
<1>2. Series[setting] \in SeriesStates
  BY SeriesNames DEF SeriesStates, GaugeInv, GaugeTypes
<1>3. GaugeTypes'
  BY <1>1, <1>2 DEF GaugeInv, GaugeTypes
<1>4. GaugeTells'
  <2> SUFFICES ASSUME NEW i \in 1..5
               PROVE  (Series[i] \in lit <=>
                        Series[i] = IF stage = "observing" /\ i < setting
                                      THEN result.state ELSE shown)'
    BY DEF GaugeTells
  <2>1. setting \in 1..5 /\ (i # setting => Series[i] # Series[setting])
    BY DEF GaugeInv, GaugeTypes, Series
  <2>2. Series[i] \in lit <=> Series[i] = IF i < setting THEN result.state ELSE shown
    BY <1>1 DEF GaugeInv, GaugeTells
  <2>3. CASE i = setting
    BY <1>1, <2>1, <2>3
  <2>4. CASE i < setting
    BY <1>1, <2>1, <2>2, <2>4
  <2>5. CASE i > setting
    BY <1>1, <2>1, <2>2, <2>5
  <2>6. QED
    BY <2>1, <2>3, <2>4, <2>5
<1>5. ScrapeReads'
  BY <1>1 DEF GaugeInv, ScrapeReads
<1>6. QED
  BY <1>3, <1>4, <1>5 DEF GaugeInv

(* Observe has the result of a check.                                       *)
LEMMA ObserveKeepsGauge == GaugeInv /\ Observe => GaugeInv'
<1> SUFFICES ASSUME GaugeInv, Observe PROVE GaugeInv'
  OBVIOUS
<1>1. PICK s \in State :
        /\ stage = "checking" /\ stage' = "observing" /\ setting' = 1
        /\ result' = [result EXCEPT !.state = s]
        /\ meant' = IF scrape.reading THEN meant \cup {s} ELSE meant
        /\ UNCHANGED <<clock, lit, scrape, shown>>
  BY DEF Observe
<1>2. result' \in Result /\ result'.state = s
  BY <1>1 DEF GaugeInv, GaugeTypes, Result
<1>3. GaugeTypes'
  BY <1>1, <1>2 DEF GaugeInv, GaugeTypes
<1>4. GaugeTells'
  BY <1>1 DEF GaugeInv, GaugeTypes, GaugeTells
<1>5. ScrapeReads'
  <2>1. CASE scrape.reading
    <3>1. /\ shown \in meant' /\ s \in meant' /\ meant' \subseteq State \cup {"none"}
          /\ scrape.ones \subseteq meant'
      BY <1>1, <2>1 DEF GaugeInv, ScrapeReads
    <3>2. ASSUME NEW m, meant' = {m}
          PROVE  scrape.ones = {m} \ (scrape.left \cup {"none"})
      <4>1. meant = {m}
        BY <1>1, <2>1, <3>2 DEF GaugeInv, ScrapeReads
      <4>2. QED
        BY <2>1, <4>1 DEF GaugeInv, ScrapeReads
    <3>3. QED
      BY <1>1, <1>2, <2>1, <3>1, <3>2 DEF ScrapeReads
  <2>2. CASE ~scrape.reading
    BY <1>1, <2>2 DEF GaugeInv, ScrapeReads
  <2>3. QED
    BY <2>1, <2>2
<1>6. QED
  BY <1>3, <1>4, <1>5 DEF GaugeInv

(* Steps that set no series and of no scrape.                               *)
GaugeSame == UNCHANGED <<setting, lit, scrape, shown, meant>>
LEMMA SameKeepsGauge ==
  ASSUME GaugeInv, GaugeSame, clock' \in Nat, result' \in Result,
         \/ UNCHANGED <<stage, result>>
         \/ /\ stage # "observing"
            /\ stage' \in {"idle", "checking", "recording", "counting"}
  PROVE  GaugeInv'
<1>1. UNCHANGED <<stage, result>> \/ (stage # "observing" /\ stage' # "observing")
  OBVIOUS
<1>2. GaugeTypes'
  BY DEF GaugeInv, GaugeTypes, GaugeSame
<1>3. GaugeTells'
  BY <1>1 DEF GaugeInv, GaugeTells, GaugeSame
<1>4. ScrapeReads'
  BY <1>1 DEF GaugeInv, ScrapeReads, GaugeSame
<1>5. QED
  BY <1>2, <1>3, <1>4 DEF GaugeInv

(* The steps of perform outside Observe, and time.                          *)
LEMMA PerformKeepsGauge ==
  GaugeInv /\ (Tick \/ BeginCheck \/ Record \/ CountAlert \/ RecordFails) => GaugeInv'
<1> SUFFICES ASSUME GaugeInv, Tick \/ BeginCheck \/ Record \/ CountAlert \/ RecordFails
             PROVE  GaugeInv'
  OBVIOUS
<1>1. clock \in Nat /\ result \in Result
  BY DEF GaugeInv, GaugeTypes
<1>2. CASE Tick
  <2>1. clock' = clock + 1 /\ UNCHANGED <<stage, result>> /\ GaugeSame
    BY <1>2 DEF Tick, GaugeSame, check, metrics, ghosts
  <2>2. QED
    BY <1>1, <2>1, SameKeepsGauge
<1>3. CASE BeginCheck
  <2>1. result' \in Result
    BY <1>1, <1>3 DEF BeginCheck, Result, NewRow
  <2>2. QED
    BY <1>1, <1>3, <2>1, SameKeepsGauge DEF BeginCheck, GaugeSame, ghosts, metrics
<1>4. CASE Record
  BY <1>1, <1>4, SameKeepsGauge DEF Record, GaugeSame, ghosts, metrics
<1>5. CASE CountAlert
  BY <1>1, <1>5, SameKeepsGauge DEF CountAlert, GaugeSame, ghosts
<1>6. CASE RecordFails
  BY <1>1, <1>6, SameKeepsGauge DEF RecordFails, GaugeSame, ghosts
<1>7. QED
  BY <1>2, <1>3, <1>4, <1>5, <1>6

(* A status request reads tables only.                                      *)
LEMMA StatusChangesRequest ==
  Status => UNCHANGED <<clock, tables, check, metrics, reader, scrape, ghosts>>
BY DEF Status, QueryLatest, ReadClock, QueryCounts, QueryTransitions, QueryFails, Answer, Query

LEMMA StatusKeepsGauge == GaugeInv /\ Status => GaugeInv'
<1> SUFFICES ASSUME GaugeInv, Status PROVE GaugeInv'
  OBVIOUS
<1>1. UNCHANGED <<clock, check, metrics, scrape, ghosts>>
  BY StatusChangesRequest
<1>2. clock' \in Nat /\ result' \in Result
  BY <1>1 DEF GaugeInv, GaugeTypes, check
<1>3. QED
  BY <1>1, <1>2, SameKeepsGauge DEF GaugeSame, check, metrics, ghosts

(* A scrape begins with what the gauge tells, or is about to tell.          *)
LEMMA BeginScrapeKeepsGauge == GaugeInv /\ BeginScrape => GaugeInv'
<1> SUFFICES ASSUME GaugeInv, BeginScrape PROVE GaugeInv'
  OBVIOUS
<1> USE DEF BeginScrape, check, metrics, GaugeInv
<1>1. scrape' = [reading |-> TRUE, left |-> SeriesStates, ones |-> {}]
  OBVIOUS
<1>2. GaugeTypes'
  BY <1>1 DEF GaugeTypes
<1>3. GaugeTells'
  BY DEF GaugeTells
<1>4. ScrapeReads'
  <2>1. meant' \subseteq State \cup {"none"}
    BY DEF GaugeTypes
  <2>2. ASSUME NEW m, meant' = {m} PROVE {} = {m} \ (SeriesStates \cup {"none"})
    BY <2>1, <2>2, SeriesNames
  <2>3. QED
    BY <1>1, <2>1, <2>2 DEF ScrapeReads
<1>5. QED
  BY <1>2, <1>3, <1>4

(* The series of s is read: it is 1 only for a state in meant.              *)
LEMMA ReadSeriesKeepsGauge == GaugeInv /\ ReadSeries => GaugeInv'
<1> SUFFICES ASSUME GaugeInv, ReadSeries PROVE GaugeInv'
  OBVIOUS
<1>1. PICK s \in scrape.left :
        scrape' = [scrape EXCEPT !.left = @ \ {s}, !.ones = @ \cup ({s} \cap lit)]
  BY DEF ReadSeries
<1>2. UNCHANGED <<clock, stage, result, setting, lit, shown, meant>>
  BY DEF ReadSeries, check, metrics, ghosts
<1>3. scrape \in [reading : BOOLEAN, left : SUBSET SeriesStates, ones : SUBSET SeriesStates]
      /\ s \in SeriesStates
  BY DEF GaugeInv, GaugeTypes
<1>4. scrape' = [reading |-> scrape.reading, left |-> scrape.left \ {s},
                 ones |-> scrape.ones \cup ({s} \cap lit)]
  BY <1>1, <1>3
<1>5. GaugeTypes'
  BY <1>2, <1>3, <1>4 DEF GaugeInv, GaugeTypes
<1>6. GaugeTells'
  BY <1>2 DEF GaugeInv, GaugeTells
<1>7. ScrapeReads'
  <2>1. scrape.reading
    BY <1>1 DEF GaugeInv, ScrapeReads
  <2>2. PICK i \in 1..5 : Series[i] = s
    BY <1>3, SeriesNames DEF SeriesStates, Series
  <2>3. s \in lit <=> s = IF stage = "observing" /\ i < setting THEN result.state ELSE shown
    BY <2>2 DEF GaugeInv, GaugeTells
  <2>4. s \in lit => s \in meant
    BY <2>1, <2>3 DEF GaugeInv, ScrapeReads
  <2>5. ASSUME NEW m, meant = {m}
        PROVE  scrape.ones \cup ({s} \cap lit) = {m} \ ((scrape.left \ {s}) \cup {"none"})
    <3>1. scrape.ones = {m} \ (scrape.left \cup {"none"})
      BY <2>1, <2>5 DEF GaugeInv, ScrapeReads
    <3>2. s \in lit <=> s = m
      BY <2>1, <2>3, <2>5 DEF GaugeInv, ScrapeReads
    <3>3. s # "none"
      BY <1>3, SeriesNames
    <3>4. QED
      BY <3>1, <3>2, <3>3
  <2>6. QED
    BY <1>2, <1>4, <2>1, <2>4, <2>5 DEF GaugeInv, ScrapeReads
<1>8. QED
  BY <1>5, <1>6, <1>7 DEF GaugeInv

(* The scrape is answered.                                                  *)
LEMMA EndScrapeKeepsGauge == GaugeInv /\ EndScrape => GaugeInv'
<1> SUFFICES ASSUME GaugeInv, EndScrape PROVE GaugeInv'
  OBVIOUS
<1> USE DEF EndScrape, check, metrics, GaugeInv
<1>1. scrape' = NoScrape
  OBVIOUS
<1>2. GaugeTypes'
  BY <1>1 DEF GaugeTypes, NoScrape
<1>3. GaugeTells' /\ ScrapeReads'
  BY <1>1 DEF GaugeTells, ScrapeReads, NoScrape
<1>4. QED
  BY <1>2, <1>3

(* Every step of checks, requests and scrapes keeps the gauge's promise.     *)
LEMMA GaugeStep == GaugeInv /\ [Next]_vars => GaugeInv'
<1> SUFFICES ASSUME GaugeInv, [Next]_vars PROVE GaugeInv'
  OBVIOUS
<1>1. CASE UNCHANGED vars
  BY <1>1 DEF vars, check, metrics, ghosts, GaugeInv, GaugeTypes, GaugeTells, ScrapeReads
<1>2. CASE Perform \/ Tick
  BY <1>2, SetSeriesKeepsGauge, ObserveKeepsGauge, PerformKeepsGauge DEF Perform
<1>3. CASE Status
  BY <1>3, StatusKeepsGauge
<1>4. CASE Scrape
  BY <1>4, BeginScrapeKeepsGauge, ReadSeriesKeepsGauge, EndScrapeKeepsGauge DEF Scrape
<1>5. QED
  BY <1>1, <1>2, <1>3, <1>4 DEF Next

(* The series written by Observe and those read by a scrape, at any moment. *)
THEOREM GaugeInvariant == Spec => []GaugeInv
BY GaugeInit, GaugeStep, PTL DEF Spec

(* Metrics.Observe against a scrape: whatever is observed while the series  *)
(* are read, the scrape shows only states the gauge was to show, and that   *)
(* state when there was but one.                                            *)
THEOREM ScrapesTellStates == Spec => []ScrapeTellsState
<1>1. GaugeInv => ScrapeTellsState
  <2> SUFFICES ASSUME GaugeInv, scrape.reading, scrape.left = {}
               PROVE  /\ scrape.ones \subseteq meant
                      /\ Cardinality(meant) = 1 => scrape.ones = meant \ {"none"}
    BY DEF ScrapeTellsState
  <2>1. meant \subseteq SeriesStates \cup {"none"}
    BY SeriesNames DEF GaugeInv, ScrapeReads
  <2>2. IsFiniteSet(meant)
    <3>1. IsFiniteSet({"Healthy", "Degraded", "Unavailable", "Maintenance", "Unknown", "none"})
      <4>1. /\ IsFiniteSet({"Healthy"}) /\ IsFiniteSet({"Healthy"} \cup {"Degraded"})
            /\ IsFiniteSet({"Healthy"} \cup {"Degraded"} \cup {"Unavailable"})
        BY FS_Singleton, FS_AddElement
      <4>2. IsFiniteSet({"Healthy"} \cup {"Degraded"} \cup {"Unavailable"} \cup {"Maintenance"})
        BY <4>1, FS_AddElement
      <4>3. IsFiniteSet({"Healthy"} \cup {"Degraded"} \cup {"Unavailable"} \cup {"Maintenance"}
                        \cup {"Unknown"} \cup {"none"})
        BY <4>2, FS_AddElement
      <4>4. {"Healthy", "Degraded", "Unavailable", "Maintenance", "Unknown", "none"} =
              {"Healthy"} \cup {"Degraded"} \cup {"Unavailable"} \cup {"Maintenance"}
                \cup {"Unknown"} \cup {"none"}
        OBVIOUS
      <4>5. QED
        BY <4>3, <4>4
    <3>2. meant \in SUBSET {"Healthy", "Degraded", "Unavailable", "Maintenance", "Unknown", "none"}
      BY <2>1, SeriesNames
    <3>3. QED
      BY <3>1, <3>2, FS_Subset
  <2>3. Cardinality(meant) = 1 => \E m : meant = {m}
    BY <2>2, FS_Singleton
  <2>4. QED
    BY <2>3 DEF GaugeInv, ScrapeReads
<1>2. QED
  BY <1>1, GaugeInvariant, PTL

-----------------------------------------------------------------------------
(* What is counted and not yet stored, or stored and not yet counted.       *)
Due == stage \in {"observing", "recording"}
One(b) == IF b THEN 1 ELSE 0
Stored(s) == {r \in results : r.state = s}

CountTypes ==
  /\ stage \in {"idle", "checking", "observing", "recording", "counting"}
  /\ result.id \in Nat
  /\ Due => result.state \in State
  /\ checks \in [State -> Nat] /\ alerted \in Nat /\ errors \in Nat
  /\ IsFiniteSet(results) /\ IsFiniteSet(alerts)

(* The identifier of a check under way is new.                              *)
Numbered ==
  \A r \in results :
    r.id \in Nat /\ r.id <= result.id /\ (stage = "checking" \/ Due => r.id < result.id)

Balanced ==
  /\ \A s \in State :
       LET due == One(Due /\ result.state = s)
       IN  /\ Cardinality(Stored(s)) + due <= checks[s]
           /\ checks[s] <= Cardinality(Stored(s)) + due + errors
  /\ result.id <= Cardinality(results) + errors + One(stage = "checking" \/ Due)
  /\ Cardinality(alerts) <= alerted + errors + One(stage = "counting")

CountInv == GaugeInv /\ CountTypes /\ Numbered /\ Balanced

(* The rows can be counted.                                                 *)
LEMMA CountsAreNumbers ==
  ASSUME CountTypes
  PROVE  /\ Cardinality(results) \in Nat /\ Cardinality(alerts) \in Nat
         /\ \A s : Cardinality(Stored(s)) \in Nat
<1>1. \A s : IsFiniteSet(Stored(s))
  <2> SUFFICES ASSUME NEW s PROVE IsFiniteSet(Stored(s))
    OBVIOUS
  <2>1. Stored(s) \in SUBSET results
    BY DEF Stored
  <2>2. QED
    BY <2>1, FS_Subset DEF CountTypes
<1>2. QED
  BY <1>1, FS_CardinalityType DEF CountTypes

(* Nothing is counted and nothing stored.                                   *)
LEMMA CountInit == Init => CountInv
<1> SUFFICES ASSUME Init PROVE CountInv
  OBVIOUS
<1> USE DEF Init
<1>1. result.id = 0 /\ result.state = "Unknown"
  BY DEF NoRow, NewRow
<1>2. IsFiniteSet({}) /\ Cardinality({}) = 0
  BY FS_EmptySet
<1>3. CountTypes
  BY <1>1, <1>2 DEF CountTypes, Due
<1>4. Numbered
  BY DEF Numbered
<1>5. Balanced
  <2>1. \A s : Stored(s) = {}
    BY DEF Stored
  <2>2. QED
    BY <1>1, <1>2, <2>1 DEF Balanced, Due, One
<1>6. QED
  BY <1>3, <1>4, <1>5, GaugeInit DEF CountInv

(* Steps that touch neither rows nor counters, and between which nothing    *)
(* becomes due.                                                             *)
LEMMA SameKeepsCounts ==
  ASSUME CountInv, GaugeInv', UNCHANGED <<tables, checks, alerted, errors, result>>,
         UNCHANGED stage \/ (stage = "observing" /\ stage' = "recording")
  PROVE  CountInv'
<1>1. Due' <=> Due
  BY DEF Due
<1>2. CountTypes' /\ Numbered'
  BY <1>1 DEF CountInv, CountTypes, Numbered, tables
<1>3. \A s : Stored(s)' = Stored(s)
  BY DEF Stored, tables
<1>4. Balanced'
  BY <1>1, <1>3 DEF CountInv, Balanced, tables
<1>5. QED
  BY <1>2, <1>4 DEF CountInv

(* A check begins, with the next identifier.                                *)
LEMMA BeginCheckKeepsCounts == CountInv /\ GaugeInv' /\ BeginCheck => CountInv'
<1> SUFFICES ASSUME CountInv, GaugeInv', BeginCheck PROVE CountInv'
  OBVIOUS
<1>1. /\ stage = "idle" /\ stage' = "checking" /\ result'.id = result.id + 1
      /\ UNCHANGED <<results, alerts, checks, alerted, errors>>
  BY DEF BeginCheck, NewRow, tables, metrics
<1>2. ~Due /\ ~Due'
  BY <1>1 DEF Due
<1>3. CountTypes'
  BY <1>1, <1>2 DEF CountInv, CountTypes
<1>4. Numbered'
  <2>1. \A r \in results : r.id \in Nat /\ r.id <= result.id
    BY DEF CountInv, Numbered
  <2>2. \A r \in results : r.id \in Nat /\ r.id < result'.id /\ r.id <= result'.id
    BY <1>1, <2>1 DEF CountInv, CountTypes
  <2>3. QED
    BY <1>1, <2>2 DEF Numbered
<1>5. Balanced'
  <2>1. \A s : Stored(s)' = Stored(s)
    BY <1>1 DEF Stored
  <2>2. \A s \in State : /\ Cardinality(Stored(s)) <= checks[s]
                        /\ checks[s] <= Cardinality(Stored(s)) + errors
    BY <1>2, CountsAreNumbers DEF CountInv, CountTypes, Balanced, One
  <2>3. result.id <= Cardinality(results) + errors /\ Cardinality(alerts) <= alerted + errors
    BY <1>1, <1>2, CountsAreNumbers DEF CountInv, CountTypes, Balanced, One
  <2>4. QED
    BY <1>1, <1>2, <2>1, <2>2, <2>3, CountsAreNumbers DEF CountInv, CountTypes, Balanced, One
<1>6. QED
  BY <1>3, <1>4, <1>5 DEF CountInv

(* Observe counts the check under its state; its row is due.                *)
LEMMA ObserveKeepsCounts == CountInv /\ GaugeInv' /\ Observe => CountInv'
<1> SUFFICES ASSUME CountInv, GaugeInv', Observe PROVE CountInv'
  OBVIOUS
<1>1. PICK s \in State :
        /\ stage = "checking" /\ stage' = "observing"
        /\ result' = [result EXCEPT !.state = s] /\ checks' = [checks EXCEPT ![s] = @ + 1]
        /\ UNCHANGED <<results, alerts, alerted, errors>>
  BY DEF Observe, tables
<1>2. result'.state = s /\ result'.id = result.id
  BY <1>1 DEF CountInv, GaugeInv, GaugeTypes, Result
<1>3. ~Due /\ Due'
  BY <1>1 DEF Due
<1>4. CountTypes'
  BY <1>1, <1>2 DEF CountInv, CountTypes
<1>5. Numbered'
  BY <1>1, <1>2, <1>3 DEF CountInv, Numbered
<1>6. Balanced'
  <2>1. \A t : Stored(t)' = Stored(t)
    BY <1>1 DEF Stored
  <2>2. \A t \in State : /\ Cardinality(Stored(t)) <= checks[t]
                        /\ checks[t] <= Cardinality(Stored(t)) + errors
    BY <1>3, CountsAreNumbers DEF CountInv, CountTypes, Balanced, One
  <2>3. ASSUME NEW t \in State
        PROVE  LET due == One(Due' /\ result'.state = t)
               IN  /\ Cardinality(Stored(t)) + due <= checks'[t]
                   /\ checks'[t] <= Cardinality(Stored(t)) + due + errors
    <3>1. checks'[t] = checks[t] + One(t = s)
      BY <1>1 DEF CountInv, CountTypes, One
    <3>2. One(Due' /\ result'.state = t) = One(t = s) /\ One(t = s) \in {0, 1}
      BY <1>2, <1>3 DEF One
    <3>3. checks[t] \in Nat /\ errors \in Nat /\ Cardinality(Stored(t)) \in Nat
      BY CountsAreNumbers DEF CountInv, CountTypes
    <3>4. QED
      BY <2>2, <3>1, <3>2, <3>3
  <2>4. /\ result.id <= Cardinality(results) + errors + 1
        /\ Cardinality(alerts) <= alerted + errors + 0
    BY <1>1 DEF CountInv, Balanced, One
  <2>5. /\ (result.id <= Cardinality(results) + errors + One(stage = "checking" \/ Due))'
        /\ (Cardinality(alerts) <= alerted + errors + One(stage = "counting"))'
    BY <1>1, <1>2, <1>3, <2>4 DEF One
  <2>6. QED
    BY <1>1, <2>1, <2>3, <2>5 DEF Balanced
<1>7. QED
  BY <1>4, <1>5, <1>6 DEF CountInv

(* A commit adds one row, one under the state of the result, and at most    *)
(* one alert.                                                               *)
LEMMA CommitCounts ==
  ASSUME CountInv, Due, Commit
  PROVE  /\ IsFiniteSet(results') /\ IsFiniteSet(alerts')
         /\ Cardinality(results') = Cardinality(results) + 1
         /\ \A s \in State :
              Cardinality(Stored(s)') = Cardinality(Stored(s)) + One(result.state = s)
         /\ Cardinality(alerts') <= Cardinality(alerts) + One(NewAlerts # {})
         /\ \A r \in results' : r.id \in Nat /\ r.id <= result.id
<1>1. results' = results \cup {result} /\ alerts' = alerts \cup NewAlerts
  BY DEF Commit
<1>2. result \notin results /\ IsFiniteSet(results) /\ IsFiniteSet(alerts) /\ result.id \in Nat
  BY DEF CountInv, CountTypes, Numbered
<1>3. IsFiniteSet(results') /\ Cardinality(results') = Cardinality(results) + 1
  BY <1>1, <1>2, FS_AddElement
<1>4. ASSUME NEW s \in State
      PROVE  Cardinality(Stored(s)') = Cardinality(Stored(s)) + One(result.state = s)
  <2>1. Cardinality(Stored(s)) \in Nat
    BY CountsAreNumbers DEF CountInv
  <2>2. CASE result.state = s
    <3>1. Stored(s)' = Stored(s) \cup {result} /\ result \notin Stored(s)
      BY <1>1, <1>2, <2>2 DEF Stored
    <3>2. IsFiniteSet(Stored(s))
      <4>1. Stored(s) \in SUBSET results
        BY DEF Stored
      <4>2. QED
        BY <1>2, <4>1, FS_Subset
    <3>3. Cardinality(Stored(s) \cup {result}) = Cardinality(Stored(s)) + 1
      BY <3>1, <3>2, FS_AddElement
    <3>4. QED
      BY <2>2, <3>1, <3>3 DEF One
  <2>3. CASE result.state # s
    <3>1. Stored(s)' = Stored(s)
      BY <1>1, <2>3 DEF Stored
    <3>2. QED
      BY <2>1, <2>3, <3>1 DEF One
  <2>4. QED
    BY <2>2, <2>3
<1>5. IsFiniteSet(alerts') /\ Cardinality(alerts') <= Cardinality(alerts) + One(NewAlerts # {})
  <2>1. Cardinality(alerts) \in Nat
    BY CountsAreNumbers DEF CountInv
  <2>2. CASE NewAlerts = {}
    BY <1>1, <1>2, <2>1, <2>2 DEF One
  <2>3. CASE NewAlerts # {}
    <3>1. PICK a : NewAlerts = {a}
      BY <2>3 DEF NewAlerts, AlertRows
    <3>2. IsFiniteSet(alerts \cup {a})
      BY <1>2, FS_AddElement
    <3>3. Cardinality(alerts \cup {a}) =
            IF a \in alerts THEN Cardinality(alerts) ELSE Cardinality(alerts) + 1
      BY <1>2, FS_AddElement, Zenon
    <3>4. alerts' = alerts \cup {a} /\ One(NewAlerts # {}) = 1
      BY <1>1, <2>3, <3>1 DEF One
    <3>5. QED
      BY <2>1, <3>2, <3>3, <3>4
  <2>4. QED
    BY <2>2, <2>3
<1>6. \A r \in results' : r.id \in Nat /\ r.id <= result.id
  BY <1>1, <1>2 DEF CountInv, Numbered
<1>7. QED
  BY <1>3, <1>4, <1>5, <1>6

(* The row is stored, and the alert, if there is one, is to be counted.     *)
LEMMA RecordKeepsCounts == CountInv /\ GaugeInv' /\ Record => CountInv'
<1> SUFFICES ASSUME CountInv, GaugeInv', Record PROVE CountInv'
  OBVIOUS
<1>1. /\ stage = "recording" /\ Commit
      /\ stage' = IF NewAlerts = {} THEN "idle" ELSE "counting"
      /\ UNCHANGED <<result, checks, alerted, errors>>
  BY DEF Record, metrics
<1>2. Due /\ ~Due' /\ stage' # "checking"
  BY <1>1 DEF Due
<1>3. CountTypes'
  BY <1>1, <1>2, CommitCounts DEF CountInv, CountTypes
<1>4. Numbered'
  BY <1>1, <1>2, CommitCounts DEF Numbered
<1>5. ASSUME NEW s \in State
      PROVE  /\ Cardinality(Stored(s)') + 0 <= checks[s]
             /\ checks[s] <= Cardinality(Stored(s)') + 0 + errors
  <2>1. Cardinality(Stored(s)') = Cardinality(Stored(s)) + One(result.state = s)
    BY <1>1, <1>2, CommitCounts
  <2>2. /\ Cardinality(Stored(s)) + One(result.state = s) <= checks[s]
        /\ checks[s] <= Cardinality(Stored(s)) + One(result.state = s) + errors
    BY <1>2 DEF CountInv, Balanced, One
  <2>3. /\ Cardinality(Stored(s)) \in Nat /\ One(result.state = s) \in Nat
        /\ checks[s] \in Nat /\ errors \in Nat
    BY CountsAreNumbers DEF CountInv, CountTypes, One
  <2>4. QED
    BY <2>1, <2>2, <2>3
<1>6. result.id <= Cardinality(results') + errors + 0
  <2>1. result.id <= Cardinality(results) + errors + 1
    BY <1>2 DEF CountInv, Balanced, One
  <2>2. QED
    BY <1>1, <1>2, <2>1, CommitCounts, CountsAreNumbers DEF CountInv, CountTypes
<1>7. Cardinality(alerts') <= alerted + errors + One(stage' = "counting")
  <2>1. Cardinality(alerts) <= alerted + errors + 0
    BY <1>1 DEF CountInv, Balanced, One
  <2>2. Cardinality(alerts') <= Cardinality(alerts) + One(NewAlerts # {})
    BY <1>1, <1>2, CommitCounts
  <2>3. One(stage' = "counting") = One(NewAlerts # {}) /\ One(NewAlerts # {}) \in Nat
    BY <1>1 DEF One
  <2>4. Cardinality(alerts') \in Nat /\ Cardinality(alerts) \in Nat
    BY <1>1, <1>2, CommitCounts, CountsAreNumbers, FS_CardinalityType DEF CountInv
  <2>5. QED
    BY <2>1, <2>2, <2>3, <2>4 DEF CountInv, CountTypes
<1>8. Balanced'
  BY <1>1, <1>2, <1>5, <1>6, <1>7 DEF Balanced, One
<1>9. QED
  BY <1>3, <1>4, <1>8 DEF CountInv

(* Metrics.Alert makes good what the commit left uncounted.                 *)
LEMMA CountAlertKeepsCounts == CountInv /\ GaugeInv' /\ CountAlert => CountInv'
<1> SUFFICES ASSUME CountInv, GaugeInv', CountAlert PROVE CountInv'
  OBVIOUS
<1>1. /\ stage = "counting" /\ stage' = "idle" /\ alerted' = alerted + 1
      /\ UNCHANGED <<results, alerts, result, checks, errors>>
  BY DEF CountAlert, tables
<1>2. ~Due /\ ~Due'
  BY <1>1 DEF Due
<1>3. CountTypes' /\ Numbered'
  BY <1>1, <1>2 DEF CountInv, CountTypes, Numbered
<1>4. Balanced'
  <2>1. \A s : Stored(s)' = Stored(s)
    BY <1>1 DEF Stored
  <2>2. Cardinality(alerts) <= alerted + errors + 1
    BY <1>1 DEF CountInv, Balanced, One
  <2>3. Cardinality(alerts) <= alerted + 1 + errors + 0
    BY <2>2, CountsAreNumbers DEF CountInv, CountTypes
  <2>4. QED
    BY <1>1, <1>2, <2>1, <2>3 DEF CountInv, Balanced, One
<1>5. QED
  BY <1>3, <1>4 DEF CountInv

(* The error makes good for a row that was not stored, and for an alert     *)
(* that was.                                                                *)
LEMMA RecordFailsKeepsCounts == CountInv /\ GaugeInv' /\ RecordFails => CountInv'
<1> SUFFICES ASSUME CountInv, GaugeInv', RecordFails PROVE CountInv'
  OBVIOUS
<1>1. /\ stage = "recording" /\ stage' = "idle" /\ errors' = errors + 1
      /\ Commit \/ UNCHANGED <<results, alerts>>
      /\ UNCHANGED <<result, checks, alerted>>
  BY DEF RecordFails, tables
<1>2. Due /\ ~Due'
  BY <1>1 DEF Due
<1>3. /\ \A s \in State : /\ Cardinality(Stored(s)) + One(result.state = s) <= checks[s]
                          /\ checks[s] <= Cardinality(Stored(s)) + One(result.state = s) + errors
      /\ result.id <= Cardinality(results) + errors + 1
      /\ Cardinality(alerts) <= alerted + errors + 0
  BY <1>1, <1>2 DEF CountInv, Balanced, One
<1>4. \A b \in BOOLEAN : One(b) \in {0, 1}
  BY DEF One
<1>5. /\ result.id \in Nat /\ alerted \in Nat /\ errors \in Nat /\ checks \in [State -> Nat]
      /\ Cardinality(results) \in Nat /\ Cardinality(alerts) \in Nat
      /\ \A s : Cardinality(Stored(s)) \in Nat
  BY CountsAreNumbers DEF CountInv, CountTypes
(* With the rows or without, as many rows and alerts as that leaves.        *)
<1>6. /\ IsFiniteSet(results') /\ IsFiniteSet(alerts')
      /\ \A s \in State :
           \/ Cardinality(Stored(s)') = Cardinality(Stored(s)) + One(result.state = s)
           \/ Cardinality(Stored(s)') = Cardinality(Stored(s))
      /\ Cardinality(results') >= Cardinality(results)
      /\ Cardinality(alerts') <= Cardinality(alerts) + 1
      /\ \A r \in results' : r.id \in Nat /\ r.id <= result.id
  <2>1. CASE Commit
    <3>1. Cardinality(alerts') \in Nat
      BY <1>2, <2>1, CommitCounts, FS_CardinalityType
    <3>2. Cardinality(alerts') <= Cardinality(alerts) + 1
      <4>1. /\ Cardinality(alerts') <= Cardinality(alerts) + One(NewAlerts # {})
            /\ One(NewAlerts # {}) \in {0, 1}
        BY <1>2, <1>4, <2>1, CommitCounts
      <4>2. QED
        BY <1>5, <3>1, <4>1
    <3>3. Cardinality(results') >= Cardinality(results)
      BY <1>2, <1>5, <2>1, CommitCounts
    <3>4. QED
      BY <1>2, <2>1, <3>2, <3>3, CommitCounts
  <2>2. CASE UNCHANGED <<results, alerts>>
    <3>1. \A s : Stored(s)' = Stored(s)
      BY <2>2 DEF Stored
    <3>2. \A r \in results : r.id \in Nat /\ r.id <= result.id
      BY DEF CountInv, Numbered
    <3>3. QED
      BY <1>5, <2>2, <3>1, <3>2 DEF CountInv, CountTypes
  <2>3. QED
    BY <1>1, <2>1, <2>2
<1>7. CountTypes' /\ Numbered'
  BY <1>1, <1>2, <1>5, <1>6 DEF CountTypes, Numbered
<1>8. ASSUME NEW s \in State
      PROVE  /\ Cardinality(Stored(s)') + 0 <= checks[s]
             /\ checks[s] <= Cardinality(Stored(s)') + 0 + (errors + 1)
  <2>1. One(result.state = s) \in {0, 1} /\ checks[s] \in Nat /\ Cardinality(Stored(s)) \in Nat
    BY <1>4, <1>5
  <2>2. /\ Cardinality(Stored(s)) + One(result.state = s) <= checks[s]
        /\ checks[s] <= Cardinality(Stored(s)) + One(result.state = s) + errors
    BY <1>3
  <2>3. \/ Cardinality(Stored(s)') = Cardinality(Stored(s)) + One(result.state = s)
        \/ Cardinality(Stored(s)') = Cardinality(Stored(s))
    BY <1>6
  <2>4. QED
    BY <1>5, <2>1, <2>2, <2>3
<1>9. /\ result.id <= Cardinality(results') + (errors + 1) + 0
      /\ Cardinality(alerts') <= alerted + (errors + 1) + 0
  <2>1. Cardinality(results') \in Nat /\ Cardinality(alerts') \in Nat
    BY <1>6, FS_CardinalityType
  <2>2. QED
    BY <1>3, <1>5, <1>6, <2>1
<1>10. Balanced'
  BY <1>1, <1>2, <1>8, <1>9 DEF Balanced, One
<1>11. QED
  BY <1>7, <1>10 DEF CountInv

(* Perform and its readers: every step keeps the account.                   *)
LEMMA CountStep == CountInv /\ [Next]_vars => CountInv'
<1> SUFFICES ASSUME CountInv, [Next]_vars PROVE CountInv'
  OBVIOUS
<1>1. GaugeInv'
  BY GaugeStep DEF CountInv
<1>2. CASE BeginCheck \/ Observe \/ Record \/ CountAlert \/ RecordFails
  BY <1>1, <1>2, BeginCheckKeepsCounts, ObserveKeepsCounts, RecordKeepsCounts,
     CountAlertKeepsCounts, RecordFailsKeepsCounts
<1>3. CASE SetSeries
  <2>1. /\ UNCHANGED <<tables, checks, alerted, errors, result>>
        /\ stage = "observing" /\ stage' \in {"observing", "recording"}
    BY <1>3 DEF SetSeries
  <2>2. QED
    BY <1>1, <2>1, SameKeepsCounts
<1>4. CASE Tick \/ Scrape \/ UNCHANGED vars
  <2>1. UNCHANGED <<tables, checks, alerted, errors, result, stage>>
    BY <1>4 DEF Tick, Scrape, BeginScrape, ReadSeries, EndScrape, check, metrics, vars
  <2>2. QED
    BY <1>1, <2>1, SameKeepsCounts
<1>5. CASE Status
  <2>1. UNCHANGED <<tables, checks, alerted, errors, result, stage>>
    BY <1>5, StatusChangesRequest DEF check, metrics
  <2>2. QED
    BY <1>1, <2>1, SameKeepsCounts
<1>6. QED
  BY <1>2, <1>3, <1>4, <1>5 DEF Next, Perform

(* The counters and the tables, at any moment.                              *)
THEOREM CountInvariant == Spec => []CountInv
BY CountInit, CountStep, PTL DEF Spec

(* Observe, Alert and StorageError against RecordResult: between checks the *)
(* counters account for every row, whatever was lost on the way.            *)
THEOREM CountersAccountForRows == Spec => []CountersAccount
<1>1. CountInv => CountersAccount
  <2> SUFFICES ASSUME CountInv, stage = "idle"
               PROVE  /\ \A s \in State : /\ Cardinality(Stored(s)) <= checks[s]
                                          /\ checks[s] <= Cardinality(Stored(s)) + errors
                      /\ result.id <= Cardinality(results) + errors
                      /\ Cardinality(alerts) <= alerted + errors
    BY DEF CountersAccount, Stored
  <2>1. ~Due
    BY DEF Due
  <2>2. QED
    BY <2>1, CountsAreNumbers DEF CountInv, CountTypes, Balanced, One
<1>2. QED
  BY <1>1, CountInvariant, PTL

-----------------------------------------------------------------------------
(* The tables of the endpoint: rows in the order of their identifiers and   *)
(* times alike, and a history that ends with the latest result.             *)
ResultRow ==
  [id : 1..MaxChecks, endpoint : {TheEndpoint}, at : 1..MaxTime, state : State, latency : {0}]
TransitionRow ==
  [id : Nat, endpoint : {TheEndpoint}, at : 1..MaxTime, from : State \cup {"Unknown"}, to : State]
Pending == stage = "checking" \/ Due

TablesTyped ==
  /\ clock \in 1..MaxTime
  /\ result.id \in 0..MaxChecks /\ result.at \in 1..clock
  /\ Pending => result.id >= 1
  /\ results \subseteq ResultRow
  /\ transitions \subseteq TransitionRow /\ IsFiniteSet(transitions)
InOrder ==
  /\ Ordered(results) /\ Ordered(transitions)
  /\ \A r \in results : r.at <= result.at
  /\ \A t \in transitions :
       t.at <= result.at /\ t.id <= result.id /\ (Pending => t.id < result.id)
HistoryEnds ==
  results # {} => \E t : IsNewest(t, transitions) /\ t.to = LatestState(results, TheEndpoint)

HistoryInv == TablesTyped /\ InOrder /\ HistoryEnds

(* The history explains r as of now: HistoryExplains before the transitions *)
(* are asked for.                                                           *)
Explained(r) == \A t : IsNewest(t, transitions) => t.to = r.state \/ Before(r, t)

(* No rows yet.                                                             *)
LEMMA HistoryInit == Init => HistoryInv
<1> SUFFICES ASSUME Init PROVE HistoryInv
  OBVIOUS
<1> USE DEF Init
<1>1. result.id = 0 /\ result.at = 1
  BY DEF NoRow, NewRow
<1>2. TablesTyped
  BY <1>1, ReportingAssumption, FS_EmptySet DEF TablesTyped, Pending, Due
<1>3. InOrder /\ HistoryEnds
  BY DEF InOrder, Ordered, HistoryEnds
<1>4. QED
  BY <1>2, <1>3 DEF HistoryInv

(* Every row is of this endpoint.                                           *)
LEMMA OwnIsAll == HistoryInv => Own(results, TheEndpoint) = results
BY DEF HistoryInv, TablesTyped, ResultRow, Own

(* The latest result of a table that has any.                               *)
LEMMA LatestOfHistory ==
  ASSUME CountInv, HistoryInv, results # {}
  PROVE  \E r : /\ IsNewest(r, results)
                /\ LatestState(results, TheEndpoint) = r.state
                /\ LatestResults(results)[TheEndpoint] = r
<1>1. IsFiniteSet(results) /\ Ordered(results)
  BY DEF CountInv, CountTypes, HistoryInv, InOrder
<1>2. PICK r : IsNewest(r, results)
  BY <1>1, NewestExists
<1>3. QED
  BY <1>1, <1>2, OwnIsAll, LatestIsNewest

(* RecordResult ends the history with the result it stores, and the history *)
(* explains the results before it as it did.                                *)
LEMMA CommitKeepsHistory ==
  ASSUME CountInv, HistoryInv, Due, Commit, UNCHANGED <<clock, result>>,
         stage' \in {"idle", "counting"}
  PROVE  HistoryInv' /\ \A r \in results : Explained(r) => Explained(r)'
<1> DEFINE from == LatestState(results, TheEndpoint)
           row == [id |-> result.id, endpoint |-> TheEndpoint, at |-> result.at, from |-> from,
                   to |-> result.state]
<1>1. result \in ResultRow /\ result.state \in State /\ result.endpoint = TheEndpoint
  <2>1. result \in Result /\ result.state \in State
    BY DEF CountInv, CountTypes, GaugeInv, GaugeTypes
  <2>2. result.id \in 1..MaxChecks /\ result.at \in 1..MaxTime
    BY ReportingAssumption DEF HistoryInv, TablesTyped, Pending
  <2>3. QED
    BY <2>1, <2>2 DEF Result, ResultRow
<1>2. /\ results' = results \cup {result}
      /\ transitions' = IF from = result.state THEN transitions ELSE transitions \cup {row}
  <2>1. TransitionRows(from, result) = IF from = result.state THEN {} ELSE {row}
    BY <1>1 DEF TransitionRows
  <2>2. QED
    BY <2>1 DEF Commit
<1>3. from \in State \cup {"Unknown"} /\ (results = {} => from = "Unknown")
  <2>1. CASE results = {}
    BY <2>1 DEF LatestState
  <2>2. CASE results # {}
    <3>1. \E r \in results : from = r.state
      BY <2>2, LatestOfHistory DEF IsNewest
    <3>2. \A r \in results : r.state \in State
      BY DEF HistoryInv, TablesTyped, ResultRow
    <3>3. QED
      BY <2>2, <3>1, <3>2
  <2>3. QED
    BY <2>1, <2>2
<1>4. /\ \A r \in results : r.id \in Int /\ r.at \in Int /\ r.id < result.id /\ r.at <= result.at
      /\ \A t \in transitions :
           t.id \in Int /\ t.at \in Int /\ t.id < result.id /\ t.at <= result.at
      /\ result.id \in Int /\ result.at \in Int
  <2>1. \A r \in results : r.id < result.id
    BY DEF CountInv, Numbered
  <2>2. QED
    BY <1>1, <2>1 DEF HistoryInv, TablesTyped, InOrder, ResultRow, TransitionRow, Pending
<1>5. row \in TransitionRow /\ row.id = result.id /\ row.at = result.at /\ row.to = result.state
  BY <1>1, <1>3 DEF TransitionRow, ResultRow, HistoryInv, TablesTyped
<1>6. ~Pending'
  BY DEF Pending, Due
<1> HIDE DEF from, row
<1>7. TablesTyped'
  <2>1. IsFiniteSet(transitions \cup {row})
    BY FS_AddElement DEF HistoryInv, TablesTyped
  <2>2. results' \subseteq ResultRow /\ transitions' \subseteq TransitionRow
    BY <1>1, <1>2, <1>5 DEF HistoryInv, TablesTyped
  <2>3. IsFiniteSet(transitions')
    BY <1>2, <2>1 DEF HistoryInv, TablesTyped
  <2>4. QED
    BY <1>6, <2>2, <2>3 DEF HistoryInv, TablesTyped
<1>8. InOrder'
  <2>1. Ordered(results')
    BY <1>2, <1>4 DEF Ordered, HistoryInv, InOrder
  <2>2. Ordered(transitions')
    BY <1>2, <1>4, <1>5 DEF Ordered, HistoryInv, InOrder
  <2>3. \A r \in results' : r.at <= result.at
    BY <1>2, <1>4
  <2>4. \A t \in transitions' : t.at <= result.at /\ t.id <= result.id
    BY <1>2, <1>4, <1>5
  <2>5. QED
    BY <1>6, <2>1, <2>2, <2>3, <2>4 DEF InOrder
<1>9. LatestState(results', TheEndpoint) = result.state
  <2>1. IsNewest(result, results')
    BY <1>2, <1>4 DEF IsNewest, Before
  <2>2. Own(results', TheEndpoint) = results'
    BY <1>7 DEF TablesTyped, ResultRow, Own
  <2>3. Ordered(results')
    BY <1>8 DEF InOrder
  <2>4. QED
    BY <2>1, <2>2, <2>3, LatestIsNewest
<1>10. CASE from = result.state
  <2>1. results # {} /\ transitions' = transitions
    BY <1>1, <1>2, <1>3, <1>10, SeriesNames, ReportingAssumption
  <2>2. \E t : IsNewest(t, transitions) /\ t.to = result.state
    BY <1>10, <2>1 DEF from, HistoryInv, HistoryEnds
  <2>3. HistoryEnds'
    BY <1>9, <2>1, <2>2 DEF HistoryEnds
  <2>4. QED
    BY <1>7, <1>8, <2>1, <2>3 DEF HistoryInv, Explained
<1>11. CASE from # result.state
  <2>1. IsNewest(row, transitions')
    BY <1>2, <1>4, <1>5, <1>11 DEF IsNewest, Before
  <2>2. HistoryEnds'
    BY <1>5, <1>9, <2>1 DEF HistoryEnds
  <2>3. ASSUME NEW r \in results PROVE Explained(r)'
    <3>1. Before(r, row)
      BY <1>4, <1>5 DEF Before
    <3>2. \A t : IsNewest(t, transitions') => t = row
      BY <1>8, <2>1, NewestIsOne DEF InOrder
    <3>3. QED
      BY <3>1, <3>2 DEF Explained
  <2>4. QED
    BY <1>7, <1>8, <2>2, <2>3 DEF HistoryInv
<1>12. QED
  BY <1>10, <1>11

(* Steps that change no row: only the clock and the check go on.            *)
LEMMA SameKeepsHistory ==
  ASSUME HistoryInv, UNCHANGED <<results, transitions>>,
         clock' \in clock..MaxTime, result'.id = result.id, result'.at = result.at,
         Pending' => Pending
  PROVE  HistoryInv'
<1>1. TablesTyped'
  BY DEF HistoryInv, TablesTyped
<1>2. InOrder' /\ HistoryEnds'
  BY DEF HistoryInv, InOrder, HistoryEnds
<1>3. QED
  BY <1>1, <1>2 DEF HistoryInv

(* A check begins, no earlier than the one before it.                       *)
LEMMA BeginCheckKeepsHistory == CountInv /\ HistoryInv /\ BeginCheck => HistoryInv'
<1> SUFFICES ASSUME CountInv, HistoryInv, BeginCheck PROVE HistoryInv'
  OBVIOUS
<1>1. /\ result.id < MaxChecks /\ result'.id = result.id + 1 /\ result'.at = clock
      /\ UNCHANGED <<clock, results, transitions>>
  BY DEF BeginCheck, NewRow, tables
<1>2. TablesTyped'
  BY <1>1, ReportingAssumption DEF HistoryInv, TablesTyped
<1>3. ASSUME NEW r \in results PROVE r.at <= clock
  <2>1. r.at \in Int /\ r.at <= result.at
    BY DEF HistoryInv, TablesTyped, InOrder, ResultRow
  <2>2. QED
    BY <2>1 DEF HistoryInv, TablesTyped
<1>4. ASSUME NEW t \in transitions
      PROVE  t.at <= clock /\ t.id <= result.id + 1 /\ t.id < result.id + 1
  <2>1. t.at \in Int /\ t.id \in Int /\ t.at <= result.at /\ t.id <= result.id
    BY DEF HistoryInv, TablesTyped, InOrder, TransitionRow
  <2>2. QED
    BY <2>1 DEF HistoryInv, TablesTyped
<1>5. InOrder'
  BY <1>1, <1>3, <1>4 DEF HistoryInv, InOrder
<1>6. HistoryEnds'
  BY <1>1 DEF HistoryInv, HistoryEnds
<1>7. QED
  BY <1>2, <1>5, <1>6 DEF HistoryInv

(* Every step keeps the history, and what it explains.                      *)
LEMMA HistoryStep ==
  ASSUME CountInv, HistoryInv, [Next]_vars
  PROVE  /\ HistoryInv'
         /\ \A r \in results : r \in results' /\ (Explained(r) => Explained(r)')
<1>1. CASE Record \/ (RecordFails /\ Commit)
  <2>1. Due /\ Commit /\ UNCHANGED <<clock, result>> /\ stage' \in {"idle", "counting"}
    BY <1>1 DEF Due, Record, RecordFails
  <2>2. QED
    BY <2>1, CommitKeepsHistory DEF Commit
<1>2. CASE BeginCheck
  <2>1. UNCHANGED <<results, transitions>>
    BY <1>2 DEF BeginCheck, tables
  <2>2. QED
    BY <1>2, <2>1, BeginCheckKeepsHistory DEF Explained
<1>3. ASSUME UNCHANGED <<results, transitions>>, clock' \in clock..MaxTime,
             result'.id = result.id, result'.at = result.at, Pending' => Pending
      PROVE  HistoryInv' /\ \A r \in results : r \in results' /\ (Explained(r) => Explained(r)')
  BY <1>3, SameKeepsHistory DEF Explained
<1>4. clock \in Int /\ clock <= MaxTime /\ clock \in clock..MaxTime
  BY ReportingAssumption DEF HistoryInv, TablesTyped
<1>5. CASE Tick
  <2>1. /\ UNCHANGED <<results, transitions, stage, result>>
        /\ clock < MaxTime /\ clock' = clock + 1
    BY <1>5 DEF Tick, tables, check
  <2>2. QED
    BY <1>3, <1>4, <2>1, ReportingAssumption DEF Pending, Due
<1>6. CASE Observe
  <2>1. /\ UNCHANGED <<clock, results, transitions>> /\ stage = "checking"
        /\ \E s \in State : result' = [result EXCEPT !.state = s]
    BY <1>6 DEF Observe, tables
  <2>2. result'.id = result.id /\ result'.at = result.at
    BY <2>1 DEF CountInv, GaugeInv, GaugeTypes, Result
  <2>3. QED
    BY <1>3, <1>4, <2>1, <2>2 DEF Pending
<1>7. CASE SetSeries
  <2>1. UNCHANGED <<clock, results, transitions, result>> /\ stage = "observing"
    BY <1>7 DEF SetSeries, tables
  <2>2. QED
    BY <1>3, <1>4, <2>1 DEF Pending, Due
<1>8. CASE CountAlert \/ (RecordFails /\ UNCHANGED tables)
  <2>1. UNCHANGED <<clock, results, transitions, result>> /\ stage' = "idle"
    BY <1>8 DEF CountAlert, RecordFails, tables
  <2>2. QED
    BY <1>3, <1>4, <2>1 DEF Pending, Due
<1>9. CASE Status \/ Scrape \/ UNCHANGED vars
  <2>1. UNCHANGED <<clock, results, transitions, result, stage>>
    BY <1>9, StatusChangesRequest
       DEF Scrape, BeginScrape, ReadSeries, EndScrape, vars, check, tables
  <2>2. QED
    BY <1>3, <1>4, <2>1 DEF Pending, Due
<1>10. RecordFails => Commit \/ UNCHANGED tables
  BY DEF RecordFails
<1>11. \/ Record \/ (RecordFails /\ Commit) \/ BeginCheck \/ Tick \/ Observe \/ SetSeries
       \/ CountAlert \/ (RecordFails /\ UNCHANGED tables) \/ Status \/ Scrape \/ UNCHANGED vars
  BY <1>10 DEF Next, Perform
<1>12. QED
  BY <1>1, <1>2, <1>5, <1>6, <1>7, <1>8, <1>9, <1>11, Zenon

-----------------------------------------------------------------------------
(* What a status request has gathered goes with the tables as they are now. *)
Figure == [eligible : Nat, good : Nat, latencyGood : Nat]
Request ==
  [at : {"none", "latest", "dated", "counted", "answered"}, last : SUBSET ResultRow,
   generatedAt : Nat, counts : Figure, recent : Seq(TransitionRow)]
Dated == request.at \in {"dated", "counted", "answered"}
Counted == request.at \in {"counted", "answered"}
RequestInv ==
  /\ request \in Request
  /\ Len(request.recent) <= RecentLimit
  /\ \A r, s \in request.last : r = s
  /\ \A r \in request.last :
       /\ r \in results /\ Explained(r)
       /\ Dated => r.at <= request.generatedAt
       /\ Counted => FiguresInclude(r)
       /\ request.at = "answered" => HistoryExplains(r)

(* Beside the checks a request only waits.                                  *)
LEMMA WaitingKeepsRequest ==
  ASSUME RequestInv, request' = request,
         \A r \in results : r \in results' /\ (Explained(r) => Explained(r)')
  PROVE  RequestInv'
BY DEF RequestInv, Request, Dated, Counted, FiguresInclude, HistoryExplains

(* A request begins anew.                                                   *)
LEMMA NoRequestType ==
  /\ NoRequest \in Request /\ NoRequest.last = {} /\ Len(NoRequest.recent) = 0
  /\ [NoRequest EXCEPT !.at = "none"] = NoRequest
<1>1. NoRequest = [at |-> "none", last |-> {}, generatedAt |-> 0, counts |-> NoCounts,
                   recent |-> <<>>]
  BY DEF NoRequest
<1>2. NoCounts \in Figure
  BY DEF NoCounts, Figure
<1>3. <<>> \in Seq(TransitionRow) /\ Len(<<>>) = 0 /\ {} \in SUBSET ResultRow
  OBVIOUS
<1>4. NoRequest \in Request
  BY <1>1, <1>2, <1>3 DEF Request
<1>5. [NoRequest EXCEPT !.at = "none"] = NoRequest
  <2>1. NoRequest.at = "none"
    BY <1>1
  <2>2. \A q \in Request : q.at = "none" => [q EXCEPT !.at = "none"] = q
    BY DEF Request
  <2>3. QED
    BY <1>4, <2>1, <2>2
<1>6. NoRequest.last = {} /\ NoRequest.recent = <<>>
  BY <1>1
<1>7. QED
  BY <1>1, <1>3, <1>4, <1>5, <1>6

(* It has gathered nothing that could be wrong.                             *)
LEMMA NoRequestFits == request' = NoRequest => RequestInv'
BY NoRequestType, ReportingAssumption DEF RequestInv

(* LatestResults answers with the result that ends the history.             *)
LEMMA QueryLatestKeepsRequest == CountInv /\ HistoryInv /\ QueryLatest => RequestInv'
<1> SUFFICES ASSUME CountInv, HistoryInv, QueryLatest PROVE RequestInv'
  OBVIOUS
<1>1. UNCHANGED <<results, transitions>>
  BY DEF QueryLatest, Query, tables
<1>2. request' = [at |-> "latest", last |-> LatestRow, generatedAt |-> 0, counts |-> NoCounts,
                  recent |-> <<>>]
  BY DEF QueryLatest, Query, NoRequest
<1>3. LatestRow = {} \/ \E r \in results : LatestRow = {r} /\ Explained(r)
  <2>1. CASE results = {}
    BY <2>1 DEF LatestRow, LatestResults
  <2>2. CASE results # {}
    <3>1. PICK r : /\ IsNewest(r, results) /\ LatestState(results, TheEndpoint) = r.state
                   /\ LatestResults(results)[TheEndpoint] = r
      BY <2>2, LatestOfHistory
    <3>2. DOMAIN LatestResults(results) = {TheEndpoint}
      <4>1. \A q \in results : q.endpoint = TheEndpoint
        BY DEF HistoryInv, TablesTyped, ResultRow
      <4>2. QED
        BY <2>2, <4>1 DEF LatestResults
    <3>3. LatestRow = {r}
      BY <3>1, <3>2 DEF LatestRow
    <3>4. PICK t : IsNewest(t, transitions) /\ t.to = r.state
      BY <2>2, <3>1 DEF HistoryInv, HistoryEnds
    <3>5. Explained(r)
      BY <3>4, NewestIsOne DEF Explained, HistoryInv, InOrder
    <3>6. QED
      BY <3>1, <3>3, <3>5 DEF IsNewest
  <2>3. QED
    BY <2>1, <2>2
<1>4. request' \in Request /\ request'.last = LatestRow /\ request'.at = "latest"
      /\ Len(request'.recent) = 0
  <2>1. LatestRow \subseteq ResultRow
    BY <1>3 DEF HistoryInv, TablesTyped
  <2>2. QED
    BY <1>2, <2>1 DEF Request, NoCounts, Figure
<1>5. QED
  BY <1>1, <1>3, <1>4, ReportingAssumption DEF RequestInv, Explained, Dated, Counted

(* The time of the answer is read: no result it has is later.               *)
LEMMA ReadClockKeepsRequest == HistoryInv /\ RequestInv /\ ReadClock => RequestInv'
<1> SUFFICES ASSUME HistoryInv, RequestInv, ReadClock PROVE RequestInv'
  OBVIOUS
<1>1. UNCHANGED <<results, transitions>> /\ request \in Request
  BY DEF ReadClock, Query, tables, RequestInv
<1>2. request' = [at |-> "dated", last |-> request.last, generatedAt |-> clock,
                  counts |-> request.counts, recent |-> request.recent]
  BY <1>1 DEF ReadClock, Query, Request
<1>3. request' \in Request
  BY <1>1, <1>2 DEF Request, HistoryInv, TablesTyped
<1>4. \A r \in results : r.at <= clock
  BY ReportingAssumption DEF HistoryInv, TablesTyped, InOrder, ResultRow
<1>5. QED
  BY <1>1, <1>2, <1>3, <1>4 DEF RequestInv, Explained, Dated, Counted

(* CountsSince counts the latest result too, as it is still in the table.   *)
LEMMA QueryCountsKeepsRequest == CountInv /\ RequestInv /\ QueryCounts => RequestInv'
<1> SUFFICES ASSUME CountInv, RequestInv, QueryCounts PROVE RequestInv'
  OBVIOUS
<1> DEFINE since == request.generatedAt - SLOWindow
           counts == CountsSince(results, TheEndpoint, since, LatencyTarget)
           rows == {r \in results : r.endpoint = TheEndpoint /\ r.at >= since}
           eligible == {r \in rows : Eligible(r)}
           good == {r \in rows : Good(r)}
           quick == {r \in rows : LatencyGood(r, LatencyTarget)}
<1>1. UNCHANGED <<results, transitions>> /\ request \in Request
  BY DEF QueryCounts, Query, tables, RequestInv
<1>2. request' = [at |-> "counted", last |-> request.last, generatedAt |-> request.generatedAt,
                  counts |-> counts, recent |-> request.recent]
  BY <1>1 DEF QueryCounts, Query, Request
<1>3. counts = [eligible |-> Cardinality(eligible), good |-> Cardinality(good),
                latencyGood |-> Cardinality(quick)]
  BY DEF CountsSince
<1>4. IsFiniteSet(eligible) /\ good \in SUBSET eligible /\ quick \in SUBSET eligible
  <2>1. eligible \in SUBSET results
    OBVIOUS
  <2>2. good \in SUBSET eligible /\ quick \in SUBSET eligible
    BY DEF Good, Eligible, LatencyGood
  <2>3. QED
    BY <2>1, <2>2, FS_Subset DEF CountInv, CountTypes
<1>5. counts \in Figure
  <2>1. IsFiniteSet(good) /\ IsFiniteSet(quick)
    BY <1>4, FS_Subset
  <2>2. QED
    BY <1>3, <1>4, <2>1, FS_CardinalityType DEF Figure
<1>6. ASSUME NEW r \in request.last PROVE FiguresInclude(r)'
  <2>1. r \in results /\ r.endpoint = TheEndpoint
    BY <1>1 DEF RequestInv, Request, ResultRow
  <2>2. CASE ~(Eligible(r) /\ r.at >= since)
    BY <1>2, <2>2 DEF FiguresInclude
  <2>3. CASE Eligible(r) /\ r.at >= since
    <3>1. r \in eligible /\ (Good(r) <=> r \in good)
      BY <2>1, <2>3
    <3>2. /\ Cardinality(eligible) >= 1
          /\ Good(r) => Cardinality(good) >= 1
          /\ ~Good(r) => Cardinality(good) < Cardinality(eligible)
      BY <1>4, <3>1, CountsTell
    <3>3. /\ request'.counts.eligible = Cardinality(eligible)
          /\ request'.counts.good = Cardinality(good)
      BY <1>2, <1>3
    <3>4. QED
      BY <3>2, <3>3 DEF FiguresInclude
  <2>4. QED
    BY <2>2, <2>3
<1> HIDE DEF counts
<1>7. request' \in Request
  BY <1>1, <1>2, <1>5 DEF Request
<1>8. /\ request'.at = "counted" /\ request'.last = request.last
      /\ request'.generatedAt = request.generatedAt /\ request'.recent = request.recent
      /\ request.at = "dated"
  BY <1>2 DEF QueryCounts, Query
<1> HIDE DEF since
<1>9. QED
  BY <1>1, <1>6, <1>7, <1>8 DEF RequestInv, Explained, Dated, Counted

(* Transitions answers with the newest first: it explains the result.       *)
LEMMA QueryTransitionsKeepsRequest ==
  HistoryInv /\ RequestInv /\ QueryTransitions => RequestInv'
<1> SUFFICES ASSUME HistoryInv, RequestInv, QueryTransitions PROVE RequestInv'
  OBVIOUS
<1> DEFINE recent == Transitions(transitions, TheEndpoint, RecentLimit)
<1>1. UNCHANGED <<results, transitions>> /\ request \in Request
  BY DEF QueryTransitions, Query, tables, RequestInv
<1>2. /\ request' = [at |-> "answered", last |-> request.last, counts |-> request.counts,
                     generatedAt |-> request.generatedAt, recent |-> recent]
      /\ request.at = "counted"
  BY <1>1 DEF QueryTransitions, Query, Request
<1>3. recent = NewestFirst(transitions, RecentLimit)
  <2>1. {t \in transitions : Asked(TheEndpoint, t)} = transitions
    BY DEF HistoryInv, TablesTyped, TransitionRow, Asked
  <2>2. QED
    BY <2>1 DEF Transitions
<1>4. IsFiniteSet(transitions) /\ Ordered(transitions) /\ transitions \subseteq TransitionRow
      /\ RecentLimit \in Nat \ {0}
  BY ReportingAssumption DEF HistoryInv, TablesTyped, InOrder
<1>5. recent \in Seq(TransitionRow) /\ Len(recent) <= RecentLimit
  <2>1. RecentLimit \in Nat
    BY <1>4
  <2>2. /\ NewestFirst(transitions, RecentLimit) \in Seq(transitions)
        /\ Len(NewestFirst(transitions, RecentLimit)) <= RecentLimit
    BY <1>4, <2>1, NewestFirstIsShort
  <2> HIDE DEF recent
  <2>3. recent \in Seq(transitions) /\ Len(recent) <= RecentLimit
    BY <1>3, <2>2
  <2>4. Seq(transitions) \subseteq Seq(TransitionRow)
    BY <1>4
  <2>5. QED
    BY <2>3, <2>4
<1> HIDE DEF recent
<1>6. ASSUME NEW r \in request.last PROVE HistoryExplains(r)'
  <2>1. r \in results /\ Explained(r)
    BY DEF RequestInv
  <2>2. PICK t : IsNewest(t, transitions)
    BY <2>1 DEF HistoryInv, HistoryEnds
  <2>3. recent # <<>> /\ recent[1] = t
    BY <1>3, <1>4, <2>2, NewestIsFirst
  <2>4. QED
    BY <1>2, <2>1, <2>2, <2>3 DEF HistoryExplains, Explained
<1>7. request' \in Request
  BY <1>1, <1>2, <1>5 DEF Request
<1>8. /\ request'.last = request.last /\ request'.generatedAt = request.generatedAt
      /\ request'.counts = request.counts /\ request'.recent = recent
  BY <1>2
<1>9. QED
  BY <1>1, <1>2, <1>5, <1>6, <1>7, <1>8
     DEF RequestInv, Explained, Dated, Counted, FiguresInclude

(* The checks, the readers and the request together.                        *)
StatusInv == CountInv /\ HistoryInv /\ RequestInv

(* Every step keeps them.                                                   *)
LEMMA StatusStep == StatusInv /\ [Next]_vars => StatusInv'
<1> SUFFICES ASSUME StatusInv, [Next]_vars PROVE StatusInv'
  OBVIOUS
<1>1. CountInv /\ HistoryInv /\ RequestInv
  BY DEF StatusInv
<1>2. CountInv' /\ HistoryInv'
  BY <1>1, CountStep, HistoryStep
<1>3. RequestInv'
  <2>1. CASE Status
    <3>1. CASE QueryFails \/ Answer
      <4>1. request' = NoRequest
        BY <3>1, NoRequestType DEF QueryFails, Answer, Query
      <4>2. QED
        BY <4>1, NoRequestFits
    <3>2. QED
      BY <1>1, <2>1, <3>1, QueryLatestKeepsRequest, ReadClockKeepsRequest,
         QueryCountsKeepsRequest, QueryTransitionsKeepsRequest DEF Status
  <2>2. CASE ~Status
    <3>1. request' = request
      BY <2>2 DEF Next, Tick, Perform, BeginCheck, Observe, SetSeries, Record, CountAlert,
                  RecordFails, Scrape, BeginScrape, ReadSeries, EndScrape, vars
    <3>2. QED
      BY <1>1, <3>1, HistoryStep, WaitingKeepsRequest
  <2>3. QED
    BY <2>1, <2>2
<1>4. QED
  BY <1>2, <1>3 DEF StatusInv

(* What Snapshot has gathered of an endpoint at every moment of a request.  *)
THEOREM StatusInvariant == Spec => []StatusInv
<1>1. Init => StatusInv
  <2> SUFFICES ASSUME Init PROVE StatusInv
    OBVIOUS
  <2>1. request = NoRequest
    BY DEF Init
  <2>2. RequestInv
    BY <2>1, NoRequestType, ReportingAssumption DEF RequestInv
  <2>3. QED
    BY <2>2, CountInit, HistoryInit DEF StatusInv
<1>2. QED
  BY <1>1, StatusStep, PTL DEF Spec

(* Snapshot, four queries of four moments: the history explains the result, *)
(* the figures include it, and it is no later than the answer's time,       *)
(* whatever is recorded in between.                                         *)
THEOREM StatusesAreCoherent == Spec => []StatusIsCoherent
<1>1. StatusInv => StatusIsCoherent
  BY DEF StatusInv, RequestInv, Dated, Counted, StatusIsCoherent
<1>2. QED
  BY <1>1, StatusInvariant, PTL

-----------------------------------------------------------------------------
(* No counter runs ahead of what it counts: checks and errors of the checks *)
(* begun, alerts of the rows.                                               *)
AlertsNumbered == \A a \in alerts : a.id \in Nat /\ a.id <= result.id /\ (Pending => a.id < result.id)
Behind ==
  /\ \A s \in State : checks[s] + One(stage = "checking") <= result.id
  /\ errors + One(stage # "idle") <= result.id
  /\ alerted + One(stage = "counting") <= Cardinality(alerts)
AmountsInv == AlertsNumbered /\ Behind

(* The commit adds an alert if there is one to add: its identifier is new.  *)
LEMMA CommitAddsAlert ==
  ASSUME CountInv, AmountsInv, Due, Commit
  PROVE  /\ Cardinality(alerts') = Cardinality(alerts) + One(NewAlerts # {})
         /\ \A a \in alerts' : a.id \in Nat /\ a.id <= result.id
<1>1. /\ alerts' = alerts \cup NewAlerts /\ IsFiniteSet(alerts) /\ Cardinality(alerts) \in Nat
      /\ result.id \in Nat
  BY CountsAreNumbers DEF Commit, CountInv, CountTypes
<1>2. NewAlerts = {} \/ \E a : NewAlerts = {a} /\ a.id = result.id
  BY DEF NewAlerts, AlertRows
<1>3. CASE NewAlerts = {}
  BY <1>1, <1>3 DEF One, AmountsInv, AlertsNumbered
<1>4. CASE NewAlerts # {}
  <2>1. PICK a : NewAlerts = {a} /\ a.id = result.id
    BY <1>2, <1>4
  <2>2. a \notin alerts
    BY <1>1, <2>1 DEF AmountsInv, AlertsNumbered, Pending
  <2>3. alerts' = alerts \cup {a} /\ One(NewAlerts # {}) = 1
    BY <1>1, <1>4, <2>1 DEF One
  <2>4. Cardinality(alerts \cup {a}) = Cardinality(alerts) + 1
    BY <1>1, <2>2, FS_AddElement
  <2>5. QED
    BY <1>1, <2>1, <2>3, <2>4 DEF AmountsInv, AlertsNumbered
<1>5. QED
  BY <1>3, <1>4

(* Every step counts at most what there is.                                 *)
LEMMA AmountsStep ==
  ASSUME StatusInv, AmountsInv, [Next]_vars
  PROVE  AmountsInv'
<1>1. /\ result.id \in Nat /\ errors \in Nat /\ alerted \in Nat /\ checks \in [State -> Nat]
      /\ Cardinality(alerts) \in Nat /\ CountInv /\ IsFiniteSet(alerts)
  BY CountsAreNumbers DEF StatusInv, CountInv, CountTypes
<1>2. CASE BeginCheck
  <2>1. /\ result'.id = result.id + 1 /\ stage = "idle" /\ stage' = "checking"
        /\ UNCHANGED <<checks, errors, alerts, alerted>>
    BY <1>2 DEF BeginCheck, NewRow, tables, metrics
  <2>2. QED
    BY <1>1, <2>1 DEF AmountsInv, AlertsNumbered, Behind, One
<1>3. CASE Observe
  <2>1. PICK s \in State :
          /\ stage = "checking" /\ stage' = "observing"
          /\ result' = [result EXCEPT !.state = s] /\ checks' = [checks EXCEPT ![s] = @ + 1]
          /\ UNCHANGED <<errors, alerts, alerted>>
    BY <1>3 DEF Observe, tables
  <2>2. result'.id = result.id /\ Pending
    BY <1>1, <2>1 DEF CountInv, GaugeInv, GaugeTypes, Result, Pending
  <2>3. AlertsNumbered'
    BY <2>1, <2>2 DEF AmountsInv, AlertsNumbered
  <2>4. \A t \in State : checks'[t] + 0 <= result.id
    BY <1>1, <2>1 DEF AmountsInv, Behind, One
  <2>5. QED
    BY <1>1, <2>1, <2>2, <2>3, <2>4 DEF AmountsInv, Behind, One
<1>4. CASE Record
  <2>1. /\ stage = "recording" /\ Commit
        /\ stage' = IF NewAlerts = {} THEN "idle" ELSE "counting"
        /\ UNCHANGED <<result, checks, alerted, errors>>
    BY <1>4 DEF Record, metrics
  <2>2. Due /\ ~Pending'
    BY <2>1 DEF Due, Pending
  <2>3. AlertsNumbered'
    BY <1>1, <2>1, <2>2, CommitAddsAlert DEF AlertsNumbered
  <2>4. /\ alerted <= Cardinality(alerts)
        /\ Cardinality(alerts') = Cardinality(alerts) + One(NewAlerts # {})
        /\ One(stage' = "counting") = One(NewAlerts # {}) /\ One(NewAlerts # {}) \in Nat
    BY <1>1, <2>1, <2>2, CommitAddsAlert DEF AmountsInv, Behind, One
  <2>5. alerted + One(stage' = "counting") <= Cardinality(alerts')
    BY <1>1, <2>4
  <2>6. errors + 1 <= result.id /\ \A s \in State : checks[s] + 0 <= result.id
    BY <2>1 DEF AmountsInv, Behind, One
  <2>7. errors + One(stage' # "idle") <= result.id
    BY <1>1, <2>6 DEF One
  <2>8. QED
    BY <2>1, <2>3, <2>5, <2>6, <2>7 DEF AmountsInv, Behind, One
<1>5. CASE RecordFails
  <2>1. /\ stage = "recording" /\ stage' = "idle" /\ errors' = errors + 1
        /\ Commit \/ UNCHANGED alerts
        /\ UNCHANGED <<result, checks, alerted>>
    BY <1>5 DEF RecordFails, tables
  <2>2. Due /\ ~Pending'
    BY <2>1 DEF Due, Pending
  <2>3. /\ Cardinality(alerts') >= Cardinality(alerts) /\ Cardinality(alerts') \in Nat
        /\ \A a \in alerts' : a.id \in Nat /\ a.id <= result.id
    <3>1. CASE Commit
      <4>1. Cardinality(alerts') = Cardinality(alerts) + One(NewAlerts # {})
        BY <1>1, <2>2, <3>1, CommitAddsAlert
      <4>2. One(NewAlerts # {}) \in Nat
        BY DEF One
      <4>3. QED
        BY <1>1, <2>2, <3>1, <4>1, <4>2, CommitAddsAlert
    <3>2. CASE UNCHANGED alerts
      BY <1>1, <3>2 DEF AmountsInv, AlertsNumbered
    <3>3. QED
      BY <2>1, <3>1, <3>2
  <2>4. /\ errors + 1 <= result.id /\ alerted <= Cardinality(alerts)
        /\ \A s \in State : checks[s] + 0 <= result.id
    BY <1>1, <2>1 DEF AmountsInv, Behind, One
  <2>5. alerted + 0 <= Cardinality(alerts') /\ errors + 1 + 0 <= result.id
    BY <1>1, <2>3, <2>4
  <2>6. QED
    BY <2>1, <2>2, <2>3, <2>4, <2>5 DEF AmountsInv, AlertsNumbered, Behind, One
<1>6. CASE CountAlert
  <2>1. /\ stage = "counting" /\ stage' = "idle" /\ alerted' = alerted + 1
        /\ UNCHANGED <<result, checks, errors, alerts>>
    BY <1>6 DEF CountAlert, tables
  <2>2. QED
    BY <1>1, <2>1 DEF AmountsInv, AlertsNumbered, Behind, One, Pending, Due
<1>7. CASE SetSeries
  <2>1. /\ stage = "observing" /\ stage' \in {"observing", "recording"}
        /\ UNCHANGED <<result, checks, errors, alerts, alerted>>
    BY <1>7 DEF SetSeries, tables
  <2>2. QED
    BY <1>1, <2>1 DEF AmountsInv, AlertsNumbered, Behind, One, Pending, Due
<1>8. CASE Tick \/ Status \/ Scrape \/ UNCHANGED vars
  <2>1. UNCHANGED <<result, checks, errors, alerts, alerted, stage>>
    BY <1>8, StatusChangesRequest
       DEF Tick, Scrape, BeginScrape, ReadSeries, EndScrape, vars, check, tables, metrics
  <2>2. QED
    BY <2>1 DEF AmountsInv, AlertsNumbered, Behind, Pending, Due
<1>9. QED
  BY <1>2, <1>3, <1>4, <1>5, <1>6, <1>7, <1>8 DEF Next, Perform

(* The types of Reporting: no more checks and errors are counted than there *)
(* were checks, no alert before its row, and answers within their limits.   *)
THEOREM ReportingTypes == Spec => []TypeOK
<1>1. Init => AmountsInv
  <2> SUFFICES ASSUME Init PROVE AmountsInv
    OBVIOUS
  <2>1. result.id = 0 /\ Cardinality(alerts) = 0
    BY FS_EmptySet DEF Init, NoRow, NewRow
  <2>2. QED
    BY <2>1 DEF Init, AmountsInv, AlertsNumbered, Behind, One
<1>2. StatusInv /\ AmountsInv => TypeOK
  <2> SUFFICES ASSUME StatusInv, AmountsInv PROVE TypeOK
    OBVIOUS
  <2>1. CountInv /\ HistoryInv /\ RequestInv /\ GaugeInv
    BY DEF StatusInv, CountInv
  <2>2. ResultRow \subseteq Row
    <3>1. TheEndpoint \in Endpoint
      BY ReportingAssumption DEF TheEndpoint
    <3>2. QED
      BY <3>1 DEF ResultRow, Row
  <2>3. results \subseteq Row /\ request.last \subseteq Row /\ Len(request.recent) <= RecentLimit
    BY <2>1, <2>2 DEF HistoryInv, TablesTyped, RequestInv, Request
  <2>4. Cardinality(request.last) <= 1
    <3>1. request.last = {} \/ \E r : request.last = {r}
      BY <2>1 DEF RequestInv
    <3>2. Cardinality({}) = 0 /\ \A r : Cardinality({r}) = 1
      BY FS_EmptySet, FS_Singleton
    <3>3. CASE request.last = {}
      BY <3>2, <3>3
    <3>4. ASSUME NEW r, request.last = {r} PROVE Cardinality(request.last) <= 1
      <4>1. Cardinality({r}) = 1
        BY <3>2, Zenon
      <4>2. QED
        BY <3>4, <4>1
    <3>5. QED
      BY <3>1, <3>3, <3>4
  <2>5. clock \in 1..MaxTime
    BY <2>1 DEF HistoryInv, TablesTyped
  <2>6. /\ stage \in {"idle", "checking", "observing", "recording", "counting"}
        /\ setting \in 1..Len(Series) /\ lit \subseteq SeriesStates
        /\ scrape.ones \subseteq SeriesStates /\ scrape.left \subseteq SeriesStates
    BY <2>1, SeriesNames DEF GaugeInv, GaugeTypes
  <2>7. checks \in [State -> 0..MaxChecks] /\ errors \in 0..MaxChecks
    <3>1. /\ result.id \in Nat /\ result.id <= MaxChecks /\ MaxChecks \in Nat
          /\ errors \in Nat /\ checks \in [State -> Nat]
      BY <2>1, ReportingAssumption DEF CountInv, CountTypes, HistoryInv, TablesTyped
    <3>2. errors <= result.id /\ \A s \in State : checks[s] <= result.id
      BY <3>1 DEF AmountsInv, Behind, One
    <3>3. QED
      BY <3>1, <3>2
  <2>8. alerted \in 0..Cardinality(alerts)
    <3>1. alerted \in Nat /\ Cardinality(alerts) \in Nat
      BY <2>1, CountsAreNumbers DEF CountInv, CountTypes
    <3>2. QED
      BY <3>1 DEF AmountsInv, Behind, One
  <2>9. QED
    BY <2>3, <2>4, <2>5, <2>6, <2>7, <2>8 DEF TypeOK
<1>3. QED
  BY <1>1, <1>2, AmountsStep, StatusInvariant, PTL DEF Spec
=============================================================================
