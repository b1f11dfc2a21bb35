------------------------ MODULE CheckPipelineProofs ------------------------
(***************************************************************************)
(* Proofs about CheckPipeline for every Threshold, Cooldown and Retries.   *)
(*                                                                         *)
(* The invariants are not inductive one by one.  PipelineInv adds what the *)
(* breaker's circuit and the ghosts have to do with each other             *)
(* (CircuitInv), and what the result in hand says on its way from the      *)
(* retry loop to the database (ResultInv).                                 *)
(***************************************************************************)
EXTENDS CheckPipeline, TLAPS

(* The circuit counts the failures in a row; it is open from the            *)
(* Threshold-th on, and then as old as the last verdict.  The half-open     *)
(* mark means that a probe is under way, and the other way round.           *)
CircuitInv ==
  /\ circuit.failures = streak
  /\ circuit.open <=> streak = Threshold
  /\ circuit.open => circuit.age = sinceVerdict
  /\ circuit.halfOpen => circuit.open /\ circuit.age = Cooldown
  /\ stage # "down" => (circuit.halfOpen <=> InRetry /\ circuit.open)

(* An outage in hand was seen by every probe, or comes from the circuit, or *)
(* was cut short by a cancellation; the last kind gets no transaction.      *)
ResultInv ==
  /\ stage = "backoff"
       => attempt <= Retries /\ result.state = "Unavailable" /\ ~result.skipped
  /\ stage \in {"backoff", "judging", "observing", "recording"} /\ result.aborted
       => cancelled
  /\ stage = "committing" => ~result.aborted
  /\ stage \in {"judging", "observing", "recording", "committing"}
       /\ result.state = "Unavailable"
       => result.skipped \/ result.aborted \/ result.attempts = Retries + 1
  /\ stage \in {"observing", "recording", "committing"} /\ result.skipped
       => circuit.open
  /\ stage = "judging" => ~result.skipped
  /\ stage \in {"recording", "committing"} => gauge.state = result.state

PipelineInv ==
  /\ TypeOK
  /\ CircuitInv
  /\ ResultInv
  /\ NoShutdownOutageStored
  /\ StoredOutageConfirmed
  /\ GaugeAgreesWithStore

-----------------------------------------------------------------------------
(* What the breaker's operators make of a circuit, field by field.          *)
LEMMA UpToType ==
  ASSUME NEW bound \in Nat, NEW n \in 0..bound
  PROVE  /\ UpTo(bound, n) \in 0..bound
         /\ n = bound => UpTo(bound, n) = bound
         /\ n # bound => UpTo(bound, n) = n + 1
BY DEF UpTo

LEMMA NewCircuitType ==
  /\ NewCircuit \in Circuit
  /\ NewCircuit.failures = 0 /\ NewCircuit.age = 0
  /\ ~NewCircuit.open /\ ~NewCircuit.halfOpen
BY BreakerAssumption DEF NewCircuit, Circuit

LEMMA AfterAllowType ==
  ASSUME NEW c \in Circuit
  PROVE  /\ AfterAllow(c) \in Circuit
         /\ AfterAllow(c).failures = c.failures
         /\ AfterAllow(c).open = c.open
         /\ AfterAllow(c).age = c.age
         /\ Allowed(c) => AfterAllow(c).halfOpen = (c.open \/ c.halfOpen)
BY BreakerAssumption DEF AfterAllow, Allowed, Circuit

LEMMA AfterFailureType ==
  ASSUME NEW c \in Circuit
  PROVE  /\ AfterFailure(c) \in Circuit
         /\ AfterFailure(c).failures = UpTo(Threshold, c.failures)
         /\ ~AfterFailure(c).halfOpen
         /\ UpTo(Threshold, c.failures) = Threshold
              => AfterFailure(c).open /\ AfterFailure(c).age = 0
         /\ UpTo(Threshold, c.failures) # Threshold
              => AfterFailure(c).open = c.open /\ AfterFailure(c).age = c.age
         /\ FailureOpens(c) \in BOOLEAN
<1>. DEFINE n == UpTo(Threshold, c.failures)
<1>1. n \in 0..Threshold
  BY UpToType, BreakerAssumption DEF Circuit
<1>2. FailureOpens(c) \in BOOLEAN
  BY DEF FailureOpens
<1>. HIDE DEF n
<1>3. CASE n >= Threshold
  <2>1. AfterFailure(c) = [c EXCEPT !.halfOpen = FALSE, !.failures = n, !.open = TRUE,
                                    !.age = 0]
    BY <1>3 DEF AfterFailure, n
  <2>2. n = Threshold
    BY <1>1, <1>3, BreakerAssumption
  <2>. QED
    <3>2. AfterFailure(c) \in Circuit
      <4>1. [c EXCEPT !.halfOpen = FALSE, !.failures = n] \in Circuit
        BY <1>1 DEF Circuit
      <4>2. ASSUME NEW d \in Circuit PROVE [d EXCEPT !.open = TRUE, !.age = 0] \in Circuit
        <5>1. 0 \in 0..Cooldown
          BY BreakerAssumption
        <5>2. [d EXCEPT !.age = 0] \in Circuit
          BY <5>1 DEF Circuit
        <5>3. ASSUME NEW g \in Circuit PROVE [g EXCEPT !.open = TRUE] \in Circuit
          BY DEF Circuit
        <5>4. [d EXCEPT !.open = TRUE, !.age = 0]
                = [[d EXCEPT !.age = 0] EXCEPT !.open = TRUE]
          BY DEF Circuit
        <5>. QED
          BY <5>2, <5>3, <5>4
      <4>3. AfterFailure(c) = [[c EXCEPT !.halfOpen = FALSE, !.failures = n]
                                 EXCEPT !.open = TRUE, !.age = 0]
        BY <2>1 DEF Circuit
      <4>. QED
        BY <4>1, <4>2, <4>3
    <3>3. /\ AfterFailure(c).failures = n /\ ~AfterFailure(c).halfOpen
          /\ AfterFailure(c).open /\ AfterFailure(c).age = 0
      BY <2>1 DEF Circuit
    <3>. QED
      BY <1>2, <2>2, <3>2, <3>3 DEF n
<1>4. CASE ~(n >= Threshold)
  <2>1. AfterFailure(c) = [c EXCEPT !.halfOpen = FALSE, !.failures = n]
    BY <1>4 DEF AfterFailure, n
  <2>2. n # Threshold
    BY <1>4, BreakerAssumption
  <2>. QED
    BY <1>1, <1>2, <2>1, <2>2, BreakerAssumption DEF Circuit, n
<1>. QED
  BY <1>3, <1>4

LEMMA OlderType ==
  ASSUME NEW c \in Circuit
  PROVE  /\ Older(c) \in Circuit
         /\ Older(c).failures = c.failures
         /\ Older(c).open = c.open
         /\ Older(c).halfOpen = c.halfOpen
         /\ c.open => Older(c).age = UpTo(Cooldown, c.age)
<1>1. UpTo(Cooldown, c.age) \in 0..Cooldown
  BY UpToType, BreakerAssumption DEF Circuit
<1>. QED
  BY <1>1, BreakerAssumption DEF Older, Circuit

-----------------------------------------------------------------------------
(* The results that perform and Retry build are results.                    *)
LEMMA NoResultType == NoResult \in Result /\ NoGauge \in Gauge
BY PipelineAssumption DEF NoResult, Result, NoGauge, Gauge, State, ProbeState

LEMMA MaintenanceResultType == [NoResult EXCEPT !.state = "Maintenance"] \in Result
<1>1. NoResult \in Result
  BY NoResultType
<1>2. "Maintenance" \in State
  BY DEF State
<1>. QED
  BY <1>1, <1>2 DEF Result

LEMMA SkippedResultType ==
  [NoResult EXCEPT !.state = "Unavailable", !.circuitOpen = TRUE, !.skipped = TRUE]
    \in Result
<1>1. NoResult \in Result
  BY NoResultType
<1>2. "Unavailable" \in State
  BY DEF State, ProbeState
<1>. QED
  BY <1>1, <1>2 DEF Result

LEMMA ProbeResultType ==
  ASSUME NEW s \in ProbeState, NEW n \in 0..(Retries + 1), NEW b \in BOOLEAN
  PROVE  [NoResult EXCEPT !.state = s, !.attempts = n, !.aborted = b] \in Result
BY PipelineAssumption DEF NoResult, Result, State

-----------------------------------------------------------------------------
LEMMA PipelineInit == Init => PipelineInv
<1>. SUFFICES ASSUME Init PROVE PipelineInv
  OBVIOUS
<1>. USE BreakerAssumption, PipelineAssumption, NewCircuitType DEF Init
<1>1. TypeOK
  <2>1. attempt \in 0..(Retries + 1) /\ streak \in 0..Threshold /\ sinceVerdict \in 0..Cooldown
    OBVIOUS
  <2>2. result \in Result /\ stored \in Result /\ gauge \in Gauge /\ circuit \in Circuit
    BY NoResultType
  <2>. QED
    BY <2>1, <2>2 DEF TypeOK, Stage
<1>2. CircuitInv
  BY DEF CircuitInv, InRetry
<1>3. ResultInv
  BY DEF ResultInv
<1>4. NoShutdownOutageStored /\ StoredOutageConfirmed /\ GaugeAgreesWithStore
  BY DEF NoShutdownOutageStored, StoredOutageConfirmed, GaugeAgreesWithStore, NoResult
<1>. QED
  BY <1>1, <1>2, <1>3, <1>4 DEF PipelineInv

LEMMA TargetChangesKeeps == PipelineInv /\ TargetChanges => PipelineInv'
<1>. SUFFICES ASSUME PipelineInv, TargetChanges PROVE PipelineInv'
  OBVIOUS
<1>. USE BreakerAssumption, PipelineAssumption
     DEF PipelineInv, TargetChanges, environment, ghosts
<1>1. TypeOK'
  BY DEF TypeOK, Stage, ProbeState, State, Result, NoResult, Gauge, NoGauge
<1>2. CircuitInv'
  BY DEF TypeOK, Circuit, CircuitInv, InRetry
<1>3. ResultInv'
  BY DEF TypeOK, Result, NoResult, Gauge, CircuitInv, InRetry, ResultInv
<1>4. (NoShutdownOutageStored /\ StoredOutageConfirmed)'
  BY DEF ResultInv, NoShutdownOutageStored, StoredOutageConfirmed
<1>5. GaugeAgreesWithStore'
  BY DEF ResultInv, GaugeAgreesWithStore
<1>. QED
  BY <1>1, <1>2, <1>3, <1>4, <1>5

LEMMA MaintenanceChangesKeeps == PipelineInv /\ MaintenanceChanges => PipelineInv'
<1>. SUFFICES ASSUME PipelineInv, MaintenanceChanges PROVE PipelineInv'
  OBVIOUS
<1>. USE BreakerAssumption, PipelineAssumption
     DEF PipelineInv, MaintenanceChanges, environment, ghosts
<1>1. TypeOK'
  BY DEF TypeOK, Stage, ProbeState, State, Result, NoResult, Gauge, NoGauge
<1>2. CircuitInv'
  BY DEF TypeOK, Circuit, CircuitInv, InRetry
<1>3. ResultInv'
  BY DEF TypeOK, Result, NoResult, Gauge, CircuitInv, InRetry, ResultInv
<1>4. (NoShutdownOutageStored /\ StoredOutageConfirmed)'
  BY DEF ResultInv, NoShutdownOutageStored, StoredOutageConfirmed
<1>5. GaugeAgreesWithStore'
  BY DEF ResultInv, GaugeAgreesWithStore
<1>. QED
  BY <1>1, <1>2, <1>3, <1>4, <1>5

LEMMA DatabaseChangesKeeps == PipelineInv /\ DatabaseChanges => PipelineInv'
<1>. SUFFICES ASSUME PipelineInv, DatabaseChanges PROVE PipelineInv'
  OBVIOUS
<1>. USE BreakerAssumption, PipelineAssumption
     DEF PipelineInv, DatabaseChanges, environment, ghosts
<1>1. TypeOK'
  BY DEF TypeOK, Stage, ProbeState, State, Result, NoResult, Gauge, NoGauge
<1>2. CircuitInv'
  BY DEF TypeOK, Circuit, CircuitInv, InRetry
<1>3. ResultInv'
  BY DEF TypeOK, Result, NoResult, Gauge, CircuitInv, InRetry, ResultInv
<1>4. (NoShutdownOutageStored /\ StoredOutageConfirmed)'
  BY DEF ResultInv, NoShutdownOutageStored, StoredOutageConfirmed
<1>5. GaugeAgreesWithStore'
  BY DEF ResultInv, GaugeAgreesWithStore
<1>. QED
  BY <1>1, <1>2, <1>3, <1>4, <1>5

LEMMA TimePassesKeeps == PipelineInv /\ TimePasses => PipelineInv'
<1>. SUFFICES ASSUME PipelineInv, TimePasses PROVE PipelineInv'
  OBVIOUS
<1>. USE BreakerAssumption, PipelineAssumption, OlderType, UpToType
     DEF PipelineInv, TimePasses, environment, ghosts
<1>1. TypeOK'
  BY DEF TypeOK, Stage, ProbeState, State, Result, NoResult, Gauge, NoGauge
<1>2. CircuitInv'
  BY DEF TypeOK, Circuit, CircuitInv, InRetry
<1>3. ResultInv'
  BY DEF TypeOK, Result, NoResult, Gauge, CircuitInv, InRetry, ResultInv
<1>4. (NoShutdownOutageStored /\ StoredOutageConfirmed)'
  BY DEF ResultInv, NoShutdownOutageStored, StoredOutageConfirmed
<1>5. GaugeAgreesWithStore'
  BY DEF ResultInv, GaugeAgreesWithStore
<1>. QED
  BY <1>1, <1>2, <1>3, <1>4, <1>5

LEMMA CancelKeeps == PipelineInv /\ Cancel => PipelineInv'
<1>. SUFFICES ASSUME PipelineInv, Cancel PROVE PipelineInv'
  OBVIOUS
<1>. USE BreakerAssumption, PipelineAssumption
     DEF PipelineInv, Cancel, environment, ghosts
<1>1. TypeOK'
  BY DEF TypeOK, Stage, ProbeState, State, Result, NoResult, Gauge, NoGauge
<1>2. CircuitInv'
  BY DEF TypeOK, Circuit, CircuitInv, InRetry
<1>3. ResultInv'
  BY DEF TypeOK, Result, NoResult, Gauge, CircuitInv, InRetry, ResultInv
<1>4. (NoShutdownOutageStored /\ StoredOutageConfirmed)'
  BY DEF ResultInv, NoShutdownOutageStored, StoredOutageConfirmed
<1>5. GaugeAgreesWithStore'
  BY DEF ResultInv, GaugeAgreesWithStore
<1>. QED
  BY <1>1, <1>2, <1>3, <1>4, <1>5

LEMMA ProcessEndsKeeps == PipelineInv /\ ProcessEnds => PipelineInv'
<1>. SUFFICES ASSUME PipelineInv, ProcessEnds PROVE PipelineInv'
  OBVIOUS
<1>. USE BreakerAssumption, PipelineAssumption
     DEF PipelineInv, ProcessEnds, environment, ghosts
<1>1. TypeOK'
  BY DEF TypeOK, Stage, ProbeState, State, Result, NoResult, Gauge, NoGauge
<1>2. CircuitInv'
  BY DEF TypeOK, Circuit, CircuitInv, InRetry
<1>3. ResultInv'
  BY DEF TypeOK, Result, NoResult, Gauge, CircuitInv, InRetry, ResultInv
<1>4. (NoShutdownOutageStored /\ StoredOutageConfirmed)'
  BY DEF ResultInv, NoShutdownOutageStored, StoredOutageConfirmed
<1>5. GaugeAgreesWithStore'
  BY DEF ResultInv, GaugeAgreesWithStore
<1>. QED
  BY <1>1, <1>2, <1>3, <1>4, <1>5

LEMMA ProcessStartsKeeps == PipelineInv /\ ProcessStarts => PipelineInv'
<1>. SUFFICES ASSUME PipelineInv, ProcessStarts PROVE PipelineInv'
  OBVIOUS
<1>. USE BreakerAssumption, PipelineAssumption, NewCircuitType
     DEF PipelineInv, ProcessStarts, environment, ghosts
<1>1. TypeOK'
  <2>1. (attempt \in 0..(Retries + 1) /\ streak \in 0..Threshold /\ sinceVerdict \in 0..Cooldown)'
    OBVIOUS
  <2>2. (result \in Result /\ stored \in Result /\ gauge \in Gauge /\ circuit \in Circuit)'
    BY NoResultType DEF TypeOK
  <2>. QED
    BY <2>1, <2>2 DEF TypeOK, Stage
<1>2. CircuitInv'
  BY DEF TypeOK, Circuit, CircuitInv, InRetry
<1>3. ResultInv'
  BY DEF TypeOK, Result, NoResult, Gauge, CircuitInv, InRetry, ResultInv
<1>4. (NoShutdownOutageStored /\ StoredOutageConfirmed)'
  BY DEF ResultInv, NoShutdownOutageStored, StoredOutageConfirmed
<1>5. GaugeAgreesWithStore'
  BY DEF ResultInv, GaugeAgreesWithStore
<1>. QED
  BY <1>1, <1>2, <1>3, <1>4, <1>5

LEMMA BeginMaintenanceKeeps == PipelineInv /\ BeginMaintenance => PipelineInv'
<1>. SUFFICES ASSUME PipelineInv, BeginMaintenance PROVE PipelineInv'
  OBVIOUS
<1>. USE BreakerAssumption, PipelineAssumption
     DEF PipelineInv, BeginMaintenance, environment, ghosts
<1>1. TypeOK'
  BY MaintenanceResultType DEF TypeOK, Stage
<1>2. CircuitInv'
  BY DEF TypeOK, Circuit, CircuitInv, InRetry
<1>3. ResultInv'
  BY DEF TypeOK, Result, NoResult, Gauge, CircuitInv, InRetry, ResultInv
<1>4. (NoShutdownOutageStored /\ StoredOutageConfirmed)'
  BY DEF ResultInv, NoShutdownOutageStored, StoredOutageConfirmed
<1>5. GaugeAgreesWithStore'
  BY DEF ResultInv, GaugeAgreesWithStore
<1>. QED
  BY <1>1, <1>2, <1>3, <1>4, <1>5

LEMMA BeginSkippedKeeps == PipelineInv /\ BeginSkipped => PipelineInv'
<1>. SUFFICES ASSUME PipelineInv, BeginSkipped PROVE PipelineInv'
  OBVIOUS
<1>. USE BreakerAssumption, PipelineAssumption
     DEF PipelineInv, BeginSkipped, Allowed, environment, ghosts
<1>1. TypeOK'
  BY SkippedResultType DEF TypeOK, Stage
<1>2. CircuitInv'
  BY DEF TypeOK, Circuit, CircuitInv, InRetry
<1>3. ResultInv'
  BY DEF TypeOK, Result, NoResult, Gauge, CircuitInv, InRetry, ResultInv
<1>4. (NoShutdownOutageStored /\ StoredOutageConfirmed)'
  BY DEF ResultInv, NoShutdownOutageStored, StoredOutageConfirmed
<1>5. GaugeAgreesWithStore'
  BY DEF ResultInv, GaugeAgreesWithStore
<1>. QED
  BY <1>1, <1>2, <1>3, <1>4, <1>5

LEMMA BeginProbingKeeps == PipelineInv /\ BeginProbing => PipelineInv'
<1>. SUFFICES ASSUME PipelineInv, BeginProbing PROVE PipelineInv'
  OBVIOUS
<1>. USE BreakerAssumption, PipelineAssumption, AfterAllowType
     DEF PipelineInv, BeginProbing, Allowed, environment, ghosts
<1>1. TypeOK'
  BY DEF TypeOK, Stage, ProbeState, State, Result, NoResult, Gauge, NoGauge
<1>2. CircuitInv'
  BY DEF TypeOK, Circuit, CircuitInv, InRetry
<1>3. ResultInv'
  BY DEF TypeOK, Result, NoResult, Gauge, CircuitInv, InRetry, ResultInv
<1>4. (NoShutdownOutageStored /\ StoredOutageConfirmed)'
  BY DEF ResultInv, NoShutdownOutageStored, StoredOutageConfirmed
<1>5. GaugeAgreesWithStore'
  BY DEF ResultInv, GaugeAgreesWithStore
<1>. QED
  BY <1>1, <1>2, <1>3, <1>4, <1>5

LEMMA ProbeReturnsKeeps == PipelineInv /\ ProbeReturns => PipelineInv'
<1>. SUFFICES ASSUME PipelineInv, ProbeReturns PROVE PipelineInv'
  OBVIOUS
<1>. USE BreakerAssumption, PipelineAssumption
     DEF PipelineInv, ProbeReturns, environment, ghosts
<1>. PICK aborted \in {FALSE, cancelled} :
       LET s == IF aborted THEN "Unavailable" ELSE target
       IN  /\ result' = [NoResult EXCEPT !.state = s, !.attempts = attempt,
                                         !.aborted = aborted]
           /\ stage' = IF s # "Unavailable" \/ attempt = Retries + 1
                         THEN "judging" ELSE "backoff"
  OBVIOUS
<1>1. TypeOK'
  BY ProbeResultType DEF TypeOK, Stage, ProbeState
<1>2. CircuitInv'
  BY DEF TypeOK, Circuit, CircuitInv, InRetry
<1>3. ResultInv'
  <2>. DEFINE s == IF aborted THEN "Unavailable" ELSE target
  <2>1. /\ result'.state = s /\ result'.attempts = attempt
        /\ result'.aborted = aborted /\ ~result'.skipped
    BY DEF NoResult
  <2>2. /\ stage' \in {"judging", "backoff"}
        /\ stage' = "backoff" => s = "Unavailable" /\ attempt # Retries + 1
        /\ stage' = "judging" => s # "Unavailable" \/ attempt = Retries + 1
    OBVIOUS
  <2>3. attempt # Retries + 1 => attempt <= Retries
    BY DEF TypeOK
  <2>4. aborted => cancelled'
    BY DEF TypeOK
  <2>. QED
    BY <2>1, <2>2, <2>3, <2>4 DEF ResultInv
<1>4. (NoShutdownOutageStored /\ StoredOutageConfirmed)'
  BY DEF ResultInv, NoShutdownOutageStored, StoredOutageConfirmed
<1>5. GaugeAgreesWithStore'
  BY DEF ResultInv, GaugeAgreesWithStore
<1>. QED
  BY <1>1, <1>2, <1>3, <1>4, <1>5

LEMMA BackoffEndsKeeps == PipelineInv /\ BackoffEnds => PipelineInv'
<1>. SUFFICES ASSUME PipelineInv, BackoffEnds PROVE PipelineInv'
  OBVIOUS
<1>. USE BreakerAssumption, PipelineAssumption
     DEF PipelineInv, BackoffEnds, environment, ghosts
<1>0. attempt + 1 \in 0..(Retries + 1)
  BY DEF TypeOK, ResultInv
<1>1. TypeOK'
  BY <1>0 DEF TypeOK, Stage
<1>2. CircuitInv'
  BY DEF TypeOK, Circuit, CircuitInv, InRetry
<1>3. ResultInv'
  BY DEF TypeOK, Result, NoResult, Gauge, CircuitInv, InRetry, ResultInv
<1>4. (NoShutdownOutageStored /\ StoredOutageConfirmed)'
  BY DEF ResultInv, NoShutdownOutageStored, StoredOutageConfirmed
<1>5. GaugeAgreesWithStore'
  BY DEF ResultInv, GaugeAgreesWithStore
<1>. QED
  BY <1>1, <1>2, <1>3, <1>4, <1>5

LEMMA BackoffCancelledKeeps == PipelineInv /\ BackoffCancelled => PipelineInv'
<1>. SUFFICES ASSUME PipelineInv, BackoffCancelled PROVE PipelineInv'
  OBVIOUS
<1>. USE BreakerAssumption, PipelineAssumption
     DEF PipelineInv, BackoffCancelled, environment, ghosts
<1>0. result' \in Result
  BY DEF TypeOK, Result
<1>1. TypeOK'
  BY <1>0 DEF TypeOK, Stage
<1>2. CircuitInv'
  BY DEF TypeOK, Circuit, CircuitInv, InRetry
<1>3. ResultInv'
  BY DEF TypeOK, Result, NoResult, Gauge, CircuitInv, InRetry, ResultInv
<1>4. (NoShutdownOutageStored /\ StoredOutageConfirmed)'
  BY DEF ResultInv, NoShutdownOutageStored, StoredOutageConfirmed
<1>5. GaugeAgreesWithStore'
  BY DEF ResultInv, GaugeAgreesWithStore
<1>. QED
  BY <1>1, <1>2, <1>3, <1>4, <1>5

LEMMA JudgeFailureKeeps == PipelineInv /\ JudgeFailure => PipelineInv'
<1>. SUFFICES ASSUME PipelineInv, JudgeFailure PROVE PipelineInv'
  OBVIOUS
<1>. USE BreakerAssumption, PipelineAssumption, AfterFailureType, UpToType
     DEF PipelineInv, JudgeFailure, environment, ghosts
<1>0. result' \in Result /\ circuit' \in Circuit
  BY DEF TypeOK, Result
<1>1. TypeOK'
  BY <1>0 DEF TypeOK, Stage
<1>2. CircuitInv'
  BY DEF TypeOK, Circuit, CircuitInv, InRetry
<1>3. ResultInv'
  BY DEF TypeOK, Result, NoResult, Gauge, CircuitInv, InRetry, ResultInv
<1>4. (NoShutdownOutageStored /\ StoredOutageConfirmed)'
  BY DEF ResultInv, NoShutdownOutageStored, StoredOutageConfirmed
<1>5. GaugeAgreesWithStore'
  BY DEF ResultInv, GaugeAgreesWithStore
<1>. QED
  BY <1>1, <1>2, <1>3, <1>4, <1>5

LEMMA JudgeSuccessKeeps == PipelineInv /\ JudgeSuccess => PipelineInv'
<1>. SUFFICES ASSUME PipelineInv, JudgeSuccess PROVE PipelineInv'
  OBVIOUS
<1>. USE BreakerAssumption, PipelineAssumption, NewCircuitType
     DEF PipelineInv, JudgeSuccess, AfterSuccess, environment, ghosts
<1>1. TypeOK'
  BY DEF TypeOK, Stage, ProbeState, State, Result, NoResult, Gauge, NoGauge
<1>2. CircuitInv'
  BY DEF TypeOK, Circuit, CircuitInv, InRetry
<1>3. ResultInv'
  BY DEF TypeOK, Result, NoResult, Gauge, CircuitInv, InRetry, ResultInv
<1>4. (NoShutdownOutageStored /\ StoredOutageConfirmed)'
  BY DEF ResultInv, NoShutdownOutageStored, StoredOutageConfirmed
<1>5. GaugeAgreesWithStore'
  BY DEF ResultInv, GaugeAgreesWithStore
<1>. QED
  BY <1>1, <1>2, <1>3, <1>4, <1>5

LEMMA ObserveKeeps == PipelineInv /\ Observe => PipelineInv'
<1>. SUFFICES ASSUME PipelineInv, Observe PROVE PipelineInv'
  OBVIOUS
<1>. USE BreakerAssumption, PipelineAssumption
     DEF PipelineInv, Observe, environment, ghosts
<1>1. TypeOK'
  BY DEF TypeOK, Stage, ProbeState, State, Result, NoResult, Gauge, NoGauge
<1>2. CircuitInv'
  BY DEF TypeOK, Circuit, CircuitInv, InRetry
<1>3. ResultInv'
  BY DEF TypeOK, Result, NoResult, Gauge, CircuitInv, InRetry, ResultInv
<1>4. (NoShutdownOutageStored /\ StoredOutageConfirmed)'
  BY DEF ResultInv, NoShutdownOutageStored, StoredOutageConfirmed
<1>5. GaugeAgreesWithStore'
  BY DEF ResultInv, GaugeAgreesWithStore
<1>. QED
  BY <1>1, <1>2, <1>3, <1>4, <1>5

LEMMA BeginRecordKeeps == PipelineInv /\ BeginRecord => PipelineInv'
<1>. SUFFICES ASSUME PipelineInv, BeginRecord PROVE PipelineInv'
  OBVIOUS
<1>. USE BreakerAssumption, PipelineAssumption
     DEF PipelineInv, BeginRecord, environment, ghosts
<1>1. TypeOK'
  BY DEF TypeOK, Stage, ProbeState, State, Result, NoResult, Gauge, NoGauge
<1>2. CircuitInv'
  BY DEF TypeOK, Circuit, CircuitInv, InRetry
<1>3. ResultInv'
  BY DEF TypeOK, Result, NoResult, Gauge, CircuitInv, InRetry, ResultInv
<1>4. (NoShutdownOutageStored /\ StoredOutageConfirmed)'
  BY DEF ResultInv, NoShutdownOutageStored, StoredOutageConfirmed
<1>5. GaugeAgreesWithStore'
  BY DEF ResultInv, GaugeAgreesWithStore
<1>. QED
  BY <1>1, <1>2, <1>3, <1>4, <1>5

LEMMA RecordRefusedKeeps == PipelineInv /\ RecordRefused => PipelineInv'
<1>. SUFFICES ASSUME PipelineInv, RecordRefused PROVE PipelineInv'
  OBVIOUS
<1>. USE BreakerAssumption, PipelineAssumption
     DEF PipelineInv, RecordRefused, environment, ghosts
<1>1. TypeOK'
  BY DEF TypeOK, Stage, ProbeState, State, Result, NoResult, Gauge, NoGauge
<1>2. CircuitInv'
  BY DEF TypeOK, Circuit, CircuitInv, InRetry
<1>3. ResultInv'
  BY DEF TypeOK, Result, NoResult, Gauge, CircuitInv, InRetry, ResultInv
<1>4. (NoShutdownOutageStored /\ StoredOutageConfirmed)'
  BY DEF ResultInv, NoShutdownOutageStored, StoredOutageConfirmed
<1>5. GaugeAgreesWithStore'
  BY DEF ResultInv, GaugeAgreesWithStore
<1>. QED
  BY <1>1, <1>2, <1>3, <1>4, <1>5

LEMMA CommitSucceedsKeeps == PipelineInv /\ CommitSucceeds => PipelineInv'
<1>. SUFFICES ASSUME PipelineInv, CommitSucceeds PROVE PipelineInv'
  OBVIOUS
<1>. USE BreakerAssumption, PipelineAssumption
     DEF PipelineInv, CommitSucceeds, environment, ghosts
<1>1. TypeOK'
  BY DEF TypeOK, Stage
<1>2. CircuitInv'
  BY DEF TypeOK, Circuit, CircuitInv, InRetry
<1>3. ResultInv'
  BY DEF TypeOK, Result, NoResult, Gauge, CircuitInv, InRetry, ResultInv
<1>4. (NoShutdownOutageStored /\ StoredOutageConfirmed)'
  BY DEF ResultInv, NoShutdownOutageStored, StoredOutageConfirmed
<1>5. GaugeAgreesWithStore'
  BY DEF ResultInv, GaugeAgreesWithStore
<1>. QED
  BY <1>1, <1>2, <1>3, <1>4, <1>5

LEMMA CommitFailsKeeps == PipelineInv /\ CommitFails => PipelineInv'
<1>. SUFFICES ASSUME PipelineInv, CommitFails PROVE PipelineInv'
  OBVIOUS
<1>. USE BreakerAssumption, PipelineAssumption
     DEF PipelineInv, CommitFails, environment, ghosts
<1>1. TypeOK'
  BY DEF TypeOK, Stage, ProbeState, State, Result, NoResult, Gauge, NoGauge
<1>2. CircuitInv'
  BY DEF TypeOK, Circuit, CircuitInv, InRetry
<1>3. ResultInv'
  BY DEF TypeOK, Result, NoResult, Gauge, CircuitInv, InRetry, ResultInv
<1>4. (NoShutdownOutageStored /\ StoredOutageConfirmed)'
  BY DEF ResultInv, NoShutdownOutageStored, StoredOutageConfirmed
<1>5. GaugeAgreesWithStore'
  BY DEF ResultInv, GaugeAgreesWithStore
<1>. QED
  BY <1>1, <1>2, <1>3, <1>4, <1>5

-----------------------------------------------------------------------------
(* The strengthened invariant: every action of perform, of the process and  *)
(* of the environment keeps it.                                             *)
THEOREM PipelineInvariant == Spec => []PipelineInv
<1>1. Init => PipelineInv
  BY PipelineInit
<1>2. PipelineInv /\ [Next]_vars => PipelineInv'
  <2>1. PipelineInv /\ Next => PipelineInv'
    BY TargetChangesKeeps, MaintenanceChangesKeeps,
     DatabaseChangesKeeps, TimePassesKeeps, CancelKeeps,
     ProcessEndsKeeps, ProcessStartsKeeps, BeginMaintenanceKeeps,
     BeginSkippedKeeps, BeginProbingKeeps, ProbeReturnsKeeps,
     BackoffEndsKeeps, BackoffCancelledKeeps, JudgeFailureKeeps,
     JudgeSuccessKeeps, ObserveKeeps, BeginRecordKeeps,
     RecordRefusedKeeps, CommitSucceedsKeeps, CommitFailsKeeps
    DEF Next, Perform, Environment
  <2>2. PipelineInv /\ UNCHANGED vars => PipelineInv'
    BY DEF vars, environment, ghosts, PipelineInv, TypeOK, CircuitInv, ResultInv, InRetry,
           NoShutdownOutageStored, StoredOutageConfirmed, GaugeAgreesWithStore
  <2>. QED
    BY <2>1, <2>2
<1>. QED
  BY <1>1, <1>2, PTL DEF Spec

(* Types: the fields of results, circuits and gauges stay in their ranges,  *)
(* and the retry loop never makes more than Retries + 1 probes.             *)
THEOREM PipelineTypes == Spec => []TypeOK
<1>1. PipelineInv => TypeOK
  BY DEF PipelineInv
<1>. QED
  BY <1>1, PipelineInvariant, PTL

(* The half-open mark never outlives its probe.                             *)
THEOREM HalfOpenIsReleased == Spec => []HalfOpenOnlyWhileChecking
<1>1. PipelineInv => HalfOpenOnlyWhileChecking
  BY DEF PipelineInv, CircuitInv, HalfOpenOnlyWhileChecking
<1>. QED
  BY <1>1, PipelineInvariant, PTL

(* No probe within a cooldown of the Threshold-th failure in a row or of    *)
(* any failure after it.                                                    *)
THEOREM ProbesWaitForCooldown == Spec => []CooldownRespected
<1>1. PipelineInv => CooldownRespected
  <2>. SUFFICES ASSUME PipelineInv, InRetry, streak >= Threshold
                PROVE  sinceVerdict >= Cooldown
    BY DEF CooldownRespected
  <2>1. streak = Threshold
    BY BreakerAssumption DEF PipelineInv, TypeOK
  <2>2. circuit.open /\ circuit.halfOpen
    BY <2>1 DEF PipelineInv, CircuitInv, InRetry
  <2>. QED
    BY <2>2, BreakerAssumption DEF PipelineInv, CircuitInv
<1>. QED
  BY <1>1, PipelineInvariant, PTL

(* A check is skipped as Unavailable only after Threshold failures in a row. *)
THEOREM SkipsFollowOutages == Spec => []SkipMeansOutage
<1>1. PipelineInv => SkipMeansOutage
  BY BreakerAssumption DEF PipelineInv, CircuitInv, ResultInv, SkipMeansOutage
<1>. QED
  BY <1>1, PipelineInvariant, PTL

(* What reaches the database is an outage only when every probe saw it or   *)
(* the circuit is open.                                                     *)
THEOREM StoredOutagesAreReal == Spec => []StoredOutageConfirmed
<1>1. PipelineInv => StoredOutageConfirmed
  BY DEF PipelineInv
<1>. QED
  BY <1>1, PipelineInvariant, PTL

(* An outage made by the cancellation never reaches the database.           *)
THEOREM ShutdownsAreNoOutages == Spec => []NoShutdownOutageStored
<1>1. PipelineInv => NoShutdownOutageStored
  BY DEF PipelineInv
<1>. QED
  BY <1>1, PipelineInvariant, PTL

(* Between two checks the gauge shows the stored state, or an error was     *)
(* counted.                                                                 *)
THEOREM GaugeShowsStored == Spec => []GaugeAgreesWithStore
<1>1. PipelineInv => GaugeAgreesWithStore
  BY DEF PipelineInv
<1>. QED
  BY <1>1, PipelineInvariant, PTL

-----------------------------------------------------------------------------
(* Refinement: the circuit is the breaker of docs/architecture.md.          *)

LEMMA BreakerInit == Init => Breaker!BInit
BY DEF Init, Breaker!BInit, PhaseOfCircuit, FailuresOfCircuit, RestOfCircuit, InRetry

(* A step that leaves the circuit alone and begins or ends no check.        *)
LEMMA NothingForTheBreaker ==
  ASSUME circuit' = circuit, stage = "down" <=> stage' = "down", InRetry <=> InRetry'
  PROVE  UNCHANGED <<PhaseOfCircuit, FailuresOfCircuit, RestOfCircuit, InRetry>>
<1>1. PhaseOfCircuit' = PhaseOfCircuit
  BY DEF PhaseOfCircuit
<1>2. FailuresOfCircuit' = FailuresOfCircuit /\ RestOfCircuit' = RestOfCircuit
  BY <1>1 DEF FailuresOfCircuit, RestOfCircuit
<1>3. InRetry' = InRetry
  BY DEF InRetry
<1>4. QED
  BY <1>1, <1>2, <1>3

LEMMA ProcessEndsMaps == ProcessEnds => Breaker!Vanish
<1> SUFFICES ASSUME ProcessEnds PROVE Breaker!Vanish
  OBVIOUS
<1>1. PhaseOfCircuit # "gone" /\ PhaseOfCircuit' = "gone"
  BY DEF ProcessEnds, PhaseOfCircuit
<1>2. FailuresOfCircuit' = 0 /\ RestOfCircuit' = 0 /\ InRetry' = FALSE
  BY <1>1 DEF ProcessEnds, FailuresOfCircuit, RestOfCircuit, InRetry
<1>3. QED
  BY <1>1, <1>2 DEF Breaker!Vanish

LEMMA ProcessStartsMaps == ProcessStarts => Breaker!Appear
<1> SUFFICES ASSUME ProcessStarts PROVE Breaker!Appear
  OBVIOUS
<1>1. PhaseOfCircuit = "gone" /\ PhaseOfCircuit' = "closed"
  BY NewCircuitType DEF ProcessStarts, PhaseOfCircuit
<1>2. FailuresOfCircuit' = FailuresOfCircuit /\ RestOfCircuit' = RestOfCircuit
  BY <1>1, NewCircuitType DEF ProcessStarts, FailuresOfCircuit, RestOfCircuit
<1>3. InRetry' = InRetry
  BY DEF ProcessStarts, InRetry
<1>4. QED
  BY <1>1, <1>2, <1>3 DEF Breaker!Appear

(* A circuit that is half-open or has rested does not age any more.         *)
LEMMA TimePassesMaps ==
  ASSUME PipelineInv, TimePasses
  PROVE  \/ Breaker!Rest
         \/ UNCHANGED <<PhaseOfCircuit, FailuresOfCircuit, RestOfCircuit, InRetry>>
<1>1. circuit \in Circuit /\ circuit' = Older(circuit) /\ stage' = stage
  BY DEF PipelineInv, TypeOK, TimePasses
<1>2. /\ circuit'.failures = circuit.failures /\ circuit'.open = circuit.open
      /\ circuit'.halfOpen = circuit.halfOpen
  BY <1>1, OlderType
<1>3. PhaseOfCircuit' = PhaseOfCircuit
  BY <1>1, <1>2 DEF PhaseOfCircuit
<1>4. FailuresOfCircuit' = FailuresOfCircuit
  BY <1>2, <1>3 DEF FailuresOfCircuit
<1>5. InRetry' = InRetry
  BY <1>1 DEF InRetry
<1>6. CASE PhaseOfCircuit # "open"
  BY <1>3, <1>4, <1>5, <1>6 DEF RestOfCircuit
<1>7. CASE PhaseOfCircuit = "open"
  <2>1. circuit.open /\ circuit'.age = UpTo(Cooldown, circuit.age)
    BY <1>1, <1>7, OlderType DEF PhaseOfCircuit
  <2>2. RestOfCircuit = circuit.age /\ RestOfCircuit' = circuit'.age
    BY <1>3, <1>7 DEF RestOfCircuit
  <2>3. circuit.age \in 0..Cooldown
    BY <1>1 DEF Circuit
  <2>4. CASE circuit.age = Cooldown
    <3>1. circuit'.age = circuit.age
      BY <2>1, <2>3, <2>4, UpToType, BreakerAssumption
    <3>2. RestOfCircuit' = RestOfCircuit
      BY <2>2, <3>1
    <3>3. QED
      BY <1>3, <1>4, <1>5, <3>2
  <2>5. CASE circuit.age # Cooldown
    <3>1. circuit.age < Cooldown
      BY <2>3, <2>5, BreakerAssumption
    <3>2. RestOfCircuit < Cooldown /\ RestOfCircuit' = RestOfCircuit + 1
      BY <2>1, <2>2, <3>1 DEF UpTo
    <3>3. QED
      BY <1>3, <1>4, <1>5, <1>7, <3>2 DEF Breaker!Rest
  <2>6. QED
    BY <2>4, <2>5
<1>8. QED
  BY <1>6, <1>7

(* Allow lets a check through when the circuit is closed, and when it has   *)
(* rested; CircuitInv excludes the mark of another probe.                   *)
LEMMA BeginProbingMaps ==
  ASSUME PipelineInv, BeginProbing
  PROVE  Breaker!Check \/ Breaker!TryAgain
<1>1. /\ stage = "idle" /\ stage' = "probing" /\ Allowed(circuit)
      /\ circuit \in Circuit /\ circuit' = AfterAllow(circuit)
  BY DEF PipelineInv, TypeOK, BeginProbing
<1>2. ~InRetry /\ InRetry' = TRUE
  BY <1>1 DEF InRetry
<1>3. ~circuit.halfOpen
  BY <1>1, <1>2 DEF PipelineInv, CircuitInv
<1>4. /\ circuit'.failures = circuit.failures /\ circuit'.open = circuit.open
      /\ circuit'.age = circuit.age /\ circuit'.halfOpen = circuit.open
  <2>1. circuit'.halfOpen = (circuit.open \/ circuit.halfOpen)
    BY <1>1, AfterAllowType
  <2>2. circuit.open \in BOOLEAN
    BY <1>1 DEF Circuit
  <2>3. circuit'.halfOpen = circuit.open
    BY <1>3, <2>1, <2>2
  <2>4. QED
    BY <1>1, <2>3, AfterAllowType
<1>5. CASE ~circuit.open
  <2>1. PhaseOfCircuit = "closed" /\ PhaseOfCircuit' = "closed"
    BY <1>1, <1>4, <1>5 DEF PhaseOfCircuit
  <2>2. FailuresOfCircuit' = FailuresOfCircuit /\ RestOfCircuit' = RestOfCircuit
    BY <1>4, <2>1 DEF FailuresOfCircuit, RestOfCircuit
  <2>3. QED
    BY <1>2, <2>1, <2>2 DEF Breaker!Check
<1>6. CASE circuit.open
  <2>1. PhaseOfCircuit = "open" /\ PhaseOfCircuit' = "halfOpen"
    BY <1>1, <1>3, <1>4, <1>6 DEF PhaseOfCircuit
  <2>2. RestOfCircuit = Cooldown
    <3>1. circuit.age >= Cooldown /\ circuit.age \in 0..Cooldown
      BY <1>1, <1>6 DEF Allowed, Circuit
    <3>2. circuit.age = Cooldown
      BY <3>1, BreakerAssumption
    <3>3. QED
      BY <2>1, <3>2 DEF RestOfCircuit
  <2>3. RestOfCircuit' = 0 /\ FailuresOfCircuit' = 0 /\ FailuresOfCircuit = 0
    BY <2>1 DEF RestOfCircuit, FailuresOfCircuit
  <2>4. QED
    BY <1>2, <2>1, <2>2, <2>3 DEF Breaker!TryAgain
<1>7. QED
  BY <1>5, <1>6

(* Failure opens the circuit at the Threshold-th time, and again after each *)
(* half-open probe, with the whole cooldown ahead.                          *)
LEMMA JudgeFailureMaps ==
  ASSUME PipelineInv, JudgeFailure
  PROVE  Breaker!Tolerate \/ Breaker!Open
<1> DEFINE n == UpTo(Threshold, circuit.failures)
<1>1. /\ stage = "judging" /\ stage' = "observing"
      /\ circuit \in Circuit /\ circuit' = AfterFailure(circuit)
  BY DEF PipelineInv, TypeOK, JudgeFailure
<1>2. InRetry = TRUE /\ InRetry' = FALSE
  BY <1>1 DEF InRetry
<1>3. /\ circuit.failures = streak /\ (circuit.open <=> streak = Threshold)
      /\ circuit.open => circuit.halfOpen
  BY <1>1, <1>2 DEF PipelineInv, CircuitInv
<1>4. circuit.failures \in 0..Threshold
  BY <1>1 DEF Circuit
<1>5. /\ circuit'.failures = n /\ ~circuit'.halfOpen
      /\ n = Threshold => circuit'.open /\ circuit'.age = 0
      /\ n # Threshold => circuit'.open = circuit.open
  BY <1>1, AfterFailureType
<1>6. /\ circuit.failures = Threshold => n = Threshold
      /\ circuit.failures # Threshold => n = circuit.failures + 1
  BY <1>4, UpToType, BreakerAssumption
<1> HIDE DEF n
<1>7. CASE n = Threshold
  <2>1. PhaseOfCircuit' = "open"
    BY <1>1, <1>5, <1>7 DEF PhaseOfCircuit
  <2>2. FailuresOfCircuit' = 0 /\ RestOfCircuit' = 0
    BY <1>5, <1>7, <2>1 DEF FailuresOfCircuit, RestOfCircuit
  <2>3. PhaseOfCircuit = "halfOpen" \/ FailuresOfCircuit + 1 = Threshold
    <3>1. CASE circuit.open
      BY <1>1, <1>3, <3>1 DEF PhaseOfCircuit
    <3>2. CASE ~circuit.open
      <4>1. PhaseOfCircuit = "closed"
        BY <1>1, <3>2 DEF PhaseOfCircuit
      <4>2. FailuresOfCircuit = circuit.failures
        BY <4>1 DEF FailuresOfCircuit
      <4>3. circuit.failures + 1 = Threshold
        BY <1>3, <1>6, <1>7, <3>2
      <4>4. QED
        BY <4>2, <4>3
    <3>3. QED
      BY <3>1, <3>2
  <2>4. QED
    BY <1>2, <2>1, <2>2, <2>3 DEF Breaker!Open
<1>8. CASE n # Threshold
  <2>1. circuit.failures # Threshold /\ n = circuit.failures + 1 /\ ~circuit.open
    BY <1>3, <1>6, <1>8
  <2>2. PhaseOfCircuit = "closed" /\ PhaseOfCircuit' = "closed"
    BY <1>1, <1>5, <1>8, <2>1 DEF PhaseOfCircuit
  <2>3. FailuresOfCircuit = circuit.failures /\ FailuresOfCircuit' = n
    BY <1>5, <2>2 DEF FailuresOfCircuit
  <2>4. circuit.failures + 1 < Threshold
    BY <1>4, <1>8, <2>1, BreakerAssumption
  <2>5. FailuresOfCircuit + 1 < Threshold /\ FailuresOfCircuit' = FailuresOfCircuit + 1
    BY <2>1, <2>3, <2>4
  <2>6. RestOfCircuit' = RestOfCircuit
    BY <2>2 DEF RestOfCircuit
  <2>7. QED
    BY <1>2, <2>2, <2>5, <2>6 DEF Breaker!Tolerate
<1>9. QED
  BY <1>7, <1>8

LEMMA JudgeSuccessMaps == JudgeSuccess => Breaker!Close
<1> SUFFICES ASSUME JudgeSuccess PROVE Breaker!Close
  OBVIOUS
<1>1. stage = "judging" /\ stage' = "observing" /\ circuit' = NewCircuit
  BY DEF JudgeSuccess, AfterSuccess
<1>2. InRetry /\ InRetry' = FALSE
  BY <1>1 DEF InRetry
<1>3. PhaseOfCircuit' = "closed"
  BY <1>1, NewCircuitType DEF PhaseOfCircuit
<1>4. FailuresOfCircuit' = 0 /\ RestOfCircuit' = 0
  BY <1>1, <1>3, NewCircuitType DEF FailuresOfCircuit, RestOfCircuit
<1>5. QED
  BY <1>2, <1>3, <1>4 DEF Breaker!Close

LEMMA BreakerStep ==
  ASSUME PipelineInv, [Next]_vars
  PROVE  [Breaker!BNext]_<<PhaseOfCircuit, FailuresOfCircuit, RestOfCircuit, InRetry>>
<1>1. CASE \/ TargetChanges \/ MaintenanceChanges \/ DatabaseChanges \/ Cancel
           \/ UNCHANGED vars
  <2>1. circuit' = circuit /\ stage' = stage
    BY <1>1 DEF TargetChanges, MaintenanceChanges, DatabaseChanges, Cancel, vars
  <2>2. InRetry <=> InRetry'
    BY <2>1 DEF InRetry
  <2>3. QED
    BY <2>1, <2>2, NothingForTheBreaker
<1>2. CASE ProbeReturns \/ BackoffEnds \/ BackoffCancelled
  <2>1. /\ circuit' = circuit
        /\ stage \in {"probing", "backoff"} /\ stage' \in {"probing", "backoff", "judging"}
    BY <1>2 DEF ProbeReturns, BackoffEnds, BackoffCancelled
  <2>2. InRetry /\ InRetry' /\ stage # "down" /\ stage' # "down"
    BY <2>1 DEF InRetry
  <2>3. QED
    BY <2>1, <2>2, NothingForTheBreaker
<1>3. CASE \/ BeginMaintenance \/ BeginSkipped \/ Observe
           \/ BeginRecord \/ RecordRefused \/ CommitSucceeds \/ CommitFails
  <2>1. /\ circuit' = circuit
        /\ stage \in {"idle", "observing", "recording", "committing"}
        /\ stage' \in {"idle", "observing", "recording", "committing"}
    BY <1>3 DEF BeginMaintenance, BeginSkipped, Observe, BeginRecord, RecordRefused,
                CommitSucceeds, CommitFails
  <2>2. ~InRetry /\ ~InRetry' /\ stage # "down" /\ stage' # "down"
    BY <2>1 DEF InRetry
  <2>3. QED
    BY <2>1, <2>2, NothingForTheBreaker
<1>4. CASE ProcessEnds \/ ProcessStarts
  BY <1>4, ProcessEndsMaps, ProcessStartsMaps DEF Breaker!BNext
<1>5. CASE TimePasses
  BY <1>5, TimePassesMaps DEF Breaker!BNext
<1>6. CASE BeginProbing
  BY <1>6, BeginProbingMaps DEF Breaker!BNext
<1>7. CASE JudgeFailure
  BY <1>7, JudgeFailureMaps DEF Breaker!BNext
<1>8. CASE JudgeSuccess
  BY <1>8, JudgeSuccessMaps DEF Breaker!BNext
<1>9. QED
  BY <1>1, <1>2, <1>3, <1>4, <1>5, <1>6, <1>7, <1>8 DEF Next, Perform, Environment

(* The two flags, the count and the time of circuit.go, with Retry, the     *)
(* cancellations and the restarts around them, implement the three states   *)
(* of docs/architecture.md, for every threshold, cooldown and number of     *)
(* retries.                                                                 *)
THEOREM PipelineRefinesBreaker == Spec => ImplementsBreaker
<1>1. PipelineInv /\ [Next]_vars
        => [Breaker!BNext]_<<PhaseOfCircuit, FailuresOfCircuit, RestOfCircuit, InRetry>>
  BY BreakerStep
<1>2. Breaker!states = <<PhaseOfCircuit, FailuresOfCircuit, RestOfCircuit, InRetry>>
  BY DEF Breaker!states
<1>3. QED
  BY <1>1, BreakerInit, PipelineInvariant, PTL
  DEF Spec, ImplementsBreaker, Breaker!BSpec, Breaker!states
=============================================================================
