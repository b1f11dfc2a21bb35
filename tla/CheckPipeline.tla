--------------------------- MODULE CheckPipeline ---------------------------
(***************************************************************************)
(* One endpoint's checks, from Service.perform to the committed row:       *)
(* maintenance, circuit breaker, the retry loop of resilience.Retry, the   *)
(* gauges set by telemetry, RecordResult, and the process around them that *)
(* is cancelled, crashes and starts again with an empty breaker while the  *)
(* database keeps what it has.                                             *)
(*                                                                         *)
(* Scheduler shows that checks of one endpoint never overlap and that      *)
(* checks of different endpoints share nothing but the semaphore, so one   *)
(* endpoint and one perform at a time are enough here.                     *)
(***************************************************************************)
EXTENDS CircuitBreaker

CONSTANT Retries   \* endpoint.Retries: probes after the first

ASSUME PipelineAssumption == Retries \in Nat

VARIABLES
  stage,        \* where perform is
  attempt,      \* number of probes of this perform, the running one included
  result,       \* the variable result of perform
  circuit,      \* the breaker's circuit of the endpoint
  gauge,        \* the endpoint's series: state and circuit gauge
  stored,       \* the latest committed result of the endpoint
  storeFailed,  \* the last RecordResult ended in StorageError()
  cancelled,    \* the root context is cancelled
  target,       \* what a probe of the target finds
  maintenance,  \* a maintenance window of the endpoint is open
  dbUp,         \* the database serves transactions
  streak,       \* ghost: Unavailable verdicts of probes in a row
  sinceVerdict  \* ghost: time since the last of them

environment == <<target, maintenance, dbUp>>
ghosts == <<streak, sinceVerdict>>
vars == <<stage, attempt, result, circuit, gauge, stored, storeFailed, cancelled,
          environment, ghosts>>

Stage == {"down", "idle", "probing", "backoff", "judging", "observing",
          "recording", "committing"}
InRetry == stage \in {"probing", "backoff", "judging"}

ProbeState == {"Healthy", "Degraded", "Unavailable"}
State == ProbeState \cup {"Maintenance", "Unknown"}

(* A CheckResult; skipped and aborted are ghosts that say where it is from: *)
(* the open circuit, or a probe or a wait that the cancellation cut short.  *)
Result == [state : State, circuitOpen : BOOLEAN, attempts : 0..(Retries + 1),
           skipped : BOOLEAN, aborted : BOOLEAN]
NoResult == [state |-> "Unknown", circuitOpen |-> FALSE, attempts |-> 0,
             skipped |-> FALSE, aborted |-> FALSE]
Gauge == [state : State, circuitOpen : BOOLEAN]
NoGauge == [state |-> "Unknown", circuitOpen |-> FALSE]

Init ==
  /\ stage = "down"
  /\ attempt = 0
  /\ result = NoResult
  /\ circuit = NewCircuit
  /\ gauge = NoGauge
  /\ stored = NoResult
  /\ storeFailed = FALSE
  /\ cancelled = FALSE
  /\ target \in ProbeState
  /\ maintenance \in BOOLEAN
  /\ dbUp \in BOOLEAN
  /\ streak = 0
  /\ sinceVerdict = 0

-----------------------------------------------------------------------------
(* The environment.                                                         *)
TargetChanges ==
  /\ \E s \in ProbeState \ {target} : target' = s
  /\ UNCHANGED <<stage, attempt, result, circuit, gauge, stored, storeFailed,
                 cancelled, maintenance, dbUp, ghosts>>

MaintenanceChanges ==
  /\ maintenance' = ~maintenance
  /\ UNCHANGED <<stage, attempt, result, circuit, gauge, stored, storeFailed,
                 cancelled, target, dbUp, ghosts>>

DatabaseChanges ==
  /\ dbUp' = ~dbUp
  /\ UNCHANGED <<stage, attempt, result, circuit, gauge, stored, storeFailed,
                 cancelled, target, maintenance, ghosts>>

(* Time passes; only the cooldown is measured.                              *)
TimePasses ==
  /\ circuit' = Older(circuit)
  /\ sinceVerdict' = UpTo(Cooldown, sinceVerdict)
  /\ UNCHANGED <<stage, attempt, result, gauge, stored, storeFailed, cancelled,
                 environment, streak>>

Cancel ==
  /\ stage # "down"
  /\ ~cancelled
  /\ cancelled' = TRUE
  /\ UNCHANGED <<stage, attempt, result, circuit, gauge, stored, storeFailed,
                 environment, ghosts>>

(* The process ends, after a cancellation or by a crash at any point.       *)
ProcessEnds ==
  /\ stage # "down"
  /\ stage' = "down"
  /\ UNCHANGED <<attempt, result, circuit, gauge, stored, storeFailed, cancelled,
                 environment, ghosts>>

(* A new process has reached the database and synchronised the endpoints;   *)
(* the breaker and the metrics are new.                                     *)
ProcessStarts ==
  /\ stage = "down"
  /\ dbUp
  /\ stage' = "idle"
  /\ attempt' = 0
  /\ result' = NoResult
  /\ circuit' = NewCircuit
  /\ gauge' = NoGauge
  /\ storeFailed' = FALSE
  /\ cancelled' = FALSE
  /\ streak' = 0
  /\ sinceVerdict' = 0
  /\ UNCHANGED <<stored, environment>>

-----------------------------------------------------------------------------
(* perform: the endpoint is in maintenance, nothing is probed and the       *)
(* breaker is not asked.                                                    *)
BeginMaintenance ==
  /\ stage = "idle"
  /\ maintenance
  /\ result' = [NoResult EXCEPT !.state = "Maintenance"]
  /\ attempt' = 0
  /\ stage' = "observing"
  /\ UNCHANGED <<circuit, gauge, stored, storeFailed, cancelled, environment, ghosts>>

(* Mutant: a skipped check is reported as Unknown.                          *)
BeginSkippedUnknown ==
  /\ stage = "idle"
  /\ ~maintenance
  /\ ~Allowed(circuit)
  /\ result' = [NoResult EXCEPT !.circuitOpen = TRUE, !.skipped = TRUE]
  /\ attempt' = 0
  /\ stage' = "observing"
  /\ UNCHANGED <<circuit, gauge, stored, storeFailed, cancelled, environment, ghosts>>

(* perform: Allow answers false, the check is skipped.                      *)
BeginSkipped ==
  /\ stage = "idle"
  /\ ~maintenance
  /\ ~Allowed(circuit)
  /\ result' = [NoResult EXCEPT !.state = "Unavailable", !.circuitOpen = TRUE,
                                !.skipped = TRUE]
  /\ attempt' = 0
  /\ stage' = "observing"
  /\ UNCHANGED <<circuit, gauge, stored, storeFailed, cancelled, environment, ghosts>>

(* perform: Allow answers true, Retry makes its first call of Check.        *)
BeginProbing ==
  /\ stage = "idle"
  /\ ~maintenance
  /\ Allowed(circuit)
  /\ circuit' = AfterAllow(circuit)
  /\ attempt' = 1
  /\ stage' = "probing"
  /\ UNCHANGED <<result, gauge, stored, storeFailed, cancelled, environment, ghosts>>

(* Mutant: Retry makes one probe too few.                                   *)
ProbeReturnsEarly ==
  /\ stage = "probing"
  /\ result' = [NoResult EXCEPT !.state = target, !.attempts = attempt]
  /\ stage' = IF target # "Unavailable" \/ attempt >= Retries
                THEN "judging" ELSE "backoff"
  /\ UNCHANGED <<attempt, circuit, gauge, stored, storeFailed, cancelled,
                 environment, ghosts>>

(* Retry: Check returns what it found, or Unavailable because the cancelled *)
(* context cut it short; the loop ends or waits for the next probe.         *)
ProbeReturns ==
  /\ stage = "probing"
  /\ \E aborted \in {FALSE, cancelled} :
       LET s == IF aborted THEN "Unavailable" ELSE target
       IN  /\ result' = [NoResult EXCEPT !.state = s, !.attempts = attempt,
                                         !.aborted = aborted]
           /\ stage' = IF s # "Unavailable" \/ attempt = Retries + 1
                         THEN "judging" ELSE "backoff"
  /\ UNCHANGED <<attempt, circuit, gauge, stored, storeFailed, cancelled,
                 environment, ghosts>>

(* Retry: the timer fires, the next probe starts.                           *)
BackoffEnds ==
  /\ stage = "backoff"
  /\ attempt' = attempt + 1
  /\ stage' = "probing"
  /\ UNCHANGED <<result, circuit, gauge, stored, storeFailed, cancelled,
                 environment, ghosts>>

(* Retry: the context is cancelled during the wait.                         *)
BackoffCancelled ==
  /\ stage = "backoff"
  /\ cancelled
  /\ result' = [result EXCEPT !.aborted = TRUE]
  /\ stage' = "judging"
  /\ UNCHANGED <<attempt, circuit, gauge, stored, storeFailed, cancelled,
                 environment, ghosts>>

(* perform: the verdict is given to the breaker.                            *)
JudgeFailure ==
  /\ stage = "judging"
  /\ result.state = "Unavailable"
  /\ circuit' = AfterFailure(circuit)
  /\ result' = [result EXCEPT !.circuitOpen = FailureOpens(circuit)]
  /\ streak' = UpTo(Threshold, streak)
  /\ sinceVerdict' = 0
  /\ stage' = "observing"
  /\ UNCHANGED <<attempt, gauge, stored, storeFailed, cancelled, environment>>

JudgeSuccess ==
  /\ stage = "judging"
  /\ result.state # "Unavailable"
  /\ circuit' = AfterSuccess(circuit)
  /\ streak' = 0
  /\ stage' = "observing"
  /\ UNCHANGED <<attempt, result, gauge, stored, storeFailed, cancelled,
                 environment, sinceVerdict>>

(* perform: Observe sets the series of the endpoint.                        *)
Observe ==
  /\ stage = "observing"
  /\ gauge' = [state |-> result.state, circuitOpen |-> result.circuitOpen]
  /\ stage' = "recording"
  /\ UNCHANGED <<attempt, result, circuit, stored, storeFailed, cancelled,
                 environment, ghosts>>

-----------------------------------------------------------------------------
(* Mutants: the context of the transaction is not the root context; the     *)
(* error is not counted.                                                    *)
BeginRecordDetached ==
  /\ stage = "recording"
  /\ dbUp
  /\ stage' = "committing"
  /\ UNCHANGED <<attempt, result, circuit, gauge, stored, storeFailed, cancelled,
                 environment, ghosts>>
RecordRefusedSilently ==
  /\ stage = "recording"
  /\ cancelled \/ ~dbUp
  /\ storeFailed' = FALSE
  /\ stage' = "idle"
  /\ UNCHANGED <<attempt, result, circuit, gauge, stored, cancelled, environment, ghosts>>

(* RecordResult: the transaction begins.  It cannot on a cancelled context  *)
(* or when the database is away; perform then counts a storage error.       *)
BeginRecord ==
  /\ stage = "recording"
  /\ ~cancelled
  /\ dbUp
  /\ stage' = "committing"
  /\ UNCHANGED <<attempt, result, circuit, gauge, stored, storeFailed, cancelled,
                 environment, ghosts>>

RecordRefused ==
  /\ stage = "recording"
  /\ cancelled \/ ~dbUp
  /\ storeFailed' = TRUE
  /\ stage' = "idle"
  /\ UNCHANGED <<attempt, result, circuit, gauge, stored, cancelled, environment, ghosts>>

(* The transaction commits and perform learns of it.                        *)
CommitSucceeds ==
  /\ stage = "committing"
  /\ dbUp
  /\ stored' = result
  /\ storeFailed' = FALSE
  /\ stage' = "idle"
  /\ UNCHANGED <<attempt, result, circuit, gauge, cancelled, environment, ghosts>>

(* The transaction fails, or it commits and the answer is lost.             *)
CommitFails ==
  /\ stage = "committing"
  /\ cancelled \/ ~dbUp
  /\ stored' \in {stored, result}
  /\ storeFailed' = TRUE
  /\ stage' = "idle"
  /\ UNCHANGED <<attempt, result, circuit, gauge, cancelled, environment, ghosts>>

-----------------------------------------------------------------------------
Perform ==
  \/ BeginMaintenance \/ BeginSkipped \/ BeginProbing
  \/ ProbeReturns \/ BackoffEnds \/ BackoffCancelled
  \/ JudgeFailure \/ JudgeSuccess \/ Observe
  \/ BeginRecord \/ RecordRefused \/ CommitSucceeds \/ CommitFails

Environment ==
  \/ TargetChanges \/ MaintenanceChanges \/ DatabaseChanges \/ TimePasses
  \/ Cancel \/ ProcessEnds \/ ProcessStarts

Next == Perform \/ Environment

(* The scheduler keeps calling perform (ProbesContinue) and time passes.    *)
Spec == Init /\ [][Next]_vars
FairSpec == Spec /\ WF_vars(Perform) /\ WF_vars(TimePasses)

-----------------------------------------------------------------------------
TypeOK ==
  /\ stage \in Stage
  /\ attempt \in 0..(Retries + 1)
  /\ result \in Result
  /\ circuit \in Circuit
  /\ gauge \in Gauge
  /\ stored \in Result
  /\ storeFailed \in BOOLEAN
  /\ cancelled \in BOOLEAN
  /\ target \in ProbeState
  /\ maintenance \in BOOLEAN
  /\ dbUp \in BOOLEAN
  /\ streak \in 0..Threshold
  /\ sinceVerdict \in 0..Cooldown

(* The half-open mark is set only while its probe is under way: every way   *)
(* out of the retry loop clears it.  A mark that stayed would refuse the    *)
(* endpoint for ever.                                                       *)
HalfOpenOnlyWhileChecking == stage # "down" /\ circuit.halfOpen => InRetry

(* After Threshold failed checks in a row no probe is sent for a cooldown,  *)
(* counted from the last of them: also from a failed half-open probe, also  *)
(* across maintenance windows.                                              *)
CooldownRespected ==
  InRetry /\ streak >= Threshold => sinceVerdict >= Cooldown

(* A check is skipped as Unavailable only when the last Threshold checks    *)
(* that probed found the endpoint unavailable: what README.md means by the  *)
(* last confirmed condition.                                                *)
SkipMeansOutage ==
  stage \in {"observing", "recording", "committing"} /\ result.skipped
    => streak >= Threshold

(* No stored outage comes from this process being told to stop: a probe or  *)
(* a wait cut short by the cancellation never reaches the database.         *)
NoShutdownOutageStored == ~stored.aborted

(* A stored outage was seen by every probe the endpoint is allowed, or is   *)
(* that of an open circuit.                                                 *)
StoredOutageConfirmed ==
  stored.state = "Unavailable" => stored.skipped \/ stored.attempts = Retries + 1

(* Between two checks the state gauge and the latest stored result agree,   *)
(* unless the storage error of that check was counted.                      *)
GaugeAgreesWithStore ==
  stage = "idle" /\ ~storeFailed /\ gauge # NoGauge => gauge.state = stored.state

(* What holds from some point on for the endings below: nobody stops the    *)
(* process, the database serves, no maintenance.                            *)
Undisturbed == stage # "down" /\ ~cancelled /\ dbUp /\ ~maintenance

(* An endpoint that stays healthy ends up stored as healthy: no state of    *)
(* the breaker keeps it out.                                                *)
RecoveryRecorded ==
  <>[](Undisturbed /\ target = "Healthy") => <>[](stored.state = "Healthy")

(* An endpoint that stays down ends up, and stays, stored as unavailable:   *)
(* skipped checks do not look like recoveries.                              *)
OutageRecorded ==
  <>[](Undisturbed /\ target = "Unavailable") => <>[](stored.state = "Unavailable")

(* Refinement: the flags and the time of the circuit are the three states   *)
(* that docs/architecture.md tells of.  Every circuit that opens rests for  *)
(* the cooldown; what then leaves the open state is one check, which ends   *)
(* it closed or open with a cooldown that has all to run; and no check      *)
(* begins beside it.  Without a process there is no circuit.                *)
PhaseOfCircuit ==
  IF stage = "down" THEN "gone"
  ELSE IF ~circuit.open THEN "closed"
  ELSE IF circuit.halfOpen THEN "halfOpen" ELSE "open"
FailuresOfCircuit == IF PhaseOfCircuit = "closed" THEN circuit.failures ELSE 0
RestOfCircuit == IF PhaseOfCircuit = "open" THEN circuit.age ELSE 0
Breaker == INSTANCE BreakerStates
  WITH phase <- PhaseOfCircuit, failures <- FailuresOfCircuit, rested <- RestOfCircuit,
       checking <- InRetry
ImplementsBreaker == Breaker!BSpec

(* docs/architecture.md: "Exactly one half-open probe is allowed            *)
(* afterward"; README.md: "single half-open recovery probe".                *)
HalfOpenSingleProbe == InRetry /\ circuit.halfOpen => attempt = 1

(* The help of watchdog_circuit_breaker_open: "Whether an endpoint circuit  *)
(* is open."  Between two checks of a process that has observed one.        *)
CircuitGaugeTruthful ==
  stage = "idle" /\ gauge # NoGauge /\ IsOpen(circuit) => gauge.circuitOpen
=============================================================================
