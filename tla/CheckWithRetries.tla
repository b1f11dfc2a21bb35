-------------------------- MODULE CheckWithRetries --------------------------
(***************************************************************************)
(* resilience.Retry around Checker.Check, as perform calls it: a probe, a  *)
(* wait that grows, another probe of a target that may have changed, until *)
(* a probe is not Unavailable, the retries are used up, or the root        *)
(* context is cancelled.                                                   *)
(***************************************************************************)
EXTENDS Checker, RetryDelay

CONSTANTS
  Retries,  \* endpoint.Retries
  Delays    \* the pairs of scheduler.retryBaseDelay and retryMaxDelay to try

ASSUME RetryAssumption ==
  /\ Retries \in Nat
  /\ Delays \subseteq [base : Int, max : Int]

VARIABLES
  loop,     \* where Retry is: in check, waiting, or returned
  attempt,  \* Retry's attempt
  delays,   \* the two delays of the configuration
  delay,    \* the last retryDelay
  wait      \* what is left of the timer

retry == <<loop, attempt, delays, delay, wait>>
allVars == <<vars, retry>>

RetryInit ==
  /\ Init
  /\ loop = "checking"
  /\ attempt = 0
  /\ delays \in Delays
  /\ delay = 0
  /\ wait = 0

AnyTarget == CHOOSE t \in Target : TRUE

(* A step of Check, or of its surroundings while it runs.                   *)
CheckStep(A) == loop = "checking" /\ A /\ UNCHANGED retry

(* check returned and Retry returns its result.                             *)
Judge ==
  /\ loop = "checking" /\ stage = "returned"
  /\ state # "Unavailable" \/ attempt = Retries
  /\ loop' = "returned"
  /\ UNCHANGED <<vars, attempt, delays, delay, wait>>

(* check returned Unavailable and there are retries left; what the probe    *)
(* found no longer matters but for the state.                               *)
Backs ==
  /\ loop = "checking" /\ stage = "returned"
  /\ state = "Unavailable" /\ attempt # Retries
  /\ delay' \in RetryDelays(attempt, delays.base, delays.max)
  /\ wait' = delay'
  /\ loop' = "waiting"
  /\ stage' = "started" /\ target' = AnyTarget
  /\ left' = 0 /\ latency' = 0 /\ interrupted' = FALSE
  /\ UNCHANGED <<state, cancelled, attempt, delays>>

WaitPasses ==
  /\ loop = "waiting" /\ wait > 0
  /\ wait' = wait - 1
  /\ UNCHANGED <<vars, loop, attempt, delays, delay>>

CancelWhileWaiting ==
  /\ loop = "waiting"
  /\ Cancel
  /\ UNCHANGED retry

(* Mutant: the next probe begins without counting the last.                 *)
NextProbeUncounted ==
  /\ loop = "waiting" /\ wait = 0
  /\ state' = "Unknown" /\ target' \in Target
  /\ loop' = "checking"
  /\ UNCHANGED <<stage, left, latency, interrupted, cancelled, attempt, delays, delay, wait>>

(* The timer fires: Check is called again.  With the context cancelled too, *)
(* the select takes either.                                                 *)
NextProbe ==
  /\ loop = "waiting" /\ wait = 0
  /\ state' = "Unknown" /\ target' \in Target
  /\ attempt' = attempt + 1
  /\ loop' = "checking"
  /\ UNCHANGED <<stage, left, latency, interrupted, cancelled, delays, delay, wait>>

(* The context ends the wait; the result stays Unavailable.                 *)
RetryCancelled ==
  /\ loop = "waiting" /\ cancelled
  /\ loop' = "returned"
  /\ UNCHANGED <<vars, attempt, delays, delay, wait>>

RetryNext ==
  \/ CheckStep(Check) \/ CheckStep(TimePasses) \/ CheckStep(Cancel)
  \/ Judge \/ Backs \/ WaitPasses \/ CancelWhileWaiting \/ NextProbe \/ RetryCancelled
  \/ loop = "returned" /\ UNCHANGED allVars

RetrySpec == RetryInit /\ [][RetryNext]_allVars
(* As in Checker: nothing makes the target answer.  Timers fire.            *)
FairRetrySpec ==
  /\ RetrySpec
  /\ WF_allVars(CheckStep(TimePasses))
  /\ WF_allVars(CheckStep(NoHost \/ Lookup \/ LookupFails \/ ConnectFails \/ ReadFails \/ Measure))
  /\ WF_allVars(Judge \/ Backs \/ WaitPasses \/ NextProbe)

-----------------------------------------------------------------------------
(* What docs/architecture.md says of the delay: "Backoff doubles from the   *)
(* configured base delay, is capped, and receives +/-20% jitter".           *)
DocumentedBackoff ==
  LET doubled == delays.base * 2^attempt
  IN  IF delays.max > 0 /\ doubled > delays.max THEN delays.max ELSE doubled

(* The wait before a retry is within a fifth of the documented one, but for *)
(* the unit lost when the factor is applied or half an odd maximum taken;   *)
(* without a base delay there is no wait.                                   *)
BackoffAsDocumented ==
  loop = "waiting" =>
    IF delays.base <= 0 THEN delay = 0
    ELSE /\ 10 * (delay + 1) > 8 * DocumentedBackoff
         /\ 10 * delay <= 12 * (DocumentedBackoff + 1)

(* Retry returns, whatever the targets of its probes do: the scheduler's    *)
(* workers and slots depend on it.                                          *)
RetryReturns == <>(loop = "returned")

(* The longest wait: a fifth more than the maximum, or, without one, than   *)
(* the base delay can become.                                               *)
LongestWait ==
  LET longest == IF delays.max > 0 THEN delays.max ELSE delays.base * 2^Retries
  IN  IF delays.base <= 0 THEN 0 ELSE (12 * longest) \div 10

Turn == LongestWait + 2 * Timeout
LongestCheck == 2 * Timeout + Retries * Turn

(* The time that the probe under way, and Retry, can still take.            *)
ProbeLeft ==
  CASE stage = "started" -> 2 * Timeout
    [] stage = "resolving" -> left + Timeout
    [] stage \in {"connecting", "reading"} -> left
    [] OTHER -> 0
TimeLeft ==
  CASE loop = "checking" -> ProbeLeft + (Retries - attempt) * Turn
    [] loop = "waiting" -> wait + 2 * Timeout + (Retries - attempt - 1) * Turn
    [] OTHER -> 0

(* How long a check with its retries can hold its worker and slot: two      *)
(* timeouts per probe and the longest wait between two of them, whatever    *)
(* the targets do.  Nothing gives back time that has passed: no step        *)
(* restarts a timeout, a wait or the count of the retries.                  *)
RetryEndsInTime ==
  /\ [](TimeLeft \in 0..LongestCheck)
  /\ [][/\ TimeLeft' <= TimeLeft
        /\ CheckStep(TimePasses) \/ WaitPasses => TimeLeft' < TimeLeft]_allVars
=============================================================================
