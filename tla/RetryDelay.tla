----------------------------- MODULE RetryDelay -----------------------------
(***************************************************************************)
(* retryDelay of internal/resilience/retry.go: the wait before a retry.    *)
(* Durations are integers, as in Go; the random factor between 0.8 and 1.2 *)
(* is any of the durations it can lead to.                                 *)
(***************************************************************************)
EXTENDS Integers

(* Mutant: the delay grows by the base instead of doubling.                 *)
BackoffLinear(attempt, base, max) ==
  IF max > 0 /\ base * (attempt + 1) > max THEN max ELSE base * (attempt + 1)

(* The delay after attempt retries, before the random factor.  The loop     *)
(* stops doubling at half the maximum, rounded down.                        *)
Backoff(attempt, base, max) ==
  LET doubled[n \in 0..attempt] ==
        IF n = 0 THEN base
        ELSE IF max > 0 /\ doubled[n - 1] >= max \div 2 THEN max
        ELSE 2 * doubled[n - 1]
  IN  IF max > 0 /\ doubled[attempt] > max THEN max ELSE doubled[attempt]

(* What retryDelay can return.                                              *)
RetryDelays(attempt, base, max) ==
  IF base <= 0 THEN {0}
  ELSE LET delay == Backoff(attempt, base, max)
       IN  ((8 * delay) \div 10)..((12 * delay) \div 10)
=============================================================================
