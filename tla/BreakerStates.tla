--------------------------- MODULE BreakerStates ---------------------------
(***************************************************************************)
(* The circuit breaker of one endpoint as docs/architecture.md tells it,   *)
(* with three states in place of two flags and a time: "After the          *)
(* configured number of consecutive failures, the endpoint circuit opens.  *)
(* Checks are skipped during cooldown.  Exactly one half-open probe is     *)
(* allowed afterward; success closes the circuit and failure reopens it."  *)
(* The one probe is one check with its retries.  CheckPipeline implements  *)
(* this module.                                                            *)
(***************************************************************************)
EXTENDS Naturals

CONSTANTS
  Threshold,  \* consecutive failures that open the circuit
  Cooldown    \* time an open circuit rests

VARIABLES
  phase,     \* closed, open, halfOpen, or gone without a process
  failures,  \* consecutive failures while it is closed
  rested,    \* time for which it has been open
  checking   \* a check is under way

states == <<phase, failures, rested, checking>>

BInit == phase = "gone" /\ failures = 0 /\ rested = 0 /\ checking = FALSE

(* A process begins with a closed circuit, and takes its circuit along.     *)
Appear ==
  /\ phase = "gone" /\ phase' = "closed"
  /\ UNCHANGED <<failures, rested, checking>>
Vanish ==
  /\ phase # "gone" /\ phase' = "gone"
  /\ failures' = 0 /\ rested' = 0 /\ checking' = FALSE

Check ==
  /\ phase = "closed" /\ ~checking
  /\ checking' = TRUE
  /\ UNCHANGED <<phase, failures, rested>>

Rest ==
  /\ phase = "open" /\ rested < Cooldown
  /\ rested' = rested + 1
  /\ UNCHANGED <<phase, failures, checking>>

(* Only an open circuit that has rested becomes half-open, with its check.  *)
TryAgain ==
  /\ phase = "open" /\ rested = Cooldown
  /\ phase' = "halfOpen" /\ rested' = 0 /\ checking' = TRUE
  /\ UNCHANGED failures

Tolerate ==
  /\ checking /\ phase = "closed" /\ failures + 1 < Threshold
  /\ failures' = failures + 1 /\ checking' = FALSE
  /\ UNCHANGED <<phase, rested>>

Open ==
  /\ checking /\ (phase = "halfOpen" \/ failures + 1 = Threshold)
  /\ phase' = "open" /\ failures' = 0 /\ rested' = 0 /\ checking' = FALSE

Close ==
  /\ checking
  /\ phase' = "closed" /\ failures' = 0 /\ rested' = 0 /\ checking' = FALSE

BNext == Appear \/ Vanish \/ Check \/ Rest \/ TryAgain \/ Tolerate \/ Open \/ Close

BSpec == BInit /\ [][BNext]_states
=============================================================================
