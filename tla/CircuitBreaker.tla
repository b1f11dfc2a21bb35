--------------------------- MODULE CircuitBreaker ---------------------------
(***************************************************************************)
(* The circuit of one key in internal/resilience/circuit.go, and what each *)
(* method of CircuitBreaker makes of it.  Every method holds the mutex     *)
(* from its first line to its last, so each is one step of its caller.     *)
(*                                                                         *)
(* openedAt is kept as a flag and an age: open says that it is not zero,   *)
(* age is the time since then, in units of which Cooldown is a multiple.   *)
(* Two bounds: age stops at Cooldown and failures at Threshold, the values *)
(* from which the code no longer tells larger ones apart.                  *)
(***************************************************************************)
EXTENDS Naturals

CONSTANTS
  Threshold,  \* consecutive failures that open the circuit
  Cooldown    \* time an open circuit sends nothing

(* config.applyDefaults replaces zero values.  Validate lets negative ones  *)
(* pass; they are left out (such a threshold opens like Threshold = 1).     *)
ASSUME BreakerAssumption ==
  /\ Threshold \in Nat \ {0}
  /\ Cooldown \in Nat \ {0}

Circuit == [failures : 0..Threshold, open : BOOLEAN, age : 0..Cooldown,
            halfOpen : BOOLEAN]

(* Counting up to a bound.                                                  *)
UpTo(bound, n) == IF n < bound THEN n + 1 ELSE bound

(* A key without an entry in items has the circuit item() makes for it.     *)
NewCircuit == [failures |-> 0, open |-> FALSE, age |-> 0, halfOpen |-> FALSE]

(* Allow: its answer, and the circuit it leaves.                            *)
Allowed(c) == ~c.open \/ (c.age >= Cooldown /\ ~c.halfOpen)
(* Mutant: the probe that is let through leaves no mark.                    *)
AllowUnmarked(c) == c
AfterAllow(c) == IF Allowed(c) /\ c.open THEN [c EXCEPT !.halfOpen = TRUE] ELSE c

(* Mutant: a success does not forget the failures before it.                *)
SuccessKeepsFailures(c) == [NewCircuit EXCEPT !.failures = c.failures]

(* Success deletes the entry.                                               *)
AfterSuccess(c) == NewCircuit

(* Mutants: the half-open mark survives a failed probe; openedAt is set     *)
(* only once.                                                               *)
FailureKeepsHalfOpen(c) ==
  LET n == UpTo(Threshold, c.failures)
  IN  IF n >= Threshold
        THEN [c EXCEPT !.failures = n, !.open = TRUE, !.age = 0]
        ELSE [c EXCEPT !.failures = n]
FailureKeepsOpenedAt(c) ==
  LET n == UpTo(Threshold, c.failures)
  IN  IF n >= Threshold
        THEN [c EXCEPT !.halfOpen = FALSE, !.failures = n, !.open = TRUE]
        ELSE [c EXCEPT !.halfOpen = FALSE, !.failures = n]

(* Failure: the circuit it leaves; it answers whether that one is open.     *)
AfterFailure(c) ==
  LET n == UpTo(Threshold, c.failures)
  IN  IF n >= Threshold
        THEN [c EXCEPT !.halfOpen = FALSE, !.failures = n, !.open = TRUE, !.age = 0]
        ELSE [c EXCEPT !.halfOpen = FALSE, !.failures = n]
FailureOpens(c) == UpTo(Threshold, c.failures) >= Threshold

IsOpen(c) == c.open /\ c.age < Cooldown

(* A unit of time passes.                                                   *)
Older(c) == IF c.open THEN [c EXCEPT !.age = UpTo(Cooldown, c.age)] ELSE c
=============================================================================
