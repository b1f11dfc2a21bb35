----------------------------- MODULE CheckCycle -----------------------------
(***************************************************************************)
(* What the scheduler of internal/monitor promises about each endpoint,    *)
(* with no channel, no worker and no clock: an endpoint goes round one     *)
(* cycle, so that it is never queued twice nor checked by two workers at   *)
(* once, no more than ConcurrencyLimit endpoints are checked at any time,  *)
(* and only a cancelled context makes an endpoint miss its check or leave  *)
(* the cycle.  CircuitBreaker, RecordResult's order of results and the     *)
(* state gauge all rely on that.  Scheduler implements this module.        *)
(***************************************************************************)
EXTENDS Naturals, FiniteSets

CONSTANTS
  Endpoint,         \* the configured endpoints
  ConcurrencyLimit  \* the endpoints that can be checked at once

VARIABLES
  phase,     \* where each endpoint is in its cycle
  cancelled  \* the context has been cancelled

Phase == {"resting", "queued", "checking", "finished", "abandoned"}

Move(e, from, to) ==
  /\ phase[e] = from
  /\ phase' = [phase EXCEPT ![e] = to]
  /\ UNCHANGED cancelled

CInit ==
  /\ phase = [e \in Endpoint |-> "resting"]
  /\ cancelled = FALSE

Queue(e) == Move(e, "resting", "queued")

Begin(e) ==
  /\ Cardinality({f \in Endpoint : phase[f] = "checking"}) < ConcurrencyLimit
  /\ Move(e, "queued", "checking")

End(e) == Move(e, "checking", "finished")

(* The context was cancelled before the check of e could start.             *)
Skip(e) == cancelled /\ Move(e, "queued", "finished")

Rest(e) == Move(e, "finished", "resting")

(* The worker of e stopped without telling the scheduler.                   *)
Abandon(e) == cancelled /\ Move(e, "finished", "abandoned")

CCancel ==
  /\ ~cancelled
  /\ cancelled' = TRUE
  /\ UNCHANGED phase

CNext ==
  \/ CCancel
  \/ \E e \in Endpoint :
       Queue(e) \/ Begin(e) \/ End(e) \/ Skip(e) \/ Rest(e) \/ Abandon(e)

CSpec == CInit /\ [][CNext]_<<phase, cancelled>>
=============================================================================
