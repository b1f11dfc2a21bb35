----------------------------- MODULE ResultLog -----------------------------
(***************************************************************************)
(* What the repository promises about RecordResult, with no transaction,   *)
(* no lock and no connection: a result is recorded in one step, together   *)
(* with the transition and the alert that follow from the tables as they   *)
(* are in that step, under an identifier higher than those of the          *)
(* endpoint's results before it.  PostgresStore implements it.             *)
(***************************************************************************)
EXTENDS RecordRules

CONSTANTS
  Endpoint,  \* the endpoints
  State      \* the states a result can have

VARIABLES results, transitions, alerts

LInit == results = {} /\ transitions = {} /\ alerts = {}

Record(r) ==
  LET from == LatestState(results, r.endpoint)
  IN  /\ \A s \in results : s.endpoint = r.endpoint => s.id < r.id
      /\ results' = results \cup {r}
      /\ transitions' = transitions \cup TransitionRows(from, r)
      /\ alerts' = alerts \cup AlertRows(alerts, from, r)

(* r is the row that the step adds.                                         *)
LNext ==
  \E r \in results' \ results :
    r \in [id : Nat, endpoint : Endpoint, at : Nat, state : State] /\ Record(r)

LSpec == LInit /\ [][LNext]_<<results, transitions, alerts>>
=============================================================================
