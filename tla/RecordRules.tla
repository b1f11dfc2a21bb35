---------------------------- MODULE RecordRules ----------------------------
(***************************************************************************)
(* What internal/store/postgres.go asks of the tables check_results,       *)
(* state_transitions and alerts when it records a result.  A table is a    *)
(* set of rows; a row keeps the columns that decide anything: endpoint,    *)
(* time, state and, for the order of equal times, id.                      *)
(***************************************************************************)
EXTENDS Naturals

CONSTANT Window   \* alerting.dedupeWindow

ASSUME WindowAssumption == Window \in Nat

(* ORDER BY checked_at, id                                                  *)
Before(r, s) == r.at < s.at \/ (r.at = s.at /\ r.id < s.id)

(* SELECT state ... ORDER BY checked_at DESC, id DESC LIMIT 1; Unknown when *)
(* the endpoint has no row.                                                 *)
LatestState(results, e) ==
  LET own == {r \in results : r.endpoint = e}
  IN  IF own = {} THEN "Unknown"
      ELSE (CHOOSE r \in own : \A s \in own : s = r \/ Before(s, r)).state

Alertable(s) == s \in {"Degraded", "Unavailable"}

(* The rows that follow from result r when the endpoint was in state from.  *)
TransitionRows(from, r) ==
  IF from = r.state THEN {}
  ELSE {[id |-> r.id, endpoint |-> r.endpoint, at |-> r.at, from |-> from, to |-> r.state]}

(* Mutants: the dedupe key lacks the state; the key is not looked up.       *)
DuplicateOfAnyState(alerts, r) ==
  \E a \in alerts : a.endpoint = r.endpoint /\ a.at + Window >= r.at
NeverDuplicate(alerts, r) == FALSE

(* EXISTS (SELECT 1 FROM alerts WHERE dedupe_key = ... AND created_at >= ...) *)
Duplicate(alerts, r) ==
  \E a \in alerts : a.endpoint = r.endpoint /\ a.state = r.state /\ a.at + Window >= r.at

AlertRows(alerts, from, r) ==
  IF /\ Alertable(r.state) \/ (from # r.state /\ r.state = "Healthy")
     /\ ~Duplicate(alerts, r)
    THEN {[id |-> r.id, endpoint |-> r.endpoint, at |-> r.at, state |-> r.state]}
    ELSE {}
=============================================================================
