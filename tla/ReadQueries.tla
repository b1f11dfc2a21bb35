---------------------------- MODULE ReadQueries ----------------------------
(***************************************************************************)
(* The queries of internal/store/postgres.go on the tables of RecordRules, *)
(* and the limit that internal/web/server.go passes to them.  A row of     *)
(* check_results has its latency here too.                                 *)
(***************************************************************************)
EXTENDS RecordRules, Integers, Sequences, FiniteSets

CONSTANTS
  Endpoint,      \* the endpoints of the configuration
  DefaultLimit,  \* rows of an answer to a request that names no valid number
  MaxLimit       \* the most rows of an answer

(* SELECT DISTINCT ON (endpoint_id) ... ORDER BY endpoint_id, checked_at    *)
(* DESC, id DESC: the endpoints with a result and the latest of each.       *)
LatestResults(results) ==
  [e \in {r.endpoint : r \in results} |->
    CHOOSE r \in results :
      r.endpoint = e /\ \A s \in results : s.endpoint = e => s = r \/ Before(s, r)]

Eligible(r) == r.state # "Maintenance"
Good(r) == r.state \in {"Healthy", "Degraded"}
LatencyGood(r, target) == Eligible(r) /\ r.state # "Unavailable" /\ r.latency <= target

(* Mutant: maintenance counts against the endpoint.                         *)
CountsSinceWithMaintenance(results, e, since, target) ==
  LET rows == {r \in results : r.endpoint = e /\ r.at >= since}
  IN  [eligible |-> Cardinality(rows),
       good |-> Cardinality({r \in rows : Good(r)}),
       latencyGood |-> Cardinality({r \in rows : LatencyGood(r, target)})]

(* SELECT COUNT() FILTER ... WHERE endpoint_id = $1 AND checked_at >= $2   *)
CountsSince(results, e, since, target) ==
  LET rows == {r \in results : r.endpoint = e /\ r.at >= since}
  IN  [eligible |-> Cardinality({r \in rows : Eligible(r)}),
       good |-> Cardinality({r \in rows : Good(r)}),
       latencyGood |-> Cardinality({r \in rows : LatencyGood(r, target)})]

(* ORDER BY ... DESC, id DESC LIMIT limit: the i-th row has i - 1 after it. *)
NewestFirst(rows, limit) ==
  [i \in 1..(IF limit < Cardinality(rows) THEN limit ELSE Cardinality(rows)) |->
    CHOOSE r \in rows : Cardinality({s \in rows : Before(r, s)}) = i - 1]

AnyEndpoint == "any"   \* the empty endpoint_id
Asked(e, row) == e = AnyEndpoint \/ row.endpoint = e

Transitions(transitions, e, limit) ==
  NewestFirst({t \in transitions : Asked(e, t)}, limit)

Alerts(alerts, limit) == NewestFirst(alerts, limit)

(* Atoi leaves 0 when the parameter is no number.                           *)
parseLimit(parameter) ==
  IF parameter < 1 THEN DefaultLimit
  ELSE IF parameter > MaxLimit THEN MaxLimit ELSE parameter
=============================================================================
