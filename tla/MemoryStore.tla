---------------------------- MODULE MemoryStore ----------------------------
(***************************************************************************)
(* internal/store/memory.go, the repository of the tests.  Each method     *)
(* holds the mutex from start to end, so that it is an operator on the     *)
(* whole of the store:                                                     *)
(*   results      for each endpoint its results as they came               *)
(*   transitions  all transitions as they came                             *)
(*   alerts       all alerts as they came                                  *)
(*   nextID       the next identifier, of whatever kind of row             *)
(***************************************************************************)
EXTENDS ReadQueries

NewMemory == [results |-> [e \in Endpoint |-> <<>>], transitions |-> <<>>,
              alerts |-> <<>>, nextID |-> 1]

(* Mutant: the newest result of any endpoint is the previous one.           *)
MemoryLatestOfAny(memory, e) ==
  LET list == memory.transitions
  IN  IF list = <<>> THEN "Unknown" ELSE list[Len(list)].to

MemoryLatestState(memory, e) ==
  LET list == memory.results[e]
  IN  IF list = <<>> THEN "Unknown" ELSE list[Len(list)].state

(* An alert of the same key is younger than the window.                     *)
MemoryDuplicate(memory, r) ==
  \E i \in DOMAIN memory.alerts :
    LET a == memory.alerts[i]
    IN  a.endpoint = r.endpoint /\ a.state = r.state /\ r.at - a.at < Window

(* RecordResult of a result without an identifier                           *)
MemoryRecord(memory, result) ==
  LET e == result.endpoint
      from == MemoryLatestState(memory, e)
      changed == from # result.state
      alerted == /\ Alertable(result.state) \/ (changed /\ result.state = "Healthy")
                 /\ ~MemoryDuplicate(memory, result)
      id == memory.nextID
      alertID == id + (IF changed THEN 2 ELSE 1)
  IN  [results |-> [memory.results EXCEPT ![e] = Append(@, [result EXCEPT !.id = id])],
       transitions |->
         IF changed
           THEN Append(memory.transitions, [id |-> id + 1, endpoint |-> e, at |-> result.at,
                                            from |-> from, to |-> result.state])
           ELSE memory.transitions,
       alerts |->
         IF alerted
           THEN Append(memory.alerts, [id |-> alertID, endpoint |-> e, at |-> result.at,
                                       state |-> result.state])
           ELSE memory.alerts,
       nextID |-> alertID + (IF alerted THEN 1 ELSE 0)]

MemoryLatestResults(memory) ==
  [e \in {x \in Endpoint : memory.results[x] # <<>>} |->
    memory.results[e][Len(memory.results[e])]]

MemoryCountsSince(memory, e, since, target) ==
  LET list == memory.results[e]
      counted == {i \in DOMAIN list : ~(list[i].at < since) /\ list[i].state # "Maintenance"}
  IN  [eligible |-> Cardinality(counted),
       good |-> Cardinality({i \in counted : list[i].state \in {"Healthy", "Degraded"}}),
       latencyGood |-> Cardinality({i \in counted :
                          list[i].state # "Unavailable" /\ list[i].latency <= target})]

(* Items of a list, at most limit, each at the place that rank gives it.    *)
Listed(list, rank, limit) ==
  LET n == Cardinality(DOMAIN rank)
  IN  [place \in 1..(IF limit < n THEN limit ELSE n) |->
        list[CHOOSE i \in DOMAIN rank : rank[i] = place - 1]]

(* From the end of the list to its start                                    *)
MemoryTransitions(memory, e, limit) ==
  LET list == memory.transitions
      asked == {i \in DOMAIN list : Asked(e, list[i])}
  IN  Listed(list, [i \in asked |-> Cardinality({j \in asked : j > i})], limit)

(* The sort does not say which of two alerts of the same time comes first;  *)
(* this is one order it can leave them in.                                  *)
MemoryAlerts(memory, limit) ==
  LET list == memory.alerts
      Sooner(j, i) == list[j].at > list[i].at \/ (list[j].at = list[i].at /\ j > i)
  IN  Listed(list, [i \in DOMAIN list |-> Cardinality({j \in DOMAIN list : Sooner(j, i)})],
             limit)
=============================================================================
