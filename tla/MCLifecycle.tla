---------------------------- MODULE MCLifecycle ----------------------------
(* Instance of Lifecycle for TLC: the file of config_test.go and files that *)
(* differ from it in one field, or in two that depend on each other; sizes  *)
(* at, around and far above what memory has room for.                       *)
EXTENDS Lifecycle

Api ==
  [id |-> "api", named |-> TRUE, type |-> "http", address |-> "url",
   timeout |-> 0, interval |-> 0, retries |-> 0, latencyTarget |-> 0, tlsWarnBefore |-> 0,
   expectedStatus |-> 0, availabilityTarget |-> 990, sloLatency |-> 0, sloWindow |-> 0]

Unset == [f \in Setting |-> 0]

File == [url |-> TRUE, settings |-> Unset, endpoints |-> <<Api>>, windows |-> {}]

Settings ==
  {[Unset EXCEPT ![f] = -1] : f \in {"workers", "concurrencyLimit", "queueSize",
     "connectTimeout", "maxConnections"}} \cup
  {[Unset EXCEPT !.workers = w, !.concurrencyLimit = l] : w, l \in {-2, 1}} \cup
  {[Unset EXCEPT !.queueSize = n] : n \in {JobsRoom, JobsRoom + 1}} \cup
  {[Unset EXCEPT !.workers = n] : n \in {DoneRoom - 1, DoneRoom, MaxInt}} \cup
  {[Unset EXCEPT !.concurrencyLimit = MaxInt]}

Endpoints ==
  {[Api EXCEPT !.type = t, !.address = a] :
     t \in {"http", "tcp", "ftp"}, a \in {"", "url", "url:port", "host:port", "host"}} \cup
  {[Api EXCEPT !.availabilityTarget = a] : a \in {-1, 0, 1000}} \cup
  {[Api EXCEPT !.retries = n] : n \in {-1, 11}} \cup
  {[Api EXCEPT !.timeout = -1], [Api EXCEPT !.interval = -1], [Api EXCEPT !.id = ""],
   [Api EXCEPT !.named = FALSE]}

Windows ==
  [named : BOOLEAN, start : {1}, end : {1, 2}, endpoints : {{}, {"api"}, {"other"}}]

Files ==
  {File, [File EXCEPT !.url = FALSE], [File EXCEPT !.endpoints = <<>>],
   [File EXCEPT !.endpoints = <<Api, Api>>]} \cup
  {[File EXCEPT !.settings = n] : n \in Settings} \cup
  {[File EXCEPT !.endpoints = <<e>>] : e \in Endpoints} \cup
  {[File EXCEPT !.windows = {w}] : w \in Windows}
=============================================================================
