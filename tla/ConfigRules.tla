---------------------------- MODULE ConfigRules ----------------------------
(***************************************************************************)
(* internal/config/config.go on the content of a file: the values that     *)
(* applyDefaults puts where the file says nothing, what Validate accepts,  *)
(* and when a maintenance window applies.                                  *)
(*                                                                         *)
(* Unset numbers are 0; durations are in tenths of a second, targets in    *)
(* thousandths.  Texts are abstracted: url says that database.url is not   *)
(* empty, named that a name is not, and an address is                      *)
(*   "url"        http://host/path, with or without path                   *)
(*   "url:port"   http://host:port/path                                    *)
(*   "host:port", "host", or "" for none.                                  *)
(***************************************************************************)
EXTENDS Integers, Sequences

Second == 10
Day == 24 * 3600 * Second

(* The numbers outside of the endpoints.                                    *)
Setting ==
  {"shutdownTimeout", "connectTimeout", "maxConnections", "workers", "concurrencyLimit",
   "queueSize", "retryBaseDelay", "retryMaxDelay", "circuitFailures", "circuitCooldown",
   "dedupeWindow"}

EndpointConfig ==
  [id : STRING, named : BOOLEAN, type : STRING, address : STRING,
   timeout : Int, interval : Int, retries : Int, latencyTarget : Int, tlsWarnBefore : Int,
   expectedStatus : Int, availabilityTarget : Int, sloLatency : Int, sloWindow : Int]

MaintenanceWindow == [named : BOOLEAN, start : Int, end : Int, endpoints : SUBSET STRING]

Config ==
  [url : BOOLEAN, settings : [Setting -> Int], endpoints : Seq(EndpointConfig),
   windows : SUBSET MaintenanceWindow]

(* if x == 0 { x = default }                                                *)
Fill(record, default) ==
  [f \in DOMAIN record |->
    IF f \in DOMAIN default /\ record[f] = 0 THEN default[f] ELSE record[f]]

SettingDefaults ==
  [shutdownTimeout |-> 10 * Second, connectTimeout |-> 10 * Second, maxConnections |-> 10,
   workers |-> 4, queueSize |-> 100, retryBaseDelay |-> 2, retryMaxDelay |-> 5 * Second,
   circuitFailures |-> 3, circuitCooldown |-> 30 * Second, dedupeWindow |-> 900 * Second]

EndpointDefaults ==
  [timeout |-> 5 * Second, interval |-> 30 * Second, latencyTarget |-> Second,
   tlsWarnBefore |-> 30 * Day, availabilityTarget |-> 999, sloWindow |-> 30 * Day]

(* Two defaults depend on other fields: the limit is the number of workers, *)
(* and the latency target of the SLO that of the endpoint.                  *)
SettingsWithDefaults(settings) ==
  LET filled == Fill(settings, SettingDefaults)
  IN  Fill(filled, [concurrencyLimit |-> filled.workers])

EndpointWithDefaults(e) ==
  LET filled == Fill(e, EndpointDefaults)
      dependent == [sloLatency |-> filled.latencyTarget]
      status == [expectedStatus |-> IF e.type = "http" THEN 200 ELSE 0]
  IN  Fill(Fill(filled, dependent), status)

applyDefaults(c) ==
  [c EXCEPT
    !.settings = SettingsWithDefaults(@),
    !.endpoints = [i \in DOMAIN @ |-> EndpointWithDefaults(@[i])]]

-----------------------------------------------------------------------------
(* An http address has a scheme and a host.  SplitHostPort wants one colon, *)
(* and that of "http://host" will do.                                       *)
AddressFits(type, address) ==
  address \in IF type = "http" THEN {"url", "url:port"} ELSE {"host:port", "url"}

ValidEndpoint(e) ==
  /\ e.id # "" /\ e.named /\ e.address # ""
  /\ e.type \in {"http", "tcp", "tls"}
  /\ e.timeout > 0 /\ e.interval > 0
  /\ e.retries \in 0..10
  /\ 0 < e.availabilityTarget /\ e.availabilityTarget < 1000
  /\ AddressFits(e.type, e.address)

DistinctIDs(endpoints) ==
  \A i, j \in DOMAIN endpoints : endpoints[i].id = endpoints[j].id => i = j

ValidWindow(w, ids) == w.named /\ w.start < w.end /\ w.endpoints \subseteq ids

IDs(c) == {c.endpoints[i].id : i \in DOMAIN c.endpoints}

(* Mutants: the number of workers is not looked at; nor are the times of    *)
(* the maintenance windows.                                                 *)
ValidAnyWorkers(c) ==
  /\ c.url
  /\ c.endpoints # <<>>
  /\ \A i \in DOMAIN c.endpoints : ValidEndpoint(c.endpoints[i])
  /\ DistinctIDs(c.endpoints)
  /\ \A w \in c.windows : ValidWindow(w, IDs(c))
ValidAnyWindow(c) ==
  /\ ValidAnyWorkers([c EXCEPT !.windows = {}])
  /\ c.settings.workers >= 1 /\ c.settings.concurrencyLimit >= 1
  /\ \A w \in c.windows : w.named /\ w.endpoints \subseteq IDs(c)

Valid(c) ==
  /\ c.url
  /\ c.settings.workers >= 1 /\ c.settings.concurrencyLimit >= 1
  /\ c.endpoints # <<>>
  /\ \A i \in DOMAIN c.endpoints : ValidEndpoint(c.endpoints[i])
  /\ DistinctIDs(c.endpoints)
  /\ \A w \in c.windows : ValidWindow(w, IDs(c))

InMaintenance(c, e, now) ==
  \E w \in c.windows :
    /\ w.start <= now /\ now < w.end
    /\ w.endpoints = {} \/ e \in w.endpoints
=============================================================================
