----------------------------- MODULE Lifecycle -----------------------------
(***************************************************************************)
(* The process, from cmd/watchdog/main.go: run loads the configuration,    *)
(* connects to PostgreSQL with a deadline, migrates, starts the monitor,   *)
(* the HTTP server and the readiness loop as goroutines, waits for a       *)
(* signal or for one of them to fail, and shuts down.  The monitor is      *)
(* Scheduler's Run seen from outside.                                      *)
(*                                                                         *)
(* requests counts the HTTP requests whose handler waits for a query; such *)
(* a query has the context of the request, which neither stop nor Shutdown *)
(* ends.                                                                   *)
(***************************************************************************)
EXTENDS ConfigRules

CONSTANTS
  Configs,      \* the configuration files there may be
  MaxInt,       \* the greatest value of an int
  JobsRoom,     \* the most endpoints a channel can have memory for
  DoneRoom,     \* the most identifiers
  MaxRequests   \* bound: requests in progress at once

(* The fields of the scheduler are ints: what does not fit into one is not  *)
(* decoded.  A channel with room for MaxInt elements would be larger than   *)
(* the address space.                                                       *)
Counts == {"workers", "concurrencyLimit", "queueSize"}
ASSUME LifecycleAssumption ==
  /\ MaxRequests \in Nat \ {0}
  /\ MaxInt \in Nat /\ JobsRoom \in 0..MaxInt /\ DoneRoom \in 0..MaxInt
  /\ Configs \subseteq Config
  /\ \A c \in Configs : \A f \in Counts : c.settings[f] \in (-MaxInt - 1)..MaxInt

VARIABLES
  config,     \* the content of the file; once loaded, run's cfg
  main,       \* where run is
  err,        \* run's error is not nil
  cancelled,  \* rootCtx is done: by a signal or by stop
  signalled,  \* SIGINT or SIGTERM has come
  deadline,   \* the time to connect is over
  db,         \* PostgreSQL answers, refuses, or accepts and does not answer
  monitor,    \* the goroutine of service.Run
  http,       \* the goroutine of ListenAndServe
  errCh,      \* contents of the channel errCh
  requests,   \* see above
  ready       \* the gauge watchdog_database_ready

process == <<main, err, cancelled>>
outside == <<config, signalled, deadline, db>>
vars == <<process, outside, monitor, http, errCh, requests, ready>>

(* exited: run has returned; killed: by a signal or by a panic.             *)
Main ==
  {"loading", "connecting", "migrating", "serving", "draining", "closing", "exited", "killed"}
Running == main \notin {"exited", "killed"}

Init ==
  /\ config \in Configs
  /\ main = "loading" /\ err = FALSE /\ cancelled = FALSE
  /\ signalled = FALSE /\ deadline = FALSE /\ db \in {"up", "down", "hung"}
  /\ monitor = "none" /\ http = "none" /\ errCh = <<>>
  /\ requests = 0
  /\ ready = "unset"

-----------------------------------------------------------------------------
(* A signal cancels rootCtx as long as NotifyContext handles it; before     *)
(* that, and once run has called stop, it ends the process.                 *)
StopCalled == main = "draining" \/ (main = "closing" /\ monitor # "none")
Handled == main # "loading" /\ ~StopCalled

Signal ==
  /\ Running
  /\ signalled' = TRUE
  /\ \/ Handled /\ cancelled' = TRUE /\ main' = main
     \/ ~Handled /\ main' = "killed" /\ cancelled' = cancelled
  /\ UNCHANGED <<config, err, deadline, db, monitor, http, errCh, requests, ready>>

ConnectDeadline ==
  /\ main = "connecting" /\ ~deadline
  /\ deadline' = TRUE
  /\ UNCHANGED <<process, config, signalled, db, monitor, http, errCh, requests, ready>>

DatabaseChanges ==
  /\ Running
  /\ \E d \in {"up", "down", "hung"} \ {db} : db' = d
  /\ UNCHANGED <<process, config, signalled, deadline, monitor, http, errCh, requests, ready>>

-----------------------------------------------------------------------------
(* A step of run itself, from one place to another.                         *)
MainStep(from, to) ==
  /\ main = from /\ main' = to
  /\ UNCHANGED <<outside, requests>>

(* Load, and the context with the timeout to connect; if that is negative,  *)
(* it is over at once.                                                      *)
Load ==
  /\ main = "loading" /\ main' = "connecting"
  /\ config' = applyDefaults(config)
  /\ Valid(config')
  /\ deadline' = (config'.settings.connectTimeout < 0)
  /\ UNCHANGED <<err, cancelled, signalled, db, monitor, http, errCh, requests, ready>>

(* The file cannot be read or decoded, or it is not valid.                  *)
LoadFails ==
  /\ MainStep("loading", "exited") /\ err' = TRUE
  /\ UNCHANGED <<cancelled, monitor, http, errCh, ready>>

(* openDatabaseWithRetry: an attempt succeeds, for which the pool must have *)
(* room for a connection; those that fail change nothing.                   *)
Connect ==
  /\ db = "up" /\ ~cancelled /\ ~deadline
  /\ config.settings.maxConnections >= 1
  /\ MainStep("connecting", "migrating")
  /\ UNCHANGED <<err, cancelled, monitor, http, errCh, ready>>

(* Mutant: the wait between attempts looks at the signal only.              *)
GiveUpWhenSignalled ==
  /\ cancelled
  /\ MainStep("connecting", "exited") /\ err' = TRUE
  /\ UNCHANGED <<cancelled, monitor, http, errCh, ready>>

(* openDatabaseWithRetry: the context ended before an attempt succeeded.    *)
GiveUp ==
  /\ cancelled \/ deadline
  /\ MainStep("connecting", "exited") /\ err' = TRUE
  /\ UNCHANGED <<cancelled, monitor, http, errCh, ready>>

(* Migrate, and the goroutines are started.                                 *)
Migrate ==
  /\ db = "up" /\ ~cancelled
  /\ MainStep("migrating", "serving")
  /\ monitor' = "syncing" /\ http' = "starting" /\ ready' = "ready"
  /\ UNCHANGED <<err, cancelled, errCh>>

(* Also after its 30 seconds, with a database that does not answer.         *)
MigrateFails ==
  /\ db # "up" \/ cancelled
  /\ MainStep("migrating", "closing") /\ err' = TRUE
  /\ UNCHANGED <<cancelled, monitor, http, errCh, ready>>

(* run: the select, stop, and the call of Shutdown.                         *)
Select ==
  /\ MainStep("serving", "draining")
  /\ \/ cancelled /\ UNCHANGED <<err, errCh>>
     \/ /\ errCh # <<>>
        /\ err' = (Head(errCh) = "error")
        /\ errCh' = Tail(errCh)
  /\ cancelled' = TRUE
  /\ UNCHANGED <<monitor, http, ready>>

(* Mutant: Shutdown has no deadline.                                        *)
ShutdownWaits ==
  /\ requests = 0
  /\ MainStep("draining", "closing")
  /\ UNCHANGED <<err, cancelled, monitor, http, errCh, ready>>

(* Shutdown returns: no request is left, or its deadline is over.           *)
ShutdownReturns ==
  /\ MainStep("draining", "closing")
  /\ err' = (err \/ requests > 0)
  /\ UNCHANGED <<cancelled, monitor, http, errCh, ready>>

(* The deferred repository.Close waits for the connections in use, those of *)
(* requests included; then the process ends, whoever is still running.      *)
Close ==
  /\ requests = 0
  /\ MainStep("closing", "exited")
  /\ UNCHANGED <<err, cancelled, monitor, http, errCh, ready>>

-----------------------------------------------------------------------------
(* errCh <- service.Run(rootCtx), which synchronises the endpoints first    *)
(* and returns some time after the cancellation (ShutdownCompletes).        *)
UpsertEndpoints == Running /\ monitor = "syncing" /\ db = "up" /\ ~cancelled

(* make panics if the size of a channel is negative or there is no memory   *)
(* for so many elements: jobs, done, and semaphore, whose elements take     *)
(* none.  The size of done is an int, too: the sum of a length and an int   *)
(* wraps around at the upper end.                                           *)
Wrapped(sum) == IF sum > MaxInt THEN sum - 2 * (MaxInt + 1) ELSE sum
DoneSize == Wrapped(Len(config.endpoints) + config.settings.workers)

ChannelsFit ==
  /\ config.settings.queueSize \in 0..JobsRoom
  /\ DoneSize \in 0..DoneRoom
  /\ config.settings.concurrencyLimit >= 0

Synchronized ==
  /\ UpsertEndpoints /\ ChannelsFit
  /\ monitor' = "running"
  /\ UNCHANGED <<process, outside, http, errCh, requests, ready>>

Panic ==
  /\ UpsertEndpoints /\ ~ChannelsFit
  /\ main' = "killed"
  /\ UNCHANGED <<err, cancelled, outside, monitor, http, errCh, requests, ready>>

(* Mutant: Run returns nil when the endpoints cannot be synchronised.       *)
MonitorReturnsNil ==
  /\ Running
  /\ \/ monitor = "syncing" /\ (db = "down" \/ cancelled)
     \/ monitor = "running" /\ cancelled
  /\ errCh' = Append(errCh, "nil")
  /\ monitor' = "ended"
  /\ UNCHANGED <<process, outside, http, requests, ready>>

MonitorReturns ==
  /\ Running
  /\ \/ monitor = "syncing" /\ (db = "down" \/ cancelled) /\ errCh' = Append(errCh, "error")
     \/ monitor = "running" /\ cancelled /\ errCh' = Append(errCh, "nil")
  /\ monitor' = "ended"
  /\ UNCHANGED <<process, outside, http, requests, ready>>

(* errCh <- httpServer.ListenAndServe()                                     *)
ShutdownCalled == main \in {"draining", "closing"}

Listen ==
  /\ Running /\ http = "starting" /\ ~ShutdownCalled
  /\ http' = "listening"
  /\ UNCHANGED <<process, outside, monitor, errCh, requests, ready>>

(* Mutant: the goroutine serves again after an error.                       *)
ServeAgain ==
  /\ Running
  /\ \/ http = "starting" /\ ~ShutdownCalled /\ errCh' = Append(errCh, "error")
     \/ http \in {"starting", "listening"} /\ ShutdownCalled /\ errCh' = Append(errCh, "closed")
  /\ http' = "starting"
  /\ UNCHANGED <<process, outside, monitor, requests, ready>>

ServerReturns ==
  /\ Running
  /\ \/ http = "starting" /\ ~ShutdownCalled /\ errCh' = Append(errCh, "error")
     \/ http \in {"starting", "listening"} /\ ShutdownCalled /\ errCh' = Append(errCh, "closed")
  /\ http' = "ended"
  /\ UNCHANGED <<process, outside, monitor, requests, ready>>

RequestArrives ==
  /\ Running /\ http = "listening" /\ ~ShutdownCalled
  /\ requests < MaxRequests
  /\ requests' = requests + 1
  /\ UNCHANGED <<process, outside, monitor, http, errCh, ready>>

(* The query is answered or the client leaves.                              *)
RequestEnds ==
  /\ Running /\ requests > 0
  /\ requests' = requests - 1
  /\ UNCHANGED <<process, outside, monitor, http, errCh, ready>>

(* Mutant: the gauge is set when the database answers.                      *)
PingSetsReady ==
  /\ Running /\ monitor # "none"
  /\ ready' = IF db = "up" /\ ~cancelled THEN "ready" ELSE ready
  /\ UNCHANGED <<process, outside, monitor, http, errCh, requests>>

(* databaseReadiness: a Ping of at most two seconds, then the gauge; the    *)
(* last one some time after the cancellation.                               *)
Ping ==
  /\ Running /\ monitor # "none"
  /\ ready' = IF db = "up" /\ ~cancelled THEN "ready" ELSE "unavailable"
  /\ UNCHANGED <<process, outside, monitor, http, errCh, requests>>

-----------------------------------------------------------------------------
Run ==
  \/ Load \/ LoadFails \/ Connect \/ GiveUp \/ Migrate \/ MigrateFails
  \/ Select \/ ShutdownReturns \/ Close

Exited == ~Running /\ UNCHANGED vars

Next ==
  \/ Signal \/ ConnectDeadline \/ DatabaseChanges
  \/ Run
  \/ Synchronized \/ Panic \/ MonitorReturns
  \/ Listen \/ ServerReturns \/ RequestArrives \/ RequestEnds
  \/ Ping
  \/ Exited

Spec == Init /\ [][Next]_vars
(* Goroutines run and timers fire.  No signal has to come and no client to  *)
(* leave; a request ends if its query is answered.                          *)
FairSpec ==
  /\ Spec
  /\ WF_vars(Run) /\ WF_vars(ConnectDeadline)
  /\ WF_vars(Synchronized \/ Panic \/ MonitorReturns)
  /\ WF_vars(Listen \/ ServerReturns)
  /\ WF_vars(db # "hung" /\ RequestEnds)
  /\ WF_vars(Ping)

-----------------------------------------------------------------------------
(* Types; errCh has room for what the two goroutines send.                  *)
TypeOK ==
  /\ config \in Config
  /\ main \in Main
  /\ db \in {"up", "down", "hung"}
  /\ monitor \in {"none", "syncing", "running", "ended"}
  /\ http \in {"none", "starting", "listening", "ended"}
  /\ errCh \in Seq({"nil", "error", "closed"}) /\ Len(errCh) <= 2
  /\ requests \in 0..MaxRequests
  /\ ready \in {"unset", "ready", "unavailable"}
  /\ {err, signalled, cancelled, deadline} \subseteq BOOLEAN

(* The process reports success to its supervisor only if it was told to     *)
(* stop: a monitor or a server that gave up is never taken for a shutdown.  *)
CleanExitOnlyWhenAsked == main = "exited" /\ ~err => signalled

(* Run panics over its channels only where Validate looks at nothing or     *)
(* sets no upper bound: with a queueSize that is negative or too large, or  *)
(* with more workers than done has room for.  What it does look at, in the  *)
(* order in which the defaults fill it, keeps every other way to a panic    *)
(* away: with such a queue and so many workers the process ends by itself   *)
(* or by a signal.                                                          *)
PanicsOnlyOnSizes ==
  main = "killed" =>
    \/ signalled
    \/ config.settings.queueSize \notin 0..JobsRoom
    \/ Len(config.endpoints) + config.settings.workers > DoneRoom

(* A configuration that was loaded means something: the identifiers tell    *)
(* the endpoints apart, an HTTP check expects a status, checks end and come *)
(* again, a budget exists, and each window is maintenance of some endpoint  *)
(* at some moment (docs/configuration.md: "end is exclusive").  There is an *)
(* endpoint, a worker and a slot, and no setting with a default is zero:    *)
(* with that the constants of the other modules are what those assume, but  *)
(* for the settings that may be negative and the sizes of Run's channels.   *)
Meaningful(e) ==
  /\ e.type = "http" => e.expectedStatus # 0
  /\ e.timeout > 0 /\ e.interval > 0 /\ e.retries \in 0..10
  /\ e.availabilityTarget \in 1..999
LoadedConfigWorks ==
  main \in {"connecting", "migrating", "serving"} =>
    /\ \A i \in DOMAIN config.endpoints : Meaningful(config.endpoints[i])
    /\ DistinctIDs(config.endpoints) /\ config.endpoints # <<>>
    /\ config.settings.workers > 0 /\ config.settings.concurrencyLimit > 0
    /\ \A f \in DOMAIN SettingDefaults : config.settings[f] # 0
    /\ \A w \in config.windows : \E e \in IDs(config), now \in w.start..w.end :
         InMaintenance([config EXCEPT !.windows = {w}], e, now)

(* docs/architecture.md: "Bounded startup retry, then process exits": run   *)
(* serves or exits, whatever the database does.                             *)
StartupEnds == <>(main \in {"serving", "exited", "killed"})

(* Shutdown: the server drains in time whatever the queries of its requests *)
(* do ("HTTP server drains within timeout"), and after a signal or a        *)
(* failure the process exits, if none of them stays unanswered for ever; or *)
(* another signal ends it.                                                  *)
ShutdownEnds ==
  /\ main = "draining" ~> main \in {"closing", "killed"}
  /\ <>[](db # "hung") => ((cancelled \/ errCh # <<>>) ~> ~Running)

(* The readiness gauge ends up telling what the database does.              *)
ReadinessFollows ==
  /\ <>[](main = "serving" /\ db = "up" /\ ~cancelled) => <>[](ready = "ready")
  /\ <>[](main = "serving" /\ db # "up" /\ ~cancelled) => <>[](ready = "unavailable")
=============================================================================
