# A specification of the service reliability watchdog

TLA+ modules, TLC configurations and TLAPS proofs about the program in `src/`.
Line numbers below are those of the repository's files. `PROJECT.json` lists,
for every definition that models code, the lines it models.

- [The system](#the-system)
- [What is hard about it](#what-is-hard-about-it)
- [What would make it correct](#what-would-make-it-correct)
- [The modules](#the-modules)
- [The runs](#the-runs)
- [Fairness and other assumptions](#fairness-and-other-assumptions)
- [The proofs](#the-proofs)
- [Findings](#findings)
- [What is not modelled](#what-is-not-modelled)
- [Plan](#plan)

To repeat the work: `tlc -config SchedulerSafety.cfg MCScheduler` and likewise
for the other rows of the table of runs, `tlapm SchedulerProofs.tla` and
likewise for the other `*Proofs` modules.

## The system

The watchdog probes a fixed list of endpoints at their intervals, keeps results,
state transitions and alerts in PostgreSQL, and shows them on a status page, an
API and a metrics endpoint.

| Component | State | Operations |
|---|---|---|
| **Scheduler** (`internal/monitor/service.go`, `Run`, `worker`) | maps `next` and `inFlight`; channels `jobs`, `done`, `semaphore` | tick and scan, enqueue or drop, take, acquire a slot, perform, report, shut down |
| **Check of one endpoint** (`perform`; `internal/resilience/retry.go`, `Retry`) | the result in progress | ask maintenance, ask the breaker, probe and retry, tell the breaker, set the gauges, record |
| **Circuit breaker** (`internal/resilience/circuit.go`) | per key: failures, `openedAt`, `halfOpen`, under a mutex | `Allow`, `Success`, `Failure`, `IsOpen` |
| **Checker** (`internal/checker/checker.go`) | the result of one call | resolve, HTTP/TCP/TLS check, certificate, latency |
| **PostgreSQL repository** (`internal/store/postgres.go`) | tables `check_results`, `state_transitions`, `alerts`, `endpoints`; the pool; advisory locks | `RecordResult`, upsert, migrate, read queries, `Close` |
| **In-memory repository** (`internal/store/memory.go`) | slices under a mutex; used by tests | upsert, `RecordResult`, the read queries |
| **Process lifecycle** (`cmd/watchdog/main.go`) | the root context, `errCh`, three goroutines | load, connect with retry, migrate, serve, readiness loop, shut down |
| **Telemetry** (`internal/telemetry/metrics.go`) | gauges, counters, a histogram | `Observe`, `Alert`, `QueueDropped`, `StorageError`, `DatabaseReady`, scrapes |
| **Status snapshot** (`Snapshot`, `Endpoint`, `addState`) | none | reads latest results, counts, transitions |
| **SLO arithmetic** (`internal/domain/types.go`) | none | availability, error budget, burn |
| **Configuration** (`internal/config/config.go`) | none | `Load`, defaults, `Validate`, `InMaintenance` |
| **HTTP interface** (`internal/web/server.go`) | none | status page, API, health, metrics |
| Demo target, certificate generator, health check, containers, scripts | | demonstration and packaging |

How they interact: `main` starts `service.Run`, the HTTP server and the readiness
loop under one root context and joins the first two by `errCh`. `Run` hands
endpoints to the workers over `jobs` and hears of them over `done`; the
`semaphore` limits the workers inside `perform`. `perform` calls the breaker, the
checker (through `Retry`), the breaker again, the metrics and the repository one
after the other; checker, `Retry` and repository get the root context. Requests of the HTTP server read the
repository with the context of the request. Nothing in the process survives a
restart except the tables.

## What is hard about it

- **Interleaving.** The scan, the workers and the cancellation meet on three
  channels; an endpoint is marked in flight only after it was sent (`service.go:107`).
- **State that outlives its reason.** A half-open mark, an in-flight mark, a slot,
  a lock or a pooled connection that some path forgets to give back stops an
  endpoint, or everything, for good.
- **Cancellation** turns probes into outages (`service.go:156`), cuts
  transactions, and must let every goroutine out of whatever it waits for.
- **Restart.** Breaker and gauges begin empty while the tables go on.
- **A database that is slow, gone or silent.** `RecordResult` has no deadline.
- **Concurrent transactions.** Read-then-insert under an advisory lock, results
  ordered by a time taken before the lock was.
- **Readers without a snapshot.** A status is put together from four reads, a
  scrape from as many as there are series, while checks write.
- **Twice the same thing.** Two repositories and two SLO calculations that must
  agree; the tests use one of each.
- **Configuration.** Defaults that depend on each other, checks after them, and
  values that no check looks at.
- **Boundaries.** Off-by-one in retries against attempts, the age of an alert
  against the dedupe window, queues smaller than the list of endpoints.

`PROJECT.json` lists these hazards at their lines, with the properties that
would break if the code had them wrong, and says which have no property yet.

## What would make it correct

- *Scheduler*: an endpoint is in at most one place; `inFlight` says exactly
  whether it is in one; two checks of one endpoint never overlap; slots are
  counted; reporting never blocks; the workers never all wait; a large enough queue
  never drops; probing goes on; shutdown completes.
- *Check and breaker*: the circuit goes through the three states of the
  documents, one check at a time; the half-open mark is always released; a cooldown is
  respected; skipped checks follow a real outage; a stored outage was seen by
  every allowed probe and is no artefact of a shutdown; gauge and table agree;
  a lasting condition ends up stored.
- *Checker*: the state returned is the one of the README's table; two timeouts
  bound a probe; a whole `Retry` ends within a time that follows from the
  configuration.
- *Repository*: a transaction is one step; alerts are spaced by the window; no
  outage goes without an alert; transitions are the changes of the history; the
  calls never all wait for each other; every call returns.
- *Lifecycle*: startup and shutdown are bounded; exit status and readiness gauge
  tell the truth; what is loaded can be run.
- *Repositories*: both answer alike; figures move with the results.
- *Status and metrics*: the parts of a status go together; a scrape shows no
  state that was not meant; counters account for the rows.

## The modules

**`Scheduler`** models `Run` and `worker`. `pc` is the place in `Run`
(`select`, inside the range loop, after the return), `wpc[w]` that of a worker;
`jobs` and `done` are sequences with the capacities Go gives them, `semaphore`
its number of tokens. Each case of each `select` is an action; the scan
of a tick is one action per endpoint, because workers run in between; an endpoint
that is sent takes two, the send and the mark, with whatever the workers do in between
(`Marked` is the mark, set or about to be).
Time is counted in periods of the 100 ms ticker: `dueIn[e]` is the number of
periods until the first tick that finds `next[e]` due, which is one more after a
report (the time of the report lies between two ticks) than after a drop (the
time of the tick). `perform` is two phases here, probing and recording; in the
second the worker waits for the repository, which may go silent (`hung`) and,
without a deadline of its own, comes back only with an answer or the
cancellation.

**`CheckCycle`** is the promise: an endpoint goes round *resting, queued,
checking, finished*, at most `ConcurrencyLimit` are checking, and only a
cancellation lets one be skipped or abandoned. `Scheduler` implements it under
the mapping `PhaseOf`, from the channels and workers to the phases.

**`CircuitBreaker`** has the circuit of one key as a record and each method as
operators on it: every method holds the mutex from start to end, so it is one
step of the caller. `openedAt` is a flag and an age that stops at `Cooldown`.

**`CheckPipeline`** extends it with `perform`, one action per call: maintenance,
`Allow`, each probe of `Retry`, the wait between probes, `Success`/`Failure`,
`Observe`, beginning and ending of `RecordResult`. Around it the target, the
maintenance window, the database, time, cancellation, crash and restart move at
any moment. One endpoint is enough, because `Scheduler` shows that checks of
one endpoint never overlap and those of different endpoints share only the
semaphore. `skipped`, `aborted`, `streak` and `sinceVerdict` are ghosts: no
guard reads them. `Observe` is one step: a scrape between two of its series is
not in this module.

**`BreakerStates`** is the promise: the three states of
`docs/architecture.md:17`, and a fourth for the time without a process. An open
circuit rests for the whole cooldown, one check tries again, its verdict closes or
reopens the circuit. The code has no such states, only a counter, a time and a
flag under a key that may be missing; `CheckPipeline` implements it under
`PhaseOfCircuit`, `FailuresOfCircuit` and `RestOfCircuit`. The one probe of the
document is here one check with its retries (finding 2 is about the difference).

**`Checker`** is one call of `Check`. What the target is like (does it resolve,
accept, which certificate, which body) is chosen at the start; when it answers,
if ever, is free. `left` is what is left of the timeout of the network step
under way: one for the resolution, one for everything after it.

**`RecordRules`** has what the SQL asks of the tables: latest state, transition
rows, alert rows with their deduplication. **`ResultLog`** is the promise: a
result, its transition and its alert appear in one step. **`PostgresStore`** is
`RecordResult` statement by statement, with pool, transaction, advisory lock and
rollback, for callers in one process or several; it implements `ResultLog` with
the tables as they are. Lock keys are hashes and can collide (`SameKey`).

**`RetryDelay`** is `retryDelay` as the set of what the random factor can make of
the backoff. **`CheckWithRetries`** puts `Retry` around a whole `Check`: every probe is a
run of `Checker` with a target that may have changed, every wait a countdown
from one of the `RetryDelays`. `TimeLeft` is the time that all of it can still
take: what is left of the timeout or the wait, and a `Turn` (the longest wait
and two timeouts) for each retry to come.

**`ReadQueries`** adds the read queries to `RecordRules`, as operators on the
tables, with the limit of a request. **`SLO`** is the arithmetic of both
calculations, with exact fractions where the code has floats. **`MemoryStore`**
is the repository of the tests; a method holds its mutex throughout, so each is
an operator on the whole store. **`Repositories`** records the same results in
both, the tables by `ResultLog`'s one step, and compares what they answer.

**`Reporting`** looks at one endpoint from outside. The checks write as `perform`
does: the counter of checks, the state gauge series by series, the rows, the
counter of alerts or of storage errors. Beside them either `Snapshot` asks its
queries one after the other, or a scrape reads the series in any order. `shown`
and `meant` are ghosts: what the gauge last showed in full, and what it was to
show while the scrape read.

**`ConfigRules`** is `applyDefaults`, `Validate` and `InMaintenance` on a record
that stands for a file. **`Lifecycle`** models `run` with `Load`,
`openDatabaseWithRetry` and `databaseReadiness`: a file of some content, the main
goroutine, the monitor and server goroutines from outside, `errCh`, the requests
whose handlers wait for a query, signals that are handled and signals that kill,
and a database that is up, refuses or accepts and stays silent. The sizes that
`Run` gives to `make(chan)` are ints of the width `MaxInt` there, with overflow in the
sum for `done`, and `JobsRoom` and `DoneRoom` are the most elements that `make`
accepts: `Panic` is what happens to every other size.

The modules meet at these seams. `CheckPipeline`, `Repositories` and `Reporting`
rely on `OneCheckAtATime` of `Scheduler`; `Scheduler`'s fairness of `EndProbe` is
`RetryReturns` of `CheckWithRetries`, and `RetryEndsInTime` says how long it
takes; `CheckPipeline`'s fairness of `Perform` is
`ProbesContinue` of `Scheduler`; `BeginRecord` to `CommitSucceeds` of
`CheckPipeline`, and `Record` of `Reporting`, are one call in `PostgresStore`,
which `ImplementsResultLog` allows to see as one step; `MonitorReturns` of
`Lifecycle` is `ShutdownCompletes` of `Scheduler`. What the modules assume of the
configuration is what `Load` of `Lifecycle` lets through, but for the values named under
[assumptions](#fairness-and-other-assumptions).

The `MC` modules only give constants values and define symmetries. Definitions introduced by "Mutant:" are plausible mistakes in the
action after them; nothing uses them. They serve to confirm that each property
notices such a mistake.

## The runs

| Run | Instance | What it shows |
|---|---|---|
| `SchedulerSafety` | 4 endpoints, 3 workers, 2 slots, queue of 2 | one place per endpoint, exact marks, room in `done`, exact slots, workers that never all wait while the repository answers; silent repository and shutdown at every point |
| `SchedulerLiveness` | 3 endpoints, 2 workers, 1 slot, queue of 3 | nothing is dropped; every endpoint is probed again and again while the repository serves; `Run` returns after a cancellation even if the repository stays silent; refinement of `CheckCycle` |
| `SchedulerOutage` | the same | finding 1 |
| `Pipeline` | threshold 2, cooldown 2, 2 retries | five safety properties of the check; a lasting recovery or outage ends up stored; refinement of `BreakerStates` |
| `PipelineHalfOpen`, `PipelineGauge` | threshold 1 | findings 2, 3 |
| `StoreConcurrent` | 3 callers, 2 connections, 1 endpoint, 3 states, times up to 4 and up to 2 late, 4 calls | calls that never all wait, alert spacing, every outage alerted, transitions of ordered results are the changes of the history |
| `StoreRefinement` | 3 callers, 2 connections, 2 endpoints on one lock key, 3 calls | every call returns; refinement of `ResultLog` |
| `RepositoriesRun` | 2 endpoints, 4 states, 2 latencies, 3 results at 3 times | both repositories answer alike but at the end of the dedupe window; both calculations give the same figures; a result moves only the figures it should, and in the right direction |
| `ReportingRun` | 3 checks, 3 states, 3 times | a status is coherent although its parts are of different moments; a scrape shows the state if there was one to show; the counters account for the rows |
| `CheckerRun` | timeout 2, latency target 1, 3 retries, 4 pairs of delays | the table of states, two timeouts, the documented backoff, termination and within which time, for every sequence of targets |
| `LifecycleRun` | 54 configuration files, 2 requests | what is loaded is usable, which sizes panic, exit status, bounded startup, shutdown, readiness |

The type invariants are theorems; TLC checks only that of `Lifecycle` again.
`OneCheckAtATime` of `Scheduler` and `HalfOpenOnlyWhileChecking` of
`CheckPipeline`, which follow from `OnePlacePerEndpoint` and `ImplementsBreaker`,
are theorems too and have no run of their own.

**Why the bounds are enough.** The scheduler needs a queue smaller than the
endpoints (drops), more workers than slots (waiting for the semaphore), fewer
slots than endpoints and at least two of each; `SchedulerSafety` has all of them,
and its invariants are proved for all sizes. `MaxElapsed = 2` lets ticks be
missed. In `CheckPipeline` a threshold of two has a failure that does not open
the circuit, a cooldown of two has an age that is neither zero nor over, two
retries have a probe that is neither first nor last. `Retries`, `Threshold` and
`Cooldown` are the constants of the code; that `age`, `failures`, `streak` and
`sinceVerdict` stop at them loses nothing, since the code and the properties
compare them with these values only. In `Checker` a timeout of two and a target
of one make a check that is fast, one that is slow and one that times out. In
`PostgresStore` three callers with two connections make one wait for the pool
while another waits for the lock; three calls have a first result, one that
meets another inside its transaction, and one after both, a fourth makes a
transition out of order and its repair; a window of one unit on a clock of four
has distances below, at and above the window. Time is the same throughout
`StoreRefinement`, whose question is which rows a transaction saw, not how old
they were. `MaxCalls` and `MaxTime` bound histories, nothing else. `MaxRequests`
is compared with nothing but zero. Three retries double a delay, reach
the cap and stay there; the pairs of delays are an odd cap, a cap below the base,
none, and no base. In `Repositories` three results on two endpoints have an
endpoint with two results among those of the other, windows before, at
and after each, and limits that cut and do not. In `Reporting` three checks have
one before a reader begins and two while it reads: a change, and a change back. The files of `MCLifecycle` are the one of `config_test.go` with
each deviation that a condition of `config.go` tells apart.

`CHECK_DEADLOCK` is on everywhere: the modules that end (`Run` returned, the
check returned, all calls made, the process exited) say so by an action that
stutters.

Symmetry is used for workers, callers and endpoints, and in no run with a liveness
property. `RepositoriesRun` has it beside an action property, which is a formula about single
steps that names no endpoint.

## Fairness and other assumptions

- *Goroutines run* (weak fairness of `Run`, of each worker, of `Perform`).
- *A Go `select` picks among its ready cases at random*, so one that is ready
  again and again is picked: strong fairness of the cases of `Run`'s select.
- *Goroutines blocked on a channel are served in order*: strong fairness of
  `Acquire`. Likewise pgxpool's waiters and PostgreSQL's lock queue: strong
  fairness of `Begin` and `Lock`.
- *A worker inside its probes comes out*: shown by `CheckWithRetries`, see above.
- *Time passes and timers fire.* In `CheckWithRetries` that is all that ends a wait or a
  probe: the target never has to answer.
- **Not** assumed: that the database answers or recovers, that a target answers,
  that a signal comes, that a client leaves. In `Lifecycle` a request ends if
  the database is not silent; `ShutdownEnds` states for its second part that the
  database does not stay silent for ever, because `Close` waits for the
  connections of requests.
- `CallsReturn` assumes a database that answers; it may refuse any statement.
- `ProbesContinueWhenServed` assumes one that from some time on answers.

About libraries, as the code uses them: pgx refuses to begin a transaction on a
cancelled context, and the deferred `Rollback` ends the transaction also then
(pgx closes a connection whose context ended in mid-query); the end of a
transaction frees its advisory lock; `pgxpool.Close` waits for acquired
connections; the isolation level is read committed. A commit whose answer is
lost may or may not have taken place (`CommitFails`).

The registry of the Prometheus client reads series by series, under no lock that
covers more than one of them. pgxpool makes no pool without room for a connection.

About the configuration: `LoadedConfigWorks`, which holds of whatever `Load` lets
through (`AcceptedConfigWorks`), is what the other modules assume, except that it leaves out what `Validate` does
not look at: a `queueSize` that is negative or larger than memory, or that many
`workers` (`Run` panics, see `Lifecycle`; fewer workers, whose channel fits and
whose goroutines do not, end the process too and are not modelled), a negative
`circuitFailures` (the first failure opens the circuit), `circuitCooldown`,
`dedupeWindow`, `latencyTarget` or `slo.window` (the code falls back to its default for
the last).

## The proofs

TLAPS checks, for every value of the constants that the assumptions allow:

| Module | Theorem | Says |
|---|---|---|
| `SchedulerProofs`, first part | `SchedulerTypes`, `EndpointsAreTracked`, `MarksAreExact`, `ChecksNeverOverlap`, `SlotsAreCounted`, `ReportingNeverWaits`, `WorkersNeverStall`, `LargeQueueNeverDrops` | the invariants of `Scheduler` for any number of endpoints, workers, slots and places |
| second part | `SchedulerRefinesCycle` | `Scheduler` implements `CheckCycle` |
| `CheckPipelineProofs` | `PipelineTypes`, `HalfOpenIsReleased`, `ProbesWaitForCooldown`, `SkipsFollowOutages`, `StoredOutagesAreReal`, `ShutdownsAreNoOutages`, `GaugeShowsStored` | the invariants of `CheckPipeline` for any threshold, cooldown and number of retries |
| | `PipelineRefinesBreaker` | `CheckPipeline` implements `BreakerStates` |
| `CheckerProofs`, first part | `CheckerTypes`, `StatesFollowTheTable`, `ChecksAreShort` | the table of states and the two timeouts for any timeout and latency target |
| second part | `EveryProbeFollowsTheTable`, `EveryProbeIsShort`, `ProbesAreBounded` | the same table and timeouts for every probe of `Retry`, any number of retries and any delays |
| third part | `BackoffIsAsDocumented` | the waits of `Retry` are the documented ones for any base delay, maximum and number of retries |
| fourth part | `ChecksEndInTime` | `Retry` ends within the time of `LongestCheck`, whatever the targets do: the time left is in its range, no step adds to it, time takes from it |
| `LifecycleProofs` | `LifecycleTypes`, `SuccessMeansAsked`, `OnlyUncheckedSizesPanic`, `AcceptedConfigWorks` | the invariants of `Lifecycle` for any set of configuration files |
| `PostgresStoreProofs` | `StoreTypes`, `AlertsAreSpaced`, `OutagesAreAlerted`, `TransitionsFollowHistory`, `CallsNeverStall`, `StoreRefinesLog` | the invariants of `PostgresStore` for any number of callers and endpoints, any collisions of lock keys, any window; `PostgresStore` implements `ResultLog` |
| `ReportingProofs` | `ReportingTypes`, `ScrapesTellStates`, `CountersAccountForRows`, `StatusesAreCoherent` | what the metrics and a status tell of an endpoint, for any number of checks, any set of states and any window |
| `RepositoriesProofs` | `RepositoriesAnswerAlike` | the repository of the tests answers like PostgreSQL, for any number of endpoints, results, rows asked for and any dedupe window |
| | `FiguresFollowEveryResult` | how a result moves the figures, as an action property, for any target, history and window |
| `QueryLemmas` | | lemmas for the two modules before it: what the queries of `ReadQueries` return |

The arguments:

- **Scheduler.** `OnePlacePerEndpoint` is not inductive by itself: a scan could
  queue an endpoint that some worker holds if `inFlight` were wrong.
  `SchedulerInv` joins types, `WorkersInv` (a worker between the receive
  from `jobs` and its report has an endpoint; before `Run` starts them there are
  no workers), `OnePlacePerEndpoint`, `InFlightExact` and
  `SemaphoreCountsPerforming`. Two pigeonhole facts follow by
  `LengthWithoutRepetition`, a sequence without repetition over a finite set is
  no longer than the set: `done` never fills, and a queue with a place for each
  endpoint is never full when one of them is outside.
- **Workers.** While the repository answers, a worker with an endpoint can step unless it waits
  for a slot; then all slots are taken (`SemaphoreCountsPerforming`), there is at
  least one, and whoever has it can step. `PoolInv` says when workers run at all: from
  the moment `Run` starts them, and until a cancellation none of them ends.
- **Refinement.** Under `SchedulerInv` the cases of `PhaseOf` exclude each other,
  so each step moves the phase of at most one endpoint (`OneMoves`, `NoneMoves`);
  the checked endpoints are no more than the tokens in the semaphore.
- **Check.** `PipelineInv` adds to the properties `CircuitInv`, which ties the
  circuit to the ghosts (as many failures as the streak, open from the threshold
  on, as old as the last verdict, half open only inside the retry loop), and
  `ResultInv`, what the result can be at each stage.
- **Breaker.** `CircuitInv` is also what makes each step of the circuit one of
  `BreakerStates`: at `Allow` an open circuit is of age `Cooldown`, at `Failure` an
  unopened one has fewer failures than the threshold, and a half-open one is so only for
  the check that asked. One lemma per action says to which step or stutter it maps.
- **Checker.** `Budget` bounds the time spent by the timeouts begun minus what is
  left; `Findings` says what the state at each stage knows about the target.
- **Retries.** While a probe is under way it has `CheckerInv`, by the step lemma
  of `CheckerProofs`; between two probes `BetweenProbes` is what the wait leaves.
- **Backoff.** A wait is among the `RetryDelays` (`DelayInv`). What the loop of
  `retryDelay` arrives at is a recursive function, and the induction theorems of the
  library take an operator no prover here can instantiate, so the induction is
  over a set of numbers (`EveryNumber`, from the minimum of a non-empty set): the
  recursion has a solution (`DoublingExists`), its value is the doubled delay or, from
  half the maximum rounded down on, the maximum (`DoublingValues`), so that it differs from
  the documented one by at most the unit of an odd maximum. That `2^(n + 1)` is twice `2^n`
  is counted in subsets (`PowersOfTwo`).
- **Time.** The longest wait is the jittered maximum or, without one, the jittered base
  doubled once per retry (`BackoffIsShort`, `PowersGrow`, `DelayIsShort`); a wait under way is
  no longer than its delay (`WaitInv`). So each wait and the probe after it fit into one
  `Turn`, and `TimeLeft` never grows (`TimeStep`).
- **Repository.** What a transaction read or wrote is still so when it commits,
  because the lock of the endpoint keeps other writers away. `LocksHeld`: who is
  past the lock and not yet done holds it, so two such callers are of different
  endpoints. `IdsGrow`: the row of a caller under the lock is newer than all
  committed rows of its endpoint. `ReadsAreCurrent`: `previous` is the latest committed
  state. `WritesAreCurrent`: what is pending is what `ResultLog` would add now.
  `TableInv` has the three properties of the tables and `HistoriesEnd`,
  that a history has a latest row. `TableInv` is kept by any step that records one row
  as `ResultLog` does (`Recorded`), and a commit is such a step (`CommitRecords`);
  this is also the refinement.
- **Store progress.** `InUse`: the connections lent out are those of the callers past the pool,
  and who holds a lock is past it. So if every caller waited for a connection,
  the pool would be full, of callers that do not; and a caller waiting for a lock waits for
  one that has its connection and its lock and executes its next statement.
- **Lifecycle.** `Loaded`: from the database on, `run` has a configuration that
  `Validate` accepted and in which no default was left out (`DefaultsAreSet`); its workers and
  limit are positive, so that a size of `done` that does not fit was too large before it
  wrapped around. `Messages`: at most one message of each
  goroutine. `Asked`: before `run` calls `stop` the root context is cancelled only by a
  signal, and a message without an error, which is how `Run` and the server say
  that they were asked to stop, follows from that.
- **Metrics.** `GaugeTells`: the series already set tell the new state, the others the
  old one. `ScrapeReads`: what a scrape has read is of states in `meant`, all of
  them but the unread ones when there is one. `Balanced`: the account of
  `CountersAccount` at every stage, with what is due at this stage.

- **Queries.** `After(rows, r)` are the rows after `r` in the order of times and
  identifiers. In a finite table whose rows have identifiers of their own the
  number of rows after a row says which row it is, and every number below the
  size of the table occurs (`EveryRankOnce`, by counting), so that `NewestFirst` has at each
  place the row it should (`NewestFirstRanks`), and its first is the one
  that `LatestState` and `LatestResults` choose.
- **Status.** The answers a request has gathered are of the tables as they were;
  `RequestInv` says what each of them still has to do with the tables of now. It needs
  `HistoryInv`: results are in the same order by time and by identifier, each
  transition is of a result, and the newest transition led to the state of the
  newest result. Rows only come after those there are, so what explained the
  latest result still explains it (`CommitKeepsHistory`), and a window that
  included it still does.
- **Both repositories.** `RepositoriesInv` pairs each list of the one with the table
  of the other (`Mirrored`): a bijection from places to rows that keeps the order
  of identifiers, under which item and row differ in nothing but the identifier.
  A row with a new highest identifier extends it (`MirrorGrows`); that both add
  the same row follows from `SameState`, the last item being the newest row
  (`LastIsNewest`), and for alerts from `SameDuplicates`, where the window is open
  in one and closed in the other and no result lies on its edge. Counts over a list and
  over its table are equal (`MirrorCounts`), and so are lists in an order that the
  bijection keeps (`SameListing`).
- **Figures.** The burn rate is a fraction whose numerator and denominator are
  products of two counts and the target (`Burn`); one bad or good result compares two
  of them by cross-multiplication (`BurnAfterBad`, `BurnAfterGood`), and the budget
  that remains falls when the burn rate rises (`RemainingFalls`). The invariant is
  only that there are finitely many results.

The assumptions are the named ones of the modules: about configured values what
`Validate` and the defaults ensure; for `PostgresStore` also that the callers are
finitely many, that there are endpoints and states, and that each endpoint has a lock
key; for `Reporting` that states are among those with a series and that there is an
endpoint; for `Repositories` that no endpoint has the empty identifier, which
`Validate` refuses and which asks for the transitions of all, and that limits and
bounds are numbers.

Every invariant, type invariant and action property that a run checks, and the three
refinements, are theorems. Only model-checked are the liveness properties, because
fairness is beyond the prover: `ProbesContinueWhenServed`, `ShutdownCompletes`,
`RecoveryRecorded`, `OutageRecorded`, `CallsReturn`, `RetryReturns`,
`StartupEnds`, `ShutdownEnds` and `ReadinessFollows`. The violations of the next
section are TLC counterexamples.

## Findings

Each has a run in which TLC finds the violation of one property.

1. `service.go:163`: `RecordResult` has the root context and no deadline, and
   the worker keeps its slot. A database that accepts and does not answer stops
   all probes, where `docs/architecture.md:42` has "Probes continue".
2. `service.go:153`: the half-open circuit admits a whole retry loop, where the
   documents have a single probe.
3. `metrics.go:72`: a check in maintenance sets the circuit gauge to 0 while the
   circuit is open.

Remarks that no run is spent on:

- `postgres.go:97`: results that commit in another order than their times leave
  transitions that contradict the history (`README.md:48` says that the lock
  prevents it). Within one process `OneCheckAtATime` excludes it; two processes
  on a database do not. `OrderedTransitionsMatch` is what does hold.
- `main.go:92`: `run` does not wait for `service.Run`; the process can exit while
  workers check, where `docs/architecture.md:46` has "workers observe
  cancellation". In `Lifecycle`, `Close` asks nothing of `monitor`.
- `service.go:141`: maintenance is read once, before `Retry`, so a window that
  opens during the retries does not stop the remaining probes, where
  `README.md:159` has "no probe is sent".
- `postgres.go:145`: the dedupe key of a recovery is `endpoint:Healthy`, so the
  recovery from a second incident within the window has no alert of its own.
- `memory.go:64` against `postgres.go:145`: the dedupe window is open at its end in
  the one repository and closed in the other (`ExactlyWindowApart`); and a list of the
  transitions of all endpoints comes in the order of recording from the one, in
  that of times from the other.
- `metrics.go:62`: a scrape during a change of state can show both states or
  none; `ScrapeTellsState` says what it cannot show.
- `retry.go:51`: the jitter comes after the cap, so that a delay can be a fifth
  longer than `retryMaxDelay`; from half an odd maximum on, the delay is the
  maximum, one unit early.
- `config.go:114`: `queueSize` is not looked at and `workers` has no upper bound, so
  that `make(chan)` panics with a negative or a huge one (`service.go:74`), and with
  one near the greatest int, whose sum with the endpoints overflows (`service.go:75`);
  `PanicsOnlyOnSizes` says that there is no other way.
- `service.go:112`: with a queue smaller than the list of endpoints, those late in the
  list can be dropped again and again.
- `main.go:53`: `Close` waits for the connections of requests without a bound.
- `config.go:164`: `SplitHostPort` accepts `http://host` as the address of a TCP
  endpoint, whose checks then fail.
- `types.go:190`: a window without samples has availability 0 and its whole
  budget (`docs/slo.md` speaks of a window with samples only).

## What is not modelled

- *Contents*: messages, names, formats, log lines, HTML, headers, metric labels.
- *Floats*: the fractions of `SLO` are exact, and an `availabilityTarget` is a number
  (`.nan` passes the comparisons of `config.go:156`).
- *The width of durations*: they are unbounded integers. `retryDelay` would only leave
  the int64 for delays of months (`retry.go:45` without a positive maximum) or of
  centuries (`retry.go:51`).
- *The latency histogram and the counter of dropped checks*: written, never read.
- *YAML and environment placeholders*: that decoding may fail is in `Lifecycle`.
- *The fallbacks of `Snapshot` and `CalculateSLO`* for targets and windows that are not
  set: the defaults leave none unset.
- *More than one caller of one circuit*: the methods hold a mutex throughout, and
  the scheduler never has two.
- *The handlers of the HTTP interface*: they read and render, and keep no state;
  that their queries hold connections is in `Lifecycle`, what a status request
  reads in `Reporting`, the limits of lists in `Repositories`.
- *Demo target, certificate generator, health check, containers, scripts*: not
  part of the watchdog, or one-shot commands without state.
- *Retention of old rows*: the code has none.

## Plan

Done, in this order: `Scheduler` with `CheckCycle`; `CircuitBreaker` and
`CheckPipeline`; `RecordRules`, `ResultLog`, `PostgresStore`; `Checker`;
`Lifecycle`; the proofs above; `RetryDelay` with `CheckWithRetries`;
`ReadQueries`, `SLO`, `MemoryStore` with `Repositories`; `Reporting`;
`ConfigRules` under `Lifecycle`; the proofs about `Lifecycle`, `CheckWithRetries`,
`PostgresStore` and `Reporting`; the lemmas on queries; the proofs about
`Repositories` and the backoff; in place of liveness what can be proved of it, that
neither the workers nor the calls ever all wait and that a `Retry` ends in time;
`BreakerStates` and its refinement. `MemoryStore` lists by place instead of by recursive
library operators, so that its lists could be proved about.

What the provers cannot do is left to TLC: the liveness properties listed under
[the proofs](#the-proofs), in the instances of the table of runs. Some hazards have no property, because
the code does what they say; each is under [findings](#findings): the maintenance window
read once before the retries, the exit that does not wait for the workers, endpoints
dropped again and again by a small queue, results that commit out of order,
a second incident without an alert of its own, the edge of the dedupe window, and a
`Close` that waits for a silent database.
