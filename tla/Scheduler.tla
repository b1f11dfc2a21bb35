----------------------------- MODULE Scheduler -----------------------------
(***************************************************************************)
(* The scheduling loop and the worker pool of internal/monitor/service.go: *)
(* Service.Run and Service.worker, one goroutine for the loop and one for  *)
(* each worker, joined by the buffered channels jobs and done, by the      *)
(* counting semaphore and by the cancellation of the context.              *)
(*                                                                         *)
(* What a worker does inside perform is two phases here, the probes and    *)
(* the RecordResult call; module CheckPipeline opens them up.              *)
(*                                                                         *)
(* Time is counted in periods of the 100 ms ticker.  next[e], a wall clock *)
(* time in the code, is kept as dueIn[e], the number of periods left until *)
(* the first tick that finds current.Before(next[e]) false.                *)
(***************************************************************************)
EXTENDS Naturals, Sequences, FiniteSets

CONSTANTS
  NumEndpoints,      \* len(s.endpoints)
  Interval,          \* endpoint |-> Interval, in ticker periods
  Workers,           \* the worker goroutines
  ConcurrencyLimit,  \* capacity of the semaphore channel
  QueueSize,         \* capacity of the jobs channel
  MaxElapsed         \* bound: ticker periods that can pass between two ticks

(* s.endpoints in slice order; config.Validate made the identifiers unique, *)
(* so the index of an endpoint is its identifier.                           *)
Endpoint == 1..NumEndpoints

(* What config.Validate and applyDefaults leave, but for the sizes with     *)
(* which make(chan) panics (Lifecycle).                                     *)
ASSUME SchedulerAssumption ==
  /\ NumEndpoints \in Nat \ {0}
  /\ Interval \in [Endpoint -> Nat \ {0}]
  /\ IsFiniteSet(Workers)
  /\ Workers # {}
  /\ ConcurrencyLimit \in Nat \ {0}
  /\ QueueSize \in Nat \ {0}
  /\ MaxElapsed \in Nat \ {0}

VARIABLES
  pc,         \* where Run is
  scan,       \* position of the range loop over s.endpoints in a tick
  dueIn,      \* next, see above
  inFlight,   \* the map inFlight
  jobs,       \* contents of the channel jobs
  done,       \* contents of the channel done
  semaphore,  \* number of tokens in the channel semaphore
  wpc,        \* where each worker is
  wjob,       \* the endpoint each worker has received, NoJob if none
  cancelled,  \* ctx.Done() is closed
  hung        \* the repository accepts calls and does not answer them

runVars == <<pc, scan, dueIn, inFlight>>
workerVars == <<wpc, wjob, semaphore>>
vars == <<runVars, jobs, done, workerVars, cancelled, hung>>

NoJob == 0

RunPc == {"start", "select", "scan", "marking", "closing", "returned", "failed"}
WorkerPc == {"unborn", "idle", "holding", "probing", "recording", "reporting",
             "exited"}

(* Workers inside perform, between the send to semaphore and the receive.   *)
InPerform(w) == wpc[w] \in {"probing", "recording"}
(* Workers that have received an endpoint and not yet reported it.          *)
Busy(w) == wpc[w] \in {"holding", "probing", "recording", "reporting"}
(* Mutant: done is given the capacity of jobs.                              *)
DoneCapacityOfQueue == QueueSize
(* make(chan string, len(s.endpoints)+s.options.Workers)                    *)
DoneCapacity == NumEndpoints + Cardinality(Workers)
JobsClosed == pc \in {"closing", "returned"}
Elements(s) == {s[i] : i \in 1..Len(s)}

Init ==
  /\ pc = "start"
  /\ scan = 1
  /\ dueIn = [e \in Endpoint |-> 0]
  /\ inFlight = [e \in Endpoint |-> FALSE]
  /\ jobs = <<>>
  /\ done = <<>>
  /\ semaphore = 0
  /\ wpc = [w \in Workers |-> "unborn"]
  /\ wjob = [w \in Workers |-> NoJob]
  /\ cancelled = FALSE
  /\ hung = FALSE

-----------------------------------------------------------------------------
(* Mutant: RecordResult is given a context of its own.                      *)
RespondsDetached == ~hung
(* The repository: calls take the root context and no deadline, so a call   *)
(* comes back when the database answers or when the context is cancelled.   *)
RepositoryResponds == ~hung \/ cancelled

RepositoryHangs ==
  /\ ~hung
  /\ hung' = TRUE
  /\ UNCHANGED <<runVars, jobs, done, workerVars, cancelled>>

RepositoryRecovers ==
  /\ hung
  /\ hung' = FALSE
  /\ UNCHANGED <<runVars, jobs, done, workerVars, cancelled>>

(* SIGINT, SIGTERM or stop() in main.                                       *)
Cancel ==
  /\ ~cancelled
  /\ cancelled' = TRUE
  /\ UNCHANGED <<runVars, jobs, done, workerVars, hung>>

-----------------------------------------------------------------------------
(* Run: UpsertEndpoints succeeded, the workers are started, everything is   *)
(* due at once.                                                             *)
SyncEndpoints ==
  /\ pc = "start"
  /\ ~hung /\ ~cancelled
  /\ pc' = "select"
  /\ wpc' = [w \in Workers |-> "idle"]
  /\ UNCHANGED <<scan, dueIn, inFlight, jobs, done, wjob, semaphore,
                 cancelled, hung>>

(* Run: UpsertEndpoints failed, Run returns its error before any worker.    *)
SyncFails ==
  /\ pc = "start"
  /\ RepositoryResponds
  /\ pc' = "failed"
  /\ UNCHANGED <<scan, dueIn, inFlight, jobs, done, workerVars, cancelled, hung>>

(* case endpointID := <-done                                                *)
ReceiveDone ==
  /\ pc = "select"
  /\ done # <<>>
  /\ done' = Tail(done)
  /\ inFlight' = [inFlight EXCEPT ![Head(done)] = FALSE]
  /\ dueIn' = [dueIn EXCEPT ![Head(done)] = Interval[Head(done)] + 1]
  /\ UNCHANGED <<pc, scan, jobs, workerVars, cancelled, hung>>

(* case current := <-ticker.C: some periods have passed since the last tick *)
(* taken (the ticker drops ticks nobody receives), the scan begins.         *)
Tick ==
  /\ pc = "select"
  /\ \E elapsed \in 1..MaxElapsed :
       dueIn' = [e \in Endpoint |->
                   IF dueIn[e] > elapsed THEN dueIn[e] - elapsed ELSE 0]
  /\ pc' = "scan"
  /\ scan' = 1
  /\ UNCHANGED <<inFlight, jobs, done, workerVars, cancelled, hung>>

(* case <-ctx.Done(): return; the deferred function closes jobs.            *)
SelectReturn ==
  /\ pc = "select"
  /\ cancelled
  /\ pc' = "closing"
  /\ UNCHANGED <<scan, dueIn, inFlight, jobs, done, workerVars, cancelled, hung>>

-----------------------------------------------------------------------------
(* The range loop of a tick.                                                *)
DueAndIdle(e) == ~inFlight[e] /\ dueIn[e] = 0
QueueHasRoom == Len(jobs) < QueueSize

(* inFlight or not yet due: continue.                                       *)
ScanSkip ==
  /\ pc = "scan"
  /\ scan \in Endpoint
  /\ ~DueAndIdle(scan)
  /\ scan' = scan + 1
  /\ UNCHANGED <<pc, dueIn, inFlight, jobs, done, workerVars, cancelled, hung>>

(* case jobs <- endpoint: a worker can receive it from now on.              *)
ScanSend ==
  /\ pc = "scan"
  /\ scan \in Endpoint
  /\ DueAndIdle(scan)
  /\ QueueHasRoom
  /\ jobs' = Append(jobs, scan)
  /\ pc' = "marking"
  /\ UNCHANGED <<scan, dueIn, inFlight, done, workerVars, cancelled, hung>>

(* Mutant: the endpoint that was sent is not marked.                        *)
ScanMarkForgotten ==
  /\ pc = "marking"
  /\ pc' = "scan"
  /\ scan' = scan + 1
  /\ UNCHANGED <<dueIn, inFlight, jobs, done, workerVars, cancelled, hung>>

(* inFlight[endpoint.ID] = true, whatever the workers have done meanwhile.  *)
ScanMark ==
  /\ pc = "marking"
  /\ inFlight' = [inFlight EXCEPT ![scan] = TRUE]
  /\ pc' = "scan"
  /\ scan' = scan + 1
  /\ UNCHANGED <<dueIn, jobs, done, workerVars, cancelled, hung>>

(* Mutant: the endpoint is marked before the select and a drop leaves it so. *)
ScanDropMarked ==
  /\ pc = "scan"
  /\ scan \in Endpoint
  /\ DueAndIdle(scan)
  /\ ~QueueHasRoom
  /\ ~cancelled
  /\ dueIn' = [dueIn EXCEPT ![scan] = Interval[scan]]
  /\ inFlight' = [inFlight EXCEPT ![scan] = TRUE]
  /\ scan' = scan + 1
  /\ UNCHANGED <<pc, jobs, done, workerVars, cancelled, hung>>

(* default: the queue is full and the context is not done, so this interval *)
(* of the endpoint is skipped.                                              *)
ScanDrop ==
  /\ pc = "scan"
  /\ scan \in Endpoint
  /\ DueAndIdle(scan)
  /\ ~QueueHasRoom
  /\ ~cancelled
  /\ dueIn' = [dueIn EXCEPT ![scan] = Interval[scan]]
  /\ scan' = scan + 1
  /\ UNCHANGED <<pc, inFlight, jobs, done, workerVars, cancelled, hung>>

(* case <-ctx.Done() of the inner select: return.                           *)
ScanReturn ==
  /\ pc = "scan"
  /\ scan \in Endpoint
  /\ DueAndIdle(scan)
  /\ cancelled
  /\ pc' = "closing"
  /\ UNCHANGED <<scan, dueIn, inFlight, jobs, done, workerVars, cancelled, hung>>

ScanEnd ==
  /\ pc = "scan"
  /\ scan > NumEndpoints
  /\ pc' = "select"
  /\ UNCHANGED <<scan, dueIn, inFlight, jobs, done, workerVars, cancelled, hung>>

(* workers.Wait() is over, Run returns nil.                                 *)
RunReturns ==
  /\ pc = "closing"
  /\ \A w \in Workers : wpc[w] = "exited"
  /\ pc' = "returned"
  /\ UNCHANGED <<scan, dueIn, inFlight, jobs, done, workerVars, cancelled, hung>>

-----------------------------------------------------------------------------
(* worker: for endpoint := range jobs                                       *)
Take(w) ==
  /\ wpc[w] = "idle"
  /\ jobs # <<>>
  /\ jobs' = Tail(jobs)
  /\ wpc' = [wpc EXCEPT ![w] = "holding"]
  /\ wjob' = [wjob EXCEPT ![w] = Head(jobs)]
  /\ UNCHANGED <<runVars, done, semaphore, cancelled, hung>>

(* Mutant: the semaphore has room for every worker.                         *)
AcquireUnbounded(w) ==
  /\ wpc[w] = "holding"
  /\ semaphore' = semaphore + 1
  /\ wpc' = [wpc EXCEPT ![w] = "probing"]
  /\ UNCHANGED <<runVars, jobs, done, wjob, cancelled, hung>>

(* case semaphore <- struct{}{}: also possible after the cancellation.      *)
Acquire(w) ==
  /\ wpc[w] = "holding"
  /\ semaphore < ConcurrencyLimit
  /\ semaphore' = semaphore + 1
  /\ wpc' = [wpc EXCEPT ![w] = "probing"]
  /\ UNCHANGED <<runVars, jobs, done, wjob, cancelled, hung>>

(* case <-ctx.Done() while waiting for the semaphore: nothing is performed. *)
SkipCancelled(w) ==
  /\ wpc[w] = "holding"
  /\ cancelled
  /\ wpc' = [wpc EXCEPT ![w] = "reporting"]
  /\ UNCHANGED <<runVars, jobs, done, wjob, semaphore, cancelled, hung>>

(* perform: the probes are over, RecordResult is called.                    *)
EndProbe(w) ==
  /\ wpc[w] = "probing"
  /\ wpc' = [wpc EXCEPT ![w] = "recording"]
  /\ UNCHANGED <<runVars, jobs, done, wjob, semaphore, cancelled, hung>>

(* Mutant: the token is not taken back.                                     *)
EndPerformKeepsToken(w) ==
  /\ wpc[w] = "recording"
  /\ RepositoryResponds
  /\ wpc' = [wpc EXCEPT ![w] = "reporting"]
  /\ UNCHANGED <<runVars, jobs, done, wjob, semaphore, cancelled, hung>>

(* perform returns and the token is taken back from semaphore.              *)
EndPerform(w) ==
  /\ wpc[w] = "recording"
  /\ RepositoryResponds
  /\ semaphore' = semaphore - 1
  /\ wpc' = [wpc EXCEPT ![w] = "reporting"]
  /\ UNCHANGED <<runVars, jobs, done, wjob, cancelled, hung>>

(* case done <- endpoint.ID                                                 *)
Report(w) ==
  /\ wpc[w] = "reporting"
  /\ Len(done) < DoneCapacity
  /\ done' = Append(done, wjob[w])
  /\ wpc' = [wpc EXCEPT ![w] = "idle"]
  /\ wjob' = [wjob EXCEPT ![w] = NoJob]
  /\ UNCHANGED <<runVars, jobs, semaphore, cancelled, hung>>

(* case <-ctx.Done(): return without reporting.                             *)
QuitReporting(w) ==
  /\ wpc[w] = "reporting"
  /\ cancelled
  /\ wpc' = [wpc EXCEPT ![w] = "exited"]
  /\ wjob' = [wjob EXCEPT ![w] = NoJob]
  /\ UNCHANGED <<runVars, jobs, done, semaphore, cancelled, hung>>

(* The range over jobs ends: the channel is closed and empty.               *)
RangeEnds(w) ==
  /\ wpc[w] = "idle"
  /\ JobsClosed
  /\ jobs = <<>>
  /\ wpc' = [wpc EXCEPT ![w] = "exited"]
  /\ UNCHANGED <<runVars, jobs, done, wjob, semaphore, cancelled, hung>>

-----------------------------------------------------------------------------
Scan == ScanSkip \/ ScanSend \/ ScanMark \/ ScanDrop \/ ScanReturn \/ ScanEnd

Run ==
  \/ SyncEndpoints \/ SyncFails
  \/ ReceiveDone \/ Tick \/ SelectReturn
  \/ Scan
  \/ RunReturns

Worker(w) ==
  \/ Take(w) \/ Acquire(w) \/ SkipCancelled(w)
  \/ EndProbe(w) \/ EndPerform(w)
  \/ Report(w) \/ QuitReporting(w) \/ RangeEnds(w)

Environment == RepositoryHangs \/ RepositoryRecovers \/ Cancel

(* Run has returned: the component is finished.                             *)
Terminated == pc \in {"returned", "failed"} /\ UNCHANGED vars

Next == Run \/ (\E w \in Workers : Worker(w)) \/ Environment \/ Terminated

(* Every goroutine keeps running.  A Go select takes one of its ready cases *)
(* at random, so a case that is ready again and again is taken: strong      *)
(* fairness for the cases of Run's select.  Senders that wait on semaphore  *)
(* are served in the order they came, hence strong fairness of Acquire.     *)
(* Nothing makes the database recover or a signal arrive.                   *)
Fairness ==
  /\ WF_vars(Run)
  /\ SF_vars(ReceiveDone)
  /\ SF_vars(Tick)
  /\ SF_vars(SelectReturn)
  /\ \A w \in Workers : WF_vars(Worker(w)) /\ SF_vars(Acquire(w))

Spec == Init /\ [][Next]_vars
FairSpec == Spec /\ Fairness

-----------------------------------------------------------------------------
(* Types, and the channel capacities Go enforces.                           *)
TypeOK ==
  /\ pc \in RunPc
  /\ scan \in 1..(NumEndpoints + 1)
  /\ pc = "marking" => scan \in Endpoint
  /\ dueIn \in [Endpoint -> Nat]
  /\ inFlight \in [Endpoint -> BOOLEAN]
  /\ jobs \in Seq(Endpoint)
  /\ done \in Seq(Endpoint)
  /\ semaphore \in Nat
  /\ wpc \in [Workers -> WorkerPc]
  /\ wjob \in [Workers -> Endpoint \cup {NoJob}]
  /\ cancelled \in BOOLEAN
  /\ hung \in BOOLEAN

(* The places an endpoint can be in between the send to jobs and the        *)
(* receive from done.                                                       *)
Queued(e) == e \in Elements(jobs)
HeldBy(w, e) == Busy(w) /\ wjob[w] = e
Reported(e) == e \in Elements(done)

NoRepetition(s) == \A i, j \in 1..Len(s) : s[i] = s[j] => i = j

(* An endpoint is in at most one place of the pipeline jobs, worker, done,  *)
(* once there: the guard inFlight of the scan against the channels that the *)
(* workers drain at their own pace.                                         *)
OnePlacePerEndpoint ==
  /\ NoRepetition(jobs)
  /\ NoRepetition(done)
  /\ \A v, w \in Workers : Busy(v) /\ Busy(w) /\ wjob[v] = wjob[w] => v = w
  /\ \A e \in Endpoint :
       /\ ~(Queued(e) /\ Reported(e))
       /\ \A w \in Workers : HeldBy(w, e) => ~Queued(e) /\ ~Reported(e)

(* What inFlight says of e, or is about to say: between the send and the    *)
(* mark workers can take, check and report the endpoint.                    *)
Marked(e) == inFlight[e] \/ (pc = "marking" /\ e = scan)

(* inFlight neither forgets an endpoint that is still in the pipeline nor,  *)
(* before the context is cancelled, remembers one that has left it, which   *)
(* would never be scheduled again; that one is marked after it was sent     *)
(* changes nothing of this.                                                 *)
InFlightExact ==
  \A e \in Endpoint :
    LET inPipeline == Queued(e) \/ Reported(e) \/ \E w \in Workers : HeldBy(w, e)
    IN  /\ inPipeline => Marked(e)
        /\ Marked(e) => inPipeline \/ cancelled

(* Two workers are never inside perform for the same endpoint: the breaker  *)
(* and the order of the stored results depend on it, and neither checks it. *)
OneCheckAtATime ==
  \A v, w \in Workers :
    InPerform(v) /\ InPerform(w) /\ wjob[v] = wjob[w] => v = w

(* The capacity given to done is enough: a worker that wants to report has  *)
(* room to, however long Run is busy with a scan.                           *)
DoneNeverBlocks == \A w \in Workers : wpc[w] = "reporting" => Len(done) < DoneCapacity

(* The next statement of w does not wait.                                   *)
CanStep(w) ==
  \/ wpc[w] = "idle" /\ (jobs # <<>> \/ JobsClosed)
  \/ wpc[w] = "holding" /\ (semaphore < ConcurrencyLimit \/ cancelled)
  \/ wpc[w] = "probing"
  \/ wpc[w] = "recording" /\ RepositoryResponds
  \/ wpc[w] = "reporting" /\ (Len(done) < DoneCapacity \/ cancelled)

(* The workers never all wait, for jobs, slots, room in done or each other, *)
(* while an endpoint is queued or held and the repository answers; and once *)
(* Run waits for them to end none of them waits at all, so that Run's wait  *)
(* is over after the steps they have left.                                  *)
WorkersProceed ==
  /\ ~hung /\ ~cancelled /\ (jobs # <<>> \/ \E w \in Workers : Busy(w))
       => \E w \in Workers : CanStep(w)
  /\ pc = "closing" => \A w \in Workers : wpc[w] # "exited" => CanStep(w)

(* A queue that can hold every endpoint never drops one: whenever an        *)
(* endpoint may be enqueued there is room for it.                           *)
NoDropWhenQueueHoldsAll ==
  QueueSize >= NumEndpoints => \A e \in Endpoint : ~Marked(e) => QueueHasRoom

(* The tokens in semaphore are those of the workers inside perform, so the  *)
(* concurrency limit holds and no token leaks on the way out.               *)
SemaphoreCountsPerforming ==
  /\ semaphore = Cardinality({w \in Workers : InPerform(w)})
  /\ semaphore <= ConcurrencyLimit

(* Shutdown: once the context is cancelled Run returns, whatever the queues *)
(* hold and even while the repository does not answer.                      *)
ShutdownCompletes == cancelled ~> pc \in {"returned", "failed"}

Probing(e) == \E w \in Workers : wpc[w] = "probing" /\ wjob[w] = e
(* Every endpoint is probed again and again until the context is cancelled. *)
(* docs/architecture.md has that of a PostgreSQL outage ("Probes continue").*)
ProbesContinue ==
  \A e \in Endpoint : pc = "select" ~> (Probing(e) \/ cancelled)

(* The same, once and for all times that the repository comes back to       *)
(* answering: no drop, no lost report and no leaked slot stops an endpoint. *)
ProbesContinueWhenServed == <>[]~hung => ProbesContinue

(* Refinement: the scheduler implements CheckCycle.                         *)
PhaseOf(e) ==
  CASE Queued(e) \/ (\E w \in Workers : wpc[w] = "holding" /\ wjob[w] = e) -> "queued"
    [] \E w \in Workers : InPerform(w) /\ wjob[w] = e -> "checking"
    [] Reported(e) \/ (\E w \in Workers : wpc[w] = "reporting" /\ wjob[w] = e) -> "finished"
    [] OTHER -> IF Marked(e) THEN "abandoned" ELSE "resting"

Cycle == INSTANCE CheckCycle WITH phase <- [e \in Endpoint |-> PhaseOf(e)]
(* Every step of Run and of the workers is a step of one endpoint's cycle.  *)
ImplementsCheckCycle == Cycle!CSpec
=============================================================================
