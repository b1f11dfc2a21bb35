-------------------------- MODULE SchedulerProofs --------------------------
(***************************************************************************)
(* Proofs about Scheduler, for any number of endpoints and workers, any    *)
(* intervals, queue size and concurrency limit.                            *)
(*                                                                         *)
(* The inductive invariant SchedulerInv says where an endpoint can be      *)
(* (OnePlacePerEndpoint), that inFlight knows it, or will as soon as Run   *)
(* comes to the mark after the send (InFlightExact), what the              *)
(* tokens of the semaphore stand for, and that no worker runs before Run   *)
(* has started it.  That two checks of an endpoint never overlap and that  *)
(* neither channel ever blocks its sender are consequences, and so is that *)
(* Scheduler implements CheckCycle (the second part).                      *)
(***************************************************************************)
EXTENDS Scheduler, FiniteSetTheorems, SequenceTheorems, TLAPS

-----------------------------------------------------------------------------
(* Sequences without repetition, as the channels of Run are.                *)

LEMMA AppendKeepsSeq ==
  ASSUME NEW S, NEW s \in Seq(S), NEW x \in S
  PROVE  /\ Append(s, x) \in Seq(S)
         /\ Elements(Append(s, x)) = Elements(s) \cup {x}
         /\ NoRepetition(s) /\ x \notin Elements(s) => NoRepetition(Append(s, x))
<1>. DEFINE t == Append(s, x)
<1>1. /\ t \in Seq(S) /\ Len(t) = Len(s) + 1 /\ Len(s) \in Nat
      /\ \A i \in 1..Len(s) : t[i] = s[i]
      /\ t[Len(s) + 1] = x
  OBVIOUS
<1>. HIDE DEF t
<1>2. Elements(t) = Elements(s) \cup {x}
  <2>1. \A i \in 1..Len(t) : i \in 1..Len(s) \/ i = Len(s) + 1
    BY <1>1
  <2>2. 1..Len(s) \subseteq 1..Len(t) /\ Len(s) + 1 \in 1..Len(t)
    BY <1>1
  <2>. QED
    BY <1>1, <2>1, <2>2 DEF Elements
<1>3. ASSUME NoRepetition(s), x \notin Elements(s)
      PROVE  NoRepetition(t)
  <2>. SUFFICES ASSUME NEW i \in 1..Len(t), NEW j \in 1..Len(t), t[i] = t[j]
                PROVE  i = j
    BY DEF NoRepetition
  <2>1. CASE i \in 1..Len(s) /\ j \in 1..Len(s)
    BY <1>1, <1>3, <2>1 DEF NoRepetition
  <2>2. CASE i = Len(s) + 1 /\ j = Len(s) + 1
    BY <2>2
  <2>3. CASE i \in 1..Len(s) /\ j = Len(s) + 1
    BY <1>1, <1>3, <2>3 DEF Elements
  <2>4. CASE i = Len(s) + 1 /\ j \in 1..Len(s)
    BY <1>1, <1>3, <2>4 DEF Elements
  <2>. QED
    BY <1>1, <2>1, <2>2, <2>3, <2>4
<1>. QED
  BY <1>1, <1>2, <1>3 DEF t

LEMMA TailKeepsSeq ==
  ASSUME NEW S, NEW s \in Seq(S), s # <<>>
  PROVE  /\ Tail(s) \in Seq(S)
         /\ Head(s) \in S
         /\ Head(s) \in Elements(s)
         /\ NoRepetition(s) => /\ NoRepetition(Tail(s))
                               /\ Elements(Tail(s)) = Elements(s) \ {Head(s)}
<1>. DEFINE t == Tail(s)
<1>1. /\ t \in Seq(S) /\ Len(t) = Len(s) - 1 /\ Len(s) \in Nat \ {0}
      /\ \A i \in 1..Len(t) : t[i] = s[i + 1]
      /\ Head(s) = s[1]
  OBVIOUS
<1>. HIDE DEF t
<1>2. Head(s) \in S /\ Head(s) \in Elements(s)
  BY <1>1 DEF Elements
<1>3. ASSUME NoRepetition(s) PROVE NoRepetition(t)
  <2>. SUFFICES ASSUME NEW i \in 1..Len(t), NEW j \in 1..Len(t), t[i] = t[j]
                PROVE  i = j
    BY DEF NoRepetition
  <2>1. i + 1 \in 1..Len(s) /\ j + 1 \in 1..Len(s) /\ s[i + 1] = s[j + 1]
    BY <1>1
  <2>2. i + 1 = j + 1
    BY <1>3, <2>1 DEF NoRepetition
  <2>. QED
    BY <1>1, <2>2
<1>4. ASSUME NoRepetition(s) PROVE Elements(t) = Elements(s) \ {Head(s)}
  <2>1. ASSUME NEW x \in Elements(t) PROVE x \in Elements(s) /\ x # Head(s)
    <3>1. PICK i \in 1..Len(t) : x = t[i]
      BY DEF Elements
    <3>2. i + 1 \in 1..Len(s) /\ 1 \in 1..Len(s) /\ i + 1 # 1 /\ x = s[i + 1]
      BY <1>1, <3>1
    <3>. QED
      BY <1>1, <1>4, <3>2 DEF Elements, NoRepetition
  <2>2. ASSUME NEW x \in Elements(s), x # Head(s) PROVE x \in Elements(t)
    <3>1. PICK i \in 1..Len(s) : x = s[i]
      BY DEF Elements
    <3>2. i - 1 \in 1..Len(t) /\ t[i - 1] = s[(i - 1) + 1] /\ (i - 1) + 1 = i
      BY <1>1, <2>2, <3>1
    <3>. QED
      BY <3>1, <3>2 DEF Elements
  <2>. QED
    BY <2>1, <2>2
<1>. QED
  BY <1>1, <1>2, <1>3, <1>4 DEF t

(* A channel that repeats no endpoint and lacks those of M holds at most as *)
(* many as there are others.                                                *)
LEMMA LengthWithoutRepetition ==
  ASSUME NEW S, IsFiniteSet(S), NEW s \in Seq(S), NoRepetition(s),
         NEW M \in SUBSET S, Elements(s) \cap M = {}
  PROVE  Len(s) <= Cardinality(S \ M)
<1>1. s \in [1..Len(s) -> S \ M]
  BY DEF Elements
<1>2. s \in Injection(1..Len(s), S \ M)
  BY <1>1 DEF Injection, IsInjective, NoRepetition
<1>3. IsFiniteSet(S \ M)
  BY FS_Subset
<1>4. Len(s) \in Nat /\ Cardinality(1..Len(s)) = Len(s)
  <2>1. Len(s) \in Nat
    OBVIOUS
  <2>2. Cardinality(1..Len(s)) = IF 1 > Len(s) THEN 0 ELSE Len(s) - 1 + 1
    BY <2>1, FS_Interval
  <2>. QED
    BY ONLY <2>1, <2>2
<1>. QED
  BY <1>2, <1>3, <1>4, FS_Injection

-----------------------------------------------------------------------------
(* The inductive invariant.                                                 *)
Performers == {w \in Workers : InPerform(w)}
InPipeline(e) == Queued(e) \/ Reported(e) \/ \E w \in Workers : HeldBy(w, e)

(* Between the receive from jobs and the report a worker has an endpoint,   *)
(* and there is no worker before Run starts them.                           *)
WorkersInv ==
  /\ \A w \in Workers : Busy(w) => wjob[w] \in Endpoint
  /\ pc = "start" => \A w \in Workers : wpc[w] = "unborn"

SchedulerInv ==
  /\ TypeOK
  /\ WorkersInv
  /\ OnePlacePerEndpoint
  /\ InFlightExact
  /\ SemaphoreCountsPerforming

LEMMA WorkersFinite ==
  /\ IsFiniteSet(Workers)
  /\ IsFiniteSet(Performers)
  /\ Cardinality(Workers) \in Nat \ {0}
<1>1. IsFiniteSet(Workers) /\ Workers # {}
  BY SchedulerAssumption
<1>2. IsFiniteSet(Performers)
  BY <1>1, FS_Subset DEF Performers
<1>3. Cardinality(Workers) \in Nat /\ Cardinality(Workers) # 0
  BY <1>1, FS_CardinalityType, FS_EmptySet
<1>. QED
  BY <1>1, <1>2, <1>3

LEMMA EndpointsFinite == IsFiniteSet(Endpoint) /\ Cardinality(Endpoint) = NumEndpoints
<1>1. NumEndpoints \in Nat \ {0}
  BY SchedulerAssumption
<1>2. Cardinality(1..NumEndpoints)
        = IF 1 > NumEndpoints THEN 0 ELSE NumEndpoints - 1 + 1
  BY <1>1, FS_Interval
<1>. QED
  BY <1>1, <1>2, FS_Interval DEF Endpoint

LEMMA SchedulerInit == Init => SchedulerInv
<1>. SUFFICES ASSUME Init PROVE SchedulerInv
  OBVIOUS
<1>. USE SchedulerAssumption DEF Init
<1>1. TypeOK
  <2>1. 1 \in 1..(NumEndpoints + 1)
    OBVIOUS
  <2>. QED
    BY <2>1, EmptySeq DEF TypeOK, RunPc, WorkerPc, NoJob
<1>2. WorkersInv
  BY DEF WorkersInv, Busy
<1>3. Elements(jobs) = {} /\ Elements(done) = {}
  BY DEF Elements
<1>4. OnePlacePerEndpoint
  BY <1>3 DEF OnePlacePerEndpoint, NoRepetition, Busy, Queued, Reported, HeldBy
<1>5. InFlightExact
  BY <1>3 DEF InFlightExact, Marked, Busy, Queued, Reported, HeldBy
<1>6. SemaphoreCountsPerforming
  <2>1. {w \in Workers : InPerform(w)} = {}
    BY DEF InPerform
  <2>2. Cardinality({w \in Workers : InPerform(w)}) = 0
    BY ONLY <2>1, FS_EmptySet
  <2>3. 0 <= ConcurrencyLimit
    BY ONLY SchedulerAssumption
  <2>4. semaphore = 0
    OBVIOUS
  <2>. QED
    BY ONLY <2>2, <2>3, <2>4 DEF SemaphoreCountsPerforming
<1>. QED
  BY <1>1, <1>2, <1>4, <1>5, <1>6 DEF SchedulerInv

-----------------------------------------------------------------------------
(* Steps that move no endpoint from one place to another.                   *)
LEMMA NothingMoves ==
  ASSUME SchedulerInv,
         jobs' = jobs, done' = done, cancelled => cancelled',
         \A e \in Endpoint : Marked(e)' <=> Marked(e),
         \A w \in Workers : Busy(w)' <=> Busy(w),
         \A w \in Workers : Busy(w) => wjob'[w] = wjob[w]
  PROVE  /\ OnePlacePerEndpoint'
         /\ InFlightExact'
         /\ \A w \in Workers : Busy(w)' => wjob'[w] \in Endpoint
<1>1. \A e \in Endpoint : /\ Queued(e)' <=> Queued(e)
                          /\ Reported(e)' <=> Reported(e)
                          /\ \A w \in Workers : HeldBy(w, e)' <=> HeldBy(w, e)
  BY DEF Queued, Reported, HeldBy
<1>2. OnePlacePerEndpoint'
  BY <1>1 DEF SchedulerInv, OnePlacePerEndpoint
<1>3. InFlightExact'
  BY <1>1 DEF SchedulerInv, InFlightExact
<1>. QED
  BY <1>2, <1>3 DEF SchedulerInv, WorkersInv

LEMMA NoTokenMoves ==
  ASSUME SchedulerInv, semaphore' = semaphore,
         \A w \in Workers : InPerform(w)' <=> InPerform(w)
  PROVE  SemaphoreCountsPerforming'
<1>1. {w \in Workers : InPerform(w)}' = {w \in Workers : InPerform(w)}
  OBVIOUS
<1>. QED
  BY <1>1 DEF SchedulerInv, SemaphoreCountsPerforming

LEMMA RepositoryHangsKeeps == SchedulerInv /\ RepositoryHangs => SchedulerInv'
<1>. SUFFICES ASSUME SchedulerInv, RepositoryHangs PROVE SchedulerInv'
  OBVIOUS
<1>. USE SchedulerAssumption DEF RepositoryHangs, runVars, workerVars
<1>1. TypeOK'
  BY DEF SchedulerInv, TypeOK, RunPc, WorkerPc
<1>2. WorkersInv' /\ OnePlacePerEndpoint' /\ InFlightExact'
  <2>1. \A v \in Workers : /\ Busy(v)' <=> Busy(v)
                           /\ Busy(v) => wjob'[v] = wjob[v]
    BY DEF SchedulerInv, TypeOK, WorkersInv, Busy
  <2>. QED
    BY <2>1, NothingMoves DEF SchedulerInv, WorkersInv, Marked
<1>3. SemaphoreCountsPerforming'
  <2>1. \A v \in Workers : InPerform(v)' <=> InPerform(v)
    BY DEF SchedulerInv, TypeOK, WorkersInv, InPerform
  <2>. QED
    BY <2>1, NoTokenMoves
<1>. QED
  BY <1>1, <1>2, <1>3 DEF SchedulerInv

LEMMA RepositoryRecoversKeeps == SchedulerInv /\ RepositoryRecovers => SchedulerInv'
<1>. SUFFICES ASSUME SchedulerInv, RepositoryRecovers PROVE SchedulerInv'
  OBVIOUS
<1>. USE SchedulerAssumption DEF RepositoryRecovers, runVars, workerVars
<1>1. TypeOK'
  BY DEF SchedulerInv, TypeOK, RunPc, WorkerPc
<1>2. WorkersInv' /\ OnePlacePerEndpoint' /\ InFlightExact'
  <2>1. \A v \in Workers : /\ Busy(v)' <=> Busy(v)
                           /\ Busy(v) => wjob'[v] = wjob[v]
    BY DEF SchedulerInv, TypeOK, WorkersInv, Busy
  <2>. QED
    BY <2>1, NothingMoves DEF SchedulerInv, WorkersInv, Marked
<1>3. SemaphoreCountsPerforming'
  <2>1. \A v \in Workers : InPerform(v)' <=> InPerform(v)
    BY DEF SchedulerInv, TypeOK, WorkersInv, InPerform
  <2>. QED
    BY <2>1, NoTokenMoves
<1>. QED
  BY <1>1, <1>2, <1>3 DEF SchedulerInv

LEMMA CancelKeeps == SchedulerInv /\ Cancel => SchedulerInv'
<1>. SUFFICES ASSUME SchedulerInv, Cancel PROVE SchedulerInv'
  OBVIOUS
<1>. USE SchedulerAssumption DEF Cancel, runVars, workerVars
<1>1. TypeOK'
  BY DEF SchedulerInv, TypeOK, RunPc, WorkerPc
<1>2. WorkersInv' /\ OnePlacePerEndpoint' /\ InFlightExact'
  <2>1. \A v \in Workers : /\ Busy(v)' <=> Busy(v)
                           /\ Busy(v) => wjob'[v] = wjob[v]
    BY DEF SchedulerInv, TypeOK, WorkersInv, Busy
  <2>. QED
    BY <2>1, NothingMoves DEF SchedulerInv, WorkersInv, Marked
<1>3. SemaphoreCountsPerforming'
  <2>1. \A v \in Workers : InPerform(v)' <=> InPerform(v)
    BY DEF SchedulerInv, TypeOK, WorkersInv, InPerform
  <2>. QED
    BY <2>1, NoTokenMoves
<1>. QED
  BY <1>1, <1>2, <1>3 DEF SchedulerInv

LEMMA SyncEndpointsKeeps == SchedulerInv /\ SyncEndpoints => SchedulerInv'
<1>. SUFFICES ASSUME SchedulerInv, SyncEndpoints PROVE SchedulerInv'
  OBVIOUS
<1>. USE SchedulerAssumption DEF SyncEndpoints, runVars, workerVars
<1>1. TypeOK'
  BY DEF SchedulerInv, TypeOK, RunPc, WorkerPc
<1>2. WorkersInv' /\ OnePlacePerEndpoint' /\ InFlightExact'
  <2>1. \A v \in Workers : /\ Busy(v)' <=> Busy(v)
                           /\ Busy(v) => wjob'[v] = wjob[v]
    BY DEF SchedulerInv, TypeOK, WorkersInv, Busy
  <2>. QED
    BY <2>1, NothingMoves DEF SchedulerInv, WorkersInv, Marked
<1>3. SemaphoreCountsPerforming'
  <2>1. \A v \in Workers : InPerform(v)' <=> InPerform(v)
    BY DEF SchedulerInv, TypeOK, WorkersInv, InPerform
  <2>. QED
    BY <2>1, NoTokenMoves
<1>. QED
  BY <1>1, <1>2, <1>3 DEF SchedulerInv

LEMMA SyncFailsKeeps == SchedulerInv /\ SyncFails => SchedulerInv'
<1>. SUFFICES ASSUME SchedulerInv, SyncFails PROVE SchedulerInv'
  OBVIOUS
<1>. USE SchedulerAssumption DEF SyncFails, runVars, workerVars
<1>1. TypeOK'
  BY DEF SchedulerInv, TypeOK, RunPc, WorkerPc
<1>2. WorkersInv' /\ OnePlacePerEndpoint' /\ InFlightExact'
  <2>1. \A v \in Workers : /\ Busy(v)' <=> Busy(v)
                           /\ Busy(v) => wjob'[v] = wjob[v]
    BY DEF SchedulerInv, TypeOK, WorkersInv, Busy
  <2>. QED
    BY <2>1, NothingMoves DEF SchedulerInv, WorkersInv, Marked
<1>3. SemaphoreCountsPerforming'
  <2>1. \A v \in Workers : InPerform(v)' <=> InPerform(v)
    BY DEF SchedulerInv, TypeOK, WorkersInv, InPerform
  <2>. QED
    BY <2>1, NoTokenMoves
<1>. QED
  BY <1>1, <1>2, <1>3 DEF SchedulerInv

LEMMA TickKeeps == SchedulerInv /\ Tick => SchedulerInv'
<1>. SUFFICES ASSUME SchedulerInv, Tick PROVE SchedulerInv'
  OBVIOUS
<1>. USE SchedulerAssumption DEF Tick, runVars, workerVars
<1>1. TypeOK'
  BY DEF SchedulerInv, TypeOK, RunPc, WorkerPc
<1>2. WorkersInv' /\ OnePlacePerEndpoint' /\ InFlightExact'
  <2>1. \A v \in Workers : /\ Busy(v)' <=> Busy(v)
                           /\ Busy(v) => wjob'[v] = wjob[v]
    BY DEF SchedulerInv, TypeOK, WorkersInv, Busy
  <2>. QED
    BY <2>1, NothingMoves DEF SchedulerInv, WorkersInv, Marked
<1>3. SemaphoreCountsPerforming'
  <2>1. \A v \in Workers : InPerform(v)' <=> InPerform(v)
    BY DEF SchedulerInv, TypeOK, WorkersInv, InPerform
  <2>. QED
    BY <2>1, NoTokenMoves
<1>. QED
  BY <1>1, <1>2, <1>3 DEF SchedulerInv

LEMMA SelectReturnKeeps == SchedulerInv /\ SelectReturn => SchedulerInv'
<1>. SUFFICES ASSUME SchedulerInv, SelectReturn PROVE SchedulerInv'
  OBVIOUS
<1>. USE SchedulerAssumption DEF SelectReturn, runVars, workerVars
<1>1. TypeOK'
  BY DEF SchedulerInv, TypeOK, RunPc, WorkerPc
<1>2. WorkersInv' /\ OnePlacePerEndpoint' /\ InFlightExact'
  <2>1. \A v \in Workers : /\ Busy(v)' <=> Busy(v)
                           /\ Busy(v) => wjob'[v] = wjob[v]
    BY DEF SchedulerInv, TypeOK, WorkersInv, Busy
  <2>. QED
    BY <2>1, NothingMoves DEF SchedulerInv, WorkersInv, Marked
<1>3. SemaphoreCountsPerforming'
  <2>1. \A v \in Workers : InPerform(v)' <=> InPerform(v)
    BY DEF SchedulerInv, TypeOK, WorkersInv, InPerform
  <2>. QED
    BY <2>1, NoTokenMoves
<1>. QED
  BY <1>1, <1>2, <1>3 DEF SchedulerInv

LEMMA ScanSkipKeeps == SchedulerInv /\ ScanSkip => SchedulerInv'
<1>. SUFFICES ASSUME SchedulerInv, ScanSkip PROVE SchedulerInv'
  OBVIOUS
<1>. USE SchedulerAssumption DEF ScanSkip, runVars, workerVars
<1>0. scan + 1 \in 1..(NumEndpoints + 1)
  BY DEF Endpoint
<1>1. TypeOK'
  BY <1>0 DEF SchedulerInv, TypeOK, RunPc, WorkerPc
<1>2. WorkersInv' /\ OnePlacePerEndpoint' /\ InFlightExact'
  <2>1. \A v \in Workers : /\ Busy(v)' <=> Busy(v)
                           /\ Busy(v) => wjob'[v] = wjob[v]
    BY DEF SchedulerInv, TypeOK, WorkersInv, Busy
  <2>. QED
    BY <2>1, NothingMoves DEF SchedulerInv, WorkersInv, Marked
<1>3. SemaphoreCountsPerforming'
  <2>1. \A v \in Workers : InPerform(v)' <=> InPerform(v)
    BY DEF SchedulerInv, TypeOK, WorkersInv, InPerform
  <2>. QED
    BY <2>1, NoTokenMoves
<1>. QED
  BY <1>1, <1>2, <1>3 DEF SchedulerInv

LEMMA ScanMarkKeeps == SchedulerInv /\ ScanMark => SchedulerInv'
<1>. SUFFICES ASSUME SchedulerInv, ScanMark PROVE SchedulerInv'
  OBVIOUS
<1>. USE SchedulerAssumption DEF ScanMark, runVars, workerVars
<1>0. scan \in Endpoint /\ scan + 1 \in 1..(NumEndpoints + 1)
  BY DEF SchedulerInv, TypeOK, Endpoint
<1>1. TypeOK'
  BY <1>0 DEF SchedulerInv, TypeOK, RunPc, WorkerPc
<1>2. WorkersInv' /\ OnePlacePerEndpoint' /\ InFlightExact'
  <2>1. \A v \in Workers : /\ Busy(v)' <=> Busy(v)
                           /\ Busy(v) => wjob'[v] = wjob[v]
    BY DEF SchedulerInv, TypeOK, WorkersInv, Busy
  <2>2. \A e \in Endpoint : Marked(e)' <=> Marked(e)
    BY <1>0 DEF SchedulerInv, TypeOK, Marked
  <2>. QED
    BY <2>1, <2>2, NothingMoves DEF SchedulerInv, WorkersInv
<1>3. SemaphoreCountsPerforming'
  <2>1. \A v \in Workers : InPerform(v)' <=> InPerform(v)
    BY DEF SchedulerInv, TypeOK, WorkersInv, InPerform
  <2>. QED
    BY <2>1, NoTokenMoves
<1>. QED
  BY <1>1, <1>2, <1>3 DEF SchedulerInv

LEMMA ScanDropKeeps == SchedulerInv /\ ScanDrop => SchedulerInv'
<1>. SUFFICES ASSUME SchedulerInv, ScanDrop PROVE SchedulerInv'
  OBVIOUS
<1>. USE SchedulerAssumption DEF ScanDrop, runVars, workerVars
<1>0. Interval[scan] \in Nat /\ scan + 1 \in 1..(NumEndpoints + 1)
  BY DEF Endpoint
<1>1. TypeOK'
  BY <1>0 DEF SchedulerInv, TypeOK, RunPc, WorkerPc
<1>2. WorkersInv' /\ OnePlacePerEndpoint' /\ InFlightExact'
  <2>1. \A v \in Workers : /\ Busy(v)' <=> Busy(v)
                           /\ Busy(v) => wjob'[v] = wjob[v]
    BY DEF SchedulerInv, TypeOK, WorkersInv, Busy
  <2>. QED
    BY <2>1, NothingMoves DEF SchedulerInv, WorkersInv, Marked
<1>3. SemaphoreCountsPerforming'
  <2>1. \A v \in Workers : InPerform(v)' <=> InPerform(v)
    BY DEF SchedulerInv, TypeOK, WorkersInv, InPerform
  <2>. QED
    BY <2>1, NoTokenMoves
<1>. QED
  BY <1>1, <1>2, <1>3 DEF SchedulerInv

LEMMA ScanReturnKeeps == SchedulerInv /\ ScanReturn => SchedulerInv'
<1>. SUFFICES ASSUME SchedulerInv, ScanReturn PROVE SchedulerInv'
  OBVIOUS
<1>. USE SchedulerAssumption DEF ScanReturn, runVars, workerVars
<1>1. TypeOK'
  BY DEF SchedulerInv, TypeOK, RunPc, WorkerPc
<1>2. WorkersInv' /\ OnePlacePerEndpoint' /\ InFlightExact'
  <2>1. \A v \in Workers : /\ Busy(v)' <=> Busy(v)
                           /\ Busy(v) => wjob'[v] = wjob[v]
    BY DEF SchedulerInv, TypeOK, WorkersInv, Busy
  <2>. QED
    BY <2>1, NothingMoves DEF SchedulerInv, WorkersInv, Marked
<1>3. SemaphoreCountsPerforming'
  <2>1. \A v \in Workers : InPerform(v)' <=> InPerform(v)
    BY DEF SchedulerInv, TypeOK, WorkersInv, InPerform
  <2>. QED
    BY <2>1, NoTokenMoves
<1>. QED
  BY <1>1, <1>2, <1>3 DEF SchedulerInv

LEMMA ScanEndKeeps == SchedulerInv /\ ScanEnd => SchedulerInv'
<1>. SUFFICES ASSUME SchedulerInv, ScanEnd PROVE SchedulerInv'
  OBVIOUS
<1>. USE SchedulerAssumption DEF ScanEnd, runVars, workerVars
<1>1. TypeOK'
  BY DEF SchedulerInv, TypeOK, RunPc, WorkerPc
<1>2. WorkersInv' /\ OnePlacePerEndpoint' /\ InFlightExact'
  <2>1. \A v \in Workers : /\ Busy(v)' <=> Busy(v)
                           /\ Busy(v) => wjob'[v] = wjob[v]
    BY DEF SchedulerInv, TypeOK, WorkersInv, Busy
  <2>. QED
    BY <2>1, NothingMoves DEF SchedulerInv, WorkersInv, Marked
<1>3. SemaphoreCountsPerforming'
  <2>1. \A v \in Workers : InPerform(v)' <=> InPerform(v)
    BY DEF SchedulerInv, TypeOK, WorkersInv, InPerform
  <2>. QED
    BY <2>1, NoTokenMoves
<1>. QED
  BY <1>1, <1>2, <1>3 DEF SchedulerInv

LEMMA RunReturnsKeeps == SchedulerInv /\ RunReturns => SchedulerInv'
<1>. SUFFICES ASSUME SchedulerInv, RunReturns PROVE SchedulerInv'
  OBVIOUS
<1>. USE SchedulerAssumption DEF RunReturns, runVars, workerVars
<1>1. TypeOK'
  BY DEF SchedulerInv, TypeOK, RunPc, WorkerPc
<1>2. WorkersInv' /\ OnePlacePerEndpoint' /\ InFlightExact'
  <2>1. \A v \in Workers : /\ Busy(v)' <=> Busy(v)
                           /\ Busy(v) => wjob'[v] = wjob[v]
    BY DEF SchedulerInv, TypeOK, WorkersInv, Busy
  <2>. QED
    BY <2>1, NothingMoves DEF SchedulerInv, WorkersInv, Marked
<1>3. SemaphoreCountsPerforming'
  <2>1. \A v \in Workers : InPerform(v)' <=> InPerform(v)
    BY DEF SchedulerInv, TypeOK, WorkersInv, InPerform
  <2>. QED
    BY <2>1, NoTokenMoves
<1>. QED
  BY <1>1, <1>2, <1>3 DEF SchedulerInv

LEMMA SkipCancelledKeeps ==
  ASSUME NEW w \in Workers
  PROVE  SchedulerInv /\ SkipCancelled(w) => SchedulerInv'
<1>. SUFFICES ASSUME SchedulerInv, SkipCancelled(w) PROVE SchedulerInv'
  OBVIOUS
<1>. USE SchedulerAssumption DEF SkipCancelled, runVars, workerVars
<1>1. TypeOK'
  BY DEF SchedulerInv, TypeOK, RunPc, WorkerPc
<1>2. WorkersInv' /\ OnePlacePerEndpoint' /\ InFlightExact'
  <2>1. \A v \in Workers : /\ Busy(v)' <=> Busy(v)
                           /\ Busy(v) => wjob'[v] = wjob[v]
    BY DEF SchedulerInv, TypeOK, WorkersInv, Busy
  <2>. QED
    BY <2>1, NothingMoves DEF SchedulerInv, WorkersInv, Marked
<1>3. SemaphoreCountsPerforming'
  <2>1. \A v \in Workers : InPerform(v)' <=> InPerform(v)
    BY DEF SchedulerInv, TypeOK, WorkersInv, InPerform
  <2>. QED
    BY <2>1, NoTokenMoves
<1>. QED
  BY <1>1, <1>2, <1>3 DEF SchedulerInv

LEMMA EndProbeKeeps ==
  ASSUME NEW w \in Workers
  PROVE  SchedulerInv /\ EndProbe(w) => SchedulerInv'
<1>. SUFFICES ASSUME SchedulerInv, EndProbe(w) PROVE SchedulerInv'
  OBVIOUS
<1>. USE SchedulerAssumption DEF EndProbe, runVars, workerVars
<1>1. TypeOK'
  BY DEF SchedulerInv, TypeOK, RunPc, WorkerPc
<1>2. WorkersInv' /\ OnePlacePerEndpoint' /\ InFlightExact'
  <2>1. \A v \in Workers : /\ Busy(v)' <=> Busy(v)
                           /\ Busy(v) => wjob'[v] = wjob[v]
    BY DEF SchedulerInv, TypeOK, WorkersInv, Busy
  <2>. QED
    BY <2>1, NothingMoves DEF SchedulerInv, WorkersInv, Marked
<1>3. SemaphoreCountsPerforming'
  <2>1. \A v \in Workers : InPerform(v)' <=> InPerform(v)
    BY DEF SchedulerInv, TypeOK, WorkersInv, InPerform
  <2>. QED
    BY <2>1, NoTokenMoves
<1>. QED
  BY <1>1, <1>2, <1>3 DEF SchedulerInv

LEMMA RangeEndsKeeps ==
  ASSUME NEW w \in Workers
  PROVE  SchedulerInv /\ RangeEnds(w) => SchedulerInv'
<1>. SUFFICES ASSUME SchedulerInv, RangeEnds(w) PROVE SchedulerInv'
  OBVIOUS
<1>. USE SchedulerAssumption DEF RangeEnds, runVars, workerVars
<1>1. TypeOK'
  BY DEF SchedulerInv, TypeOK, RunPc, WorkerPc
<1>2. WorkersInv' /\ OnePlacePerEndpoint' /\ InFlightExact'
  <2>1. \A v \in Workers : /\ Busy(v)' <=> Busy(v)
                           /\ Busy(v) => wjob'[v] = wjob[v]
    BY DEF SchedulerInv, TypeOK, WorkersInv, Busy
  <2>. QED
    BY <2>1, NothingMoves DEF SchedulerInv, WorkersInv, Marked
<1>3. SemaphoreCountsPerforming'
  <2>1. \A v \in Workers : InPerform(v)' <=> InPerform(v)
    BY DEF SchedulerInv, TypeOK, WorkersInv, InPerform
  <2>. QED
    BY <2>1, NoTokenMoves
<1>. QED
  BY <1>1, <1>2, <1>3 DEF SchedulerInv

-----------------------------------------------------------------------------
(* Steps that move an endpoint: each says first where it was, and where it  *)
(* is now.                                                                  *)
LEMMA ScanSendKeeps == SchedulerInv /\ ScanSend => SchedulerInv'
<1>. SUFFICES ASSUME SchedulerInv, ScanSend PROVE SchedulerInv'
  OBVIOUS
<1>. USE SchedulerAssumption DEF ScanSend, workerVars
<1>a. /\ jobs \in Seq(Endpoint) /\ scan \in Endpoint
      /\ ~Queued(scan) /\ ~Reported(scan) /\ \A w \in Workers : ~HeldBy(w, scan)
  BY DEF SchedulerInv, TypeOK, InFlightExact, Marked, DueAndIdle, Endpoint
<1>b. /\ jobs' \in Seq(Endpoint) /\ NoRepetition(jobs')
      /\ Elements(jobs') = Elements(jobs) \cup {scan}
  BY <1>a, AppendKeepsSeq DEF SchedulerInv, OnePlacePerEndpoint, Queued
<1>c. \A w \in Workers : Busy(w)' <=> Busy(w)
  BY DEF Busy
<1>d. \A e \in Endpoint : /\ Queued(e)' <=> Queued(e) \/ e = scan
                          /\ Reported(e)' <=> Reported(e)
                          /\ \A w \in Workers : HeldBy(w, e)' <=> HeldBy(w, e)
  BY <1>b, <1>c DEF Queued, Reported, HeldBy
<1>1. TypeOK'
  BY <1>a, <1>b DEF SchedulerInv, TypeOK, RunPc
<1>2. WorkersInv'
  BY <1>c DEF SchedulerInv, WorkersInv
<1>3. OnePlacePerEndpoint'
  BY <1>a, <1>b, <1>c, <1>d DEF SchedulerInv, OnePlacePerEndpoint
<1>4. InFlightExact'
  <2>1. \A e \in Endpoint : Marked(e)' <=> Marked(e) \/ e = scan
    BY DEF Marked
  <2>. QED
    BY <1>a, <1>d, <2>1 DEF SchedulerInv, InFlightExact
<1>5. SemaphoreCountsPerforming'
  <2>1. \A v \in Workers : InPerform(v)' <=> InPerform(v)
    BY DEF SchedulerInv, TypeOK, InPerform
  <2>. QED
    BY <2>1, NoTokenMoves
<1>. QED
  BY <1>1, <1>2, <1>3, <1>4, <1>5 DEF SchedulerInv

LEMMA TakeKeeps ==
  ASSUME NEW w \in Workers
  PROVE  SchedulerInv /\ Take(w) => SchedulerInv'
<1>. SUFFICES ASSUME SchedulerInv, Take(w) PROVE SchedulerInv'
  OBVIOUS
<1>. USE SchedulerAssumption DEF Take, runVars
<1>. DEFINE x == Head(jobs)
<1>a. /\ jobs \in Seq(Endpoint) /\ jobs # <<>> /\ NoRepetition(jobs)
  BY DEF SchedulerInv, TypeOK, OnePlacePerEndpoint
<1>b. /\ jobs' \in Seq(Endpoint) /\ NoRepetition(jobs')
      /\ Elements(jobs') = Elements(jobs) \ {x}
      /\ x \in Endpoint /\ Queued(x)
  BY <1>a, TailKeepsSeq DEF Queued
<1>. HIDE DEF x
<1>c. /\ wpc' = [wpc EXCEPT ![w] = "holding"] /\ wjob' = [wjob EXCEPT ![w] = x]
      /\ ~Busy(w) /\ Busy(w)' /\ wjob'[w] = x
      /\ \A v \in Workers : v # w => (Busy(v)' <=> Busy(v)) /\ wjob'[v] = wjob[v]
  BY DEF SchedulerInv, TypeOK, Busy, x
<1>d. \A e \in Endpoint :
        /\ Queued(e)' <=> Queued(e) /\ e # x
        /\ Reported(e)' <=> Reported(e)
        /\ \A v \in Workers : HeldBy(v, e)' <=> HeldBy(v, e) \/ (v = w /\ e = x)
  BY <1>b, <1>c DEF Queued, Reported, HeldBy
<1>1. TypeOK'
  BY <1>b, <1>c DEF SchedulerInv, TypeOK, WorkerPc
<1>2. WorkersInv'
  BY <1>b, <1>c DEF SchedulerInv, WorkersInv
<1>3. OnePlacePerEndpoint'
  <2>1. ~Reported(x) /\ \A v \in Workers : ~HeldBy(v, x)
    BY <1>b DEF SchedulerInv, OnePlacePerEndpoint
  <2>2. \A u, v \in Workers : Busy(u)' /\ Busy(v)' /\ wjob'[u] = wjob'[v] => u = v
    BY <1>c, <2>1 DEF SchedulerInv, OnePlacePerEndpoint, HeldBy
  <2>. QED
    BY <1>b, <1>d, <2>1, <2>2 DEF SchedulerInv, OnePlacePerEndpoint
<1>4. InFlightExact'
  BY <1>b, <1>d DEF SchedulerInv, InFlightExact, Marked
<1>5. SemaphoreCountsPerforming'
  <2>1. \A v \in Workers : InPerform(v)' <=> InPerform(v)
    BY <1>c DEF SchedulerInv, TypeOK, InPerform
  <2>. QED
    BY <2>1, NoTokenMoves
<1>. QED
  BY <1>1, <1>2, <1>3, <1>4, <1>5 DEF SchedulerInv

LEMMA ReportKeeps ==
  ASSUME NEW w \in Workers
  PROVE  SchedulerInv /\ Report(w) => SchedulerInv'
<1>. SUFFICES ASSUME SchedulerInv, Report(w) PROVE SchedulerInv'
  OBVIOUS
<1>. USE SchedulerAssumption DEF Report, runVars
<1>. DEFINE x == wjob[w]
<1>a. /\ done \in Seq(Endpoint) /\ NoRepetition(done) /\ Busy(w)
      /\ x \in Endpoint /\ HeldBy(w, x) /\ ~Reported(x) /\ ~Queued(x)
      /\ \A v \in Workers : HeldBy(v, x) => v = w
  BY DEF SchedulerInv, TypeOK, WorkersInv, OnePlacePerEndpoint, Busy, HeldBy
<1>b. /\ done' \in Seq(Endpoint) /\ NoRepetition(done')
      /\ Elements(done') = Elements(done) \cup {x}
  BY <1>a, AppendKeepsSeq DEF Reported
<1>c. /\ ~Busy(w)'
      /\ \A v \in Workers : v # w => (Busy(v)' <=> Busy(v)) /\ wjob'[v] = wjob[v]
  BY DEF SchedulerInv, TypeOK, Busy
<1>. HIDE DEF x
<1>d. \A e \in Endpoint :
        /\ Queued(e)' <=> Queued(e)
        /\ Reported(e)' <=> Reported(e) \/ e = x
        /\ \A v \in Workers : HeldBy(v, e)' <=> HeldBy(v, e) /\ v # w
  BY <1>b, <1>c DEF Queued, Reported, HeldBy
<1>1. TypeOK'
  BY <1>b DEF SchedulerInv, TypeOK, WorkerPc, NoJob
<1>2. WorkersInv'
  BY <1>c DEF SchedulerInv, TypeOK, WorkersInv
<1>3. OnePlacePerEndpoint'
  BY <1>a, <1>b, <1>c, <1>d DEF SchedulerInv, OnePlacePerEndpoint
<1>4. InFlightExact'
  <2>1. \A e \in Endpoint : HeldBy(w, e) => e = x
    BY DEF HeldBy, x
  <2>. QED
    BY <1>a, <1>d, <2>1 DEF SchedulerInv, InFlightExact, Marked
<1>5. SemaphoreCountsPerforming'
  <2>1. \A v \in Workers : InPerform(v)' <=> InPerform(v)
    BY DEF SchedulerInv, TypeOK, InPerform
  <2>. QED
    BY <2>1, NoTokenMoves
<1>. QED
  BY <1>1, <1>2, <1>3, <1>4, <1>5 DEF SchedulerInv

LEMMA QuitReportingKeeps ==
  ASSUME NEW w \in Workers
  PROVE  SchedulerInv /\ QuitReporting(w) => SchedulerInv'
<1>. SUFFICES ASSUME SchedulerInv, QuitReporting(w) PROVE SchedulerInv'
  OBVIOUS
<1>. USE SchedulerAssumption DEF QuitReporting, runVars
<1>c. /\ ~Busy(w)'
      /\ \A v \in Workers : v # w => (Busy(v)' <=> Busy(v)) /\ wjob'[v] = wjob[v]
  BY DEF SchedulerInv, TypeOK, Busy
<1>d. \A e \in Endpoint :
        /\ Queued(e)' <=> Queued(e)
        /\ Reported(e)' <=> Reported(e)
        /\ \A v \in Workers : HeldBy(v, e)' <=> HeldBy(v, e) /\ v # w
  BY <1>c DEF Queued, Reported, HeldBy
<1>1. TypeOK'
  BY DEF SchedulerInv, TypeOK, WorkerPc, NoJob
<1>2. WorkersInv'
  BY <1>c DEF SchedulerInv, TypeOK, WorkersInv
<1>3. OnePlacePerEndpoint'
  BY <1>c, <1>d DEF SchedulerInv, OnePlacePerEndpoint
<1>4. InFlightExact'
  BY <1>d DEF SchedulerInv, InFlightExact, Marked
<1>5. SemaphoreCountsPerforming'
  <2>1. \A v \in Workers : InPerform(v)' <=> InPerform(v)
    BY DEF SchedulerInv, TypeOK, InPerform
  <2>. QED
    BY <2>1, NoTokenMoves
<1>. QED
  BY <1>1, <1>2, <1>3, <1>4, <1>5 DEF SchedulerInv

LEMMA ReceiveDoneKeeps == SchedulerInv /\ ReceiveDone => SchedulerInv'
<1>. SUFFICES ASSUME SchedulerInv, ReceiveDone PROVE SchedulerInv'
  OBVIOUS
<1>. USE SchedulerAssumption DEF ReceiveDone, workerVars
<1>. DEFINE x == Head(done)
<1>a. /\ done \in Seq(Endpoint) /\ done # <<>> /\ NoRepetition(done)
  BY DEF SchedulerInv, TypeOK, OnePlacePerEndpoint
<1>b. /\ done' \in Seq(Endpoint) /\ NoRepetition(done')
      /\ Elements(done') = Elements(done) \ {x}
      /\ x \in Endpoint /\ Reported(x)
  BY <1>a, TailKeepsSeq DEF Reported
<1>. HIDE DEF x
<1>c. \A w \in Workers : Busy(w)' <=> Busy(w)
  BY DEF Busy
<1>d. \A e \in Endpoint : /\ Queued(e)' <=> Queued(e)
                          /\ Reported(e)' <=> Reported(e) /\ e # x
                          /\ \A w \in Workers : HeldBy(w, e)' <=> HeldBy(w, e)
  BY <1>b, <1>c DEF Queued, Reported, HeldBy
<1>e. inFlight' = [inFlight EXCEPT ![x] = FALSE] /\ dueIn' = [dueIn EXCEPT ![x] = Interval[x] + 1]
  BY DEF x
<1>1. TypeOK'
  <2>1. Interval[x] + 1 \in Nat
    BY <1>b
  <2>2. TypeOK
    BY DEF SchedulerInv
  <2>3. dueIn' \in [Endpoint -> Nat]
    <3>1. dueIn \in [Endpoint -> Nat]
      BY <2>2 DEF TypeOK
    <3>. QED
      BY ONLY <1>b, <1>e, <2>1, <3>1
  <2>4. inFlight' \in [Endpoint -> BOOLEAN]
    <3>1. inFlight \in [Endpoint -> BOOLEAN]
      BY <2>2 DEF TypeOK
    <3>. QED
      BY ONLY <1>b, <1>e, <3>1
  <2>5. UNCHANGED <<pc, scan, jobs, semaphore, wpc, wjob, cancelled, hung>>
    OBVIOUS
  <2>. QED
    BY ONLY <1>b, <2>2, <2>3, <2>4, <2>5 DEF TypeOK
<1>2. WorkersInv'
  BY <1>c DEF SchedulerInv, WorkersInv
<1>3. OnePlacePerEndpoint'
  BY <1>b, <1>c, <1>d DEF SchedulerInv, OnePlacePerEndpoint
<1>4. InFlightExact'
  <2>1. ~Queued(x) /\ \A w \in Workers : ~HeldBy(w, x)
    BY <1>b DEF SchedulerInv, OnePlacePerEndpoint
  <2>. QED
    BY <1>b, <1>d, <1>e, <2>1 DEF SchedulerInv, TypeOK, InFlightExact, Marked
<1>5. SemaphoreCountsPerforming'
  <2>1. \A v \in Workers : InPerform(v)' <=> InPerform(v)
    BY DEF SchedulerInv, TypeOK, InPerform
  <2>. QED
    BY <2>1, NoTokenMoves
<1>. QED
  BY <1>1, <1>2, <1>3, <1>4, <1>5 DEF SchedulerInv

-----------------------------------------------------------------------------
(* Steps that move a token.                                                 *)
LEMMA AcquireKeeps ==
  ASSUME NEW w \in Workers
  PROVE  SchedulerInv /\ Acquire(w) => SchedulerInv'
<1>. SUFFICES ASSUME SchedulerInv, Acquire(w) PROVE SchedulerInv'
  OBVIOUS
<1>. USE SchedulerAssumption DEF Acquire, runVars
<1>1. SemaphoreCountsPerforming' /\ semaphore' \in Nat
  <2>1. Performers' = Performers \cup {w} /\ w \notin Performers
    BY DEF SchedulerInv, TypeOK, Performers, InPerform
  <2>2. IsFiniteSet(Performers) /\ semaphore = Cardinality(Performers)
    BY WorkersFinite DEF SchedulerInv, SemaphoreCountsPerforming, Performers
  <2>3. semaphore' = Cardinality(Performers')
    BY <2>1, <2>2, FS_AddElement DEF SchedulerInv, TypeOK
  <2>4. Cardinality(Performers') \in Nat
    BY <2>1, <2>2, FS_AddElement, FS_CardinalityType
  <2>. QED
    BY <2>3, <2>4 DEF SchedulerInv, TypeOK, SemaphoreCountsPerforming, Performers
<1>2. TypeOK'
  BY <1>1 DEF SchedulerInv, TypeOK, WorkerPc
<1>3. WorkersInv' /\ OnePlacePerEndpoint' /\ InFlightExact'
  <2>1. \A v \in Workers : /\ Busy(v)' <=> Busy(v)
                           /\ Busy(v) => wjob'[v] = wjob[v]
    BY DEF SchedulerInv, TypeOK, Busy
  <2>. QED
    BY <2>1, NothingMoves DEF SchedulerInv, TypeOK, WorkersInv, Marked
<1>. QED
  BY <1>1, <1>2, <1>3 DEF SchedulerInv

LEMMA EndPerformKeeps ==
  ASSUME NEW w \in Workers
  PROVE  SchedulerInv /\ EndPerform(w) => SchedulerInv'
<1>. SUFFICES ASSUME SchedulerInv, EndPerform(w) PROVE SchedulerInv'
  OBVIOUS
<1>. USE SchedulerAssumption DEF EndPerform, runVars
<1>1. SemaphoreCountsPerforming' /\ semaphore' \in Nat
  <2>1. Performers' = Performers \ {w} /\ w \in Performers
    BY DEF SchedulerInv, TypeOK, Performers, InPerform
  <2>2. IsFiniteSet(Performers) /\ semaphore = Cardinality(Performers)
    BY WorkersFinite DEF SchedulerInv, SemaphoreCountsPerforming, Performers
  <2>3. semaphore' = Cardinality(Performers')
    BY <2>1, <2>2, FS_RemoveElement DEF SchedulerInv, TypeOK
  <2>4. Cardinality(Performers') \in Nat
    BY <2>1, <2>2, FS_RemoveElement, FS_CardinalityType
  <2>. QED
    BY <2>3, <2>4 DEF SchedulerInv, TypeOK, SemaphoreCountsPerforming, Performers
<1>2. TypeOK'
  BY <1>1 DEF SchedulerInv, TypeOK, WorkerPc
<1>3. WorkersInv' /\ OnePlacePerEndpoint' /\ InFlightExact'
  <2>1. \A v \in Workers : /\ Busy(v)' <=> Busy(v)
                           /\ Busy(v) => wjob'[v] = wjob[v]
    BY DEF SchedulerInv, TypeOK, Busy
  <2>. QED
    BY <2>1, NothingMoves DEF SchedulerInv, TypeOK, WorkersInv, Marked
<1>. QED
  BY <1>1, <1>2, <1>3 DEF SchedulerInv

-----------------------------------------------------------------------------
(* The strengthened invariant holds in every reachable state.               *)
THEOREM SchedulerInvariant == Spec => []SchedulerInv
<1>1. Init => SchedulerInv
  BY SchedulerInit
<1>2. SchedulerInv /\ [Next]_vars => SchedulerInv'
  <2>1. SchedulerInv /\ UNCHANGED vars => SchedulerInv'
    <3>. SUFFICES ASSUME SchedulerInv, UNCHANGED vars PROVE SchedulerInv'
      OBVIOUS
    <3>. USE DEF vars, runVars, workerVars
    <3>1. TypeOK' /\ WorkersInv'
      BY DEF SchedulerInv, TypeOK, WorkersInv, Busy
    <3>2. OnePlacePerEndpoint' /\ InFlightExact'
      BY NothingMoves DEF Busy, Marked
    <3>3. SemaphoreCountsPerforming'
      BY NoTokenMoves DEF InPerform
    <3>. QED
      BY <3>1, <3>2, <3>3 DEF SchedulerInv
  <2>2. SchedulerInv /\ Next => SchedulerInv'
    BY <2>1, RepositoryHangsKeeps, RepositoryRecoversKeeps, CancelKeeps,
       SyncEndpointsKeeps, SyncFailsKeeps, TickKeeps,
       SelectReturnKeeps, ScanSkipKeeps, ScanMarkKeeps, ScanDropKeeps,
       ScanReturnKeeps, ScanEndKeeps, RunReturnsKeeps,
       SkipCancelledKeeps, EndProbeKeeps, RangeEndsKeeps,
       ScanSendKeeps, TakeKeeps, ReportKeeps, QuitReportingKeeps,
       ReceiveDoneKeeps, AcquireKeeps, EndPerformKeeps
    DEF Next, Run, Scan, Worker, Environment, Terminated
  <2>. QED
    BY <2>1, <2>2
<1>. QED
  BY <1>1, <1>2, PTL DEF Spec

(* Types, and what each channel and map may hold.                           *)
THEOREM SchedulerTypes == Spec => []TypeOK
<1>1. SchedulerInv => TypeOK
  BY DEF SchedulerInv
<1>. QED
  BY <1>1, SchedulerInvariant, PTL

(* An endpoint is in one place at a time.                                   *)
THEOREM EndpointsAreTracked == Spec => []OnePlacePerEndpoint
<1>1. SchedulerInv => OnePlacePerEndpoint
  BY DEF SchedulerInv
<1>. QED
  BY <1>1, SchedulerInvariant, PTL

(* inFlight has exactly the endpoints that are queued, checked or reported. *)
THEOREM MarksAreExact == Spec => []InFlightExact
<1>1. SchedulerInv => InFlightExact
  BY DEF SchedulerInv
<1>. QED
  BY <1>1, SchedulerInvariant, PTL

(* Two workers never check the same endpoint at the same time, whatever the *)
(* number of workers and slots.                                             *)
THEOREM ChecksNeverOverlap == Spec => []OneCheckAtATime
<1>1. SchedulerInv => OneCheckAtATime
  BY DEF SchedulerInv, OnePlacePerEndpoint, OneCheckAtATime, InPerform, Busy
<1>. QED
  BY <1>1, SchedulerInvariant, PTL

(* No more than ConcurrencyLimit checks run, and every token comes back.    *)
THEOREM SlotsAreCounted == Spec => []SemaphoreCountsPerforming
<1>1. SchedulerInv => SemaphoreCountsPerforming
  BY DEF SchedulerInv
<1>. QED
  BY <1>1, SchedulerInvariant, PTL

(* done repeats no endpoint and has room for all of them.                   *)
LEMMA RoomInDone == SchedulerInv => DoneNeverBlocks
<1>. SUFFICES ASSUME SchedulerInv PROVE Len(done) < DoneCapacity
  BY DEF DoneNeverBlocks
<1>1. done \in Seq(Endpoint) /\ NoRepetition(done)
  BY DEF SchedulerInv, TypeOK, OnePlacePerEndpoint
<1>2. NumEndpoints \in Nat \ {0}
  BY SchedulerAssumption
<1>3. IsFiniteSet(Endpoint) /\ Cardinality(Endpoint) = NumEndpoints
  BY EndpointsFinite
<1>4. Len(done) <= Cardinality(Endpoint \ {})
  BY <1>1, <1>3, LengthWithoutRepetition
<1>5. Endpoint \ {} = Endpoint /\ Len(done) \in Nat
  BY <1>1
<1>. QED
  BY <1>2, <1>3, <1>4, <1>5, WorkersFinite DEF DoneCapacity

(* No worker ever waits to report, so Run may take as long as it likes over *)
(* a scan.                                                                  *)
THEOREM ReportingNeverWaits == Spec => []DoneNeverBlocks
  BY RoomInDone, SchedulerInvariant, PTL

(* Workers run from the moment Run starts them until the end of jobs or a   *)
(* report given up, and both of these come with the cancellation.           *)
PoolInv ==
  /\ pc \in {"start", "failed"} => jobs = <<>> /\ \A w \in Workers : wpc[w] = "unborn"
  /\ pc \notin {"start", "failed"} => \A w \in Workers : wpc[w] # "unborn"
  /\ pc \in {"closing", "returned"} => cancelled
  /\ ~cancelled => \A w \in Workers : wpc[w] # "exited"

LEMMA PoolInit == Init => PoolInv
BY DEF Init, PoolInv

LEMMA PoolStep == SchedulerInv /\ PoolInv /\ [Next]_vars => PoolInv'
<1> SUFFICES ASSUME SchedulerInv, PoolInv, [Next]_vars PROVE PoolInv'
  OBVIOUS
<1>1. CASE Environment \/ Terminated \/ UNCHANGED vars
  BY <1>1 DEF PoolInv, Environment, RepositoryHangs, RepositoryRecovers, Cancel, Terminated,
              vars, runVars, workerVars
<1>2. CASE SyncEndpoints
  BY <1>2 DEF PoolInv, SyncEndpoints
<1>3. CASE SyncFails \/ ReceiveDone \/ Tick \/ SelectReturn \/ RunReturns
  BY <1>3 DEF PoolInv, SyncFails, ReceiveDone, Tick, SelectReturn, RunReturns, workerVars
<1>4. CASE Scan
  <2>1. /\ pc \in {"scan", "marking"} /\ pc' \in {"scan", "marking", "select", "closing"}
        /\ wpc' = wpc
        /\ cancelled' = cancelled /\ (pc' = "closing" => cancelled)
    BY <1>4 DEF Scan, ScanSkip, ScanSend, ScanMark, ScanDrop, ScanReturn, ScanEnd, workerVars
  <2>2. QED
    BY <2>1 DEF PoolInv
<1>5. ASSUME NEW w \in Workers, Worker(w) PROVE PoolInv'
  <2> DEFINE to == wpc'[w]
  <2>1. wpc \in [Workers -> WorkerPc]
    BY DEF SchedulerInv, TypeOK
  <2>2. /\ pc' = pc /\ cancelled' = cancelled
        /\ wpc' = [wpc EXCEPT ![w] = to] /\ wpc[w] # "unborn" /\ to # "unborn"
        /\ to = "exited" => cancelled \/ JobsClosed
    BY <1>5, <2>1 DEF Worker, Take, Acquire, SkipCancelled, EndProbe, EndPerform, Report,
       QuitReporting, RangeEnds, runVars
  <2> HIDE DEF to
  <2>3. pc \notin {"start", "failed"}
    BY <2>2 DEF PoolInv
  <2>4. to = "exited" => cancelled
    BY <2>2 DEF PoolInv, JobsClosed
  <2>5. \A v \in Workers : wpc'[v] = IF v = w THEN to ELSE wpc[v]
    BY <2>1, <2>2
  <2>6. QED
    BY <2>2, <2>3, <2>4, <2>5 DEF PoolInv
<1>6. QED
  BY <1>1, <1>2, <1>3, <1>4, <1>5 DEF Next, Run

(* A worker that waits for a slot waits for one that is inside perform.     *)
LEMMA SomeoneSteps ==
  ASSUME SchedulerInv, DoneNeverBlocks, RepositoryResponds, NEW w \in Workers, Busy(w)
  PROVE  \E v \in Workers : CanStep(v)
<1>1. CASE wpc[w] \in {"probing", "recording", "reporting"}
  BY <1>1 DEF CanStep, DoneNeverBlocks
<1>2. CASE wpc[w] = "holding" /\ semaphore < ConcurrencyLimit
  BY <1>2 DEF CanStep
<1>3. CASE wpc[w] = "holding" /\ ~(semaphore < ConcurrencyLimit)
  <2>1. Performers # {}
    <3>1. semaphore # 0
      BY <1>3, SchedulerAssumption
    <3>2. semaphore = Cardinality(Performers)
      BY DEF SchedulerInv, SemaphoreCountsPerforming, Performers
    <3>3. QED
      BY <3>1, <3>2, FS_EmptySet
  <2>2. PICK v \in Workers : InPerform(v)
    BY <2>1 DEF Performers
  <2>3. QED
    BY <2>2 DEF InPerform, CanStep
<1>4. QED
  BY <1>1, <1>2, <1>3 DEF Busy

LEMMA PoolProceeds == SchedulerInv /\ PoolInv /\ DoneNeverBlocks => WorkersProceed
<1> SUFFICES ASSUME SchedulerInv, PoolInv, DoneNeverBlocks PROVE WorkersProceed
  OBVIOUS
<1>1. wpc \in [Workers -> WorkerPc]
  BY DEF SchedulerInv, TypeOK
<1>2. ASSUME ~hung, ~cancelled, jobs # <<>> \/ \E w \in Workers : Busy(w)
      PROVE  \E w \in Workers : CanStep(w)
  <2>1. CASE \E w \in Workers : Busy(w)
    BY <1>2, <2>1, SomeoneSteps DEF RepositoryResponds
  <2>2. CASE jobs # <<>> /\ ~\E w \in Workers : Busy(w)
    <3>1. PICK w \in Workers : TRUE
      BY SchedulerAssumption
    <3>2. wpc[w] # "unborn" /\ wpc[w] # "exited"
      BY <1>2, <2>2 DEF PoolInv
    <3>3. wpc[w] = "idle"
      BY <1>1, <2>2, <3>2 DEF WorkerPc, Busy
    <3>4. QED
      BY <2>2, <3>3 DEF CanStep
  <2>3. QED
    BY <1>2, <2>1, <2>2
<1>3. ASSUME pc = "closing", NEW w \in Workers, wpc[w] # "exited" PROVE CanStep(w)
  <2>1. cancelled /\ wpc[w] # "unborn"
    BY <1>3 DEF PoolInv
  <2>2. wpc[w] \in {"idle", "holding", "probing", "recording", "reporting"}
    BY <1>1, <1>3, <2>1 DEF WorkerPc
  <2>3. QED
    BY <1>3, <2>1, <2>2 DEF CanStep, JobsClosed, RepositoryResponds
<1>4. QED
  BY <1>2, <1>3 DEF WorkersProceed

(* Whatever is queued or held, a worker can go on with it, and Run's wait   *)
(* for the workers is never one for a worker that waits itself.             *)
THEOREM WorkersNeverStall == Spec => []WorkersProceed
  BY RoomInDone, PoolInit, PoolStep, PoolProceeds, SchedulerInvariant, PTL DEF Spec

(* A queue with room for every endpoint never drops a check.                *)
THEOREM LargeQueueNeverDrops == Spec => []NoDropWhenQueueHoldsAll
<1>1. SchedulerInv => NoDropWhenQueueHoldsAll
  <2>. SUFFICES ASSUME SchedulerInv, QueueSize >= NumEndpoints,
                       NEW e \in Endpoint, ~Marked(e)
                PROVE  Len(jobs) < QueueSize
    BY DEF NoDropWhenQueueHoldsAll, QueueHasRoom
  <2>1. jobs \in Seq(Endpoint) /\ NoRepetition(jobs) /\ ~Queued(e)
    BY DEF SchedulerInv, TypeOK, OnePlacePerEndpoint, InFlightExact
  <2>2. NumEndpoints \in Nat \ {0} /\ QueueSize \in Nat
    BY SchedulerAssumption
  <2>3. IsFiniteSet(Endpoint) /\ Cardinality(Endpoint) = NumEndpoints
    BY EndpointsFinite
  <2>4. Len(jobs) <= Cardinality(Endpoint \ {e})
    BY <2>1, <2>3, LengthWithoutRepetition DEF Queued
  <2>5. Cardinality(Endpoint \ {e}) = NumEndpoints - 1
    BY <2>3, FS_RemoveElement
  <2>6. Len(jobs) \in Nat
    BY <2>1
  <2>. QED
    BY <2>2, <2>4, <2>5, <2>6
<1>. QED
  BY <1>1, SchedulerInvariant, PTL

-----------------------------------------------------------------------------
(* Scheduler implements CheckCycle, for every value of the constants: the  *)
(* channels, the workers and the ticks of the detailed module come down to *)
(* one cycle per endpoint.  SchedulerInv is what makes the phases disjoint *)
(* and the count of checked endpoints no larger than the tokens.           *)

(* The conditions of PhaseOf, by name.                                      *)
InQueue(e) == Queued(e) \/ \E w \in Workers : wpc[w] = "holding" /\ wjob[w] = e
Checked(e) == \E w \in Workers : InPerform(w) /\ wjob[w] = e
Finished(e) == Reported(e) \/ \E w \in Workers : wpc[w] = "reporting" /\ wjob[w] = e

Phases == [e \in Endpoint |-> PhaseOf(e)]

(* The phase of an endpoint is the one place it is in.                      *)
PhaseIsPlace(e) ==
  /\ PhaseOf(e) = "queued" <=> InQueue(e)
  /\ PhaseOf(e) = "checking" <=> Checked(e)
  /\ PhaseOf(e) = "finished" <=> Finished(e)
  /\ PhaseOf(e) = "abandoned"
       <=> Marked(e) /\ ~InQueue(e) /\ ~Checked(e) /\ ~Finished(e)
  /\ PhaseOf(e) = "resting" <=> ~Marked(e)

LEMMA PhaseByPlace ==
  ASSUME SchedulerInv, NEW e \in Endpoint
  PROVE  PhaseIsPlace(e)
<1>. USE DEF PhaseIsPlace
<1>1. /\ InQueue(e) => ~Checked(e) /\ ~Finished(e)
      /\ Checked(e) => ~Finished(e)
  BY DEF SchedulerInv, OnePlacePerEndpoint, InQueue, Checked, Finished, InPerform, Busy,
         HeldBy
<1>2. InQueue(e) \/ Checked(e) \/ Finished(e) => Marked(e)
  BY DEF SchedulerInv, InFlightExact, InQueue, Checked, Finished, InPerform, Busy, HeldBy
<1>3. Marked(e) \in BOOLEAN
  BY DEF Marked, SchedulerInv, TypeOK
<1>4. PhaseOf(e) =
        CASE InQueue(e) -> "queued"
          [] Checked(e) -> "checking"
          [] Finished(e) -> "finished"
          [] OTHER -> IF Marked(e) THEN "abandoned" ELSE "resting"
  BY DEF PhaseOf, InQueue, Checked, Finished
<1>5. CASE InQueue(e)
  <2>1. PhaseOf(e) = "queued"
    BY <1>1, <1>4, <1>5
  <2>. QED
    BY <1>1, <1>2, <1>5, <2>1
<1>6. CASE Checked(e)
  <2>1. PhaseOf(e) = "checking"
    BY <1>1, <1>4, <1>6
  <2>. QED
    BY <1>1, <1>2, <1>6, <2>1
<1>7. CASE Finished(e)
  <2>1. PhaseOf(e) = "finished"
    BY <1>1, <1>4, <1>7
  <2>. QED
    BY <1>1, <1>2, <1>7, <2>1
<1>8. CASE ~InQueue(e) /\ ~Checked(e) /\ ~Finished(e)
  <2>1. PhaseOf(e) = IF Marked(e) THEN "abandoned" ELSE "resting"
    BY <1>4, <1>8
  <2>. QED
    BY <1>3, <1>8, <2>1
<1>. QED
  BY <1>5, <1>6, <1>7, <1>8

LEMMA PhaseByPlaceNext ==
  ASSUME NEW e \in Endpoint
  PROVE  SchedulerInv' => PhaseIsPlace(e)'
<1>1. SchedulerInv => PhaseIsPlace(e)
  BY PhaseByPlace
<1>2. (SchedulerInv => PhaseIsPlace(e))'
  BY <1>1, PTL
<1>. QED
  BY <1>2

(* A step after which every endpoint is where it was changes no phase.      *)
LEMMA SamePlaces ==
  ASSUME NEW e \in Endpoint,
         InQueue(e)' <=> InQueue(e), Checked(e)' <=> Checked(e),
         Finished(e)' <=> Finished(e), Marked(e)' <=> Marked(e)
  PROVE  PhaseOf(e)' = PhaseOf(e)
BY DEF PhaseOf, InQueue, Checked, Finished

(* No more endpoints are being checked than there are tokens.               *)
LEMMA CheckedAreFew ==
  ASSUME SchedulerInv
  PROVE  Cardinality({f \in Endpoint : Phases[f] = "checking"}) <= semaphore
<1>. DEFINE C == {f \in Endpoint : Phases[f] = "checking"}
            g == [w \in Performers |-> wjob[w]]
<1>1. C = {f \in Endpoint : Checked(f)}
  BY PhaseByPlace DEF Phases, PhaseIsPlace
<1>2. \A w \in Performers : wjob[w] \in Endpoint
  BY DEF SchedulerInv, WorkersInv, Performers, InPerform, Busy
<1>3. g \in Surjection(Performers, C)
  BY <1>1, <1>2 DEF Surjection, Checked, Performers
<1>4. IsFiniteSet(Performers) /\ semaphore = Cardinality(Performers)
  BY WorkersFinite DEF SchedulerInv, SemaphoreCountsPerforming, Performers
<1>. HIDE DEF C, g
<1>5. Cardinality(C) <= Cardinality(Performers)
  BY <1>3, <1>4, FS_Surjection
<1>. QED
  BY <1>4, <1>5 DEF C

-----------------------------------------------------------------------------
LEMMA CycleInit == Init => Cycle!CInit
<1>. SUFFICES ASSUME Init PROVE Cycle!CInit
  OBVIOUS
<1>1. SchedulerInv
  BY SchedulerInit
<1>2. \A e \in Endpoint : PhaseOf(e) = "resting"
  BY <1>1, PhaseByPlace DEF Init, PhaseIsPlace, Marked
<1>. QED
  BY <1>2 DEF Cycle!CInit, Init

-----------------------------------------------------------------------------
(* A step that takes one endpoint to another phase is that Move of the      *)
(* abstract cycle; a step that takes none is a stutter.                     *)
LEMMA OneMoves ==
  ASSUME NEW e \in Endpoint, NEW from, NEW to,
         PhaseOf(e) = from, PhaseOf(e)' = to,
         \A f \in Endpoint : f # e => PhaseOf(f)' = PhaseOf(f),
         cancelled' = cancelled
  PROVE  Cycle!Move(e, from, to)
BY DEF Cycle!Move

LEMMA NoneMoves ==
  ASSUME \A f \in Endpoint : PhaseOf(f)' = PhaseOf(f)
  PROVE  Phases' = Phases
BY DEF Phases

LEMMA RepositoryHangsMaps ==
  ASSUME SchedulerInv, RepositoryHangs
  PROVE  Phases' = Phases /\ cancelled' = cancelled
<1>1. ASSUME NEW e \in Endpoint PROVE PhaseOf(e)' = PhaseOf(e)
  <2>1. /\ InQueue(e)' <=> InQueue(e)
        /\ Checked(e)' <=> Checked(e)
        /\ Finished(e)' <=> Finished(e)
        /\ Marked(e)' <=> Marked(e)
    BY DEF RepositoryHangs, runVars, workerVars, SchedulerInv, WorkersInv, InQueue, Checked,
           Finished, Queued, Reported, InPerform, Marked
  <2>. QED
    BY <2>1, SamePlaces
<1>. QED
  BY <1>1, NoneMoves DEF RepositoryHangs

LEMMA RepositoryRecoversMaps ==
  ASSUME SchedulerInv, RepositoryRecovers
  PROVE  Phases' = Phases /\ cancelled' = cancelled
<1>1. ASSUME NEW e \in Endpoint PROVE PhaseOf(e)' = PhaseOf(e)
  <2>1. /\ InQueue(e)' <=> InQueue(e)
        /\ Checked(e)' <=> Checked(e)
        /\ Finished(e)' <=> Finished(e)
        /\ Marked(e)' <=> Marked(e)
    BY DEF RepositoryRecovers, runVars, workerVars, SchedulerInv, WorkersInv, InQueue, Checked,
           Finished, Queued, Reported, InPerform, Marked
  <2>. QED
    BY <2>1, SamePlaces
<1>. QED
  BY <1>1, NoneMoves DEF RepositoryRecovers

LEMMA SyncEndpointsMaps ==
  ASSUME SchedulerInv, SyncEndpoints
  PROVE  Phases' = Phases /\ cancelled' = cancelled
<1>1. ASSUME NEW e \in Endpoint PROVE PhaseOf(e)' = PhaseOf(e)
  <2>1. /\ InQueue(e)' <=> InQueue(e)
        /\ Checked(e)' <=> Checked(e)
        /\ Finished(e)' <=> Finished(e)
        /\ Marked(e)' <=> Marked(e)
    BY DEF SyncEndpoints, runVars, workerVars, SchedulerInv, WorkersInv, InQueue, Checked,
           Finished, Queued, Reported, InPerform, Marked
  <2>. QED
    BY <2>1, SamePlaces
<1>. QED
  BY <1>1, NoneMoves DEF SyncEndpoints

LEMMA SyncFailsMaps ==
  ASSUME SchedulerInv, SyncFails
  PROVE  Phases' = Phases /\ cancelled' = cancelled
<1>1. ASSUME NEW e \in Endpoint PROVE PhaseOf(e)' = PhaseOf(e)
  <2>1. /\ InQueue(e)' <=> InQueue(e)
        /\ Checked(e)' <=> Checked(e)
        /\ Finished(e)' <=> Finished(e)
        /\ Marked(e)' <=> Marked(e)
    BY DEF SyncFails, runVars, workerVars, SchedulerInv, WorkersInv, InQueue, Checked,
           Finished, Queued, Reported, InPerform, Marked
  <2>. QED
    BY <2>1, SamePlaces
<1>. QED
  BY <1>1, NoneMoves DEF SyncFails

LEMMA TickMaps ==
  ASSUME SchedulerInv, Tick
  PROVE  Phases' = Phases /\ cancelled' = cancelled
<1>1. ASSUME NEW e \in Endpoint PROVE PhaseOf(e)' = PhaseOf(e)
  <2>1. /\ InQueue(e)' <=> InQueue(e)
        /\ Checked(e)' <=> Checked(e)
        /\ Finished(e)' <=> Finished(e)
        /\ Marked(e)' <=> Marked(e)
    BY DEF Tick, runVars, workerVars, SchedulerInv, WorkersInv, InQueue, Checked,
           Finished, Queued, Reported, InPerform, Marked
  <2>. QED
    BY <2>1, SamePlaces
<1>. QED
  BY <1>1, NoneMoves DEF Tick

LEMMA SelectReturnMaps ==
  ASSUME SchedulerInv, SelectReturn
  PROVE  Phases' = Phases /\ cancelled' = cancelled
<1>1. ASSUME NEW e \in Endpoint PROVE PhaseOf(e)' = PhaseOf(e)
  <2>1. /\ InQueue(e)' <=> InQueue(e)
        /\ Checked(e)' <=> Checked(e)
        /\ Finished(e)' <=> Finished(e)
        /\ Marked(e)' <=> Marked(e)
    BY DEF SelectReturn, runVars, workerVars, SchedulerInv, WorkersInv, InQueue, Checked,
           Finished, Queued, Reported, InPerform, Marked
  <2>. QED
    BY <2>1, SamePlaces
<1>. QED
  BY <1>1, NoneMoves DEF SelectReturn

LEMMA ScanSkipMaps ==
  ASSUME SchedulerInv, ScanSkip
  PROVE  Phases' = Phases /\ cancelled' = cancelled
<1>1. ASSUME NEW e \in Endpoint PROVE PhaseOf(e)' = PhaseOf(e)
  <2>1. /\ InQueue(e)' <=> InQueue(e)
        /\ Checked(e)' <=> Checked(e)
        /\ Finished(e)' <=> Finished(e)
        /\ Marked(e)' <=> Marked(e)
    BY DEF ScanSkip, runVars, workerVars, SchedulerInv, WorkersInv, InQueue, Checked,
           Finished, Queued, Reported, InPerform, Marked
  <2>. QED
    BY <2>1, SamePlaces
<1>. QED
  BY <1>1, NoneMoves DEF ScanSkip

LEMMA ScanMarkMaps ==
  ASSUME SchedulerInv, ScanMark
  PROVE  Phases' = Phases /\ cancelled' = cancelled
<1>1. ASSUME NEW e \in Endpoint PROVE PhaseOf(e)' = PhaseOf(e)
  <2>1. /\ InQueue(e)' <=> InQueue(e)
        /\ Checked(e)' <=> Checked(e)
        /\ Finished(e)' <=> Finished(e)
    BY DEF ScanMark, workerVars, InQueue, Checked, Finished, Queued, Reported, InPerform
  <2>2. Marked(e)' <=> Marked(e)
    BY DEF ScanMark, SchedulerInv, TypeOK, Marked
  <2>. QED
    BY <2>1, <2>2, SamePlaces
<1>. QED
  BY <1>1, NoneMoves DEF ScanMark

LEMMA ScanDropMaps ==
  ASSUME SchedulerInv, ScanDrop
  PROVE  Phases' = Phases /\ cancelled' = cancelled
<1>1. ASSUME NEW e \in Endpoint PROVE PhaseOf(e)' = PhaseOf(e)
  <2>1. /\ InQueue(e)' <=> InQueue(e)
        /\ Checked(e)' <=> Checked(e)
        /\ Finished(e)' <=> Finished(e)
        /\ Marked(e)' <=> Marked(e)
    BY DEF ScanDrop, runVars, workerVars, SchedulerInv, WorkersInv, InQueue, Checked,
           Finished, Queued, Reported, InPerform, Marked
  <2>. QED
    BY <2>1, SamePlaces
<1>. QED
  BY <1>1, NoneMoves DEF ScanDrop

LEMMA ScanReturnMaps ==
  ASSUME SchedulerInv, ScanReturn
  PROVE  Phases' = Phases /\ cancelled' = cancelled
<1>1. ASSUME NEW e \in Endpoint PROVE PhaseOf(e)' = PhaseOf(e)
  <2>1. /\ InQueue(e)' <=> InQueue(e)
        /\ Checked(e)' <=> Checked(e)
        /\ Finished(e)' <=> Finished(e)
        /\ Marked(e)' <=> Marked(e)
    BY DEF ScanReturn, runVars, workerVars, SchedulerInv, WorkersInv, InQueue, Checked,
           Finished, Queued, Reported, InPerform, Marked
  <2>. QED
    BY <2>1, SamePlaces
<1>. QED
  BY <1>1, NoneMoves DEF ScanReturn

LEMMA ScanEndMaps ==
  ASSUME SchedulerInv, ScanEnd
  PROVE  Phases' = Phases /\ cancelled' = cancelled
<1>1. ASSUME NEW e \in Endpoint PROVE PhaseOf(e)' = PhaseOf(e)
  <2>1. /\ InQueue(e)' <=> InQueue(e)
        /\ Checked(e)' <=> Checked(e)
        /\ Finished(e)' <=> Finished(e)
        /\ Marked(e)' <=> Marked(e)
    BY DEF ScanEnd, runVars, workerVars, SchedulerInv, WorkersInv, InQueue, Checked,
           Finished, Queued, Reported, InPerform, Marked
  <2>. QED
    BY <2>1, SamePlaces
<1>. QED
  BY <1>1, NoneMoves DEF ScanEnd

LEMMA RunReturnsMaps ==
  ASSUME SchedulerInv, RunReturns
  PROVE  Phases' = Phases /\ cancelled' = cancelled
<1>1. ASSUME NEW e \in Endpoint PROVE PhaseOf(e)' = PhaseOf(e)
  <2>1. /\ InQueue(e)' <=> InQueue(e)
        /\ Checked(e)' <=> Checked(e)
        /\ Finished(e)' <=> Finished(e)
        /\ Marked(e)' <=> Marked(e)
    BY DEF RunReturns, runVars, workerVars, SchedulerInv, WorkersInv, InQueue, Checked,
           Finished, Queued, Reported, InPerform, Marked
  <2>. QED
    BY <2>1, SamePlaces
<1>. QED
  BY <1>1, NoneMoves DEF RunReturns

LEMMA CancelMaps ==
  ASSUME SchedulerInv, Cancel
  PROVE  Phases' = Phases
<1>1. ASSUME NEW e \in Endpoint PROVE PhaseOf(e)' = PhaseOf(e)
  <2>1. /\ InQueue(e)' <=> InQueue(e)
        /\ Checked(e)' <=> Checked(e)
        /\ Finished(e)' <=> Finished(e)
        /\ Marked(e)' <=> Marked(e)
    BY DEF Cancel, runVars, workerVars, SchedulerInv, WorkersInv, InQueue, Checked,
           Finished, Queued, Reported, InPerform, Marked
  <2>. QED
    BY <2>1, SamePlaces
<1>. QED
  BY <1>1, NoneMoves DEF Cancel

LEMMA TakeMaps ==
  ASSUME SchedulerInv, SchedulerInv', NEW w \in Workers, Take(w)
  PROVE  Phases' = Phases /\ cancelled' = cancelled
<1>1. ASSUME NEW e \in Endpoint PROVE PhaseOf(e)' = PhaseOf(e)
  <2>1. /\ jobs \in Seq(Endpoint) /\ jobs # <<>> /\ NoRepetition(jobs)
    BY DEF Take, SchedulerInv, TypeOK, OnePlacePerEndpoint
  <2>2. Elements(jobs') = Elements(jobs) \ {Head(jobs)} /\ Head(jobs) \in Elements(jobs)
    BY <2>1, TailKeepsSeq DEF Take
  <2>3. /\ wpc[w] = "idle" /\ wpc'[w] = "holding" /\ wjob'[w] = Head(jobs)
        /\ \A v \in Workers : v # w => wpc'[v] = wpc[v] /\ wjob'[v] = wjob[v]
    BY DEF Take, SchedulerInv, TypeOK
  <2>4. /\ InQueue(e)' <=> InQueue(e)
        /\ Checked(e)' <=> Checked(e)
        /\ Finished(e)' <=> Finished(e)
        /\ Marked(e)' <=> Marked(e)
    BY <2>2, <2>3 DEF Take, runVars, InQueue, Checked, Finished, Queued, Reported, InPerform, Marked
  <2>. QED
    BY <2>4, SamePlaces
<1>. QED
  BY <1>1, NoneMoves DEF Take

LEMMA ReportMaps ==
  ASSUME SchedulerInv, SchedulerInv', NEW w \in Workers, Report(w)
  PROVE  Phases' = Phases /\ cancelled' = cancelled
<1>1. ASSUME NEW e \in Endpoint PROVE PhaseOf(e)' = PhaseOf(e)
  <2>1. /\ done \in Seq(Endpoint) /\ wjob[w] \in Endpoint /\ wpc[w] = "reporting"
    BY DEF Report, SchedulerInv, TypeOK, WorkersInv, Busy
  <2>2. Elements(done') = Elements(done) \cup {wjob[w]}
    BY <2>1, AppendKeepsSeq DEF Report
  <2>3. /\ wpc'[w] = "idle"
        /\ \A v \in Workers : v # w => wpc'[v] = wpc[v] /\ wjob'[v] = wjob[v]
    BY DEF Report, SchedulerInv, TypeOK
  <2>4. /\ InQueue(e)' <=> InQueue(e)
        /\ Checked(e)' <=> Checked(e)
        /\ Finished(e)' <=> Finished(e)
        /\ Marked(e)' <=> Marked(e)
    BY <2>1, <2>2, <2>3 DEF Report, runVars, InQueue, Checked, Finished, Queued, Reported,
                            InPerform, Marked
  <2>. QED
    BY <2>4, SamePlaces
<1>. QED
  BY <1>1, NoneMoves DEF Report

LEMMA EndProbeMaps ==
  ASSUME SchedulerInv, SchedulerInv', NEW w \in Workers, EndProbe(w)
  PROVE  Phases' = Phases /\ cancelled' = cancelled
<1>1. ASSUME NEW e \in Endpoint PROVE PhaseOf(e)' = PhaseOf(e)
  <2>1. /\ InQueue(e)' <=> InQueue(e)
        /\ Checked(e)' <=> Checked(e)
        /\ Finished(e)' <=> Finished(e)
        /\ Marked(e)' <=> Marked(e)
    BY DEF EndProbe, runVars, workerVars, SchedulerInv, TypeOK, InQueue, Checked,
           Finished, Queued, Reported, InPerform, Marked
  <2>. QED
    BY <2>1, SamePlaces
<1>. QED
  BY <1>1, NoneMoves DEF EndProbe

LEMMA RangeEndsMaps ==
  ASSUME SchedulerInv, SchedulerInv', NEW w \in Workers, RangeEnds(w)
  PROVE  Phases' = Phases /\ cancelled' = cancelled
<1>1. ASSUME NEW e \in Endpoint PROVE PhaseOf(e)' = PhaseOf(e)
  <2>1. /\ InQueue(e)' <=> InQueue(e)
        /\ Checked(e)' <=> Checked(e)
        /\ Finished(e)' <=> Finished(e)
        /\ Marked(e)' <=> Marked(e)
    BY DEF RangeEnds, runVars, workerVars, SchedulerInv, TypeOK, InQueue, Checked,
           Finished, Queued, Reported, InPerform, Marked
  <2>. QED
    BY <2>1, SamePlaces
<1>. QED
  BY <1>1, NoneMoves DEF RangeEnds

-----------------------------------------------------------------------------
LEMMA AcquireMaps ==
  ASSUME SchedulerInv, SchedulerInv', NEW w \in Workers, Acquire(w)
  PROVE  \E e \in Endpoint : Cycle!Begin(e)
<1>0. PICK x \in Endpoint : x = wjob[w]
  BY DEF SchedulerInv, WorkersInv, Busy, Acquire
<1>1. /\ x \in Endpoint /\ cancelled' = cancelled
      /\ \A v \in Workers : Busy(v) /\ wjob[v] = x => v = w
  BY <1>0 DEF Acquire, SchedulerInv, TypeOK, WorkersInv, OnePlacePerEndpoint, Busy
<1>2. InQueue(x) /\ Checked(x)'
  BY <1>0, <1>1 DEF Acquire, runVars, SchedulerInv, TypeOK, InQueue, Checked, Finished, InPerform,
              Queued, Reported, Busy
<1>3. ASSUME NEW f \in Endpoint, f # x PROVE PhaseOf(f)' = PhaseOf(f)
  <2>1. /\ InQueue(f)' <=> InQueue(f)
        /\ Checked(f)' <=> Checked(f)
        /\ Finished(f)' <=> Finished(f)
        /\ Marked(f)' <=> Marked(f)
    BY <1>0, <1>3 DEF Acquire, runVars, SchedulerInv, TypeOK, InQueue, Checked, Finished, Queued,
                Reported, InPerform, Marked
  <2>. QED
    BY <2>1, SamePlaces
<1>4. PhaseOf(x) = "queued" /\ PhaseOf(x)' = "checking"
  BY <1>1, <1>2, PhaseByPlace, PhaseByPlaceNext DEF PhaseIsPlace
<1>5. Cycle!Move(x, "queued", "checking")
  BY <1>1, <1>3, <1>4, OneMoves
<1>6. Cardinality({f \in Endpoint : Phases[f] = "checking"}) < ConcurrencyLimit
  <2>1. /\ Cardinality({f \in Endpoint : Phases[f] = "checking"}) <= semaphore
        /\ semaphore < ConcurrencyLimit
    BY CheckedAreFew DEF Acquire
  <2>2. semaphore \in Nat /\ ConcurrencyLimit \in Nat
    BY SchedulerAssumption DEF SchedulerInv, TypeOK
  <2>3. Cardinality({f \in Endpoint : Phases[f] = "checking"}) \in Nat
    BY EndpointsFinite, FS_Subset, FS_CardinalityType
  <2>. QED
    BY <2>1, <2>2, <2>3
  (* The instance has its own copy of Cardinality; both have one definition. *)
<1>7. Cycle!Begin(x)
  BY <1>5, <1>6 DEF Cycle!Begin, Phases, Cycle!Cardinality, Cardinality
<1>. QED
  BY <1>7

LEMMA SkipCancelledMaps ==
  ASSUME SchedulerInv, SchedulerInv', NEW w \in Workers, SkipCancelled(w)
  PROVE  \E e \in Endpoint : Cycle!Skip(e)
<1>0. PICK x \in Endpoint : x = wjob[w]
  BY DEF SchedulerInv, WorkersInv, Busy, SkipCancelled
<1>1. /\ x \in Endpoint /\ cancelled' = cancelled
      /\ \A v \in Workers : Busy(v) /\ wjob[v] = x => v = w
  BY <1>0 DEF SkipCancelled, SchedulerInv, TypeOK, WorkersInv, OnePlacePerEndpoint, Busy
<1>2. InQueue(x) /\ Finished(x)'
  BY <1>0, <1>1 DEF SkipCancelled, runVars, SchedulerInv, TypeOK, InQueue, Checked, Finished, InPerform,
              Queued, Reported, Busy
<1>3. ASSUME NEW f \in Endpoint, f # x PROVE PhaseOf(f)' = PhaseOf(f)
  <2>1. /\ InQueue(f)' <=> InQueue(f)
        /\ Checked(f)' <=> Checked(f)
        /\ Finished(f)' <=> Finished(f)
        /\ Marked(f)' <=> Marked(f)
    BY <1>0, <1>3 DEF SkipCancelled, runVars, SchedulerInv, TypeOK, InQueue, Checked, Finished, Queued,
                Reported, InPerform, Marked
  <2>. QED
    BY <2>1, SamePlaces
<1>4. PhaseOf(x) = "queued" /\ PhaseOf(x)' = "finished"
  BY <1>1, <1>2, PhaseByPlace, PhaseByPlaceNext DEF PhaseIsPlace
<1>5. Cycle!Move(x, "queued", "finished")
  BY <1>1, <1>3, <1>4, OneMoves
<1>. QED
  BY <1>1, <1>5 DEF Cycle!Skip, SkipCancelled

LEMMA EndPerformMaps ==
  ASSUME SchedulerInv, SchedulerInv', NEW w \in Workers, EndPerform(w)
  PROVE  \E e \in Endpoint : Cycle!End(e)
<1>0. PICK x \in Endpoint : x = wjob[w]
  BY DEF SchedulerInv, WorkersInv, Busy, EndPerform
<1>1. /\ x \in Endpoint /\ cancelled' = cancelled
      /\ \A v \in Workers : Busy(v) /\ wjob[v] = x => v = w
  BY <1>0 DEF EndPerform, SchedulerInv, TypeOK, WorkersInv, OnePlacePerEndpoint, Busy
<1>2. Checked(x) /\ Finished(x)'
  BY <1>0, <1>1 DEF EndPerform, runVars, SchedulerInv, TypeOK, InQueue, Checked, Finished, InPerform,
              Queued, Reported, Busy
<1>3. ASSUME NEW f \in Endpoint, f # x PROVE PhaseOf(f)' = PhaseOf(f)
  <2>1. /\ InQueue(f)' <=> InQueue(f)
        /\ Checked(f)' <=> Checked(f)
        /\ Finished(f)' <=> Finished(f)
        /\ Marked(f)' <=> Marked(f)
    BY <1>0, <1>3 DEF EndPerform, runVars, SchedulerInv, TypeOK, InQueue, Checked, Finished, Queued,
                Reported, InPerform, Marked
  <2>. QED
    BY <2>1, SamePlaces
<1>4. PhaseOf(x) = "checking" /\ PhaseOf(x)' = "finished"
  BY <1>1, <1>2, PhaseByPlace, PhaseByPlaceNext DEF PhaseIsPlace
<1>5. Cycle!Move(x, "checking", "finished")
  BY <1>1, <1>3, <1>4, OneMoves
<1>. QED
  BY <1>1, <1>5 DEF Cycle!End

LEMMA QuitReportingMaps ==
  ASSUME SchedulerInv, SchedulerInv', NEW w \in Workers, QuitReporting(w)
  PROVE  \E e \in Endpoint : Cycle!Abandon(e)
<1>0. PICK x \in Endpoint : x = wjob[w]
  BY DEF SchedulerInv, WorkersInv, Busy, QuitReporting
<1>1. /\ x \in Endpoint /\ cancelled' = cancelled
      /\ \A v \in Workers : Busy(v) /\ wjob[v] = x => v = w
  BY <1>0 DEF QuitReporting, SchedulerInv, TypeOK, WorkersInv, OnePlacePerEndpoint, Busy
<1>2. Finished(x) /\ (~InQueue(x) /\ ~Checked(x) /\ ~Finished(x) /\ Marked(x))'
  <2>1. wpc[w] = "reporting" /\ HeldBy(w, x) /\ Finished(x)
    BY <1>0 DEF QuitReporting, HeldBy, Busy, Finished
  <2>2. ~Queued(x) /\ ~Reported(x) /\ Marked(x)
    BY <1>1, <2>1 DEF SchedulerInv, OnePlacePerEndpoint, InFlightExact
  <2>3. /\ wpc'[w] = "exited"
        /\ \A v \in Workers : v # w => wpc'[v] = wpc[v] /\ wjob'[v] = wjob[v]
    BY DEF QuitReporting, SchedulerInv, TypeOK
  <2>4. \A v \in Workers : v # w /\ wjob[v] = x => ~Busy(v)
    BY <1>1
  <2>. QED
    BY <2>1, <2>2, <2>3, <2>4 DEF QuitReporting, runVars, InQueue, Checked, Finished, Queued,
       Reported, InPerform, Busy, Marked
<1>3. ASSUME NEW f \in Endpoint, f # x PROVE PhaseOf(f)' = PhaseOf(f)
  <2>1. /\ InQueue(f)' <=> InQueue(f)
        /\ Checked(f)' <=> Checked(f)
        /\ Finished(f)' <=> Finished(f)
        /\ Marked(f)' <=> Marked(f)
    BY <1>0, <1>3 DEF QuitReporting, runVars, SchedulerInv, TypeOK, InQueue, Checked, Finished, Queued,
                Reported, InPerform, Marked
  <2>. QED
    BY <2>1, SamePlaces
<1>4. PhaseOf(x) = "finished" /\ PhaseOf(x)' = "abandoned"
  BY <1>1, <1>2, PhaseByPlace, PhaseByPlaceNext DEF PhaseIsPlace
<1>5. Cycle!Move(x, "finished", "abandoned")
  BY <1>1, <1>3, <1>4, OneMoves
<1>. QED
  BY <1>1, <1>5 DEF Cycle!Abandon, QuitReporting

LEMMA ScanSendMaps ==
  ASSUME SchedulerInv, SchedulerInv', ScanSend
  PROVE  \E e \in Endpoint : Cycle!Queue(e)
<1>0. PICK x \in Endpoint : x = scan
  BY DEF ScanSend
<1>1. /\ x \in Endpoint /\ cancelled' = cancelled /\ ~Marked(x)
  BY <1>0 DEF ScanSend, DueAndIdle, Marked
<1>2. Elements(jobs') = Elements(jobs) \cup {x}
  BY <1>0, <1>1, AppendKeepsSeq DEF ScanSend, SchedulerInv, TypeOK
<1>3. ASSUME NEW f \in Endpoint, f # x PROVE PhaseOf(f)' = PhaseOf(f)
  <2>1. /\ InQueue(f)' <=> InQueue(f)
        /\ Checked(f)' <=> Checked(f)
        /\ Finished(f)' <=> Finished(f)
        /\ Marked(f)' <=> Marked(f)
    BY <1>0, <1>1, <1>2, <1>3 DEF ScanSend, workerVars, SchedulerInv, TypeOK, InQueue, Checked,
                            Finished, Queued, Reported, InPerform, Marked
  <2>. QED
    BY <2>1, SamePlaces
<1>4. PhaseOf(x) = "resting" /\ PhaseOf(x)' = "queued"
  <2>1. InQueue(x)'
    BY <1>2 DEF InQueue, Queued
  <2>. QED
    BY <1>1, <2>1, PhaseByPlace, PhaseByPlaceNext DEF PhaseIsPlace
<1>5. Cycle!Move(x, "resting", "queued")
  BY <1>1, <1>3, <1>4, OneMoves
<1>. QED
  BY <1>1, <1>5 DEF Cycle!Queue

LEMMA ReceiveDoneMaps ==
  ASSUME SchedulerInv, SchedulerInv', ReceiveDone
  PROVE  \E e \in Endpoint : Cycle!Rest(e)
<1>0. PICK x \in Endpoint : x = Head(done)
  BY TailKeepsSeq DEF ReceiveDone, SchedulerInv, TypeOK
<1>a. done \in Seq(Endpoint) /\ done # <<>> /\ NoRepetition(done)
  BY DEF ReceiveDone, SchedulerInv, TypeOK, OnePlacePerEndpoint
<1>1. /\ x \in Endpoint /\ cancelled' = cancelled /\ Reported(x)
  BY <1>0, <1>a, TailKeepsSeq DEF ReceiveDone, Reported
<1>2. Elements(done') = Elements(done) \ {x}
  BY <1>0, <1>a, TailKeepsSeq DEF ReceiveDone
<1>3. ASSUME NEW f \in Endpoint, f # x PROVE PhaseOf(f)' = PhaseOf(f)
  <2>1. /\ InQueue(f)' <=> InQueue(f)
        /\ Checked(f)' <=> Checked(f)
        /\ Finished(f)' <=> Finished(f)
        /\ Marked(f)' <=> Marked(f)
    BY <1>0, <1>1, <1>2, <1>3 DEF ReceiveDone, workerVars, SchedulerInv, TypeOK, InQueue, Checked,
                            Finished, Queued, Reported, InPerform, Marked
  <2>. QED
    BY <2>1, SamePlaces
<1>4. PhaseOf(x) = "finished" /\ PhaseOf(x)' = "resting"
  <2>1. Finished(x) /\ ~Marked(x)'
    BY <1>0, <1>1 DEF ReceiveDone, Finished, Marked, SchedulerInv, TypeOK
  <2>. QED
    BY <1>1, <2>1, PhaseByPlace, PhaseByPlaceNext DEF PhaseIsPlace
<1>5. Cycle!Move(x, "finished", "resting")
  BY <1>1, <1>3, <1>4, OneMoves
<1>. QED
  BY <1>1, <1>5 DEF Cycle!Rest

-----------------------------------------------------------------------------
(* Each step of Run, of a worker or of the environment is a step of one     *)
(* endpoint's cycle, the cancellation, or no step of the cycle.             *)
LEMMA StepMaps ==
  ASSUME SchedulerInv, SchedulerInv', [Next]_vars
  PROVE  [Cycle!CNext]_<<Phases, cancelled>>
<1>1. CASE UNCHANGED vars
  BY <1>1 DEF vars, runVars, workerVars, Phases, PhaseOf, Queued, Reported, InPerform, Marked
<1>2. CASE Cancel
  BY <1>2, CancelMaps DEF Cancel, Cycle!CNext, Cycle!CCancel, Phases
<1>3. CASE \/ RepositoryHangs \/ RepositoryRecovers \/ SyncEndpoints \/ SyncFails \/ Tick
           \/ SelectReturn \/ ScanSkip \/ ScanMark \/ ScanDrop \/ ScanReturn \/ ScanEnd
           \/ RunReturns
           \/ \E w \in Workers : Take(w) \/ Report(w) \/ EndProbe(w) \/ RangeEnds(w)
  BY <1>3, RepositoryHangsMaps, RepositoryRecoversMaps, SyncEndpointsMaps,
       SyncFailsMaps, TickMaps, SelectReturnMaps, ScanSkipMaps, ScanMarkMaps,
       ScanDropMaps, ScanReturnMaps, ScanEndMaps, RunReturnsMaps,
       TakeMaps, ReportMaps, EndProbeMaps, RangeEndsMaps
<1>4. CASE \/ ScanSend \/ ReceiveDone
           \/ \E w \in Workers :
                Acquire(w) \/ SkipCancelled(w) \/ EndPerform(w) \/ QuitReporting(w)
  BY <1>4, ScanSendMaps, ReceiveDoneMaps, AcquireMaps, SkipCancelledMaps,
     EndPerformMaps, QuitReportingMaps
  DEF Cycle!CNext
<1>. QED
  BY <1>1, <1>2, <1>3, <1>4 DEF Next, Run, Scan, Worker, Environment, Terminated

(* The scheduler implements the per-endpoint cycle.                         *)
THEOREM SchedulerRefinesCycle == Spec => ImplementsCheckCycle
<1>1. Init => Cycle!CInit
  BY CycleInit
<1>2. SchedulerInv /\ SchedulerInv' /\ [Next]_vars
        => [Cycle!CNext]_<<Phases, cancelled>>
  BY StepMaps
<1>3. <<Phases, cancelled>> = <<[e \in Endpoint |-> PhaseOf(e)], cancelled>>
  BY DEF Phases
<1>. QED
  BY <1>1, <1>2, SchedulerInvariant, PTL DEF Spec, ImplementsCheckCycle, Cycle!CSpec, Phases
=============================================================================
