--------------------------- MODULE PostgresStore ---------------------------
(***************************************************************************)
(* Postgres.RecordResult of internal/store/postgres.go, statement by       *)
(* statement: a connection of the pool, a transaction, the advisory lock   *)
(* of the endpoint, the read of the previous state, the inserts, the       *)
(* commit; any statement can fail or be cancelled, and the deferred        *)
(* Rollback then gives lock and connection back.                           *)
(*                                                                         *)
(* Callers are goroutines in RecordResult, of one process or of several on *)
(* the same database.  Read committed: a statement sees the rows committed *)
(* before it, and its own.                                                 *)
(***************************************************************************)
EXTENDS RecordRules, FiniteSets

CONSTANTS
  Caller,          \* goroutines that call RecordResult
  Endpoint,        \* endpoints they record results of
  State,           \* states of these results
  LockKey,         \* hashtext: endpoint |-> key of its advisory lock
  MaxConnections,  \* database.maxConnections
  Lag,             \* how far behind the clock a result's checked_at can be
  MaxTime,         \* bound: the clock
  MaxCalls         \* bound: calls of RecordResult

Nobody == "nobody"

ASSUME StoreAssumption ==
  /\ IsFiniteSet(Caller) /\ Nobody \notin Caller
  /\ Endpoint # {} /\ Endpoint \subseteq DOMAIN LockKey
  /\ State # {}
  /\ MaxConnections \in Nat \ {0}
  /\ Lag \in Nat /\ MaxTime \in Nat \ {0} /\ MaxCalls \in Nat

VARIABLES
  clock,        \* the time
  calls,        \* calls made so far
  pc,           \* where each caller is
  row,          \* the row of check_results each caller is about
  previous,     \* the variable previous of each call
  pending,      \* rows inserted and not committed, for each caller
  connections,  \* callers that hold a connection of the pool
  lock,         \* the caller that holds each advisory lock, or Nobody
  nextId,       \* the sequence behind check_results.id
  results,      \* the committed rows of each table
  transitions,
  alerts

tables == <<results, transitions, alerts>>
vars == <<clock, calls, pc, row, previous, pending, connections, lock, nextId, tables>>

CallerPc == {"idle", "waiting", "locking", "reading", "inserting", "deciding",
             "alerting", "committing"}
Nothing == [results |-> {}, transitions |-> {}, alerts |-> {}]
Keys == {LockKey[e] : e \in Endpoint}
Row == [id : Nat, endpoint : Endpoint, at : 1..MaxTime, state : State]
NoRow ==
  [id |-> 0, endpoint |-> CHOOSE e \in Endpoint : TRUE, at |-> 1,
   state |-> CHOOSE s \in State : TRUE]

Init ==
  /\ clock = 1
  /\ calls = 0
  /\ pc = [c \in Caller |-> "idle"]
  /\ row = [c \in Caller |-> NoRow]
  /\ previous = [c \in Caller |-> "Unknown"]
  /\ pending = [c \in Caller |-> Nothing]
  /\ connections = {}
  /\ lock = [k \in Keys |-> Nobody]
  /\ nextId = 1
  /\ results = {} /\ transitions = {} /\ alerts = {}

Tick ==
  /\ clock < MaxTime
  /\ clock' = clock + 1
  /\ UNCHANGED <<calls, pc, row, previous, pending, connections, lock, nextId, tables>>

(* RecordResult is called with a result whose check began at most Lag ago.  *)
Call(c) ==
  /\ pc[c] = "idle"
  /\ calls < MaxCalls
  /\ calls' = calls + 1
  /\ \E e \in Endpoint, s \in State, t \in 1..clock :
       /\ t + Lag >= clock
       /\ row' = [row EXCEPT ![c] = [id |-> 0, endpoint |-> e, at |-> t, state |-> s]]
  /\ pc' = [pc EXCEPT ![c] = "waiting"]
  /\ UNCHANGED <<clock, previous, pending, connections, lock, nextId, tables>>

(* pool.Begin                                                               *)
Begin(c) ==
  /\ pc[c] = "waiting"
  /\ Cardinality(connections) < MaxConnections
  /\ connections' = connections \cup {c}
  /\ pc' = [pc EXCEPT ![c] = "locking"]
  /\ UNCHANGED <<clock, calls, row, previous, pending, lock, nextId, tables>>

(* Mutant: the transaction does not wait for the lock.                      *)
LockShared(c) ==
  /\ pc[c] = "locking"
  /\ lock' = [lock EXCEPT ![LockKey[row[c].endpoint]] = c]
  /\ pc' = [pc EXCEPT ![c] = "reading"]
  /\ UNCHANGED <<clock, calls, row, previous, pending, connections, nextId, tables>>

(* SELECT pg_advisory_xact_lock(hashtext(endpoint_id))                      *)
Lock(c) ==
  /\ pc[c] = "locking"
  /\ lock[LockKey[row[c].endpoint]] = Nobody
  /\ lock' = [lock EXCEPT ![LockKey[row[c].endpoint]] = c]
  /\ pc' = [pc EXCEPT ![c] = "reading"]
  /\ UNCHANGED <<clock, calls, row, previous, pending, connections, nextId, tables>>

(* Mutant: no row is always taken for the previous state.                   *)
ReadNothing(c) ==
  /\ pc[c] = "reading"
  /\ previous' = [previous EXCEPT ![c] = "Unknown"]
  /\ pc' = [pc EXCEPT ![c] = "inserting"]
  /\ UNCHANGED <<clock, calls, row, pending, connections, lock, nextId, tables>>

(* SELECT state FROM check_results                                          *)
ReadPrevious(c) ==
  /\ pc[c] = "reading"
  /\ previous' = [previous EXCEPT ![c] = LatestState(results, row[c].endpoint)]
  /\ pc' = [pc EXCEPT ![c] = "inserting"]
  /\ UNCHANGED <<clock, calls, row, pending, connections, lock, nextId, tables>>

(* INSERT INTO check_results: a failed transaction does not give the        *)
(* identifier back.                                                         *)
InsertResult(c) ==
  /\ pc[c] = "inserting"
  /\ row' = [row EXCEPT ![c].id = nextId]
  /\ nextId' = nextId + 1
  /\ pending' = [pending EXCEPT ![c].results = {row'[c]}]
  /\ pc' = [pc EXCEPT ![c] = "deciding"]
  /\ UNCHANGED <<clock, calls, previous, connections, lock, tables>>

(* INSERT INTO state_transitions when the state changed.                    *)
InsertTransition(c) ==
  /\ pc[c] = "deciding"
  /\ pending' = [pending EXCEPT ![c].transitions = TransitionRows(previous[c], row[c])]
  /\ pc' = [pc EXCEPT ![c] = "alerting"]
  /\ UNCHANGED <<clock, calls, row, previous, connections, lock, nextId, tables>>

(* INSERT INTO alerts when the state calls for one and none is recent.      *)
InsertAlert(c) ==
  /\ pc[c] = "alerting"
  /\ pending' = [pending EXCEPT ![c].alerts = AlertRows(alerts, previous[c], row[c])]
  /\ pc' = [pc EXCEPT ![c] = "committing"]
  /\ UNCHANGED <<clock, calls, row, previous, connections, lock, nextId, tables>>

(* The end of the transaction of c: its lock and its connection are free.   *)
Release(c) ==
  /\ pc' = [pc EXCEPT ![c] = "idle"]
  /\ row' = [row EXCEPT ![c] = NoRow]
  /\ previous' = [previous EXCEPT ![c] = "Unknown"]
  /\ pending' = [pending EXCEPT ![c] = Nothing]
  /\ connections' = connections \ {c}
  /\ lock' = [k \in Keys |-> IF lock[k] = c THEN Nobody ELSE lock[k]]

(* Commit; whether the answer reaches the caller is CheckPipeline's matter. *)
Commit(c) ==
  /\ pc[c] = "committing"
  /\ results' = results \cup pending[c].results
  /\ transitions' = transitions \cup pending[c].transitions
  /\ alerts' = alerts \cup pending[c].alerts
  /\ Release(c)
  /\ UNCHANGED <<clock, calls, nextId>>

(* Mutant: no deferred Rollback, the transaction stays open.                *)
FailWithoutRollback(c) ==
  /\ pc[c] # "idle"
  /\ pc' = [pc EXCEPT ![c] = "idle"]
  /\ row' = [row EXCEPT ![c] = NoRow]
  /\ UNCHANGED <<clock, calls, previous, pending, connections, lock, nextId, tables>>

(* A statement fails, the context is cancelled or the process dies: the     *)
(* transaction is rolled back.                                              *)
Fail(c) ==
  /\ pc[c] # "idle"
  /\ Release(c)
  /\ UNCHANGED <<clock, calls, nextId, tables>>

-----------------------------------------------------------------------------
Statement(c) ==
  \/ Begin(c) \/ Lock(c) \/ ReadPrevious(c) \/ InsertResult(c)
  \/ InsertTransition(c) \/ InsertAlert(c) \/ Commit(c)

(* All calls the bound allows are made and over.                            *)
Finished == calls = MaxCalls /\ (\A c \in Caller : pc[c] = "idle") /\ UNCHANGED vars

Next ==
  \/ Tick
  \/ \E c \in Caller : Call(c) \/ Statement(c) \/ Fail(c)
  \/ Finished

(* A database that answers executes the next statement of every             *)
(* transaction; connections and locks go to those who wait for them, first  *)
(* come, first served.  Nothing has to fail and nobody has to call.         *)
Spec == Init /\ [][Next]_vars
FairSpec ==
  /\ Spec
  /\ \A c \in Caller : WF_vars(Statement(c)) /\ SF_vars(Begin(c)) /\ SF_vars(Lock(c))

-----------------------------------------------------------------------------
TransitionRow ==
  [id : Nat, endpoint : Endpoint, at : 1..MaxTime,
   from : State \cup {"Unknown"}, to : State]

TypeOK ==
  /\ clock \in 1..MaxTime
  /\ calls \in 0..MaxCalls
  /\ pc \in [Caller -> CallerPc]
  /\ row \in [Caller -> Row]
  /\ previous \in [Caller -> State \cup {"Unknown"}]
  /\ pending \in [Caller -> [results : SUBSET Row, transitions : SUBSET TransitionRow,
                             alerts : SUBSET Row]]
  /\ connections \subseteq Caller
  /\ Cardinality(connections) <= MaxConnections
  /\ lock \in [Keys -> Caller \cup {Nobody}]
  /\ nextId \in Nat \ {0}
  /\ results \subseteq Row
  /\ transitions \subseteq TransitionRow
  /\ alerts \subseteq Row

(* No two alerts of the same endpoint and state within the dedupe window,   *)
(* whatever the callers do at the same time and in whatever order the times *)
(* of their results come: README.md's "duplicate alerts", and the "Minimum  *)
(* interval for same endpoint/state alert" of docs/configuration.md.        *)
AlertSpacing ==
  \A a, b \in alerts :
    a.endpoint = b.endpoint /\ a.state = b.state /\ a # b
      => a.at + Window < b.at \/ b.at + Window < a.at

(* Every stored outage or degradation is covered by an alert of its state   *)
(* no older than the window.                                                *)
OutageAlerted ==
  \A r \in results : Alertable(r.state) =>
    \E a \in alerts : /\ a.endpoint = r.endpoint /\ a.state = r.state
                      /\ a.at + Window >= r.at

(* The state just before result r in the order of the history.              *)
StateBefore(r) == LatestState({s \in results : Before(s, r)}, r.endpoint)

(* The stored transitions of e are exactly the changes of state in its      *)
(* stored history, so that they form one chain that ends in the latest      *)
(* state: README.md's "This prevents two workers from creating              *)
(* contradictory transitions".                                              *)
TransitionsMatch(e) ==
  {t \in transitions : t.endpoint = e} =
    UNION {TransitionRows(StateBefore(r), r) : r \in {s \in results : s.endpoint = e}}

(* They match as long as the results of the endpoint are committed in the   *)
(* order of their times, whatever else is committed or fails in between:    *)
(* the lock keeps the read of the previous state and the inserts together.  *)
CommittedInOrder(e) ==
  \A r, s \in results : r.endpoint = e /\ s.endpoint = e /\ r.id < s.id => r.at <= s.at
OrderedTransitionsMatch ==
  \A e \in Endpoint : CommittedInOrder(e) => TransitionsMatch(e)

(* What a call is waiting for is not to be had.                             *)
Waits(c) ==
  \/ pc[c] = "waiting" /\ Cardinality(connections) >= MaxConnections
  \/ pc[c] = "locking" /\ lock[LockKey[row[c].endpoint]] # Nobody

(* The calls never all wait, for connections that others keep while they    *)
(* wait for locks, for locks that nobody gives back, or for connections     *)
(* lost by an error: of those under way one can execute its next statement. *)
(* The pool never lends more than it has.                                   *)
CallsProceed ==
  /\ Cardinality(connections) <= MaxConnections
  /\ (\E c \in Caller : pc[c] # "idle") => \E c \in Caller : pc[c] # "idle" /\ ~Waits(c)

(* A call of RecordResult returns, whoever else is in the way.              *)
CallsReturn == \A c \in Caller : pc[c] # "idle" ~> pc[c] = "idle"

(* Refinement: what is committed is committed as if RecordResult were one   *)
(* step.                                                                    *)
Log == INSTANCE ResultLog
ImplementsResultLog == Log!LSpec
=============================================================================
