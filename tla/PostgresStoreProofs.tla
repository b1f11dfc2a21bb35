------------------------ MODULE PostgresStoreProofs ------------------------
(***************************************************************************)
(* Proofs about PostgresStore: for any number of callers, endpoints and    *)
(* connections, and whatever the keys of the locks, what is stored is      *)
(* stored as if RecordResult were one step (ResultLog); its alerts and,    *)
(* for results that are committed in order, its transitions are right.     *)
(***************************************************************************)
EXTENDS PostgresStore, FiniteSetTheorems, TLAPS

(* The rows of an endpoint, and what it is to be the latest of them.        *)
Own(rows, e) == {r \in rows : r.endpoint = e}
IsLatest(r, own) == r \in own /\ \A s \in own : s = r \/ Before(s, r)

(* The latest state of an endpoint depends on its own rows only.            *)
LEMMA LatestOfOwn ==
  ASSUME NEW A, NEW B, NEW e, Own(A, e) = Own(B, e)
  PROVE  LatestState(A, e) = LatestState(B, e)
<1> DEFINE Of(own) == IF own = {} THEN "Unknown"
                      ELSE (CHOOSE r \in own : \A s \in own : s = r \/ Before(s, r)).state
<1>1. LatestState(A, e) = Of(Own(A, e)) /\ LatestState(B, e) = Of(Own(B, e))
  BY DEF LatestState, Own
<1> HIDE DEF Of
<1>2. QED
  BY <1>1

LEMMA LatestStateType ==
  ASSUME NEW A \in SUBSET Row, NEW e,
         Own(A, e) # {} => \E r : IsLatest(r, Own(A, e))
  PROVE  LatestState(A, e) \in State \cup {"Unknown"}
<1> DEFINE latest == CHOOSE r : r \in Own(A, e) /\ \A s \in Own(A, e) : s = r \/ Before(s, r)
<1>1. CASE Own(A, e) = {}
  BY <1>1 DEF LatestState, Own
<1>2. CASE Own(A, e) # {}
  <2>1. latest \in Own(A, e)
    BY <1>2 DEF IsLatest
  <2>2. latest.state \in State
    BY <2>1 DEF Own, Row
  <2>3. LatestState(A, e) = latest.state
    BY <1>2 DEF LatestState, Own
  <2>4. QED
    BY <2>2, <2>3
<1>3. QED
  BY <1>1, <1>2

(* A row with the highest identifier of its endpoint joins the history: it  *)
(* is the latest, or the one that was remains so.                           *)
LEMMA LatestStays ==
  ASSUME NEW A \in SUBSET Row, NEW r \in Row, NEW e,
         \A s \in A : s.endpoint = r.endpoint => s.id < r.id,
         Own(A, e) # {} => \E l : IsLatest(l, Own(A, e)),
         Own(A \cup {r}, e) # {}
  PROVE  \E l : IsLatest(l, Own(A \cup {r}, e))
<1>1. CASE r.endpoint # e
  <2>1. Own(A \cup {r}, e) = Own(A, e)
    BY <1>1 DEF Own
  <2>2. QED
    BY <2>1
<1>2. CASE r.endpoint = e /\ Own(A, e) = {}
  <2>1. IsLatest(r, Own(A \cup {r}, e))
    BY <1>2 DEF IsLatest, Own
  <2>2. QED
    BY <2>1
<1>3. CASE r.endpoint = e /\ Own(A, e) # {}
  <2>1. PICK l : IsLatest(l, Own(A, e))
    BY <1>3
  <2>2. Own(A \cup {r}, e) = Own(A, e) \cup {r}
    BY <1>3 DEF Own
  <2>3. l \in Row /\ l.endpoint = e /\ l.id < r.id /\ \A s \in Own(A, e) : s \in Row /\ s.id < r.id
    BY <1>3, <2>1 DEF IsLatest, Own
  <2>4. CASE l.at <= r.at
    <3>1. \A s \in Own(A, e) : Before(s, r)
      BY <2>1, <2>3, <2>4, StoreAssumption DEF IsLatest, Before, Row
    <3>2. IsLatest(r, Own(A \cup {r}, e))
      BY <2>2, <3>1 DEF IsLatest
    <3>3. QED
      BY <3>2
  <2>5. CASE r.at < l.at
    <3>1. IsLatest(l, Own(A \cup {r}, e))
      BY <2>1, <2>2, <2>5 DEF IsLatest, Before
    <3>2. QED
      BY <3>1
  <2>6. QED
    BY <2>3, <2>4, <2>5, StoreAssumption DEF Row
<1>4. QED
  BY <1>1, <1>2, <1>3
-----------------------------------------------------------------------------
(* A caller from the lock on has it.                                        *)
Inserted == {"deciding", "alerting", "committing"}
Locked == {"reading", "inserting"} \cup Inserted
LocksHeld == \A c \in Caller : pc[c] \in Locked => lock[LockKey[row[c].endpoint]] = c

(* Identifiers are handed out once; the one of a row not committed is above *)
(* those of its endpoint's stored rows.                                     *)
IdsGrow ==
  /\ \A r \in results : r.id < nextId
  /\ \A c \in Caller : pc[c] \in Inserted =>
       /\ row[c].id < nextId
       /\ \A r \in results : r.endpoint = row[c].endpoint => r.id < row[c].id

(* What a transaction has read is still so, and what it has inserted is     *)
(* what follows from the tables as they are now.                            *)
ReadsAreCurrent ==
  \A c \in Caller : pc[c] \in {"inserting"} \cup Inserted =>
    previous[c] = LatestState(results, row[c].endpoint)

Written(c) ==
  [results |-> {row[c]},
   transitions |-> IF pc[c] = "deciding" THEN {} ELSE TransitionRows(previous[c], row[c]),
   alerts |-> IF pc[c] = "committing" THEN AlertRows(alerts, previous[c], row[c]) ELSE {}]
WritesAreCurrent ==
  \A c \in Caller : pending[c] = IF pc[c] \in Inserted THEN Written(c) ELSE Nothing

TransactionInv == LocksHeld /\ IdsGrow /\ ReadsAreCurrent /\ WritesAreCurrent

(* The tables: each history has a latest row.                               *)
HistoriesEnd ==
  \A e \in Endpoint : Own(results, e) # {} => \E r : IsLatest(r, Own(results, e))
TableInv == HistoriesEnd /\ AlertSpacing /\ OutageAlerted /\ OrderedTransitionsMatch

StoreInv == TypeOK /\ TransactionInv /\ TableInv

(* Two callers past the lock are about different endpoints.                 *)
LEMMA LockExcludes ==
  ASSUME StoreInv, NEW c \in Caller, NEW d \in Caller, c # d,
         pc[c] \in Locked, pc[d] \in Locked
  PROVE  row[c].endpoint # row[d].endpoint
<1>1. lock[LockKey[row[c].endpoint]] = c /\ lock[LockKey[row[d].endpoint]] = d
  BY DEF StoreInv, TransactionInv, LocksHeld
<1>2. QED
  BY <1>1

(* A step that leaves the tables alone leaves what is said of them.         *)
LEMMA TablesStay == TableInv /\ UNCHANGED tables => TableInv'
<1> SUFFICES ASSUME TableInv, UNCHANGED tables PROVE TableInv'
  OBVIOUS
<1>1. results' = results /\ transitions' = transitions /\ alerts' = alerts
  BY DEF tables
<1>2. HistoriesEnd' /\ AlertSpacing' /\ OutageAlerted'
  BY <1>1 DEF TableInv, HistoriesEnd, AlertSpacing, OutageAlerted
<1>3. OrderedTransitionsMatch'
  BY <1>1 DEF TableInv, OrderedTransitionsMatch, CommittedInOrder, TransitionsMatch, StateBefore
<1>4. QED
  BY <1>2, <1>3 DEF TableInv

(* The states before the first step.                                        *)
LEMMA StoreInit == Init => StoreInv
<1> SUFFICES ASSUME Init PROVE StoreInv
  OBVIOUS
<1> USE StoreAssumption DEF Init
<1>1. TypeOK
  <2>1. NoRow \in Row
    <3>1. (CHOOSE e \in Endpoint : TRUE) \in Endpoint /\ (CHOOSE s \in State : TRUE) \in State
      OBVIOUS
    <3>2. QED
      BY <3>1 DEF NoRow, Row
  <2>2. Cardinality(connections) <= MaxConnections
    BY FS_EmptySet
  <2>3. QED
    BY <2>1, <2>2 DEF TypeOK, CallerPc, Nothing
<1>2. TransactionInv
  BY DEF TransactionInv, LocksHeld, IdsGrow, ReadsAreCurrent, WritesAreCurrent, Locked, Inserted
<1>3. TableInv
  <2>1. HistoriesEnd /\ AlertSpacing /\ OutageAlerted
    BY DEF HistoriesEnd, Own, AlertSpacing, OutageAlerted
  <2>2. OrderedTransitionsMatch
    BY DEF OrderedTransitionsMatch, TransitionsMatch
  <2>3. QED
    BY <2>1, <2>2 DEF TableInv
<1>4. QED
  BY <1>1, <1>2, <1>3 DEF StoreInv

(* Time passes.                                                             *)
LEMMA TickKeeps == StoreInv /\ Tick => StoreInv'
<1> SUFFICES ASSUME StoreInv, Tick PROVE StoreInv'
  OBVIOUS
<1> USE StoreAssumption DEF Tick
<1>1. TypeOK'
  BY DEF StoreInv, TypeOK, tables
<1>2. TransactionInv'
  BY DEF StoreInv, TransactionInv, LocksHeld, IdsGrow, ReadsAreCurrent, WritesAreCurrent,
         Written, tables
<1>3. TableInv'
  BY TablesStay DEF StoreInv
<1>4. QED
  BY <1>1, <1>2, <1>3 DEF StoreInv

(* A call begins outside of the lock.                                       *)
LEMMA CallKeeps == ASSUME StoreInv, NEW c \in Caller, Call(c) PROVE StoreInv'
<1> USE StoreAssumption DEF Call
<1>1. TypeOK'
  <2>1. PICK e \in Endpoint, s \in State, t \in 1..clock :
          row' = [row EXCEPT ![c] = [id |-> 0, endpoint |-> e, at |-> t, state |-> s]]
    OBVIOUS
  <2>2. [id |-> 0, endpoint |-> e, at |-> t, state |-> s] \in Row
    BY DEF StoreInv, TypeOK, Row
  <2>3. row' \in [Caller -> Row]
    BY <2>1, <2>2 DEF StoreInv, TypeOK
  <2>4. QED
    BY <2>3 DEF StoreInv, TypeOK, CallerPc, tables
<1>2. LocksHeld' /\ IdsGrow'
  BY DEF StoreInv, TypeOK, TransactionInv, LocksHeld, IdsGrow, Locked, Inserted, tables
<1>3. ReadsAreCurrent'
  BY DEF StoreInv, TypeOK, TransactionInv, ReadsAreCurrent, Inserted, tables
<1>4. WritesAreCurrent'
  BY DEF StoreInv, TypeOK, TransactionInv, WritesAreCurrent, Written, Inserted, tables
<1>5. TableInv'
  BY TablesStay DEF StoreInv
<1>6. QED
  BY <1>1, <1>2, <1>3, <1>4, <1>5 DEF StoreInv, TransactionInv

(* The pool has room for one more.                                          *)
LEMMA BeginKeeps == ASSUME StoreInv, NEW c \in Caller, Begin(c) PROVE StoreInv'
<1> USE StoreAssumption DEF Begin
<1>1. TypeOK'
  <2>1. IsFiniteSet(connections)
    BY FS_Subset DEF StoreInv, TypeOK
  <2>2. Cardinality(connections) \in Nat
    BY <2>1, FS_CardinalityType
  <2>3. Cardinality(connections \cup {c}) <= Cardinality(connections) + 1
    <3>1. Cardinality(connections \cup {c}) =
            IF c \in connections THEN Cardinality(connections) ELSE Cardinality(connections) + 1
      BY <2>1, FS_AddElement, Zenon
    <3>2. QED
      BY <2>2, <3>1
  <2>4. Cardinality(connections') <= MaxConnections
    <3>1. Cardinality(connections \cup {c}) \in Nat
      BY <2>1, FS_CardinalityType, FS_AddElement
    <3>2. QED
      BY <2>2, <2>3, <3>1
  <2>5. QED
    BY <2>4 DEF StoreInv, TypeOK, CallerPc, tables
<1>2. LocksHeld' /\ IdsGrow'
  BY DEF StoreInv, TypeOK, TransactionInv, LocksHeld, IdsGrow, Locked, Inserted, tables
<1>3. ReadsAreCurrent'
  BY DEF StoreInv, TypeOK, TransactionInv, ReadsAreCurrent, Inserted, tables
<1>4. WritesAreCurrent'
  BY DEF StoreInv, TypeOK, TransactionInv, WritesAreCurrent, Written, Inserted, tables
<1>5. TableInv'
  BY TablesStay DEF StoreInv
<1>6. QED
  BY <1>1, <1>2, <1>3, <1>4, <1>5 DEF StoreInv, TransactionInv

(* The lock was free, so that nobody else is past it with that key.         *)
LEMMA LockKeeps == ASSUME StoreInv, NEW c \in Caller, Lock(c) PROVE StoreInv'
<1> USE StoreAssumption DEF Lock
<1>1. TypeOK'
  BY DEF StoreInv, TypeOK, CallerPc, tables
<1>2. LocksHeld' /\ IdsGrow'
  <2>1. lock[LockKey[row[c].endpoint]] = Nobody /\ LockKey[row[c].endpoint] \in Keys
    BY DEF StoreInv, TypeOK, Row, Keys
  <2>2. LocksHeld'
    <3> SUFFICES ASSUME NEW d \in Caller, (pc[d] \in Locked)' 
                 PROVE  (lock[LockKey[row[d].endpoint]] = d)'
      BY DEF LocksHeld
    <3>1. CASE d = c
      BY <2>1, <3>1 DEF StoreInv, TypeOK
    <3>2. CASE d # c
      <4>1. lock[LockKey[row[d].endpoint]] = d
        BY <3>2 DEF StoreInv, TypeOK, TransactionInv, LocksHeld
      <4>2. QED
        BY <2>1, <4>1 DEF StoreInv, TypeOK
    <3>3. QED
      BY <3>1, <3>2
  <2>3. IdsGrow'
    BY DEF StoreInv, TypeOK, TransactionInv, IdsGrow, Inserted, tables
  <2>4. QED
    BY <2>2, <2>3
<1>3. ReadsAreCurrent'
  BY DEF StoreInv, TypeOK, TransactionInv, ReadsAreCurrent, Inserted, tables
<1>4. WritesAreCurrent'
  BY DEF StoreInv, TypeOK, TransactionInv, WritesAreCurrent, Written, Inserted, tables
<1>5. TableInv'
  BY TablesStay DEF StoreInv
<1>6. QED
  BY <1>1, <1>2, <1>3, <1>4, <1>5 DEF StoreInv, TransactionInv

(* The previous state is read.                                              *)
LEMMA ReadPreviousKeeps == ASSUME StoreInv, NEW c \in Caller, ReadPrevious(c) PROVE StoreInv'
<1> USE StoreAssumption DEF ReadPrevious
<1>1. TypeOK'
  <2>1. LatestState(results, row[c].endpoint) \in State \cup {"Unknown"}
    <3>1. row[c].endpoint \in Endpoint /\ results \in SUBSET Row
      BY DEF StoreInv, TypeOK, Row
    <3>2. QED
      BY <3>1, LatestStateType DEF StoreInv, TableInv, HistoriesEnd
  <2>2. QED
    BY <2>1 DEF StoreInv, TypeOK, CallerPc, tables
<1>2. LocksHeld' /\ IdsGrow'
  BY DEF StoreInv, TypeOK, TransactionInv, LocksHeld, IdsGrow, Locked, Inserted, tables
<1>3. ReadsAreCurrent'
  BY DEF StoreInv, TypeOK, TransactionInv, ReadsAreCurrent, Inserted, tables
<1>4. WritesAreCurrent'
  BY DEF StoreInv, TypeOK, TransactionInv, WritesAreCurrent, Written, Inserted, tables
<1>5. TableInv'
  BY TablesStay DEF StoreInv
<1>6. QED
  BY <1>1, <1>2, <1>3, <1>4, <1>5 DEF StoreInv, TransactionInv

(* The rows of the transition and of the alert.                             *)
LEMMA RowTypes ==
  ASSUME StoreInv, NEW c \in Caller
  PROVE  /\ row[c] \in Row
         /\ TransitionRows(previous[c], row[c]) \subseteq TransitionRow
         /\ AlertRows(alerts, previous[c], row[c]) \subseteq Row
<1>1. row[c] \in Row /\ previous[c] \in State \cup {"Unknown"}
  BY DEF StoreInv, TypeOK
<1>2. TransitionRows(previous[c], row[c]) \subseteq TransitionRow
  BY <1>1 DEF TransitionRows, TransitionRow, Row
<1>3. AlertRows(alerts, previous[c], row[c]) \subseteq Row
  BY <1>1 DEF AlertRows, Row
<1>4. QED
  BY <1>1, <1>2, <1>3

(* What a caller that writes has pending.                                   *)
LEMMA PendingIsWritten ==
  ASSUME StoreInv, NEW c \in Caller
  PROVE  /\ pc[c] \notin Inserted => pending[c] = Nothing
         /\ pc[c] \in Inserted => pending[c] = Written(c)
BY DEF StoreInv, TransactionInv, WritesAreCurrent

(* The row gets an identifier above all others.                             *)
LEMMA InsertResultKeeps == ASSUME StoreInv, NEW c \in Caller, InsertResult(c) PROVE StoreInv'
<1> DEFINE r == [id |-> nextId, endpoint |-> row[c].endpoint, at |-> row[c].at,
                 state |-> row[c].state]
<1>1. /\ pc[c] = "inserting" /\ pc' = [pc EXCEPT ![c] = "deciding"]
      /\ nextId' = nextId + 1
      /\ UNCHANGED <<clock, calls, previous, connections, lock, tables>>
  BY DEF InsertResult
<1>2. r \in Row /\ row' = [row EXCEPT ![c] = r]
  <2>1. row[c] \in Row /\ nextId \in Nat
    BY DEF StoreInv, TypeOK
  <2>2. [row[c] EXCEPT !.id = nextId] = r
    BY <2>1 DEF Row
  <2>3. row' = [row EXCEPT ![c] = [row[c] EXCEPT !.id = nextId]]
    BY DEF InsertResult
  <2>4. r \in Row
    BY <2>1 DEF Row
  <2>5. QED
    BY <2>2, <2>3, <2>4
<1>3. pending' = [pending EXCEPT ![c] = [results |-> {r}, transitions |-> {}, alerts |-> {}]]
  <2>1. row'[c] = r
    BY <1>2 DEF StoreInv, TypeOK
  <2>2. pending' = [pending EXCEPT ![c].results = {r}]
    BY <2>1 DEF InsertResult
  <2>3. pending[c] = Nothing
    BY <1>1, PendingIsWritten DEF Inserted
  <2>4. pending' = [pending EXCEPT ![c] = [results |-> {r}, transitions |-> pending[c].transitions,
                                           alerts |-> pending[c].alerts]]
    <3>1. pending[c] \in [results : SUBSET Row, transitions : SUBSET TransitionRow,
                          alerts : SUBSET Row]
      BY DEF StoreInv, TypeOK
    <3>2. [pending[c] EXCEPT !.results = {r}] =
            [results |-> {r}, transitions |-> pending[c].transitions,
             alerts |-> pending[c].alerts]
      BY <3>1
    <3>3. QED
      BY <2>2, <3>2
  <2>5. QED
    BY <2>3, <2>4 DEF Nothing
<1>4. r.id = nextId /\ r.endpoint = row[c].endpoint /\ r.at = row[c].at /\ r.state = row[c].state
  OBVIOUS
<1> HIDE DEF r
<1>5. TypeOK'
  <2>1. [results |-> {r}, transitions |-> {}, alerts |-> {}] \in
          [results : SUBSET Row, transitions : SUBSET TransitionRow, alerts : SUBSET Row]
    BY <1>2
  <2>2. pending' \in [Caller -> [results : SUBSET Row, transitions : SUBSET TransitionRow,
                                 alerts : SUBSET Row]]
    BY <1>3, <2>1 DEF StoreInv, TypeOK
  <2>3. row' \in [Caller -> Row]
    BY <1>2 DEF StoreInv, TypeOK
  <2>4. nextId' \in Nat \ {0}
    BY <1>1 DEF StoreInv, TypeOK
  <2>5. pc' \in [Caller -> CallerPc]
    BY <1>1 DEF StoreInv, TypeOK, CallerPc
  <2>6. QED
    BY <1>1, <2>2, <2>3, <2>4, <2>5 DEF StoreInv, TypeOK, tables
<1>6. LocksHeld'
  BY <1>1, <1>2, <1>4 DEF StoreInv, TypeOK, TransactionInv, LocksHeld, Locked, Inserted
<1>7. IdsGrow'
  <2>1. \A s \in results : s.id < nextId
    BY DEF StoreInv, TransactionInv, IdsGrow
  <2>2. \A s \in results : s.id \in Nat
    BY DEF StoreInv, TypeOK, Row
  <2>3. nextId \in Nat /\ results' = results
    BY <1>1 DEF StoreInv, TypeOK, tables
  <2>4. ASSUME NEW d \in Caller, (pc[d] \in Inserted)'
        PROVE  /\ (row[d].id < nextId)'
               /\ \A s \in results : s.endpoint = (row[d].endpoint)' => s.id < (row[d].id)'
    <3>1. CASE d = c
      <4>1. row'[d] = r
        BY <1>2, <3>1 DEF StoreInv, TypeOK
      <4>2. QED
        BY <1>1, <1>4, <2>1, <2>3, <4>1
    <3>2. CASE d # c
      <4>1. row'[d] = row[d] /\ pc[d] \in Inserted /\ row[d].id \in Nat
        BY <1>1, <1>2, <2>4, <3>2 DEF StoreInv, TypeOK, Row
      <4>2. row[d].id < nextId /\ \A s \in results : s.endpoint = row[d].endpoint => s.id < row[d].id
        BY <4>1 DEF StoreInv, TransactionInv, IdsGrow
      <4>3. QED
        BY <1>1, <2>3, <4>1, <4>2
    <3>3. QED
      BY <3>1, <3>2
  <2>5. QED
    BY <1>1, <2>1, <2>2, <2>3, <2>4 DEF IdsGrow
<1>8. ReadsAreCurrent'
  BY <1>1, <1>2, <1>4 DEF StoreInv, TypeOK, TransactionInv, ReadsAreCurrent, Inserted, tables
<1>9. WritesAreCurrent'
  BY <1>1, <1>2, <1>3 DEF StoreInv, TypeOK, TransactionInv, WritesAreCurrent, Written, Inserted, tables
<1>10. TableInv'
  BY <1>1, TablesStay DEF StoreInv
<1>11. QED
  BY <1>5, <1>6, <1>7, <1>8, <1>9, <1>10 DEF StoreInv, TransactionInv

(* The transition is inserted.                                               *)
LEMMA InsertTransitionKeeps == ASSUME StoreInv, NEW c \in Caller, InsertTransition(c) PROVE StoreInv'
<1> DEFINE written ==
      [results |-> {row[c]}, transitions |-> TransitionRows(previous[c], row[c]),
       alerts |-> {}]
<1>1. /\ pc[c] = "deciding" /\ pc' = [pc EXCEPT ![c] = "alerting"]
      /\ UNCHANGED <<clock, calls, row, previous, connections, lock, nextId, tables>>
  BY DEF InsertTransition
<1>2. pending' = [pending EXCEPT ![c] = written]
  <2>1. pending[c] = Written(c)
    BY <1>1, PendingIsWritten DEF Inserted
  <2>2. pending' = [pending EXCEPT ![c] = [results |-> pending[c].results,
              transitions |-> TransitionRows(previous[c], row[c]), alerts |-> pending[c].alerts]]
    <3>1. pending[c] \in [results : SUBSET Row, transitions : SUBSET TransitionRow,
                          alerts : SUBSET Row]
      BY DEF StoreInv, TypeOK
    <3>2. [pending[c] EXCEPT !.transitions = TransitionRows(previous[c], row[c])] =
            [results |-> pending[c].results, transitions |-> TransitionRows(previous[c], row[c]),
             alerts |-> pending[c].alerts]
      BY <3>1
    <3>3. QED
      BY <3>2 DEF InsertTransition
  <2>3. QED
    BY <1>1, <2>1, <2>2 DEF Written
<1>3. TypeOK'
  <2>1. written \in [results : SUBSET Row, transitions : SUBSET TransitionRow, alerts : SUBSET Row]
    BY RowTypes
  <2> HIDE DEF written
  <2>2. pending' \in [Caller -> [results : SUBSET Row, transitions : SUBSET TransitionRow,
                                 alerts : SUBSET Row]]
    BY <1>2, <2>1 DEF StoreInv, TypeOK
  <2>3. QED
    BY <1>1, <2>2 DEF StoreInv, TypeOK, CallerPc, tables
<1>4. LocksHeld' /\ IdsGrow'
  BY <1>1 DEF StoreInv, TypeOK, TransactionInv, LocksHeld, IdsGrow, Locked, Inserted, tables
<1>5. ReadsAreCurrent'
  BY <1>1 DEF StoreInv, TypeOK, TransactionInv, ReadsAreCurrent, Inserted, tables
<1>6. WritesAreCurrent'
  BY <1>1, <1>2 DEF StoreInv, TypeOK, TransactionInv, WritesAreCurrent, Written, Inserted, tables
<1>7. TableInv'
  BY <1>1, TablesStay DEF StoreInv
<1>8. QED
  BY <1>3, <1>4, <1>5, <1>6, <1>7 DEF StoreInv, TransactionInv

(* The alert is inserted.                                                    *)
LEMMA InsertAlertKeeps == ASSUME StoreInv, NEW c \in Caller, InsertAlert(c) PROVE StoreInv'
<1> DEFINE written ==
      [results |-> {row[c]}, transitions |-> TransitionRows(previous[c], row[c]),
       alerts |-> AlertRows(alerts, previous[c], row[c])]
<1>1. /\ pc[c] = "alerting" /\ pc' = [pc EXCEPT ![c] = "committing"]
      /\ UNCHANGED <<clock, calls, row, previous, connections, lock, nextId, tables>>
  BY DEF InsertAlert
<1>2. pending' = [pending EXCEPT ![c] = written]
  <2>1. pending[c] = Written(c)
    BY <1>1, PendingIsWritten DEF Inserted
  <2>2. pending' = [pending EXCEPT ![c] = [results |-> pending[c].results,
              transitions |-> pending[c].transitions, alerts |-> AlertRows(alerts, previous[c], row[c])]]
    <3>1. pending[c] \in [results : SUBSET Row, transitions : SUBSET TransitionRow,
                          alerts : SUBSET Row]
      BY DEF StoreInv, TypeOK
    <3>2. [pending[c] EXCEPT !.alerts = AlertRows(alerts, previous[c], row[c])] =
            [results |-> pending[c].results, transitions |-> pending[c].transitions,
             alerts |-> AlertRows(alerts, previous[c], row[c])]
      BY <3>1
    <3>3. QED
      BY <3>2 DEF InsertAlert
  <2>3. QED
    BY <1>1, <2>1, <2>2 DEF Written
<1>3. TypeOK'
  <2>1. written \in [results : SUBSET Row, transitions : SUBSET TransitionRow, alerts : SUBSET Row]
    BY RowTypes
  <2> HIDE DEF written
  <2>2. pending' \in [Caller -> [results : SUBSET Row, transitions : SUBSET TransitionRow,
                                 alerts : SUBSET Row]]
    BY <1>2, <2>1 DEF StoreInv, TypeOK
  <2>3. QED
    BY <1>1, <2>2 DEF StoreInv, TypeOK, CallerPc, tables
<1>4. LocksHeld' /\ IdsGrow'
  BY <1>1 DEF StoreInv, TypeOK, TransactionInv, LocksHeld, IdsGrow, Locked, Inserted, tables
<1>5. ReadsAreCurrent'
  BY <1>1 DEF StoreInv, TypeOK, TransactionInv, ReadsAreCurrent, Inserted, tables
<1>6. WritesAreCurrent'
  BY <1>1, <1>2 DEF StoreInv, TypeOK, TransactionInv, WritesAreCurrent, Written, Inserted, tables
<1>7. TableInv'
  BY <1>1, TablesStay DEF StoreInv
<1>8. QED
  BY <1>3, <1>4, <1>5, <1>6, <1>7 DEF StoreInv, TransactionInv

(* The end of a transaction, as far as the callers are concerned.           *)
ReleaseTypes ==
  /\ pc' \in [Caller -> CallerPc]
  /\ row' \in [Caller -> Row]
  /\ previous' \in [Caller -> State \cup {"Unknown"}]
  /\ pending' \in [Caller -> [results : SUBSET Row, transitions : SUBSET TransitionRow,
                              alerts : SUBSET Row]]
  /\ connections' \subseteq Caller
  /\ Cardinality(connections') <= MaxConnections
  /\ lock' \in [Keys -> Caller \cup {Nobody}]

LEMMA ReleaseFits ==
  ASSUME StoreInv, NEW c \in Caller, Release(c)
  PROVE  /\ ReleaseTypes /\ LocksHeld'
         /\ (pc[c] = "idle")' /\ (pending[c] = Nothing)'
         /\ \A d \in Caller : d # c =>
              /\ (pc[d])' = pc[d] /\ (row[d])' = row[d]
              /\ (previous[d])' = previous[d] /\ (pending[d])' = pending[d]
<1>1. NoRow \in Row
  <2>1. (CHOOSE e \in Endpoint : TRUE) \in Endpoint /\ (CHOOSE s \in State : TRUE) \in State
    BY StoreAssumption
  <2>2. QED
    BY <2>1, StoreAssumption DEF NoRow, Row
<1>2. Cardinality(connections') <= MaxConnections
  <2>1. connections' = connections \ {c} /\ IsFiniteSet(connections)
    BY StoreAssumption, FS_Subset DEF Release, StoreInv, TypeOK
  <2>2. Cardinality(connections) \in Nat
    BY <2>1, FS_CardinalityType
  <2>3. connections \ {c} \in SUBSET connections
    OBVIOUS
  <2>4. Cardinality(connections \ {c}) <= Cardinality(connections)
    BY <2>1, <2>3, FS_Subset, Zenon
  <2>5. Cardinality(connections \ {c}) \in Nat
    BY <2>1, <2>3, FS_Subset, FS_CardinalityType
  <2>6. QED
    BY <2>1, <2>2, <2>4, <2>5, StoreAssumption DEF StoreInv, TypeOK
<1>3. ReleaseTypes
  <2>1. Nothing \in [results : SUBSET Row, transitions : SUBSET TransitionRow, alerts : SUBSET Row]
    BY DEF Nothing
  <2>2. QED
    BY <1>1, <1>2, <2>1 DEF Release, ReleaseTypes, StoreInv, TypeOK, CallerPc
<1>4. /\ (pc[c] = "idle")' /\ (pending[c] = Nothing)'
      /\ \A d \in Caller : d # c =>
           /\ (pc[d])' = pc[d] /\ (row[d])' = row[d]
           /\ (previous[d])' = previous[d] /\ (pending[d])' = pending[d]
  BY DEF Release, StoreInv, TypeOK
<1>5. LocksHeld'
  <2> SUFFICES ASSUME NEW d \in Caller, (pc[d] \in Locked)'
               PROVE  (lock[LockKey[row[d].endpoint]] = d)'
    BY DEF LocksHeld
  <2>1. d # c
    BY <1>4 DEF Locked, Inserted
  <2>2. lock[LockKey[row[d].endpoint]] = d /\ LockKey[row[d].endpoint] \in Keys
    BY <1>4, <2>1 DEF StoreInv, TransactionInv, LocksHeld, TypeOK, Row, Keys
  <2>3. QED
    BY <1>4, <2>1, <2>2 DEF Release
<1>6. QED
  BY <1>3, <1>4, <1>5

(* A transaction that fails leaves no trace.                                *)
LEMMA FailKeeps == ASSUME StoreInv, NEW c \in Caller, Fail(c) PROVE StoreInv'
<1>1. Release(c) /\ UNCHANGED <<clock, calls, nextId, tables>>
  BY DEF Fail
<1>2. TypeOK'
  BY <1>1, ReleaseFits DEF ReleaseTypes, StoreInv, TypeOK, tables
<1>3. IdsGrow'
  BY <1>1, ReleaseFits DEF StoreInv, TransactionInv, IdsGrow, Inserted, tables
<1>4. ReadsAreCurrent'
  BY <1>1, ReleaseFits DEF StoreInv, TransactionInv, ReadsAreCurrent, Inserted, tables
<1>5. WritesAreCurrent'
  BY <1>1, ReleaseFits DEF StoreInv, TransactionInv, WritesAreCurrent, Written, Inserted, tables
<1>6. TableInv'
  BY <1>1, TablesStay DEF StoreInv
<1>7. QED
  BY <1>1, <1>2, <1>3, <1>4, <1>5, <1>6, ReleaseFits DEF StoreInv, TransactionInv

-----------------------------------------------------------------------------
(* A commit records one row, with what follows from the tables at that time *)
(* and not only from what the transaction read of them.                     *)
Recorded(r) ==
  LET from == LatestState(results, r.endpoint)
  IN  /\ r \in Row /\ r \notin results
      /\ \A s \in results : s.endpoint = r.endpoint => s.id < r.id
      /\ results' = results \cup {r}
      /\ transitions' = transitions \cup TransitionRows(from, r)
      /\ alerts' = alerts \cup AlertRows(alerts, from, r)

LEMMA CommitRecords ==
  ASSUME StoreInv, NEW c \in Caller, Commit(c)
  PROVE  Recorded(row[c])
<1>1. pc[c] = "committing"
  BY DEF Commit
<1>2. pending[c] = Written(c)
  BY <1>1, PendingIsWritten DEF Inserted
<1>3. previous[c] = LatestState(results, row[c].endpoint)
  BY <1>1 DEF StoreInv, TransactionInv, ReadsAreCurrent, Inserted
<1>4. /\ results' = results \cup {row[c]}
      /\ transitions' = transitions \cup TransitionRows(previous[c], row[c])
      /\ alerts' = alerts \cup AlertRows(alerts, previous[c], row[c])
  BY <1>1, <1>2 DEF Commit, Written
<1>5. row[c] \in Row /\ \A s \in results : s.endpoint = row[c].endpoint => s.id < row[c].id
  BY <1>1 DEF StoreInv, TypeOK, TransactionInv, IdsGrow, Inserted
<1>6. row[c] \notin results
  BY <1>5 DEF Row
<1>7. QED
  BY <1>3, <1>4, <1>5, <1>6 DEF Recorded

(* Each property of the tables survives such a step.                        *)
LEMMA RecordedEnds ==
  ASSUME StoreInv, NEW r, Recorded(r)
  PROVE  HistoriesEnd'
<1> SUFFICES ASSUME NEW e \in Endpoint, Own(results, e)' # {}
             PROVE  \E l : IsLatest(l, Own(results, e)')
  BY DEF HistoriesEnd
<1>1. r \in Row /\ results' = results \cup {r} /\ results \in SUBSET Row
      /\ \A s \in results : s.endpoint = r.endpoint => s.id < r.id
  BY DEF Recorded, StoreInv, TypeOK
<1>2. Own(results, e) # {} => \E l : IsLatest(l, Own(results, e))
  BY DEF StoreInv, TableInv, HistoriesEnd
<1>3. Own(results, e)' = Own(results \cup {r}, e)
  BY <1>1 DEF Own
<1>4. QED
  BY <1>1, <1>2, <1>3, LatestStays

LEMMA RecordedAlerts ==
  ASSUME StoreInv, NEW r, Recorded(r)
  PROVE  AlertSpacing' /\ OutageAlerted'
<1> DEFINE from == LatestState(results, r.endpoint)
<1> DEFINE alert == [id |-> r.id, endpoint |-> r.endpoint, at |-> r.at, state |-> r.state]
<1>1. r \in Row /\ results' = results \cup {r} /\ alerts' = alerts \cup AlertRows(alerts, from, r)
  BY DEF Recorded
<1>2. alert \in Row /\ \A a \in alerts : a \in Row
  BY <1>1 DEF Row, StoreInv, TypeOK
<1>3. alert.endpoint = r.endpoint /\ alert.state = r.state /\ alert.at = r.at
  OBVIOUS
<1>4. alerts' = alerts \/ (alerts' = alerts \cup {alert} /\ ~Duplicate(alerts, r))
  BY <1>1 DEF AlertRows
<1> HIDE DEF alert
<1>5. AlertSpacing'
  <2>1. CASE alerts' = alerts
    BY <2>1 DEF StoreInv, TableInv, AlertSpacing
  <2>2. CASE alerts' = alerts \cup {alert} /\ ~Duplicate(alerts, r)
    <3>1. \A a \in alerts : a.endpoint = alert.endpoint /\ a.state = alert.state
                             => a.at + Window < alert.at
      BY <1>1, <1>2, <1>3, <2>2, StoreAssumption, WindowAssumption DEF Duplicate, Row
    <3>2. QED
      BY <2>2, <3>1 DEF StoreInv, TableInv, AlertSpacing
  <2>3. QED
    BY <1>4, <2>1, <2>2
<1>6. OutageAlerted'
  <2>1. Alertable(r.state) => \E a \in alerts' : /\ a.endpoint = r.endpoint /\ a.state = r.state
                                                 /\ a.at + Window >= r.at
    <3>1. CASE Duplicate(alerts, r)
      BY <1>4, <3>1 DEF Duplicate
    <3>2. CASE Alertable(r.state) /\ ~Duplicate(alerts, r)
      <4>1. alert \in alerts'
        BY <1>1, <3>2 DEF AlertRows, alert
      <4>2. alert.at + Window >= r.at
        BY <1>1, <1>3, StoreAssumption, WindowAssumption DEF Row
      <4>3. QED
        BY <1>3, <4>1, <4>2
    <3>3. QED
      BY <3>1, <3>2
  <2>2. alerts \subseteq alerts'
    BY <1>1
  <2>3. QED
    BY <1>1, <2>1, <2>2 DEF StoreInv, TableInv, OutageAlerted
<1>7. QED
  BY <1>5, <1>6

(* The rows that come before r0 in the order of the history.                *)
Past(rows, r0) == {s \in rows : Before(s, r0)}

LEMMA RecordedTransitions ==
  ASSUME StoreInv, NEW r, Recorded(r)
  PROVE  OrderedTransitionsMatch'
<1> SUFFICES ASSUME NEW e \in Endpoint, CommittedInOrder(e)'
             PROVE  TransitionsMatch(e)'
  BY DEF OrderedTransitionsMatch
<1> DEFINE from == LatestState(results, r.endpoint)
<1>1. /\ r \in Row /\ results \in SUBSET Row
      /\ results' = results \cup {r} /\ transitions' = transitions \cup TransitionRows(from, r)
      /\ \A s \in results : s.endpoint = r.endpoint => s.id < r.id
  BY DEF Recorded, StoreInv, TypeOK
<1>2. TransitionsMatch(e)
  <2>1. CommittedInOrder(e)
    BY <1>1 DEF CommittedInOrder
  <2>2. QED
    BY <2>1 DEF StoreInv, TableInv, OrderedTransitionsMatch
(* The new row comes after every row of its endpoint.                       *)
<1>3. r.endpoint = e => \A s \in Own(results, e) : Before(s, r) /\ ~Before(r, s)
  <2> SUFFICES ASSUME r.endpoint = e, NEW s \in Own(results, e)
               PROVE  Before(s, r) /\ ~Before(r, s)
    OBVIOUS
  <2>1. s \in results /\ s.endpoint = e /\ s.id < r.id
    BY <1>1 DEF Own
  <2>2. s.at <= r.at
    BY <1>1, <2>1 DEF CommittedInOrder
  <2>3. s.at \in Nat /\ r.at \in Nat /\ s.id \in Nat /\ r.id \in Nat
    BY <1>1, <2>1, StoreAssumption DEF Row
  <2>4. QED
    BY <2>1, <2>2, <2>3 DEF Before
<1>4. ASSUME NEW s \in Own(results, e)
      PROVE  LatestState(Past(results \cup {r}, s), e) = LatestState(Past(results, s), e)
  <2>1. Own(Past(results \cup {r}, s), e) = Own(Past(results, s), e)
    BY <1>3, <1>4 DEF Own, Past
  <2>2. QED
    BY <2>1, LatestOfOwn
<1>5. r.endpoint = e => LatestState(Past(results \cup {r}, r), e) = from
  <2>1. ASSUME r.endpoint = e
        PROVE  Own(Past(results \cup {r}, r), e) = Own(results, e)
    <3>1. ~Before(r, r)
      BY <1>1, StoreAssumption DEF Before, Row
    <3>2. QED
      BY <1>3, <2>1, <3>1 DEF Own, Past
  <2>2. QED
    BY <2>1, LatestOfOwn
(* Both sides, transition by transition.                                    *)
<1>6. \A t : t \in transitions /\ t.endpoint = e <=>
             \E s \in Own(results, e) : t \in TransitionRows(LatestState(Past(results, s), e), s)
  BY <1>2, ZenonT(30) DEF TransitionsMatch, StateBefore, Past, Own
<1>7. \A t : t \in TransitionRows(from, r) => t.endpoint = r.endpoint
  BY DEF TransitionRows
<1>8. \A t : t \in transitions' /\ t.endpoint = e <=>
             \E s \in Own(results', e) : t \in TransitionRows(LatestState(Past(results', s), e), s)
  <2>1. CASE r.endpoint = e
    <3>1. Own(results', e) = Own(results, e) \cup {r}
      BY <1>1, <2>1 DEF Own
    <3>2. \A t : t \in transitions' /\ t.endpoint = e <=>
                 (t \in transitions /\ t.endpoint = e) \/ t \in TransitionRows(from, r)
      BY <1>1, <1>7, <2>1
    <3> DEFINE Follows(t, s) == t \in TransitionRows(LatestState(Past(results', s), e), s)
    <3>3. \A t : Follows(t, r) <=> t \in TransitionRows(from, r)
      BY <1>1, <1>5, <2>1
    <3>4. \A t : \A s \in Own(results, e) :
            Follows(t, s) <=> t \in TransitionRows(LatestState(Past(results, s), e), s)
      BY <1>1, <1>4
    <3> HIDE DEF Follows
    <3>5. \A t : t \in transitions' /\ t.endpoint = e <=>
                 \E s \in Own(results', e) : Follows(t, s)
      BY <1>6, <3>1, <3>2, <3>3, <3>4
    <3>6. QED
      BY <3>5 DEF Follows
  <2>2. CASE r.endpoint # e
    <3>1. Own(results', e) = Own(results, e)
      BY <1>1, <2>2 DEF Own
    <3>2. \A t : t \in transitions' /\ t.endpoint = e <=> t \in transitions /\ t.endpoint = e
      BY <1>1, <1>7, <2>2
    <3>3. QED
      BY <1>1, <1>4, <1>6, <3>1, <3>2
  <2>3. QED
    BY <2>1, <2>2
<1>9. QED
  BY <1>8 DEF TransitionsMatch, StateBefore, Past, Own

(* Nobody else is past the lock of the endpoint, so that what the others    *)
(* have read and written is still current.                                  *)
LEMMA CommitKeeps == ASSUME StoreInv, NEW c \in Caller, Commit(c) PROVE StoreInv'
<1> DEFINE r == row[c]
<1> DEFINE from == LatestState(results, r.endpoint)
<1>1. pc[c] = "committing" /\ Release(c) /\ UNCHANGED <<clock, calls, nextId>>
  BY DEF Commit
<1>2. Recorded(r)
  BY CommitRecords
<1>3. /\ r \in Row /\ results' = results \cup {r}
      /\ transitions' = transitions \cup TransitionRows(from, r)
      /\ alerts' = alerts \cup AlertRows(alerts, from, r)
  BY <1>2 DEF Recorded
<1>4. r.id < nextId
  BY <1>1 DEF StoreInv, TransactionInv, IdsGrow, Inserted
<1>5. /\ (pc[c] = "idle")' /\ (pending[c] = Nothing)'
      /\ \A d \in Caller : d # c =>
           /\ (pc[d])' = pc[d] /\ (row[d])' = row[d]
           /\ (previous[d])' = previous[d] /\ (pending[d])' = pending[d]
  BY <1>1, ReleaseFits
<1>6. \A d \in Caller : d # c /\ pc[d] \in Locked => row[d].endpoint # r.endpoint
  BY <1>1, LockExcludes DEF Locked, Inserted
<1> HIDE DEF r
<1>7. TypeOK'
  <2>1. TransitionRows(from, r) \subseteq TransitionRow /\ AlertRows(alerts, from, r) \subseteq Row
    <3>1. from = previous[c]
      BY <1>1 DEF StoreInv, TransactionInv, ReadsAreCurrent, Inserted, r
    <3>2. QED
      BY <3>1, RowTypes DEF r
  <2>2. ReleaseTypes
    BY <1>1, ReleaseFits
  <2>3. QED
    BY <1>1, <1>3, <2>1, <2>2 DEF ReleaseTypes, StoreInv, TypeOK
<1>8. IdsGrow'
  BY <1>1, <1>3, <1>4, <1>5, <1>6 DEF StoreInv, TransactionInv, IdsGrow, Locked, Inserted
<1>9. ReadsAreCurrent'
  <2> SUFFICES ASSUME NEW d \in Caller, (pc[d] \in {"inserting"} \cup Inserted)'
               PROVE  (previous[d] = LatestState(results, row[d].endpoint))'
    BY DEF ReadsAreCurrent
  <2>1. d # c /\ pc[d] \in {"inserting"} \cup Inserted
    BY <1>5 DEF Inserted
  <2>2. row[d].endpoint # r.endpoint
    BY <1>6, <2>1 DEF Locked
  <2>3. Own(results \cup {r}, row[d].endpoint) = Own(results, row[d].endpoint)
    BY <2>2 DEF Own
  <2>4. LatestState(results \cup {r}, row[d].endpoint) = LatestState(results, row[d].endpoint)
    BY <2>3, LatestOfOwn
  <2>5. previous[d] = LatestState(results, row[d].endpoint)
    BY <2>1 DEF StoreInv, TransactionInv, ReadsAreCurrent
  <2>6. QED
    BY <1>3, <1>5, <2>1, <2>4, <2>5
<1>10. WritesAreCurrent'
  <2> SUFFICES ASSUME NEW d \in Caller
               PROVE  (pending[d] = IF pc[d] \in Inserted THEN Written(d) ELSE Nothing)'
    BY DEF WritesAreCurrent
  <2>1. CASE d = c
    BY <1>5, <2>1 DEF Inserted
  <2>2. CASE d # c /\ pc[d] \notin Inserted
    BY <1>5, <2>2, PendingIsWritten DEF Inserted
  <2>3. CASE d # c /\ pc[d] \in Inserted
    <3>1. row[d].endpoint # r.endpoint
      BY <1>6, <2>3 DEF Locked
    <3>2. \A a \in AlertRows(alerts, from, r) : a.endpoint = r.endpoint
      BY DEF AlertRows
    <3>3. Duplicate(alerts', row[d]) <=> Duplicate(alerts, row[d])
      BY <1>3, <3>1, <3>2 DEF Duplicate
    <3>4. AlertRows(alerts', previous[d], row[d]) = AlertRows(alerts, previous[d], row[d])
      BY <3>3 DEF AlertRows
    <3>5. Written(d)' = Written(d)
      BY <1>5, <2>3, <3>4 DEF Written
    <3>6. QED
      BY <1>5, <2>3, <3>5, PendingIsWritten
  <2>4. QED
    BY <2>1, <2>2, <2>3
<1>11. TableInv'
  BY <1>2, RecordedEnds, RecordedAlerts, RecordedTransitions DEF TableInv
<1>12. QED
  BY <1>1, <1>7, <1>8, <1>9, <1>10, <1>11, ReleaseFits DEF StoreInv, TransactionInv

(* No step disturbs the invariant.                                          *)
LEMMA StoreStep == StoreInv /\ [Next]_vars => StoreInv'
<1> SUFFICES ASSUME StoreInv, [Next]_vars PROVE StoreInv'
  OBVIOUS
<1>1. ASSUME UNCHANGED vars PROVE StoreInv'
  <2>1. TypeOK'
    BY <1>1 DEF StoreInv, TypeOK, vars, tables
  <2>2. LocksHeld' /\ IdsGrow' /\ ReadsAreCurrent' /\ WritesAreCurrent'
    BY <1>1 DEF StoreInv, TransactionInv, LocksHeld, IdsGrow, ReadsAreCurrent, WritesAreCurrent,
                Written, vars, tables
  <2>3. TableInv'
    BY <1>1, TablesStay DEF StoreInv, vars
  <2>4. QED
    BY <2>1, <2>2, <2>3 DEF StoreInv, TransactionInv
<1>2. CASE Tick
  BY <1>2, TickKeeps
<1>3. ASSUME NEW c \in Caller, Call(c) \/ Statement(c) \/ Fail(c)
      PROVE  StoreInv'
  BY <1>3, CallKeeps, BeginKeeps, LockKeeps, ReadPreviousKeeps, InsertResultKeeps,
     InsertTransitionKeeps, InsertAlertKeeps, CommitKeeps, FailKeeps DEF Statement
<1>4. CASE Finished
  BY <1>1, <1>4 DEF Finished
<1>5. QED
  BY <1>1, <1>2, <1>3, <1>4 DEF Next

(* What the transactions of RecordResult keep true together.                *)
THEOREM StoreInvariant == Spec => []StoreInv
<1>1. QED
  BY StoreInit, StoreStep, PTL DEF Spec

(* Who is in a transaction has a connection and nobody else has; who has a  *)
(* lock is past it, with a row of an endpoint of its key.                   *)
InUse ==
  /\ connections = {c \in Caller : pc[c] \notin {"idle", "waiting"}}
  /\ \A k \in Keys : lock[k] # Nobody =>
       pc[lock[k]] \in Locked /\ LockKey[row[lock[k]].endpoint] = k

LEMMA InUseStep == StoreInv /\ InUse /\ [Next]_vars => InUse'
<1> SUFFICES ASSUME StoreInv, InUse, [Next]_vars PROVE InUse'
  OBVIOUS
<1> USE StoreAssumption
<1>1. /\ pc \in [Caller -> CallerPc] /\ row \in [Caller -> Row]
      /\ lock \in [Keys -> Caller \cup {Nobody}]
  BY DEF StoreInv, TypeOK
<1>2. \A c \in Caller : LockKey[row[c].endpoint] \in Keys
  BY <1>1 DEF Row, Keys
<1>3. ASSUME NEW c \in Caller, Call(c) PROVE InUse'
  <2>1. pc' = [pc EXCEPT ![c] = "waiting"] /\ pc[c] = "idle" /\ UNCHANGED <<connections, lock>>
    BY <1>3 DEF Call
  <2>2. \A d \in Caller : d # c => row'[d] = row[d]
    BY <1>1, <1>3 DEF Call
  <2>3. QED
    BY <1>1, <2>1, <2>2 DEF InUse, Locked, Inserted
<1>4. ASSUME NEW c \in Caller, Begin(c) PROVE InUse'
  BY <1>1, <1>4 DEF InUse, Begin, Locked, Inserted
<1>5. ASSUME NEW c \in Caller, Lock(c) PROVE InUse'
  BY <1>1, <1>2, <1>5 DEF InUse, Lock, Locked, Inserted
<1>6. ASSUME NEW c \in Caller,
             ReadPrevious(c) \/ InsertTransition(c) \/ InsertAlert(c)
      PROVE  InUse'
  BY <1>1, <1>6 DEF InUse, ReadPrevious, InsertTransition, InsertAlert, Locked, Inserted
<1>7. ASSUME NEW c \in Caller, InsertResult(c) PROVE InUse'
  <2>1. pc' = [pc EXCEPT ![c] = "deciding"] /\ pc[c] = "inserting" /\ UNCHANGED <<connections, lock>>
    BY <1>7 DEF InsertResult
  <2>2. \A d \in Caller : row'[d].endpoint = row[d].endpoint
    BY <1>1, <1>7 DEF InsertResult, Row
  <2>3. QED
    BY <1>1, <2>1, <2>2 DEF InUse, Locked, Inserted
<1>8. ASSUME NEW c \in Caller, Commit(c) \/ Fail(c) PROVE InUse'
  <2>1. /\ pc' = [pc EXCEPT ![c] = "idle"] /\ row' = [row EXCEPT ![c] = NoRow]
        /\ connections' = connections \ {c}
        /\ lock' = [k \in Keys |-> IF lock[k] = c THEN Nobody ELSE lock[k]]
    BY <1>8 DEF Commit, Fail, Release
  <2>2. QED
    BY <1>1, <2>1 DEF InUse
<1>9. CASE Tick \/ Finished \/ UNCHANGED vars
  BY <1>9 DEF InUse, Tick, Finished, vars
<1>10. QED
  BY <1>3, <1>4, <1>5, <1>6, <1>7, <1>8, <1>9 DEF Next, Statement

(* RecordResult never stalls: with the pool exhausted and locks taken, some *)
(* call that has what it needs is under way, because the locks of calls     *)
(* that are over are free and those that hold one wait for nothing.         *)
THEOREM CallsNeverStall == Spec => []CallsProceed
<1>1. Init => InUse
  BY StoreAssumption DEF Init, InUse
<1>2. StoreInv /\ InUse => CallsProceed
  <2> SUFFICES ASSUME StoreInv, InUse PROVE CallsProceed
    OBVIOUS
  <2> USE StoreAssumption
  <2>1. Cardinality(connections) <= MaxConnections
    BY DEF StoreInv, TypeOK
  <2>2. ASSUME NEW d \in Caller, pc[d] \notin {"idle", "waiting"}
        PROVE  \E c \in Caller : pc[c] # "idle" /\ ~Waits(c)
    <3>1. LockKey[row[d].endpoint] \in Keys
      BY DEF StoreInv, TypeOK, Row, Keys
    <3>2. CASE pc[d] = "locking" /\ lock[LockKey[row[d].endpoint]] # Nobody
      <4> DEFINE holder == lock[LockKey[row[d].endpoint]]
      <4>1. holder \in Caller /\ pc[holder] \in Locked
        BY <3>1, <3>2 DEF StoreInv, TypeOK, InUse
      <4>2. QED
        BY <4>1 DEF Locked, Inserted, Waits
    <3>3. CASE ~(pc[d] = "locking" /\ lock[LockKey[row[d].endpoint]] # Nobody)
      BY <2>2, <3>3 DEF Waits
    <3>4. QED
      BY <3>2, <3>3
  <2>3. ASSUME NEW d \in Caller, pc[d] = "waiting"
        PROVE  \E c \in Caller : pc[c] # "idle" /\ ~Waits(c)
    <3>1. CASE Cardinality(connections) >= MaxConnections
      <4>1. connections # {}
        BY <3>1, FS_EmptySet
      <4>2. PICK c \in Caller : pc[c] \notin {"idle", "waiting"}
        BY <4>1 DEF InUse
      <4>3. QED
        BY <2>2, <4>2
    <3>2. CASE ~(Cardinality(connections) >= MaxConnections)
      BY <2>3, <3>2 DEF Waits
    <3>3. QED
      BY <3>1, <3>2
  <2>4. QED
    BY <2>1, <2>2, <2>3 DEF CallsProceed
<1>3. QED
  BY <1>1, <1>2, InUseStep, StoreInvariant, PTL DEF Spec

(* RecordResult: the types of its variables and of the tables, and no more  *)
(* connections in use than the pool has.                                    *)
THEOREM StoreTypes == Spec => []TypeOK
<1>1. StoreInv => TypeOK
  BY DEF StoreInv
<1>2. QED
  BY <1>1, StoreInvariant, PTL

(* The EXISTS of RecordResult under the advisory lock: two alerts of an     *)
(* endpoint and state are further apart than the window.                    *)
THEOREM AlertsAreSpaced == Spec => []AlertSpacing
<1>1. StoreInv => AlertSpacing
  BY DEF StoreInv, TableInv
<1>2. QED
  BY <1>1, StoreInvariant, PTL

(* The same EXISTS suppresses an alert only for one that is recent enough.  *)
THEOREM OutagesAreAlerted == Spec => []OutageAlerted
<1>1. StoreInv => OutageAlerted
  BY DEF StoreInv, TableInv
<1>2. QED
  BY <1>1, StoreInvariant, PTL

(* The comparison of RecordResult with the previous state, read under the   *)
(* lock: the transitions of an endpoint whose results come in order are the *)
(* changes of its history.                                                  *)
THEOREM TransitionsFollowHistory == Spec => []OrderedTransitionsMatch
<1>1. StoreInv => OrderedTransitionsMatch
  BY DEF StoreInv, TableInv
<1>2. QED
  BY <1>1, StoreInvariant, PTL

-----------------------------------------------------------------------------
(* The refinement: a commit is a step of ResultLog, all else stutters.      *)
LEMMA StoreMapsStep == StoreInv /\ [Next]_vars => [Log!LNext]_tables
<1> SUFFICES ASSUME StoreInv, [Next]_vars PROVE Log!LNext \/ UNCHANGED tables
  BY DEF tables
<1>1. ASSUME NEW c \in Caller, Commit(c) PROVE Log!LNext
  <2> DEFINE r == row[c]
  <2>1. Recorded(r)
    BY <1>1, CommitRecords
  <2>2. r \in results' \ results /\ r \in [id : Nat, endpoint : Endpoint, at : Nat, state : State]
    BY <2>1, StoreAssumption DEF Recorded, Row
  <2>3. Log!Record(r)
    BY <2>1 DEF Recorded, Log!Record, Log!LatestState, LatestState, Log!Before, Before,
                Log!TransitionRows, TransitionRows, Log!AlertRows, AlertRows,
                Log!Alertable, Alertable, Log!Duplicate, Duplicate
  <2> HIDE DEF r
  <2>4. QED
    BY <2>2, <2>3 DEF Log!LNext
<1>2. ASSUME NEW c \in Caller, Call(c) \/ Statement(c) \/ Fail(c), ~Commit(c)
      PROVE  UNCHANGED tables
  BY <1>2 DEF Call, Statement, Begin, Lock, ReadPrevious, InsertResult, InsertTransition,
              InsertAlert, Fail
<1>3. CASE Tick \/ Finished \/ UNCHANGED vars
  BY <1>3 DEF Tick, Finished, vars, tables
<1>4. QED
  BY <1>1, <1>2, <1>3 DEF Next

(* RecordResult, whatever runs and fails at the same time, appears to the   *)
(* readers of the tables as the one step of ResultLog.                      *)
THEOREM StoreRefinesLog == Spec => ImplementsResultLog
<1>1. Init => Log!LInit
  BY DEF Init, Log!LInit
<1>2. QED
  BY <1>1, StoreMapsStep, StoreInvariant, PTL DEF Spec, ImplementsResultLog, Log!LSpec, tables
=============================================================================
