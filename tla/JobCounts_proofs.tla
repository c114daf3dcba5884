-------------------------- MODULE JobCounts_proofs --------------------------
(***************************************************************************)
(* The tables keep their types and the trigger counters are exact, for     *)
(* every finite set of keys and any set of root ids.                       *)
(***************************************************************************)
EXTENDS JobCounts, FiniteSetTheorems, TLAPS

(***************************************************************************)
(* Types                                                                   *)
(***************************************************************************)
\* A timestamp column that ages stays one: it saturates at Past.
LEMMA ElapseType == ASSUME NEW t \in Remaining PROVE Elapse(t) \in Remaining
  BY DEF Remaining, Elapse, Past

\* A row that ages stays a row.
LEMMA AgedType == ASSUME NEW r \in Row PROVE Aged(r) \in Row
<1>1. r.ttl \in Remaining /\ r.leased_until \in Remaining /\ r.run_at \in Int
  BY DEF Row
<1>2. Elapse(r.ttl) \in Remaining /\ Elapse(r.leased_until) \in Remaining
  BY <1>1, ElapseType
<1>3. (IF r.run_at > 0 THEN r.run_at - 1 ELSE 0) \in Int
  BY <1>1
<1> QED
  BY <1>2, <1>3 DEF Aged, Row

\* retry_count stays a count.
LEMMA RetriedType == ASSUME NEW n \in Nat \cup {Null} PROVE Retried(n) \in Nat \cup {Null}
  BY JobTableAssumption DEF Retried, JobTableAssumption

\* Enqueue's take-over of a done row leaves a row of the schema.
LEMMA ReusedType ==
  ASSUME NEW r \in Row, NEW meta \in JobMeta PROVE Reused(r, meta) \in Row
<1>1. meta.status \in Statuses /\ meta.root \in Root /\ meta.ttl \in Remaining
  BY DEF JobMeta, Statuses
<1>2. ASSUME NEW st \in Statuses, NEW root \in Root, NEW t \in Remaining, NEW u \in Int
      PROVE  [r EXCEPT !.status = st, !.root = root, !.ttl = t, !.run_at = u] \in Row
  <2>1. [r EXCEPT !.status = st, !.root = root] \in Row
    BY DEF Row
  <2>2. ASSUME NEW q \in Row PROVE [q EXCEPT !.ttl = t, !.run_at = u] \in Row
    BY DEF Row
  <2> QED
    BY <2>1, <2>2
<1>3. [r EXCEPT !.status = meta.status, !.root = meta.root, !.ttl = meta.ttl, !.run_at = 0] \in Row
  <2>1. 0 \in Int
    OBVIOUS
  <2> QED
    BY <1>1, <1>2, <2>1, Zenon
<1> QED
  BY <1>3 DEF Reused

\* Enqueue inserts a row of the schema.
LEMMA NewRowType == ASSUME NEW meta \in JobMeta PROVE NewRow(meta) \in Row
  BY DEF NewRow, Row, JobMeta, Statuses, Remaining

\* Dequeue leases into the schema.
LEMMA LeasedType == ASSUME NEW r \in Row PROVE Leased(r) \in Row
<1>1. LeaseDuration \in Remaining
  BY JobTableAssumption DEF JobTableAssumption, Remaining
<1> QED
  BY <1>1 DEF Leased, Row, Statuses

\* requeue keeps the row in the schema, whatever the retry count was.
LEMMA RequeuedType ==
  ASSUME NEW r \in Row, NEW delay \in Int PROVE Requeued(r, delay) \in Row
<1>1. r.retry_count \in Nat \cup {Null}
  BY DEF Row
<1>2. Retried(r.retry_count) \in Nat \cup {Null}
  BY <1>1, RetriedType
<1> QED
  BY <1>2 DEF Requeued, Row, Statuses, Remaining

\* A heartbeat changes only leased_until, to a timestamp.
LEMMA RenewedType == ASSUME NEW r \in Row PROVE Renewed(r) \in Row
<1>1. LeaseDuration \in Remaining
  BY JobTableAssumption DEF JobTableAssumption, Remaining
<1> QED
  BY <1>1 DEF Renewed, Row

\* The reaper's first statement leaves a row of the schema.
LEMMA FailedType ==
  ASSUME NEW r \in Row, NEW reason \in Value PROVE Failed(r, reason) \in Row
  BY DEF Failed, Row, Statuses

\* The reaper's second statement leaves a row of the schema.
LEMMA ReapedType == ASSUME NEW r \in Row PROVE Reaped(r) \in Row
<1>1. r.retry_count \in Nat \cup {Null}
  BY DEF Row
<1>2. Retried(r.retry_count) \in Nat \cup {Null}
  BY <1>1, RetriedType
<1> QED
  BY <1>2 DEF Reaped, Row, Statuses, Remaining

\* What marshalOutputSet returns can be stored in either table.
LEMMA ResultType ==
  ASSUME NEW out \in Results
  PROVE  /\ StatusOf(out) \in {"done", "error"}
         /\ [status |-> StatusOf(out), output |-> out.output, error |-> out.error]
               \in ResultRow
         /\ out.output \in Value \cup {Null}
         /\ out.error \in Value \cup {Null}
  BY DEF Results, StatusOf, ResultRow

\* doneAsync leaves a row of the schema, with and without a ttl.
LEMMA ClosedType ==
  ASSUME NEW r \in Row, NEW t \in Remaining, NEW out \in Results
  PROVE  Closed(r, t, out) \in Row
<1>1. ASSUME NEW st \in Statuses, NEW o \in Value \cup {Null}, NEW e \in Value \cup {Null}
      PROVE  /\ [r EXCEPT !.status = st, !.ttl = t, !.output = o, !.error = e] \in Row
             /\ [r EXCEPT !.status = st, !.ttl = Null] \in Row
  <2>1. [r EXCEPT !.status = st, !.ttl = t] \in Row
    BY DEF Row
  <2>2. ASSUME NEW q \in Row PROVE [q EXCEPT !.output = o, !.error = e] \in Row
    BY DEF Row
  <2>3. [r EXCEPT !.status = st, !.ttl = Null] \in Row
    BY DEF Row, Remaining
  <2> QED
    BY <2>1, <2>2, <2>3
<1>2. StatusOf(out) \in Statuses
  BY ResultType DEF Statuses
<1> QED
  BY <1>1, <1>2, ResultType DEF Closed

\* No statement, fired by any client at any time, leaves the schema's types.
LEMMA StatementType ==
  ASSUME TableTypeOK, Statement \/ Tick
  PROVE  TableTypeOK'
<1>0. /\ executions \in [Key -> Row \cup {Null}]
      /\ executions_results \in [Key -> ResultRow \cup {Null}]
      /\ created_before \subseteq Key \X Key
      /\ \A k \in Key : executions[k] # Null => executions[k] \in Row
      /\ \A k \in Key : CacheExpire[k] \in Remaining
  BY JobCountsAssumption DEF TableTypeOK, Remaining
<1> USE <1>0
<1>1. CASE EnqueueAny
  <2>1. PICK k \in Key, st \in {"queued", "leased"}, r \in Root :
           Enqueue(k, [status |-> st, root |-> r, ttl |-> CacheExpire[k]])
    BY <1>1 DEF EnqueueAny
  <2> DEFINE meta == [status |-> st, root |-> r, ttl |-> CacheExpire[k]]
  <2>2. meta \in JobMeta
    BY DEF JobMeta
  <2> HIDE DEF meta
  <2>3. /\ NewRow(meta) \in Row
        /\ executions[k] # Null => Reused(executions[k], meta) \in Row
    BY <2>2, NewRowType, ReusedType
  <2>4. Enqueue(k, meta)
    BY <2>1 DEF meta
  <2> QED
    BY <2>3, <2>4 DEF Enqueue, TableTypeOK, Rows
<1>2. CASE DequeueAny
  <2>1. PICK ks \in SUBSET Key : \E k \in ks : Dequeue(k, ks)
    BY <1>2 DEF DequeueAny
  <2>2. PICK k \in ks : Dequeue(k, ks)
    BY <2>1
  <2>3. k \in Key /\ executions[k] # Null
    BY <2>2 DEF Dequeue, IsNext, Runnable, HasStatus
  <2> QED
    BY <2>2, <2>3, LeasedType DEF Dequeue, TableTypeOK
<1>3. CASE HeartBeatAny
  BY <1>3, RenewedType DEF HeartBeatAny, LeaseUpdate, TableTypeOK
<1>5. CASE SuccessAny
  BY <1>5, ClosedType, ResultType DEF SuccessAny, DoneAsync, StoreResult, TableTypeOK
<1>6. CASE DoneAny
  BY <1>6, ResultType DEF DoneAny, Done, StoreResult, TableTypeOK
<1>7. CASE FreeAny
  BY <1>7 DEF FreeAny, Free, Without, TableTypeOK
<1>8. CASE RequeueAny
  <2>1. PICK k \in Key : Requeue(k, RequeueInterval)
    BY <1>8 DEF RequeueAny
  <2>2. executions[k] # Null => Requeued(executions[k], RequeueInterval) \in Row
    BY RequeuedType, JobCountsAssumption DEF JobCountsAssumption
  <2> QED
    BY <2>1, <2>2 DEF Requeue, TableTypeOK
<1>9. CASE ReapErrorAny
  BY <1>9, FailedType, JobCountsAssumption
  DEF JobCountsAssumption, ReapErrorAny, ReapError, LeaseExpired, HasStatus, TableTypeOK
<1>10. CASE ReapRequeue
  BY <1>10, ReapedType DEF ReapRequeue, LeaseExpired, HasStatus, TableTypeOK
<1>11. CASE ReapDelete
  BY <1>11 DEF ReapDelete, Without, TableTypeOK
<1>12. CASE Tick
  BY <1>12, AgedType DEF Tick, AgeRows, TableTypeOK
<1> QED
  BY <1>1, <1>2, <1>3, <1>5, <1>6, <1>7, <1>8, <1>9, <1>10, <1>11, <1>12 DEF Statement
(***************************************************************************)
(* Counters                                                                *)
(***************************************************************************)
\* The rows counted under rootid g and status s.
CountedRows(g, s) == {k \in Rows : Counted(executions[k], g, s)}

\* Every step changes a set of counted rows exactly by what the triggers see
\* leaving and entering it: the WHEN clause of the update trigger skips only
\* rows that stay in the same sets.
LEMMA TriggersSeeAll ==
  ASSUME NEW g \in Group, NEW s \in Statuses
  PROVE  /\ CountedRows(g, s)' = (CountedRows(g, s) \ Leaving(g, s)) \cup Entering(g, s)
         /\ Leaving(g, s) \subseteq CountedRows(g, s)
         /\ Entering(g, s) \cap (CountedRows(g, s) \ Leaving(g, s)) = {}
  BY DEF CountedRows, Rows, Leaving, Entering, Inserted, Deleted, Moved, Retagged, Counted

\* Adding to a finite set and removing from it changes its size accordingly.
LEMMA SizeOfChange ==
  ASSUME NEW S, IsFiniteSet(S), NEW L, L \subseteq S, NEW E, IsFiniteSet(E),
         E \cap (S \ L) = {}
  PROVE  /\ Cardinality((S \ L) \cup E) = Cardinality(S) + Cardinality(E) - Cardinality(L)
         /\ Cardinality(S) \in Int /\ Cardinality(E) \in Int /\ Cardinality(L) \in Int
<1>1. IsFiniteSet(L) /\ IsFiniteSet(S \ L)
  BY FS_Subset, FS_Difference
<1>2. S \cap L = L
  OBVIOUS
<1>3. Cardinality(S \ L) = Cardinality(S) - Cardinality(L)
  BY <1>2, FS_Difference
<1>4. Cardinality((S \ L) \cap E) = 0
  <2>1. (S \ L) \cap E = {}
    OBVIOUS
  <2> QED
    BY <2>1, FS_EmptySet
<1>5. Cardinality((S \ L) \cup E)
        = Cardinality(S \ L) + Cardinality(E) - Cardinality((S \ L) \cap E)
  BY <1>1, FS_Union
<1>6. Cardinality(S) \in Nat /\ Cardinality(E) \in Nat /\ Cardinality(L) \in Nat
  BY <1>1, FS_CardinalityType
<1> QED
  BY <1>3, <1>4, <1>5, <1>6

\* One step of the triggers keeps the counters exact.
LEMMA TriggersStep ==
  ASSUME CountsConsistent, Triggers, counts \in [Group -> [Statuses -> Int]]
  PROVE  CountsConsistent' /\ (counts \in [Group -> [Statuses -> Int]])'
<1>1. ASSUME NEW g \in Group, NEW s \in Statuses
      PROVE  /\ counts'[g][s] = Cardinality(CountedRows(g, s)')
             /\ counts'[g][s] \in Int
  <2>1. /\ IsFiniteSet(CountedRows(g, s))
        /\ IsFiniteSet(Entering(g, s))
    <3>1. /\ CountedRows(g, s) \subseteq Key
          /\ Entering(g, s) \subseteq Key
      BY DEF CountedRows, Rows, Entering, Inserted, Moved
    <3> QED
      BY <3>1, FS_Subset, JobCountsAssumption DEF JobCountsAssumption
  <2>2. counts[g][s] = Cardinality(CountedRows(g, s))
    BY DEF CountsConsistent, CountedRows
  <2>3. counts'[g][s] = counts[g][s] + Cardinality(Entering(g, s)) - Cardinality(Leaving(g, s))
    BY DEF Triggers
  <2>4. /\ CountedRows(g, s)' = (CountedRows(g, s) \ Leaving(g, s)) \cup Entering(g, s)
        /\ Leaving(g, s) \subseteq CountedRows(g, s)
        /\ Entering(g, s) \cap (CountedRows(g, s) \ Leaving(g, s)) = {}
    BY TriggersSeeAll
  <2>5. /\ Cardinality((CountedRows(g, s) \ Leaving(g, s)) \cup Entering(g, s))
             = Cardinality(CountedRows(g, s)) + Cardinality(Entering(g, s))
                 - Cardinality(Leaving(g, s))
        /\ Cardinality(CountedRows(g, s)) \in Int
        /\ Cardinality(Entering(g, s)) \in Int
        /\ Cardinality(Leaving(g, s)) \in Int
    BY <2>1, <2>4, SizeOfChange
  <2> QED
    BY <2>2, <2>3, <2>4, <2>5
<1>2. counts' = [g \in Group |-> [s \in Statuses |-> counts'[g][s]]]
  BY DEF Triggers
<1> QED
  BY <1>1, <1>2 DEF CountsConsistent, CountedRows

(***************************************************************************)
(* Theorems                                                                *)
(***************************************************************************)
Inv == TypeOK /\ CountsConsistent

\* Types and counters hold of the empty tables.
LEMMA InitInv == Init => Inv
<1> SUFFICES ASSUME Init PROVE Inv
  OBVIOUS
<1>1. TypeOK
  BY DEF Init, TableInit, TypeOK, TableTypeOK
<1>2. Rows = {}
  BY DEF Init, TableInit, Rows
<1>3. CountsConsistent
  <2>1. ASSUME NEW g \in Group, NEW s \in Statuses
        PROVE  {k \in Rows : Counted(executions[k], g, s)} = {}
    BY <1>2
  <2> QED
    BY <2>1, FS_EmptySet DEF CountsConsistent, Init
<1> QED
  BY <1>1, <1>3 DEF Inv

\* Every step of any client preserves them together.
LEMMA NextInv == Inv /\ [Next]_vars => Inv'
<1> SUFFICES ASSUME Inv, [Next]_vars PROVE Inv'
  OBVIOUS
<1>1. CASE Next
  <2>1. TableTypeOK'
    BY <1>1, StatementType DEF Inv, TypeOK, Next
  <2>2. CountsConsistent' /\ (counts \in [Group -> [Statuses -> Int]])'
    BY <1>1, TriggersStep DEF Inv, TypeOK, Next
  <2> QED
    BY <2>1, <2>2 DEF Inv, TypeOK
<1>2. CASE UNCHANGED vars
  BY <1>2 DEF vars, Inv, TypeOK, TableTypeOK, CountsConsistent, Rows, Counted
<1> QED
  BY <1>1, <1>2

\* The columns of both tables keep their types under all statements.
THEOREM TypeCorrect == Spec => []TypeOK
<1>1. Inv => TypeOK
  BY DEF Inv
<1> QED
  BY <1>1, InitInv, NextInv, PTL DEF Spec

\* Whatever statements the clients of the table run, in whatever order, the
\* counters kept by the triggers of executions are exact.
THEOREM TriggersCountExactly == Spec => []CountsConsistent
<1>1. Inv => CountsConsistent
  BY DEF Inv
<1> QED
  BY <1>1, InitInv, NextInv, PTL DEF Spec
=============================================================================
