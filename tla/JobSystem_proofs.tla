-------------------------- MODULE JobSystem_proofs --------------------------
(***************************************************************************)
(* Proofs about JobSystem, for any nodes, callers, workers, keys, leases   *)
(* and handlers.  Several properties hold only for some options of the     *)
(* handler; the theorems name them.                                        *)
(***************************************************************************)
EXTENDS JobSystem, FiniteSetTheorems, TLAPS

(***************************************************************************)
(* Rows: what each statement makes of a row                                *)
(***************************************************************************)
LEMMA ElapseType == ASSUME NEW t \in Remaining PROVE Elapse(t) \in Remaining
  BY DEF Remaining, Elapse, Past

\* A row that ages keeps everything but its times.
LEMMA AgedRow ==
  ASSUME NEW r \in Row
  PROVE  /\ Aged(r) \in Row
         /\ Aged(r).status = r.status /\ Aged(r).output = r.output
         /\ Aged(r).retry_count = r.retry_count
         /\ Aged(r).ttl = Elapse(r.ttl) /\ Aged(r).leased_until = Elapse(r.leased_until)
<1>1. r.ttl \in Remaining /\ r.leased_until \in Remaining /\ r.run_at \in Int
  BY DEF Row
<1>2. Elapse(r.ttl) \in Remaining /\ Elapse(r.leased_until) \in Remaining
  BY <1>1, ElapseType
<1>3. (IF r.run_at > 0 THEN r.run_at - 1 ELSE 0) \in Int
  BY <1>1
<1> QED BY <1>2, <1>3 DEF Aged, Row

LEMMA NewRowRow ==
  ASSUME NEW meta \in JobMeta
  PROVE  /\ NewRow(meta) \in Row
         /\ NewRow(meta).status = meta.status /\ NewRow(meta).leased_until = Null
         /\ NewRow(meta).retry_count = Null
  BY DEF NewRow, Row, JobMeta, Statuses, Remaining

LEMMA ReusedRow ==
  ASSUME NEW r \in Row, NEW meta \in JobMeta
  PROVE  /\ Reused(r, meta) \in Row
         /\ Reused(r, meta).status = meta.status
         /\ Reused(r, meta).leased_until = r.leased_until
         /\ Reused(r, meta).retry_count = r.retry_count
<1>1. meta.status \in Statuses /\ meta.root \in Root /\ meta.ttl \in Remaining
  BY DEF JobMeta, Statuses
<1>2. [r EXCEPT !.status = meta.status, !.root = meta.root] \in Row
  BY <1>1 DEF Row
<1>3. ASSUME NEW q \in Row, NEW t \in Remaining, NEW u \in Int
      PROVE  [q EXCEPT !.ttl = t, !.run_at = u] \in Row
  BY DEF Row
<1>4. ASSUME NEW q \in Row PROVE [q EXCEPT !.ttl = meta.ttl, !.run_at = 0] \in Row
  <2>1. 0 \in Int
    OBVIOUS
  <2> QED BY <1>1, <1>3, <2>1, Zenon
<1>5. Reused(r, meta) \in Row
  BY <1>2, <1>4 DEF Reused
<1> QED BY <1>5 DEF Reused, Row

LEMMA LeasedRow ==
  ASSUME NEW r \in Row
  PROVE  /\ Leased(r) \in Row /\ Leased(r).status = "leased"
         /\ Leased(r).leased_until = LeaseDuration /\ Leased(r).retry_count = r.retry_count
         /\ Leased(r).ttl = r.ttl
<1>1. LeaseDuration \in Remaining
  BY JobTableAssumption DEF Remaining
<1> QED BY <1>1 DEF Leased, Row, Statuses

LEMMA RenewedRow ==
  ASSUME NEW r \in Row
  PROVE  /\ Renewed(r) \in Row /\ Renewed(r).status = r.status /\ Renewed(r).output = r.output
         /\ Renewed(r).leased_until = LeaseDuration /\ Renewed(r).retry_count = r.retry_count
         /\ Renewed(r).ttl = r.ttl
<1>1. LeaseDuration \in Remaining
  BY JobTableAssumption DEF Remaining
<1> QED BY <1>1 DEF Renewed, Row

LEMMA RetriedType == ASSUME NEW n \in Nat \cup {Null} PROVE Retried(n) \in Nat
  BY JobTableAssumption DEF Retried

LEMMA RequeuedRow ==
  ASSUME NEW r \in Row, NEW delay \in Int
  PROVE  /\ Requeued(r, delay) \in Row /\ Requeued(r, delay).status = "queued"
         /\ Requeued(r, delay).ttl = r.ttl
<1>1. r.retry_count \in Nat \cup {Null}
  BY DEF Row
<1>2. Retried(r.retry_count) \in Nat \cup {Null}
  BY <1>1, RetriedType
<1> QED BY <1>2 DEF Requeued, Row, Statuses, Remaining

LEMMA ReapedRow ==
  ASSUME NEW r \in Row
  PROVE  /\ Reaped(r) \in Row /\ Reaped(r).status = "queued"
         /\ Reaped(r).retry_count = Retried(r.retry_count) /\ Reaped(r).ttl = r.ttl
<1>1. r.retry_count \in Nat \cup {Null}
  BY DEF Row
<1>2. Retried(r.retry_count) \in Nat \cup {Null}
  BY <1>1, RetriedType
<1> QED BY <1>2 DEF Reaped, Row, Statuses, Remaining

LEMMA FailedRow ==
  ASSUME NEW r \in Row, NEW reason \in Value
  PROVE  Failed(r, reason) \in Row /\ Failed(r, reason).status = "error"
         /\ Failed(r, reason).retry_count = r.retry_count /\ Failed(r, reason).ttl = r.ttl
  BY DEF Failed, Row, Statuses

\* What marshalOutputSet returns fits both tables.
LEMMA StoredOfType ==
  ASSUME NEW out
  PROVE  /\ StoredOf(out) \in Stored
         /\ StatusOf(StoredOf(out)) \in {"done", "error"}
         /\ [status |-> StatusOf(StoredOf(out)), output |-> StoredOf(out).output,
             error |-> StoredOf(out).error] \in ResultRow
<1>1. Output \in Value /\ Failure \in Value
  BY JobSystemAssumption
<1>2. StoredOf(out) \in Stored
  BY <1>1 DEF StoredOf, Stored
<1> QED BY <1>2 DEF StatusOf, Stored, ResultRow

LEMMA ClosedRow ==
  ASSUME NEW r \in Row, NEW t \in Remaining, NEW s \in Stored, StatusOf(s) \in {"done", "error"}
  PROVE  /\ Closed(r, t, s) \in Row
         /\ Closed(r, t, s).status \in {"done", "error"} /\ Closed(r, t, s).ttl = t
         /\ Closed(r, t, s).retry_count = r.retry_count
<1>1. StatusOf(s) \in Statuses /\ s.output \in Value \cup {Null} /\ s.error \in Value \cup {Null}
  BY DEF Stored, Statuses
<1>2. [r EXCEPT !.status = StatusOf(s), !.ttl = t] \in Row
  BY <1>1 DEF Row
<1>3. ASSUME NEW q \in Row PROVE [q EXCEPT !.output = s.output, !.error = s.error] \in Row
  BY <1>1 DEF Row
<1>4. Closed(r, t, s) \in Row
  BY <1>2, <1>3 DEF Closed, Remaining
<1>5. Closed(r, t, s).status = StatusOf(s) /\ Closed(r, t, s).ttl = t
      /\ Closed(r, t, s).retry_count = r.retry_count
  BY DEF Closed, Row
<1> QED BY <1>4, <1>5

(***************************************************************************)
(* Statements: what each does to the tables                                *)
(***************************************************************************)
\* The statement touches no row but that of k.
OnlyRow(k) == \A j \in Key : j # k => executions'[j] = executions[j]

\* A row that is there is a row of the schema.
LEMMA RowThere ==
  ASSUME TableTypeOK, NEW k \in Key, executions[k] # Null PROVE executions[k] \in Row
  BY DEF TableTypeOK

LEMMA EnqueueEffect ==
  ASSUME TableTypeOK, NEW k \in Key, NEW meta \in JobMeta, Enqueue(k, meta)
  PROVE  /\ TableTypeOK' /\ OnlyRow(k) /\ executions_results' = executions_results
         /\ ~Enqueuable(k) => executions' = executions
         /\ Enqueuable(k) => /\ executions'[k] # Null /\ executions'[k] \in Row
                             /\ executions'[k].status = meta.status
                             /\ executions[k] = Null => executions'[k] = NewRow(meta)
                             /\ executions[k] # Null
                                  => executions'[k].retry_count = executions[k].retry_count
<1>1. NewRow(meta) \in Row /\ NewRow(meta).status = meta.status
  BY NewRowRow
<1>2. executions[k] # Null => /\ Reused(executions[k], meta) \in Row
                              /\ Reused(executions[k], meta).status = meta.status
                              /\ Reused(executions[k], meta).retry_count = executions[k].retry_count
  BY RowThere, ReusedRow
<1>3. Null \notin Row
  BY JobTableAssumption
<1>4. CASE Enqueuable(k)
  <2>1. /\ executions' = [executions EXCEPT ![k] =
              IF executions[k] = Null THEN NewRow(meta) ELSE Reused(executions[k], meta)]
        /\ created_before' \subseteq created_before \cup (Rows \X {k})
        /\ executions_results' = executions_results
    BY <1>4 DEF Enqueue
  <2>2. TableTypeOK'
    BY <1>1, <1>2, <2>1 DEF TableTypeOK, Rows
  <2>3. executions'[k] = IF executions[k] = Null THEN NewRow(meta)
                         ELSE Reused(executions[k], meta)
    BY <2>1 DEF TableTypeOK
  <2>4. OnlyRow(k)
    BY <2>1 DEF TableTypeOK, OnlyRow
  <2> QED BY <1>1, <1>2, <1>3, <1>4, <2>1, <2>2, <2>3, <2>4
<1>5. CASE ~Enqueuable(k)
  <2>1. UNCHANGED tableVars
    BY <1>5 DEF Enqueue, tableVars
  <2> QED BY <1>5, <2>1 DEF tableVars, TableTypeOK, OnlyRow
<1> QED BY <1>4, <1>5

LEMMA DequeueEffect ==
  ASSUME TableTypeOK, NEW k \in Key, Dequeue(k, Key)
  PROVE  /\ TableTypeOK' /\ OnlyRow(k) /\ executions_results' = executions_results
         /\ HasStatus(k, {"queued"}) /\ executions[k] \in Row
         /\ executions'[k] = Leased(executions[k])
<1>1. HasStatus(k, {"queued"}) /\ executions[k] \in Row
  BY RowThere DEF Dequeue, IsNext, Runnable, HasStatus
<1>2. Leased(executions[k]) \in Row
  BY <1>1, LeasedRow
<1> QED BY <1>1, <1>2 DEF Dequeue, TableTypeOK, OnlyRow

LEMMA LeaseUpdateEffect ==
  ASSUME TableTypeOK, NEW k \in Key, LeaseUpdate(k)
  PROVE  /\ TableTypeOK' /\ OnlyRow(k) /\ executions_results' = executions_results
         /\ executions'[k] = IF executions[k] = Null THEN Null ELSE Renewed(executions[k])
<1>1. executions[k] # Null => Renewed(executions[k]) \in Row
  BY RowThere, RenewedRow
<1> QED BY <1>1 DEF LeaseUpdate, TableTypeOK, OnlyRow

LEMMA FreeEffect ==
  ASSUME TableTypeOK, NEW k \in Key, Free(k)
  PROVE  /\ TableTypeOK' /\ OnlyRow(k) /\ executions_results' = executions_results
         /\ executions'[k] = Null
  BY DEF Free, Without, TableTypeOK, OnlyRow

LEMMA RequeueEffect ==
  ASSUME TableTypeOK, NEW k \in Key, NEW delay \in Int, Requeue(k, delay)
  PROVE  /\ TableTypeOK' /\ OnlyRow(k) /\ executions_results' = executions_results
         /\ executions'[k] = IF executions[k] = Null THEN Null
                             ELSE Requeued(executions[k], delay)
<1>1. executions[k] # Null => Requeued(executions[k], delay) \in Row
  BY RowThere, RequeuedRow
<1> QED BY <1>1 DEF Requeue, TableTypeOK, OnlyRow

LEMMA StoreEffect ==
  ASSUME TableTypeOK, NEW k \in Key, NEW out, StoreResult(k, StoredOf(out))
  PROVE  /\ executions_results' \in [Key -> ResultRow \cup {Null}]
         /\ executions_results'[k] \in ResultRow
  BY StoredOfType DEF StoreResult, TableTypeOK

LEMMA DoneAsyncEffect ==
  ASSUME TableTypeOK, NEW k \in Key, NEW t \in Remaining, NEW out,
         DoneAsync(k, t, StoredOf(out))
  PROVE  /\ TableTypeOK' /\ OnlyRow(k)
         /\ executions'[k] = IF executions[k] = Null THEN Null
                             ELSE Closed(executions[k], t, StoredOf(out))
         /\ executions[k] # Null => Closed(executions[k], t, StoredOf(out)) \in Row
         /\ t = Null => executions_results'[k] \in ResultRow
<1>1. executions[k] # Null => Closed(executions[k], t, StoredOf(out)) \in Row
  BY RowThere, ClosedRow, StoredOfType
<1>2. /\ executions_results' \in [Key -> ResultRow \cup {Null}]
      /\ t = Null => executions_results'[k] \in ResultRow
  BY StoreEffect DEF DoneAsync, TableTypeOK
<1> QED BY <1>1, <1>2 DEF DoneAsync, TableTypeOK, OnlyRow

LEMMA DoneEffect ==
  ASSUME TableTypeOK, NEW k \in Key, NEW t \in Remaining, NEW out, Done(k, t, StoredOf(out))
  PROVE  /\ TableTypeOK' /\ executions' = executions
         /\ t = Null => executions_results'[k] \in ResultRow
  BY StoreEffect DEF Done, TableTypeOK

LEMMA ReapErrorEffect ==
  ASSUME TableTypeOK, ReapError(Failure)
  PROVE  /\ TableTypeOK' /\ executions_results' = executions_results
         /\ \A k \in Key : executions'[k] = IF LeaseExpired(k) /\ RetriesOver(k)
                                            THEN Failed(executions[k], Failure)
                                            ELSE executions[k]
<1>1. Failure \in Value
  BY JobSystemAssumption
<1>2. \A k \in Key : executions[k] # Null => Failed(executions[k], Failure) \in Row
  BY <1>1, RowThere, FailedRow
<1> QED BY <1>2 DEF ReapError, TableTypeOK, LeaseExpired, HasStatus

LEMMA ReapRequeueEffect ==
  ASSUME TableTypeOK, ReapRequeue
  PROVE  /\ TableTypeOK' /\ executions_results' = executions_results
         /\ \A k \in Key : executions'[k] = IF LeaseExpired(k) THEN Reaped(executions[k])
                                            ELSE executions[k]
<1>1. \A k \in Key : executions[k] # Null => Reaped(executions[k]) \in Row
  BY RowThere, ReapedRow
<1> QED BY <1>1 DEF ReapRequeue, TableTypeOK, LeaseExpired, HasStatus

LEMMA ReapDeleteEffect ==
  ASSUME TableTypeOK, ReapDelete
  PROVE  /\ TableTypeOK' /\ executions_results' = executions_results
         /\ \A k \in Key : executions'[k] = IF TtlOver(k) THEN Null ELSE executions[k]
  BY DEF ReapDelete, TableTypeOK, Without

LEMMA AgeRowsEffect ==
  ASSUME TableTypeOK, AgeRows, UNCHANGED <<executions_results, created_before>>
  PROVE  /\ TableTypeOK'
         /\ \A k \in Key : executions'[k] = IF executions[k] = Null THEN Null
                                            ELSE Aged(executions[k])
<1>1. \A k \in Key : executions[k] # Null => Aged(executions[k]) \in Row
  BY RowThere, AgedRow
<1> QED BY <1>1 DEF AgeRows, TableTypeOK

(***************************************************************************)
(* Types                                                                   *)
(***************************************************************************)
CallerPc == {"idle", "enqueue", "gowait", "recall", "lock", "hitagain", "wait", "run",
             "finish", "requeue"}
CallerState == [pc : CallerPc, key : Key \cup {Null}, via : {"http", "call", "go", Null},
                out : Outcomes \cup {Null}]
Replies == {"none", "output", "error", "duplicated", "accepted", "pending", "lost"}
WorkerState == [pc : {"idle", "run", "finish"}, key : Key \cup {Null},
                out : Outcomes \cup {Null}]
Task == [key : Key, age : 0..Handoff]
HeartBeats == [node : Node, key : Key, due : 0..HalfLease, owner : Caller \cup Worker \cup {Null}]
ReaperState == [due : 0..LeaseDuration, next : {"error", "requeue", "delete"}]

\* The types of everything but the tables.
ProcessTypeOK ==
    /\ caller \in [Caller -> CallerState]
    /\ reply \in [Caller -> Replies]
    /\ worker \in [Worker -> WorkerState]
    /\ dequeued \in [Node -> Task \cup {Null}]
    /\ heartbeats \subseteq HeartBeats
    /\ reaper \in [Node -> ReaperState]
    /\ crashes \in 0..MaxCrash
    /\ runs \in [Key -> 0..RunCap]

LEMMA TypeOKParts ==
  /\ TypeOK <=> handler \in Options /\ TableTypeOK /\ ProcessTypeOK
  /\ TypeOK' <=> handler' \in Options /\ TableTypeOK' /\ ProcessTypeOK'
  BY DEF TypeOK, ProcessTypeOK, CallerState, CallerPc, Replies, WorkerState, Task,
         HeartBeats, ReaperState

\* A goroutine that is in call_job or in a handler has a key.
Keyed ==
    /\ \A c \in Caller : caller[c].pc # "idle" => caller[c].key \in Key
    /\ \A w \in Worker : worker[w].pc # "idle" => worker[w].key \in Key

TypeInv == TypeOK /\ Keyed

LEMMA Constants ==
  /\ LeaseDuration \in Nat /\ LeaseDuration >= 2
  /\ HalfLease \in Nat /\ 1 <= HalfLease /\ HalfLease <= LeaseDuration
  /\ Handoff \in Nat /\ RequeueInterval \in Nat /\ MaxCrash \in Nat /\ RunCap \in Nat
  /\ MaxRetry \in Nat
  /\ Root = Key
  /\ \A a \in Caller \cup Worker : NodeOf[a] \in Node
  /\ Null \notin Task
<1>1. Handoff \in Nat => Task \subseteq [key : Key, age : Nat]
  BY DEF Task
<1> QED BY <1>1, JobTableAssumption, JobSystemAssumption DEF HalfLease

LEMMA HandlerType ==
  ASSUME handler \in Options
  PROVE  /\ handler.mode \in Modes /\ handler.expire \in Nat \cup {Null}
         /\ handler.via \subseteq {"http", "call", "go"} /\ handler.input \subseteq Key
         /\ handler.outcome \subseteq Outcomes
         /\ CacheExpire \in Remaining
  BY JobSystemAssumption DEF Option, CacheExpire, Remaining

LEMMA MetaType ==
  ASSUME handler \in Options, NEW k \in Key, NEW st \in {"queued", "leased"}
  PROVE  MetaOf(k, st) \in JobMeta /\ MetaOf(k, st).status = st /\ MetaOf(k, st).ttl = CacheExpire
  BY HandlerType, Constants DEF MetaOf, JobMeta

LEMMA IdleTypes == IdleCaller \in CallerState /\ IdleWorker \in WorkerState
  BY DEF IdleCaller, IdleWorker, CallerState, CallerPc, WorkerState

\* A goroutine of call_job that moves on changes its own state alone.
LEMMA GotoEffect ==
  ASSUME caller \in [Caller -> CallerState], NEW c \in Caller, NEW pc \in CallerPc, Goto(c, pc)
  PROVE  /\ caller' \in [Caller -> CallerState]
         /\ caller'[c] = [caller[c] EXCEPT !.pc = pc]
         /\ caller'[c].pc = pc /\ caller'[c].key = caller[c].key
         /\ \A d \in Caller : d # c => caller'[d] = caller[d]
  BY DEF Goto, CallerState

LEMMA ReturnEffect ==
  ASSUME caller \in [Caller -> CallerState], reply \in [Caller -> Replies],
         NEW c \in Caller, NEW r \in Replies, Return(c, r)
  PROVE  /\ caller' \in [Caller -> CallerState] /\ reply' \in [Caller -> Replies]
         /\ caller'[c] = IdleCaller /\ caller'[c].pc = "idle"
         /\ \A d \in Caller : d # c => caller'[d] = caller[d]
  BY IdleTypes DEF Return, IdleCaller

LEMMA CountType ==
  ASSUME runs \in [Key -> 0..RunCap], NEW k \in Key, Count(k)
  PROVE  runs' \in [Key -> 0..RunCap]
  BY Constants DEF Count

LEMMA BeatType ==
  ASSUME NEW a \in Caller \cup Worker, NEW k \in Key
  PROVE  /\ Beat(a, k) \in HeartBeats
         /\ Beat(a, k).node = NodeOf[a] /\ Beat(a, k).key = k
         /\ Beat(a, k).due = HalfLease /\ Beat(a, k).owner = a
  BY Constants DEF Beat, HeartBeats

LEMMA HitReplyType == ASSUME NEW k PROVE HitReply(k) \in Replies
  BY DEF HitReply, Replies

\* The caller, if it changes state, is c alone and gets a key with it.
OnlyCaller(c) ==
    /\ \A d \in Caller : d # c => caller'[d] = caller[d]
    /\ caller'[c].pc # "idle" => caller'[c].key \in Key

LEMMA EnterType ==
  ASSUME TypeInv, NEW c \in Caller, NEW k \in Key, NEW via \in {"http", "call", "go"},
         Enter(c, k, via)
  PROVE  TypeInv'
<1> USE DEF TypeInv
<1>0. handler \in Options /\ TableTypeOK /\ ProcessTypeOK
  BY TypeOKParts
<1>1. UNCHANGED <<tableVars, worker, dequeued, heartbeats, reaper, crashes, handler>>
  BY DEF Enter
<1>2. /\ caller' \in [Caller -> CallerState] /\ reply' \in [Caller -> Replies]
      /\ runs' \in [Key -> 0..RunCap] /\ OnlyCaller(c)
  <2>1. CASE Cache /\ Hit(k) = "hit"
    <3>1. Return(c, HitReply(k)) /\ UNCHANGED runs
      BY <2>1 DEF Enter
    <3> QED BY <1>0, <3>1, HitReplyType, ReturnEffect DEF ProcessTypeOK, OnlyCaller
  <2>2. CASE ~(Cache /\ Hit(k) = "hit")
    <3> DEFINE new == [pc |-> AfterHit(via), key |-> k, via |-> via, out |-> Null]
    <3>1. /\ caller' = [caller EXCEPT ![c] = new]
          /\ reply' = [reply EXCEPT ![c] = NoReply]
          /\ IF AfterHit(via) = "run" THEN Count(k) ELSE UNCHANGED runs
      BY <2>2 DEF Enter
    <3>2. new \in CallerState /\ new.key = k
      BY DEF AfterHit, CallerState, CallerPc
    <3> HIDE DEF new
    <3>3. runs' \in [Key -> 0..RunCap]
      BY <1>0, <3>1, CountType DEF ProcessTypeOK
    <3> QED BY <1>0, <3>1, <3>2, <3>3 DEF ProcessTypeOK, OnlyCaller, NoReply, Replies
  <2> QED BY <2>1, <2>2
<1>3. handler' \in Options /\ TableTypeOK' /\ ProcessTypeOK'
  BY <1>0, <1>1, <1>2 DEF tableVars, TableTypeOK, ProcessTypeOK
<1>4. Keyed'
  BY <1>1, <1>2 DEF Keyed, OnlyCaller
<1> QED BY <1>3, <1>4, TypeOKParts

LEMMA CallerStepType ==
  ASSUME TypeInv, NEW c \in Caller, CallerStep(c)
  PROVE  TypeInv'
<1> DEFINE k == caller[c].key
<1> USE DEF TypeInv
<1>0. handler \in Options /\ TableTypeOK /\ ProcessTypeOK
  BY TypeOKParts
<1>1. /\ caller \in [Caller -> CallerState] /\ reply \in [Caller -> Replies]
      /\ heartbeats \subseteq HeartBeats /\ runs \in [Key -> 0..RunCap]
  BY <1>0 DEF ProcessTypeOK
<1>2. caller[c].pc # "idle" => k \in Key
  BY DEF Keyed
<1>a. ASSUME \/ Goto(c, "gowait") /\ UNCHANGED reply
             \/ Goto(c, "recall") /\ UNCHANGED reply
             \/ Goto(c, "run") /\ UNCHANGED reply
             \/ Goto(c, "hitagain") /\ UNCHANGED reply
             \/ Goto(c, "wait") /\ UNCHANGED reply
             \/ Goto(c, "requeue") /\ UNCHANGED reply
             \/ \E r \in Replies : Return(c, r),
             k \in Key
      PROVE  /\ caller' \in [Caller -> CallerState] /\ reply' \in [Caller -> Replies]
             /\ OnlyCaller(c)
  BY <1>1, <1>a, GotoEffect, ReturnEffect DEF OnlyCaller, CallerPc
<1>b. Cancel(c) \subseteq HeartBeats
  BY <1>1 DEF Cancel
<1>c. ASSUME TableTypeOK', caller' \in [Caller -> CallerState], reply' \in [Caller -> Replies],
             OnlyCaller(c), heartbeats' \subseteq HeartBeats, runs' \in [Key -> 0..RunCap],
             UNCHANGED <<worker, dequeued, reaper, crashes, handler>>
      PROVE  TypeInv'
  <2>1. handler' \in Options /\ TableTypeOK' /\ ProcessTypeOK'
    BY <1>0, <1>c DEF ProcessTypeOK
  <2>2. Keyed'
    BY <1>c DEF Keyed, OnlyCaller
  <2> QED BY <2>1, <2>2, TypeOKParts
<1>d. ASSUME UNCHANGED tableVars PROVE TableTypeOK'
  BY <1>0, <1>d DEF tableVars, TableTypeOK
<1>3. CASE EnqueueJob(c)
  <2>1. k \in Key /\ Enqueue(k, MetaOf(k, "queued"))
    BY <1>2, <1>3 DEF EnqueueJob
  <2>2. TableTypeOK'
    BY <1>0, <2>1, MetaType, EnqueueEffect
  <2>3. /\ Goto(c, "gowait") /\ UNCHANGED reply
        \/ \E r \in Replies : Return(c, r)
    BY <1>3 DEF EnqueueJob, Replies
  <2> QED BY <1>1, <1>3, <1>a, <1>c, <2>1, <2>2, <2>3 DEF EnqueueJob
<1>4. CASE GoWait(c)
  BY <1>1, <1>2, <1>4, <1>a, <1>c, <1>d DEF GoWait
<1>5. CASE Recall(c)
  BY <1>2, <1>5, EnterType DEF Recall
<1>6. CASE Lock(c)
  <2>1. k \in Key /\ Enqueue(k, MetaOf(k, "leased"))
    BY <1>2, <1>6 DEF Lock
  <2>2. TableTypeOK'
    BY <1>0, <2>1, MetaType, EnqueueEffect
  <2>3. \/ Goto(c, "run") /\ UNCHANGED reply
        \/ Goto(c, "hitagain") /\ UNCHANGED reply
        \/ \E r \in Replies : Return(c, r)
    BY <1>6 DEF Lock, Replies
  <2>4. heartbeats' \subseteq HeartBeats
    BY <1>1, <1>6, <2>1, BeatType DEF Lock
  <2>5. runs' \in [Key -> 0..RunCap]
    BY <1>1, <1>6, <2>1, CountType DEF Lock
  <2> QED BY <1>6, <1>a, <1>c, <2>1, <2>2, <2>3, <2>4, <2>5 DEF Lock
<1>7. CASE HitAgain(c)
  <2>1. \/ Goto(c, "wait") /\ UNCHANGED reply
        \/ \E r \in Replies : Return(c, r)
    <3>1. "lost" \in Replies
      BY DEF Replies
    <3> QED BY <1>7, <3>1, HitReplyType DEF HitAgain
  <2> QED BY <1>1, <1>2, <1>7, <1>a, <1>c, <1>d, <2>1 DEF HitAgain
<1>8. CASE WaitPoll(c)
  <2>1. \E r \in Replies : Return(c, r)
    BY <1>8, HitReplyType DEF WaitPoll
  <2> QED BY <1>1, <1>2, <1>8, <1>a, <1>c, <1>d, <2>1 DEF WaitPoll
<1>9. CASE \E o \in handler.outcome : HandlerReturns(c, o)
  <2>1. PICK o \in handler.outcome : HandlerReturns(c, o)
    BY <1>9
  <2>2. o \in Outcomes
    BY <1>0, HandlerType
  <2>3. caller' = [caller EXCEPT ![c] = [caller[c] EXCEPT !.pc = "finish", !.out = o]]
    BY <1>1, <2>1 DEF HandlerReturns, CallerState
  <2>4. /\ [caller[c] EXCEPT !.pc = "finish", !.out = o] \in CallerState
        /\ [caller[c] EXCEPT !.pc = "finish", !.out = o].key = k
    BY <1>1, <2>2 DEF CallerState, CallerPc
  <2>5. caller' \in [Caller -> CallerState] /\ OnlyCaller(c)
    BY <1>1, <1>2, <2>1, <2>3, <2>4 DEF OnlyCaller, HandlerReturns
  <2> QED BY <1>1, <1>c, <1>d, <2>1, <2>5 DEF HandlerReturns
<1>10. CASE FinishCall(c)
  <2>1. k \in Key
    BY <1>2, <1>10 DEF FinishCall
  <2>2. TableTypeOK'
    BY <1>0, <1>10, <1>d, <2>1, HandlerType, DoneEffect, FreeEffect DEF FinishCall, StoreOrFree
  <2>3. /\ Goto(c, "requeue") /\ UNCHANGED reply
        \/ \E r \in Replies : Return(c, r)
    BY <1>10 DEF FinishCall, Replies
  <2>4. heartbeats' \subseteq HeartBeats
    BY <1>1, <1>10, <1>b DEF FinishCall
  <2> QED BY <1>1, <1>10, <1>a, <1>c, <2>1, <2>2, <2>3, <2>4 DEF FinishCall
<1>11. CASE RequeueCall(c)
  <2>1. k \in Key
    BY <1>2, <1>11 DEF RequeueCall
  <2>2. PICK st \in {"queued", "leased"} : Enqueue(k, MetaOf(k, st))
    BY <1>11 DEF RequeueCall
  <2>3. TableTypeOK'
    BY <1>0, <2>1, <2>2, MetaType, EnqueueEffect
  <2>4. \E r \in Replies : Return(c, r)
    BY <1>11 DEF RequeueCall, Replies
  <2> QED BY <1>1, <1>11, <1>a, <1>b, <1>c, <2>1, <2>3, <2>4 DEF RequeueCall
<1> QED BY <1>3, <1>4, <1>5, <1>6, <1>7, <1>8, <1>9, <1>10, <1>11 DEF CallerStep

LEMMA WorkerStepType ==
  ASSUME TypeInv, NEW w \in Worker, WorkerStep(w)
  PROVE  TypeInv'
<1> DEFINE k == worker[w].key
<1> USE DEF TypeInv
<1>0. handler \in Options /\ TableTypeOK /\ ProcessTypeOK
  BY TypeOKParts
<1>1. /\ worker \in [Worker -> WorkerState] /\ dequeued \in [Node -> Task \cup {Null}]
      /\ heartbeats \subseteq HeartBeats /\ runs \in [Key -> 0..RunCap]
  BY <1>0 DEF ProcessTypeOK
<1>2. worker[w].pc # "idle" => k \in Key
  BY DEF Keyed
<1>a. ASSUME NEW new \in WorkerState, new.pc # "idle" => new.key \in Key,
             worker' = [worker EXCEPT ![w] = new], TableTypeOK',
             dequeued' \in [Node -> Task \cup {Null}],
             heartbeats' \subseteq HeartBeats, runs' \in [Key -> 0..RunCap],
             UNCHANGED <<caller, reply, reaper, crashes, handler>>
      PROVE  TypeInv'
  <2>1. handler' \in Options /\ TableTypeOK' /\ ProcessTypeOK'
    BY <1>0, <1>1, <1>a DEF ProcessTypeOK
  <2>2. Keyed'
    BY <1>1, <1>a DEF Keyed
  <2> QED BY <2>1, <2>2, TypeOKParts
<1>3. CASE StartTask(w)
  <2> DEFINE n == NodeOf[w]
  <2>1. n \in Node /\ dequeued[n] \in Task /\ dequeued[n].key \in Key
    BY <1>1, <1>3, Constants DEF StartTask, Task
  <2> DEFINE new == [pc |-> "run", key |-> dequeued[n].key, out |-> Null]
  <2>2. new \in WorkerState /\ new.key \in Key
    BY <2>1 DEF WorkerState
  <2>3. worker' = [worker EXCEPT ![w] = new]
    BY <1>3 DEF StartTask
  <2>4. TableTypeOK'
    BY <1>0, <1>3 DEF StartTask, tableVars, TableTypeOK
  <2>5. heartbeats' \subseteq HeartBeats
    BY <1>1, <1>3, <2>1, BeatType DEF StartTask
  <2>6. runs' \in [Key -> 0..RunCap]
    BY <1>1, <1>3, <2>1, CountType DEF StartTask
  <2>7. dequeued' \in [Node -> Task \cup {Null}]
    BY <1>1, <1>3 DEF StartTask
  <2> HIDE DEF new
  <2> QED BY <1>3, <1>a, <2>2, <2>3, <2>4, <2>5, <2>6, <2>7 DEF StartTask
<1>4. CASE \E o \in handler.outcome : TaskReturns(w, o)
  <2>1. PICK o \in handler.outcome : TaskReturns(w, o)
    BY <1>4
  <2>2. o \in Outcomes
    BY <1>0, HandlerType
  <2> DEFINE new == [worker[w] EXCEPT !.pc = "finish", !.out = o]
  <2>3. new \in WorkerState /\ new.key \in Key
    BY <1>1, <1>2, <2>1, <2>2 DEF WorkerState, TaskReturns
  <2>4. worker' = [worker EXCEPT ![w] = new]
    BY <1>1, <2>1 DEF TaskReturns, WorkerState
  <2>5. TableTypeOK'
    BY <1>0, <2>1 DEF TaskReturns, tableVars, TableTypeOK
  <2> HIDE DEF new
  <2> QED BY <1>1, <1>a, <2>1, <2>3, <2>4, <2>5 DEF TaskReturns
<1>5. CASE FinishTask(w)
  <2>1. k \in Key
    BY <1>2, <1>5 DEF FinishTask
  <2>2. RequeueInterval \in Int /\ CacheExpire \in Remaining
    BY <1>0, Constants, HandlerType
  <2>3. TableTypeOK'
    BY <1>0, <1>5, <2>1, <2>2, DoneAsyncEffect, FreeEffect, RequeueEffect DEF FinishTask
  <2>4. heartbeats' \subseteq HeartBeats
    BY <1>1, <1>5 DEF FinishTask, Cancel
  <2>5. IdleWorker \in WorkerState /\ IdleWorker.pc = "idle"
    BY IdleTypes DEF IdleWorker
  <2> QED BY <1>1, <1>5, <1>a, <2>3, <2>4, <2>5 DEF FinishTask
<1> QED BY <1>3, <1>4, <1>5 DEF WorkerStep

LEMMA DequeueTaskType ==
  ASSUME TypeInv, NEW n \in Node, DequeueTask(n)
  PROVE  TypeInv'
<1>0. handler \in Options /\ TableTypeOK /\ ProcessTypeOK
  BY TypeOKParts DEF TypeInv
<1>1. PICK k \in Key : /\ Dequeue(k, Key)
                       /\ dequeued' = [dequeued EXCEPT ![n] = [key |-> k, age |-> 0]]
  BY DEF DequeueTask
<1>2. TableTypeOK'
  BY <1>0, <1>1, DequeueEffect
<1>3. [key |-> k, age |-> 0] \in Task
  BY Constants DEF Task
<1>4. ProcessTypeOK'
  BY <1>0, <1>1, <1>3 DEF ProcessTypeOK, DequeueTask
<1>5. Keyed'
  BY DEF TypeInv, Keyed, DequeueTask
<1> QED BY <1>0, <1>2, <1>4, <1>5, TypeOKParts DEF TypeInv, DequeueTask

\* What HeartBeat adds again.
Rebeat(h) == [h EXCEPT !.due = HalfLease, !.owner = Null]

LEMMA RebeatType ==
  ASSUME NEW h \in HeartBeats
  PROVE  /\ Rebeat(h) \in HeartBeats /\ Rebeat(h).node = h.node /\ Rebeat(h).key = h.key
         /\ Rebeat(h).due = HalfLease /\ Rebeat(h).owner = Null
<1>1. HalfLease \in 0..HalfLease
  BY Constants
<1> QED BY <1>1 DEF Rebeat, HeartBeats

LEMMA WheelType ==
  ASSUME TypeInv, Wheel
  PROVE  TypeInv'
<1>0. handler \in Options /\ TableTypeOK /\ ProcessTypeOK
  BY TypeOKParts DEF TypeInv
<1>1. CASE \E h \in heartbeats : HeartBeat(h)
  <2>1. PICK h \in heartbeats : HeartBeat(h)
    BY <1>1
  <2>2. h \in HeartBeats /\ h.key \in Key
    BY <1>0 DEF ProcessTypeOK, HeartBeats
  <2>3. TableTypeOK'
    BY <1>0, <2>1, <2>2, LeaseUpdateEffect DEF HeartBeat
  <2>4. heartbeats' = (heartbeats \ {h}) \cup {Rebeat(h)}
    BY <2>1 DEF HeartBeat, Rebeat
  <2>5. ProcessTypeOK'
    BY <1>0, <2>1, <2>2, <2>4, RebeatType DEF ProcessTypeOK, HeartBeat
  <2>6. Keyed'
    BY <2>1 DEF TypeInv, Keyed, HeartBeat
  <2> QED BY <1>0, <2>1, <2>3, <2>5, <2>6, TypeOKParts DEF TypeInv, HeartBeat
<1>2. CASE \E n \in Node : ReapFirst(n) \/ ReapSecond(n) \/ ReapThird(n)
  <2>1. PICK n \in Node : ReapFirst(n) \/ ReapSecond(n) \/ ReapThird(n)
    BY <1>2
  <2>2. TableTypeOK'
    BY <1>0, <2>1, ReapErrorEffect, ReapRequeueEffect, ReapDeleteEffect
       DEF ReapFirst, ReapSecond, ReapThird
  <2>3. reaper' \in [Node -> ReaperState]
    BY <1>0, <2>1, Constants DEF ProcessTypeOK, ReaperState, ReapFirst, ReapSecond, ReapThird
  <2>4. UNCHANGED ReaperVars
    BY <2>1 DEF ReapFirst, ReapSecond, ReapThird
  <2>5. ProcessTypeOK'
    BY <1>0, <2>3, <2>4 DEF ProcessTypeOK, ReaperVars
  <2>6. Keyed'
    BY <2>4 DEF TypeInv, Keyed, ReaperVars
  <2> QED BY <1>0, <2>2, <2>4, <2>5, <2>6, TypeOKParts DEF TypeInv, ReaperVars
<1> QED BY <1>1, <1>2 DEF Wheel

LEMMA CrashType ==
  ASSUME TypeInv, NEW n \in Node, Crash(n)
  PROVE  TypeInv'
<1>0. handler \in Options /\ TableTypeOK /\ ProcessTypeOK
  BY TypeOKParts DEF TypeInv
<1>1. TableTypeOK' /\ handler' \in Options
  BY <1>0 DEF Crash, tableVars, TableTypeOK
<1>2. caller' \in [Caller -> CallerState] /\ worker' \in [Worker -> WorkerState]
  BY <1>0, IdleTypes DEF Crash, ProcessTypeOK
<1>3. reply' \in [Caller -> Replies]
  BY <1>0 DEF Crash, ProcessTypeOK, NoReply, Replies
<1>4. reaper' \in [Node -> ReaperState]
  BY <1>0, Constants DEF Crash, ProcessTypeOK, ReaperState
<1>5. crashes' \in 0..MaxCrash
  BY <1>0, Constants DEF Crash, ProcessTypeOK
<1>6. ProcessTypeOK'
  BY <1>0, <1>2, <1>3, <1>4, <1>5 DEF Crash, ProcessTypeOK
<1>7. Keyed'
  BY <1>0 DEF Crash, TypeInv, Keyed, IdleCaller, IdleWorker, ProcessTypeOK
<1> QED BY <1>1, <1>6, <1>7, TypeOKParts DEF TypeInv

\* What a heartbeat and a dequeued task become when a tick passes.
Nearer(h) == [h EXCEPT !.due = @ - 1]
Waited(t) == [t EXCEPT !.age = @ + 1]

LEMMA NearerType ==
  ASSUME NEW h \in HeartBeats, h.due > 0
  PROVE  /\ Nearer(h) \in HeartBeats /\ Nearer(h).node = h.node /\ Nearer(h).key = h.key
         /\ Nearer(h).due = h.due - 1 /\ Nearer(h).owner = h.owner
  BY Constants DEF Nearer, HeartBeats

LEMMA WaitedType ==
  ASSUME NEW t \in Task, t.age < Handoff
  PROVE  Waited(t) \in Task /\ Waited(t).key = t.key /\ Waited(t).age = t.age + 1
  BY Constants DEF Waited, Task

LEMMA TickType ==
  ASSUME TypeInv, Tick
  PROVE  TypeInv'
<1>0. handler \in Options /\ TableTypeOK /\ ProcessTypeOK
  BY TypeOKParts DEF TypeInv
<1>1. TableTypeOK' /\ handler' \in Options
  BY <1>0, AgeRowsEffect DEF Tick
<1>2. heartbeats' \subseteq HeartBeats
  <2>1. heartbeats' = {Nearer(h) : h \in heartbeats}
    BY DEF Tick, Nearer
  <2> QED BY <1>0, <2>1, NearerType DEF Tick, ProcessTypeOK
<1>3. dequeued' \in [Node -> Task \cup {Null}]
  <2>1. dequeued' = [n \in Node |-> IF dequeued[n] = Null THEN Null ELSE Waited(dequeued[n])]
    BY DEF Tick, Waited
  <2> QED BY <1>0, <2>1, WaitedType DEF Tick, ProcessTypeOK
<1>4. reaper' \in [Node -> ReaperState]
  <2>1. ASSUME NEW n \in Node PROVE [reaper[n] EXCEPT !.due = @ - 1] \in ReaperState
    BY <1>0, Constants DEF Tick, ProcessTypeOK, ReaperState
  <2> QED BY <2>1 DEF Tick
<1>5. ProcessTypeOK'
  BY <1>0, <1>2, <1>3, <1>4 DEF Tick, ProcessTypeOK
<1>6. Keyed'
  BY DEF Tick, TypeInv, Keyed
<1> QED BY <1>1, <1>5, <1>6, TypeOKParts DEF TypeInv

LEMMA TypeInit == Init => TypeInv
<1> SUFFICES ASSUME Init PROVE TypeInv
  OBVIOUS
<1>1. handler \in Options /\ TableTypeOK
  BY DEF Init, TableInit, TableTypeOK
<1>2. ProcessTypeOK
  BY IdleTypes, Constants DEF Init, ProcessTypeOK, NoReply, Replies, ReaperState
<1>3. Keyed
  BY DEF Init, Keyed, IdleCaller, IdleWorker
<1> QED BY <1>1, <1>2, <1>3, TypeOKParts DEF TypeInv

LEMMA TypeStep == TypeInv /\ [Next]_vars => TypeInv'
<1> SUFFICES ASSUME TypeInv, [Next]_vars PROVE TypeInv'
  OBVIOUS
<1>1. ASSUME NEW c \in Caller, NEW k \in handler.input, NEW via \in handler.via, Call(c, k, via)
      PROVE  TypeInv'
  <2>1. k \in Key /\ via \in {"http", "call", "go"}
    BY HandlerType, TypeOKParts DEF TypeInv
  <2> QED BY <1>1, <2>1, EnterType DEF Call
<1>2. CASE UNCHANGED vars
  BY <1>2 DEF vars, tableVars, TypeInv, TypeOK, TableTypeOK, Keyed
<1> QED BY <1>1, <1>2, CallerStepType, WorkerStepType, DequeueTaskType, CrashType, WheelType,
           TickType DEF Next

\* Every step, of any caller, worker, node, reaper or heartbeat, keeps the types of
\* the tables and of the goroutines' states: a heartbeat never lies further ahead than
\* half a lease, and a dequeued task is handed over within Handoff ticks.
THEOREM TypeCorrect == Spec => []TypeOK
<1>1. TypeInv => TypeOK
  BY DEF TypeInv
<1> QED BY <1>1, TypeInit, TypeStep, PTL DEF Spec

(***************************************************************************)
(* Mutual exclusion                                                        *)
(*                                                                         *)
(* Who may act on the row of k: goroutines inside the handler and nodes    *)
(* with a dequeued task.  At most one of them does, because its row is     *)
(* leased and the lease cannot expire under it: a holder has a heartbeat   *)
(* that is due no later than the lease ends, and a dequeued task is handed *)
(* over early enough for the first heartbeat.                              *)
(***************************************************************************)
\* The pool takes a dequeued task while more than half of its lease is left.
HandedInTime == HalfLease + Handoff <= LeaseDuration

Holders(k) == {c \in Caller : caller[c].pc \in {"run", "finish"} /\ caller[c].key = k}
              \cup {w \in Worker : worker[w].pc # "idle" /\ worker[w].key = k}

Handed(k) == {n \in Node : dequeued[n] # Null /\ dequeued[n].key = k}

\* The heartbeat comes before the lease t ends; a lock not yet renewed has no end.
Covers(h, t) == t = Null \/ h.due <= t

\* The heartbeat keeps the row of k alive for a.
BeatsFor(h, a, k) == h.node = NodeOf[a] /\ h.key = k /\ h.owner \in {a, Null}

Beating(a, k) ==
    \E h \in heartbeats : BeatsFor(h, a, k) /\ Covers(h, executions[k].leased_until)

Fresh(n, k) == /\ executions[k].leased_until \in Int
               /\ executions[k].leased_until + dequeued[n].age >= LeaseDuration

Safe(k) ==
    /\ \A a, b \in Holders(k) : a = b
    /\ \A m, n \in Handed(k) : m = n
    /\ Holders(k) = {} \/ Handed(k) = {}
    /\ Holders(k) \cup Handed(k) # {} => HasStatus(k, {"leased"})
    /\ \A a \in Holders(k) : Beating(a, k)
    /\ \A n \in Handed(k) : Fresh(n, k)

\* Callers of a queued handler never get past enqueueing.
Path == Queued(handler) =>
          \A c \in Caller : caller[c].pc \in {"idle", "enqueue", "gowait", "recall"}

\* A lock is never taken over from a done row.
DoneKept == ~Queued(handler) => \A k \in Key : HasStatus(k, {"done"}) => executions[k].ttl = Null

ExclInv ==
    /\ TypeInv /\ HandedInTime /\ Guarded(handler) /\ Path /\ DoneKept
    /\ \A k \in Key : Safe(k)

\* The step adds no holder of j, leaves its row alone and keeps its holders' heartbeats.
Untouched(j) ==
    /\ Holders(j)' \subseteq Holders(j)
    /\ Handed(j)' \subseteq Handed(j)
    /\ \A n \in Handed(j)' : dequeued'[n] = dequeued[n]
    /\ executions'[j] = executions[j]
    /\ \A a \in Holders(j)' : \A h \in heartbeats : BeatsFor(h, a, j) => h \in heartbeats'

LEMMA UntouchedSafe ==
  ASSUME NEW j \in Key, Safe(j), Untouched(j) PROVE Safe(j)'
<1>1. /\ \A a, b \in Holders(j)' : a = b
      /\ \A m, n \in Handed(j)' : m = n
      /\ Holders(j)' = {} \/ Handed(j)' = {}
      /\ Holders(j)' \cup Handed(j)' # {} => HasStatus(j, {"leased"})'
  BY DEF Safe, Untouched, HasStatus
<1>2. \A a \in Holders(j)' : Beating(a, j)'
  BY DEF Safe, Untouched, Beating, BeatsFor, Covers
<1>3. \A n \in Handed(j)' : Fresh(n, j)'
  BY DEF Safe, Untouched, Fresh
<1> QED BY <1>1, <1>2, <1>3 DEF Safe

\* Nobody is left to act on the row.
LEMMA VacantSafe ==
  ASSUME NEW j \in Key, Holders(j)' = {}, Handed(j)' = {} PROVE Safe(j)'
  BY DEF Safe

\* A row that is not leased has nobody acting on it.
LEMMA NotLeasedVacant ==
  ASSUME NEW j \in Key, Safe(j), ~HasStatus(j, {"leased"})
  PROVE  Holders(j) = {} /\ Handed(j) = {}
  BY DEF Safe

\* Only c's own heartbeats are cancelled.
LEMMA CancelKeeps ==
  ASSUME NEW c \in Caller \cup Worker, NEW a \in Caller \cup Worker, a # c, NEW j \in Key,
         heartbeats' = Cancel(c) \/ heartbeats' = heartbeats,
         NEW h \in heartbeats, BeatsFor(h, a, j)
  PROVE  h \in heartbeats'
  BY JobSystemAssumption DEF Cancel, BeatsFor

\* A caller whose state changes to one outside the handler holds nothing.
LEMMA CallerLeaves ==
  ASSUME NEW c \in Caller, \A d \in Caller : d # c => caller'[d] = caller[d],
         caller'[c].pc \notin {"run", "finish"}, worker' = worker, NEW j
  PROVE  Holders(j)' \subseteq Holders(j) /\ c \notin Holders(j)'
  BY JobSystemAssumption DEF Holders

LEMMA HandedSame ==
  ASSUME dequeued' = dequeued, NEW j
  PROVE  Handed(j)' = Handed(j)
  BY DEF Handed

LEMMA HoldersSame ==
  ASSUME caller' = caller, worker' = worker, NEW j
  PROVE  Holders(j)' = Holders(j)
  BY DEF Holders

LEMMA HoldersType == ASSUME NEW j PROVE Holders(j) \subseteq Caller \cup Worker
  BY DEF Holders

\* Only goroutines' states change, and nobody starts to hold a row.
LEMMA QuietSafe ==
  ASSUME \A j \in Key : Safe(j) /\ Holders(j)' \subseteq Holders(j),
         UNCHANGED <<executions, dequeued, heartbeats>>, NEW k \in Key
  PROVE  Safe(k)'
<1>1. Untouched(k)
  BY HandedSame DEF Untouched
<1> QED BY <1>1, UntouchedSafe

\* Enqueue touches only rows nobody holds.
LEMMA EnqueueSafe ==
  ASSUME TableTypeOK, \A j \in Key : Safe(j) /\ Holders(j)' \subseteq Holders(j),
         NEW c \in Caller, \A j \in Key : c \notin Holders(j)',
         NEW k \in Key, NEW meta \in JobMeta, Enqueue(k, meta),
         dequeued' = dequeued, heartbeats' = Cancel(c) \/ heartbeats' = heartbeats,
         NEW j \in Key
  PROVE  Safe(j)'
<1>1. CASE j = k /\ Enqueuable(k)
  <2>1. ~HasStatus(k, {"leased"})
    BY <1>1 DEF Enqueuable, HasStatus
  <2> QED BY <1>1, <2>1, NotLeasedVacant, HandedSame, VacantSafe
<1>2. CASE ~(j = k /\ Enqueuable(k))
  <2>1. executions'[j] = executions[j]
    BY <1>2, EnqueueEffect DEF OnlyRow
  <2>2. \A a \in Holders(j)' : \A h \in heartbeats : BeatsFor(h, a, j) => h \in heartbeats'
    BY CancelKeeps, HoldersType
  <2>3. Untouched(j)
    BY <2>1, <2>2, HandedSame DEF Untouched
  <2> QED BY <2>3, UntouchedSafe
<1> QED BY <1>1, <1>2

\* The sole holder a of k leaves it, whatever it does to the row of k.
LEMMA LeaveSafe ==
  ASSUME \A j \in Key : Safe(j) /\ Holders(j)' \subseteq Holders(j),
         NEW a \in Caller \cup Worker, \A j \in Key : a \notin Holders(j)',
         NEW k \in Key, a \in Holders(k), OnlyRow(k),
         dequeued' = dequeued, heartbeats' = Cancel(a) \/ heartbeats' = heartbeats,
         NEW j \in Key
  PROVE  Safe(j)'
<1>1. CASE j = k
  <2>1. Holders(k)' = {} /\ Handed(k)' = {}
    BY HandedSame DEF Safe
  <2> QED BY <1>1, <2>1, VacantSafe
<1>2. CASE j # k
  <2>1. \A b \in Holders(j)' : \A h \in heartbeats : BeatsFor(h, b, j) => h \in heartbeats'
    BY CancelKeeps, HoldersType
  <2>2. Untouched(j)
    BY <1>2, <2>1, HandedSame DEF Untouched, OnlyRow
  <2> QED BY <2>2, UntouchedSafe
<1> QED BY <1>1, <1>2

LEMMA InvTypes ==
  ASSUME TypeInv
  PROVE  /\ handler \in Options /\ TableTypeOK
         /\ caller \in [Caller -> CallerState] /\ reply \in [Caller -> Replies]
         /\ worker \in [Worker -> WorkerState] /\ dequeued \in [Node -> Task \cup {Null}]
         /\ heartbeats \subseteq HeartBeats /\ crashes \in 0..MaxCrash
         /\ runs \in [Key -> 0..RunCap]
         /\ \A c \in Caller : caller[c].pc # "idle" => caller[c].key \in Key
         /\ \A w \in Worker : worker[w].pc # "idle" => worker[w].key \in Key
  BY TypeOKParts DEF TypeInv, ProcessTypeOK, Keyed

\* The handler is the same all along.
LEMMA HandlerKept == ASSUME [Next]_vars PROVE handler' = handler
<1>1. CASE UNCHANGED vars
  BY <1>1 DEF vars
<1>2. ASSUME NEW c \in Caller, CallerStep(c) PROVE handler' = handler
  BY <1>2 DEF CallerStep, EnqueueJob, GoWait, Recall, Enter, Lock, HitAgain, WaitPoll,
              HandlerReturns, FinishCall, RequeueCall
<1>3. ASSUME NEW w \in Worker, WorkerStep(w) PROVE handler' = handler
  BY <1>3 DEF WorkerStep, StartTask, TaskReturns, FinishTask
<1>4. ASSUME Wheel PROVE handler' = handler
  BY <1>4 DEF Wheel, HeartBeat, ReapFirst, ReapSecond, ReapThird, ReaperVars
<1> QED BY <1>1, <1>2, <1>3, <1>4 DEF Next, Call, Enter, DequeueTask, Crash, Tick

\* A caller of a guarded handler enqueues, or asks for the lock.
LEMMA GuardedEntry ==
  ASSUME handler \in Options, Guarded(handler), NEW via, via # "http" \/ Dedupe
  PROVE  /\ AfterHit(via) \in {"enqueue", "lock"}
         /\ Queued(handler) => AfterHit(via) = "enqueue"
  BY DEF Guarded, Queued, AfterHit, Async, Dedupe, Mode

LEMMA EnterEffect ==
  ASSUME TypeInv, NEW c \in Caller, NEW k \in Key, NEW via, Enter(c, k, via)
  PROVE  /\ caller'[c].pc \in {"idle", AfterHit(via)}
         /\ caller'[c].pc = "idle" \/ (caller'[c].key = k /\ caller'[c].via = via)
         /\ \A d \in Caller : d # c => caller'[d] = caller[d]
         /\ AfterHit(via) # "run" => runs' = runs
<1>1. CASE Cache /\ Hit(k) = "hit"
  BY <1>1, InvTypes DEF Enter, Return, IdleCaller
<1>2. CASE ~(Cache /\ Hit(k) = "hit")
  BY <1>2, InvTypes DEF Enter
<1> QED BY <1>1, <1>2

LEMMA EnterSafe ==
  ASSUME ExclInv, NEW c \in Caller, NEW k \in Key, NEW via, via # "http" \/ Dedupe,
         Enter(c, k, via)
  PROVE  Path' /\ DoneKept' /\ \A j \in Key : Safe(j)'
<1> USE DEF ExclInv
<1>1. /\ caller'[c].pc \in {"idle", AfterHit(via)}
      /\ \A d \in Caller : d # c => caller'[d] = caller[d]
  BY EnterEffect
<1>2. /\ AfterHit(via) \in {"enqueue", "lock"}
      /\ Queued(handler) => AfterHit(via) = "enqueue"
  BY GuardedEntry, InvTypes
<1>3. \A j \in Key : Holders(j)' \subseteq Holders(j)
  BY <1>1, <1>2, CallerLeaves DEF Enter
<1>4. UNCHANGED <<executions, dequeued, heartbeats, handler>>
  BY DEF Enter, tableVars
<1>5. \A j \in Key : Safe(j)'
  BY <1>3, <1>4, QuietSafe
<1>6. Path'
  BY <1>1, <1>2, <1>4 DEF Path
<1>7. DoneKept'
  BY <1>4 DEF DoneKept, HasStatus
<1> QED BY <1>5, <1>6, <1>7

LEMMA HandlerReturnsEffect ==
  ASSUME TypeInv, NEW c \in Caller, NEW o, HandlerReturns(c, o)
  PROVE  /\ caller[c].pc = "run" /\ caller'[c].pc = "finish" /\ caller'[c].out = o
         /\ caller'[c].key = caller[c].key /\ caller'[c].via = caller[c].via
         /\ \A d \in Caller : d # c => caller'[d] = caller[d]
<1>1. caller \in [Caller -> CallerState]
  BY InvTypes
<1>2. caller' = [caller EXCEPT ![c] = [caller[c] EXCEPT !.pc = "finish", !.out = o]]
  BY <1>1 DEF HandlerReturns, CallerState
<1>3. caller'[c] = [caller[c] EXCEPT !.pc = "finish", !.out = o]
  BY <1>1, <1>2
<1> QED BY <1>1, <1>2, <1>3 DEF HandlerReturns, CallerState

\* Steps of call_job that change nothing but the caller's own state.
LEMMA CallerQuietSafe ==
  ASSUME ExclInv, NEW c \in Caller,
         GoWait(c) \/ HitAgain(c) \/ WaitPoll(c) \/ (\E o \in handler.outcome : HandlerReturns(c, o))
  PROVE  Path' /\ DoneKept' /\ \A j \in Key : Safe(j)'
<1> USE DEF ExclInv
<1>1. UNCHANGED <<tableVars, worker, dequeued, heartbeats, handler>>
  BY DEF GoWait, HitAgain, WaitPoll, HandlerReturns
<1>2. \A j \in Key : Holders(j)' \subseteq Holders(j)
  <2>1. CASE GoWait(c)
    BY <1>1, <2>1, InvTypes, GotoEffect, CallerLeaves DEF GoWait, CallerPc
  <2>2. CASE HitAgain(c)
    <3>1. /\ caller'[c].pc \in {"idle", "wait"}
          /\ \A d \in Caller : d # c => caller'[d] = caller[d]
      BY <2>2, InvTypes DEF HitAgain, Goto, Return, IdleCaller, CallerState
    <3> QED BY <1>1, <3>1, CallerLeaves
  <2>3. CASE WaitPoll(c)
    BY <1>1, <2>3, InvTypes, HitReplyType, ReturnEffect, CallerLeaves DEF WaitPoll
  <2>4. CASE \E o \in handler.outcome : HandlerReturns(c, o)
    <3>1. /\ caller[c].pc = "run" /\ caller'[c].key = caller[c].key
          /\ \A d \in Caller : d # c => caller'[d] = caller[d]
      BY <2>4, HandlerReturnsEffect
    <3> QED BY <1>1, <3>1 DEF Holders
  <2> QED BY <2>1, <2>2, <2>3, <2>4
<1>3. \A j \in Key : Safe(j)'
  BY <1>1, <1>2, QuietSafe DEF tableVars
<1>4. Path'
  <2>1. Queued(handler) => GoWait(c)
    BY DEF Path, HitAgain, WaitPoll, HandlerReturns
  <2> QED BY <1>1, <2>1, InvTypes, GotoEffect DEF Path, GoWait, CallerPc
<1>5. DoneKept'
  BY <1>1 DEF DoneKept, HasStatus, tableVars
<1> QED BY <1>3, <1>4, <1>5

\* A done row a dedupe caller finds is kept: Enqueue makes none.
LEMMA EnqueueDoneKept ==
  ASSUME TypeInv, DoneKept, NEW k \in Key, NEW st \in {"queued", "leased"},
         Enqueue(k, MetaOf(k, st)), handler' = handler
  PROVE  DoneKept'
<1>1. MetaOf(k, st) \in JobMeta /\ MetaOf(k, st).status = st
  BY MetaType, InvTypes
<1>2. ASSUME NEW j \in Key, HasStatus(j, {"done"})' PROVE executions'[j] = executions[j]
  BY <1>1, <1>2, EnqueueEffect, InvTypes DEF HasStatus, OnlyRow
<1> QED BY <1>2 DEF DoneKept, HasStatus

LEMMA EnqueueJobSafe ==
  ASSUME ExclInv, NEW c \in Caller, EnqueueJob(c)
  PROVE  Path' /\ DoneKept' /\ \A j \in Key : Safe(j)'
<1> USE DEF ExclInv
<1>1. PICK k \in Key : k = caller[c].key
  BY InvTypes DEF EnqueueJob
<1>2. /\ Enqueue(k, MetaOf(k, "queued"))
      /\ UNCHANGED <<worker, dequeued, heartbeats, handler>>
  BY <1>1 DEF EnqueueJob
<1>3. MetaOf(k, "queued") \in JobMeta
  BY MetaType, InvTypes
<1>4. /\ caller'[c].pc \in {"idle", "gowait"}
      /\ \A d \in Caller : d # c => caller'[d] = caller[d]
  BY InvTypes DEF EnqueueJob, Goto, Return, IdleCaller, CallerState
<1>5. \A j \in Key : Holders(j)' \subseteq Holders(j) /\ c \notin Holders(j)'
  BY <1>2, <1>4, CallerLeaves
<1>6. TableTypeOK
  BY InvTypes
<1>7. \A j \in Key : Safe(j)'
  BY <1>2, <1>3, <1>5, <1>6, EnqueueSafe
<1>8. Path'
  BY <1>2, <1>4 DEF Path
<1> QED BY <1>2, <1>7, <1>8, EnqueueDoneKept

LEMMA RequeueCallSafe ==
  ASSUME ExclInv, NEW c \in Caller, RequeueCall(c)
  PROVE  Path' /\ DoneKept' /\ \A j \in Key : Safe(j)'
<1> USE DEF ExclInv
<1>1. PICK k \in Key : k = caller[c].key
  BY InvTypes DEF RequeueCall
<1>2. PICK st \in {"queued", "leased"} : Enqueue(k, MetaOf(k, st))
  BY <1>1 DEF RequeueCall
<1>3. MetaOf(k, st) \in JobMeta
  BY MetaType, InvTypes
<1>4. /\ UNCHANGED <<worker, dequeued, handler>> /\ heartbeats' = Cancel(c)
      /\ caller'[c].pc = "idle" /\ \A d \in Caller : d # c => caller'[d] = caller[d]
  BY InvTypes DEF RequeueCall, Return, IdleCaller
<1>5. \A j \in Key : Holders(j)' \subseteq Holders(j) /\ c \notin Holders(j)'
  BY <1>4, CallerLeaves
<1>6. TableTypeOK
  BY InvTypes
<1>7. \A j \in Key : Safe(j)'
  BY <1>2, <1>3, <1>4, <1>5, <1>6, EnqueueSafe
<1>8. Path'
  BY <1>4 DEF Path
<1> QED BY <1>2, <1>4, <1>7, <1>8, EnqueueDoneKept

\* The lock is an insert: the row has no lease to expire before the first heartbeat.
LEMMA LockSafe ==
  ASSUME ExclInv, NEW c \in Caller, Lock(c)
  PROVE  Path' /\ DoneKept' /\ \A j \in Key : Safe(j)'
<1> USE DEF ExclInv
<1>1. PICK k \in Key : k = caller[c].key
  BY InvTypes DEF Lock
<1>2. /\ caller[c].pc = "lock" /\ Enqueue(k, MetaOf(k, "leased"))
      /\ UNCHANGED <<worker, dequeued, handler>>
  BY <1>1 DEF Lock
<1>3. MetaOf(k, "leased") \in JobMeta /\ MetaOf(k, "leased").status = "leased" /\ TableTypeOK
  BY MetaType, InvTypes
<1>4. ~Queued(handler)
  BY <1>2 DEF Path
<1>5. Path' /\ DoneKept'
  BY <1>2, <1>4, EnqueueDoneKept DEF Path
<1>6. CASE ~Enqueuable(k)
  <2>1. /\ caller'[c].pc \in {"idle", "hitagain"} /\ heartbeats' = heartbeats
        /\ \A d \in Caller : d # c => caller'[d] = caller[d]
    BY <1>1, <1>6, InvTypes DEF Lock, Goto, Return, IdleCaller, CallerState
  <2>2. \A j \in Key : Holders(j)' \subseteq Holders(j) /\ c \notin Holders(j)'
    BY <1>2, <2>1, CallerLeaves
  <2> QED BY <1>2, <1>3, <1>5, <2>1, <2>2, EnqueueSafe
<1>7. CASE Enqueuable(k)
  <2>1. Goto(c, "run") /\ heartbeats' = heartbeats \cup {Beat(c, k)}
    BY <1>1, <1>7 DEF Lock
  <2>2. /\ caller'[c].pc = "run" /\ caller'[c].key = k
        /\ \A d \in Caller : d # c => caller'[d] = caller[d]
    BY <1>1, <2>1, InvTypes, GotoEffect DEF CallerPc
  <2>3. executions[k] = Null
    BY <1>4, <1>7 DEF Enqueuable, DoneKept, IsPast
  <2>4. /\ executions'[k] = NewRow(MetaOf(k, "leased")) /\ executions'[k] # Null
        /\ executions'[k].status = "leased" /\ executions'[k].leased_until = Null /\ OnlyRow(k)
    BY <1>2, <1>3, <1>7, <2>3, EnqueueEffect, NewRowRow
  <2>5. Holders(k) = {} /\ Handed(k) = {}
    BY <2>3, NotLeasedVacant DEF HasStatus
  <2>6. Holders(k)' = {c} /\ Handed(k)' = {}
    <3>1. Holders(k)' = Holders(k) \cup {c}
      BY <1>2, <2>2, JobSystemAssumption DEF Holders
    <3> QED BY <1>2, <2>5, <3>1, HandedSame
  <2>7. Beating(c, k)'
    <3>1. BeatsFor(Beat(c, k), c, k) /\ Beat(c, k) \in heartbeats'
      BY <2>1, BeatType DEF BeatsFor
    <3> QED BY <2>4, <3>1 DEF Beating, Covers
  <2>8. Safe(k)'
    BY <2>4, <2>6, <2>7 DEF Safe, HasStatus
  <2>9. ASSUME NEW j \in Key, j # k PROVE Safe(j)'
    <3>1. Holders(j)' \subseteq Holders(j)
      BY <1>2, <2>2, <2>9 DEF Holders
    <3>2. Untouched(j)
      BY <1>2, <2>1, <2>4, <2>9, <3>1, HandedSame DEF Untouched, OnlyRow
    <3> QED BY <3>2, UntouchedSafe
  <2> QED BY <1>5, <2>8, <2>9
<1> QED BY <1>6, <1>7

LEMMA FinishCallSafe ==
  ASSUME ExclInv, NEW c \in Caller, FinishCall(c)
  PROVE  Path' /\ DoneKept' /\ \A j \in Key : Safe(j)'
<1> USE DEF ExclInv
<1>1. PICK k \in Key : k = caller[c].key
  BY InvTypes DEF FinishCall
<1>2. c \in Holders(k)
  BY <1>1 DEF FinishCall, Holders
<1>3. UNCHANGED <<worker, dequeued, handler>> /\ heartbeats' \in {Cancel(c), heartbeats}
  BY DEF FinishCall, StoreOrFree
<1>4. /\ caller'[c].pc \in {"idle", "requeue"}
      /\ \A d \in Caller : d # c => caller'[d] = caller[d]
  BY InvTypes DEF FinishCall, Goto, Return, IdleCaller, CallerState
<1>5. \A j \in Key : Holders(j)' \subseteq Holders(j) /\ c \notin Holders(j)'
  BY <1>3, <1>4, CallerLeaves
<1>6. OnlyRow(k) /\ (executions'[k] = executions[k] \/ executions'[k] = Null)
  <2>1. CASE UNCHANGED tableVars
    BY <2>1 DEF tableVars, OnlyRow
  <2>2. CASE Free(k)
    BY <2>2, FreeEffect, InvTypes
  <2>3. CASE Done(k, CacheExpire, StoredOf(caller[c].out))
    BY <2>3 DEF Done, OnlyRow
  <2> QED BY <1>1, <2>1, <2>2, <2>3 DEF FinishCall, StoreOrFree
<1>7. \A j \in Key : Safe(j)'
  BY <1>2, <1>3, <1>5, <1>6, LeaveSafe
<1>8. Path'
  BY DEF Path, FinishCall
<1>9. DoneKept'
  BY <1>3, <1>6 DEF DoneKept, HasStatus, OnlyRow
<1> QED BY <1>7, <1>8, <1>9

LEMMA StartTaskSafe ==
  ASSUME ExclInv, NEW w \in Worker, StartTask(w)
  PROVE  Path' /\ DoneKept' /\ \A j \in Key : Safe(j)'
<1> USE DEF ExclInv
<1> DEFINE n == NodeOf[w]
<1>1. n \in Node /\ dequeued[n] \in Task
  BY InvTypes, Constants DEF StartTask
<1>2. PICK k \in Key : k = dequeued[n].key
  BY <1>1 DEF Task
<1>3. /\ caller' = caller /\ executions' = executions /\ handler' = handler
      /\ heartbeats' = heartbeats \cup {Beat(w, k)}
      /\ dequeued' = [dequeued EXCEPT ![n] = Null]
  BY <1>2 DEF StartTask, tableVars
<1>4. /\ worker[w].pc = "idle" /\ worker'[w].pc = "run" /\ worker'[w].key = k
      /\ \A v \in Worker : v # w => worker'[v] = worker[v]
  BY <1>2, InvTypes DEF StartTask
<1>5. n \in Handed(k) /\ dequeued[n].age \in 0..Handoff
  BY <1>1, <1>2, Constants DEF Handed, Task
<1>6. Holders(k) = {} /\ Handed(k) = {n} /\ HasStatus(k, {"leased"}) /\ Fresh(n, k)
  BY <1>5 DEF Safe
<1>7. Holders(k)' = {w}
  <2>1. Holders(k)' = Holders(k) \cup {w}
    BY <1>3, <1>4, JobSystemAssumption DEF Holders
  <2> QED BY <1>6, <2>1
<1>8. \A j \in Key : Handed(j)' = Handed(j) \ {n}
  BY <1>1, <1>3, InvTypes DEF Handed
<1>9. Beating(w, k)'
  <2>1. BeatsFor(Beat(w, k), w, k) /\ Beat(w, k) \in heartbeats' /\ Beat(w, k).due = HalfLease
    BY <1>3, BeatType DEF BeatsFor
  <2>2. HalfLease <= executions[k].leased_until
    BY <1>5, <1>6, Constants DEF Fresh, HandedInTime
  <2>3. Covers(Beat(w, k), executions'[k].leased_until)
    BY <1>3, <2>1, <2>2 DEF Covers
  <2> QED BY <2>1, <2>3 DEF Beating
<1>10. Safe(k)'
  BY <1>3, <1>6, <1>7, <1>8, <1>9 DEF Safe, HasStatus
<1>11. ASSUME NEW j \in Key, j # k PROVE Safe(j)'
  <2>1. Holders(j)' \subseteq Holders(j)
    BY <1>3, <1>4, <1>11 DEF Holders
  <2>2. Untouched(j)
    BY <1>1, <1>3, <1>8, <2>1, InvTypes DEF Untouched
  <2> QED BY <2>2, UntouchedSafe
<1>12. Path' /\ DoneKept'
  BY <1>3 DEF Path, DoneKept, HasStatus
<1> QED BY <1>10, <1>11, <1>12

LEMMA TaskReturnsEffect ==
  ASSUME TypeInv, NEW w \in Worker, NEW o, TaskReturns(w, o)
  PROVE  /\ worker[w].pc = "run" /\ worker'[w].pc = "finish" /\ worker'[w].out = o
         /\ worker'[w].key = worker[w].key
         /\ \A v \in Worker : v # w => worker'[v] = worker[v]
<1>1. worker \in [Worker -> WorkerState]
  BY InvTypes
<1>2. worker' = [worker EXCEPT ![w] = [worker[w] EXCEPT !.pc = "finish", !.out = o]]
  BY <1>1 DEF TaskReturns, WorkerState
<1>3. worker'[w] = [worker[w] EXCEPT !.pc = "finish", !.out = o]
  BY <1>1, <1>2
<1> QED BY <1>1, <1>2, <1>3 DEF TaskReturns, WorkerState

LEMMA TaskReturnsSafe ==
  ASSUME ExclInv, NEW w \in Worker, NEW o, TaskReturns(w, o)
  PROVE  Path' /\ DoneKept' /\ \A j \in Key : Safe(j)'
<1> USE DEF ExclInv
<1>1. UNCHANGED <<executions, caller, dequeued, heartbeats, handler>>
  BY DEF TaskReturns, tableVars
<1>2. \A j \in Key : Holders(j)' \subseteq Holders(j)
  BY <1>1, TaskReturnsEffect DEF Holders
<1>3. \A j \in Key : Safe(j)'
  BY <1>1, <1>2, QuietSafe
<1> QED BY <1>1, <1>3 DEF Path, DoneKept, HasStatus


\* What FinishTask does: it frees, requeues or closes the row of its task.
LEMMA FinishTaskEffect ==
  ASSUME TypeInv, NEW w \in Worker, FinishTask(w), NEW k \in Key, k = worker[w].key
  PROVE  /\ TableTypeOK' /\ OnlyRow(k)
         /\ UNCHANGED <<caller, dequeued, handler, crashes>> /\ heartbeats' = Cancel(w)
         /\ worker'[w].pc = "idle" /\ \A v \in Worker : v # w => worker'[v] = worker[v]
         /\ \A j \in Key : j # k => executions_results'[j] = executions_results[j]
         /\ \/ executions'[k] = Null /\ executions_results' = executions_results
            \/ /\ Aborted(worker[w].out) /\ HasStatus(k, {"queued"})'
               /\ executions_results' = executions_results
            \/ /\ Cache /\ HasStatus(k, {"done", "error"})' /\ executions'[k].ttl = CacheExpire
               /\ executions[k] # Null /\ executions'[k].retry_count = executions[k].retry_count
               /\ CacheExpire = Null => executions_results'[k] \in ResultRow
               /\ CacheExpire # Null => executions_results' = executions_results
            \/ /\ executions[k] = Null /\ executions'[k] = Null
<1>1. /\ UNCHANGED <<caller, dequeued, handler, crashes>> /\ heartbeats' = Cancel(w)
      /\ worker'[w].pc = "idle" /\ \A v \in Worker : v # w => worker'[v] = worker[v]
  BY InvTypes DEF FinishTask, IdleWorker
<1>a. \A j \in Key : j # k => executions_results'[j] = executions_results[j]
  BY InvTypes DEF FinishTask, Free, Requeue, DoneAsync, StoreResult, TableTypeOK
<1>2. /\ TableTypeOK /\ CacheExpire \in Remaining /\ RequeueInterval \in Int
      /\ executions[k] # Null => executions[k] \in Row
      /\ Null \notin Row
  BY InvTypes, HandlerType, Constants, RowThere, JobTableAssumption
<1>3. CASE Free(k)
  BY <1>1, <1>2, <1>3, <1>a, FreeEffect
<1>4. CASE Aborted(worker[w].out) /\ Requeue(k, RequeueInterval)
  BY <1>1, <1>2, <1>4, <1>a, RequeueEffect, RequeuedRow DEF HasStatus
<1>5. CASE Cache /\ DoneAsync(k, CacheExpire, StoredOf(worker[w].out))
  <2> DEFINE out == worker[w].out
  <2>1. /\ TableTypeOK' /\ OnlyRow(k)
        /\ executions'[k] = IF executions[k] = Null THEN Null
                            ELSE Closed(executions[k], CacheExpire, StoredOf(out))
        /\ CacheExpire = Null => executions_results'[k] \in ResultRow
        /\ CacheExpire # Null => executions_results' = executions_results
    BY <1>2, <1>5, DoneAsyncEffect DEF DoneAsync
  <2>2. CASE executions[k] = Null
    BY <1>1, <1>a, <2>1, <2>2
  <2>3. CASE executions[k] # Null
    <3> DEFINE r == Closed(executions[k], CacheExpire, StoredOf(out))
    <3>1. StoredOf(out) \in Stored /\ StatusOf(StoredOf(out)) \in {"done", "error"}
      BY StoredOfType
    <3>2. /\ r \in Row /\ r.status \in {"done", "error"} /\ r.ttl = CacheExpire
          /\ r.retry_count = executions[k].retry_count
      BY <1>2, <2>3, <3>1, ClosedRow
    <3>3. executions'[k] = r
      BY <2>1, <2>3
    <3> HIDE DEF r
    <3> QED BY <1>1, <1>2, <1>5, <1>a, <2>1, <2>3, <3>2, <3>3 DEF HasStatus
  <2> QED BY <2>2, <2>3
<1> QED BY <1>3, <1>4, <1>5 DEF FinishTask

LEMMA FinishTaskSafe ==
  ASSUME ExclInv, NEW w \in Worker, FinishTask(w)
  PROVE  Path' /\ DoneKept' /\ \A j \in Key : Safe(j)'
<1> USE DEF ExclInv
<1>1. PICK k \in Key : k = worker[w].key
  BY InvTypes DEF FinishTask
<1>2. w \in Holders(k)
  BY <1>1 DEF FinishTask, Holders
<1>3. /\ OnlyRow(k) /\ UNCHANGED <<caller, dequeued, handler>> /\ heartbeats' = Cancel(w)
      /\ worker'[w].pc = "idle" /\ \A v \in Worker : v # w => worker'[v] = worker[v]
  BY <1>1, FinishTaskEffect
<1>4. \A j \in Key : Holders(j)' \subseteq Holders(j) /\ w \notin Holders(j)'
  BY <1>3, JobSystemAssumption DEF Holders
<1>5. \A j \in Key : Safe(j)'
  BY <1>2, <1>3, <1>4, LeaveSafe
<1>6. Path'
  BY <1>3 DEF Path
<1>7. DoneKept'
  <2>1. SUFFICES ASSUME ~Queued(handler), HasStatus(k, {"done"})' PROVE executions'[k].ttl = Null
    BY <1>3 DEF DoneKept, OnlyRow, HasStatus
  <2>2. Cache /\ executions'[k].ttl = CacheExpire
    BY <1>1, <2>1, FinishTaskEffect DEF HasStatus
  <2>3. Cache => CacheExpire = Null
    BY <2>1 DEF Guarded, Cache, CacheExpire, Mode
  <2> QED BY <2>2, <2>3
<1> QED BY <1>5, <1>6, <1>7

LEMMA DequeueTaskSafe ==
  ASSUME ExclInv, NEW n \in Node, DequeueTask(n)
  PROVE  Path' /\ DoneKept' /\ \A j \in Key : Safe(j)'
<1> USE DEF ExclInv
<1>1. PICK k \in Key : /\ Dequeue(k, Key)
                       /\ dequeued' = [dequeued EXCEPT ![n] = [key |-> k, age |-> 0]]
  BY DEF DequeueTask
<1>2. dequeued[n] = Null /\ UNCHANGED <<caller, worker, heartbeats, handler>>
  BY DEF DequeueTask
<1>3. /\ HasStatus(k, {"queued"}) /\ OnlyRow(k)
      /\ executions'[k].status = "leased" /\ executions'[k].leased_until = LeaseDuration
      /\ executions'[k] # Null
  BY <1>1, InvTypes, DequeueEffect, LeasedRow, JobTableAssumption
<1>4. Holders(k) = {} /\ Handed(k) = {}
  BY <1>3, NotLeasedVacant DEF HasStatus
<1>5. \A j \in Key : Holders(j)' = Holders(j)
  BY <1>2, HoldersSame
<1>6. Handed(k)' = {n} /\ dequeued'[n].age = 0
  <2>1. dequeued'[n] = [key |-> k, age |-> 0] /\ \A m \in Node \ {n} : dequeued'[m] = dequeued[m]
    BY <1>1, InvTypes
  <2>2. [key |-> k, age |-> 0] \in Task
    BY Constants DEF Task
  <2> QED BY <1>4, <2>1, <2>2, Constants DEF Handed
<1>7. Safe(k)'
  <2>1. Fresh(n, k)'
    BY <1>3, <1>6, Constants DEF Fresh
  <2> QED BY <1>3, <1>4, <1>5, <1>6, <2>1 DEF Safe, HasStatus
<1>8. ASSUME NEW j \in Key, j # k PROVE Safe(j)'
  <2>1. Handed(j)' = Handed(j) /\ n \notin Handed(j)
    BY <1>1, <1>2, <1>8, InvTypes DEF Handed
  <2>2. Untouched(j)
    BY <1>1, <1>2, <1>3, <1>5, <1>8, <2>1, InvTypes DEF Untouched, OnlyRow, Handed
  <2> QED BY <2>2, UntouchedSafe
<1>9. Path' /\ DoneKept'
  BY <1>2, <1>3 DEF Path, DoneKept, HasStatus, OnlyRow
<1> QED BY <1>7, <1>8, <1>9

\* A crash takes a node's holders away with their heartbeats, and nobody else's.
LEMMA CrashSafe ==
  ASSUME ExclInv, NEW n \in Node, Crash(n)
  PROVE  Path' /\ DoneKept' /\ \A j \in Key : Safe(j)'
<1> USE DEF ExclInv
<1>1. /\ executions' = executions /\ handler' = handler
      /\ heartbeats' = {h \in heartbeats : h.node # n}
      /\ dequeued' = [dequeued EXCEPT ![n] = Null]
  BY DEF Crash, tableVars
<1>2. \A c \in Caller : \/ NodeOf[c] = n /\ caller'[c].pc = "idle"
                        \/ NodeOf[c] # n /\ caller'[c] = caller[c]
  BY DEF Crash, IdleCaller
<1>3. \A w \in Worker : \/ NodeOf[w] = n /\ worker'[w].pc = "idle"
                        \/ NodeOf[w] # n /\ worker'[w] = worker[w]
  BY DEF Crash, IdleWorker
<1>4. ASSUME NEW j \in Key PROVE Safe(j)'
  <2>1. Holders(j)' \subseteq Holders(j) /\ \A a \in Holders(j)' : NodeOf[a] # n
    BY <1>2, <1>3 DEF Holders
  <2>2. Handed(j)' \subseteq Handed(j) /\ \A m \in Handed(j)' : dequeued'[m] = dequeued[m]
    BY <1>1, InvTypes DEF Handed
  <2>3. Untouched(j)
    BY <1>1, <2>1, <2>2 DEF Untouched, BeatsFor
  <2> QED BY <2>3, UntouchedSafe
<1>5. Path' /\ DoneKept'
  BY <1>1, <1>2 DEF Path, DoneKept, HasStatus
<1> QED BY <1>4, <1>5

\* Every heartbeat is due within a fresh lease.
LEMMA BeatsCoverLease ==
  ASSUME NEW h \in HeartBeats PROVE Covers(h, LeaseDuration)
  BY Constants DEF Covers, HeartBeats

LEMMA HeartBeatSafe ==
  ASSUME ExclInv, NEW h \in heartbeats, HeartBeat(h)
  PROVE  Path' /\ DoneKept' /\ \A j \in Key : Safe(j)'
<1> USE DEF ExclInv
<1>1. h \in HeartBeats /\ h.key \in Key
  BY InvTypes DEF HeartBeats
<1>2. PICK k \in Key : k = h.key
  BY <1>1
<1>3. /\ LeaseUpdate(k) /\ UNCHANGED <<caller, worker, dequeued, handler>>
      /\ heartbeats' = (heartbeats \ {h}) \cup {Rebeat(h)}
  BY <1>2 DEF HeartBeat, Rebeat
<1>4. /\ OnlyRow(k)
      /\ executions'[k] = IF executions[k] = Null THEN Null ELSE Renewed(executions[k])
  BY <1>3, InvTypes, LeaseUpdateEffect
<1>5. \A j \in Key : Holders(j)' = Holders(j) /\ Handed(j)' = Handed(j)
  BY <1>3, HoldersSame, HandedSame
<1>6. executions[k] # Null =>
        /\ executions'[k] # Null /\ executions'[k].status = executions[k].status
        /\ executions'[k].leased_until = LeaseDuration /\ executions'[k].ttl = executions[k].ttl
  BY <1>4, InvTypes, RowThere, RenewedRow, JobTableAssumption
<1>7. Safe(k)'
  <2>1. CASE Holders(k) \cup Handed(k) = {}
    BY <1>5, <2>1, VacantSafe
  <2>2. CASE Holders(k) \cup Handed(k) # {}
    <3>1. HasStatus(k, {"leased"}) /\ HasStatus(k, {"leased"})'
          /\ executions'[k].leased_until = LeaseDuration
      BY <1>6, <2>2 DEF Safe, HasStatus
    <3>2. ASSUME NEW a \in Holders(k) PROVE Beating(a, k)'
      <4>1. PICK g \in heartbeats : BeatsFor(g, a, k)
        BY DEF Safe, Beating
      <4>2. CASE g = h
        <5>1. BeatsFor(Rebeat(h), a, k) /\ Rebeat(h) \in heartbeats' /\ Rebeat(h) \in HeartBeats
          BY <1>1, <1>3, <4>1, <4>2, RebeatType DEF BeatsFor
        <5> QED BY <3>1, <5>1, BeatsCoverLease DEF Beating
      <4>3. CASE g # h
        <5>1. g \in heartbeats' /\ g \in HeartBeats
          BY <1>3, <4>3, InvTypes
        <5> QED BY <3>1, <4>1, <5>1, BeatsCoverLease DEF Beating
      <4> QED BY <4>2, <4>3
    <3>3. ASSUME NEW n \in Handed(k) PROVE Fresh(n, k)'
      <4>1. dequeued[n].age \in Nat
        BY InvTypes, Constants DEF Handed, Task
      <4> QED BY <1>3, <3>1, <4>1, Constants DEF Fresh
    <3> QED BY <1>5, <3>1, <3>2, <3>3 DEF Safe
  <2> QED BY <2>1, <2>2
<1>8. ASSUME NEW j \in Key, j # k PROVE Safe(j)'
  <2>1. \A a \in Holders(j)' : \A g \in heartbeats : BeatsFor(g, a, j) => g \in heartbeats'
    BY <1>2, <1>3, <1>8 DEF BeatsFor
  <2>2. Untouched(j)
    BY <1>3, <1>4, <1>5, <1>8, <2>1 DEF Untouched, OnlyRow
  <2> QED BY <2>2, UntouchedSafe
<1>9. Path' /\ DoneKept'
  BY <1>3, <1>4, <1>6 DEF Path, DoneKept, HasStatus, OnlyRow
<1> QED BY <1>7, <1>8, <1>9

\* An expired lease has no holder.
LEMMA ExpiredVacant ==
  ASSUME ExclInv, NEW j \in Key, LeaseExpired(j)
  PROVE  Holders(j) = {} /\ Handed(j) = {}
<1> USE DEF ExclInv
<1>1. /\ executions[j].leased_until # Null /\ executions[j].leased_until < 0
      /\ executions[j].leased_until \in Int
  BY InvTypes, RowThere DEF LeaseExpired, HasStatus, IsPast, Row, Remaining
<1>2. ASSUME NEW a \in Holders(j) PROVE FALSE
  <2>1. PICK h \in heartbeats : Covers(h, executions[j].leased_until)
    BY DEF Safe, Beating
  <2>2. h.due \in Nat
    BY InvTypes, Constants DEF HeartBeats
  <2> QED BY <1>1, <2>1, <2>2 DEF Covers
<1>3. ASSUME NEW n \in Handed(j) PROVE FALSE
  <2>1. Fresh(n, j) /\ dequeued[n].age \in 0..Handoff
    BY InvTypes DEF Safe, Handed, Task
  <2> QED BY <1>1, <2>1, Constants DEF Fresh, HandedInTime
<1> QED BY <1>2, <1>3

LEMMA ReapSafe ==
  ASSUME ExclInv, NEW n \in Node, ReapFirst(n) \/ ReapSecond(n) \/ ReapThird(n)
  PROVE  Path' /\ DoneKept' /\ \A j \in Key : Safe(j)'
<1> USE DEF ExclInv
<1>1. UNCHANGED <<caller, worker, dequeued, heartbeats, handler>>
  BY DEF ReapFirst, ReapSecond, ReapThird, ReaperVars
<1>2. \A j \in Key : Holders(j)' = Holders(j) /\ Handed(j)' = Handed(j)
  BY <1>1, HoldersSame, HandedSame
<1>3. ASSUME NEW j \in Key
      PROVE  \/ executions'[j] = executions[j]
             \/ LeaseExpired(j) /\ HasStatus(j, {"queued", "error"})'
             \/ HasStatus(j, {"done", "error"}) /\ executions'[j] = Null
  <2>1. LeaseExpired(j) => executions[j] \in Row
    BY InvTypes, RowThere DEF LeaseExpired, HasStatus
  <2>2. Failure \in Value /\ Null \notin Row
    BY JobSystemAssumption, JobTableAssumption
  <2>3. CASE ReapFirst(n)
    BY <2>1, <2>2, <2>3, InvTypes, ReapErrorEffect, FailedRow DEF ReapFirst, HasStatus
  <2>4. CASE ReapSecond(n)
    BY <2>1, <2>2, <2>4, InvTypes, ReapRequeueEffect, ReapedRow DEF ReapSecond, HasStatus
  <2>5. CASE ReapThird(n)
    BY <2>5, InvTypes, ReapDeleteEffect DEF ReapThird, TtlOver
  <2> QED BY <2>3, <2>4, <2>5
<1>4. ASSUME NEW j \in Key PROVE Safe(j)'
  <2>1. CASE executions'[j] = executions[j]
    <3>1. Untouched(j)
      BY <1>1, <1>2, <2>1 DEF Untouched
    <3> QED BY <3>1, UntouchedSafe
  <2>2. CASE executions'[j] # executions[j]
    <3>1. Holders(j) = {} /\ Handed(j) = {}
      BY <1>3, <2>2, ExpiredVacant, NotLeasedVacant DEF HasStatus
    <3> QED BY <1>2, <3>1, VacantSafe
  <2> QED BY <2>1, <2>2
<1>5. Path' /\ DoneKept'
  BY <1>1, <1>3 DEF Path, DoneKept, HasStatus
<1> QED BY <1>4, <1>5

\* What a tick does to a row, to the heartbeats and to the dequeued tasks.
LEMMA TickEffect ==
  ASSUME TypeInv, Tick
  PROVE  /\ UNCHANGED <<caller, worker, handler, executions_results, crashes, runs>>
         /\ heartbeats' = {Nearer(h) : h \in heartbeats}
         /\ \A h \in heartbeats : h \in HeartBeats /\ h.due > 0
         /\ \A n \in Node : dequeued[n] # Null =>
               /\ dequeued'[n] # Null /\ dequeued'[n].key = dequeued[n].key
               /\ dequeued'[n].age = dequeued[n].age + 1 /\ dequeued[n].age \in 0..(Handoff - 1)
         /\ \A n \in Node : dequeued[n] = Null => dequeued'[n] = Null
         /\ \A k \in Key : executions[k] = Null => executions'[k] = Null
         /\ \A k \in Key : executions[k] # Null =>
               /\ executions'[k] # Null
               /\ executions'[k].status = executions[k].status
               /\ executions'[k].output = executions[k].output
               /\ executions'[k].retry_count = executions[k].retry_count
               /\ executions'[k].ttl = Elapse(executions[k].ttl)
               /\ executions'[k].leased_until = Elapse(executions[k].leased_until)
               /\ executions[k].leased_until \in Remaining
<1>1. /\ UNCHANGED <<caller, worker, handler, executions_results, crashes, runs>>
      /\ heartbeats' = {Nearer(h) : h \in heartbeats}
      /\ \A h \in heartbeats : h \in HeartBeats /\ h.due > 0
  BY InvTypes DEF Tick, Nearer
<1>2. ASSUME NEW n \in Node
      PROVE  /\ dequeued[n] # Null =>
                  /\ dequeued'[n] # Null /\ dequeued'[n].key = dequeued[n].key
                  /\ dequeued'[n].age = dequeued[n].age + 1
                  /\ dequeued[n].age \in 0..(Handoff - 1)
             /\ dequeued[n] = Null => dequeued'[n] = Null
  <2>1. dequeued'[n] = IF dequeued[n] = Null THEN Null ELSE Waited(dequeued[n])
    BY DEF Tick, Waited
  <2>2. dequeued[n] # Null => dequeued[n] \in Task /\ dequeued[n].age < Handoff
    BY InvTypes DEF Tick
  <2>3. dequeued[n] # Null => dequeued[n].age \in 0..(Handoff - 1)
    BY <2>2, Constants DEF Task
  <2> QED BY <2>1, <2>2, <2>3, WaitedType, Constants
<1>3. ASSUME NEW k \in Key
      PROVE  executions'[k] = IF executions[k] = Null THEN Null ELSE Aged(executions[k])
  BY InvTypes, AgeRowsEffect DEF Tick
<1>4. ASSUME NEW k \in Key, executions[k] # Null
      PROVE  /\ executions'[k] # Null
             /\ executions'[k].status = executions[k].status
             /\ executions'[k].output = executions[k].output
             /\ executions'[k].retry_count = executions[k].retry_count
             /\ executions'[k].ttl = Elapse(executions[k].ttl)
             /\ executions'[k].leased_until = Elapse(executions[k].leased_until)
             /\ executions[k].leased_until \in Remaining
  <2>1. executions[k] \in Row /\ Null \notin Row
    BY <1>4, InvTypes, RowThere, JobTableAssumption
  <2>2. executions[k].leased_until \in Remaining
    BY <2>1 DEF Row
  <2> QED BY <1>3, <1>4, <2>1, <2>2, AgedRow
<1> QED BY <1>1, <1>2, <1>3, <1>4

\* A heartbeat and the lease it covers come nearer together.
LEMMA CoversNearer ==
  ASSUME NEW h \in HeartBeats, h.due > 0, NEW t \in Remaining, Covers(h, t)
  PROVE  Covers(Nearer(h), Elapse(t))
<1>1. h.due \in Nat /\ Nearer(h).due = h.due - 1
  BY NearerType, Constants DEF HeartBeats
<1> QED BY <1>1 DEF Covers, Elapse, Remaining, Past

LEMMA TickSafe ==
  ASSUME ExclInv, Tick
  PROVE  Path' /\ DoneKept' /\ \A j \in Key : Safe(j)'
<1> USE DEF ExclInv
<1>1. ASSUME NEW j \in Key PROVE Holders(j)' = Holders(j) /\ Handed(j)' = Handed(j)
  BY TickEffect, HoldersSame DEF Handed
<1>2. ASSUME NEW j \in Key PROVE Safe(j)'
  <2>1. HasStatus(j, {"leased"}) => HasStatus(j, {"leased"})'
    BY TickEffect DEF HasStatus
  <2>2. ASSUME NEW a \in Holders(j) PROVE Beating(a, j)'
    <3>1. PICK h \in heartbeats : BeatsFor(h, a, j) /\ Covers(h, executions[j].leased_until)
      BY DEF Safe, Beating
    <3>2. h \in HeartBeats /\ h.due > 0 /\ Nearer(h) \in heartbeats'
      BY TickEffect
    <3>3. BeatsFor(Nearer(h), a, j)
      BY <3>1, <3>2, NearerType DEF BeatsFor
    <3>4. executions[j] # Null
      BY DEF Safe, HasStatus
    <3>5. /\ executions'[j].leased_until = Elapse(executions[j].leased_until)
          /\ executions[j].leased_until \in Remaining
      BY <3>4, TickEffect
    <3>6. Covers(Nearer(h), executions'[j].leased_until)
      BY <3>1, <3>2, <3>5, CoversNearer
    <3> QED BY <3>2, <3>3, <3>6 DEF Beating
  <2>3. ASSUME NEW n \in Handed(j) PROVE Fresh(n, j)'
    <3>1. Fresh(n, j) /\ executions[j] # Null
      BY DEF Safe, HasStatus
    <3>2. executions'[j].leased_until = Elapse(executions[j].leased_until)
      BY <3>1, TickEffect
    <3>3. dequeued'[n].age = dequeued[n].age + 1 /\ dequeued[n].age \in 0..(Handoff - 1)
      BY TickEffect DEF Handed
    <3>4. executions[j].leased_until \in Int /\ executions[j].leased_until > 0
      BY <3>1, <3>3, Constants DEF Fresh, HandedInTime
    <3>5. executions'[j].leased_until = executions[j].leased_until - 1
      BY <3>2, <3>4, JobTableAssumption DEF Elapse, Past
    <3> QED BY <3>1, <3>3, <3>4, <3>5, Constants DEF Fresh
  <2> QED BY <1>1, <2>1, <2>2, <2>3 DEF Safe
<1>3. Path' /\ DoneKept'
  BY TickEffect DEF Path, DoneKept, HasStatus, Elapse
<1> QED BY <1>2, <1>3

LEMMA ExclStep ==
  ASSUME ExclInv, [Next]_vars
  PROVE  ExclInv'
<1>1. TypeInv' /\ handler' = handler
  BY TypeStep, HandlerKept DEF ExclInv
<1>2. Path' /\ DoneKept' /\ \A j \in Key : Safe(j)'
  <2>1. ASSUME NEW c \in Caller, NEW k \in handler.input, NEW via \in handler.via, Call(c, k, via)
        PROVE  Path' /\ DoneKept' /\ \A j \in Key : Safe(j)'
    <3>1. k \in Key
      BY InvTypes, HandlerType DEF ExclInv
    <3>2. via # "http" \/ Dedupe
      BY <2>1 DEF ExclInv, Guarded, Queued, Call, Async, Dedupe, Cache, Mode
    <3> QED BY <2>1, <3>1, <3>2, EnterSafe DEF Call
  <2>2. ASSUME NEW c \in Caller, CallerStep(c)
        PROVE  Path' /\ DoneKept' /\ \A j \in Key : Safe(j)'
    <3>1. CASE Recall(c)
      BY <3>1, InvTypes, EnterSafe DEF Recall, ExclInv
    <3> QED BY <2>2, <3>1, EnqueueJobSafe, LockSafe, CallerQuietSafe, FinishCallSafe,
               RequeueCallSafe DEF CallerStep
  <2>3. ASSUME NEW w \in Worker, WorkerStep(w)
        PROVE  Path' /\ DoneKept' /\ \A j \in Key : Safe(j)'
    BY <2>3, StartTaskSafe, TaskReturnsSafe, FinishTaskSafe DEF WorkerStep
  <2>4. ASSUME Wheel PROVE Path' /\ DoneKept' /\ \A j \in Key : Safe(j)'
    BY <2>4, HeartBeatSafe, ReapSafe DEF Wheel
  <2>5. CASE UNCHANGED vars
    <3>1. UNCHANGED <<executions, caller, worker, dequeued, heartbeats, handler>>
      BY <2>5 DEF vars, tableVars
    <3>2. \A j \in Key : Safe(j)'
      BY <3>1, HoldersSame, QuietSafe DEF ExclInv
    <3> QED BY <3>1, <3>2 DEF ExclInv, Path, DoneKept, HasStatus
  <2> QED BY <2>1, <2>2, <2>3, <2>4, <2>5, DequeueTaskSafe, CrashSafe, TickSafe DEF Next
<1> QED BY <1>1, <1>2 DEF ExclInv

LEMMA ExclInit ==
  ASSUME Init, HandedInTime, Guarded(handler)
  PROVE  ExclInv
<1>1. TypeInv
  BY TypeInit
<1>2. \A k \in Key : Holders(k) = {} /\ Handed(k) = {}
  BY DEF Init, IdleCaller, IdleWorker, Holders, Handed
<1>3. \A k \in Key : Safe(k)
  BY <1>2 DEF Safe
<1>4. Path /\ DoneKept
  BY DEF Init, TableInit, IdleCaller, Path, DoneKept, HasStatus
<1> QED BY <1>1, <1>3, <1>4 DEF ExclInv

LEMMA ExclInvariant == Spec /\ HandedInTime /\ Guarded(handler) => []ExclInv
<1>1. Init /\ HandedInTime /\ Guarded(handler) => ExclInv
  BY ExclInit
<1>2. ExclInv /\ [Next]_vars => ExclInv'
  BY ExclStep
<1> QED BY <1>1, <1>2, PTL DEF Spec

\* A handler whose runs hold a row, called, dequeued, reaped and restarted in any
\* order, never runs twice at once for one input: Free, doneAsync and requeue address
\* the row by key alone, but only the one that holds it gets to issue them.
THEOREM ExclusiveRuns == Spec /\ HandedInTime => []Exclusive
<1>1. ExclInv => Exclusive
  <2> SUFFICES ASSUME ExclInv, NEW k \in Key PROVE Cardinality(Running(k)) <= 1
    BY DEF Exclusive
  <2>1. Running(k) \subseteq Holders(k)
    BY DEF Running, Holders
  <2>2. \A a, b \in Running(k) : a = b
    BY <2>1 DEF ExclInv, Safe
  <2>3. CASE Running(k) = {}
    BY <2>3, FS_EmptySet
  <2>4. CASE Running(k) # {}
    <3>1. PICK a : Running(k) = {a}
      BY <2>2, <2>4
    <3> QED BY <3>1, FS_Singleton
  <2> QED BY <2>3, <2>4
<1>2. TypeInv /\ ~Guarded(handler) /\ [Next]_vars => (~Guarded(handler))'
  BY HandlerKept
<1>3. ~Guarded(handler) => Exclusive
  BY DEF Exclusive
<1> QED BY <1>1, <1>2, <1>3, ExclInvariant, TypeInit, TypeStep, PTL DEF Spec

(***************************************************************************)
(* What a step can do to one row and to one result                         *)
(***************************************************************************)
RowStep(j) ==
    \/ executions'[j] = executions[j]
    \/ /\ Enqueuable(j) /\ HasStatus(j, {"queued", "leased"})'
       /\ HasStatus(j, {"leased"})'
            => \E c \in Caller : caller[c].key = j /\ (Lock(c) \/ RequeueCall(c))
       /\ executions[j] = Null => /\ executions'[j].retry_count = Null
                                  /\ executions'[j].leased_until = Null
       /\ executions[j] # Null => executions'[j].retry_count = executions[j].retry_count
    \/ HasStatus(j, {"queued"}) /\ executions'[j] = Leased(executions[j])
                                /\ \E n \in Node : n \in Handed(j)'
    \/ executions[j] # Null /\ executions'[j] = Renewed(executions[j])
                            /\ \E h \in heartbeats : h.key = j /\ HeartBeat(h)
    \/ LeaseExpired(j) /\ RetriesOver(j) /\ executions'[j] = Failed(executions[j], Failure)
    \/ LeaseExpired(j) /\ executions'[j] = Reaped(executions[j])
    \/ TtlOver(j) /\ executions'[j] = Null
    \/ executions[j] # Null /\ executions'[j] = Aged(executions[j]) /\ Tick
    \/ /\ executions'[j] = Null
       /\ \E c \in Caller : caller[c].pc = "finish" /\ caller[c].key = j
    \/ \E w \in Worker : worker[w].key = j /\ FinishTask(w)

LEMMA EnqueueRowStep ==
  ASSUME TypeInv, NEW c \in Caller, NEW k \in Key, NEW st \in {"queued", "leased"},
         Enqueue(k, MetaOf(k, st)), st = "leased" => caller[c].key = k /\ (Lock(c) \/ RequeueCall(c)),
         NEW j \in Key
  PROVE  RowStep(j)
<1>1. MetaOf(k, st) \in JobMeta /\ MetaOf(k, st).status = st
  BY MetaType, InvTypes
<1>2. executions[k] = Null /\ executions'[k] = NewRow(MetaOf(k, st))
        => executions'[k].retry_count = Null /\ executions'[k].leased_until = Null
  BY <1>1, NewRowRow
<1>3. /\ OnlyRow(k)
      /\ ~Enqueuable(k) => executions' = executions
      /\ Enqueuable(k) => /\ executions'[k] # Null /\ executions'[k].status = st
                          /\ executions[k] = Null => executions'[k] = NewRow(MetaOf(k, st))
                          /\ executions[k] # Null
                               => executions'[k].retry_count = executions[k].retry_count
  BY <1>1, EnqueueEffect, InvTypes
<1>4. CASE j = k /\ Enqueuable(k)
  BY <1>2, <1>3, <1>4 DEF RowStep, HasStatus
<1>5. CASE ~(j = k /\ Enqueuable(k))
  BY <1>3, <1>5 DEF RowStep, OnlyRow
<1> QED BY <1>4, <1>5

LEMMA RowSteps ==
  ASSUME TypeInv, [Next]_vars, NEW j \in Key
  PROVE  RowStep(j)
<1>0. TableTypeOK
  BY InvTypes
<1>1. ASSUME NEW c \in Caller, CallerStep(c) PROVE RowStep(j)
  <2>1. CASE EnqueueJob(c)
    <3>1. PICK k \in Key : k = caller[c].key
      BY <2>1, InvTypes DEF EnqueueJob
    <3> QED BY <2>1, <3>1, EnqueueRowStep DEF EnqueueJob
  <2>2. CASE Lock(c)
    <3>1. PICK k \in Key : k = caller[c].key
      BY <2>2, InvTypes DEF Lock
    <3> QED BY <2>2, <3>1, EnqueueRowStep DEF Lock
  <2>3. CASE RequeueCall(c)
    <3>1. PICK k \in Key : k = caller[c].key
      BY <2>3, InvTypes DEF RequeueCall
    <3> QED BY <2>3, <3>1, EnqueueRowStep DEF RequeueCall
  <2>4. CASE FinishCall(c)
    <3>1. PICK k \in Key : k = caller[c].key
      BY <2>4, InvTypes DEF FinishCall
    <3>2. executions' = executions \/ Free(k)
      BY <2>4, <3>1 DEF FinishCall, StoreOrFree, Done, tableVars
    <3>3. CASE Free(k)
      BY <1>0, <2>4, <3>1, <3>3, FreeEffect DEF RowStep, OnlyRow, FinishCall
    <3> QED BY <3>2, <3>3 DEF RowStep
  <2>5. CASE ~(EnqueueJob(c) \/ Lock(c) \/ RequeueCall(c) \/ FinishCall(c))
    BY <1>1, <2>5 DEF CallerStep, GoWait, Recall, Enter, HitAgain, WaitPoll, HandlerReturns,
                      RowStep, tableVars
  <2> QED BY <2>1, <2>2, <2>3, <2>4, <2>5
<1>2. ASSUME NEW n \in Node, DequeueTask(n) PROVE RowStep(j)
  <2>1. PICK k \in Key : /\ Dequeue(k, Key)
                         /\ dequeued' = [dequeued EXCEPT ![n] = [key |-> k, age |-> 0]]
    BY <1>2 DEF DequeueTask
  <2>2. dequeued'[n] = [key |-> k, age |-> 0] /\ [key |-> k, age |-> 0] \in Task
    BY <2>1, InvTypes, Constants DEF Task
  <2>3. n \in Handed(k)'
    BY <2>2, Constants DEF Handed
  <2> QED BY <1>0, <2>1, <2>3, DequeueEffect DEF RowStep, OnlyRow
<1>3. ASSUME NEW w \in Worker, WorkerStep(w) PROVE RowStep(j)
  <2>1. CASE FinishTask(w)
    <3>1. PICK k \in Key : k = worker[w].key
      BY <2>1, InvTypes DEF FinishTask
    <3> QED BY <2>1, <3>1, FinishTaskEffect DEF RowStep, OnlyRow
  <2> QED BY <1>3, <2>1 DEF WorkerStep, StartTask, TaskReturns, RowStep, tableVars
<1>4. ASSUME NEW h \in heartbeats, HeartBeat(h) PROVE RowStep(j)
  <2>1. h.key \in Key /\ LeaseUpdate(h.key)
    BY <1>4, InvTypes DEF HeartBeats, HeartBeat
  <2>2. /\ OnlyRow(h.key)
        /\ executions'[h.key] = IF executions[h.key] = Null THEN Null
                                ELSE Renewed(executions[h.key])
    BY <1>0, <2>1, LeaseUpdateEffect
  <2> QED BY <1>4, <2>2 DEF RowStep, OnlyRow
<1>5. ASSUME NEW n \in Node, ReapFirst(n) \/ ReapSecond(n) \/ ReapThird(n) PROVE RowStep(j)
  BY <1>0, <1>5, ReapErrorEffect, ReapRequeueEffect, ReapDeleteEffect
     DEF ReapFirst, ReapSecond, ReapThird, RowStep
<1>6. CASE Tick
  BY <1>0, <1>6, AgeRowsEffect DEF Tick, RowStep
<1> QED BY <1>1, <1>2, <1>3, <1>4, <1>5, <1>6
        DEF Next, Wheel, Call, Enter, Crash, RowStep, tableVars, vars

\* A result changes only when a goroutine that ran the handler stores its own.
ResultStep(j) ==
    \/ executions_results'[j] = executions_results[j]
    \/ /\ CacheExpire = Null
       /\ \/ \E c \in Caller : /\ caller[c].pc = "finish" /\ caller[c].key = j
                               /\ executions' = executions
          \/ \E w \in Worker : worker[w].pc = "finish" /\ worker[w].key = j
       /\ executions_results'[j] \in ResultRow

LEMMA ResultSteps ==
  ASSUME TypeInv, [Next]_vars, NEW j \in Key
  PROVE  ResultStep(j)
<1>0. TableTypeOK /\ CacheExpire \in Remaining
  BY InvTypes, HandlerType
<1>1. ASSUME NEW c \in Caller, FinishCall(c) PROVE ResultStep(j)
  <2>1. PICK k \in Key : k = caller[c].key
    BY <1>1, InvTypes DEF FinishCall
  <2>2. CASE Done(k, CacheExpire, StoredOf(caller[c].out))
    <3>1. /\ CacheExpire = Null => executions_results'[k] \in ResultRow
          /\ CacheExpire # Null => executions_results' = executions_results
          /\ \A i \in Key : i # k => executions_results'[i] = executions_results[i]
          /\ executions' = executions
      BY <1>0, <2>2, DoneEffect DEF Done, StoreResult, TableTypeOK
    <3> QED BY <1>1, <2>1, <3>1 DEF ResultStep, FinishCall, StoreOrFree
  <2> QED BY <1>1, <2>1, <2>2 DEF FinishCall, StoreOrFree, Free, tableVars, ResultStep
<1>2. ASSUME NEW w \in Worker, FinishTask(w) PROVE ResultStep(j)
  <2>1. PICK k \in Key : k = worker[w].key
    BY <1>2, InvTypes DEF FinishTask
  <2>2. CASE DoneAsync(k, CacheExpire, StoredOf(worker[w].out))
    <3>1. /\ CacheExpire = Null => executions_results'[k] \in ResultRow
          /\ CacheExpire # Null => executions_results' = executions_results
          /\ \A i \in Key : i # k => executions_results'[i] = executions_results[i]
      BY <1>0, <2>2, DoneAsyncEffect DEF DoneAsync, StoreResult, TableTypeOK
    <3> QED BY <1>2, <2>1, <3>1 DEF ResultStep, FinishTask
  <2> QED BY <1>2, <2>1, <2>2 DEF FinishTask, Free, Requeue, ResultStep
<1>3. ASSUME NEW c \in Caller, CallerStep(c) PROVE ResultStep(j)
  BY <1>1, <1>3 DEF CallerStep, EnqueueJob, GoWait, Recall, Enter, Lock, HitAgain, WaitPoll,
                    HandlerReturns, RequeueCall, Enqueue, tableVars, ResultStep
<1>4. ASSUME NEW w \in Worker, WorkerStep(w) PROVE ResultStep(j)
  BY <1>2, <1>4 DEF WorkerStep, StartTask, TaskReturns, tableVars, ResultStep
<1>5. ASSUME Wheel PROVE ResultStep(j)
  BY <1>5 DEF Wheel, HeartBeat, LeaseUpdate, ReapFirst, ReapSecond, ReapThird, ReapError,
              ReapRequeue, ReapDelete, ResultStep
<1> QED BY <1>3, <1>4, <1>5 DEF Next, Call, Enter, DequeueTask, Dequeue, Crash, Tick, tableVars,
                                vars, ResultStep

(***************************************************************************)
(* A cached row is kept until its ttl has passed                           *)
(***************************************************************************)
\* No enqueue, reaper, heartbeat or late finish drops or replaces a done row of a
\* guarded handler before its ttl: the goroutines that could are none while it is done.
THEOREM CachedRowKept == Spec /\ HandedInTime /\ Guarded(handler) => CacheKept
<1> DEFINE Kept == \A k \in Key :
             HasStatus(k, {"done"}) /\ Volatile /\ ~IsPast(executions[k].ttl)
                => /\ HasStatus(k, {"done"})'
                   /\ executions'[k].output = executions[k].output
<1>1. ExclInv /\ [Next]_vars => Kept
  <2> SUFFICES ASSUME ExclInv, [Next]_vars, NEW k \in Key, HasStatus(k, {"done"}),
                      ~IsPast(executions[k].ttl)
               PROVE  HasStatus(k, {"done"})' /\ executions'[k].output = executions[k].output
    OBVIOUS
  <2>1. executions[k] \in Row /\ executions[k].status = "done" /\ Null \notin Row
    BY InvTypes, RowThere, JobTableAssumption DEF ExclInv, HasStatus
  <2>2. Holders(k) = {}
    BY <2>1, NotLeasedVacant DEF ExclInv, HasStatus
  <2>3. \/ executions'[k] = executions[k]
        \/ executions'[k] = Renewed(executions[k])
        \/ executions'[k] = Aged(executions[k])
    <3>1. /\ ~Enqueuable(k) /\ ~HasStatus(k, {"queued"}) /\ ~LeaseExpired(k) /\ ~TtlOver(k)
      BY <2>1 DEF Enqueuable, HasStatus, LeaseExpired, TtlOver
    <3>2. /\ ~\E c \in Caller : caller[c].pc = "finish" /\ caller[c].key = k
          /\ ~\E w \in Worker : worker[w].key = k /\ FinishTask(w)
      BY <2>2 DEF Holders, FinishTask
    <3> QED BY <3>1, <3>2, RowSteps DEF RowStep, ExclInv
  <2> QED BY <2>1, <2>3, RenewedRow, AgedRow DEF HasStatus
<1>2. ExclInv /\ [Next]_vars => [Kept]_vars
  BY <1>1
<1> QED BY <1>2, ExclInvariant, PTL DEF CacheKept, Spec

(***************************************************************************)
(* Locks that are left behind                                              *)
(***************************************************************************)
\* A worker's row was leased by Dequeue, so its lease has an end.
WorkersLease == \A w \in Worker : worker[w].pc # "idle"
                   => executions[worker[w].key].leased_until # Null

LockInv == ExclInv /\ WorkersLease

\* Only the end of its handler, of call_job or of its node moves a caller that runs k.
LEMMA RunnerMoves ==
  ASSUME TypeInv, [Next]_vars, NEW c \in Caller, caller[c].pc \in {"run", "finish", "requeue"},
         caller'[c] # caller[c]
  PROVE  \/ caller'[c].pc = "finish" /\ caller'[c].key = caller[c].key
         \/ FinishCall(c) \/ RequeueCall(c)
         \/ caller'[c].pc = "idle" /\ crashes' # crashes
<1>1. ASSUME NEW d \in Caller, NEW k \in handler.input, NEW via \in handler.via, Call(d, k, via)
      PROVE  FALSE
  <2>1. k \in Key /\ Enter(d, k, via) /\ caller[d].pc = "idle"
    BY <1>1, InvTypes, HandlerType DEF Call
  <2> QED BY <2>1, EnterEffect
<1>2. ASSUME NEW d \in Caller, CallerStep(d)
      PROVE  \/ caller'[c].pc = "finish" /\ caller'[c].key = caller[c].key
             \/ FinishCall(c) \/ RequeueCall(c)
  <2>1. caller \in [Caller -> CallerState]
    BY InvTypes
  <2>2. \A e \in Caller : e # d => caller'[e] = caller[e]
    <3>1. CASE Recall(d)
      BY <3>1, InvTypes, EnterEffect DEF Recall
    <3>2. CASE \E o \in handler.outcome : HandlerReturns(d, o)
      BY <3>2, HandlerReturnsEffect
    <3> QED BY <1>2, <2>1, <3>1, <3>2 DEF CallerStep, EnqueueJob, GoWait, Lock, HitAgain, WaitPoll,
                                      FinishCall, RequeueCall, Goto, Return
  <2>3. d = c
    BY <2>2
  <2>4. CASE \E o \in handler.outcome : HandlerReturns(c, o)
    BY <2>4, HandlerReturnsEffect
  <2> QED BY <1>2, <2>3, <2>4 DEF CallerStep, EnqueueJob, GoWait, Recall, Lock, HitAgain, WaitPoll
<1>3. ASSUME NEW w \in Worker, WorkerStep(w) PROVE FALSE
  BY <1>3 DEF WorkerStep, StartTask, TaskReturns, FinishTask
<1>4. ASSUME Wheel PROVE FALSE
  BY <1>4 DEF Wheel, HeartBeat, ReapFirst, ReapSecond, ReapThird, ReaperVars
<1>5. ASSUME NEW n \in Node, Crash(n) PROVE caller'[c].pc = "idle" /\ crashes' # crashes
  BY <1>5, InvTypes, Constants DEF Crash, IdleCaller
<1> QED BY <1>1, <1>2, <1>3, <1>4, <1>5 DEF Next, DequeueTask, Tick, vars

LEMMA LockStep ==
  ASSUME LockInv, [Next]_vars
  PROVE  LockInv'
<1>0. ExclInv' /\ ExclInv /\ TypeInv /\ TypeInv'
  BY ExclStep DEF LockInv, ExclInv
<1> SUFFICES ASSUME NEW w \in Worker, worker'[w].pc # "idle"
             PROVE  executions'[worker'[w].key].leased_until # Null
  BY <1>0 DEF LockInv, WorkersLease
<1>1. PICK k \in Key : k = worker'[w].key
  BY <1>0 DEF TypeInv, Keyed
<1>2. CASE StartTask(w)
  <2>1. NodeOf[w] \in Handed(k)
    BY <1>0, <1>1, <1>2, InvTypes, Constants DEF StartTask, Handed
  <2>2. executions[k].leased_until \in Int /\ executions' = executions
    BY <1>0, <1>2, <2>1 DEF ExclInv, Safe, Fresh, StartTask, tableVars
  <2> QED BY <1>1, <2>2, JobTableAssumption
<1>3. CASE ~StartTask(w)
  <2>1. worker[w].pc # "idle" /\ worker[w].key = k
    <3>1. CASE worker'[w] = worker[w]
      BY <1>1, <3>1
    <3>2. ASSUME NEW v \in Worker, StartTask(v) PROVE worker'[w] = worker[w]
      BY <1>0, <1>3, <3>2, InvTypes DEF StartTask
    <3>3. ASSUME NEW v \in Worker, NEW o \in handler.outcome, TaskReturns(v, o)
          PROVE  worker[w].pc # "idle" /\ worker[w].key = k
      BY <1>0, <1>1, <3>1, <3>3, TaskReturnsEffect
    <3>4. ASSUME NEW v \in Worker, FinishTask(v) PROVE worker'[w] = worker[w]
      BY <1>0, <3>4, InvTypes DEF FinishTask, IdleWorker
    <3>5. ASSUME NEW n \in Node, Crash(n) PROVE worker'[w] = worker[w]
      BY <3>5 DEF Crash, IdleWorker
    <3>6. ASSUME NEW c \in Caller, CallerStep(c) PROVE worker'[w] = worker[w]
      BY <3>6 DEF CallerStep, EnqueueJob, GoWait, Recall, Enter, Lock, HitAgain, WaitPoll,
                  HandlerReturns, FinishCall, RequeueCall
    <3>7. ASSUME Wheel PROVE worker'[w] = worker[w]
      BY <3>7 DEF Wheel, HeartBeat, ReapFirst, ReapSecond, ReapThird, ReaperVars
    <3> QED BY <3>1, <3>2, <3>3, <3>4, <3>5, <3>6, <3>7
            DEF Next, WorkerStep, Call, Enter, DequeueTask, Tick, vars
  <2>2. w \in Holders(k) /\ Safe(k) /\ executions[k].leased_until # Null
    BY <1>0, <2>1 DEF Holders, ExclInv, LockInv, WorkersLease
  <2>3. executions[k] \in Row /\ executions[k].status = "leased"
    BY <1>0, <2>2, InvTypes, RowThere DEF Safe, HasStatus
  <2>4. executions'[k] # Null
    <3>1. w \in Holders(k)'
      BY <1>1 DEF Holders
    <3> QED BY <1>0, <3>1 DEF ExclInv, Safe, HasStatus
  <2>5. ~LeaseExpired(k) /\ ~Enqueuable(k) /\ ~HasStatus(k, {"queued"})
    <3>1. ~LeaseExpired(k)
      BY <1>0, <2>2, ExpiredVacant
    <3>2. executions[k] # Null
      BY <2>3, JobTableAssumption
    <3> QED BY <2>3, <3>1, <3>2 DEF Enqueuable, HasStatus
  <2>6. ~\E v \in Worker : worker[v].key = k /\ FinishTask(v)
    <3> SUFFICES ASSUME NEW v \in Worker, worker[v].key = k, FinishTask(v) PROVE FALSE
      OBVIOUS
    <3>1. v \in Holders(k)
      BY DEF Holders, FinishTask
    <3>2. v = w
      BY <2>2, <3>1 DEF Safe
    <3> QED BY <1>0, <3>2, FinishTaskEffect
  <2>7. \/ executions'[k] = executions[k]
        \/ executions'[k] = Renewed(executions[k])
        \/ executions'[k] = Aged(executions[k])
    BY <1>0, <2>4, <2>5, <2>6, RowSteps DEF RowStep
  <2>8. executions[k].leased_until \in Int
    BY <2>2, <2>3 DEF Row, Remaining
  <2>9. LeaseDuration # Null /\ Elapse(executions[k].leased_until) # Null
    BY <2>8, Constants, JobTableAssumption DEF Elapse, Past
  <2> QED BY <1>1, <2>2, <2>3, <2>7, <2>9, RenewedRow, AgedRow
<1> QED BY <1>2, <1>3

\* A lock without a lease was somebody's: a caller is about to leave it, in one of three ways.
LEMMA LockLeft ==
  ASSUME LockInv, [Next]_vars, NEW k \in Key, ~Stuck(k), Stuck(k)',
         HasStatus(k, {"leased"}), executions[k].leased_until = Null, Result(k, Volatile) # "finished"
  PROVE  \E c \in Caller : LeavesLock(c, k)
<1>0. TypeInv /\ ExclInv /\ TypeInv' /\ handler' = handler
  BY TypeStep, HandlerKept DEF LockInv, ExclInv
<1>1. Held(k) /\ ~Held(k)'
  BY DEF Stuck
<1>2. ~\E w \in Worker : worker[w].pc # "idle" /\ worker[w].key = k
  BY DEF LockInv, WorkersLease
<1>3. ~\E n \in Node : dequeued[n] # Null /\ dequeued[n].key = k
  <2> SUFFICES ASSUME NEW n \in Node, n \in Handed(k) PROVE FALSE
    BY DEF Handed
  <2>1. executions[k].leased_until \in Int
    BY DEF LockInv, ExclInv, Safe, Fresh
  <2> QED BY <2>1, JobTableAssumption
<1>4. PICK c \in Caller : caller[c].pc \in {"run", "finish", "requeue"} /\ caller[c].key = k
  BY <1>1, <1>2, <1>3 DEF Held
<1>5. caller'[c] # caller[c] /\ ~(caller'[c].pc \in {"run", "finish", "requeue"} /\ caller'[c].key = k)
  BY <1>1, <1>4 DEF Held
<1>6. CASE RequeueCall(c)
  BY <1>0, <1>4, <1>6, InvTypes DEF RequeueCall, Return, IdleCaller, LeavesLock
<1>7. CASE caller'[c].pc = "idle" /\ crashes' # crashes
  BY <1>4, <1>7 DEF LeavesLock
<1>8. CASE FinishCall(c)
  <2>1. caller[c].pc = "finish" /\ caller[c].out # "requeue" /\ caller'[c].pc = "idle"
    BY <1>0, <1>4, <1>5, <1>8, InvTypes DEF FinishCall, Goto, Return, IdleCaller, CallerState
  <2>2. CASE ~Cache
    <3>1. Free(k)
      BY <1>4, <1>8, <2>2 DEF FinishCall, StoreOrFree
    <3>2. executions'[k] = Null
      BY <1>0, <3>1, InvTypes, FreeEffect
    <3> QED BY <3>2 DEF Stuck, HasStatus
  <2>3. CASE Cache /\ (Volatile \/ caller[c].out \in {"abort", "syserr"})
    BY <1>4, <2>1, <2>3 DEF LeavesLock
  <2>4. CASE Cache /\ ~Volatile /\ caller[c].out \notin {"abort", "syserr"}
    <3>1. Done(k, Null, StoredOf(caller[c].out))
      BY <1>4, <1>8, <2>1, <2>4 DEF FinishCall, StoreOrFree, Aborted, CacheExpire, Volatile
    <3>2. executions_results'[k] \in ResultRow /\ Null \notin ResultRow
      BY <1>0, <3>1, InvTypes, DoneEffect, JobTableAssumption DEF Remaining
    <3>3. executions_results'[k] # Null /\ executions_results'[k].status \in {"done", "error"}
      BY <3>2 DEF ResultRow
    <3>4. ~Volatile'
      BY <1>0, <2>4 DEF Volatile, CacheExpire
    <3> QED BY <3>3, <3>4 DEF Stuck, Result, Lookup
  <2> QED BY <2>2, <2>3, <2>4
<1> QED BY <1>0, <1>4, <1>5, <1>6, <1>7, <1>8, RunnerMoves

\* The lock of a guarded handler outlives everybody who could free it only when a caller's node
\* dies, when a caller requeues its job as leased, or when a caching handler stored nothing: no
\* crash of a worker, reaper, heartbeat or handler that simply returned strands a key.
THEOREM StuckByCall == Spec /\ HandedInTime /\ Guarded(handler) => StuckOnlyByCall
<1> DEFINE Left == \A k \in Key : ~Stuck(k) /\ Stuck(k)' => \E c \in Caller : LeavesLock(c, k)
<1>1. Init /\ HandedInTime /\ Guarded(handler) => LockInv
  <2> SUFFICES ASSUME Init, HandedInTime, Guarded(handler) PROVE LockInv
    OBVIOUS
  <2> QED BY ExclInit DEF LockInv, WorkersLease, Init, IdleWorker
<1>2. LockInv /\ [Next]_vars => LockInv'
  BY LockStep
<1>3. LockInv /\ [Next]_vars => Left
  <2> SUFFICES ASSUME LockInv, [Next]_vars, NEW k \in Key, ~Stuck(k), Stuck(k)'
               PROVE  \E c \in Caller : LeavesLock(c, k)
    OBVIOUS
  <2>0. TypeInv /\ ExclInv /\ TypeInv' /\ handler' = handler
    BY TypeStep, HandlerKept DEF LockInv, ExclInv
  <2>1. /\ executions'[k] # Null /\ executions'[k].status = "leased"
        /\ executions'[k].leased_until = Null /\ ~Held(k)'
    BY DEF Stuck, HasStatus
  <2>2. executions[k] # Null => executions[k] \in Row
    BY <2>0, InvTypes, RowThere
  <2>3. LeaseDuration # Null /\ \A t \in Remaining : t # Null => Elapse(t) # Null
    BY Constants, JobTableAssumption DEF Elapse, Remaining, Past
  <2>4. CASE \E c \in Caller : caller[c].key = k /\ RequeueCall(c)
    BY <2>0, <2>4, InvTypes DEF RequeueCall, Return, IdleCaller, LeavesLock
  <2>5. ~(Enqueuable(k) /\ \E c \in Caller : caller[c].key = k /\ Lock(c))
    <3> SUFFICES ASSUME Enqueuable(k), NEW c \in Caller, caller[c].key = k, Lock(c) PROVE FALSE
      OBVIOUS
    <3>1. caller'[c].pc = "run" /\ caller'[c].key = k
      BY <2>0, InvTypes, GotoEffect DEF Lock, CallerPc
    <3> QED BY <2>1, <3>1 DEF Held
  <2>6. ~\E w \in Worker : worker[w].key = k /\ FinishTask(w)
    <3>1. SUFFICES ASSUME NEW w \in Worker, worker[w].key = k, FinishTask(w) PROVE FALSE
      OBVIOUS
    <3> QED BY <2>0, <2>1, <3>1, FinishTaskEffect DEF HasStatus
  <2>7. ~(LeaseExpired(k) /\ executions'[k] \in {Failed(executions[k], Failure), Reaped(executions[k])})
    BY <2>1, <2>2, FailedRow, ReapedRow, JobSystemAssumption DEF LeaseExpired, HasStatus
  <2>8. ~(executions[k] # Null /\ executions'[k] \in {Leased(executions[k]), Renewed(executions[k])})
    BY <2>1, <2>2, <2>3, LeasedRow, RenewedRow
  <2>9. CASE \/ executions'[k] = executions[k]
             \/ executions[k] # Null /\ executions'[k] = Aged(executions[k]) /\ Tick
    <3>1. /\ executions[k] # Null /\ executions[k].status = "leased"
          /\ executions[k].leased_until = Null
      <4>1. CASE executions'[k] = executions[k]
        BY <2>1, <4>1
      <4>2. CASE executions[k] # Null /\ executions'[k] = Aged(executions[k])
        <5>1. executions[k].leased_until \in Remaining
          BY <2>2, <4>2 DEF Row
        <5> QED BY <2>1, <2>2, <2>3, <4>2, <5>1, AgedRow
      <4> QED BY <2>9, <4>1, <4>2
    <3>2. Result(k, Volatile) # "finished"
      <4>1. CASE Volatile
        BY <3>1, <4>1 DEF Result, Lookup
      <4>2. CASE ~Volatile
        <5>1. ~Volatile'
          BY <2>0, <4>2 DEF Volatile, CacheExpire
        <5>2. executions_results'[k] \notin ResultRow
          <6> SUFFICES ASSUME executions_results'[k] \in ResultRow PROVE FALSE
            OBVIOUS
          <6>1. executions_results'[k] # Null /\ executions_results'[k].status \in {"done", "error"}
            BY JobTableAssumption DEF ResultRow
          <6> QED BY <5>1, <6>1 DEF Stuck, Result, Lookup
        <5>3. executions_results'[k] = executions_results[k]
          BY <2>0, <5>2, ResultSteps DEF ResultStep
        <5> QED BY <4>2, <5>1, <5>3 DEF Stuck, Result, Lookup
      <4> QED BY <4>1, <4>2
    <3> QED BY <3>1, <3>2, LockLeft DEF HasStatus
  <2>10. RowStep(k)
    BY <2>0, RowSteps
  <2> QED BY <2>1, <2>4, <2>5, <2>6, <2>7, <2>8, <2>9, <2>10 DEF RowStep, HasStatus
<1>4. LockInv /\ [Next]_vars => [Left]_vars
  BY <1>3
<1> QED BY <1>1, <1>2, <1>4, PTL DEF StuckOnlyByCall, Spec

(***************************************************************************)
(* Persistent results                                                      *)
(***************************************************************************)
\* A job with a persistent result is closed for good.
ResultInv ==
    /\ ExclInv /\ Queued(handler) /\ handler.expire = Null
    /\ \A k \in Key : executions_results[k] # Null
                        => HasStatus(k, {"done", "error"}) /\ executions[k].ttl = Null

\* A closed job has no goroutine left that could store a second result.
LEMMA ClosedHasNoHolder ==
  ASSUME ResultInv, NEW k \in Key, executions_results[k] # Null
  PROVE  /\ ~\E c \in Caller : caller[c].pc = "finish" /\ caller[c].key = k
         /\ ~\E w \in Worker : worker[w].pc = "finish" /\ worker[w].key = k
<1>1. Holders(k) = {}
  BY NotLeasedVacant DEF ResultInv, ExclInv, HasStatus
<1> QED BY <1>1 DEF Holders

LEMMA ResultInvStep ==
  ASSUME ResultInv, [Next]_vars
  PROVE  ResultInv'
<1>1. ExclInv' /\ handler' = handler
  BY ExclStep, HandlerKept DEF ResultInv
<1>2. ASSUME NEW k \in Key, executions_results'[k] # Null
      PROVE  HasStatus(k, {"done", "error"})' /\ executions'[k].ttl = Null
  <2>1. TypeInv /\ CacheExpire = Null
    BY DEF ResultInv, ExclInv, CacheExpire
  <2>2. CASE executions_results[k] = Null
    <3>1. \/ \E c \in Caller : caller[c].pc = "finish" /\ caller[c].key = k
          \/ \E w \in Worker : worker[w].pc = "finish" /\ worker[w].key = k
      BY <1>2, <2>1, <2>2, ResultSteps DEF ResultStep
    <3>2. PICK w \in Worker : worker[w].pc = "finish" /\ worker[w].key = k
      BY <3>1 DEF ResultInv, ExclInv, Path
    <3>3. w \in Holders(k)
      BY <3>2 DEF Holders
    <3>4. HasStatus(k, {"leased"})
      BY <3>3 DEF ResultInv, ExclInv, Safe
    <3>5. PICK v \in Worker : worker[v].key = k /\ FinishTask(v)
      <4>1. executions_results' # executions_results
        BY <1>2, <2>2
      <4>2. ASSUME NEW v \in Worker, FinishTask(v) PROVE worker[v].key = k
        <5>1. PICK i \in Key : i = worker[v].key
          BY <2>1, <4>2, InvTypes DEF FinishTask
        <5> QED BY <1>2, <2>1, <2>2, <4>2, <5>1, FinishTaskEffect
      <4>3. ASSUME NEW v \in Worker, WorkerStep(v) PROVE FinishTask(v)
        BY <4>1, <4>3 DEF WorkerStep, StartTask, TaskReturns, tableVars
      <4>4. ASSUME NEW c \in Caller, CallerStep(c) PROVE FALSE
        BY <4>1, <4>4 DEF CallerStep, EnqueueJob, Enqueue, GoWait, Recall, Enter, Lock, HitAgain,
                          WaitPoll, HandlerReturns, FinishCall, StoreOrFree, RequeueCall, tableVars, ResultInv,
                          ExclInv, Path
      <4>5. ~Wheel
        BY <4>1 DEF Wheel, HeartBeat, LeaseUpdate, ReapFirst, ReapSecond, ReapThird, ReapError,
                    ReapRequeue, ReapDelete
      <4> QED BY <4>1, <4>2, <4>3, <4>4, <4>5 DEF Next, Call, Enter, DequeueTask, Dequeue, Crash,
                                                   Tick, tableVars, vars
    <3>6. executions_results' # executions_results /\ executions[k] # Null
      BY <1>2, <2>2, <3>4 DEF HasStatus
    <3> QED BY <2>1, <3>5, <3>6, FinishTaskEffect
  <2>3. CASE executions_results[k] # Null
    <3>1. /\ HasStatus(k, {"done", "error"}) /\ executions[k].ttl = Null
          /\ executions[k] \in Row /\ Null \notin Row
      BY <2>1, <2>3, InvTypes, RowThere, JobTableAssumption DEF ResultInv, HasStatus
    <3>2. \/ executions'[k] = executions[k]
          \/ executions'[k] = Renewed(executions[k])
          \/ executions'[k] = Aged(executions[k])
      <4>1. /\ ~Enqueuable(k) /\ ~HasStatus(k, {"queued"}) /\ ~LeaseExpired(k) /\ ~TtlOver(k)
        BY <3>1 DEF Enqueuable, HasStatus, LeaseExpired, TtlOver, IsPast
      <4> QED BY <2>1, <2>3, <4>1, ClosedHasNoHolder, RowSteps DEF RowStep, FinishTask
    <3>3. Elapse(Null) = Null
      BY DEF Elapse
    <3> QED BY <3>1, <3>2, <3>3, RenewedRow, AgedRow DEF HasStatus
  <2> QED BY <2>2, <2>3
<1> QED BY <1>1, <1>2 DEF ResultInv

\* A persistent result is never replaced once it can be read: a queued job stores it
\* in the transaction that closes the row, and nobody runs a closed row again; with
\* CacheExpire nothing is ever written to executions_results.
THEOREM ResultsKept ==
  Spec /\ (handler.expire # Null \/ (Queued(handler) /\ HandedInTime)) => ResultStable
<1> DEFINE Kept == \A k \in Key : executions_results[k] # Null
                                    => executions_results'[k] = executions_results[k]
<1> DEFINE Vol == TypeInv /\ handler.expire # Null
<1>1. Init /\ handler.expire # Null => Vol
  BY TypeInit
<1>2. Vol /\ [Next]_vars => Vol'
  BY TypeStep, HandlerKept
<1>3. Vol /\ [Next]_vars => [Kept]_vars
  BY ResultSteps DEF ResultStep, CacheExpire
<1>4. Init /\ Queued(handler) /\ HandedInTime /\ handler.expire = Null => ResultInv
  <2> SUFFICES ASSUME Init, Queued(handler), HandedInTime, handler.expire = Null PROVE ResultInv
    OBVIOUS
  <2>1. ExclInv
    BY ExclInit DEF Guarded
  <2> QED BY <2>1 DEF ResultInv, Init, TableInit
<1>5. ResultInv /\ [Next]_vars => ResultInv'
  BY ResultInvStep
<1>6. ResultInv /\ [Next]_vars => [Kept]_vars
  <2> SUFFICES ASSUME ResultInv, [Next]_vars, NEW k \in Key, executions_results[k] # Null
               PROVE  executions_results'[k] = executions_results[k]
    OBVIOUS
  <2> QED BY ClosedHasNoHolder, ResultSteps DEF ResultStep, ResultInv, ExclInv
<1>7. handler.expire # Null \/ handler.expire = Null
  OBVIOUS
<1> QED BY <1>1, <1>2, <1>3, <1>4, <1>5, <1>6, <1>7, PTL DEF ResultStable, Spec

(***************************************************************************)
(* Leases kept alive by a heartbeat that nothing cancels                   *)
(***************************************************************************)
\* The lease never ends, or a heartbeat the wheel has re-added comes before its end.
KeptAlive(k) ==
    \/ executions[k].leased_until = Null
    \/ \E h \in heartbeats : h.key = k /\ h.owner = Null /\ Covers(h, executions[k].leased_until)

\* Nobody cancels such a heartbeat.
LEMMA KeptAliveSame ==
  ASSUME NEW k \in Key, KeptAlive(k), executions'[k] = executions[k],
         \A h \in heartbeats : h.owner = Null => h \in heartbeats'
  PROVE  KeptAlive(k)'
  BY DEF KeptAlive

LEMMA CancelKeepsOrphans ==
  ASSUME NEW a \in Caller \cup Worker, NEW h \in heartbeats, h.owner = Null
  PROVE  h \in Cancel(a)
  BY JobSystemAssumption DEF Cancel

LEMMA KeptAliveExpired ==
  ASSUME TypeInv, NEW k \in Key, LeaseExpired(k) PROVE ~KeptAlive(k)
<1>1. /\ executions[k].leased_until # Null /\ executions[k].leased_until < 0
      /\ executions[k].leased_until \in Int
  BY InvTypes, RowThere DEF LeaseExpired, HasStatus, IsPast, Row, Remaining
<1>2. \A h \in heartbeats : h.due \in Nat
  BY InvTypes, Constants DEF HeartBeats
<1> QED BY <1>1, <1>2 DEF KeptAlive, Covers

LEMMA KeptAliveTick ==
  ASSUME TypeInv, Tick, NEW k \in Key, executions[k] # Null, KeptAlive(k)
  PROVE  KeptAlive(k)'
<1>1. /\ executions'[k].leased_until = Elapse(executions[k].leased_until)
      /\ executions[k].leased_until \in Remaining
  BY TickEffect
<1>2. CASE executions[k].leased_until = Null
  BY <1>1, <1>2 DEF KeptAlive, Elapse
<1>3. CASE executions[k].leased_until # Null
  <2>1. PICK h \in heartbeats : h.key = k /\ h.owner = Null /\ Covers(h, executions[k].leased_until)
    BY <1>3 DEF KeptAlive
  <2>2. h \in HeartBeats /\ h.due > 0 /\ Nearer(h) \in heartbeats'
    BY TickEffect
  <2>3. Nearer(h).key = k /\ Nearer(h).owner = Null
    BY <2>1, <2>2, NearerType
  <2>4. Covers(Nearer(h), executions'[k].leased_until)
    BY <1>1, <2>1, <2>2, CoversNearer
  <2> QED BY <2>2, <2>3, <2>4 DEF KeptAlive
<1> QED BY <1>2, <1>3

\* A row that a heartbeat has renewed is kept alive; the others stay as they were.
LEMMA KeptAliveBeat ==
  ASSUME TypeInv, NEW h \in heartbeats, HeartBeat(h), NEW k \in Key, executions[k] # Null,
         KeptAlive(k) \/ h.key = k
  PROVE  KeptAlive(k)'
<1>1. h \in HeartBeats /\ h.key \in Key /\ LeaseUpdate(h.key)
  BY InvTypes DEF HeartBeats, HeartBeat
<1>2. heartbeats' = (heartbeats \ {h}) \cup {Rebeat(h)}
  BY DEF HeartBeat, Rebeat
<1>3. /\ OnlyRow(h.key)
      /\ executions'[h.key] = IF executions[h.key] = Null THEN Null
                              ELSE Renewed(executions[h.key])
  BY <1>1, InvTypes, LeaseUpdateEffect
<1>4. CASE h.key = k
  <2>1. executions'[k].leased_until = LeaseDuration
    BY <1>3, <1>4, InvTypes, RowThere, RenewedRow
  <2>2. Rebeat(h).key = k /\ Rebeat(h).owner = Null /\ Rebeat(h) \in HeartBeats
    BY <1>1, <1>4, RebeatType
  <2> QED BY <1>2, <2>1, <2>2, BeatsCoverLease DEF KeptAlive
<1>5. CASE h.key # k
  BY <1>2, <1>3, <1>5 DEF KeptAlive, OnlyRow
<1> QED BY <1>4, <1>5

(***************************************************************************)
(* A once handler runs once                                                *)
(***************************************************************************)
\* Without a crash: nothing is ever queued, and a lock once taken is never given up.
OnceInv ==
    /\ \A w \in Worker : worker[w].pc = "idle"
    /\ \A n \in Node : dequeued[n] = Null
    /\ \A c \in Caller : /\ caller[c].pc \notin {"enqueue", "gowait", "recall"}
                         /\ caller[c].pc \in {"run", "finish", "requeue"}
                               => executions[caller[c].key] # Null
    /\ \A k \in Key : \/ executions[k] = Null /\ runs[k] = 0
                      \/ HasStatus(k, {"leased"}) /\ runs[k] <= 1 /\ KeptAlive(k)

RunsInv == TypeInv /\ crashes = 0 /\ handler.mode = "once" /\ OnceInv

\* One caller moves, no row, run or heartbeat changes but for heartbeats with an owner.
LEMMA OnceQuiet ==
  ASSUME RunsInv, NEW c \in Caller, \A d \in Caller : d # c => caller'[d] = caller[d],
         /\ caller'[c].pc \notin {"enqueue", "gowait", "recall"}
         /\ caller'[c].pc \in {"run", "finish", "requeue"}
               => caller[c].pc \in {"run", "finish", "requeue"} /\ caller'[c].key = caller[c].key,
         UNCHANGED <<executions, worker, dequeued, runs>>,
         heartbeats' \in {heartbeats, Cancel(c)}
  PROVE  OnceInv'
<1>1. \A h \in heartbeats : h.owner = Null => h \in heartbeats'
  BY CancelKeepsOrphans
<1>2. ASSUME NEW k \in Key, KeptAlive(k) PROVE KeptAlive(k)'
  BY <1>1, <1>2, KeptAliveSame
<1>3. ASSUME NEW k \in Key
      PROVE  \/ executions'[k] = Null /\ runs'[k] = 0
             \/ HasStatus(k, {"leased"})' /\ runs'[k] <= 1 /\ KeptAlive(k)'
  BY <1>2 DEF RunsInv, OnceInv, HasStatus
<1>4. ASSUME NEW d \in Caller
      PROVE  /\ caller'[d].pc \notin {"enqueue", "gowait", "recall"}
             /\ caller'[d].pc \in {"run", "finish", "requeue"} => executions'[caller'[d].key] # Null
  BY DEF RunsInv, OnceInv
<1> QED BY <1>3, <1>4 DEF RunsInv, OnceInv

LEMMA OnceEnter ==
  ASSUME RunsInv, NEW c \in Caller, NEW k \in Key, NEW via, Enter(c, k, via)
  PROVE  OnceInv'
<1>1. AfterHit(via) = "lock"
  BY DEF RunsInv, AfterHit, Async, Dedupe, Mode
<1>2. /\ caller'[c].pc \in {"idle", "lock"} /\ runs' = runs
      /\ \A d \in Caller : d # c => caller'[d] = caller[d]
  BY <1>1, EnterEffect DEF RunsInv
<1> QED BY <1>2, OnceQuiet DEF Enter, tableVars

LEMMA OnceLock ==
  ASSUME RunsInv, NEW c \in Caller, Lock(c)
  PROVE  OnceInv'
<1> USE DEF RunsInv
<1>1. PICK k \in Key : k = caller[c].key
  BY InvTypes DEF Lock
<1>2. Enqueue(k, MetaOf(k, "leased")) /\ UNCHANGED <<worker, dequeued>>
  BY <1>1 DEF Lock
<1>3. MetaOf(k, "leased") \in JobMeta /\ MetaOf(k, "leased").status = "leased" /\ TableTypeOK
  BY MetaType, InvTypes
<1>4. CASE ~Enqueuable(k)
  <2>1. /\ caller'[c].pc \in {"idle", "hitagain"} /\ UNCHANGED <<heartbeats, runs>>
        /\ \A d \in Caller : d # c => caller'[d] = caller[d]
    BY <1>1, <1>4, InvTypes DEF Lock, Goto, Return, IdleCaller, CallerState
  <2>2. executions' = executions
    BY <1>2, <1>3, <1>4, EnqueueEffect
  <2> QED BY <1>2, <2>1, <2>2, OnceQuiet
<1>5. CASE Enqueuable(k)
  <2>1. Goto(c, "run") /\ heartbeats' = heartbeats \cup {Beat(c, k)} /\ Count(k)
    BY <1>1, <1>5 DEF Lock
  <2>2. /\ caller'[c].pc = "run" /\ caller'[c].key = k
        /\ \A d \in Caller : d # c => caller'[d] = caller[d]
    BY <1>1, <2>1, InvTypes, GotoEffect DEF CallerPc
  <2>3. executions[k] = Null /\ runs[k] = 0
    BY <1>5 DEF OnceInv, Enqueuable, HasStatus
  <2>4. /\ executions'[k] # Null /\ executions'[k].status = "leased"
        /\ executions'[k].leased_until = Null /\ OnlyRow(k)
    BY <1>2, <1>3, <1>5, <2>3, EnqueueEffect, NewRowRow
  <2>5. runs'[k] <= 1 /\ \A j \in Key : j # k => runs'[j] = runs[j]
    BY <2>1, <2>3, InvTypes DEF Count
  <2>6. ASSUME NEW j \in Key
        PROVE  \/ executions'[j] = Null /\ runs'[j] = 0
               \/ HasStatus(j, {"leased"})' /\ runs'[j] <= 1 /\ KeptAlive(j)'
    <3>1. CASE j = k
      BY <2>4, <2>5, <3>1 DEF HasStatus, KeptAlive
    <3>2. CASE j # k
      <4>1. executions'[j] = executions[j] /\ runs'[j] = runs[j]
        BY <2>4, <2>5, <3>2 DEF OnlyRow
      <4>2. KeptAlive(j) => KeptAlive(j)'
        BY <2>1, <4>1, KeptAliveSame
      <4> QED BY <4>1, <4>2 DEF OnceInv, HasStatus
    <3> QED BY <3>1, <3>2
  <2>7. ASSUME NEW d \in Caller
        PROVE  /\ caller'[d].pc \notin {"enqueue", "gowait", "recall"}
               /\ caller'[d].pc \in {"run", "finish", "requeue"} => executions'[caller'[d].key] # Null
    <3>1. CASE d = c
      BY <2>2, <2>4, <3>1
    <3>2. CASE d # c
      <4>1. caller'[d] = caller[d]
        BY <2>2, <3>2
      <4>2. caller[d].pc \in {"run", "finish", "requeue"} =>
               caller[d].key \in Key /\ executions[caller[d].key] # Null
        BY InvTypes DEF OnceInv
      <4> QED BY <2>3, <2>4, <4>1, <4>2 DEF OnceInv, OnlyRow
    <3> QED BY <3>1, <3>2
  <2> QED BY <1>2, <2>6, <2>7 DEF OnceInv
<1> QED BY <1>4, <1>5

LEMMA OnceCallerStep ==
  ASSUME RunsInv, NEW c \in Caller, CallerStep(c)
  PROVE  OnceInv'
<1> USE DEF RunsInv
<1>0. caller \in [Caller -> CallerState]
  BY InvTypes
<1>1. ~EnqueueJob(c) /\ ~GoWait(c) /\ ~Recall(c)
  BY DEF OnceInv, EnqueueJob, GoWait, Recall
<1>2. CASE HitAgain(c)
  <2>1. /\ caller'[c].pc \in {"idle", "wait"}
        /\ \A d \in Caller : d # c => caller'[d] = caller[d]
    BY <1>0, <1>2 DEF HitAgain, Goto, Return, IdleCaller, CallerState
  <2> QED BY <1>2, <2>1, OnceQuiet DEF HitAgain, tableVars
<1>3. CASE WaitPoll(c)
  <2>1. caller'[c].pc = "idle" /\ \A d \in Caller : d # c => caller'[d] = caller[d]
    BY <1>3, InvTypes, HitReplyType, ReturnEffect DEF WaitPoll
  <2> QED BY <1>3, <2>1, OnceQuiet DEF WaitPoll, tableVars
<1>4. CASE \E o \in handler.outcome : HandlerReturns(c, o)
  <2>1. PICK o \in handler.outcome : HandlerReturns(c, o)
    BY <1>4
  <2>2. /\ caller[c].pc = "run" /\ caller'[c].pc = "finish" /\ caller'[c].key = caller[c].key
        /\ \A d \in Caller : d # c => caller'[d] = caller[d]
    BY <2>1, HandlerReturnsEffect
  <2> QED BY <2>1, <2>2, OnceQuiet DEF HandlerReturns, tableVars
<1>5. CASE FinishCall(c)
  <2>1. /\ caller'[c].pc = "idle" \/ (caller'[c].pc = "requeue" /\ caller'[c].key = caller[c].key)
        /\ caller[c].pc = "finish" /\ \A d \in Caller : d # c => caller'[d] = caller[d]
    BY <1>0, <1>5 DEF FinishCall, Goto, Return, IdleCaller, CallerState
  <2>2. Cache
    BY DEF Cache, Mode
  <2>3. executions' = executions /\ heartbeats' \in {heartbeats, Cancel(c)}
    BY <1>5, <2>2 DEF FinishCall, StoreOrFree, Done, tableVars
  <2> QED BY <1>5, <2>1, <2>3, OnceQuiet DEF FinishCall, StoreOrFree
<1>6. CASE RequeueCall(c)
  <2>1. PICK k \in Key : k = caller[c].key
    BY <1>6, InvTypes DEF RequeueCall
  <2>2. PICK st \in {"queued", "leased"} : Enqueue(k, MetaOf(k, st))
    BY <1>6, <2>1 DEF RequeueCall
  <2>3. ~Enqueuable(k)
    BY <1>6, <2>1 DEF OnceInv, RequeueCall, Enqueuable, HasStatus
  <2>4. executions' = executions
    BY <2>2, <2>3 DEF Enqueue
  <2>5. /\ caller'[c].pc = "idle" /\ heartbeats' = Cancel(c)
        /\ \A d \in Caller : d # c => caller'[d] = caller[d]
    BY <1>0, <1>6 DEF RequeueCall, Return, IdleCaller
  <2> QED BY <1>6, <2>4, <2>5, OnceQuiet DEF RequeueCall
<1> QED BY <1>1, <1>2, <1>3, <1>4, <1>5, <1>6, OnceLock DEF CallerStep

LEMMA OnceStep ==
  ASSUME RunsInv, [Next]_vars
  PROVE  RunsInv' \/ crashes' # 0
<1> USE DEF RunsInv
<1>1. TypeInv' /\ handler' = handler
  BY TypeStep, HandlerKept
<1>2. ASSUME NEW c \in Caller, NEW k \in handler.input, NEW via \in handler.via, Call(c, k, via)
      PROVE  OnceInv'
  BY <1>2, InvTypes, HandlerType, OnceEnter DEF Call
<1>3. ASSUME NEW n \in Node, DequeueTask(n) PROVE FALSE
  BY <1>3 DEF DequeueTask, Dequeue, IsNext, Runnable, OnceInv, HasStatus
<1>4. ASSUME NEW n \in Node, Crash(n) PROVE crashes' # 0
  BY <1>4 DEF Crash
<1>5. ASSUME NEW w \in Worker, WorkerStep(w) PROVE FALSE
  BY <1>5, Constants DEF WorkerStep, StartTask, TaskReturns, FinishTask, OnceInv
<1>6. ASSUME NEW h \in heartbeats, HeartBeat(h) PROVE OnceInv'
  <2>1. UNCHANGED <<caller, worker, dequeued, runs>> /\ h.key \in Key /\ LeaseUpdate(h.key)
    BY <1>6, InvTypes DEF HeartBeat, HeartBeats
  <2>2. /\ OnlyRow(h.key)
        /\ executions'[h.key] = IF executions[h.key] = Null THEN Null
                                ELSE Renewed(executions[h.key])
    BY <2>1, InvTypes, LeaseUpdateEffect
  <2>3. ASSUME NEW k \in Key
        PROVE  /\ executions[k] = Null => executions'[k] = Null
               /\ executions[k] # Null => /\ executions'[k] # Null
                                          /\ executions'[k].status = executions[k].status
    BY <2>2, InvTypes, RowThere, RenewedRow, JobTableAssumption DEF OnlyRow
  <2>4. ASSUME NEW k \in Key, executions[k] # Null, KeptAlive(k) PROVE KeptAlive(k)'
    BY <1>6, <2>4, KeptAliveBeat
  <2> QED BY <2>1, <2>3, <2>4, InvTypes DEF OnceInv, HasStatus
<1>7. ASSUME NEW n \in Node, ReapFirst(n) \/ ReapSecond(n) \/ ReapThird(n) PROVE OnceInv'
  <2>1. \A k \in Key : ~LeaseExpired(k) /\ ~TtlOver(k)
    BY KeptAliveExpired DEF OnceInv, LeaseExpired, TtlOver, HasStatus
  <2>2. executions' = executions
    <3>1. \A k \in Key : executions'[k] = executions[k]
      BY <1>7, <2>1, InvTypes, ReapErrorEffect, ReapRequeueEffect, ReapDeleteEffect
         DEF ReapFirst, ReapSecond, ReapThird
    <3>2. executions \in [Key -> Row \cup {Null}] /\ executions' \in [Key -> Row \cup {Null}]
      BY <1>1, InvTypes, TypeOKParts DEF TableTypeOK, TypeInv
    <3> QED BY <3>1, <3>2
  <2>3. UNCHANGED <<caller, worker, dequeued, heartbeats, runs>>
    BY <1>7 DEF ReapFirst, ReapSecond, ReapThird, ReaperVars
  <2> QED BY <2>2, <2>3 DEF OnceInv, HasStatus, KeptAlive
<1>8. ASSUME Tick PROVE OnceInv'
  <2>1. ASSUME NEW k \in Key, executions[k] # Null, KeptAlive(k) PROVE KeptAlive(k)'
    BY <1>8, <2>1, KeptAliveTick
  <2>2. \A k \in Key : /\ executions[k] = Null => executions'[k] = Null
                       /\ executions[k] # Null => /\ executions'[k] # Null
                                                  /\ executions'[k].status = executions[k].status
    BY <1>8, TickEffect
  <2>3. UNCHANGED <<caller, worker, runs>> /\ \A n \in Node : dequeued'[n] = Null
    BY <1>8, TickEffect DEF OnceInv
  <2> QED BY <2>1, <2>2, <2>3, InvTypes DEF OnceInv, HasStatus
<1>9. CASE UNCHANGED vars
  BY <1>1, <1>9 DEF vars, tableVars, OnceInv, HasStatus, KeptAlive
<1>10. OnceInv' \/ crashes' # 0
  BY <1>2, <1>3, <1>4, <1>5, <1>6, <1>7, <1>8, <1>9, OnceCallerStep DEF Next, Wheel
<1> QED BY <1>1, <1>10

LEMMA CrashesGrow ==
  ASSUME TypeInv, [Next]_vars, crashes # 0
  PROVE  crashes' # 0
<1>1. crashes \in Nat
  BY TypeOKParts, Constants DEF TypeInv, ProcessTypeOK
<1>2. crashes' = crashes \/ crashes' = crashes + 1
  BY DEF Next, CallerStep, WorkerStep, Wheel, Call, Enter, Recall, EnqueueJob, GoWait, Lock, HitAgain,
         WaitPoll, HandlerReturns, FinishCall, RequeueCall, DequeueTask, StartTask, TaskReturns,
         FinishTask, HeartBeat, ReapFirst, ReapSecond, ReapThird, ReaperVars, Crash, Tick, vars
<1> QED BY <1>1, <1>2

\* As long as no node has crashed, a once handler is started at most once per input, over any
\* callers and however a run ends: the row of the lock is never freed, requeued by the
\* reaper or taken over, since its own heartbeat outlives the call and keeps renewing it.
THEOREM OnceRunsOnce == Spec => []RunsOnce
<1> DEFINE Inv == TypeInv /\ (RunsInv \/ crashes # 0 \/ handler.mode # "once")
<1>1. Init => Inv
  BY TypeInit DEF Init, TableInit, IdleCaller, IdleWorker, RunsInv, OnceInv
<1>2. Inv /\ [Next]_vars => Inv'
  BY OnceStep, CrashesGrow, HandlerKept, TypeStep
<1>3. Inv => RunsOnce
  <2> SUFFICES ASSUME RunsInv, NEW k \in Key PROVE runs[k] <= 1
    BY DEF RunsOnce, Mode
  <2>1. runs[k] = 0 \/ runs[k] <= 1
    BY DEF RunsInv, OnceInv
  <2> QED BY <2>1
<1> QED BY <1>1, <1>2, <1>3, PTL DEF Spec

(***************************************************************************)
(* A closed row has its result                                             *)
(***************************************************************************)
Tries(r) == IF r = Null THEN 0 ELSE r

LEMMA RetriedTries ==
  ASSUME NEW r \in Nat \cup {Null} PROVE Tries(r) \in Nat /\ Tries(Retried(r)) <= Tries(r) + 1
  BY JobTableAssumption DEF Tries, Retried

\* Why the lease of a leased row cannot expire, unless a crash is to blame.
Alive(k) ==
    \/ KeptAlive(k)
    \/ Handed(k) # {}
    \/ \E w \in Worker : worker[w].pc # "idle" /\ worker[w].key = k
    \/ Tries(executions[k].retry_count) < crashes

\* Each retry of a job is owed to a crash, so ReapError never gives up on it.
VisibleInv ==
    /\ ExclInv /\ handler.expire = Null /\ handler.outcome \cap {"abort", "requeue"} = {}
    /\ MaxCrash <= MaxRetry
    /\ \A w \in Worker : worker[w].pc = "finish" => worker[w].out \in handler.outcome
    /\ \A k \in Key : /\ executions[k] # Null => Tries(executions[k].retry_count) <= crashes
                      /\ HasStatus(k, {"leased"}) => Alive(k)
                      /\ HasStatus(k, {"done", "error"}) => executions_results[k] # Null

\* The reaper finds an expired lease only after a crash that no retry accounts for.
LEMMA ExpiredNotTried ==
  ASSUME VisibleInv, NEW k \in Key, LeaseExpired(k)
  PROVE  Tries(executions[k].retry_count) < crashes /\ ~RetriesOver(k)
<1>1. TypeInv /\ ExclInv
  BY DEF VisibleInv, ExclInv
<1>2. Holders(k) = {} /\ Handed(k) = {} /\ ~KeptAlive(k)
  BY <1>1, ExpiredVacant, KeptAliveExpired
<1>3. Tries(executions[k].retry_count) < crashes
  BY <1>2 DEF VisibleInv, Alive, LeaseExpired, Holders
<1>4. /\ executions[k].retry_count \in Nat \cup {Null} /\ crashes \in 0..MaxCrash
      /\ MaxCrash \in Nat /\ MaxRetry \in Nat /\ MaxCrash <= MaxRetry
  BY <1>1, InvTypes, RowThere, Constants DEF LeaseExpired, HasStatus, Row, VisibleInv
<1> QED BY <1>3, <1>4 DEF RetriesOver, Tries

\* A leased row that a step leaves alone stays alive.
LEMMA AliveSame ==
  ASSUME VisibleInv, NEW k \in Key, executions'[k] = executions[k],
         \A h \in heartbeats : h.owner = Null => h \in heartbeats',
         Handed(k) # {} => Handed(k)' # {},
         \A w \in Worker : worker[w].pc # "idle" /\ worker[w].key = k
                             => worker'[w].pc # "idle" /\ worker'[w].key = k,
         crashes' = crashes, Alive(k)
  PROVE  Alive(k)'
<1>1. KeptAlive(k) => KeptAlive(k)'
  BY KeptAliveSame
<1> QED BY <1>1 DEF Alive

\* No step changes a retry count unless the reaper requeues, or adds a closed row
\* without its result.
LEMMA TriesAndResults ==
  ASSUME VisibleInv, [Next]_vars, crashes <= crashes', NEW k \in Key
  PROVE  /\ executions'[k] # Null => Tries(executions'[k].retry_count) <= crashes'
         /\ HasStatus(k, {"done", "error"})' => executions_results'[k] # Null
<1>1. TypeInv /\ CacheExpire = Null /\ ExclInv
  BY DEF VisibleInv, ExclInv, CacheExpire
<1>2. crashes \in Nat /\ crashes' \in Nat /\ Null \notin ResultRow
  BY <1>1, TypeStep, InvTypes, TypeOKParts, Constants, JobTableAssumption DEF TypeInv, ProcessTypeOK
<1>3. executions[k] # Null => /\ executions[k] \in Row
                              /\ executions[k].retry_count \in Nat \cup {Null}
                              /\ Tries(executions[k].retry_count) \in Nat
                              /\ Tries(executions[k].retry_count) <= crashes
  BY <1>1, InvTypes, RowThere, RetriedTries DEF Row, VisibleInv
<1>4. executions_results[k] # Null => executions_results'[k] # Null
  BY <1>1, <1>2, ResultSteps DEF ResultStep
<1>5. ASSUME executions[k] # Null, executions'[k].retry_count = executions[k].retry_count
      PROVE  Tries(executions'[k].retry_count) <= crashes'
  BY <1>2, <1>3, <1>5
<1>6. Failure \in Value
  BY JobSystemAssumption
<1>7. CASE executions'[k] = executions[k]
  BY <1>2, <1>3, <1>4, <1>7 DEF HasStatus, VisibleInv
<1>8. CASE executions'[k] = Null
  BY <1>8 DEF HasStatus
<1>9. CASE /\ Enqueuable(k) /\ HasStatus(k, {"queued", "leased"})'
           /\ executions[k] = Null => executions'[k].retry_count = Null
           /\ executions[k] # Null => executions'[k].retry_count = executions[k].retry_count
  BY <1>2, <1>5, <1>9 DEF HasStatus, Tries
<1>10. CASE HasStatus(k, {"queued"}) /\ executions'[k] = Leased(executions[k])
  BY <1>3, <1>5, <1>10, LeasedRow DEF HasStatus
<1>11. CASE executions[k] # Null /\ executions'[k] \in {Renewed(executions[k]), Aged(executions[k])}
  BY <1>3, <1>4, <1>5, <1>11, RenewedRow, AgedRow DEF HasStatus, VisibleInv
<1>12. ~(LeaseExpired(k) /\ RetriesOver(k))
  BY ExpiredNotTried
<1>13. CASE LeaseExpired(k) /\ executions'[k] = Reaped(executions[k])
  <2>1. executions[k] # Null /\ Tries(executions[k].retry_count) < crashes
    BY <1>13, ExpiredNotTried DEF LeaseExpired, HasStatus
  <2>2. /\ executions'[k].retry_count = Retried(executions[k].retry_count)
        /\ executions'[k].status = "queued"
        /\ Tries(Retried(executions[k].retry_count)) <= Tries(executions[k].retry_count) + 1
        /\ Retried(executions[k].retry_count) \in Nat
    BY <1>3, <1>13, <2>1, ReapedRow, RetriedTries, RetriedType
  <2>3. Tries(executions'[k].retry_count) \in Nat
    BY <2>2, JobTableAssumption DEF Tries
  <2>4. Tries(executions'[k].retry_count) <= crashes'
    BY <1>2, <1>3, <2>1, <2>2, <2>3
  <2> QED BY <2>2, <2>4 DEF HasStatus
<1>14. ASSUME NEW w \in Worker, worker[w].key = k, FinishTask(w)
       PROVE  /\ executions'[k] # Null => Tries(executions'[k].retry_count) <= crashes'
              /\ HasStatus(k, {"done", "error"})' => executions_results'[k] # Null
  <2>1. ~Aborted(worker[w].out)
    BY <1>14 DEF VisibleInv, FinishTask, Aborted
  <2> QED BY <1>1, <1>2, <1>5, <1>14, <2>1, FinishTaskEffect DEF HasStatus
<1> QED BY <1>1, <1>7, <1>8, <1>9, <1>10, <1>11, <1>12, <1>13, <1>14, RowSteps DEF RowStep

LEMMA AliveTick ==
  ASSUME VisibleInv, Tick, NEW k \in Key, executions[k] # Null, Alive(k)
  PROVE  Alive(k)'
<1>1. TypeInv
  BY DEF VisibleInv, ExclInv
<1>2. KeptAlive(k) => KeptAlive(k)'
  BY <1>1, KeptAliveTick
<1>3. /\ UNCHANGED <<worker, crashes>>
      /\ executions'[k].retry_count = executions[k].retry_count
      /\ \A n \in Handed(k) : n \in Handed(k)'
  BY <1>1, TickEffect DEF Handed
<1> QED BY <1>2, <1>3 DEF Alive

\* What keeps a leased row alive is handed on from the queue to the worker and from
\* the worker's own heartbeat to the one the wheel re-adds; a crash pays for the rest.
LEMMA AliveFrame ==
  ASSUME VisibleInv, [Next]_vars, NEW k \in Key, HasStatus(k, {"leased"}),
         executions'[k] = executions[k]
  PROVE  Alive(k)'
<1>0. TypeInv /\ Alive(k) /\ executions[k] # Null
  BY DEF VisibleInv, ExclInv, HasStatus
<1>1. CASE UNCHANGED <<worker, dequeued, crashes>> /\ heartbeats' = heartbeats
  BY <1>0, <1>1, HandedSame, AliveSame
<1>2. ASSUME NEW c \in Caller, CallerStep(c) PROVE Alive(k)'
  <2>1. UNCHANGED <<worker, dequeued, crashes>>
    BY <1>2 DEF CallerStep, EnqueueJob, GoWait, Recall, Enter, Lock, HitAgain, WaitPoll,
                HandlerReturns, FinishCall, RequeueCall
  <2>2. \/ heartbeats' \in {heartbeats, Cancel(c)}
        \/ heartbeats' = heartbeats \cup {Beat(c, caller[c].key)}
    BY <1>2 DEF CallerStep, EnqueueJob, GoWait, Recall, Enter, Lock, HitAgain, WaitPoll,
                HandlerReturns, FinishCall, RequeueCall
  <2>3. \A h \in heartbeats : h.owner = Null => h \in heartbeats'
    BY <2>2, CancelKeepsOrphans
  <2> QED BY <1>0, <2>1, <2>3, HandedSame, AliveSame
<1>3. ASSUME NEW w \in Worker, StartTask(w) PROVE Alive(k)'
  <2> DEFINE n == NodeOf[w]
  <2>1. /\ n \in Node /\ dequeued[n] # Null /\ worker[w].pc = "idle"
        /\ dequeued' = [dequeued EXCEPT ![n] = Null]
        /\ heartbeats' = heartbeats \cup {Beat(w, dequeued[n].key)} /\ crashes' = crashes
    BY <1>3, Constants DEF StartTask
  <2>2. /\ worker'[w].pc = "run" /\ worker'[w].key = dequeued[n].key
        /\ \A v \in Worker : v # w => worker'[v] = worker[v]
    BY <1>0, <1>3, InvTypes DEF StartTask
  <2>3. CASE dequeued[n].key = k
    BY <2>2, <2>3 DEF Alive
  <2>4. CASE dequeued[n].key # k
    <3>1. Handed(k)' = Handed(k)
      BY <1>0, <2>1, <2>4, InvTypes DEF Handed
    <3> QED BY <1>0, <2>1, <2>2, <3>1, AliveSame
  <2> QED BY <2>3, <2>4
<1>4. ASSUME NEW w \in Worker, NEW o, TaskReturns(w, o) PROVE Alive(k)'
  <2>1. UNCHANGED <<dequeued, heartbeats, crashes>>
    BY <1>4 DEF TaskReturns
  <2> QED BY <1>0, <1>4, <2>1, HandedSame, TaskReturnsEffect, AliveSame
<1>5. ASSUME NEW w \in Worker, FinishTask(w) PROVE Alive(k)'
  <2>1. PICK j \in Key : j = worker[w].key
    BY <1>0, <1>5, InvTypes DEF FinishTask
  <2>2. j # k
    BY <1>0, <1>5, <2>1, FinishTaskEffect DEF HasStatus
  <2>3. /\ UNCHANGED <<dequeued, crashes>> /\ heartbeats' = Cancel(w)
        /\ \A v \in Worker : v # w => worker'[v] = worker[v]
    BY <1>0, <1>5, <2>1, FinishTaskEffect
  <2> QED BY <1>0, <2>1, <2>2, <2>3, HandedSame, CancelKeepsOrphans, AliveSame
<1>6. ASSUME NEW n \in Node, DequeueTask(n) PROVE Alive(k)'
  <2>1. /\ UNCHANGED <<worker, heartbeats, crashes>> /\ dequeued[n] = Null
        /\ \A m \in Node : m # n => dequeued'[m] = dequeued[m]
    BY <1>0, <1>6, InvTypes DEF DequeueTask
  <2>2. Handed(k) \subseteq Handed(k)'
    BY <2>1 DEF Handed
  <2> QED BY <1>0, <2>1, <2>2, AliveSame
<1>7. ASSUME NEW n \in Node, Crash(n) PROVE Alive(k)'
  <2>1. crashes' = crashes + 1 /\ crashes \in Nat /\ executions[k].retry_count \in Nat \cup {Null}
    BY <1>0, <1>7, InvTypes, RowThere, Constants DEF Crash, Row
  <2>2. Tries(executions[k].retry_count) \in Nat /\ Tries(executions[k].retry_count) <= crashes
    BY <1>0, <2>1, RetriedTries DEF VisibleInv
  <2> QED BY <2>1, <2>2 DEF Alive
<1>8. ASSUME NEW h \in heartbeats, HeartBeat(h) PROVE Alive(k)'
  <2>1. KeptAlive(k) => KeptAlive(k)'
    BY <1>0, <1>8, KeptAliveBeat
  <2>2. UNCHANGED <<worker, dequeued, crashes>>
    BY <1>8 DEF HeartBeat
  <2> QED BY <1>0, <2>1, <2>2, HandedSame DEF Alive
<1>9. ASSUME NEW n \in Node, ReapFirst(n) \/ ReapSecond(n) \/ ReapThird(n) PROVE Alive(k)'
  BY <1>1, <1>9 DEF ReapFirst, ReapSecond, ReapThird, ReaperVars
<1>10. CASE Tick
  BY <1>0, <1>10, AliveTick
<1> QED BY <1>1, <1>2, <1>3, <1>4, <1>5, <1>6, <1>7, <1>8, <1>9, <1>10
        DEF Next, Wheel, WorkerStep, Call, Enter, vars

LEMMA AliveStep ==
  ASSUME VisibleInv, [Next]_vars, NEW k \in Key, HasStatus(k, {"leased"})'
  PROVE  Alive(k)'
<1>0. TypeInv /\ executions'[k] # Null /\ executions'[k].status = "leased"
  BY DEF VisibleInv, ExclInv, HasStatus
<1>1. executions[k] # Null => executions[k] \in Row
  BY <1>0, InvTypes, RowThere
<1>2. CASE executions'[k] = executions[k]
  BY <1>2, AliveFrame DEF HasStatus
<1>3. CASE /\ Enqueuable(k) /\ HasStatus(k, {"queued", "leased"})'
           /\ HasStatus(k, {"leased"})'
                => \E c \in Caller : caller[c].key = k /\ (Lock(c) \/ RequeueCall(c))
           /\ executions[k] = Null => executions'[k].leased_until = Null
  <2>0. \E c \in Caller : caller[c].pc \in {"lock", "requeue"}
    BY <1>3 DEF Lock, RequeueCall
  <2>1. executions[k] = Null
    BY <1>3, <2>0 DEF VisibleInv, ExclInv, Path, DoneKept, Enqueuable, IsPast
  <2> QED BY <1>3, <2>1 DEF Alive, KeptAlive
<1>4. CASE \E n \in Node : n \in Handed(k)'
  BY <1>4 DEF Alive
<1>5. CASE executions[k] # Null /\ \E h \in heartbeats : h.key = k /\ HeartBeat(h)
  BY <1>0, <1>5, KeptAliveBeat DEF Alive
<1>6. ~(LeaseExpired(k) /\ executions'[k] \in {Failed(executions[k], Failure), Reaped(executions[k])})
  BY <1>0, <1>1, FailedRow, ReapedRow, JobSystemAssumption DEF LeaseExpired, HasStatus
<1>7. CASE executions[k] # Null /\ executions'[k] = Aged(executions[k]) /\ Tick
  <2>1. Alive(k)
    BY <1>0, <1>1, <1>7, AgedRow DEF VisibleInv, HasStatus
  <2> QED BY <1>7, <2>1, AliveTick
<1>8. ~\E w \in Worker : worker[w].key = k /\ FinishTask(w)
  <2>1. SUFFICES ASSUME NEW w \in Worker, worker[w].key = k, FinishTask(w) PROVE FALSE
    OBVIOUS
  <2> QED BY <1>0, <2>1, FinishTaskEffect DEF HasStatus
<1> QED BY <1>0, <1>2, <1>3, <1>4, <1>5, <1>6, <1>7, <1>8, RowSteps DEF RowStep

LEMMA VisibleStep ==
  ASSUME VisibleInv, [Next]_vars
  PROVE  VisibleInv'
<1>1. TypeInv /\ ExclInv' /\ handler' = handler
  BY ExclStep, HandlerKept DEF VisibleInv, ExclInv
<1>2. crashes <= crashes'
  <2>1. crashes \in Nat
    BY <1>1, InvTypes, Constants
  <2>2. ASSUME NEW c \in Caller, CallerStep(c) PROVE crashes' = crashes
    BY <2>2 DEF CallerStep, EnqueueJob, GoWait, Recall, Enter, Lock, HitAgain, WaitPoll,
                HandlerReturns, FinishCall, RequeueCall
  <2>3. ASSUME NEW w \in Worker, WorkerStep(w) PROVE crashes' = crashes
    BY <2>3 DEF WorkerStep, StartTask, TaskReturns, FinishTask
  <2>4. ASSUME Wheel PROVE crashes' = crashes
    BY <2>4 DEF Wheel, HeartBeat, ReapFirst, ReapSecond, ReapThird, ReaperVars
  <2>5. crashes' = crashes \/ crashes' = crashes + 1
    BY <2>2, <2>3, <2>4 DEF Next, Call, Enter, DequeueTask, Crash, Tick, vars
  <2> QED BY <2>1, <2>5
<1>3. \A w \in Worker : worker'[w].pc = "finish" => worker'[w].out \in handler.outcome
  <2>1. CASE worker' = worker
    BY <2>1 DEF VisibleInv
  <2>2. ASSUME NEW w \in Worker, StartTask(w)
        PROVE  \A v \in Worker : worker'[v].pc = "finish" => worker'[v].out \in handler.outcome
    BY <1>1, <2>2, InvTypes DEF StartTask, VisibleInv
  <2>3. ASSUME NEW w \in Worker, NEW o \in handler.outcome, TaskReturns(w, o)
        PROVE  \A v \in Worker : worker'[v].pc = "finish" => worker'[v].out \in handler.outcome
    BY <1>1, <2>3, TaskReturnsEffect DEF VisibleInv
  <2>4. ASSUME NEW w \in Worker, FinishTask(w)
        PROVE  \A v \in Worker : worker'[v].pc = "finish" => worker'[v].out \in handler.outcome
    BY <1>1, <2>4, InvTypes DEF FinishTask, IdleWorker, VisibleInv
  <2>5. ASSUME NEW n \in Node, Crash(n)
        PROVE  \A v \in Worker : worker'[v].pc = "finish" => worker'[v].out \in handler.outcome
    BY <2>5 DEF Crash, IdleWorker, VisibleInv
  <2>6. ASSUME NEW c \in Caller, CallerStep(c) PROVE worker' = worker
    BY <2>6 DEF CallerStep, EnqueueJob, GoWait, Recall, Enter, Lock, HitAgain, WaitPoll,
                HandlerReturns, FinishCall, RequeueCall
  <2>7. ASSUME Wheel PROVE worker' = worker
    BY <2>7 DEF Wheel, HeartBeat, ReapFirst, ReapSecond, ReapThird, ReaperVars
  <2> QED BY <2>1, <2>2, <2>3, <2>4, <2>5, <2>6, <2>7
          DEF Next, WorkerStep, Call, Enter, DequeueTask, Tick, vars
<1> QED BY <1>1, <1>2, <1>3, AliveStep, TriesAndResults DEF VisibleInv

\* A row closed as done or error has its result where Hit and Result look for it.  In
\* executions this is the row itself.  With executions_results it needs that the
\* reaper never closes a row: retries come from crashes alone, and are fewer than it takes.
THEOREM ClosedVisible ==
  Spec /\ (\/ handler.expire # Null
           \/ /\ HandedInTime /\ Guarded(handler) /\ MaxCrash <= MaxRetry
              /\ handler.outcome \cap {"abort", "requeue"} = {})
    => []ClosedIsVisible
<1> DEFINE Few == handler.outcome \cap {"abort", "requeue"} = {}
<1> DEFINE Vol == handler.expire # Null
<1>1. Vol /\ [Next]_vars => Vol'
  BY HandlerKept
<1>2. Vol => ClosedIsVisible
  BY DEF ClosedIsVisible, Volatile, CacheExpire, Result, Lookup, HasStatus
<1>3. Init /\ ~Vol /\ HandedInTime /\ Guarded(handler) /\ MaxCrash <= MaxRetry /\ Few => VisibleInv
  <2> SUFFICES ASSUME Init, handler.expire = Null, HandedInTime, Guarded(handler),
                      MaxCrash <= MaxRetry, Few
               PROVE  VisibleInv
    OBVIOUS
  <2>1. ExclInv
    BY ExclInit
  <2> QED BY <2>1 DEF VisibleInv, Init, TableInit, IdleWorker, HasStatus
<1>4. VisibleInv /\ [Next]_vars => VisibleInv'
  BY VisibleStep
<1>5. VisibleInv => ClosedIsVisible
  <2> SUFFICES ASSUME VisibleInv, NEW k \in Key, HasStatus(k, {"done", "error"})
               PROVE  Result(k, Volatile) = "finished"
    BY DEF ClosedIsVisible
  <2>1. executions_results[k] # Null
    BY DEF VisibleInv
  <2>2. executions_results[k] \in ResultRow
    BY <2>1, InvTypes DEF VisibleInv, ExclInv, TableTypeOK
  <2> QED BY <2>1, <2>2 DEF Result, Lookup, Volatile, CacheExpire, VisibleInv, ResultRow
<1> QED BY <1>1, <1>2, <1>3, <1>4, <1>5, PTL DEF Spec
=============================================================================
