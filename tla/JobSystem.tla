----------------------------- MODULE JobSystem -----------------------------
(***************************************************************************)
(* The SQL job system of one typed handler: callers inside call_job, the   *)
(* dequeue loop and worker pool of each node's jobManager, the heartbeats  *)
(* and the reaper its time wheel fires, and nodes that crash and restart.  *)
(* All of them meet only in the tables of JobTable; every statement there  *)
(* is one step, and anything else may happen between two of them.          *)
(***************************************************************************)
EXTENDS JobTable, FiniteSets

CONSTANTS
    Node,            \* processes sharing the database
    Caller, Worker,  \* goroutines in call_job; goroutines of the worker pools
    NodeOf,          \* the node a caller or worker runs on
    Options,         \* the handlers to look at, one per behaviour
    Output, Failure, \* the output of a run that ends "ok", the error of an "err" one
    RequeueInterval, \* JobConfig.RequeueInterval in ticks
    Handoff,         \* bound: ticks a dequeued task waits for a free pool goroutine
    MaxCrash,        \* bound: crashes of nodes
    RunCap           \* bound: runs of a key are counted up to this number

Modes == {"async", "cache", "dedupe", "once", "memoized", "dispatch"}
Outcomes == {"ok", "err", "syserr", "abort", "requeue"}

\* Option of a typed handler: its job mode, JobOption.CacheExpire in ticks (Null if
\* 0), how it is called (over HTTP, by Handler.Call or by Handler.Go, which waits
\* for a pending job), with which inputs, and how its runs may end.
Option == [mode : Modes, expire : Nat \cup {Null},
           via : SUBSET {"http", "call", "go"}, input : SUBSET Key,
           outcome : SUBSET Outcomes]

ASSUME JobSystemAssumption ==
    /\ Root = Key
    /\ NodeOf \in [Caller \cup Worker -> Node]
    /\ Caller \cap Worker = {}
    /\ \A h \in Options : h \in Option
    /\ {Output, Failure} \subseteq Value
    /\ {RequeueInterval, Handoff, MaxCrash, RunCap} \subseteq Nat
    /\ LeaseDuration >= 2
    /\ Null \notin Key \cup Caller \cup Worker
    /\ Null \notin [key : Key, age : Nat]

VARIABLES
    handler,  \* the Option of the handler, the same all along
    caller,   \* Caller -> [pc, key, via, out]
    reply,    \* Caller -> what call_job last returned
    worker,   \* Worker -> [pc, key, out]
    dequeued, \* Node -> [key, age] between Dequeue and the pool, or Null
    heartbeats, \* pending wheel tasks that renew a lease: [node, key, due, owner]
    reaper,   \* Node -> [due, next]: the Reaping task and its next statement
    crashes,
    runs      \* Key -> runs of the handler started, up to RunCap

vars == <<tableVars, handler, caller, reply, worker, dequeued, heartbeats, reaper,
          crashes, runs>>

Mode == handler.mode

CacheExpire == handler.expire

\* Mutant: the once mode does not set Dedupe.
DedupeNotOnce == Mode \in {"dedupe", "memoized"}

\* callSQLInit: the flags a job mode stands for.
Async == Mode \in {"async", "dispatch"}
Dedupe == Mode \in {"dedupe", "once", "memoized"}
Cache == Mode \in {"cache", "once", "memoized", "dispatch"}
CacheErrOnHit == Mode = "once"

Volatile == CacheExpire # Null

(***************************************************************************)
(* Helpers                                                                 *)
(***************************************************************************)
IdleCaller == [pc |-> "idle", key |-> Null, via |-> Null, out |-> Null]
IdleWorker == [pc |-> "idle", key |-> Null, out |-> Null]
NoReply == "none"

\* JobMeta: status, rootid (the job's own id) and ttl.
MetaOf(k, st) == [status |-> st, root |-> k, ttl |-> CacheExpire]

\* marshalOutputSet
StoredOf(out) == IF out = "err" THEN [output |-> Null, error |-> Failure]
                 ELSE [output |-> Output, error |-> Null]

\* Mutant: the heartbeat is scheduled after two leases instead of half of one.
TwoLeases == 2 * LeaseDuration

HalfLease == LeaseDuration \div 2

\* TimeWheel.Add(leaset/2, ...): owner is the task that task.Cancel() reaches.
Beat(o, k) == [node |-> NodeOf[o], key |-> k, due |-> HalfLease, owner |-> o]

\* task.Cancel(): stops the task that was added, not one re-added by the wheel.
Cancel(o) == {h \in heartbeats : h.owner # o}

Count(k) == runs' = [runs EXCEPT ![k] = IF @ < RunCap THEN @ + 1 ELSE @]

\* unmarshalfn(Hit(...)): a row past its ttl is FatalInvalidCacheError even
\* while its job is pending.
Hit(k) ==
    LET row == Lookup(k, Volatile) IN
    IF row = Null THEN "notfound"
    ELSE IF Volatile /\ IsPast(row.ttl) THEN "invalid"
    ELSE IF row.status \in {"done", "error"} THEN "hit" ELSE "pending"

\* The reply of a cache hit: output wins over error.
HitReply(k) ==
    IF CacheErrOnHit THEN "duplicated"
    ELSE IF Lookup(k, Volatile).output # Null THEN "output" ELSE "error"

Goto(c, pc) == caller' = [caller EXCEPT ![c].pc = pc]

Return(c, r) ==
    /\ caller' = [caller EXCEPT ![c] = IdleCaller]
    /\ reply' = [reply EXCEPT ![c] = r]

(***************************************************************************)
(* call_job                                                                *)
(***************************************************************************)
\* The state after the first cache lookup: enqueue, lock, or run at once.
AfterHit(via) ==
    IF via # "http" /\ Async THEN "enqueue" ELSE IF Dedupe THEN "lock" ELSE "run"

\* Entry of call_job, and the first Hit when the handler caches.
Enter(c, k, via) ==
    /\ IF Cache /\ Hit(k) = "hit"
         THEN Return(c, HitReply(k)) /\ UNCHANGED runs
         ELSE /\ caller' = [caller EXCEPT ![c] = [pc |-> AfterHit(via), key |-> k,
                                                  via |-> via, out |-> Null]]
              /\ reply' = [reply EXCEPT ![c] = NoReply]
              /\ IF AfterHit(via) = "run" THEN Count(k) ELSE UNCHANGED runs
    /\ UNCHANGED <<tableVars, worker, dequeued, heartbeats, reaper, crashes, handler>>

Call(c, k, via) ==
    /\ caller[c].pc = "idle"
    /\ (via # "http" /\ Async) \/ Dedupe \/ Cache
    /\ Enter(c, k, via)

\* Async path: enqueue and report the job as pending; Go waits for it instead.
EnqueueJob(c) ==
    LET k == caller[c].key IN
    /\ caller[c].pc = "enqueue"
    /\ Enqueue(k, MetaOf(k, "queued"))
    /\ IF caller[c].via = "go" THEN Goto(c, "gowait") /\ UNCHANGED reply
       ELSE Return(c, IF Enqueuable(k) THEN "accepted" ELSE "pending")
    /\ UNCHANGED <<worker, dequeued, heartbeats, reaper, crashes, handler, runs>>

\* go_internal: once Wait has seen the job finished, the call starts over.
GoWait(c) ==
    /\ caller[c].pc = "gowait"
    /\ Result(caller[c].key, Volatile) = "finished"
    /\ Goto(c, "recall")
    /\ UNCHANGED <<tableVars, reply, worker, dequeued, heartbeats, reaper, crashes,
                   handler, runs>>

Recall(c) == caller[c].pc = "recall" /\ Enter(c, caller[c].key, "go")

\* Dedupe path: the row is the lock.  The holder's first heartbeat comes after
\* half a lease; until then leased_until stays as the row had it (Null if new).
Lock(c) ==
    LET k == caller[c].key IN
    /\ caller[c].pc = "lock"
    /\ Enqueue(k, MetaOf(k, "leased"))
    /\ \/ /\ Enqueuable(k)
          /\ Goto(c, "run")
          /\ heartbeats' = heartbeats \cup {Beat(c, k)}
          /\ Count(k)
          /\ UNCHANGED reply
       \/ /\ ~Enqueuable(k) /\ Cache
          /\ Goto(c, "hitagain")
          /\ UNCHANGED <<reply, heartbeats, runs>>
       \/ /\ ~Enqueuable(k) /\ ~Cache
          /\ Return(c, "duplicated")
          /\ UNCHANGED <<heartbeats, runs>>
    /\ UNCHANGED <<worker, dequeued, reaper, crashes, handler>>

\* The lock is taken: look for the result again, wait for it, or give up.
HitAgain(c) ==
    LET k == caller[c].key IN
    /\ caller[c].pc = "hitagain"
    /\ \/ Hit(k) = "hit" /\ Return(c, HitReply(k))
       \/ Hit(k) = "pending" /\ Goto(c, "wait") /\ UNCHANGED reply
       \/ Hit(k) \notin {"hit", "pending"} /\ Return(c, "lost")
    /\ UNCHANGED <<tableVars, worker, dequeued, heartbeats, reaper, crashes,
                   handler, runs>>

\* A poll of Wait that ends it.  Result reports every unfinished row as an error,
\* on which the poll returns before it looks at the lease or at the time-out.
WaitPoll(c) ==
    LET k == caller[c].key IN
    /\ caller[c].pc = "wait"
    /\ Result(k, Volatile) = "finished"
    /\ Return(c, HitReply(k))
    /\ UNCHANGED <<tableVars, worker, dequeued, heartbeats, reaper, crashes,
                   handler, runs>>

HandlerReturns(c, o) ==
    /\ caller[c].pc = "run"
    /\ caller' = [caller EXCEPT ![c].pc = "finish", ![c].out = o]
    /\ UNCHANGED <<tableVars, reply, worker, dequeued, heartbeats, reaper, crashes,
                   handler, runs>>

Aborted(o) == o \in {"abort", "requeue"}

\* Mutant: the bare lock is freed only when the handler succeeded.
StoreOrFreeOk(k, o) ==
    \/ Cache /\ ~Aborted(o) /\ o # "syserr" /\ Done(k, CacheExpire, StoredOf(o))
    \/ (IF Cache THEN Aborted(o) \/ o = "syserr" ELSE o # "ok") /\ UNCHANGED tableVars
    \/ ~Cache /\ Dedupe /\ o = "ok" /\ Free(k)

\* Done for a handler that caches and did not abort, Free for a bare lock.
StoreOrFree(k, o) ==
    \/ Cache /\ ~Aborted(o) /\ o # "syserr" /\ Done(k, CacheExpire, StoredOf(o))
    \/ Cache /\ (Aborted(o) \/ o = "syserr") /\ UNCHANGED tableVars
    \/ ~Cache /\ Dedupe /\ Free(k)

\* The result is stored or the lock freed; then the deferred Cancel, unless the handler
\* asked to be requeued.
FinishCall(c) ==
    LET o == caller[c].out IN
    /\ caller[c].pc = "finish"
    /\ StoreOrFree(caller[c].key, o)
    /\ IF o = "requeue"
         THEN Goto(c, "requeue") /\ UNCHANGED <<reply, heartbeats>>
         ELSE /\ Return(c, IF o = "err" THEN "error" ELSE "output")
              /\ heartbeats' = Cancel(c)
    /\ UNCHANGED <<worker, dequeued, reaper, crashes, handler, runs>>

\* MarkRequeue: enqueue again with EnqueueStatus (leased unless Call of an async
\* handler), then the deferred Cancel.
RequeueCall(c) ==
    LET k == caller[c].key IN
    /\ caller[c].pc = "requeue"
    /\ Enqueue(k, MetaOf(k, IF caller[c].via # "http" /\ Async THEN "queued" ELSE "leased"))
    /\ Return(c, "output")
    /\ heartbeats' = Cancel(c)
    /\ UNCHANGED <<worker, dequeued, reaper, crashes, handler, runs>>

(***************************************************************************)
(* jobManager                                                              *)
(***************************************************************************)
DequeueTask(n) ==
    /\ dequeued[n] = Null
    /\ \E k \in Key : /\ Dequeue(k, Key)
                      /\ dequeued' = [dequeued EXCEPT ![n] = [key |-> k, age |-> 0]]
    /\ UNCHANGED <<caller, reply, worker, heartbeats, reaper, crashes, handler, runs>>

\* Do hands the task to a goroutine of the pool: heartbeat added, handler invoked.
StartTask(w) ==
    LET n == NodeOf[w] IN
    /\ worker[w].pc = "idle"
    /\ dequeued[n] # Null
    /\ worker' = [worker EXCEPT ![w] = [pc |-> "run", key |-> dequeued[n].key, out |-> Null]]
    /\ heartbeats' = heartbeats \cup {Beat(w, dequeued[n].key)}
    /\ Count(dequeued[n].key)
    /\ dequeued' = [dequeued EXCEPT ![n] = Null]
    /\ UNCHANGED <<tableVars, caller, reply, reaper, crashes, handler>>

TaskReturns(w, o) ==
    /\ worker[w].pc = "run"
    /\ worker' = [worker EXCEPT ![w].pc = "finish", ![w].out = o]
    /\ UNCHANGED <<tableVars, caller, reply, dequeued, heartbeats, reaper, crashes,
                   handler, runs>>

\* Fail, Requeue or Success, by the key alone; then task.Cancel().
FinishTask(w) ==
    LET k == worker[w].key
        o == worker[w].out
    IN  /\ worker[w].pc = "finish"
        /\ \/ o = "syserr" /\ Free(k)
           \/ Aborted(o) /\ Requeue(k, RequeueInterval)
           \/ o \in {"ok", "err"} /\ Cache /\ DoneAsync(k, CacheExpire, StoredOf(o))
           \/ o \in {"ok", "err"} /\ ~Cache /\ Free(k)
        /\ worker' = [worker EXCEPT ![w] = IdleWorker]
        /\ heartbeats' = Cancel(w)
        /\ UNCHANGED <<caller, reply, dequeued, reaper, crashes, handler, runs>>

(***************************************************************************)
(* Time wheel, reaper, crashes                                             *)
(***************************************************************************)
\* The wheel fires the task and adds it again as a new one that nothing cancels.  After an HTTP
\* call has returned the task reads the context of a released request: it renews the lease, or
\* the read panics in a goroutine nothing recovers and the process dies, which is Crash.
HeartBeat(h) ==
    /\ h.due = 0
    /\ LeaseUpdate(h.key)
    /\ heartbeats' = (heartbeats \ {h}) \cup {[h EXCEPT !.due = HalfLease, !.owner = Null]}
    /\ UNCHANGED <<caller, reply, worker, dequeued, reaper, crashes, handler, runs>>

ReaperVars == <<caller, reply, worker, dequeued, heartbeats, crashes, handler, runs>>

\* Reaping: three statements of their own, every LeaseDuration.
ReapFirst(n) ==
    /\ reaper[n].next = "error" /\ reaper[n].due = 0
    /\ ReapError(Failure)
    /\ reaper' = [reaper EXCEPT ![n].next = "requeue"]
    /\ UNCHANGED ReaperVars

ReapSecond(n) ==
    /\ reaper[n].next = "requeue"
    /\ ReapRequeue
    /\ reaper' = [reaper EXCEPT ![n].next = "delete"]
    /\ UNCHANGED ReaperVars

ReapThird(n) ==
    /\ reaper[n].next = "delete"
    /\ ReapDelete
    /\ reaper' = [reaper EXCEPT ![n] = [due |-> LeaseDuration, next |-> "error"]]
    /\ UNCHANGED ReaperVars

\* The process dies and is started again: only the tables survive.
Crash(n) ==
    /\ crashes < MaxCrash
    /\ crashes' = crashes + 1
    /\ caller' = [c \in Caller |-> IF NodeOf[c] = n THEN IdleCaller ELSE caller[c]]
    /\ reply' = [c \in Caller |-> IF NodeOf[c] = n THEN NoReply ELSE reply[c]]
    /\ worker' = [w \in Worker |-> IF NodeOf[w] = n THEN IdleWorker ELSE worker[w]]
    /\ dequeued' = [dequeued EXCEPT ![n] = Null]
    /\ heartbeats' = {h \in heartbeats : h.node # n}
    /\ reaper' = [reaper EXCEPT ![n] = [due |-> LeaseDuration, next |-> "error"]]
    /\ UNCHANGED <<tableVars, handler, runs>>

\* A tick passes once the wheel's due tasks have run (they are goroutines started
\* by the tick) and no dequeued task has waited longer than Handoff.
Tick ==
    /\ \A h \in heartbeats : h.due > 0
    /\ \A n \in Node : /\ reaper[n].due > 0 /\ reaper[n].next = "error"
                       /\ dequeued[n] # Null => dequeued[n].age < Handoff
    /\ AgeRows
    /\ heartbeats' = {[h EXCEPT !.due = @ - 1] : h \in heartbeats}
    /\ reaper' = [n \in Node |-> [reaper[n] EXCEPT !.due = @ - 1]]
    /\ dequeued' = [n \in Node |-> IF dequeued[n] = Null THEN Null
                                   ELSE [dequeued[n] EXCEPT !.age = @ + 1]]
    /\ UNCHANGED <<executions_results, created_before, handler, caller, reply, worker,
                   crashes, runs>>

(***************************************************************************)
(* Specification                                                           *)
(***************************************************************************)
Init ==
    /\ handler \in Options
    /\ TableInit
    /\ caller = [c \in Caller |-> IdleCaller]
    /\ reply = [c \in Caller |-> NoReply]
    /\ worker = [w \in Worker |-> IdleWorker]
    /\ dequeued = [n \in Node |-> Null]
    /\ heartbeats = {}
    /\ reaper = [n \in Node |-> [due |-> LeaseDuration, next |-> "error"]]
    /\ crashes = 0
    /\ runs = [k \in Key |-> 0]

CallerStep(c) ==
    \/ EnqueueJob(c) \/ GoWait(c) \/ Recall(c)
    \/ Lock(c) \/ HitAgain(c) \/ WaitPoll(c)
    \/ \E o \in handler.outcome : HandlerReturns(c, o)
    \/ FinishCall(c) \/ RequeueCall(c)

WorkerStep(w) ==
    \/ StartTask(w) \/ (\E o \in handler.outcome : TaskReturns(w, o)) \/ FinishTask(w)

Wheel ==
    \/ \E h \in heartbeats : HeartBeat(h)
    \/ \E n \in Node : ReapFirst(n) \/ ReapSecond(n) \/ ReapThird(n)

Next ==
    \/ \E c \in Caller : \/ \E k \in handler.input, via \in handler.via : Call(c, k, via)
                        \/ CallerStep(c)
    \/ \E n \in Node : DequeueTask(n) \/ Crash(n)
    \/ \E w \in Worker : WorkerStep(w)
    \/ Wheel
    \/ Tick

Spec == Init /\ [][Next]_vars

\* Goroutines are scheduled, handlers return, the wheel ticks and runs what is
\* due; nobody has to call, and nodes need not crash.
Fairness ==
    /\ \A c \in Caller : WF_vars(CallerStep(c))
    /\ \A n \in Node : WF_vars(DequeueTask(n))
    /\ \A w \in Worker : WF_vars(WorkerStep(w))
    /\ WF_vars(Wheel) /\ WF_vars(Tick)

FairSpec == Spec /\ Fairness

(***************************************************************************)
(* Properties                                                              *)
(***************************************************************************)
TypeOK ==
    /\ handler \in Options
    /\ TableTypeOK
    /\ caller \in [Caller ->
          [pc : {"idle", "enqueue", "gowait", "recall", "lock", "hitagain", "wait", "run",
                 "finish", "requeue"},
           key : Key \cup {Null}, via : {"http", "call", "go", Null}, out : Outcomes \cup {Null}]]
    /\ reply \in [Caller -> {"none", "output", "error", "duplicated", "accepted",
                             "pending", "lost"}]
    /\ worker \in [Worker -> [pc : {"idle", "run", "finish"}, key : Key \cup {Null},
                              out : Outcomes \cup {Null}]]
    /\ dequeued \in [Node -> [key : Key, age : 0..Handoff] \cup {Null}]
    /\ heartbeats \subseteq [node : Node, key : Key, due : 0..HalfLease,
                             owner : Caller \cup Worker \cup {Null}]
    /\ reaper \in [Node -> [due : 0..LeaseDuration, next : {"error", "requeue", "delete"}]]
    /\ crashes \in 0..MaxCrash
    /\ runs \in [Key -> 0..RunCap]

\* Goroutines currently inside the handler for k.
Running(k) == {c \in Caller : caller[c].pc = "run" /\ caller[c].key = k}
              \cup {w \in Worker : worker[w].pc = "run" /\ worker[w].key = k}

\* Some goroutine will still close, free or requeue the row of k.
Held(k) == \/ \E c \in Caller : caller[c].pc \in {"run", "finish", "requeue"} /\ caller[c].key = k
           \/ \E w \in Worker : worker[w].pc # "idle" /\ worker[w].key = k
           \/ \E n \in Node : dequeued[n] # Null /\ dequeued[n].key = k

\* Handlers whose runs all start from a dequeued row.
Queued(h) == h.mode = "async" \/ (h.mode = "dispatch" /\ "http" \notin h.via)

\* Handlers whose every run holds a row.  A once or memoized handler with CacheExpire
\* is not among them: Lock may take over a done row with a lease that has ended.
Guarded(h) == \/ Queued(h) \/ h.mode = "dedupe"
              \/ h.mode \in {"once", "memoized"} /\ h.expire = Null

\* A handler whose runs hold a row never runs twice at the same time for one input, though
\* the lock and the lease are only rows that a reaper may requeue, that heartbeats renew
\* from another goroutine, and that Free, doneAsync and requeue address by key.
Exclusive == Guarded(handler) => \A k \in Key : Cardinality(Running(k)) <= 1

\* Until a node has crashed, a once handler is started at most once per input, over all callers
\* and workers.  (A crash leaves a lock whose renewed lease expires: the reaper queues the job.)
RunsOnce == Mode = "once" /\ crashes = 0 => \A k \in Key : runs[k] <= 1

\* A persistent result, once callers can read it, is never replaced: not by the
\* second of two calls, nor by the worker that an expired lease started again.
ResultStable ==
    [][\A k \in Key : executions_results[k] # Null
                        => executions_results'[k] = executions_results[k]]_vars

\* A cached result in executions is neither dropped nor replaced before its ttl
\* has passed, whoever enqueues, reaps or finishes the same key meanwhile.
CacheKept ==
    [][\A k \in Key :
          HasStatus(k, {"done"}) /\ Volatile /\ ~IsPast(executions[k].ttl)
             => /\ HasStatus(k, {"done"})'
                /\ executions'[k].output = executions[k].output]_vars

\* A row closed as done or error has its result where Hit and Result look for it.
ClosedIsVisible ==
    \A k \in Key : HasStatus(k, {"done", "error"}) => Result(k, Volatile) = "finished"

\* The lock of k is a row that nothing will ever remove: leased without a lease that could
\* expire, no goroutine left to free it, and no result that later calls would find instead.
Stuck(k) == /\ HasStatus(k, {"leased"}) /\ executions[k].leased_until = Null
            /\ ~Held(k) /\ Result(k, Volatile) # "finished"

\* c leaves call_job in this step with the lock still in the table: its node died, it has
\* requeued the job with the status leased, or it stored nothing for a handler that caches.
LeavesLock(c, k) ==
    /\ caller[c].key = k /\ caller'[c].pc = "idle"
    /\ \/ caller[c].pc \in {"run", "finish", "requeue"} /\ crashes' # crashes
       \/ caller[c].pc = "requeue"
       \/ caller[c].pc = "finish" /\ Cache /\ (caller[c].out \in {"abort", "syserr"} \/ Volatile)

\* A lock is left behind for good in these three ways and in no other: not by a handler that
\* returned, not by a worker, the reaper or a heartbeat, and not by the crash of a worker's node.
StuckOnlyByCall ==
    [][\A k \in Key : ~Stuck(k) /\ Stuck(k)' => \E c \in Caller : LeavesLock(c, k)]_vars

\* An accepted job is eventually closed or freed: a crash and the expired lease it
\* leaves behind only delay it, and jobs that keep arriving do not starve it.
JobFinishes == \A k \in Key : Async /\ HasStatus(k, {"queued", "leased"})
                                 ~> ~HasStatus(k, {"queued", "leased"})

\* Await on a dispatched job returns: once the worker has stored the result, the
\* poll of Wait finds it and the repeated call hits it.
GoResolves == \A c \in Caller : caller[c].pc = "gowait" ~> caller[c].pc = "idle"
=============================================================================
