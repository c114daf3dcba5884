---------------------------- MODULE Server_proofs ----------------------------
(***************************************************************************)
(* Proofs about Server, for any handlers, jobs, pool and limits: paced     *)
(* runs do not overlap, the loop panics only during start-up, and who      *)
(* tells WaitForJob to return has seen the pool idle.                      *)
(***************************************************************************)
EXTENDS Server, FiniteSetTheorems, TLAPS

\* Where a job is, the loop and the pool agree.
LoopPlaced ==
    /\ loop.pc \in {"got", "handoff"} => loop.job \in Job /\ job[loop.job].at = "held"
    /\ \A j \in Job : job[j].at = "held" => loop.pc \in {"got", "handoff", "panic"} /\ loop.job = j
    /\ \A j \in Job : job[j].at # "none" => job[j].h \in Handler

PoolPlaced ==
    /\ \A w \in Worker :
         /\ worker[w].pc \in {"taken", "run", "clear"} =>
               worker[w].job \in Job /\ job[worker[w].job].at # "none"
         /\ worker[w].pc = "taken" => job[worker[w].job].at = "pool"
         /\ worker[w].pc = "run" => job[worker[w].job].at = "run"
    /\ \A v, w \in Worker :
         /\ worker[v].pc \in {"taken", "run"} /\ worker[w].pc \in {"taken", "run"}
         /\ worker[v].job = worker[w].job
         => v = w

Placed == LoopPlaced /\ PoolPlaced

\* A job on whose behalf its handler is locked.
Holding(j) ==
    \/ job[j].at \in {"pool", "run", "delayed", "wheel"}
    \/ job[j].at = "held" /\ loop.pc = "handoff"

\* A goroutine that still has to unlock the handler of the job it has run.
Ending(w) == worker[w].pc = "clear"

HandlerOf(w) == job[worker[w].job].h

\* The lock of a paced handler belongs to one job, or to the goroutine that ran it.
LockOwned ==
    /\ loop.pc = "got" => job[loop.job].h \notin locked
    /\ \A j \in Job : Holding(j) /\ job[j].h \in Paced => job[j].h \in locked
    /\ \A i, j \in Job : Holding(i) /\ Holding(j) /\ job[i].h = job[j].h /\ job[i].h \in Paced => i = j
    /\ \A w \in Worker : Ending(w) /\ HandlerOf(w) \in Paced => HandlerOf(w) \in locked
    /\ \A w \in Worker, j \in Job :
         Ending(w) /\ HandlerOf(w) \in Paced /\ Holding(j) => job[j].h # HandlerOf(w)
    /\ \A v, w \in Worker :
         Ending(v) /\ Ending(w) /\ HandlerOf(v) = HandlerOf(w) /\ HandlerOf(w) \in Paced => v = w

\* The functions are all in the map once they have been registered, and the loop is not
\* there before the first of them.
Registered ==
    /\ main \in {"new", "built"} => loop.pc = "off"
    /\ main \notin {"new", "built", "functions"} \cup Over => handlers = Handler /\ optMap = Handler
    /\ optMap \subseteq handlers
    /\ diedIn \in {"alive", "functions"}

ManagerInv == ManagerTypeOK /\ Placed /\ LockOwned

\* activeJobs counts the jobs that run or wait in the wheel, and the delayed runs that are
\* done and have not yet said so.
Busy == At({"run", "delayed", "wheel"})
Counted == active = Cardinality(Busy) + wrapping

\* While a goroutine has a job it has not counted yet, the loop has failed once at most.
Quieted ==
    /\ \A j \in Job : job[j].at = "pool" => \E w \in Worker : worker[w].pc = "taken" /\ worker[w].job = j
    /\ loop.pc = "handoff" => attempt = 0
    /\ \A w \in Worker : worker[w].pc = "taken" => attempt <= IF loop.pc = "sleep" THEN 1 ELSE 0

\* The loop has slept since it last handed over a job, so that no goroutine can be between
\* the receive of a job and its count, or have looked at activeJobs before that.
Rested == attempt > 1 \/ (attempt = 1 /\ loop.pc # "sleep")

\* What a goroutine saw of activeJobs is still so if attempt can satisfy it.
StillIdle == Rested => active = 0 \/ \A g \in Teller : try[g] # "looked"

ServerInv == TypeOK /\ Placed /\ LockOwned /\ Registered /\ Counted /\ Quieted /\ StillIdle

-----------------------------------------------------------------------------
LEMMA MoveMoves ==
    ASSUME ManagerTypeOK, NEW j \in Job, NEW place \in Places, Move(j, place)
    PROVE  /\ job' \in [Job -> [at : Places, h : Handler \cup {Null}]]
           /\ \A i \in Job : job'[i].h = job[i].h /\ job'[i].at = IF i = j THEN place ELSE job[i].at
  BY DEF ManagerTypeOK, Move

LEMMA WorkerMoves ==
    ASSUME ManagerTypeOK, NEW w \in Worker, NEW j \in Job \cup {Null},
           NEW pc \in {"idle", "taken", "run", "clear", "left"}, WorkerTo(w, pc, j)
    PROVE  /\ worker' \in [Worker -> [pc : {"idle", "taken", "run", "clear", "left"},
                                      job : Job \cup {Null}]]
           /\ worker'[w].pc = pc /\ worker'[w].job = j
           /\ \A v \in Worker \ {w} : worker'[v] = worker[v]
  BY DEF ManagerTypeOK, WorkerTo

LEMMA LoopMoves ==
    ASSUME NEW j \in Job \cup {Null}, LoopTo("top", j) \/ LoopTo("got", j) \/ LoopTo("handoff", j)
             \/ LoopTo("sleep", j) \/ LoopTo("left", j) \/ LoopTo("panic", j)
    PROVE  loop' \in [pc : {"off", "top", "got", "handoff", "sleep", "left", "panic"}, job : Job \cup {Null}]
  BY DEF LoopTo

\* Entering tryFinish, or a step of it, moves one goroutine.
LEMMA TryTypes ==
    ASSUME ManagerTypeOK, try' = try \/ \E g \in Teller : Try(g) \/ tryFinish(g)
    PROVE  try' \in [Teller -> {"no", "try", "looked", "tell"}]
  BY DEF ManagerTypeOK, Try, tryFinish, LoadActive, LoadAttempt, Send

LEMMA LeavesKeeps ==
    ASSUME ManagerInv, LoopLeaves \/ Wake \/ DequeueFails
    PROVE  ManagerInv'
  <1>1. /\ loop.pc \in {"top", "sleep"} /\ loop'.pc \in {"left", "sleep", "top"} /\ loop'.job = Null
        /\ loop' \in [pc : {"off", "top", "got", "handoff", "sleep", "left", "panic"}, job : Job \cup {Null}]
        /\ UNCHANGED <<app, handlers, optMap, locked, ran, job, worker, wrapping, active, waiting, waiter>>
    BY DEF LoopLeaves, Wake, DequeueFails, LoopTo
  <1>2. ManagerTypeOK'
    <2>1. attempt' \in 0 .. Quiet
      BY JobManagerAssumption DEF LoopLeaves, Wake, DequeueFails, ManagerInv, ManagerTypeOK
    <2>2. try' \in [Teller -> {"no", "try", "looked", "tell"}]
      <3>1. try' = try \/ Try("loop")
        BY DEF LoopLeaves, Wake, DequeueFails
      <3> QED BY <3>1, TryTypes DEF ManagerInv, Teller
    <2> QED BY <1>1, <2>1, <2>2 DEF ManagerInv, ManagerTypeOK
  <1>3. Placed'
    BY <1>1 DEF ManagerInv, Placed, LoopPlaced, PoolPlaced
  <1>4. LockOwned'
    BY <1>1 DEF ManagerInv, LockOwned, Holding, Ending, HandlerOf
  <1> QED BY <1>2, <1>3, <1>4 DEF ManagerInv

\* Steps that touch neither jobs, loop, pool nor locks.
LEMMA AsideKeeps ==
    ASSUME ManagerInv, ManagerTypeOK', UNCHANGED <<job, loop, worker, locked>>
    PROVE  ManagerInv'
  BY DEF ManagerInv, Placed, LoopPlaced, PoolPlaced, LockOwned, Holding, Ending, HandlerOf

LEMMA WaitKeeps ==
    ASSUME ManagerInv, WaitTick \/ WaitCancelled \/ WaitReturns \/ StartWait
    PROVE  ManagerInv'
  <1>1. UNCHANGED <<app, handlers, optMap, locked, ran, job, loop, worker, wrapping, attempt, active, try>>
    BY DEF WaitTick, WaitCancelled, WaitReturns, StartWait
  <1>2. waiter' \in {"none", "select", "tick", "signalled", "returned", "cancelled"}
    BY DEF WaitTick, WaitCancelled, WaitReturns, StartWait, ManagerInv, ManagerTypeOK
  <1>3. waiting' \in BOOLEAN
    BY DEF WaitTick, WaitCancelled, WaitReturns, StartWait, ManagerInv, ManagerTypeOK
  <1>4. ManagerTypeOK'
    BY <1>1, <1>2, <1>3 DEF ManagerInv, ManagerTypeOK
  <1> QED BY <1>1, <1>4, AsideKeeps

LEMMA TryKeeps ==
    ASSUME ManagerInv, (\E g \in Firing : WrapUp(g)) \/ (\E g \in Teller : tryFinish(g)), active' \in Nat
    PROVE  ManagerInv'
  <1>1. UNCHANGED <<app, handlers, optMap, locked, ran, job, loop, worker, attempt, waiting>>
    BY DEF WrapUp, tryFinish, LoadActive, LoadAttempt, Send
  <1>2. waiter' \in {"none", "select", "tick", "signalled", "returned", "cancelled"}
    BY DEF WrapUp, tryFinish, LoadActive, LoadAttempt, Send, ManagerInv, ManagerTypeOK
  <1>3. wrapping' \in Nat
    BY DEF WrapUp, tryFinish, LoadActive, LoadAttempt, Send, ManagerInv, ManagerTypeOK
  <1>4. try' \in [Teller -> {"no", "try", "looked", "tell"}]
    BY TryTypes DEF WrapUp, Teller, ManagerInv
  <1>5. ManagerTypeOK'
    BY <1>1, <1>2, <1>3, <1>4 DEF ManagerInv, ManagerTypeOK
  <1> QED BY <1>1, <1>5, AsideKeeps

LEMMA EnqueueKeeps ==
    ASSUME ManagerInv, NEW j \in Job, NEW h \in Handler, Enqueue(j, h)
    PROVE  ManagerInv'
  <1>1. /\ job[j].at = "none"
        /\ UNCHANGED <<app, handlers, optMap, locked, ran, loop, worker, wrapping, attempt,
                       active, try, waiting, waiter>>
    BY DEF Enqueue
  <1>2. /\ job' \in [Job -> [at : Places, h : Handler \cup {Null}]]
        /\ job'[j].at = "queued" /\ job'[j].h = h
        /\ \A i \in Job \ {j} : job'[i] = job[i]
    BY DEF Enqueue, ManagerInv, ManagerTypeOK, Places
  <1>3. ManagerTypeOK'
    BY <1>1, <1>2 DEF ManagerInv, ManagerTypeOK
  <1>4. Placed'
    BY <1>1, <1>2 DEF ManagerInv, Placed, LoopPlaced, PoolPlaced
  <1>5. ~Holding(j) /\ ~Holding(j)' /\ \A i \in Job \ {j} : Holding(i)' = Holding(i)
    BY <1>1, <1>2 DEF Holding
  <1>6. \A w \in Worker : Ending(w)' = Ending(w) /\ (Ending(w) => HandlerOf(w)' = HandlerOf(w))
    BY <1>1, <1>2 DEF Ending, HandlerOf, ManagerInv, Placed, PoolPlaced
  <1>7. loop.pc = "got" => job'[loop.job].h = job[loop.job].h
    BY <1>1, <1>2 DEF ManagerInv, Placed, LoopPlaced
  <1>8. LockOwned'
    BY <1>1, <1>2, <1>5, <1>6, <1>7 DEF ManagerInv, LockOwned
  <1> QED BY <1>3, <1>4, <1>8 DEF ManagerInv

LEMMA DequeueKeeps ==
    ASSUME ManagerInv, NEW j \in Job, Dequeue(j)
    PROVE  ManagerInv'
  <1>1. /\ loop.pc = "top" /\ job[j].at = "queued" /\ job[j].h \notin locked
        /\ Move(j, "held") /\ loop'.pc = "got" /\ loop'.job = j
        /\ loop' \in [pc : {"off", "top", "got", "handoff", "sleep", "left", "panic"}, job : Job \cup {Null}]
        /\ UNCHANGED <<app, handlers, optMap, locked, ran, worker, wrapping, attempt, active,
                       try, waiting, waiter>>
    BY DEF Dequeue, LoopTo, Diff
  <1>2. /\ job' \in [Job -> [at : Places, h : Handler \cup {Null}]]
        /\ \A i \in Job : job'[i].h = job[i].h /\ job'[i].at = IF i = j THEN "held" ELSE job[i].at
    BY <1>1, MoveMoves DEF ManagerInv, Places
  <1>3. ManagerTypeOK'
    BY <1>1, <1>2 DEF ManagerInv, ManagerTypeOK
  <1>4. Placed'
    BY <1>1, <1>2 DEF ManagerInv, Placed, LoopPlaced, PoolPlaced
  <1>5. ~Holding(j)' /\ \A i \in Job : Holding(i)' => Holding(i)
    BY <1>1, <1>2 DEF Holding
  <1>6. \A w \in Worker : Ending(w)' = Ending(w) /\ (Ending(w) => HandlerOf(w)' = HandlerOf(w))
    BY <1>1, <1>2 DEF Ending, HandlerOf, ManagerInv, Placed, LoopPlaced, PoolPlaced
  <1>7. LockOwned'
    BY <1>1, <1>2, <1>5, <1>6 DEF ManagerInv, LockOwned
  <1> QED BY <1>3, <1>4, <1>7 DEF ManagerInv

\* The handler the loop locks is nobody's: it was not locked when its job was dequeued.
LEMMA LockKeeps ==
    ASSUME ManagerInv, Lock
    PROVE  ManagerInv'
  <1> DEFINE j == loop.job  h == job[j].h
  <1>1. /\ loop.pc = "got" /\ h \in optMap
        /\ locked' = locked \cup ({h} \cap Paced) /\ attempt' = 0
        /\ loop'.pc = "handoff" /\ loop'.job = j
        /\ UNCHANGED <<app, handlers, optMap, ran, job, worker, wrapping, active, try, waiting, waiter>>
    BY DEF Lock, LoopTo
  <1>2. j \in Job /\ job[j].at = "held" /\ h \notin locked
        /\ \A i \in Job : job[i].at = "held" => i = j
    BY <1>1 DEF ManagerInv, Placed, LoopPlaced, PoolPlaced, LockOwned
  <1>3. ManagerTypeOK'
    <2>1. loop' \in [pc : {"off", "top", "got", "handoff", "sleep", "left", "panic"}, job : Job \cup {Null}]
      BY <1>2 DEF Lock, LoopTo
    <2>2. locked' \in SUBSET Handler /\ attempt' \in 0 .. Quiet
      BY <1>1, JobManagerAssumption DEF ManagerInv, ManagerTypeOK
    <2> QED BY <1>1, <2>1, <2>2 DEF ManagerInv, ManagerTypeOK
  <1>4. Placed'
    BY <1>1, <1>2 DEF ManagerInv, Placed, LoopPlaced, PoolPlaced
  <1>5. ~Holding(j) /\ \A i \in Job : Holding(i)' <=> Holding(i) \/ i = j
    BY <1>1, <1>2 DEF Holding
  <1>6. \A w \in Worker : Ending(w)' = Ending(w) /\ HandlerOf(w)' = HandlerOf(w)
    BY <1>1 DEF Ending, HandlerOf
  <1>7. LockOwned'
    <2> USE <1>1, <1>2, <1>5, <1>6 DEF ManagerInv
    <2>1. \A i \in Job : Holding(i)' /\ job'[i].h \in Paced => job'[i].h \in locked'
      BY DEF LockOwned
    <2>2. \A i, k \in Job : Holding(i)' /\ Holding(k)' /\ job'[i].h = job'[k].h /\ job'[i].h \in Paced => i = k
      BY DEF LockOwned
    <2>3. \A w \in Worker : Ending(w)' /\ HandlerOf(w)' \in Paced => HandlerOf(w)' \in locked'
      BY DEF LockOwned
    <2>4. \A w \in Worker, i \in Job :
             Ending(w)' /\ HandlerOf(w)' \in Paced /\ Holding(i)' => job'[i].h # HandlerOf(w)'
      BY DEF LockOwned
    <2>5. \A v, w \in Worker :
             Ending(v)' /\ Ending(w)' /\ HandlerOf(v)' = HandlerOf(w)' /\ HandlerOf(w)' \in Paced => v = w
      BY DEF LockOwned
    <2> QED BY <2>1, <2>2, <2>3, <2>4, <2>5 DEF LockOwned
  <1> QED BY <1>3, <1>4, <1>7 DEF ManagerInv

LEMMA DoKeeps ==
    ASSUME ManagerInv, NEW w \in Worker, Do(w)
    PROVE  ManagerInv'
  <1> DEFINE j == loop.job
  <1>1. /\ loop.pc = "handoff" /\ worker[w].pc = "idle"
        /\ WorkerTo(w, "taken", j) /\ Move(j, "pool") /\ loop'.pc = "top"
        /\ loop' \in [pc : {"off", "top", "got", "handoff", "sleep", "left", "panic"}, job : Job \cup {Null}]
        /\ UNCHANGED <<app, handlers, optMap, locked, ran, wrapping, attempt, active, try, waiting, waiter>>
    BY DEF Do, LoopTo
  <1>2. j \in Job /\ job[j].at = "held" /\ Holding(j) /\ \A i \in Job : job[i].at = "held" => i = j
    BY <1>1 DEF ManagerInv, Placed, LoopPlaced, PoolPlaced, Holding
  <1> HIDE DEF j
  <1>3. /\ job' \in [Job -> [at : Places, h : Handler \cup {Null}]]
        /\ \A i \in Job : job'[i].h = job[i].h /\ job'[i].at = IF i = j THEN "pool" ELSE job[i].at
    BY <1>1, <1>2, MoveMoves DEF ManagerInv, Places
  <1>4. /\ worker' \in [Worker -> [pc : {"idle", "taken", "run", "clear", "left"},
                                    job : Job \cup {Null}]]
        /\ worker'[w].pc = "taken" /\ worker'[w].job = j
        /\ \A v \in Worker \ {w} : worker'[v] = worker[v]
    BY <1>1, <1>2, WorkerMoves DEF ManagerInv
  <1>5. ManagerTypeOK'
    BY <1>1, <1>3, <1>4 DEF ManagerInv, ManagerTypeOK
  <1>6. Placed'
    <2>1. LoopPlaced'
      BY <1>1, <1>2, <1>3 DEF ManagerInv, Placed, LoopPlaced
    <2>2. \A v \in Worker : worker[v].pc \in {"taken", "run"} => worker[v].job # j
      BY <1>2 DEF ManagerInv, Placed, PoolPlaced
    <2>3. ASSUME NEW v \in Worker
          PROVE  /\ worker'[v].pc \in {"taken", "run", "clear"} =>
                      worker'[v].job \in Job /\ job'[worker'[v].job].at # "none"
                 /\ worker'[v].pc = "taken" => job'[worker'[v].job].at = "pool"
                 /\ worker'[v].pc = "run" => job'[worker'[v].job].at = "run"
      <3>1. CASE v = w
        BY <3>1, <1>2, <1>3, <1>4
      <3>2. CASE v # w
        BY <3>2, <1>2, <1>3, <1>4, <2>2 DEF ManagerInv, Placed, PoolPlaced
      <3> QED BY <3>1, <3>2
    <2>4. ASSUME NEW u \in Worker, NEW v \in Worker,
                 worker'[u].pc \in {"taken", "run"}, worker'[v].pc \in {"taken", "run"},
                 worker'[u].job = worker'[v].job
          PROVE  u = v
      BY <2>2, <2>4, <1>4 DEF ManagerInv, Placed, PoolPlaced
    <2> QED BY <2>1, <2>3, <2>4 DEF Placed, PoolPlaced
  <1>7. \A i \in Job : Holding(i)' = Holding(i)
    BY <1>1, <1>2, <1>3 DEF Holding
  <1>8. \A v \in Worker : Ending(v)' = Ending(v) /\ (Ending(v) => HandlerOf(v)' = HandlerOf(v))
    BY <1>1, <1>3, <1>4 DEF Ending, HandlerOf, ManagerInv, Placed, LoopPlaced, PoolPlaced
  <1>9. LockOwned'
    BY <1>1, <1>3, <1>7, <1>8 DEF ManagerInv, LockOwned
  <1> QED BY <1>5, <1>6, <1>9 DEF ManagerInv

-----------------------------------------------------------------------------
\* What a step of a goroutine of the pool has to show: the job it leaves is no longer
\* another's, and the goroutine's own new state agrees with its job.
LEMMA PoolStep ==
    ASSUME ManagerInv, ManagerTypeOK', NEW w \in Worker, NEW j \in Job, loop' = loop,
           \A i \in Job : job'[i].h = job[i].h,
           \A i \in Job \ {j} : job'[i].at = job[i].at,
           job[j].at \notin {"none", "held"}, job'[j].at \notin {"none", "held"},
           worker[w].job = j,
           \A v \in Worker \ {w} : worker'[v] = worker[v],
           worker'[w].pc \in {"taken", "run", "clear"} => worker'[w].job = j,
           worker'[w].pc = "taken" => job'[j].at = "pool",
           worker'[w].pc = "run" => job'[j].at = "run",
           worker'[w].pc \in {"taken", "run"} => worker[w].pc \in {"taken", "run"},
           worker[w].pc \in {"taken", "run"} \/ job' = job
    PROVE  Placed'
  <1>1. LoopPlaced'
    BY DEF ManagerInv, Placed, LoopPlaced
  <1>2. \A v \in Worker \ {w} : worker[v].pc \in {"taken", "run"} /\ worker[v].job = j => job' = job
    BY DEF ManagerInv, Placed, PoolPlaced
  <1>3. ASSUME NEW v \in Worker
        PROVE  /\ worker'[v].pc \in {"taken", "run", "clear"} =>
                    worker'[v].job \in Job /\ job'[worker'[v].job].at # "none"
               /\ worker'[v].pc = "taken" => job'[worker'[v].job].at = "pool"
               /\ worker'[v].pc = "run" => job'[worker'[v].job].at = "run"
    <2>1. CASE v = w
      BY <2>1
    <2>2. CASE v # w
      BY <2>2, <1>2 DEF ManagerInv, Placed, PoolPlaced
    <2> QED BY <2>1, <2>2
  <1>4. ASSUME NEW u \in Worker, NEW v \in Worker,
               worker'[u].pc \in {"taken", "run"}, worker'[v].pc \in {"taken", "run"},
               worker'[u].job = worker'[v].job
        PROVE  u = v
    BY <1>4 DEF ManagerInv, Placed, PoolPlaced
  <1> QED BY <1>1, <1>3, <1>4 DEF Placed, PoolPlaced

LEMMA BeginKeeps ==
    ASSUME ManagerInv, NEW w \in Worker, NEW late \in BOOLEAN, Begin(w, late)
    PROVE  ManagerInv'
  <1> DEFINE j == worker[w].job
             place == IF late THEN "delayed" ELSE "run"
  <1>1. /\ worker[w].pc = "taken" /\ active' = active + 1
        /\ Move(j, place)
        /\ WorkerTo(w, "idle", Null) \/ (~late /\ WorkerTo(w, "run", j))
        /\ UNCHANGED <<app, handlers, optMap, locked, ran, loop, wrapping, attempt, try, waiting, waiter>>
    BY DEF Begin
  <1>2. j \in Job /\ job[j].at = "pool"
    BY <1>1 DEF ManagerInv, Placed, PoolPlaced
  <1>3. /\ job' \in [Job -> [at : Places, h : Handler \cup {Null}]]
        /\ \A i \in Job : job'[i].h = job[i].h /\ job'[i].at = IF i = j THEN place ELSE job[i].at
    <2>1. place \in Places
      BY DEF Places
    <2> QED BY <2>1, <1>1, <1>2, MoveMoves DEF ManagerInv
  <1>4. /\ worker' \in [Worker -> [pc : {"idle", "taken", "run", "clear", "left"},
                                    job : Job \cup {Null}]]
        /\ worker'[w].pc = "idle" \/ (~late /\ worker'[w].pc = "run" /\ worker'[w].job = j)
        /\ \A v \in Worker \ {w} : worker'[v] = worker[v]
    BY <1>1, <1>2, WorkerMoves DEF ManagerInv
  <1> HIDE DEF j
  <1>5. ManagerTypeOK'
    BY <1>1, <1>3, <1>4 DEF ManagerInv, ManagerTypeOK
  <1>6. Placed'
    BY <1>1, <1>2, <1>3, <1>4, <1>5, PoolStep DEF j
  <1>7. \A i \in Job : Holding(i)' = Holding(i)
    BY <1>1, <1>2, <1>3 DEF Holding
  <1>8. \A v \in Worker : Ending(v)' = Ending(v) /\ (Ending(v) => HandlerOf(v)' = HandlerOf(v))
    BY <1>1, <1>3, <1>4 DEF Ending, HandlerOf, ManagerInv, Placed, PoolPlaced
  <1>9. LockOwned'
    BY <1>1, <1>3, <1>7, <1>8 DEF ManagerInv, Placed, LoopPlaced, LockOwned
  <1> QED BY <1>5, <1>6, <1>9 DEF ManagerInv

\* The lock passes from the job to the goroutine that ran it.
LEMMA EndRunKeeps ==
    ASSUME ManagerInv, NEW w \in Worker, NEW place \in Places, EndRun(w, place), active' \in Nat
    PROVE  ManagerInv'
  <1> DEFINE j == worker[w].job
  <1>1. /\ worker[w].pc = "run" /\ place \in {"ended", "queued", "leased"}
        /\ Move(j, place) /\ active' = active - 1 /\ WorkerTo(w, "clear", j) /\ Try(w)
        /\ UNCHANGED <<app, handlers, optMap, locked, ran, loop, wrapping, attempt, waiting, waiter>>
    BY DEF EndRun, After
  <1>2. j \in Job /\ job[j].at = "run"
    BY <1>1 DEF ManagerInv, Placed, PoolPlaced
  <1>3. /\ job' \in [Job -> [at : Places, h : Handler \cup {Null}]]
        /\ \A i \in Job : job'[i].h = job[i].h /\ job'[i].at = IF i = j THEN place ELSE job[i].at
    BY <1>1, <1>2, MoveMoves DEF ManagerInv
  <1>4. /\ worker' \in [Worker -> [pc : {"idle", "taken", "run", "clear", "left"},
                                    job : Job \cup {Null}]]
        /\ worker'[w].pc = "clear" /\ worker'[w].job = j
        /\ \A v \in Worker \ {w} : worker'[v] = worker[v]
    BY <1>1, <1>2, WorkerMoves DEF ManagerInv
  <1> HIDE DEF j
  <1>5. ManagerTypeOK'
    <2>1. try' \in [Teller -> {"no", "try", "looked", "tell"}]
      BY <1>1, TryTypes DEF ManagerInv, Teller
    <2> QED BY <1>1, <1>3, <1>4, <2>1 DEF ManagerInv, ManagerTypeOK
  <1>6. Placed'
    BY <1>1, <1>2, <1>3, <1>4, <1>5, PoolStep DEF j
  <1>7. Holding(j) /\ \A i \in Job : Holding(i)' <=> Holding(i) /\ i # j
    BY <1>1, <1>2, <1>3 DEF Holding
  <1>8. /\ Ending(w)' /\ HandlerOf(w)' = job[j].h
        /\ \A v \in Worker \ {w} : Ending(v)' = Ending(v) /\ (Ending(v) => HandlerOf(v)' = HandlerOf(v))
    BY <1>1, <1>2, <1>3, <1>4 DEF Ending, HandlerOf, ManagerInv, Placed, PoolPlaced
  <1>9. LockOwned'
    <2> USE <1>1, <1>2, <1>3, <1>7, <1>8 DEF ManagerInv
    <2>1. loop'.pc = "got" => job'[loop'.job].h \notin locked'
      BY DEF LockOwned, Placed, LoopPlaced
    <2>2. \A i \in Job : Holding(i)' /\ job'[i].h \in Paced => job'[i].h \in locked'
      BY DEF LockOwned
    <2>3. \A i, k \in Job : Holding(i)' /\ Holding(k)' /\ job'[i].h = job'[k].h /\ job'[i].h \in Paced => i = k
      BY DEF LockOwned
    <2>4. \A v \in Worker : Ending(v)' /\ HandlerOf(v)' \in Paced => HandlerOf(v)' \in locked'
      BY DEF LockOwned
    <2>5. \A v \in Worker, i \in Job :
             Ending(v)' /\ HandlerOf(v)' \in Paced /\ Holding(i)' => job'[i].h # HandlerOf(v)'
      BY DEF LockOwned
    <2>6. \A u, v \in Worker :
             Ending(u)' /\ Ending(v)' /\ HandlerOf(u)' = HandlerOf(v)' /\ HandlerOf(v)' \in Paced => u = v
      BY DEF LockOwned
    <2> QED BY <2>1, <2>2, <2>3, <2>4, <2>5, <2>6 DEF LockOwned
  <1> QED BY <1>5, <1>6, <1>9 DEF ManagerInv

\* No job holds the handler that is unlocked, and no other goroutine is to unlock it.
LEMMA UnlockKeeps ==
    ASSUME ManagerInv, NEW w \in Worker, Unlock(w)
    PROVE  ManagerInv'
  <1> DEFINE h == HandlerOf(w)
  <1>1. /\ worker[w].pc = "clear" /\ locked' = locked \ {h} /\ ran' = ran \cup {h}
        /\ WorkerTo(w, "idle", Null)
        /\ UNCHANGED <<app, handlers, optMap, job, loop, wrapping, attempt, active, try, waiting, waiter>>
    BY DEF Unlock, HandlerOf
  <1>2. Ending(w) /\ h \in Handler
    BY <1>1 DEF Ending, HandlerOf, ManagerInv, Placed, LoopPlaced, PoolPlaced
  <1>3. /\ worker' \in [Worker -> [pc : {"idle", "taken", "run", "clear", "left"},
                                    job : Job \cup {Null}]]
        /\ worker'[w].pc = "idle"
        /\ \A v \in Worker \ {w} : worker'[v] = worker[v]
    BY <1>1, WorkerMoves DEF ManagerInv
  <1>4. ManagerTypeOK'
    <2>1. locked' \in SUBSET Handler /\ ran' \in SUBSET Handler
      BY <1>1, <1>2 DEF ManagerInv, ManagerTypeOK
    <2> QED BY <1>1, <1>3, <2>1 DEF ManagerInv, ManagerTypeOK
  <1>5. Placed'
    BY <1>1, <1>3 DEF ManagerInv, Placed, LoopPlaced, PoolPlaced
  <1>6. \A i \in Job : Holding(i)' = Holding(i)
    BY <1>1 DEF Holding
  <1>7. ~Ending(w)' /\ \A v \in Worker \ {w} : Ending(v)' = Ending(v) /\ HandlerOf(v)' = HandlerOf(v)
    BY <1>1, <1>3 DEF Ending, HandlerOf
  <1> HIDE DEF h
  <1>8. LockOwned'
    <2> USE <1>1, <1>2, <1>6, <1>7 DEF ManagerInv
    <2>1. loop'.pc = "got" => job'[loop'.job].h \notin locked'
      BY DEF LockOwned
    <2>2. \A i \in Job : Holding(i)' /\ job'[i].h \in Paced => job'[i].h \in locked'
      BY DEF LockOwned, h
    <2>3. \A i, k \in Job : Holding(i)' /\ Holding(k)' /\ job'[i].h = job'[k].h /\ job'[i].h \in Paced => i = k
      BY DEF LockOwned
    <2>4. \A v \in Worker : Ending(v)' /\ HandlerOf(v)' \in Paced => HandlerOf(v)' \in locked'
      BY DEF LockOwned, h
    <2>5. \A v \in Worker, i \in Job :
             Ending(v)' /\ HandlerOf(v)' \in Paced /\ Holding(i)' => job'[i].h # HandlerOf(v)'
      BY DEF LockOwned
    <2>6. \A u, v \in Worker :
             Ending(u)' /\ Ending(v)' /\ HandlerOf(u)' = HandlerOf(v)' /\ HandlerOf(v)' \in Paced => u = v
      BY DEF LockOwned
    <2> QED BY <2>1, <2>2, <2>3, <2>4, <2>5, <2>6 DEF LockOwned
  <1> QED BY <1>4, <1>5, <1>8 DEF ManagerInv

LEMMA WorkerLeavesKeeps ==
    ASSUME ManagerInv, NEW w \in Worker, WorkerLeaves(w)
    PROVE  ManagerInv'
  <1>1. /\ worker[w].pc = "idle" /\ WorkerTo(w, "left", Null)
        /\ UNCHANGED <<app, handlers, optMap, locked, ran, job, loop, wrapping, attempt, active,
                       try, waiting, waiter>>
    BY DEF WorkerLeaves
  <1>2. /\ worker' \in [Worker -> [pc : {"idle", "taken", "run", "clear", "left"},
                                    job : Job \cup {Null}]]
        /\ worker'[w].pc = "left"
        /\ \A v \in Worker \ {w} : worker'[v] = worker[v]
    BY <1>1, WorkerMoves DEF ManagerInv
  <1>3. ManagerTypeOK'
    BY <1>1, <1>2 DEF ManagerInv, ManagerTypeOK
  <1>4. Placed'
    BY <1>1, <1>2 DEF ManagerInv, Placed, LoopPlaced, PoolPlaced
  <1>5. \A i \in Job : Holding(i)' = Holding(i)
    BY <1>1 DEF Holding
  <1>6. \A v \in Worker : Ending(v)' = Ending(v) /\ (Ending(v) => HandlerOf(v)' = HandlerOf(v))
    BY <1>1, <1>2 DEF Ending, HandlerOf
  <1>7. LockOwned'
    BY <1>1, <1>5, <1>6 DEF ManagerInv, LockOwned
  <1> QED BY <1>3, <1>4, <1>7 DEF ManagerInv

-----------------------------------------------------------------------------
\* A job in the time wheel is no goroutine's of the pool.
LEMMA WheelPlaced ==
    ASSUME ManagerInv, NEW j \in Job, job[j].at \in {"delayed", "wheel"}, NEW place \in Places,
           place \notin {"none", "held"}, Move(j, place), UNCHANGED <<loop, worker>>
    PROVE  /\ Placed'
           /\ job' \in [Job -> [at : Places, h : Handler \cup {Null}]]
           /\ \A i \in Job : job'[i].h = job[i].h /\ job'[i].at = IF i = j THEN place ELSE job[i].at
           /\ \A v \in Worker : Ending(v)' = Ending(v) /\ (Ending(v) => HandlerOf(v)' = HandlerOf(v))
  <1>1. /\ job' \in [Job -> [at : Places, h : Handler \cup {Null}]]
        /\ \A i \in Job : job'[i].h = job[i].h /\ job'[i].at = IF i = j THEN place ELSE job[i].at
    BY MoveMoves DEF ManagerInv
  <1>2. LoopPlaced'
    BY <1>1 DEF ManagerInv, Placed, LoopPlaced
  <1>3. \A v \in Worker : worker[v].pc \in {"taken", "run"} => worker[v].job # j
    BY DEF ManagerInv, Placed, PoolPlaced
  <1>4. PoolPlaced'
    BY <1>1, <1>3 DEF ManagerInv, Placed, PoolPlaced
  <1>5. \A v \in Worker : Ending(v)' = Ending(v) /\ (Ending(v) => HandlerOf(v)' = HandlerOf(v))
    BY <1>1 DEF Ending, HandlerOf, ManagerInv, Placed, PoolPlaced
  <1> QED BY <1>1, <1>2, <1>4, <1>5 DEF Placed

LEMMA DelayOverKeeps ==
    ASSUME ManagerInv, NEW j \in Job, DelayOver(j)
    PROVE  ManagerInv'
  <1>1. /\ job[j].at = "delayed" /\ Move(j, "wheel")
        /\ UNCHANGED <<app, handlers, optMap, locked, ran, loop, worker, wrapping, attempt,
                       active, try, waiting, waiter>>
    BY DEF DelayOver
  <1>2. /\ Placed'
        /\ job' \in [Job -> [at : Places, h : Handler \cup {Null}]]
        /\ \A i \in Job : job'[i].h = job[i].h /\ job'[i].at = IF i = j THEN "wheel" ELSE job[i].at
        /\ \A v \in Worker : Ending(v)' = Ending(v) /\ (Ending(v) => HandlerOf(v)' = HandlerOf(v))
    <2>1. "wheel" \in Places
      BY DEF Places
    <2> QED BY <1>1, <2>1, WheelPlaced
  <1>3. ManagerTypeOK'
    BY <1>1, <1>2 DEF ManagerInv, ManagerTypeOK
  <1>4. \A i \in Job : Holding(i)' = Holding(i)
    BY <1>1, <1>2 DEF Holding
  <1>5. LockOwned'
    BY <1>1, <1>2, <1>4 DEF ManagerInv, Placed, LoopPlaced, LockOwned
  <1> QED BY <1>2, <1>3, <1>5 DEF ManagerInv

\* The delayed run unlocks its handler itself, and was the only one to hold it.
LEMMA EndDelayedKeeps ==
    ASSUME ManagerInv, NEW j \in Job, NEW place \in Places, EndDelayed(j, place)
    PROVE  ManagerInv'
  <1> DEFINE h == job[j].h
  <1>1. /\ job[j].at = "wheel" /\ place \in {"ended", "queued", "leased"} /\ Move(j, place)
        /\ locked' = locked \ {h} /\ ran' = ran \cup {h} /\ wrapping' = wrapping + 1
        /\ UNCHANGED <<app, handlers, optMap, loop, worker, attempt, active, try, waiting, waiter>>
    BY DEF EndDelayed, After
  <1>2. /\ Placed'
        /\ job' \in [Job -> [at : Places, h : Handler \cup {Null}]]
        /\ \A i \in Job : job'[i].h = job[i].h /\ job'[i].at = IF i = j THEN place ELSE job[i].at
        /\ \A v \in Worker : Ending(v)' = Ending(v) /\ (Ending(v) => HandlerOf(v)' = HandlerOf(v))
    BY <1>1, WheelPlaced
  <1>3. h \in Handler
    BY <1>1 DEF ManagerInv, Placed, LoopPlaced
  <1>4. ManagerTypeOK'
    <2>1. locked' \in SUBSET Handler /\ ran' \in SUBSET Handler /\ wrapping' \in Nat
      BY <1>1, <1>3 DEF ManagerInv, ManagerTypeOK
    <2> QED BY <1>1, <1>2, <2>1 DEF ManagerInv, ManagerTypeOK
  <1>5. Holding(j) /\ \A i \in Job : Holding(i)' <=> Holding(i) /\ i # j
    BY <1>1, <1>2 DEF Holding
  <1>6. LockOwned'
    <2> USE <1>1, <1>2, <1>5 DEF ManagerInv
    <2>1. loop'.pc = "got" => job'[loop'.job].h \notin locked'
      BY DEF LockOwned, Placed, LoopPlaced
    <2>2. \A i \in Job : Holding(i)' /\ job'[i].h \in Paced => job'[i].h \in locked'
      BY DEF LockOwned
    <2>3. \A i, k \in Job : Holding(i)' /\ Holding(k)' /\ job'[i].h = job'[k].h /\ job'[i].h \in Paced => i = k
      BY DEF LockOwned
    <2>4. \A v \in Worker : Ending(v)' /\ HandlerOf(v)' \in Paced => HandlerOf(v)' \in locked'
      BY DEF LockOwned
    <2>5. \A v \in Worker, i \in Job :
             Ending(v)' /\ HandlerOf(v)' \in Paced /\ Holding(i)' => job'[i].h # HandlerOf(v)'
      BY DEF LockOwned
    <2>6. \A u, v \in Worker :
             Ending(u)' /\ Ending(v)' /\ HandlerOf(u)' = HandlerOf(v)' /\ HandlerOf(v)' \in Paced => u = v
      BY DEF LockOwned
    <2> QED BY <2>1, <2>2, <2>3, <2>4, <2>5, <2>6 DEF LockOwned
  <1> QED BY <1>2, <1>4, <1>6 DEF ManagerInv

LEMMA PanicKeeps ==
    ASSUME ManagerInv, LoopPanics
    PROVE  ManagerInv'
  <1>1. /\ loop.pc = "got" /\ loop'.pc = "panic" /\ loop'.job = loop.job
        /\ UNCHANGED <<app, handlers, optMap, locked, ran, job, worker, wrapping, attempt,
                       active, try, waiting, waiter>>
    BY DEF LoopPanics, LoopTo
  <1>2. ManagerTypeOK'
    <2>1. loop.job \in Job
      BY <1>1 DEF ManagerInv, Placed, LoopPlaced
    <2> QED BY <1>1, <2>1 DEF LoopPanics, LoopTo, ManagerInv, ManagerTypeOK
  <1>3. Placed'
    BY <1>1 DEF ManagerInv, Placed, LoopPlaced, PoolPlaced
  <1>4. LockOwned'
    BY <1>1 DEF ManagerInv, LockOwned, Holding, Ending, HandlerOf
  <1> QED BY <1>2, <1>3, <1>4 DEF ManagerInv

LEMMA ManagerKeeps ==
    ASSUME ManagerInv, ManagerNext, active' \in Nat
    PROVE  ManagerInv'
  BY LeavesKeeps, WaitKeeps, DequeueKeeps, LockKeeps, DoKeeps, BeginKeeps, EndRunKeeps,
     TryKeeps, UnlockKeeps, WorkerLeavesKeeps, DelayOverKeeps, EndDelayedKeeps
     DEF ManagerNext

LEMMA StartKeeps ==
    ASSUME ManagerInv, \E h \in Handler : callSQLInit(h)
    PROVE  ManagerInv'
  <1>1. PICK h \in Handler : callSQLInit(h)
    OBVIOUS
  <1>2. /\ handlers' = handlers \cup {h}
        /\ loop' = loop \/ (loop.pc = "off" /\ loop' = [loop EXCEPT !.pc = "top"])
        /\ UNCHANGED <<app, optMap, locked, ran, job, worker, wrapping, attempt, active, try, waiting, waiter>>
    BY <1>1 DEF callSQLInit
  <1>3. handlers' \in SUBSET Handler
    BY <1>2 DEF ManagerInv, ManagerTypeOK
  <1>4. ManagerTypeOK' /\ (loop' = loop \/ (loop.pc = "off" /\ loop'.pc = "top"))
    BY <1>2, <1>3 DEF ManagerInv, ManagerTypeOK
  <1>5. Placed'
    BY <1>2, <1>4 DEF ManagerInv, Placed, LoopPlaced, PoolPlaced
  <1>6. LockOwned'
    BY <1>2, <1>4 DEF ManagerInv, LockOwned, Holding, Ending, HandlerOf
  <1> QED BY <1>4, <1>5, <1>6 DEF ManagerInv

LEMMA CancelKeeps ==
    ASSUME ManagerInv, Cancel \/ UNCHANGED managerVars \/ MapFunction
    PROVE  ManagerInv'
  <1>1. UNCHANGED <<handlers, locked, ran, job, loop, worker, wrapping, attempt, active, try, waiting, waiter>>
        /\ app' \in {"live", "done"} /\ optMap' \in SUBSET Handler
    BY DEF Cancel, managerVars, MapFunction, ManagerInv, ManagerTypeOK
  <1>2. ManagerTypeOK'
    BY <1>1 DEF ManagerInv, ManagerTypeOK
  <1> QED BY <1>1, <1>2, AsideKeeps

LEMMA ManagerPart ==
    ASSUME ManagerInv, command \in {"serve", "run"}, Next, active' \in Nat
    PROVE  ManagerInv'
  <1>1. CASE Manager
    <2>1. CASE ManagerNext
      BY <2>1, ManagerKeeps
    <2>2. CASE \E j \in Job, h \in Handler : Enqueue(j, h)
      BY <2>2, EnqueueKeeps
    <2> QED BY <1>1, <2>1, <2>2 DEF Manager
  <1>2. CASE Life
    <2>1. CASE \E h \in Handler : callSQLInit(h)
      BY <2>1, StartKeeps
    <2>2. CASE Panic
      BY <2>2, PanicKeeps DEF Panic
    <2>3. CASE RunCalls
      BY <2>3, WaitKeeps DEF RunCalls
    <2>4. CASE QuitReader \/ Quit \/ MapFunction
      BY <2>4, CancelKeeps DEF QuitReader, Quit
    <2>5. CASE UNCHANGED managerVars
      BY <2>5, CancelKeeps
    <2>6. Life => \/ \E h \in Handler : callSQLInit(h)
                  \/ Panic \/ RunCalls \/ QuitReader \/ Quit \/ MapFunction
                  \/ UNCHANGED managerVars
      BY Zenon DEF Life, NewServerStep, NewServerFails, RegisterAllFunction, Listen, ListenFails,
         FunctionsDone, OnServe, RunFails, RunReturns, ListenerStarts, Request, Respond, Shutdown,
         Drained, ForceReader, ForceExit, NextHook, OnShutdown, Signal
    <2> QED BY <1>2, <2>1, <2>2, <2>3, <2>4, <2>5, <2>6
  <1> QED BY <1>1, <1>2 DEF Next

-----------------------------------------------------------------------------
LEMMA LifeTypes ==
    ASSUME ServerInv, Next
    PROVE  /\ command' \in {"serve", "run"}
           /\ main' \in Over \cup Starting \cup Hooks \cup {"serving", "drain", "call", "wait"}
           /\ step' \in 1 .. Building + 1
           /\ cache' \in SUBSET Handler /\ inited' \in SUBSET Handler /\ shut' \in SUBSET Handler
           /\ quit' \in {"none", "notify", "signal", "gone"}
           /\ force' \in {"none", "notify", "signal", "cancelled"}
           /\ listener' \in {"none", "pending", "on", "closed"}
           /\ inflight' \in 0 .. MaxRequest
           /\ diedIn' \in Starting \cup {"alive", "serving", "drain", "call", "wait"} \cup Hooks
  <1> USE DEF Over, Starting, Hooks
  <1>1. Building \in Nat
    BY DEF Building, Sources, Setup
  <1>2. TypeOK /\ MaxRequest \in Nat /\ Routed \subseteq Handler
    BY ServerAssumption DEF ServerInv
  <1>3. CASE Manager \/ MapFunction \/ Quit \/ \E h \in Handler : callSQLInit(h)
    BY <1>2, <1>3 DEF TypeOK, Manager, MapFunction, Quit, callSQLInit, lifeVars
  <1>4. CASE NewServerStep
    <2>1. step' \in 1 .. Building + 1
      <3>1. step \in 1 .. Building + 1
        BY <1>2 DEF TypeOK
      <3>2. step <= Building /\ step' = step + 1
        BY <1>4 DEF NewServerStep
      <3> QED BY <1>1, <3>1, <3>2
    <2>2. inited' \in SUBSET Handler
      BY <1>2, <1>4 DEF TypeOK, NewServerStep
    <2>3. UNCHANGED <<command, main, cache, shut, quit, force, listener, inflight, diedIn>>
      BY <1>4 DEF NewServerStep
    <2>4. /\ command' \in {"serve", "run"}
          /\ main' \in Over \cup Starting \cup Hooks \cup {"serving", "drain", "call", "wait"}
          /\ cache' \in SUBSET Handler /\ shut' \in SUBSET Handler
      BY <1>2, <2>3 DEF TypeOK
    <2>5. /\ quit' \in {"none", "notify", "signal", "gone"}
          /\ force' \in {"none", "notify", "signal", "cancelled"}
          /\ listener' \in {"none", "pending", "on", "closed"}
          /\ inflight' \in 0 .. MaxRequest
          /\ diedIn' \in Starting \cup {"alive", "serving", "drain", "call", "wait"} \cup Hooks
      BY <1>2, <2>3 DEF TypeOK
    <2> QED BY <2>1, <2>2, <2>4, <2>5, Zenon
  <1>5. CASE NewServerFails \/ Listen \/ ListenFails \/ FunctionsDone \/ RunCalls \/ RunFails
              \/ RunReturns \/ Drained \/ ForceExit \/ NextHook
    <2>1. main' \in Over \cup Starting \cup Hooks \cup {"serving", "drain", "call", "wait"}
      BY <1>5 DEF NewServerFails, Listen, ListenFails, FunctionsDone, RunCalls, RunFails,
         RunReturns, Drained, ForceExit, NextHook, Goto
    <2>2. UNCHANGED <<command, step, cache, inited, shut, quit, force, listener, inflight, diedIn>>
      BY <1>5 DEF NewServerFails, Listen, ListenFails, FunctionsDone, RunCalls, RunFails,
         RunReturns, Drained, ForceExit, NextHook, Goto
    <2> QED BY <1>2, <2>1, <2>2 DEF TypeOK
  <1>6. CASE RegisterAllFunction
    BY <1>2, <1>6 DEF TypeOK, RegisterAllFunction
  <1>7. CASE OnServe
    BY <1>2, <1>7 DEF TypeOK, OnServe, Goto
  <1>8. CASE ListenerStarts \/ Request \/ Respond \/ QuitReader \/ ForceReader
    <2>1. UNCHANGED <<command, main, step, cache, inited, shut, diedIn>>
      BY <1>8 DEF ListenerStarts, Request, Respond, QuitReader, ForceReader
    <2>2. inflight' \in 0 .. MaxRequest
      <3>1. inflight \in 0 .. MaxRequest
        BY <1>2 DEF TypeOK
      <3>2. \/ inflight' = inflight
            \/ inflight < MaxRequest /\ inflight' = inflight + 1
            \/ inflight > 0 /\ inflight' = inflight - 1
        BY <1>8 DEF ListenerStarts, Request, Respond, QuitReader, ForceReader
      <3> QED BY <1>2, <3>1, <3>2
    <2>3. /\ quit' \in {"none", "notify", "signal", "gone"}
          /\ force' \in {"none", "notify", "signal", "cancelled"}
          /\ listener' \in {"none", "pending", "on", "closed"}
      BY <1>2, <1>8 DEF TypeOK, ListenerStarts, Request, Respond, QuitReader, ForceReader
    <2> QED BY <1>2, <2>1, <2>2, <2>3 DEF TypeOK
  <1>9. CASE Shutdown \/ \E i \in BOOLEAN : Signal(i)
    BY <1>2, <1>9 DEF TypeOK, Shutdown, Signal
  <1>10. CASE Panic
    BY <1>2, <1>10 DEF TypeOK, Panic, Running
  <1>11. CASE \E h \in Handler : OnShutdown(h)
    BY <1>2, <1>11 DEF TypeOK, OnShutdown
  <1> QED BY <1>3, <1>4, <1>5, <1>6, <1>7, <1>8, <1>9, <1>10, <1>11 DEF Next, Life

\* The loop cannot meet a function it does not know once all are registered.
LEMMA RegisteredKeeps ==
    ASSUME ServerInv, Next
    PROVE  Registered'
  <1> USE DEF Over
  <1>1. /\ handlers \in SUBSET Handler /\ optMap \in SUBSET Handler
        /\ Registered /\ Placed
    BY DEF ServerInv, TypeOK, ManagerTypeOK
  <1>2. CASE Manager
    <2>1. UNCHANGED <<handlers, optMap, main, diedIn>>
      BY <1>2 DEF Manager, lifeVars, ManagerNext, LoopLeaves, DequeueFails, Wake, Lock, WrapUp,
         WaitTick, WaitCancelled, WaitReturns, Dequeue, DelayOver, EndDelayed, Do, WorkerLeaves,
         Unlock, Begin, EndRun, Enqueue, tryFinish, LoadActive, LoadAttempt, Send
    <2>2. loop.pc = "off" => loop' = loop
      BY <1>2 DEF Manager, ManagerNext, LoopLeaves, DequeueFails, Wake, Lock, WrapUp,
         WaitTick, WaitCancelled, WaitReturns, Dequeue, DelayOver, EndDelayed, Do, WorkerLeaves,
         Unlock, Begin, EndRun, Enqueue, tryFinish, LoadActive, LoadAttempt, Send
    <2> QED BY <1>1, <2>1, <2>2 DEF Registered
  <1>3. CASE \E h \in Handler : callSQLInit(h)
    BY <1>1, <1>3 DEF callSQLInit, lifeVars, Registered
  <1>4. CASE MapFunction
    BY <1>1, <1>4 DEF MapFunction, lifeVars, Registered
  <1>5. CASE FunctionsDone
    <2>1. optMap = Handler /\ main' = "OnServe" /\ diedIn' = diedIn /\ UNCHANGED managerVars
      BY <1>5 DEF FunctionsDone, Goto
    <2> QED BY <1>1, <2>1 DEF Registered, managerVars
  <1>6. CASE Panic
    <2>1. /\ loop.pc = "got" /\ (job[loop.job].h \notin optMap \/ optMap # handlers)
          /\ UNCHANGED <<handlers, optMap>>
          /\ main \notin Over /\ main' = "panicked" /\ diedIn' = main
      BY <1>6 DEF Panic, LoopPanics, Running
    <2>2. job[loop.job].h \in Handler
      BY <1>1, <2>1 DEF Placed, LoopPlaced
    <2>3. main = "functions"
      BY <1>1, <2>1, <2>2 DEF Registered
    <2> QED BY <1>1, <2>1, <2>3 DEF Registered
  <1>7. CASE RunCalls
    BY <1>1, <1>7 DEF RunCalls, Goto, StartWait, Registered
  <1>8. CASE QuitReader \/ Quit
    BY <1>1, <1>8 DEF QuitReader, Quit, Cancel, lifeVars, Registered
  <1>9. CASE UNCHANGED managerVars /\ diedIn' = diedIn /\ (main' = main \/ main' \in Over)
    BY <1>1, <1>9 DEF managerVars, Registered
  <1>10. CASE RegisterAllFunction \/ Listen
    BY <1>1, <1>10 DEF RegisterAllFunction, Listen, Goto, managerVars, Registered
  <1>11. CASE OnServe \/ RunReturns \/ Shutdown \/ Drained \/ NextHook
    <2>1. /\ main \notin {"new", "built", "functions"} \cup Over
          /\ main' \notin {"new", "built"} /\ diedIn' = diedIn /\ UNCHANGED managerVars
      BY <1>11 DEF OnServe, RunReturns, Shutdown, Drained, NextHook, Hooks, Goto
    <2> QED BY <1>1, <2>1 DEF Registered, managerVars
  <1>12. Next => \/ Manager \/ \E h \in Handler : callSQLInit(h)
                 \/ MapFunction \/ FunctionsDone \/ Panic \/ RunCalls \/ QuitReader \/ Quit
                 \/ RegisterAllFunction \/ Listen \/ OnServe \/ RunReturns \/ Shutdown \/ Drained \/ NextHook
                 \/ UNCHANGED managerVars /\ diedIn' = diedIn /\ (main' = main \/ main' \in Over)
    BY DEF Next, Life, NewServerStep, NewServerFails, ListenFails, RunFails, ListenerStarts,
       Request, Respond, ForceReader, ForceExit, OnShutdown, Signal, Goto
  <1> QED BY <1>2, <1>3, <1>4, <1>5, <1>6, <1>7, <1>8, <1>9, <1>10, <1>11, <1>12

-----------------------------------------------------------------------------
\* The loop is idle after more than one failed attempt.
LEMMA QuietIsPlural == ManagerTypeOK => attempt \in Nat /\ Quiet \in Nat /\ Quiet > 1
  <1>1. Quiet \in Nat /\ Quiet > 1
    BY JobManagerAssumption
  <1>2. ManagerTypeOK => attempt \in 0 .. Quiet
    BY DEF ManagerTypeOK
  <1> QED BY <1>1, <1>2

LEMMA BusyFinite == ManagerTypeOK => IsFiniteSet(Busy) /\ Cardinality(Busy) \in Nat
  <1>1. Busy \in SUBSET Job
    BY DEF Busy, At
  <1> QED BY <1>1, JobManagerAssumption, FS_Subset, FS_CardinalityType

LEMMA BusyMoves ==
    ASSUME ManagerTypeOK, NEW j \in Job, NEW place \in Places, Move(j, place)
    PROVE  Busy' = IF place \in {"run", "delayed", "wheel"} THEN Busy \cup {j} ELSE Busy \ {j}
  BY MoveMoves DEF Busy, At

LEMMA CountedKeeps ==
    ASSUME ManagerInv, Counted, command \in {"serve", "run"}, Next
    PROVE  Counted' /\ active' \in Nat
  <1> USE DEF ManagerInv
  <1>1. IsFiniteSet(Busy) /\ Cardinality(Busy) \in Nat /\ wrapping \in Nat
        /\ active = Cardinality(Busy) + wrapping
    BY BusyFinite DEF Counted, ManagerTypeOK
  <1>2. SUFFICES Counted' /\ wrapping' \in Nat /\ Cardinality(Busy') \in Nat
    BY DEF Counted
  <1>3. ASSUME NEW j \in Job, (\E h \in Handler : Enqueue(j, h)) \/ Dequeue(j)
        PROVE  Busy' = Busy /\ UNCHANGED <<active, wrapping>>
    BY <1>3 DEF Enqueue, Dequeue, Move, Busy, At, ManagerTypeOK
  <1>4. ASSUME NEW w \in Worker, Do(w)
        PROVE  Busy' = Busy /\ UNCHANGED <<active, wrapping>>
    BY <1>4 DEF Do, Move, Busy, At, ManagerTypeOK, Placed, LoopPlaced
  <1>5. ASSUME NEW w \in Worker, NEW late \in BOOLEAN, Begin(w, late)
        PROVE  Counted' /\ wrapping' \in Nat /\ Cardinality(Busy') \in Nat
    <2> DEFINE j == worker[w].job
               place == IF late THEN "delayed" ELSE "run"
    <2>1. j \in Job /\ job[j].at = "pool" /\ place \in Places /\ Move(j, place)
          /\ active' = active + 1 /\ wrapping' = wrapping
      BY <1>5 DEF Begin, Placed, PoolPlaced, Places
    <2>2. Busy' = Busy \cup {j} /\ j \notin Busy
      BY <2>1, BusyMoves DEF Busy, At
    <2>3. Cardinality(Busy') = Cardinality(Busy) + 1
      BY <1>1, <2>2, FS_AddElement
    <2> QED BY <1>1, <2>1, <2>3 DEF Counted
  <1>6. ASSUME NEW w \in Worker, NEW place \in Places, EndRun(w, place)
        PROVE  Counted' /\ wrapping' \in Nat /\ Cardinality(Busy') \in Nat
    <2> DEFINE j == worker[w].job
    <2>1. j \in Job /\ job[j].at = "run" /\ place \in {"ended", "queued", "leased"} /\ Move(j, place)
          /\ active' = active - 1 /\ wrapping' = wrapping
      BY <1>6 DEF EndRun, After, Placed, PoolPlaced
    <2>2. Busy' = Busy \ {j} /\ j \in Busy
      BY <2>1, BusyMoves DEF Busy, At
    <2>3. Cardinality(Busy') = Cardinality(Busy) - 1 /\ Cardinality(Busy') \in Nat
      BY <1>1, <2>2, FS_RemoveElement, FS_CardinalityType
    <2> QED BY <1>1, <2>1, <2>3 DEF Counted
  <1>7. ASSUME NEW j \in Job, DelayOver(j)
        PROVE  Busy' = Busy /\ UNCHANGED <<active, wrapping>>
    <2>1. "wheel" \in Places
      BY DEF Places
    <2> QED BY <1>7, <2>1, BusyMoves DEF DelayOver, Busy, At
  <1>8. ASSUME NEW j \in Job, NEW place \in Places, EndDelayed(j, place)
        PROVE  Counted' /\ wrapping' \in Nat /\ Cardinality(Busy') \in Nat
    <2>1. job[j].at = "wheel" /\ place \in {"ended", "queued", "leased"} /\ Move(j, place)
          /\ active' = active /\ wrapping' = wrapping + 1
      BY <1>8 DEF EndDelayed, After
    <2>2. Busy' = Busy \ {j} /\ j \in Busy
      BY <2>1, BusyMoves DEF Busy, At
    <2>3. Cardinality(Busy') = Cardinality(Busy) - 1 /\ Cardinality(Busy') \in Nat
      BY <1>1, <2>2, FS_RemoveElement, FS_CardinalityType
    <2> QED BY <1>1, <2>1, <2>3 DEF Counted
  <1>9. CASE \E g \in Firing : WrapUp(g)
    <2>1. job' = job /\ wrapping > 0 /\ wrapping' = wrapping - 1 /\ active' = active - 1
      BY <1>9 DEF WrapUp
    <2>2. Busy' = Busy
      BY <2>1 DEF Busy, At
    <2> QED BY <1>1, <2>1, <2>2 DEF Counted
  <1>10. CASE UNCHANGED <<job, active, wrapping>>
    <2>1. Busy' = Busy
      BY <1>10 DEF Busy, At
    <2> QED BY <1>1, <1>10, <2>1 DEF Counted
  <1>11. ASSUME Busy' = Busy, UNCHANGED <<active, wrapping>>
         PROVE  Counted' /\ wrapping' \in Nat /\ Cardinality(Busy') \in Nat
    BY <1>1, <1>11 DEF Counted
  <1>12. CASE Life
    <2>1. UNCHANGED <<job, active, wrapping>>
      BY <1>12 DEF Life, NewServerStep, NewServerFails, RegisterAllFunction, Listen, ListenFails,
         MapFunction, FunctionsDone, OnServe, RunCalls, StartWait, RunFails, RunReturns,
         ListenerStarts, Request, Respond, QuitReader, Quit, Cancel, Shutdown, Drained,
         ForceReader, ForceExit, NextHook, Panic, LoopPanics, callSQLInit, OnShutdown, Signal,
         managerVars
    <2> QED BY <2>1, <1>10
  <1>13. CASE \E j \in Job, h \in Handler : Enqueue(j, h)
    BY <1>13, <1>3, <1>11
  <1>14. CASE ManagerNext
    <2>1. CASE LoopLeaves \/ DequeueFails \/ Wake \/ Lock \/ WaitTick \/ WaitCancelled \/ WaitReturns
               \/ (\E w \in Worker : WorkerLeaves(w) \/ Unlock(w)) \/ \E g \in Teller : tryFinish(g)
      BY <2>1, <1>10 DEF LoopLeaves, DequeueFails, Wake, Lock, WaitTick, WaitCancelled, WaitReturns,
         WorkerLeaves, Unlock, tryFinish, LoadActive, LoadAttempt, Send
    <2>2. CASE \E j \in Job : Dequeue(j) \/ DelayOver(j)
      BY <2>2, <1>3, <1>7, <1>11
    <2>3. CASE \E w \in Worker : Do(w)
      BY <2>3, <1>4, <1>11
    <2> QED BY <1>14, <2>1, <2>2, <2>3, <1>5, <1>6, <1>8, <1>9 DEF ManagerNext
  <1> QED BY <1>12, <1>13, <1>14 DEF Next, Manager

-----------------------------------------------------------------------------
LEMMA QuietedKeeps ==
    ASSUME ManagerInv, Quieted, command \in {"serve", "run"}, Next
    PROVE  Quieted'
  <1> USE DEF ManagerInv
  <1>0. attempt \in Nat /\ Quiet \in Nat /\ Quiet > 1
    BY QuietIsPlural
  <1>1. ASSUME NEW j \in Job, (\E h \in Handler : Enqueue(j, h)) \/ DelayOver(j)
                              \/ \E p \in Places : EndDelayed(j, p)
        PROVE  Quieted'
    <2>1. UNCHANGED <<loop, worker, attempt>> /\ \A i \in Job : job'[i].at = "pool" => job[i].at = "pool"
      BY <1>1 DEF Enqueue, DelayOver, EndDelayed, After, Move, ManagerTypeOK
    <2> QED BY <2>1 DEF Quieted
  <1>2. ASSUME NEW j \in Job, Dequeue(j)
        PROVE  Quieted'
    <2>1. /\ UNCHANGED <<worker, attempt>> /\ \A i \in Job : job'[i].at = "pool" => job[i].at = "pool"
          /\ loop.pc = "top" /\ loop'.pc = "got"
      BY <1>2 DEF Dequeue, Move, LoopTo, ManagerTypeOK
    <2> QED BY <2>1 DEF Quieted
  <1>3. CASE LoopLeaves \/ Wake \/ Lock \/ LoopPanics \/ \E h \in Handler : callSQLInit(h)
    <2>1. UNCHANGED <<job, worker>>
      BY <1>3 DEF LoopLeaves, Wake, Lock, LoopPanics, callSQLInit
    <2>2. /\ loop'.pc = "handoff" => attempt' = 0 \/ (loop' = loop /\ attempt' = attempt)
          /\ \A w \in Worker : worker[w].pc = "taken" =>
                 attempt' = 0 \/ (loop.pc # "sleep" /\ attempt' = attempt) \/ (loop' = loop /\ attempt' = attempt)
      BY <1>3 DEF LoopLeaves, Wake, Lock, LoopPanics, callSQLInit, LoopTo, ManagerTypeOK
    <2> QED BY <1>0, <2>1, <2>2 DEF Quieted
  <1>4. CASE DequeueFails
    BY <1>0, <1>4 DEF DequeueFails, LoopTo, Quieted
  <1>5. ASSUME NEW w \in Worker, Do(w)
        PROVE  Quieted'
    <2>1. /\ loop.pc = "handoff" /\ attempt' = attempt /\ loop'.pc = "top"
          /\ worker' = [worker EXCEPT ![w] = [pc |-> "taken", job |-> loop.job]]
          /\ worker[w].pc = "idle" /\ Move(loop.job, "pool") /\ loop.job \in Job
      BY <1>5 DEF Do, LoopTo, WorkerTo, Placed, LoopPlaced
    <2>2. \A i \in Job : job'[i].at = "pool" => i = loop.job \/ job[i].at = "pool"
      BY <2>1, MoveMoves DEF Places
    <2> QED BY <2>1, <2>2 DEF Quieted, ManagerTypeOK
  <1>6. ASSUME NEW w \in Worker, NEW late \in BOOLEAN, Begin(w, late)
        PROVE  Quieted'
    <2> DEFINE j == worker[w].job
               place == IF late THEN "delayed" ELSE "run"
    <2>1. /\ worker[w].pc = "taken" /\ Move(j, place) /\ UNCHANGED <<loop, attempt>>
          /\ WorkerTo(w, "idle", Null) \/ WorkerTo(w, "run", j)
          /\ j \in Job /\ place \in Places
      BY <1>6 DEF Begin, Placed, PoolPlaced, Places
    <2>2. worker'[w].pc # "taken" /\ \A v \in Worker \ {w} : worker'[v] = worker[v]
      BY <2>1, WorkerMoves
    <2>3. \A i \in Job : job'[i].at = "pool" => job[i].at = "pool" /\ i # j
      BY <2>1, MoveMoves
    <2> QED BY <2>1, <2>2, <2>3 DEF Quieted
  <1>7. ASSUME NEW w \in Worker,
               WorkerLeaves(w) \/ Unlock(w) \/ \E p \in Places : EndRun(w, p)
        PROVE  Quieted'
    <2>1. /\ worker[w].pc # "taken" /\ UNCHANGED <<loop, attempt>>
          /\ \E pc \in {"left", "clear", "idle"}, j \in Job \cup {Null} : WorkerTo(w, pc, j)
      BY <1>7 DEF WorkerLeaves, Unlock, EndRun, ManagerTypeOK
    <2>2. worker'[w].pc # "taken" /\ \A v \in Worker \ {w} : worker'[v] = worker[v]
      BY <2>1, WorkerMoves
    <2>3. \A i \in Job : job'[i].at = "pool" => job[i].at = "pool"
      <3>1. CASE WorkerLeaves(w) \/ Unlock(w)
        BY <3>1 DEF WorkerLeaves, Unlock
      <3>2. ASSUME NEW p \in Places, EndRun(w, p)
            PROVE  \A i \in Job : job'[i].at = "pool" => job[i].at = "pool"
        <4>1. worker[w].job \in Job /\ p # "pool" /\ Move(worker[w].job, p)
          BY <3>2 DEF EndRun, After, Placed, PoolPlaced
        <4> QED BY <4>1, MoveMoves
      <3> QED BY <1>7, <3>1, <3>2
    <2> QED BY <2>1, <2>2, <2>3 DEF Quieted
  <1>8. CASE UNCHANGED <<job, loop, worker, attempt>>
    BY <1>8 DEF Quieted
  <1>9. CASE Manager
    <2>1. CASE WaitTick \/ WaitCancelled \/ WaitReturns \/ (\E g \in Firing : WrapUp(g))
               \/ \E g \in Teller : tryFinish(g)
      BY <2>1, <1>8 DEF WrapUp, WaitTick, WaitCancelled, WaitReturns, tryFinish, LoadActive,
         LoadAttempt, Send
    <2> QED BY <1>9, <2>1, <1>1, <1>2, <1>3, <1>4, <1>5, <1>6, <1>7 DEF Manager, ManagerNext
  <1>10. CASE Life
    <2>1. CASE Panic \/ \E h \in Handler : callSQLInit(h)
      BY <2>1, <1>3 DEF Panic
    <2>2. CASE ~(Panic \/ \E h \in Handler : callSQLInit(h))
      BY <1>10, <2>2, <1>8 DEF Life, NewServerStep, NewServerFails, RegisterAllFunction, Listen,
         ListenFails, MapFunction, FunctionsDone, OnServe, RunCalls, StartWait, RunFails, RunReturns,
         ListenerStarts, Request, Respond, QuitReader, Quit, Cancel, Shutdown, Drained,
         ForceReader, ForceExit, NextHook, OnShutdown, Signal, managerVars
    <2> QED BY <2>1, <2>2
  <1> QED BY <1>9, <1>10 DEF Next

-----------------------------------------------------------------------------
\* A count that goes up does so while the loop has not rested; the loop cannot come to rest
\* while a goroutine is between its loads; a goroutine that looks finds the count at zero.
LEMMA StillIdleKeeps ==
    ASSUME ManagerInv, Counted, Quieted, StillIdle, active' \in Nat, Next
    PROVE  StillIdle'
  <1> USE DEF ManagerInv
  <1>0. attempt \in Nat /\ Quiet \in Nat /\ Quiet > 1 /\ active \in Nat
    BY QuietIsPlural DEF ManagerTypeOK
  <1>1. ASSUME Rested' => Rested, active' = active \/ active' = active - 1,
               \A g \in Teller : try'[g] = "looked" => try[g] = "looked" \/ active' = 0
        PROVE  StillIdle'
    <2>1. active = 0 => active' = 0
      BY <1>0, <1>1
    <2> QED BY <1>1, <2>1 DEF StillIdle
  <1>2. ASSUME NEW g \in Teller, NEW p \in {"no", "try", "tell"}, try' = [try EXCEPT ![g] = p]
        PROVE  \A k \in Teller : try'[k] = "looked" => try[k] = "looked"
    BY <1>2 DEF ManagerTypeOK
  <1>3. CASE DequeueFails
    <2>1. /\ loop.pc = "top" /\ loop'.pc = "sleep" /\ active' = active /\ Try("loop")
          /\ attempt' = attempt + 1 \/ attempt' = attempt
      BY <1>3 DEF DequeueFails, LoopTo
    <2>2. Rested' => Rested
      BY <1>0, <2>1 DEF Rested
    <2> QED BY <1>1, <1>2, <2>1, <2>2 DEF Try, Teller
  <1>4. CASE Wake
    BY <1>4 DEF Wake, StillIdle
  <1>5. CASE Lock
    <2>1. attempt' = 0
      BY <1>5 DEF Lock
    <2> QED BY <2>1 DEF StillIdle, Rested
  <1>6. ASSUME NEW w \in Worker, NEW late \in BOOLEAN, Begin(w, late)
        PROVE  StillIdle'
    <2>1. worker[w].pc = "taken" /\ UNCHANGED <<loop, attempt>>
      BY <1>6 DEF Begin
    <2>2. ~Rested
      BY <1>0, <2>1 DEF Rested, Quieted
    <2> QED BY <2>1, <2>2 DEF Rested, StillIdle
  <1>7. ASSUME NEW w \in Worker, NEW p \in Places, EndRun(w, p)
        PROVE  StillIdle'
    <2>1. active' = active - 1 /\ Try(w) /\ UNCHANGED <<loop, attempt>>
      BY <1>7 DEF EndRun
    <2> QED BY <2>1, <1>1, <1>2 DEF Try, Teller, Rested
  <1>8. ASSUME NEW g \in Firing, WrapUp(g)
        PROVE  StillIdle'
    <2>1. active' = active - 1 /\ Try(g) /\ UNCHANGED <<loop, attempt>>
      BY <1>8 DEF WrapUp
    <2> QED BY <2>1, <1>1, <1>2 DEF Try, Teller, Rested
  <1>9. ASSUME NEW g \in Teller, tryFinish(g)
        PROVE  StillIdle'
    <2>1. UNCHANGED <<loop, attempt, active>>
      BY <1>9 DEF tryFinish, LoadActive, LoadAttempt, Send
    <2>2. \A k \in Teller : try'[k] = "looked" => try[k] = "looked" \/ active = 0
      BY <1>9 DEF tryFinish, LoadActive, LoadAttempt, Send, ManagerTypeOK
    <2> QED BY <2>1, <2>2, <1>1 DEF Rested
  <1>10. ASSUME UNCHANGED <<attempt, active, try>>, loop'.pc = loop.pc \/ loop.pc # "sleep"
         PROVE  StillIdle'
    <2>1. Rested' => Rested
      BY <1>10 DEF Rested
    <2> QED BY <1>1, <1>10, <2>1
  <1>11. CASE Manager
    <2>1. CASE LoopLeaves \/ WaitTick \/ WaitCancelled \/ WaitReturns
               \/ (\E j \in Job : Dequeue(j) \/ DelayOver(j) \/ \E p \in Places : EndDelayed(j, p))
               \/ (\E w \in Worker : Do(w) \/ WorkerLeaves(w) \/ Unlock(w))
               \/ \E j \in Job, h \in Handler : Enqueue(j, h)
      BY <2>1, <1>10 DEF LoopLeaves, WaitTick, WaitCancelled, WaitReturns, Dequeue, DelayOver,
         EndDelayed, Do, WorkerLeaves, Unlock, Enqueue
    <2> QED BY <1>11, <2>1, <1>3, <1>4, <1>5, <1>6, <1>7, <1>8, <1>9 DEF Manager, ManagerNext
  <1>12. CASE Life
    <2>1. UNCHANGED <<attempt, active, try>> /\ (loop'.pc = loop.pc \/ loop.pc # "sleep")
      BY <1>12 DEF Life, NewServerStep, NewServerFails, RegisterAllFunction, Listen, ListenFails,
         MapFunction, FunctionsDone, OnServe, RunCalls, StartWait, RunFails, RunReturns,
         ListenerStarts, Request, Respond, QuitReader, Quit, Cancel, Shutdown, Drained,
         ForceReader, ForceExit, NextHook, Panic, LoopPanics, callSQLInit, OnShutdown, Signal,
         managerVars
    <2> QED BY <2>1, <1>10
  <1> QED BY <1>11, <1>12 DEF Next

LEMMA InitServerInv == Init => ServerInv
  <1> SUFFICES ASSUME Init PROVE ServerInv
    OBVIOUS
  <1>1. TypeOK
    <2>1. 1 \in 1 .. Building + 1
      BY DEF Building, Sources, Setup
    <2>2. ManagerTypeOK
      <3>1. /\ job \in [Job -> [at : Places, h : Handler \cup {Null}]]
            /\ loop \in [pc : {"off", "top", "got", "handoff", "sleep", "left", "panic"},
                         job : Job \cup {Null}]
            /\ worker \in [Worker -> [pc : {"idle", "taken", "run", "clear", "left"},
                                      job : Job \cup {Null}]]
        BY DEF Init, ManagerInit, Places
      <3>2. attempt \in 0 .. Quiet /\ wrapping \in Nat /\ active \in Nat
        BY JobManagerAssumption DEF Init, ManagerInit
      <3>3. try \in [Teller -> {"no", "try", "looked", "tell"}]
        BY DEF Init, ManagerInit
      <3> QED BY <3>1, <3>2, <3>3 DEF Init, ManagerInit, ManagerTypeOK
    <2>3. inflight \in 0 .. MaxRequest
      BY ServerAssumption DEF Init
    <2> QED BY <2>1, <2>2, <2>3 DEF Init, TypeOK, Starting
  <1>2. Placed /\ LockOwned /\ Registered /\ Quieted /\ StillIdle
    BY DEF Init, ManagerInit, Placed, LoopPlaced, PoolPlaced, LockOwned, Holding, Ending,
       Registered, Quieted, StillIdle
  <1>3. Counted
    <2>1. Busy = {} /\ active = 0 /\ wrapping = 0
      BY DEF Init, ManagerInit, Busy, At
    <2> QED BY <2>1, FS_EmptySet DEF Counted
  <1> QED BY <1>1, <1>2, <1>3 DEF ServerInv

LEMMA ServerStep == ServerInv /\ [Next]_vars => ServerInv'
  <1> SUFFICES ASSUME ServerInv, [Next]_vars PROVE ServerInv'
    OBVIOUS
  <1>1. CASE Next
    <2>1. ManagerInv /\ Counted /\ Quieted /\ StillIdle /\ command \in {"serve", "run"}
      BY DEF ServerInv, ManagerInv, TypeOK
    <2>2. Counted' /\ active' \in Nat /\ Quieted' /\ StillIdle'
      BY <1>1, <2>1, CountedKeeps, QuietedKeeps, StillIdleKeeps
    <2>3. ManagerInv'
      BY <1>1, <2>1, <2>2, ManagerPart
    <2>4. TypeOK'
      BY <1>1, <2>3, LifeTypes DEF ManagerInv, TypeOK
    <2> QED BY <1>1, <2>2, <2>3, <2>4, RegisteredKeeps DEF ServerInv, ManagerInv
  <1>2. CASE UNCHANGED vars
    BY <1>2 DEF vars, managerVars, lifeVars, ServerInv, TypeOK, ManagerTypeOK, Placed, LoopPlaced,
       PoolPlaced, LockOwned, Holding, Ending, HandlerOf, Registered, Counted, Busy, At, Quieted,
       StillIdle, Rested
  <1> QED BY <1>1, <1>2

\* The invariant holds in every state of a process.
THEOREM ServerInvariant == Spec => []ServerInv
  BY InitServerInv, ServerStep, PTL DEF Spec

\* The manager and the life of its process stay in their types, for any number of jobs,
\* goroutines and requests (NewServer, Serve, jobManager).
THEOREM Typed == Spec => []TypeOK
  <1>1. ServerInv => TypeOK
    BY DEF ServerInv
  <1> QED BY <1>1, ServerInvariant, PTL

\* A handler with an Interval never has two jobs on their way, in the wheel or running
\* (lockedHandlers in the dequeue loop, the unlock at the end of a run).
THEOREM NeverTwice == Spec => []IntervalExclusive
  <1>1. ServerInv => IntervalExclusive
    BY DEF ServerInv, LockOwned, Holding, IntervalExclusive, At
  <1> QED BY <1>1, ServerInvariant, PTL

\* The loop panics only while the functions are registered (OnFunctionInit before the map).
THEOREM PanicsEarly == Spec => []PanicsOnlyStarting
  <1>1. ServerInv => PanicsOnlyStarting
    BY DEF ServerInv, Registered, PanicsOnlyStarting
  <1> QED BY <1>1, ServerInvariant, PTL

\* The goroutine that tells WaitForJob to return, having loaded activeJobs and then attempt,
\* does so while no job the pool took is on its way, running or in the wheel (tryFinish).
THEOREM WaitsForAll == Spec => WaitMeansIdle
  <1> DEFINE Told == \A g \in Teller : try[g] # "tell" /\ try'[g] = "tell" =>
                        At({"pool", "run", "delayed", "wheel"}) = {}
  <1>1. ServerInv /\ [Next]_vars => Told
    <2> SUFFICES ASSUME ServerInv, Next, NEW g \in Teller, try[g] # "tell", try'[g] = "tell"
                 PROVE  At({"pool", "run", "delayed", "wheel"}) = {}
      BY DEF vars, managerVars
    <2>1. ManagerTypeOK
      BY DEF ServerInv, TypeOK
    <2>2. LoadAttempt(g)
      <3>1. CASE \E k \in Teller : tryFinish(k)
        BY <2>1, <3>1 DEF tryFinish, LoadActive, LoadAttempt, Send, ManagerTypeOK
      <3>2. CASE \E k \in Teller : Try(k)
        BY <2>1, <3>2 DEF Try, ManagerTypeOK
      <3>3. CASE UNCHANGED try
        BY <3>3
      <3>4. Next => (\E k \in Teller : tryFinish(k) \/ Try(k)) \/ UNCHANGED try
        BY DEF Next, Life, Manager, ManagerNext, LoopLeaves, Wake, Lock, WaitTick, WaitCancelled,
           WaitReturns, Dequeue, DequeueFails, WrapUp, DelayOver, EndDelayed, Do, WorkerLeaves, Unlock,
           Begin, EndRun, Enqueue, NewServerStep, NewServerFails, RegisterAllFunction, Listen, ListenFails,
           MapFunction, FunctionsDone, OnServe, RunCalls, StartWait, RunFails, RunReturns,
           ListenerStarts, Request, Respond, QuitReader, Quit, Cancel, Shutdown, Drained,
           ForceReader, ForceExit, NextHook, Panic, LoopPanics, callSQLInit, OnShutdown, Signal,
           managerVars, Teller
      <3> QED BY <3>1, <3>2, <3>3, <3>4
    <2>3. attempt \in Nat /\ Quiet \in Nat /\ Quiet > 1
      BY <2>1, QuietIsPlural
    <2>4. try[g] = "looked" /\ attempt > 1
      BY <2>1, <2>2, <2>3 DEF LoadAttempt, ManagerTypeOK
    <2>5. active = 0
      BY <2>4 DEF ServerInv, StillIdle, Rested
    <2>6. Busy = {}
      <3>1. IsFiniteSet(Busy) /\ Cardinality(Busy) \in Nat /\ wrapping \in Nat
            /\ active = Cardinality(Busy) + wrapping
        BY <2>1, BusyFinite DEF ServerInv, Counted, ManagerTypeOK
      <3>2. Cardinality(Busy) = 0
        BY <3>1, <2>5
      <3> QED BY <3>1, <3>2, FS_EmptySet
    <2>7. \A w \in Worker : worker[w].pc # "taken"
      BY <2>3, <2>4 DEF ServerInv, Quieted
    <2> QED BY <2>6, <2>7 DEF ServerInv, Quieted, Busy, At
  <1> QED BY <1>1, ServerInvariant, PTL DEF Spec, WaitMeansIdle
=============================================================================
