----------------------------- MODULE JobManager -----------------------------
(***************************************************************************)
(* The jobManager of one process: the loop that dequeues jobs, the pool it *)
(* hands them to, the lock that keeps the runs of a handler with an        *)
(* Interval apart, and WaitForJob.  The rows themselves, their leases and  *)
(* heartbeats are JobSystem's; here a job is where it is in the process.   *)
(*                                                                         *)
(* The wait between two runs of a handler with an Interval is scaled by a  *)
(* floating-point average: any job but the first may or may not wait.      *)
(***************************************************************************)
EXTENDS Integers, FiniteSets

CONSTANTS
    Handler,    \* functions with an SQL job mode
    Paced,      \* those with JobOption.Interval
    Job, Worker, Null,
    Quiet,      \* failed attempts to dequeue that count as idle (5 in the code)
    Firing,     \* goroutines of the time wheel that may be in tryFinish at once
    MaxWrapping \* bound: delayed runs that are done and not yet uncounted

ASSUME JobManagerAssumption ==
    /\ Paced \subseteq Handler
    /\ Null \notin Handler /\ Null \notin Job
    /\ IsFiniteSet(Job)
    /\ Quiet \in Nat \ {0, 1}
    /\ MaxWrapping \in Nat \ {0}
    /\ "loop" \notin Worker \cup Firing /\ Worker \cap Firing = {}

VARIABLES
    app,        \* appctx: "live" or "done"
    handlers,   \* jobManager.handlers
    optMap,     \* the keys of Server.handlerOptMap
    locked,     \* lockedHandlers
    ran,        \* handlers whose lastRun is set
    job,        \* Job -> [at, h]
    loop,       \* the dequeue loop: [pc, job]
    worker,     \* Worker -> [pc, job]
    wrapping,   \* delayed runs that have unlocked their handler and are still counted
    attempt,    \* failed attempts to dequeue, up to Quiet
    active,     \* activeJobs
    try,        \* Teller -> where a goroutine is in tryFinish
    waiting, waiter  \* jobManager.waiting, and where WaitForJob is

managerVars == <<app, handlers, optMap, locked, ran, job, loop, worker, wrapping, attempt,
                 active, try, waiting, waiter>>

\* The goroutines that call tryFinish.
Teller == {"loop"} \cup Worker \cup Firing

Places == {"none", "queued", "held", "pool", "run", "delayed", "wheel", "ended", "leased"}

ManagerTypeOK ==
    /\ app \in {"live", "done"}
    /\ {handlers, optMap, locked, ran} \subseteq SUBSET Handler
    /\ job \in [Job -> [at : Places, h : Handler \cup {Null}]]
    /\ loop \in [pc : {"off", "top", "got", "handoff", "sleep", "left", "panic"},
                 job : Job \cup {Null}]
    /\ worker \in [Worker -> [pc : {"idle", "taken", "run", "clear", "left"},
                              job : Job \cup {Null}]]
    /\ wrapping \in Nat
    /\ attempt \in 0 .. Quiet
    /\ active \in Nat
    /\ try \in [Teller -> {"no", "try", "looked", "tell"}]
    /\ waiting \in BOOLEAN
    /\ waiter \in {"none", "select", "tick", "signalled", "returned", "cancelled"}

ManagerInit ==
    /\ app = "live"
    /\ handlers = {} /\ optMap = {} /\ locked = {} /\ ran = {}
    /\ job = [j \in Job |-> [at |-> "none", h |-> Null]]
    /\ loop = [pc |-> "off", job |-> Null]
    /\ worker = [w \in Worker |-> [pc |-> "idle", job |-> Null]]
    /\ wrapping = 0 /\ attempt = 0 /\ active = 0
    /\ try = [g \in Teller |-> "no"]
    /\ waiting = FALSE /\ waiter = "none"

Move(j, place) == job' = [job EXCEPT ![j].at = place]
LoopTo(pc, j) == loop' = [pc |-> pc, job |-> j]
WorkerTo(w, pc, j) == worker' = [worker EXCEPT ![w] = [pc |-> pc, job |-> j]]
At(places) == {j \in Job : job[j].at \in places}

\* A job is queued, by this process or another one (once appctx is done the process does not
\* see new ones).
Enqueue(j, h) ==
    /\ job[j].at = "none" /\ app = "live"
    /\ job' = [job EXCEPT ![j] = [at |-> "queued", h |-> h]]
    /\ UNCHANGED <<app, handlers, optMap, locked, ran, loop, worker, wrapping, attempt, active,
                   try, waiting, waiter>>

(***************************************************************************)
(* The dequeue loop                                                        *)
(***************************************************************************)
Diff == handlers \ locked

LoopLeaves ==
    /\ loop.pc = "top" /\ app = "done"
    /\ LoopTo("left", Null)
    /\ UNCHANGED <<app, handlers, optMap, locked, ran, job, worker, wrapping, attempt, active,
                   try, waiting, waiter>>

Dequeue(j) ==
    /\ loop.pc = "top" /\ app = "live"
    /\ job[j].at = "queued" /\ job[j].h \in Diff
    /\ Move(j, "held")
    /\ LoopTo("got", j)
    /\ UNCHANGED <<app, handlers, optMap, locked, ran, worker, wrapping, attempt, active, try,
                   waiting, waiter>>

\* tryFinish is called while somebody waits.  (The load of waiting is taken with the step
\* before it, which neither reads nor changes what StartWait and WaitReturns do.)
Try(g) == try' = [try EXCEPT ![g] = IF waiting THEN "try" ELSE "no"]

\* Nothing to dequeue, or an error of the store.
DequeueFails ==
    /\ loop.pc = "top"
    /\ attempt' = IF attempt < Quiet THEN attempt + 1 ELSE attempt
    /\ Try("loop")
    /\ LoopTo("sleep", Null)
    /\ UNCHANGED <<app, handlers, optMap, locked, ran, job, worker, wrapping, active, waiting, waiter>>

\* The shortest sleep (Backoff.Duration ends with its floor, 100 ms) is far longer than a
\* goroutine takes from the receive of a job to its count, or between the loads of tryFinish.
Wake ==
    /\ loop.pc = "sleep" /\ try["loop"] = "no"
    /\ \A w \in Worker : worker[w].pc # "taken"
    /\ \A g \in Teller : try[g] # "looked"
    /\ LoopTo("top", Null)
    /\ UNCHANGED <<app, handlers, optMap, locked, ran, job, worker, wrapping, attempt,
                   active, try, waiting, waiter>>

\* Mutant: the handler of the job is not locked.
LockNothing ==
    /\ loop.pc = "got" /\ job[loop.job].h \in optMap
    /\ attempt' = 0
    /\ LoopTo("handoff", loop.job)
    /\ UNCHANGED <<app, handlers, optMap, locked, ran, job, worker, wrapping, active, try,
                   waiting, waiter>>

Lock ==
    /\ loop.pc = "got" /\ job[loop.job].h \in optMap
    /\ locked' = locked \cup ({job[loop.job].h} \cap Paced)
    /\ attempt' = 0
    /\ LoopTo("handoff", loop.job)
    /\ UNCHANGED <<app, handlers, optMap, ran, job, worker, wrapping, active, try, waiting,
                   waiter>>

\* The handler is not in the map yet (a nil Option), or the map is being written: Go may
\* stop a process that reads a map while it is written.
LoopPanics ==
    /\ loop.pc = "got"
    /\ job[loop.job].h \notin optMap \/ optMap # handlers
    /\ LoopTo("panic", loop.job)
    /\ UNCHANGED <<app, handlers, optMap, locked, ran, job, worker, wrapping, attempt, active,
                   try, waiting, waiter>>

\* Do: a receive of an idle goroutine of the pool, which also may when appctx is done.
Do(w) ==
    /\ loop.pc = "handoff" /\ worker[w].pc = "idle"
    /\ WorkerTo(w, "taken", loop.job)
    /\ Move(loop.job, "pool")
    /\ LoopTo("top", Null)
    /\ UNCHANGED <<app, handlers, optMap, locked, ran, wrapping, attempt, active, try, waiting,
                   waiter>>

(***************************************************************************)
(* The pool                                                                *)
(***************************************************************************)
WorkerLeaves(w) ==
    /\ worker[w].pc = "idle" /\ app = "done" /\ loop.pc # "off"
    /\ WorkerTo(w, "left", Null)
    /\ UNCHANGED <<app, handlers, optMap, locked, ran, job, loop, wrapping, attempt, active, try,
                   waiting, waiter>>

\* Mutant: a job is counted only when it starts at once.
BeginUncounted(w, needDispatch) ==
    LET j == worker[w].job IN
    /\ worker[w].pc = "taken"
    /\ needDispatch => job[j].h \in Paced \cap ran
    /\ active' = IF needDispatch THEN active ELSE active + 1
    /\ Move(j, IF needDispatch THEN "delayed" ELSE "run")
    /\ IF needDispatch THEN WorkerTo(w, "idle", Null) ELSE WorkerTo(w, "run", j)
    /\ UNCHANGED <<app, handlers, optMap, locked, ran, loop, wrapping, attempt, try, waiting,
                   waiter>>

\* The job is counted and starts, or waits in the time wheel until its Interval is over
\* (needDispatch) and leaves the goroutine free.
Begin(w, needDispatch) ==
    LET j == worker[w].job IN
    /\ worker[w].pc = "taken"
    /\ needDispatch => job[j].h \in Paced \cap ran
    /\ active' = active + 1
    /\ Move(j, IF needDispatch THEN "delayed" ELSE "run")
    /\ IF needDispatch THEN WorkerTo(w, "idle", Null) ELSE WorkerTo(w, "run", j)
    /\ UNCHANGED <<app, handlers, optMap, locked, ran, loop, wrapping, attempt, try, waiting,
                   waiter>>

\* Fail and Success end the job, Requeue puts it back; with appctx done each of the
\* statements fails, and the row stays leased until some process reaps it.
After == IF app = "live" THEN {"ended", "queued"} ELSE {"leased"}

EndRun(w, place) ==
    /\ worker[w].pc = "run" /\ place \in After
    /\ Move(worker[w].job, place)
    /\ active' = active - 1
    /\ Try(w)
    /\ WorkerTo(w, "clear", worker[w].job)
    /\ UNCHANGED <<app, handlers, optMap, locked, ran, loop, wrapping, attempt, waiting, waiter>>

\* The handler is kept on the slot: the job itself may be queued again by now.
Unlock(w) ==
    LET h == job[worker[w].job].h IN
    /\ worker[w].pc = "clear" /\ try[w] = "no"
    /\ locked' = locked \ {h}
    /\ ran' = ran \cup {h}
    /\ WorkerTo(w, "idle", Null)
    /\ UNCHANGED <<app, handlers, optMap, job, loop, wrapping, attempt, active, try, waiting,
                   waiter>>

\* The wheel stops with appctx.
DelayOver(j) ==
    /\ job[j].at = "delayed" /\ app = "live"
    /\ Move(j, "wheel")
    /\ UNCHANGED <<app, handlers, optMap, locked, ran, loop, worker, wrapping, attempt, active,
                   try, waiting, waiter>>

\* Mutant: the end of a delayed job leaves its handler locked.
EndDelayedLocked(j, place) ==
    /\ job[j].at = "wheel" /\ place \in After /\ wrapping < MaxWrapping
    /\ Move(j, place)
    /\ ran' = ran \cup {job[j].h}
    /\ wrapping' = wrapping + 1
    /\ UNCHANGED <<app, handlers, optMap, locked, loop, worker, attempt, active, try, waiting,
                   waiter>>

EndDelayed(j, place) ==
    /\ job[j].at = "wheel" /\ place \in After /\ wrapping < MaxWrapping
    /\ Move(j, place)
    /\ locked' = locked \ {job[j].h}
    /\ ran' = ran \cup {job[j].h}
    /\ wrapping' = wrapping + 1
    /\ UNCHANGED <<app, handlers, optMap, loop, worker, attempt, active, try, waiting, waiter>>

\* The deferred end of a delayed run, in the goroutine the wheel started for it.
WrapUp(g) ==
    /\ wrapping > 0 /\ try[g] = "no"
    /\ wrapping' = wrapping - 1
    /\ active' = active - 1
    /\ Try(g)
    /\ UNCHANGED <<app, handlers, optMap, locked, ran, job, loop, worker, attempt, waiting, waiter>>

(***************************************************************************)
(* tryFinish: two loads and a send, in any goroutine that ended something  *)
(***************************************************************************)
LoadActive(g) ==
    /\ try[g] = "try"
    /\ try' = [try EXCEPT ![g] = IF active = 0 THEN "looked" ELSE "no"]
    /\ UNCHANGED <<app, handlers, optMap, locked, ran, job, loop, worker, wrapping, attempt,
                   active, waiting, waiter>>

LoadAttempt(g) ==
    /\ try[g] = "looked"
    /\ try' = [try EXCEPT ![g] = IF attempt >= Quiet THEN "tell" ELSE "no"]
    /\ UNCHANGED <<app, handlers, optMap, locked, ran, job, loop, worker, wrapping, attempt,
                   active, waiting, waiter>>

\* The channel is not buffered: the signal is lost unless WaitForJob is in its select.
Send(g) ==
    /\ try[g] = "tell"
    /\ try' = [try EXCEPT ![g] = "no"]
    /\ waiter' = IF waiter = "select" THEN "signalled" ELSE waiter
    /\ UNCHANGED <<app, handlers, optMap, locked, ran, job, loop, worker, wrapping, attempt,
                   active, waiting>>

tryFinish(g) == LoadActive(g) \/ LoadAttempt(g) \/ Send(g)

(***************************************************************************)
(* WaitForJob                                                              *)
(***************************************************************************)
StartWait ==
    /\ waiter = "none"
    /\ waiting' = TRUE /\ waiter' = "select"
    /\ UNCHANGED <<app, handlers, optMap, locked, ran, job, loop, worker, wrapping, attempt,
                   active, try>>

\* A tick of its ticker: while it asks the store it is not in the select.
WaitTick ==
    /\ waiter \in {"select", "tick"}
    /\ waiter' = IF waiter = "select" THEN "tick" ELSE "select"
    /\ UNCHANGED <<app, handlers, optMap, locked, ran, job, loop, worker, wrapping, attempt,
                   active, try, waiting>>

\* appctx is done: the flag stays set.
WaitCancelled ==
    /\ waiter = "select" /\ app = "done"
    /\ waiter' = "cancelled"
    /\ UNCHANGED <<app, handlers, optMap, locked, ran, job, loop, worker, wrapping, attempt,
                   active, try, waiting>>

WaitReturns ==
    /\ waiter = "signalled"
    /\ waiter' = "returned" /\ waiting' = FALSE
    /\ UNCHANGED <<app, handlers, optMap, locked, ran, job, loop, worker, wrapping, attempt,
                   active, try>>

ManagerNext ==
    \/ LoopLeaves \/ DequeueFails \/ Wake \/ Lock
    \/ WaitTick \/ WaitCancelled \/ WaitReturns
    \/ \E j \in Job : \/ Dequeue(j) \/ DelayOver(j)
                      \/ \E p \in Places : EndDelayed(j, p)
    \/ \E w \in Worker : \/ Do(w) \/ WorkerLeaves(w) \/ Unlock(w)
                         \/ \E late \in BOOLEAN : Begin(w, late)
                         \/ \E p \in Places : EndRun(w, p)
    \/ \E g \in Firing : WrapUp(g)
    \/ \E g \in Teller : tryFinish(g)

=============================================================================
