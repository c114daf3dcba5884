------------------------------- MODULE Server -------------------------------
(***************************************************************************)
(* The life of one process: NewServer, then "serve" (Serve, its signals    *)
(* and its shutdown) or "run" (one call from the command line, and         *)
(* WaitForJob), with the job manager working beside it from the first      *)
(* function on.                                                            *)
(***************************************************************************)
EXTENDS JobManager, Sequences

CONSTANTS
    Routed,      \* functions with a Path; the others are internal
    MaxRequest,  \* bound: requests in flight
    Load         \* bound: the jobs, with their handlers, that are queued under each command

ASSUME ServerAssumption ==
    /\ Routed \subseteq Handler
    /\ MaxRequest \in Nat
    /\ Load \in [{"serve", "run"} -> SUBSET (Job \X Handler)]

VARIABLES
    command,    \* "serve" or "run"
    main,       \* where the main goroutine is
    step,       \* the next step of NewServer
    cache,      \* Server.FunctionCache
    inited,     \* functions whose OnInit ran
    shut,       \* functions whose OnShutdown ran
    quit,       \* the first signal channel and the goroutine that reads it
    force,      \* the same for the second
    listener,   \* the goroutine in Fiber.Listener
    inflight,   \* requests being handled
    diedIn      \* where main was when the process panicked

lifeVars == <<command, main, step, cache, inited, shut, quit, force, listener, inflight, diedIn>>
vars == <<managerVars, lifeVars>>

\* The sources of the configuration, in the order NewServer reads them: each may be absent,
\* and one that cannot be read, decrypted or parsed ends NewServer.
Sources == <<"default", "config", "bytes",
             "fs yaml", "fs enc", "fs secrets json", "fs secrets enc",
             "file yaml", "file enc", "file secrets json", "file secrets enc">>

\* What NewServer sets up then, in order.
Setup == <<"key", "fiber", "log", "wheel", "login", "redis", "sql", "http", "sqids", "s3",
           "casbin", "cron", "OnInit", "extension OnInit", "schema", "function OnInit">>

Building == Len(Sources) + Len(Setup)
Steps == [i \in 1 .. Building |-> IF i <= Len(Sources) THEN Sources[i] ELSE Setup[i - Len(Sources)]]
CannotFail == {"fiber", "wheel", "cron"}

Over == {"failed", "exited", "panicked", "stopped"}
Starting == {"new", "built", "functions", "OnServe"}
Hooks == {"function OnShutdown", "extension OnShutdown", "OnShutdown"}
Running == main \notin Over

TypeOK ==
    /\ ManagerTypeOK
    /\ command \in {"serve", "run"}
    /\ main \in Over \cup Starting \cup Hooks \cup {"serving", "drain", "call", "wait"}
    /\ step \in 1 .. Building + 1
    /\ {cache, inited, shut} \subseteq SUBSET Handler
    /\ quit \in {"none", "notify", "signal", "gone"}
    /\ force \in {"none", "notify", "signal", "cancelled"}
    /\ listener \in {"none", "pending", "on", "closed"}
    /\ inflight \in 0 .. MaxRequest
    /\ diedIn \in Starting \cup {"alive", "serving", "drain", "call", "wait"} \cup Hooks

Init ==
    /\ ManagerInit
    /\ command \in {"serve", "run"}
    /\ main = "new" /\ step = 1
    /\ cache = {} /\ inited = {} /\ shut = {}
    /\ quit = "none" /\ force = "none"
    /\ listener = "none" /\ inflight = 0
    /\ diedIn = "alive"

Goto(m) ==
    /\ main' = m
    /\ UNCHANGED <<command, step, cache, inited, shut, quit, force, listener, inflight, diedIn>>

(***************************************************************************)
(* NewServer and the start of Serve                                        *)
(***************************************************************************)
\* One step of NewServer.  The functions are registered afterwards, so those whose OnInit
\* it calls are the ones in the cache by now.
NewServerStep ==
    /\ main = "new" /\ step <= Building
    /\ step' = step + 1
    /\ inited' = IF Steps[step] = "function OnInit" THEN inited \cup cache ELSE inited
    /\ UNCHANGED <<managerVars, command, main, cache, shut, quit, force, listener, inflight, diedIn>>

\* An error: what was started before (time wheel, cron) is left running.
NewServerFails ==
    /\ main = "new" /\ step <= Building /\ Steps[step] \notin CannotFail
    /\ Goto("failed")
    /\ UNCHANGED managerVars

RegisterAllFunction ==
    /\ main = "new" /\ step > Building
    /\ main' = "built"
    /\ cache' = Routed
    /\ UNCHANGED <<managerVars, command, step, inited, shut, quit, force, listener, inflight, diedIn>>

\* Serve opens its listener first; "run" goes on to serveInitOnly.
Listen ==
    /\ main = "built"
    /\ Goto("functions")
    /\ UNCHANGED managerVars

ListenFails ==
    /\ main = "built" /\ command = "serve"
    /\ Goto("failed")
    /\ UNCHANGED managerVars

\* OnFunctionInit of the job extension, the routed functions first.  The first one starts
\* the pool and the loop ...
callSQLInit(h) ==
    /\ main = "functions" /\ handlers = optMap
    /\ h \in Handler \ handlers /\ (h \notin Routed => Routed \subseteq handlers)
    /\ handlers' = handlers \cup {h}
    /\ loop' = IF loop.pc = "off" THEN [loop EXCEPT !.pc = "top"] ELSE loop
    /\ UNCHANGED <<app, optMap, locked, ran, job, worker, wrapping, attempt, active, try,
                   waiting, waiter, lifeVars>>

\* ... and only then is the function put where the loop looks it up.
MapFunction ==
    /\ main = "functions" /\ handlers # optMap
    /\ optMap' = handlers
    /\ UNCHANGED <<app, handlers, locked, ran, job, loop, worker, wrapping, attempt, active, try,
                   waiting, waiter, lifeVars>>

\* Mutant: the last function is not waited for.
FunctionsDoneEarly ==
    /\ main = "functions" /\ handlers = Handler
    /\ Goto("OnServe")
    /\ UNCHANGED managerVars

FunctionsDone ==
    /\ main = "functions" /\ optMap = Handler
    /\ Goto("OnServe")
    /\ UNCHANGED managerVars

\* The OnServe hooks (their errors are printed); Serve then asks for signals, and its
\* goroutine will hand the listener to Fiber.
OnServe ==
    /\ main = "OnServe"
    /\ IF command = "run" THEN Goto("call")
       ELSE /\ main' = "serving" /\ quit' = "notify" /\ listener' = "pending"
            /\ UNCHANGED <<command, step, cache, inited, shut, force, inflight, diedIn>>
    /\ UNCHANGED managerVars

(***************************************************************************)
(* "run"                                                                   *)
(***************************************************************************)
RunCalls ==
    /\ main = "call"
    /\ StartWait
    /\ Goto("wait")

\* The function is not there, or the call fails: nobody waits.
RunFails ==
    /\ main = "call"
    /\ Goto("stopped")
    /\ UNCHANGED managerVars

RunReturns ==
    /\ main = "wait" /\ waiter \in {"returned", "cancelled"}
    /\ Goto("stopped")
    /\ UNCHANGED managerVars

(***************************************************************************)
(* "serve"                                                                 *)
(***************************************************************************)
ListenerStarts ==
    /\ Running /\ listener = "pending"
    /\ listener' = "on"
    /\ UNCHANGED <<managerVars, command, main, step, cache, inited, shut, quit, force, inflight, diedIn>>

Request ==
    /\ Running /\ listener = "on" /\ inflight < MaxRequest
    /\ inflight' = inflight + 1
    /\ UNCHANGED <<managerVars, command, main, step, cache, inited, shut, quit, force, listener, diedIn>>

Respond ==
    /\ Running /\ inflight > 0
    /\ inflight' = inflight - 1
    /\ UNCHANGED <<managerVars, command, main, step, cache, inited, shut, quit, force, listener, diedIn>>

\* SIGINT or SIGTERM (which the second channel does not ask for).  Before Serve has asked
\* for signals they end the process; a channel holds one.
Signal(interrupt) ==
    /\ Running /\ main # "new"
    /\ main' = IF quit = "none" THEN "exited" ELSE main
    /\ quit' = IF quit = "notify" THEN "signal" ELSE quit
    /\ force' = IF force = "notify" /\ interrupt THEN "signal" ELSE force
    /\ UNCHANGED <<managerVars, command, step, cache, inited, shut, listener, inflight, diedIn>>

Cancel ==
    /\ app' = "done"
    /\ UNCHANGED <<handlers, optMap, locked, ran, job, loop, worker, wrapping, attempt, active,
                   try, waiting, waiter>>

QuitReader ==
    /\ Running /\ quit = "signal"
    /\ quit' = "gone"
    /\ Cancel
    /\ UNCHANGED <<command, main, step, cache, inited, shut, force, listener, inflight, diedIn>>

\* Server.Quit, by any goroutine of the program.
Quit ==
    /\ Running /\ main # "new" /\ app = "live"
    /\ Cancel
    /\ UNCHANGED lifeVars

\* Mutant: the shutdown of Fiber leaves the listener open.
ShutdownOpen ==
    /\ main = "serving" /\ app = "done"
    /\ force' = "notify"
    /\ main' = IF listener = "on" THEN "drain" ELSE "function OnShutdown"
    /\ UNCHANGED <<managerVars, command, step, cache, inited, shut, quit, listener, inflight, diedIn>>

\* Serve sees appctx done, asks for the second signal and shuts Fiber down, which closes the
\* listener it has; if the goroutine has not got so far there is none, and it returns.
Shutdown ==
    /\ main = "serving" /\ app = "done"
    /\ force' = "notify"
    /\ listener' = IF listener = "on" THEN "closed" ELSE listener
    /\ main' = IF listener = "on" THEN "drain" ELSE "function OnShutdown"
    /\ UNCHANGED <<managerVars, command, step, cache, inited, shut, quit, inflight, diedIn>>

Drained ==
    /\ main = "drain" /\ (inflight = 0 \/ force = "cancelled")
    /\ Goto("function OnShutdown")
    /\ UNCHANGED managerVars

ForceReader ==
    /\ Running /\ force = "signal"
    /\ force' = "cancelled"
    /\ UNCHANGED <<managerVars, command, main, step, cache, inited, shut, quit, listener, inflight, diedIn>>

\* os.Exit, three seconds after forcecancel.
ForceExit ==
    /\ Running /\ force = "cancelled"
    /\ Goto("exited")
    /\ UNCHANGED managerVars

\* OnShutdown of the functions in the cache, then of the extensions, then the program's.
OnShutdown(h) ==
    /\ main = "function OnShutdown" /\ h \in cache \ shut
    /\ shut' = shut \cup {h}
    /\ UNCHANGED <<managerVars, command, main, step, cache, inited, quit, force, listener, inflight, diedIn>>

NextHook ==
    /\ main \in Hooks /\ (main = "function OnShutdown" => cache \subseteq shut)
    /\ Goto(CASE main = "function OnShutdown"  -> "extension OnShutdown"
              [] main = "extension OnShutdown" -> "OnShutdown"
              [] main = "OnShutdown"           -> "stopped")
    /\ UNCHANGED managerVars

\* A panic of the loop ends the process.
Panic ==
    /\ Running
    /\ LoopPanics
    /\ main' = "panicked" /\ diedIn' = main
    /\ UNCHANGED <<command, step, cache, inited, shut, quit, force, listener, inflight>>

Manager ==
    /\ Running
    /\ \/ ManagerNext
       \/ \E j \in Job, h \in Handler : <<j, h>> \in Load[command] /\ Enqueue(j, h)
    /\ UNCHANGED lifeVars

Life ==
    \/ NewServerStep \/ NewServerFails \/ RegisterAllFunction \/ Listen \/ ListenFails
    \/ MapFunction \/ FunctionsDone \/ OnServe \/ RunCalls \/ RunFails \/ RunReturns
    \/ ListenerStarts \/ Request \/ Respond \/ QuitReader \/ Quit \/ Shutdown \/ Drained
    \/ ForceReader \/ ForceExit \/ NextHook \/ Panic
    \/ \E h \in Handler : callSQLInit(h) \/ OnShutdown(h)
    \/ \E i \in BOOLEAN : Signal(i)

Next == Life \/ Manager

Spec == Init /\ [][Next]_vars

\* Every goroutine goes on, handlers return, and the time wheel turns.
MainFair ==
    /\ WF_vars(NewServerStep) /\ WF_vars(RegisterAllFunction) /\ WF_vars(Listen)
    /\ WF_vars(MapFunction) /\ WF_vars(FunctionsDone) /\ WF_vars(OnServe)
    /\ \A h \in Handler : WF_vars(callSQLInit(h)) /\ WF_vars(OnShutdown(h))
    /\ WF_vars(Shutdown) /\ WF_vars(Drained) /\ WF_vars(NextHook) /\ WF_vars(Respond)

OnManager(A) == Running /\ A /\ UNCHANGED lifeVars

ManagerFair ==
    /\ WF_vars(OnManager(Lock))
    /\ \A g \in Firing : WF_vars(OnManager(WrapUp(g)))
    /\ \A g \in Teller : WF_vars(OnManager(tryFinish(g)))
    /\ \A w \in Worker :
         /\ WF_vars(OnManager(Do(w))) /\ WF_vars(OnManager(Begin(w, FALSE)))
         /\ WF_vars(OnManager(EndRun(w, "ended") \/ EndRun(w, "leased")))
         /\ WF_vars(OnManager(Unlock(w)))
    /\ \A j \in Job :
         /\ WF_vars(OnManager(DelayOver(j)))
         /\ WF_vars(OnManager(EndDelayed(j, "ended")))

FairSpec == Spec /\ MainFair /\ ManagerFair

(***************************************************************************)
(* Properties                                                              *)
(***************************************************************************)
\* A handler with an Interval never runs twice at once in a process: from the dequeue to the
\* unlock at most one of its jobs is on its way, waits in the wheel or runs.
IntervalExclusive ==
    \A h \in Paced : \A i, j \in {k \in At({"pool", "run", "delayed", "wheel"}) : job[k].h = h} : i = j

\* Whoever decides in tryFinish that WaitForJob may return does so at a moment when no job
\* the pool took is on its way, running or in the wheel.  (activeJobs and attempt are loaded
\* one after the other, and jobs come and go between.  A job queued or just dequeued at that
\* moment is missed, and so is one handed over before the send.)
WaitMeansIdle ==
    [][\A g \in Teller : try[g] # "tell" /\ try'[g] = "tell" =>
          At({"pool", "run", "delayed", "wheel"}) = {}]_vars

\* The process can only panic in the loop while its functions are being registered; once it
\* serves, or a command runs, every job it dequeues has its function.
PanicsOnlyStarting == diedIn \in {"alive", "functions"}

\* Once appctx is done, Serve returns, or the process ends.
ServeEnds == (main = "serving" /\ app = "done") ~> main \in Over

\* A handler locked for its Interval is unlocked again, while the process goes on.
LocksReleased == \A h \in Paced : h \in locked ~> h \notin locked \/ app = "done" \/ main \in Over
=============================================================================
