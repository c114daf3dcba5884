# Verification of allino

TLA+ models of the core of allino, a Go server framework: typed handlers whose
calls can be cached, de-duplicated, queued and retried through one SQL table or
published on Redis streams, the manager that runs them and the process around it,
futures, the time wheel that drives heartbeats and collectors, sticky sessions with
resource accounting, the revocation list, and an HTTP request on its way through
binding, login, ACL, body and session. Paths below are relative to `src/`.

The files are of four kinds: a module per component, `MC*.tla` with the values
TLC uses, one `.cfg` per run, and `*_proofs.tla` with the theorems TLAPS checks.
To repeat a run or a proof, in this directory:

    tlc -workers 2 -config JobShared.cfg MCJobSystem
    tlapm TimeWheel_proofs.tla

## 1. Inventory

### The parts, their state and their operations

| Part | Source | State | Operations | Module |
|---|---|---|---|---|
| SQL job store | `typedhandler_job_sql.go`, `typedhandler_job_store.go` | tables `executions` (queue, lock and volatile cache), `executions_results` (persistent cache), `execution_counts` | Enqueue, Dequeue, Reaping, LeaseUpdate, doneAsync, Done, Free, requeue, Hit, Result, Wait; three triggers | `JobTable`, `JobCounts` |
| Job calls | `typedhandler_job.go`, `typedhandler_job_sql_init.go`, `typedhandler.go` | none of its own but the lock row and a heartbeat | call_job: lookup, enqueue or lock, run, store, free, requeue | `JobSystem` |
| Job manager | `typedhandler_job_manager.go`, `typedhandler_job_set.go` | pool channel, locked handlers, last runs, active jobs, attempts | dequeue loop with its sleeps, Do, worker, delayed run, tryFinish, WaitForJob | `JobManager`; leases in `JobSystem` |
| Future and Handler.Go | `typedhandler_job_go.go` | result, callback lists, done channel | returns, Then, Catch, Finally, Await; go_internal | `Future`, `JobSystem` |
| Time wheel | `internal/timewheel/timewheel.go` | ring of slots, current slot | Add, Run, Cancel, Reset | `TimeWheel`, `Timers` |
| Sticky sessions | `session.go`, `session_manager.go`, `session_sticky.go` | sessionStore, resourceConsumeMap, resourcelockedHandlers | create-session job, lookup, WithSession, GetSession, collector; token and proxying | `SessionManager`; tokens planned |
| Redis streams | `typedhandler_job_redis.go` | streams, a consumer group per server, positions, pending entries | call_stream, trim, StartListen (replay, groups), read loop, Received, XACK | `RedisStream` |
| Revoker, trie | `ext/revoker/revoker.go`, `internal/trie/trie.go` | a map of subjects, a row of tries of prefixes | Revoke, Insert, InsertPrefix, rotation, IsRevoked; trie insert and lookups | `Revoker`, `Trie` |
| Server life cycle | `serve.go`, `serve_cli.go`, `serve_extension.go` | contexts, signal channels, listener, function cache | NewServer, RegisterAllFunction, Serve, shutdown, run | `Server` (with `JobManager`) |
| Redis sessions | `session.go`, `session_redis.go` | a hash per session, a cookie per client | GetSession, WithSession, SessionID, deferred write | `Requests` |
| Handlers, binding | `typedhandler.go`, `serve_request.go`, `reflectplan.go` | the request's cache | bind, validate, inject, call_internal, Call, respond, do_defer | `Binding`, `Requests` |
| Login, CSRF, ACL | `serve_login.go`, `serve_casbin.go` | signed tokens, the policy | issue, user, userWithJWT, AssumeUser, enforceACL | `Login`, `Acl`, `Requests` |
| Back-off, random cron, EMA | `typedhandler_job_utils.go`, `internal/` | counters | Duration, Parse, Update | the floor of a sleep in `JobManager` |
| Job store API, CLI | `typedhandler_job_store.go`, `serve_cli_job.go` | the tables | List, Total, Result, manual Requeue and Free | statements are in `JobCounts` |
| MCP calls | `typedhandler_mcp.go` | that of a request | handleMCPRequest, callMCPFunction | `Requests` |
| Clients, files, MCP registry, AI, CLI, configuration, logs | the other files | | I/O and encoding | not modelled |

### How they interact

Goroutines inside `call_job`, the dequeue loop and pool of each node, the
heartbeats and the reaper never talk to each other: they meet in the tables, and
each statement addresses a row by its key alone. Every node has its own time
wheel; the heartbeat of a lock, the reaper (every lease), the poll of `Wait`, and
the session collector are its tasks, each started on a goroutine of its own.
`Handler.Go` runs `call_job` in a goroutine, waits in `Wait` for a pending job and
calls again; its result goes to a `Future`. A sticky session is created by a
dispatched job, run by the pool of a node that has the resources, under the
manager's mutex, which the collector also takes.

The pool serves two loops: SQL jobs and stream entries. The first function that is
registered starts them, while the main goroutine goes on registering. Servers meet
in Redis only: a stream that all of them append to, read through a group of their
own and trim when they start, and the hash of a session, which requests read and
write without a lock. Revocations are entries of two fanout streams. A request
keeps its login, session and session id in a cache that nested calls share.

### What is hard here

* One row is a queue entry, a lock, a lease and a cached result at different
  times; a row that is taken over keeps columns of its former life.
* The reaper is three statements without a transaction; a late worker, a late
  heartbeat and a new caller come between them.
* Processes crash: only the tables survive, and what brings work back is an
  expired lease.
* The hand-off from `Dequeue` to the pool takes time while nobody renews the
  lease.
* Tasks of the wheel cannot be cancelled once they have fired and were added
  again as new objects.
* Callbacks are registered on a future while it is resolved, by several
  goroutines at once.
* The replay of a stream and the group created after it meet at a position read
  before both, while others publish and trim; each call to Redis can fail.
* The lock of a paced handler is taken in the loop and given back on two paths,
  one of them in the time wheel; tryFinish loads two counters one after the other and
  then sends, in several goroutines at once.
* The process is shut down by two signal channels, a context and a listener that
  start at different times.
* A session is read early and written after the response, by requests that
  overlap; the cookie that names it may be lost.
* Who a request is from is cached, assumed and asked again by nested calls.
* Several create-session jobs are admitted before the first one locks the
  handler; the collector closes sessions without taking their mutex.

`hazards` in PROJECT.json lists these at the line where they bite, with the
properties that watch them.

### What correctness means, per part

* Job store: one run per input at a time where the mode promises it; an accepted
  job ends; a stored result is found, lasts as long as promised and is not
  replaced; a lock is not left behind for good; the counters equal a count of the
  rows; equal priorities do not starve each other.
* Future: every callback that the outcome calls for runs exactly once, all
  waiters see the one result.
* Time wheel: a task starts at its tick, not before and not later; a cancelled
  task does not start and does not stay.
* Streams: no gap and no overlap between what is replayed and what the group
  delivers; what was delivered is handled, in hand or accounted for as pending; a
  listening server hears everything.
* Job manager and process: paced runs do not overlap and locks come back; WaitForJob is
  told to return when the pool is idle; a panic is possible only during start-up; a
  shutdown ends.
* Revocation: exactly the subjects covered by a revocation that is kept are refused.
* Requests: writing is proved by tokens, bodies run with permission and on valid
  input, a session belongs to one client and holds what that client put there.
* Sessions: resources are booked exactly and never beyond the configuration; a
  locked handler can be unlocked again; nothing is closed while in use.

## 2. Modules

**JobTable** has no behaviour of its own: the two tables as functions from keys to rows,
and one operator per method of `callSQLStrategy` (Reaping: one per statement). Columns
that no property tells apart (parent id, input, handler name, timestamps of creation) are
left out; a timestamp column holds the time that *remains*, so a tick lowers it and it
stops at "past". `created_before` is the order of `created_at, id`, which `Dequeue` sorts
by after the priority: a new row comes last (the clocks of the processes are taken to
agree), a reused row keeps its place as it keeps its `created_at`. No property is about
that order itself. NULL compares as in SQL: a row whose `leased_until` is NULL never
expires. `Done` with a ttl changes nothing, because the statement leaves out two NOT NULL
columns and SQLite rejects it.

**JobCounts** adds the counters and the triggers. The clients are free: any
statement with any key at any time. This is a superset of what the system does,
so what holds here holds for it, and it is the form the proofs use.

**JobSystem** is the system for one handler: `Caller`s in `call_job`, `Worker`s of
the pools, one dequeue loop and one reaper per `Node`, the pending heartbeats, and
crashes. The handler's options (job mode, CacheExpire, how and with which inputs
it is called, how its runs end) are chosen in the initial state from the constant
`Options`, so one run covers several kinds of handlers. Correspondence:

| Action | Code |
|---|---|
| Call, Recall (Enter) | entry of `call_job`, the first `Hit` |
| EnqueueJob | the asynchronous branch; `Handler.Go` then waits |
| Lock, HitAgain, WaitPoll | the Dedupe branch: the row as lock, the second `Hit`, `Wait` |
| HandlerReturns, FinishCall, RequeueCall | the handler, `Done` or `Free`, MarkRequeue, the deferred Cancel |
| DequeueTask, StartTask, TaskReturns, FinishTask | dequeue loop, hand-off to the pool with its heartbeat, Success / Requeue / Fail |
| HeartBeat, ReapFirst, ReapSecond, ReapThird | tasks of the wheel; a heartbeat that outlives its HTTP call reads a released Fiber context and may panic, which is Crash |
| GoWait | the poll of `Wait` in go_internal |
| Crash | the process dies and is started again, with an empty memory |
| Tick | time passes after the due wheel tasks have run |

**Future**: `returns` is split where the mutex is released (resolve and copy the
lists, close the channel, call the callbacks one by one); registrations and Await
interleave with all of it. Lists are sets.

**Timers** is what users of the wheel rely on: plain timers counted in ticks.
**TimeWheel** is the code: slot index, rounds, lazily dropped cancelled tasks, and
the new task made when a function returns true. `ImplementsTimers` maps a task in
the ring to its distance, `rounds * SlotCount + way to its slot`. Delays are in
half ticks because `int(delay / tickInterval)` rounds down.

**SessionManager**: the critical sections under `dequeueMu`, the pool goroutines
that hold an admitted create-session job, clients in WithSession with the entry's
own mutex, and the collector session by session.

**RedisStream** is one server and one or more handlers with a stream mode, each
stream with its entries numbered, the low-water mark that trims leave, this server's
group (last delivered id, known consumer, pending entries), and `StartListen` step
by step: inspect and trim every stream, then for each one find out whether the
consumer is known, replay in batches up to the id read first, destroy and create
the group; then the read loop, the pool and the acknowledgement. Every call to
Redis can fail; the errors the code drops are dropped here. Other servers publish
and trim. A crash keeps Redis and loses the rest.

**Trie** is the radix tree: a function from nodes, named by the string that leads to them,
to their children and value, with the code's own split, insert and lookups. The loops
that go down from the root are `Walk`, the least set of nodes closed under their step; it
stops at values for ShortestMatch. There is no recursion in it, so that it can be proved
about. **Revoker** is the map, the row of tries with `current()` loaded before the
insertion, the rotation, and a restart, which loses the list. Go stops a process
that writes the plain map from two goroutines at once: that outcome is Restart.

**JobManager** is the dequeue loop (Dequeue, DequeueFails, Wake, Lock, Do), the pool
goroutines (Begin, EndRun, Unlock), the delayed run in the wheel (DelayOver,
EndDelayed, WrapUp), tryFinish in any of these goroutines (LoadActive, LoadAttempt,
Send), and WaitForJob. A job is only where it is in the
process; its row is JobSystem's. **Server** composes it with the main goroutine:
NewServer as the list of its steps, each of which may fail; the registration of the
functions, which starts the loop before the function map is complete; Serve with
its signal readers, listener, drain and hooks; and the `run` command.

**Login** (who a request is from), **Acl** (template and policy) and **Binding** (tag,
conversion, regex, rule, injection) are functions; **Requests** is the state machine
over them. A request record is the Runtime with its cache:

| Action | Code |
|---|---|
| Arrive | NewRuntime, TypedHandle, `getAll` |
| ArriveMCP, ReturnMCP | a call through MCP: decoding, the validator, then the body; no ACL, no deferred functions |
| Consumed | a RequestHandler that answers |
| Authorize | `call_internal`: ACL, Session.Type |
| User, Assume, SessionID, GetSession, Bump | what a body calls; Bump is a change to the session value |
| Call, CallReturns | `Handler.Call` of another function in the same request |
| Return, do_defer, Respond | response, deferred session write, the client and its cookie |

## 3. Runs

| Run | Result | Distinct states | Shows |
|---|---|---|---|
| job_counts | pass | 69,846 | any statement in any order, two rows, two roots: counters equal a GROUP BY (`CountsConsistent`) |
| job_shared | pass | 1,125,011 | dedupe, once, cache, and dispatch queued and over HTTP, two nodes, all outcomes, a crash: never two runs of an input at once where runs hold a row (`Exclusive`), once runs once until a crash (`RunsOnce`), a cached result is kept until its ttl (`CacheKept`), a lock is orphaned only by a call that dies, requeues or stores nothing (`StuckOnlyByCall`) |
| job_progress | pass | 114,684 | async, Go, dispatch and memoized with a crash: accepted jobs end and are not starved (`JobFinishes`), futures resolve (`GoResolves`), results are visible and final (`ClosedIsVisible`, `ResultStable`) |
| future | pass | 4,560 | two deliveries, four callbacks, one waiter: `AtMostOnce`, `AwaitAgrees`, `CallbackRuns` |
| time_wheel | pass | 128,625 | `ImplementsTimers`, `CanceledDropped` |
| session_manager | pass | 421,775 | `NeverOvercommitted`, `BookedIsUsed`, `LockedHasSession`, `NotClosedInUse` |
| redis_stream | pass | 337,002 | any mode and start position, two starts, crashes and Redis errors: replay and group meet without gap (`ReplayComplete`) or overlap (`OldOnce`), what was delivered was handled, is in hand, or was left pending by an earlier incarnation (`NothingVanishes`), a listening server hears every entry (`Heard`) |
| revoker | pass | 169,828 | prefixes that nest, split and neighbour each other, two goroutines, three tries' worth of rotation: `NoFalseDenial`, `KeptUntilRotatedOut`, `MatchesArePrefixes` |
| server_life | pass | 675,034 | serve and run from NewServer to the end: `IntervalExclusive`, `WaitMeansIdle`, `PanicsOnlyStarting`, `ServeEnds`, `LocksReleased` |
| requests | pass | 1,177,427 | two requests at a time, two clients, nested and MCP calls, sessions: `WritableProven`, `RunsPermitted`, `InputValid`, `SerialSession`, `NeverForeign` |
| guest_sessions | violation | | two clients without a login work on one session (`SessionsApart`) |
| job_zombie_heartbeat | violation | | a heartbeat that cannot be cancelled keeps a dead job leased |

### Bounds, and why they are enough

Lease 2 ticks, so that the heartbeat (half a lease) falls strictly inside it and a
missed one lets it expire; cache ttl 1, so that it passes within a lease. `Handoff` = 1:
a dequeued task waits at most one tick for a pool goroutine. With `Handoff` equal
to the lease (2), TLC finds `Exclusive` violated: nobody renews the lease meanwhile, so the pool
must be quicker than the lease. `MaxCrash` = 1: one crash puts a row in each of
the states a crash can leave; `MaxRetry` = 1 keeps the reaper's first statement out
of the way of that crash except after an abort. `RunCap` = 2 tells one run
from more. Two callers, two workers, two nodes and one key are the smallest
instance in which every pair of actors meets on a row; starvation needs a second
key, which job_progress has. In job_shared replies are not part of the state
TLC tells apart (VIEW): no action reads one.

The wheel has three slots and delays of none, half a tick, exactly one turn and
more than one turn; the proof covers the others. Sessions: two groups that share a
resource, two pool goroutines, so that the second create is admitted before the
first one books; `MaxUse` (how long a callback holds a session) is shorter than
the expiry. `NotClosedInUse` depends on that: the collector does not take the
entry's mutex, so a longer callback would see its session closed.

redis_stream: three entries are one before, one during and one after a replay; a
batch of two makes the replay read twice; a pool of two lets entries overtake each
other; two starts give a restart after every kind of crash. One stream: handlers
meet only in the pool. revoker: two tries are kept, so that a third rotates one
out; the scopes are a prefix, an extension of it, a sibling and the empty one.
server_life: two pool goroutines and one of the wheel, so that three goroutines and the
loop can be inside tryFinish at once, with a `Quiet` of 2 (5 in the code); two jobs of
the paced handler under `run`, one beside `serve`, where requests and signals come on top;
MaxRequest and MaxWrapping are 1. `Wake` assumes that the sleep of the loop, never below the
floor of Backoff.Duration (100 ms), is longer than a goroutine takes from the receive of a
job to its count and between the two loads of tryFinish; without that, WaitForJob can miss
a job. requests: numbers of 3 bits so that
10 and 12 are cut; every place of a token occurs, with the right and the wrong
audience and user; two requests are the first and a later one of a client as
well as two that overlap. A function that assumes a user and calls another one, a
debug user, and MCP calls that are valid, refused, undecodable and nested are among the
arrivals. Slots and clients are symmetric there, and no liveness is
checked.

`RunsOnce` speaks of a behaviour up to its first crash (over a restart a once handler runs
again, section 5); the three ways a lock is orphaned all occur in job_shared.
Deadlock is checked except where everybody is done in the end or the bounds are
used up: `future`, redis_stream, server_life, requests and guest_sessions.

### Fairness

Weak fairness of each goroutine's own steps (caller, worker, dequeue loop,
deliverer, waiter, spawned callback), of the wheel's due tasks and of the tick: the
Go scheduler runs what can run, the loops have no exit before shutdown, the
database answers, and a handler is expected to return. None for calls,
registrations, aborts or crashes, which nobody owes. Strong fairness is not used.
`Heard` has fairness of the read loop, the start and the pool; `ServeEnds` and
`LocksReleased` of the main goroutine, of the manager's goroutines, of the delayed
runs and of requests in flight, not of signals, new requests or new jobs.

## 4. Proofs

| Module | Theorem | Statement |
|---|---|---|
| JobCounts_proofs | TypeCorrect, TriggersCountExactly | `Spec => []TypeOK`, `[]CountsConsistent` |
| Future_proofs | CallbacksAtMostOnce, AwaitReturnsTheResult | `Spec => []AtMostOnce`, `[]AwaitAgrees` |
| TimeWheel_proofs | WheelImplementsTimers | `Spec => ImplementsTimers` |
| JobSystem_proofs | TypeCorrect | `Spec => []TypeOK` |
| | ExclusiveRuns | `Spec /\ HandedInTime => []Exclusive` (of guarded handlers) |
| | CachedRowKept, StuckByCall | `Spec /\ HandedInTime /\ Guarded(handler) => CacheKept`, `StuckOnlyByCall` |
| | ResultsKept | `Spec => ResultStable`, with CacheExpire, or queued and handed in time |
| | OnceRunsOnce | `Spec => []RunsOnce` |
| | ClosedVisible | `Spec => []ClosedIsVisible`, with CacheExpire, or guarded, handed in time, without abort and requeue, and no more crashes than retries |
| Streams_proofs | Invariance, TypeCorrect, ReplayIsComplete, OldHandedOnce, NoEntryVanishes | `Spec => []Inv`, `[]TypeOK`, `[]ReplayComplete`, `[]OldOnce`, `[]NothingVanishes` (RedisStream) |
| | RevokerInvariance, TriesWellFormed, OnlyTheRevokedDenied, StoredIsKept, MatchesExact | `RevokerSpec => []RevokerInv`, `[]AllWellFormed`, `[]NoFalseDenial`, `[]KeptUntilRotatedOut`, `[]MatchesArePrefixes` (Revoker) |
| SessionManager_proofs | ResourcesNeverOvercommitted, LockedGroupsHaveSessions, BooksBalance | `Spec => []NeverOvercommitted`, `[]LockedHasSession`, `[]BookedIsUsed` |
| | NoSessionClosedInUse | `Spec /\ UsesFitExpiry => []NotClosedInUse` |
| Requests_proofs | WritableIsProven, BodiesPermitted, BodiesGetValidInput, SessionsNeverForeign, SerialSessionsKept | `Spec => []WritableProven`, `[]RunsPermitted`, `[]InputValid`, `[]NeverForeign`, `[]SerialSession` |
| Server_proofs | Typed, NeverTwice, PanicsEarly, WaitsForAll | `Spec => []TypeOK`, `[]IntervalExclusive`, `[]PanicsOnlyStarting`, `WaitMeansIdle` |

Assumptions are the named ASSUMEs of the modules: positive lease and slot count,
finite `Key` and `Job`, naturals for limits, and a `Null` (`None`) that is no row, entry,
request or number. The hypotheses of a theorem are about the handler's options and the
timing; each is satisfied by the run that checks the same property, and each marks
a place where the property fails without it (section 5).

* `HandedInTime`: half a lease and the hand-off from `Dequeue` to the pool fit in a
  lease. The lease of a dequeued row is renewed only once the pool has it.
* `Guarded(handler)`: every run holds a row. Async, dispatch that is not called over
  HTTP, and dedupe do; once and memoized do without CacheExpire. With it, Lock may take
  over an expired row with the lease it had. Over HTTP dispatch runs the
  handler in the call, without a row.
* for ClosedVisible without CacheExpire: the reaper's first statement, which closes
  a row in the wrong table, is not reached, because each of the at most `MaxRetry` expired
  leases takes a crash.
* `UsesFitExpiry`: as many callbacks as there are goroutines, one after the other, are
  shorter than the expiry of a session. WithSession renews it before it waits for the mutex.

*JobCounts.* The invariant is inductive as it stands, but the step from a GROUP BY
before a statement to one after it is a count of sets: the rows of a group after
the statement are those before, without `Leaving` and with `Entering`, and the three
are disjoint as needed. One lemma does this for any statement that only changes
`executions`; it needs the key set finite.

*JobSystem.* `Exclusive` counts running goroutines and says nothing about rows. `ExclInv`
says, for each key, that at most one caller, worker or dequeue loop holds it; that its row
is then leased; that a heartbeat of the holder is due no later than the lease ends, or,
before the hand-over, that enough of the lease is left; and that a done row has no holder.
The three statements of the reaper, heartbeats of earlier holders and late finishes then
find no row they could spoil: an expired lease has no holder. A lemma shows that a step
leaving a key's row, holders and heartbeats alone keeps its part, so each action is argued
for its own key only. `CacheKept`, `ResultStable` and `ClosedIsVisible` build on it: who
could replace a result would have to be a holder. `ResultInv` adds that a stored result
belongs to a closed row; `VisibleInv` that no row was retried more often than nodes
crashed, since an expired lease takes a crash that no retry accounts for, and that every
other leased row is kept alive. `RunsOnce` has an invariant of its own, `OnceInv`: a row
is absent and its handler has not run, or it is leased with a heartbeat that nobody
cancels, so that the reaper never sees it expired. It is kept until a crash, and
`RunsOnce` asks for no more. `StuckOnlyByCall` adds to `ExclInv` that what a worker has in
hand has a lease that ends (`WorkersLease`): a row can then become stuck only in a step in
which a caller lets go of it.

*RedisStream.* `Inv` is eleven parts, each about one thing the code assumes at its next
line: where the two loops are (`Loops`), how far groups and positions can be (`Bounds`,
`Grouped`), what the first loop concluded (`Seen`), what the replay under way has handed
over (`Replayed`: everything up to its position, and a batch has no hole), how often an
entry can have been handed over so far (`Counts`), and what holds of a stream once the
second loop is through (`Seamless`: its group is not behind the id read first, and
everything up to the group was handed over or is on its way). `ReplayComplete` is `Seamless` of a
listening server. `OldOnce` follows from `Counts` and from the group being created at or
after that id. `NothingVanishes` needs `Based`: the group of a fanout or replay stream
starts somewhere once and only moves on, through restarts too. `Kept` says what it has moved
past was handled or is pending; `TraceInv` tells the pending entries apart: those in hand,
and, of an earlier start, those nothing has handed over since. Streams with an error of
Redis that the code passes over (`unseen`) are excepted, as in the properties.

*Trie and Revoker.* A trie is `WellFormed` if a child's name extends its parent's
(`Extending`), every node is linked, child by child, to the nodes it is a prefix of
(`Linked`), siblings differ in their first character (`Apart`), and the root has no value.
`WalkVisits` is the heart: in a well-formed trie a walk visits exactly the nodes that are
prefixes of its string, down to the first it stops at. Of the nodes visited that are prefixes
of a node, take the longest (a number below a bound, so there is one): if it is not the node
itself, `Linked` leads one further, and by `Apart` to nowhere else. `InsertTakes` shows for
the three ways of node.insert (`ValueSet`, `LeafAdded`, `EdgeSplit`) that the trie stays
well formed, holds the key and keeps every other value. `RevokerInv` adds the row of buckets
(one per rotation since the start, at most `Keep`), that each trie holds what was stored in
its bucket (`HoldsStored`), and that whatever is in the stream, with a goroutine, in the map
or in a trie was asked for (`Underway`, `Applied`). A goroutine that has loaded a
bucket before a rotation inserts into a bucket further down the row, or into none. Strings are
any sequences over any set `Char`; nothing bounds the number of nodes.

*Future.* `AtMostOnce` alone is not inductive: a callback could be on a list a
delivery still walks and at the same time with a goroutine. `OnePlace` says each
callback is in at most one of those places or has been called, `OneResolver` that
only one delivery is past the lock, `Unresolved` that before it nothing was called.

*TimeWheel.* The ring is mapped to the remaining ticks. The arithmetic of
`(current + ticks) % SlotCount` and `ticks \div SlotCount` is in lemmas about the way
from one slot to another; a tick shortens the distance of every task by one, also
for the tasks of the current slot that lose a round.

*SessionManager.* `LockedHasSession` is inductive with the type invariant and
`sweep \subseteq Stored`: closing a session unlocks its own group, so no group is left
locked by a session that is gone. `BookedIsUsed` compares a counter with the size of the set
of pairs of a stored session and a unit it uses; creating and closing a session adds and removes
disjoint finite sets, and a session is closed once because closing removes it.
`NotClosedInUse` is a matter of time: a client that waits for the mutex has renewed the
expiry, but those before it use it up. `UseInv` says that what is left is at least
`MaxUse` for each client waiting and the rest of the callback inside, and that the collector
has only expired sessions before it.

*Requests.* None of the five is inductive. `LoginProven` keeps, with every request, that
its cached login is the one its own credentials (or the debug parameter) prove unless the
body assumed a user,
and that the tenant comes from them in any case: AssumeUser keeps the claims, and so
a later nested call is still asked about the tenant of a verified token. `Good` adds
that all frames of a body are valid and permitted (the first one of an MCP call only
valid), and that a request before its body has
one valid frame; a lemma shows that what `getAll` accepts keeps its rules after the
conversion. For the sessions, `Owned` says that some function assigns every session id
to one client: the ids a request holds are its client's, and what is stored under an id
is at most what its owner counted. A new request extends the function at the id it would
make, which nobody holds yet; a deferred write is at most one above what was loaded.
`SerialInv` is about clients that nothing disturbed: they have one request at most, it works
under the id of the cookie or under a new one that its answer will set, what it loaded is
still what is stored there, and what is counted there is what the client counted. By
`Owned` no other client's write comes between the load and the write.

*Server.* `IntervalExclusive` needs to know whose a lock is. `Placed` says that loop, pool
and jobs agree on where a job is; `LockOwned` that a locked handler belongs to one job
between the hand-over and the end of its run, or to the one goroutine that has run it and
not unlocked it yet, and that the loop never has a job of a locked handler in hand. A job
queued again by Requeue is thus no danger: its handler stays locked until the goroutine is
through. `WaitMeansIdle` rests on three facts: `Counted`, activeJobs is exactly the number
of jobs that run or wait in the wheel plus the delayed runs that have ended and not said
so; `Quieted`, while a goroutine has received a job and not counted it, the loop has
failed to dequeue at most once, which is fewer than `Quiet` (5 in the code, assumed to be
at least 2); and `StillIdle`, when the loop has slept since its last hand-over (`Rested`),
a goroutine that found activeJobs to be 0 and has not loaded the attempts yet still sees
the truth, as nothing was handed over in between. `Registered` gives `PanicsOnlyStarting`:
after the last function every job the loop can have in hand has its handler in the map.

Only model-checked: liveness (`JobFinishes`, `GoResolves`, `CallbackRuns`,
`CanceledDropped`, `Heard`, `ServeEnds`, `LocksReleased`), which this prover does not do. Every
safety property of a passing run is a theorem. The inductive invariants above were also
checked by TLC on the instances of the runs, and `Inv` of RedisStream on one with two streams,
before they were proved.

## 5. Where the code and its documentation differ

The violation runs job_zombie_heartbeat and guest_sessions are two such differences;
PROJECT.json quotes both sides. Other differences and consequences seen while modelling follow; the
models have them, and the properties are stated so as to hold beside them.

SQL jobs, each reachable in `JobSystem` with the options named:

* once over a restart: Done leaves the lock row leased, its lease expires, the reaper
  queues it and a worker runs the handler again ("runs only once per unique input",
  README.md 391).
* memoized without CacheExpire: a second caller during the first run reads
  `executions_results`, finds nothing and is told that the job is lost, instead of
  waiting (README.md 392).
* MarkRequeue in a synchronous call enqueues the job as leased, so that no worker
  runs it (README.md 457).
* cache with CacheExpire: Done's insert violates NOT NULL and nothing is cached
  (README.md 389).
* memoized with CacheExpire, two nodes: a lock taken over an expired row inherits
  its old `leased_until`, the reaper queues the row while the handler runs, and a
  worker runs it a second time (`Exclusive` fails).
* dedupe, a crash before the first heartbeat: the row is leased with `leased_until`
  NULL, which no reaper matches; the input stays locked. The same is left by MarkAbort or an
  encoding error of a handler that caches; `StuckOnlyByCall` says that nothing else does it.
* a heartbeat that outlives its HTTP call (the same stale handle) reads the context of a
  released request, which may panic in the wheel's goroutine: Crash.
* dispatch with a persistent cache and no retries left: the reaper writes the
  failure to `executions`, callers read `executions_results` and are told the job
  is pending (`ClosedIsVisible` fails with `MaxRetry` = 0 and two crashes).
* dispatch with CacheExpire: a row enqueued again keeps its old output; if the
  reaper then fails it, readers prefer the output and see a success.
* a memoized caller in `Wait`: an unfinished row makes each poll return before
  it looks at the lease or at `wait_timeout`, so the wait does not end.

Streams:

* the position that is retained is the delivered one, not the processed one
  (README.md 399): an entry in the pending list of a dead incarnation is not read
  again by any later one. `NothingVanishes` says so: an entry that was neither handled nor is
  in hand is of an earlier incarnation and has not been handed over since.
* replay hands every old entry over twice at the first start: the replay goes up to
  the newest id, and the group is then created at the start position.
* an XINFO error counts as "no such stream", and the error of XGROUP DESTROY is
  overwritten by the next call, so that the old group stays and delivers again.
  `ReplayComplete` and `OldOnce` leave out the streams of such a start.
* OnInputUpgrade is called without a nil check, and its result is used only when
  its encoding failed (`err != nil`, typedhandler_job_redis.go 144).

Revocation: the exact map is not rotated; a second revocation of a prefix in one
bucket is ignored, also a later one; "*" alone is ignored; the list is fed by fanout
streams and so is empty after a restart, although README.md 461 says it is "safely
restored during server initialization"; the package's own `revoker` is never
assigned.

Process and job manager:

* NewServer calls the OnInit of the functions (and starts cron) before the functions
  are registered, so Option.OnInit does not run; internal functions' OnShutdown
  is not called either; a NewServer that fails leaves wheel and cron running.
* the loop starts before the function map is complete: a job of a function not yet
  registered is a nil Option, and the map is read while it is written. Hence
  `PanicsOnlyStarting`.
* WaitForJob can miss a job that is queued, dequeued and not yet with the pool, or
  handed over between the decision in tryFinish and its send; `WaitMeansIdle` is about the
  jobs the pool took before the decision. The flag
  `waiting` stays set when WaitForJob ends by its context.
* a delayed run stores the time it was picked up as its last run; at shutdown
  results are stored with the cancelled appctx and stay leased; once the pool has left,
  the loop blocks in Do; a second signal between the two registrations is lost; the
  listener may start after the shutdown of Fiber.
* from attempt 37 on Backoff.Duration overflows; on amd64 it falls back to Min. Nothing
  checks that Min is not above Max.

Requests:

* Session.Type "redis" is refused by every call ("invalid settion type"); redis
  sessions are used through GetSession and WithSession without it.
* `errors.Is` has its arguments swapped in getRedisSessionEntryMulti: guests are looked
  up under the key that ends in ":uid:", which all of them share, and the migration of
  a guest's session is unreachable. guest_sessions shows two of them in one session;
  `SerialSession` and `NeverForeign` are about the sessions kept under an id.
* a call through MCP runs the body without enforceACL, and its deferred functions never
  run, so that changes to a session are lost. `RunsPermitted` is about bodies reached by a
  route or by Call, also below a body that MCP runs.
* two overlapping requests of a client lose one of their updates to its session.
* GetSession twice in one request forgets what was done to the first value; an entry
  read as another type is overwritten; the error of the deferred HSet is dropped;
  SessionID(false) first means that no cookie is set at all.
* AssumeUser keeps a cached error and the tenant claim.
* integers are cut to the width of the field before they are validated; injected values
  are not validated.

## 6. Not modelled

The EMA-weighted idle time of the dequeue loop and the cost estimates; handler versions
with OnInputUpgrade and OnOutputUpgrade; nested calls inside a job that share a Runtime
cache (their root ids are free in `JobCounts`); failing SQL statements other than the
rejected `Done` and those of a cancelled appctx; the routing of sticky sessions (token,
renewal, proxying); the router's choice of a function, files, raw and XML bodies, embedded
structs, floats and other kinds of fields, template syntax inside ACL values and a missing
key; the length of a sleep of the dequeue loop; stream jobs inside `Server` (RedisStream
has its own process); clients, the MCP registry and the encoding of its messages, OpenAPI,
AI, the other commands: encoding and I/O without state that several actors share.

## 7. Plan

1. Proofs: every safety property of the runs is a theorem. Next are `Exclusive` of a
   memoized handler with CacheExpire when there is one node (it fails with two), and
   theorems for the modules below as they come.
2. `CacheUpgrade`: rows of older handler versions, the upgrade callbacks, and the
   key that does not contain the version.
3. `StickyRouting`: `SessionManager` composed with the cached create-session job,
   the token and the node it names.
4. `Revoker` composed with `RedisStream`, so that its stream is the fanout group itself.
