---------------------------- MODULE RedisStream ----------------------------
(***************************************************************************)
(* Stream jobs (typedhandler_job_redis.go): JobMode fanout, replay and     *)
(* replayall.  A call is an XADD on the handler's stream; every server     *)
(* reads every stream through a consumer group of its own, so one server   *)
(* is modelled, together with what the others do to a stream they share:   *)
(* append entries and, when they start, trim old ones.                     *)
(*                                                                         *)
(* Entries are numbered in the order of their ids; 0 is the id "0" and     *)
(* Latest the id "$".  Redis keeps its state across a crash of the server. *)
(* starts, count, ever, base and unseen are history: they are read by the  *)
(* properties and by the bound on the number of starts only.               *)
(***************************************************************************)
EXTENDS Integers, FiniteSetsExt

CONSTANTS
    Stream,        \* one per handler with a stream mode
    InitStart,     \* positions an OnStreamInit may return, Latest for ""
    StreamTTL,     \* the streams of handlers with a StreamTTL
    Concurrency,   \* goroutines of the worker pool
    BatchSize,     \* COUNT of the XREAD of a replay (100 in the code)
    MaxEntry,      \* bound: entries appended to a stream
    MaxStart,      \* bound: starts of the server
    NoStream

Modes  == {"fanout", "replay", "replayall"}
Latest == -1
Absent == -2       \* the position of a group that does not exist

Id == 0 .. MaxEntry
Entry == 1 .. MaxEntry

ASSUME StreamAssumption ==
    /\ InitStart \subseteq Id \cup {Latest}
    /\ StreamTTL \subseteq Stream
    /\ {Concurrency, BatchSize, MaxEntry, MaxStart} \subseteq Nat \ {0}
    /\ NoStream \notin Stream

VARIABLES
    JobMode, start, \* RedisStreamType: fixed when the handler is registered
    lastGenerated,  \* Redis: the id of the newest entry ever appended
    low,            \* Redis: entries up to this id are trimmed
    exists,         \* Redis: streams whose key exists
    group,          \* Redis: last-delivered id of this server's group, or Absent
    consumer,       \* Redis: streams in whose group this server's consumer is known
    pel,            \* Redis: entries delivered to the group and not acknowledged
    phase,          \* where StartListen and the read loop are
    todo,           \* streams the loop under way has still to visit
    cur,            \* the stream being replayed or given its group
    inited, lastId, \* RedisStreamType: the stream was there, and its newest id
    current,        \* the position of a replay
    batch,          \* entries of the last XREAD not yet handed over
    fetched,        \* entries of the last XREADGROUP not yet handed over
    running,        \* handlers in the pool: <<stream, entry, "replay" | "group">>
    starts,
    count,          \* how often an entry was handed over since the start
    ever,           \* entries some incarnation handled to the end
    base,           \* where the group was created
    unseen          \* streams of which this start has passed over an error of Redis

redis == <<lastGenerated, low, exists, group, consumer, pel>>
types == <<JobMode, start>>
boot  == <<todo, cur, inited, lastId, current, batch>>
moving == <<redis, phase, boot, fetched, running, starts, count, ever, base, unseen>>
vars  == <<types, moving>>

\* callRedisInit: fanout starts at "$", the replays at "0", unless OnStreamInit says otherwise.
callRedisInit ==
    /\ JobMode \in [Stream -> Modes]
    /\ start \in {s \in [Stream -> Id \cup {Latest}] :
                    \A st \in Stream :
                        s[st] \in InitStart
                                 \cup {IF JobMode[st] = "fanout" THEN Latest ELSE 0}}

Live(st) == low[st] + 1 .. lastGenerated[st]

\* What XREAD and XREADGROUP can return after position p.
After(st, p) == {e \in Live(st) : e > p}

TypeOK ==
    /\ JobMode \in [Stream -> Modes]
    /\ start \in [Stream -> Id \cup {Latest}]
    /\ lastGenerated \in [Stream -> Id]
    /\ low \in [Stream -> Id]
    /\ exists \subseteq Stream
    /\ group \in [Stream -> Id \cup {Absent}]
    /\ consumer \subseteq Stream
    /\ pel \in [Stream -> SUBSET Entry]
    /\ phase \in {"down", "inspect", "init", "replay", "create", "recreate", "listen",
                  "stopping", "deaf"}
    /\ todo \subseteq Stream
    /\ cur \in Stream \cup {NoStream}
    /\ inited \subseteq Stream
    /\ lastId \in [Stream -> Id]
    /\ current \in Id
    /\ batch \subseteq Entry
    /\ fetched \subseteq Stream \X Entry
    /\ running \subseteq Stream \X Entry \X {"replay", "group"}
    /\ Cardinality(running) <= Concurrency
    /\ starts \in 0 .. MaxStart
    /\ count \in [Stream -> [Entry -> 0 .. 2]]
    /\ ever \in [Stream -> SUBSET Entry]
    /\ base \in [Stream -> Id \cup {Absent}]
    /\ unseen \subseteq Stream

Init ==
    /\ callRedisInit
    /\ lastGenerated = [st \in Stream |-> 0]
    /\ low = [st \in Stream |-> 0]
    /\ exists = {}
    /\ group = [st \in Stream |-> Absent]
    /\ consumer = {}
    /\ pel = [st \in Stream |-> {}]
    /\ phase = "down"
    /\ todo = {} /\ cur = NoStream
    /\ inited = {}
    /\ lastId = [st \in Stream |-> 0]
    /\ current = 0
    /\ batch = {} /\ fetched = {} /\ running = {}
    /\ starts = 0
    /\ count = [st \in Stream |-> [e \in Entry |-> 0]]
    /\ ever = [st \in Stream |-> {}]
    /\ base = [st \in Stream |-> Absent]
    /\ unseen = {}

(***************************************************************************)
(* The other servers                                                       *)
(***************************************************************************)
\* call_stream, on any server: the entry is appended and the caller is told it is pending.
\* An XADD that fails changes nothing.
call_stream(st) ==
    /\ lastGenerated[st] < MaxEntry
    /\ lastGenerated' = [lastGenerated EXCEPT ![st] = @ + 1]
    /\ exists' = exists \cup {st}
    /\ UNCHANGED <<low, group, consumer, pel, phase, boot, fetched, running, starts, count,
                   ever, base, unseen>>

\* Another server that starts trims what is older than the TTL.
TrimElsewhere(st) ==
    /\ st \in StreamTTL \cap exists
    /\ low[st] < lastGenerated[st]
    /\ low' = [low EXCEPT ![st] = @ + 1]
    /\ UNCHANGED <<lastGenerated, exists, group, consumer, pel, phase, boot, fetched, running,
                   starts, count, ever, base, unseen>>

(***************************************************************************)
(* StartListen                                                             *)
(***************************************************************************)
Start ==
    /\ phase = "down" /\ starts < MaxStart
    /\ starts' = starts + 1
    /\ phase' = "inspect"
    /\ todo' = Stream
    /\ inited' = {} /\ unseen' = {}
    /\ count' = [st \in Stream |-> [e \in Entry |-> 0]]
    /\ UNCHANGED <<redis, cur, lastId, current, batch, fetched, running, ever, base>>

NextStream(st) ==
    /\ todo' = todo \ {st}
    /\ cur' = NoStream

\* The first loop: trim, then XINFO STREAM again.  An error of XINFO is not told from a
\* stream that is not there.
InspectStream(st) ==
    /\ phase = "inspect" /\ st \in todo
    /\ IF todo = {st} THEN phase' = "init" /\ todo' = Stream
                      ELSE phase' = phase /\ todo' = todo \ {st}
    /\ \E seen \in BOOLEAN, t \in 0 .. 1 :
         /\ t = 1 => st \in StreamTTL \cap exists /\ low[st] < lastGenerated[st]
         /\ low' = [low EXCEPT ![st] = @ + t]
         /\ unseen' = IF seen THEN unseen ELSE unseen \cup {st}
         /\ inited' = IF seen /\ st \in exists THEN inited \cup {st} ELSE inited
         /\ lastId' = [lastId EXCEPT ![st] = IF seen THEN lastGenerated[st] ELSE 0]
    /\ UNCHANGED <<lastGenerated, exists, group, consumer, pel, cur, current, batch, fetched,
                   running, starts, count, ever, base>>

\* XGROUP CREATE MKSTREAM: BUSYGROUP leaves an existing group where it is.
XGroupCreate(st, at) ==
    /\ group' = IF group[st] # Absent THEN group
                ELSE [group EXCEPT ![st] = IF at = Latest THEN lastGenerated[st] ELSE at]
    /\ exists' = exists \cup {st}
    /\ base' = [base EXCEPT ![st] = IF @ = Absent THEN group'[st] ELSE @]

Listening(rest) == IF rest = {} THEN "listen" ELSE "init"

\* The second loop.  XINFO CONSUMERS tells whether this server has read from the group
\* before; its error is not told from "not found".
InitStream(st) ==
    /\ phase = "init" /\ st \in todo
    /\ \E found \in BOOLEAN :
         LET replays == /\ st \in inited
                        /\ \/ JobMode[st] = "replayall"
                           \/ JobMode[st] = "replay" /\ ~found
         IN /\ found => st \in consumer
            /\ \/ /\ replays
                  /\ cur' = st
                  /\ phase' = IF start[st] = Latest THEN "create" ELSE "replay"
                  /\ current' = IF start[st] = Latest THEN current ELSE start[st]
                  /\ UNCHANGED <<group, exists, base, todo>>
               \/ /\ ~replays
                  /\ NextStream(st)
                  /\ phase' = Listening(todo \ {st})
                  /\ IF st \in inited /\ found THEN UNCHANGED <<group, exists, base>>
                                               ELSE XGroupCreate(st, start[st])
                  /\ UNCHANGED current
    /\ UNCHANGED <<lastGenerated, low, consumer, pel, inited, lastId, batch, fetched, running,
                   starts, count, ever, unseen>>

\* replayUntilLastID: the next XREAD; nothing within its second of blocking ends the replay.
ReplayRead ==
    /\ phase = "replay" /\ batch = {}
    /\ LET new == After(cur, current)
       IN /\ batch' = {e \in new : Cardinality({f \in new : f < e}) < BatchSize}
          /\ phase' = IF new = {} THEN "create" ELSE "replay"
    /\ UNCHANGED <<redis, todo, cur, inited, lastId, current, fetched, running, starts, count,
                   ever, base, unseen>>

\* The replay ends with the entry that was the newest when the server started.
Reached(e) == e = lastId[cur]

\* Received: the listener is given to the pool, which may make the replay wait.
ReplayHand ==
    /\ phase = "replay" /\ batch # {}
    /\ Cardinality(running) < Concurrency
    /\ LET e == Min(batch)
       IN /\ running' = running \cup {<<cur, e, "replay">>}
          /\ count' = [count EXCEPT ![cur][e] = @ + 1]
          /\ current' = e
          /\ batch' = IF Reached(e) THEN {} ELSE batch \ {e}
          /\ phase' = IF Reached(e) THEN "create" ELSE "replay"
    /\ UNCHANGED <<redis, todo, cur, inited, lastId, fetched, starts, ever, base, unseen>>

\* Mutant: the group of a replayall stream starts with what comes next.
AfterReplayLatest(st) == IF JobMode[st] = "replayall" THEN Latest ELSE start[st]

\* Mutant: the group of a replayall stream starts over.
AfterReplayStart(st) == start[st]

\* The position of the group that is created after a replay.
AfterReplay(st) == IF JobMode[st] = "replayall" THEN lastId[st] ELSE start[st]

\* A replayall group is destroyed first, with what is known of its consumer and deliveries.
\* An error is overwritten by that of the next call.
DestroyGroup ==
    /\ phase = "create" /\ JobMode[cur] = "replayall"
    /\ phase' = "recreate"
    /\ \/ /\ group' = [group EXCEPT ![cur] = Absent]
          /\ consumer' = consumer \ {cur}
          /\ pel' = [pel EXCEPT ![cur] = {}]
          /\ UNCHANGED unseen
       \/ /\ unseen' = unseen \cup {cur}
          /\ UNCHANGED <<group, consumer, pel>>
    /\ UNCHANGED <<lastGenerated, low, exists, boot, fetched, running, starts, count, ever, base>>

CreateGroup ==
    /\ \/ phase = "recreate"
       \/ phase = "create" /\ JobMode[cur] # "replayall"
    /\ XGroupCreate(cur, AfterReplay(cur))
    /\ NextStream(cur)
    /\ phase' = Listening(todo \ {cur})
    /\ UNCHANGED <<lastGenerated, low, consumer, pel, inited, lastId, current, batch, fetched,
                   running, starts, count, ever, unseen>>

\* A Redis error ends StartListen; the server goes on without reading its streams.
StartFails ==
    /\ \/ phase \in {"init", "replay", "create", "recreate"}
       \/ phase = "inspect" /\ todo \cap StreamTTL # {}
    /\ phase' = "deaf"
    /\ cur' = NoStream /\ batch' = {} /\ todo' = {}
    /\ UNCHANGED <<redis, inited, lastId, current, fetched, running, starts, count, ever,
                   base, unseen>>

(***************************************************************************)
(* The read loop and the pool                                              *)
(***************************************************************************)
NextOf(st) == After(st, group[st])

Delivered(st) == Min(NextOf(st))

\* Mutant: the loop goes on only when everything it was given is acknowledged.
ReadGroupAcked ==
    /\ phase = "listen" /\ fetched = {}
    /\ \A st \in Stream : pel[st] = {}
    /\ LET ready == {st \in Stream : NextOf(st) # {}}
       IN /\ ready # {}
          /\ fetched' = {<<st, Delivered(st)>> : st \in ready}
          /\ group' = [st \in Stream |-> IF st \in ready THEN Delivered(st) ELSE group[st]]
          /\ pel' = [st \in Stream |-> IF st \in ready THEN pel[st] \cup {Delivered(st)}
                                                       ELSE pel[st]]
          /\ consumer' = consumer \cup ready
    /\ UNCHANGED <<lastGenerated, low, exists, phase, boot, running, starts, count, ever,
                   base, unseen>>

\* XREADGROUP with COUNT 1: the next entry of every stream that has one.
ReadGroup ==
    /\ phase = "listen" /\ fetched = {}
    /\ LET ready == {st \in Stream : NextOf(st) # {}}
       IN /\ ready # {}
          /\ fetched' = {<<st, Delivered(st)>> : st \in ready}
          /\ group' = [st \in Stream |-> IF st \in ready THEN Delivered(st) ELSE group[st]]
          /\ pel' = [st \in Stream |-> IF st \in ready THEN pel[st] \cup {Delivered(st)}
                                                       ELSE pel[st]]
          /\ consumer' = consumer \cup ready
    /\ UNCHANGED <<lastGenerated, low, exists, phase, boot, running, starts, count, ever,
                   base, unseen>>

\* XREADGROUP that returns nothing; the servers that create consumers when they block do so.
ReadNothing ==
    /\ phase = "listen" /\ fetched = {}
    /\ \A st \in Stream : NextOf(st) = {}
    /\ consumer' = Stream
    /\ UNCHANGED <<lastGenerated, low, exists, group, pel, phase, boot, fetched, running,
                   starts, count, ever, base, unseen>>

\* Mutant: the entry is acknowledged when the pool takes it.
ReceivedAcked(st, e) ==
    /\ phase \in {"listen", "stopping"} /\ <<st, e>> \in fetched
    /\ Cardinality(running) < Concurrency
    /\ fetched' = fetched \ {<<st, e>>}
    /\ running' = running \cup {<<st, e, "group">>}
    /\ count' = [count EXCEPT ![st][e] = @ + 1]
    /\ pel' = [pel EXCEPT ![st] = @ \ {e}]
    /\ UNCHANGED <<lastGenerated, low, exists, group, consumer, phase, boot, starts, ever, base, unseen>>

\* Received: a goroutine of the pool takes the listener.  While the server stops, the pool
\* chooses between the work and the cancelled context.
Received(st, e) ==
    /\ phase \in {"listen", "stopping"} /\ <<st, e>> \in fetched
    /\ Cardinality(running) < Concurrency
    /\ fetched' = fetched \ {<<st, e>>}
    /\ running' = running \cup {<<st, e, "group">>}
    /\ count' = [count EXCEPT ![st][e] = @ + 1]
    /\ UNCHANGED <<redis, phase, boot, starts, ever, base, unseen>>

\* The listener returns, with or without an error, and the entry is acknowledged; an
\* XACK that fails leaves it in the pending list.
Finish(t) ==
    /\ t \in running
    /\ running' = running \ {t}
    /\ ever' = [ever EXCEPT ![t[1]] = @ \cup {t[2]}]
    /\ \E acked \in BOOLEAN :
         pel' = IF t[3] = "group" /\ acked THEN [pel EXCEPT ![t[1]] = @ \ {t[2]}] ELSE pel
    /\ UNCHANGED <<lastGenerated, low, exists, group, consumer, phase, boot, fetched, starts,
                   count, base, unseen>>

\* appctx is cancelled: the loop reads no more.
Stop ==
    /\ phase = "listen"
    /\ phase' = "stopping"
    /\ UNCHANGED <<redis, boot, fetched, running, starts, count, ever, base, unseen>>

\* The process ends, at any point, with what its pool was doing.
Crash ==
    /\ phase # "down"
    /\ phase' = "down"
    /\ todo' = {} /\ cur' = NoStream /\ batch' = {} /\ fetched' = {} /\ running' = {}
    /\ current' = 0
    /\ UNCHANGED <<redis, inited, lastId, starts, count, ever, base, unseen>>

Boot == (\E st \in Stream : InspectStream(st) \/ InitStream(st))
        \/ ReplayRead \/ ReplayHand \/ DestroyGroup \/ CreateGroup
Loop == ReadGroup \/ ReadNothing
        \/ (\E st \in Stream, e \in Entry : Received(st, e))
Pool == \E t \in running : Finish(t)

Next ==
    /\ UNCHANGED types
    /\ \/ \E st \in Stream : call_stream(st) \/ TrimElsewhere(st)
       \/ Start \/ Boot \/ StartFails
       \/ Loop \/ Pool
       \/ Stop \/ Crash

\* The goroutines run on and handlers return; a start, a crash or a publication need not come.
Fairness == WF_moving(Boot) /\ WF_moving(ReadGroup) /\ WF_moving(Pool)
            /\ WF_moving(\E st \in Stream, e \in Entry : Received(st, e))

Spec == Init /\ [][Next]_vars /\ Fairness

(***************************************************************************)
(* Properties                                                              *)
(***************************************************************************)
\* "replayall: replay all jobs every restart": once the server listens, every entry that is
\* still in the stream and lies between the start and the position of its group has been
\* handed to a handler since this start, or is about to be: there is no gap between what was
\* replayed and what the group delivers, whatever was published or trimmed meanwhile.
ReplayComplete ==
    phase \in {"listen", "stopping"} =>
        \A st \in Stream \ unseen : JobMode[st] = "replayall" /\ start[st] # Latest =>
            \A e \in Live(st) : start[st] < e /\ e <= group[st] =>
                count[st][e] > 0 \/ <<st, e>> \in fetched

\* The other side of the same seam: an entry that was there when a server with a replayall
\* handler started is handed over at most once in the life of that server.
OldOnce ==
    \A st \in Stream \ unseen : JobMode[st] = "replayall" /\ phase # "inspect" =>
        \A e \in Entry : e <= lastId[st] => count[st][e] <= 1

\* Delivered to this server, and waiting for the pool or running in it.
InHand(st) ==
    {e \in Entry : <<st, e>> \in fetched \/ \E how \in {"replay", "group"} : <<st, e, how>> \in running}

\* Whatever the group of a fanout or replay handler has moved past since it was created was
\* handled to the end by some incarnation of the server, or is in the hands of this one.  What
\* is neither was in the hands of an earlier one that ended: it is in the pending list still,
\* and, as the read loop asks for new entries only, this server has not been given it again.
NothingVanishes ==
    \A st \in Stream : JobMode[st] # "replayall" /\ group[st] # Absent =>
        \A e \in Entry : base[st] < e /\ e <= group[st] /\ e \in Live(st) =>
            \/ e \in ever[st] \cup InHand(st)
            \/ e \in pel[st] /\ (phase = "down" \/ (starts > 1 /\ count[st][e] = 0))

\* A server that keeps listening hands over every entry it has not been given yet.
Heard ==
    \A st \in Stream, e \in Entry :
        (phase = "listen" /\ e \in After(st, group[st]))
            ~> (count[st][e] > 0 \/ phase # "listen" \/ e <= low[st])
=============================================================================
