--------------------------- MODULE SessionManager ---------------------------
(***************************************************************************)
(* The sticky sessions of one node (session_manager.go, session_sticky.go, *)
(* session.go): create-session jobs taken by the worker pool, the resource *)
(* accounting that admits them, the set of handlers the dequeuer leaves    *)
(* out while a resource is full, callbacks that use a session, and the     *)
(* collector that closes expired sessions.                                 *)
(*                                                                         *)
(* dequeueMu makes each of create, lookup and collection a critical        *)
(* section; the collector's loop is one step per session it visits, and    *)
(* nothing else enters while it is under way.  expireAt is the time that   *)
(* remains.  An empty use map is the one that uses 0 of every resource.    *)
(***************************************************************************)
EXTENDS Integers, FiniteSets

CONSTANTS
    Group,       \* session names, one create-session handler each
    Resource,
    Resources,   \* Resources[r]: SessionConfig.Resources, 0 if r is not configured
    UseResource, \* UseResource[g]: the use maps of the functions that share name g
    Session,     \* session ids (xid); a closed one is taken again only if unreferenced
    Expire,      \* SessionConfig.Expire, in ticks
    GCInterval,  \* the collector's period (a minute), in ticks
    Slot,        \* goroutines of the worker pool
    Client,      \* goroutines in WithSession
    MaxUse,      \* bound: ticks a callback holds a session; a free one is locked within a tick
    Null

Uses == [Resource -> Nat]

ASSUME SessionAssumption ==
    /\ Resources \in [Resource -> Nat]
    /\ UseResource \in [Group -> SUBSET Uses]
    /\ {Expire, MaxUse} \subseteq Nat
    /\ GCInterval \in Nat \ {0}

Entry == [name : Group, use : Uses, inited : BOOLEAN, expireAt : Int]

ASSUME NullAssumption ==
    /\ Null \notin Entry
    /\ Null \notin Session
    /\ Null \notin [name : Group, use : Uses]

VARIABLES
    sessionStore,            \* Session -> entry or Null
    resourceConsumeMap,      \* Resource -> consumed
    resourcelockedHandlers,  \* groups whose create jobs are not dequeued
    slot,                    \* Slot -> the create-session job it runs, or Null
    client,                  \* Client -> [pc, sid, held]
    sweep,                   \* sessions the collector has still to visit
    gcdue                    \* ticks until the collector runs

vars == <<sessionStore, resourceConsumeMap, resourcelockedHandlers, slot, client, sweep,
          gcdue>>

Stored == {s \in Session : sessionStore[s] # Null}

\* dequeueMu is held across steps by the collector only.
MutexFree == sweep = {}

(***************************************************************************)
(* Creating a session                                                      *)
(***************************************************************************)
\* The dequeuer passes over the jobs of locked handlers; it does not know what
\* the jobs that were handed to the pool before are about to consume.
DequeueCreate(p, g, u) ==
    /\ slot[p] = Null
    /\ g \notin resourcelockedHandlers
    /\ slot' = [slot EXCEPT ![p] = [name |-> g, use |-> u]]
    /\ UNCHANGED <<sessionStore, resourceConsumeMap, resourcelockedHandlers, client, sweep,
                   gcdue>>

\* Mutant: the resources are looked at without what the entry is about to use.
OverflowsLate(u) == \E r \in Resource : resourceConsumeMap[r] > Resources[r]

\* CONSUME_OVERFLOW: not even once more.
Overflows(u) == \E r \in Resource : resourceConsumeMap[r] + u[r] > Resources[r]

\* CONSUME_FULL: once more, but not twice.
Fills(u) == \E r \in Resource : resourceConsumeMap[r] + u[r] * 2 > Resources[r]

Consume(u) == resourceConsumeMap' = [r \in Resource |-> resourceConsumeMap[r] + u[r]]

\* No callback still holds a pointer to an earlier entry of this id.
Unused(s) == sessionStore[s] = Null /\ \A c \in Client : client[c].sid # s

NewEntry(job) == [name |-> job.name, use |-> job.use, inited |-> FALSE, expireAt |-> Expire]

\* The create-session handler; on overflow it only marks its job for requeue.
CreateSession(p, s) ==
    LET job == slot[p] IN
    /\ MutexFree /\ job # Null /\ Unused(s)
    /\ slot' = [slot EXCEPT ![p] = Null]
    /\ \/ /\ Overflows(job.use)
          /\ UNCHANGED <<sessionStore, resourceConsumeMap, resourcelockedHandlers>>
       \/ /\ ~Overflows(job.use)
          /\ Consume(job.use)
          /\ sessionStore' = [sessionStore EXCEPT ![s] = NewEntry(job)]
          /\ resourcelockedHandlers' =
                IF Fills(job.use) THEN resourcelockedHandlers \cup {job.name}
                                  ELSE resourcelockedHandlers
    /\ UNCHANGED <<client, sweep, gcdue>>

(***************************************************************************)
(* Using a session                                                         *)
(***************************************************************************)
\* Mutant: the expiry is set when the entry is created and not on a lookup.
TouchedOnce(e) == [e EXCEPT !.inited = TRUE]

\* getStickySessionEntry makes the value on the first lookup, extends the expiry
\* on each.
Touched(e) == [e EXCEPT !.inited = TRUE, !.expireAt = Expire]

\* An expired session that was not collected yet is found all the same.
Touch(s) ==
    /\ MutexFree /\ sessionStore[s] # Null
    /\ sessionStore' = [sessionStore EXCEPT ![s] = Touched(@)]

\* GetSession: the caller keeps the value, without a lock.
GetSession(s) ==
    /\ Touch(s)
    /\ UNCHANGED <<resourceConsumeMap, resourcelockedHandlers, slot, client, sweep, gcdue>>

\* WithSession: look the entry up, then wait for its own mutex.
WithSession(c, s) ==
    /\ client[c].pc = "idle"
    /\ Touch(s)
    /\ client' = [client EXCEPT ![c] = [pc |-> "lock", sid |-> s, held |-> 0]]
    /\ UNCHANGED <<resourceConsumeMap, resourcelockedHandlers, slot, sweep, gcdue>>

EntryFree(s) == \A d \in Client : ~(client[d].pc = "in" /\ client[d].sid = s)

LockEntry(c) ==
    /\ client[c].pc = "lock"
    /\ EntryFree(client[c].sid)
    /\ client' = [client EXCEPT ![c].pc = "in"]
    /\ UNCHANGED <<sessionStore, resourceConsumeMap, resourcelockedHandlers, slot, sweep, gcdue>>

Outside == [pc |-> "idle", sid |-> Null, held |-> 0]

Unlock(c) ==
    /\ client[c].pc = "in"
    /\ client' = [client EXCEPT ![c] = Outside]
    /\ UNCHANGED <<sessionStore, resourceConsumeMap, resourcelockedHandlers, slot, sweep, gcdue>>

(***************************************************************************)
(* The collector                                                           *)
(***************************************************************************)
Expired == {s \in Stored : sessionStore[s].expireAt < 0}

StartGC ==
    /\ gcdue = 0
    /\ sweep' = Expired
    /\ gcdue' = GCInterval
    /\ UNCHANGED <<sessionStore, resourceConsumeMap, resourcelockedHandlers, slot, client>>

\* ShouldKeepAlive says yes; only a value that exists can be asked.
KeepAlive(s) ==
    /\ s \in sweep /\ sessionStore[s].inited
    /\ sessionStore' = [sessionStore EXCEPT ![s].expireAt = Expire]
    /\ sweep' = sweep \ {s}
    /\ UNCHANGED <<resourceConsumeMap, resourcelockedHandlers, slot, client, gcdue>>

\* Mutant: the entry is dropped and its resources stay consumed.
KeepConsumed(u) == UNCHANGED resourceConsumeMap

\* entry_free, with its guard against a negative count.
Release(u) ==
    resourceConsumeMap' = [r \in Resource |->
        IF u[r] > resourceConsumeMap[r] THEN 0 ELSE resourceConsumeMap[r] - u[r]]

\* Mutant: the handlers that wait for the resource are left locked.
StillLocked(g) == UNCHANGED resourcelockedHandlers

\* Only the group of the closed session is let in again.
UnlockHandler(g) == resourcelockedHandlers' = resourcelockedHandlers \ {g}

\* mayDeleteSession: close the value, drop the entry, free and unlock.
DeleteSession(s) ==
    /\ s \in sweep
    /\ sessionStore' = [sessionStore EXCEPT ![s] = Null]
    /\ Release(sessionStore[s].use)
    /\ UnlockHandler(sessionStore[s].name)
    /\ sweep' = sweep \ {s}
    /\ UNCHANGED <<slot, client, gcdue>>

Elapsed(e) == [e EXCEPT !.expireAt = IF @ < 0 THEN @ ELSE @ - 1]

Tick ==
    /\ MutexFree /\ gcdue > 0
    /\ \A c \in Client : /\ client[c].pc = "in" => client[c].held < MaxUse
                         /\ client[c].pc = "lock" => ~EntryFree(client[c].sid)
    /\ gcdue' = gcdue - 1
    /\ sessionStore' = [s \in Session |-> IF sessionStore[s] = Null THEN Null
                                          ELSE Elapsed(sessionStore[s])]
    /\ client' = [c \in Client |-> IF client[c].pc = "in"
                                     THEN [client[c] EXCEPT !.held = @ + 1] ELSE client[c]]
    /\ UNCHANGED <<resourceConsumeMap, resourcelockedHandlers, slot, sweep>>

(***************************************************************************)
(* Specification                                                           *)
(***************************************************************************)
Init ==
    /\ sessionStore = [s \in Session |-> Null]
    /\ resourceConsumeMap = [r \in Resource |-> 0]
    /\ resourcelockedHandlers = {}
    /\ slot = [p \in Slot |-> Null]
    /\ client = [c \in Client |-> Outside]
    /\ sweep = {}
    /\ gcdue = GCInterval

Next ==
    \/ \E p \in Slot : \/ \E g \in Group : \E u \in UseResource[g] : DequeueCreate(p, g, u)
                       \/ \E s \in Session : CreateSession(p, s)
    \/ \E s \in Session : GetSession(s) \/ KeepAlive(s) \/ DeleteSession(s)
    \/ \E c \in Client : \/ \E s \in Session : WithSession(c, s)
                         \/ LockEntry(c)
                         \/ Unlock(c)
    \/ StartGC
    \/ Tick

Spec == Init /\ [][Next]_vars

(***************************************************************************)
(* Properties                                                              *)
(***************************************************************************)
TypeOK ==
    /\ sessionStore \in [Session -> Entry \cup {Null}]
    /\ resourceConsumeMap \in [Resource -> Nat]
    /\ resourcelockedHandlers \subseteq Group
    /\ slot \in [Slot -> [name : Group, use : Uses] \cup {Null}]
    /\ client \in [Client -> [pc : {"idle", "lock", "in"}, sid : Session \cup {Null},
                              held : Nat]]
    /\ sweep \subseteq Stored
    /\ gcdue \in 0..GCInterval

\* However many create jobs were handed to the pool before the first of them
\* locked its handler, no resource is consumed beyond what is configured.
NeverOvercommitted == \A r \in Resource : resourceConsumeMap[r] <= Resources[r]

\* The units of r that stored sessions use, numbered per session.
UsedUnits(r) == UNION {{s} \X (1 .. sessionStore[s].use[r]) : s \in Stored}

\* What is booked is what the stored sessions use: create, expiry and keep-alive
\* neither leak a resource nor give one back twice.
BookedIsUsed == \A r \in Resource : resourceConsumeMap[r] = Cardinality(UsedUnits(r))

\* A handler is locked out of the queue only while one of its own sessions is
\* stored: closing that session is what lets it in again, so no lock is forever.
LockedHasSession ==
    \A g \in resourcelockedHandlers : \E s \in Stored : sessionStore[s].name = g

\* The collector does not close a session inside a WithSession callback, though
\* it does not take the entry's mutex: the lookup extends the expiry, and waiting
\* and running take less than that.
NotClosedInUse == \A c \in Client : client[c].pc = "in" => client[c].sid \in Stored
=============================================================================
