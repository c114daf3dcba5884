----------------------- MODULE SessionManager_proofs -----------------------
(***************************************************************************)
(* Proofs about SessionManager for any groups, resources, pool and number  *)
(* of sessions: the configured resources are never overcommitted, what is  *)
(* booked is what the stored sessions use, a group locked out of the queue *)
(* always has a session whose end unlocks it, and the collector closes no  *)
(* session in use as long as the callbacks fit in an expiry.               *)
(***************************************************************************)
EXTENDS SessionManager, FiniteSetTheorems, TLAPS

\* The inductive invariant: of TypeOK it needs above all that what the collector
\* has still to visit is stored.
IInv == TypeOK /\ NeverOvercommitted /\ LockedHasSession

\* Init establishes the invariant.
LEMMA InitIInv == Init => IInv
<1> SUFFICES ASSUME Init PROVE IInv OBVIOUS
<1> USE SessionAssumption DEF Init
<1>1. TypeOK
  BY DEF TypeOK, Outside, Stored
<1>2. NeverOvercommitted
  BY DEF NeverOvercommitted
<1>3. LockedHasSession
  BY DEF LockedHasSession
<1> QED BY <1>1, <1>2, <1>3 DEF IInv

\* Handing a create job to the pool does not touch the sessions.
LEMMA DequeueCreateKeeps ==
  ASSUME IInv, NEW p \in Slot, NEW g \in Group, NEW u \in UseResource[g],
         DequeueCreate(p, g, u)
  PROVE  IInv'
<1>1. u \in Uses
  BY SessionAssumption
<1> QED BY <1>1 DEF IInv, TypeOK, Stored, NeverOvercommitted, LockedHasSession, DequeueCreate

\* A create job is admitted only within the resources, and the group it locks is
\* the one of the session it stores.
LEMMA CreateSessionKeeps ==
  ASSUME IInv, NEW p \in Slot, NEW s \in Session, CreateSession(p, s)
  PROVE  IInv'
<1> DEFINE job == slot[p]
<1>1. job \in [name : Group, use : Uses] /\ sessionStore[s] = Null /\ sweep = {}
  BY DEF IInv, TypeOK, CreateSession, MutexFree, Unused
<1>2. CASE Overflows(job.use)
  BY <1>1, <1>2
     DEF CreateSession, IInv, TypeOK, Stored, NeverOvercommitted, LockedHasSession
<1>3. CASE ~Overflows(job.use)
  <2>1. /\ Consume(job.use)
        /\ sessionStore' = [sessionStore EXCEPT ![s] = NewEntry(job)]
        /\ resourcelockedHandlers' \subseteq resourcelockedHandlers \cup {job.name}
        /\ slot' = [slot EXCEPT ![p] = Null]
        /\ UNCHANGED <<client, sweep, gcdue>>
    BY <1>3 DEF CreateSession
  <2>2. NewEntry(job) \in Entry
    BY <1>1, SessionAssumption DEF NewEntry, Entry
  <2>3. resourceConsumeMap' \in [Resource -> Nat] /\ NeverOvercommitted'
    BY <1>1, <1>3, <2>1, SessionAssumption
       DEF Consume, Overflows, NeverOvercommitted, IInv, TypeOK, Uses
  <2>4. TypeOK'
    BY <1>1, <2>1, <2>2, <2>3 DEF IInv, TypeOK, Stored
  <2>5. LockedHasSession'
    <3>1. s \in Stored' /\ sessionStore'[s].name = job.name
      BY <2>1, <2>2, NullAssumption DEF Stored, IInv, TypeOK, NewEntry
    <3>2. \A q \in Stored : q \in Stored' /\ sessionStore'[q].name = sessionStore[q].name
      BY <1>1, <2>1 DEF Stored, IInv, TypeOK
    <3> QED BY <2>1, <3>1, <3>2 DEF LockedHasSession, IInv
  <2> QED BY <2>3, <2>4, <2>5 DEF IInv
<1> QED BY <1>2, <1>3

\* Looking a session up, and keeping it alive, change its expiry alone.
LEMMA ExpiryKeeps ==
  ASSUME IInv, NEW s \in Stored, NEW e \in Entry, e.name = sessionStore[s].name,
         sessionStore' = [sessionStore EXCEPT ![s] = e],
         sweep' \subseteq sweep, client' \in [Client ->
             [pc : {"idle", "lock", "in"}, sid : Session \cup {Null}, held : Nat]],
         UNCHANGED <<resourceConsumeMap, resourcelockedHandlers, slot, gcdue>>
  PROVE  IInv'
<1>1. Stored' = Stored
  BY NullAssumption DEF Stored, IInv, TypeOK
<1>2. TypeOK'
  BY <1>1 DEF IInv, TypeOK, Stored
<1>3. NeverOvercommitted'
  BY DEF IInv, NeverOvercommitted
<1>4. LockedHasSession'
  BY <1>1 DEF IInv, LockedHasSession, TypeOK, Stored
<1> QED BY <1>2, <1>3, <1>4 DEF IInv

\* A touched entry is an entry of the same group.
LEMMA TouchedType ==
  ASSUME NEW e \in Entry
  PROVE  Touched(e) \in Entry /\ Touched(e).name = e.name
<1>1. Expire \in Int
  BY SessionAssumption
<1>2. [e EXCEPT !.inited = TRUE] \in Entry /\ [e EXCEPT !.inited = TRUE].name = e.name
  BY DEF Entry
<1>3. \A f \in Entry : [f EXCEPT !.expireAt = Expire] \in Entry
                        /\ [f EXCEPT !.expireAt = Expire].name = f.name
  BY <1>1 DEF Entry
<1> QED BY <1>2, <1>3 DEF Touched

\* A touched entry has a full expiry before it.
LEMMA TouchedExpiry ==
  ASSUME NEW e \in Entry
  PROVE  Touched(e).expireAt = Expire
<1>1. [e EXCEPT !.inited = TRUE] \in Entry
  BY DEF Entry
<1>2. \A f \in Entry : [f EXCEPT !.expireAt = Expire].expireAt = Expire
  BY DEF Entry
<1> QED BY <1>1, <1>2 DEF Touched

\* GetSession and WithSession extend the expiry of a stored session.
LEMMA TouchKeeps ==
  ASSUME IInv, NEW s \in Session,
         GetSession(s) \/ \E c \in Client : WithSession(c, s)
  PROVE  IInv'
<1>1. s \in Stored /\ sessionStore[s] \in Entry
  BY DEF GetSession, WithSession, Touch, Stored, IInv, TypeOK
<1>2. /\ sessionStore' = [sessionStore EXCEPT ![s] = Touched(sessionStore[s])]
      /\ UNCHANGED <<resourceConsumeMap, resourcelockedHandlers, slot, sweep, gcdue>>
  BY DEF GetSession, WithSession, Touch
<1>3. client' \in [Client -> [pc : {"idle", "lock", "in"}, sid : Session \cup {Null},
                              held : Nat]]
  BY DEF GetSession, WithSession, IInv, TypeOK
<1> QED BY <1>1, <1>2, <1>3, TouchedType, ExpiryKeeps

\* The entry's mutex is no part of the store.
LEMMA ClientKeeps ==
  ASSUME IInv, NEW c \in Client, LockEntry(c) \/ Unlock(c)
  PROVE  IInv'
  BY DEF LockEntry, Unlock, Outside, IInv, TypeOK, Stored, NeverOvercommitted, LockedHasSession

\* The collector visits stored sessions.
LEMMA StartGCKeeps ==
  ASSUME IInv, StartGC
  PROVE  IInv'
  BY SessionAssumption
     DEF StartGC, Expired, IInv, TypeOK, Stored, NeverOvercommitted, LockedHasSession

\* A session kept alive stays in its group.
LEMMA KeepAliveKeeps ==
  ASSUME IInv, NEW s \in Session, KeepAlive(s)
  PROVE  IInv'
<1> DEFINE e == [sessionStore[s] EXCEPT !.expireAt = Expire]
<1>1. s \in Stored /\ sessionStore[s] \in Entry
  BY DEF KeepAlive, IInv, TypeOK, Stored
<1>2. e \in Entry /\ e.name = sessionStore[s].name
  BY <1>1, SessionAssumption DEF Entry
<1>3. /\ sessionStore' = [sessionStore EXCEPT ![s] = e]
      /\ sweep' \subseteq sweep
      /\ UNCHANGED <<resourceConsumeMap, resourcelockedHandlers, slot, client, gcdue>>
  BY DEF KeepAlive
<1>4. client' \in [Client -> [pc : {"idle", "lock", "in"}, sid : Session \cup {Null},
                              held : Nat]]
  BY <1>3 DEF IInv, TypeOK
<1> HIDE DEF e
<1> QED BY <1>1, <1>2, <1>3, <1>4, ExpiryKeeps

\* Closing a session unlocks its group, so a group that stays locked has another.
LEMMA DeleteSessionKeeps ==
  ASSUME IInv, NEW s \in Session, DeleteSession(s)
  PROVE  IInv'
<1>1. s \in Stored /\ sessionStore[s] \in Entry
  BY DEF DeleteSession, IInv, TypeOK, Stored
<1>2. resourceConsumeMap' \in [Resource -> Nat] /\ NeverOvercommitted'
  BY <1>1, SessionAssumption
     DEF DeleteSession, Release, IInv, TypeOK, NeverOvercommitted, Entry, Uses
<1>3. TypeOK'
  BY <1>1, <1>2 DEF DeleteSession, UnlockHandler, IInv, TypeOK, Stored
<1>4. LockedHasSession'
  BY <1>1 DEF DeleteSession, UnlockHandler, IInv, TypeOK, Stored, LockedHasSession
<1> QED BY <1>2, <1>3, <1>4 DEF IInv

\* Time changes expiries only.
LEMMA TickKeeps ==
  ASSUME IInv, Tick
  PROVE  IInv'
<1>1. \A e \in Entry : Elapsed(e) \in Entry /\ Elapsed(e).name = e.name
  BY DEF Elapsed, Entry
<1>2. sessionStore' \in [Session -> Entry \cup {Null}]
  BY <1>1 DEF Tick, IInv, TypeOK
<1>3. \A s \in Stored : s \in Stored' /\ sessionStore'[s].name = sessionStore[s].name
  BY <1>1, NullAssumption DEF Tick, IInv, TypeOK, Stored
<1>4. client' \in [Client -> [pc : {"idle", "lock", "in"}, sid : Session \cup {Null},
                              held : Nat]]
  BY DEF Tick, IInv, TypeOK
<1>5. gcdue' \in 0..GCInterval
  BY SessionAssumption DEF Tick, IInv, TypeOK
<1>6. TypeOK'
  BY <1>2, <1>3, <1>4, <1>5 DEF Tick, IInv, TypeOK
<1>7. NeverOvercommitted' /\ LockedHasSession'
  BY <1>3 DEF Tick, IInv, NeverOvercommitted, LockedHasSession
<1> QED BY <1>6, <1>7 DEF IInv

\* Every step keeps the invariant.
LEMMA NextIInv == IInv /\ [Next]_vars => IInv'
<1> SUFFICES ASSUME IInv, [Next]_vars PROVE IInv' OBVIOUS
<1>1. CASE UNCHANGED vars
  BY <1>1 DEF vars, IInv, TypeOK, Stored, NeverOvercommitted, LockedHasSession
<1>2. CASE \E p \in Slot : \/ \E g \in Group : \E u \in UseResource[g] : DequeueCreate(p, g, u)
                           \/ \E s \in Session : CreateSession(p, s)
  BY <1>2, DequeueCreateKeeps, CreateSessionKeeps
<1>3. CASE \E s \in Session : GetSession(s) \/ KeepAlive(s) \/ DeleteSession(s)
  BY <1>3, TouchKeeps, KeepAliveKeeps, DeleteSessionKeeps
<1>4. CASE \E c \in Client : (\E s \in Session : WithSession(c, s)) \/ LockEntry(c) \/ Unlock(c)
  BY <1>4, TouchKeeps, ClientKeeps
<1>5. CASE StartGC \/ Tick
  BY <1>5, StartGCKeeps, TickKeeps
<1> QED BY <1>1, <1>2, <1>3, <1>4, <1>5 DEF Next

\* Whatever create jobs the pool runs at once, no resource of the node is booked
\* beyond SessionConfig.Resources (entry_consume, entry_free).
THEOREM ResourcesNeverOvercommitted == Spec => []NeverOvercommitted
<1>1. IInv => NeverOvercommitted
  BY DEF IInv
<1> QED BY <1>1, InitIInv, NextIInv, PTL DEF Spec

\* A create-session handler is kept out of the queue only while a session of its
\* group is stored, whose end lets it in again (mayDeleteSession).
THEOREM LockedGroupsHaveSessions == Spec => []LockedHasSession
<1>1. IInv => LockedHasSession
  BY DEF IInv
<1> QED BY <1>1, InitIInv, NextIInv, PTL DEF Spec

-----------------------------------------------------------------------------
(***************************************************************************)
(* What is booked is what is used                                          *)
(***************************************************************************)
BookInv == \A r \in Resource : /\ IsFiniteSet(UsedUnits(r))
                               /\ resourceConsumeMap[r] = Cardinality(UsedUnits(r))

\* A session that uses n units has n numbered units.
LEMMA UnitsOfOne ==
  ASSUME NEW s, NEW n \in Nat
  PROVE  IsFiniteSet({s} \X (1 .. n)) /\ Cardinality({s} \X (1 .. n)) = n
<1> DEFINE T == 1 .. n
<1>1. IsFiniteSet({s}) /\ Cardinality({s}) = 1
  BY FS_Singleton
<1>2. IsFiniteSet(T) /\ Cardinality(T) = n
  BY FS_Interval
<1> HIDE DEF T
<1>3. IsFiniteSet({s} \X T) /\ Cardinality({s} \X T) = 1 * n
  BY <1>1, <1>2, FS_Product, Zenon
<1> QED BY <1>3 DEF T

\* Units that are not counted yet add up.
LEMMA UnitsAdd ==
  ASSUME NEW U, IsFiniteSet(U), NEW W, IsFiniteSet(W), NEW V, V = U \cup W, U \cap W = {}
  PROVE  IsFiniteSet(V) /\ Cardinality(V) = Cardinality(U) + Cardinality(W)
<1>1. /\ Cardinality({}) = 0
      /\ Cardinality(U) \in Nat /\ Cardinality(W) \in Nat
  BY FS_EmptySet, FS_CardinalityType
<1>2. /\ IsFiniteSet(U \cup W)
      /\ Cardinality(U \cup W) = Cardinality(U) + Cardinality(W) - Cardinality(U \cap W)
  BY FS_Union, Zenon
<1>3. V = U \cup W /\ Cardinality(U \cap W) = 0
  BY <1>1, Zenon
<1>4. IsFiniteSet(V) /\ Cardinality(V) = Cardinality(U) + Cardinality(W) - Cardinality(U \cap W)
  BY <1>2, <1>3, Zenon
<1> HIDE DEF Cardinality
<1> QED BY <1>1, <1>3, <1>4

\* A step that leaves the sessions and what they use alone keeps the books.
LEMMA SameUseKeeps ==
  ASSUME BookInv, UNCHANGED resourceConsumeMap, Stored' = Stored,
         \A s \in Stored : sessionStore'[s].use = sessionStore[s].use
  PROVE  BookInv'
<1>1. \A r \in Resource : UsedUnits(r)' = UsedUnits(r)
  BY DEF UsedUnits
<1> QED BY <1>1 DEF BookInv

\* A session that is created consumes its units.
LEMMA CreateSessionBooks ==
  ASSUME IInv, BookInv, NEW p \in Slot, NEW s \in Session, CreateSession(p, s)
  PROVE  BookInv'
<1> DEFINE job == slot[p]
<1>1. job \in [name : Group, use : Uses] /\ sessionStore[s] = Null
  BY DEF IInv, TypeOK, CreateSession, Unused
<1>2. CASE Overflows(job.use)
  <2>1. UNCHANGED <<sessionStore, resourceConsumeMap>>
    BY <1>2 DEF CreateSession
  <2> QED BY <2>1, SameUseKeeps DEF Stored
<1>3. CASE ~Overflows(job.use)
  <2>1. /\ Consume(job.use)
        /\ sessionStore' = [sessionStore EXCEPT ![s] = NewEntry(job)]
    BY <1>3 DEF CreateSession
  <2>2. NewEntry(job) \in Entry /\ NewEntry(job).use = job.use
    BY <1>1, SessionAssumption DEF NewEntry, Entry
  <2>3. Stored' = Stored \cup {s} /\ s \notin Stored /\ sessionStore'[s].use = job.use
    BY <1>1, <2>1, <2>2, NullAssumption DEF Stored, IInv, TypeOK
  <2>4. \A q \in Stored : sessionStore'[q] = sessionStore[q]
    BY <2>1, <2>3 DEF Stored, IInv, TypeOK
  <2>5. ASSUME NEW r \in Resource
        PROVE  /\ IsFiniteSet(UsedUnits(r)')
               /\ resourceConsumeMap'[r] = Cardinality(UsedUnits(r)')
    <3>1. UsedUnits(r)' = UsedUnits(r) \cup ({s} \X (1 .. job.use[r]))
      BY <2>3, <2>4 DEF UsedUnits
    <3>2. UsedUnits(r) \cap ({s} \X (1 .. job.use[r])) = {}
      BY <2>3 DEF UsedUnits
    <3>3. job.use[r] \in Nat /\ resourceConsumeMap'[r] = resourceConsumeMap[r] + job.use[r]
      BY <1>1, <2>1 DEF Consume, Uses
    <3>4. IsFiniteSet(UsedUnits(r)) /\ resourceConsumeMap[r] = Cardinality(UsedUnits(r))
      BY DEF BookInv
    <3> DEFINE W == {s} \X (1 .. job.use[r])
    <3>5. IsFiniteSet(W) /\ Cardinality(W) = job.use[r]
      BY <3>3, UnitsOfOne
    <3> HIDE DEF W, job
    <3> QED BY <3>1, <3>2, <3>3, <3>4, <3>5, UnitsAdd DEF W
  <2> QED BY <2>5 DEF BookInv
<1> QED BY <1>2, <1>3

\* A session that is closed gives back what it consumed, so the guard of entry_free against
\* a negative count never applies.
LEMMA DeleteSessionBooks ==
  ASSUME IInv, BookInv, NEW s \in Session, DeleteSession(s)
  PROVE  BookInv'
<1> DEFINE use == sessionStore[s].use
<1>1. s \in Stored /\ sessionStore[s] \in Entry /\ use \in Uses
  BY DEF DeleteSession, IInv, TypeOK, Stored, Entry
<1>2. /\ Release(use)
      /\ sessionStore' = [sessionStore EXCEPT ![s] = Null]
  BY DEF DeleteSession
<1>3. Stored' = Stored \ {s} /\ \A q \in Stored' : sessionStore'[q] = sessionStore[q]
  BY <1>1, <1>2 DEF Stored, IInv, TypeOK
<1>4. ASSUME NEW r \in Resource
      PROVE  /\ IsFiniteSet(UsedUnits(r)')
             /\ resourceConsumeMap'[r] = Cardinality(UsedUnits(r)')
  <2>1. UsedUnits(r) = UsedUnits(r)' \cup ({s} \X (1 .. use[r]))
    BY <1>1, <1>3 DEF UsedUnits
  <2>2. UsedUnits(r)' \cap ({s} \X (1 .. use[r])) = {}
    BY <1>3 DEF UsedUnits
  <2>3. use[r] \in Nat /\ resourceConsumeMap[r] \in Nat
    BY <1>1 DEF Uses, IInv, TypeOK
  <2>4. resourceConsumeMap'[r] = IF use[r] > resourceConsumeMap[r] THEN 0
                                 ELSE resourceConsumeMap[r] - use[r]
    BY <1>2 DEF Release
  <2>5. IsFiniteSet(UsedUnits(r)) /\ resourceConsumeMap[r] = Cardinality(UsedUnits(r))
    BY DEF BookInv
  <2> DEFINE W == {s} \X (1 .. use[r])
  <2>w. IsFiniteSet(W) /\ Cardinality(W) = use[r]
    BY <2>3, UnitsOfOne
  <2> HIDE DEF use, W
  <2>6. /\ IsFiniteSet(UsedUnits(r)')
        /\ Cardinality(UsedUnits(r)) = Cardinality(UsedUnits(r)') + use[r]
    <3>1. UsedUnits(r) = UsedUnits(r)' \cup W /\ UsedUnits(r)' \cap W = {}
      BY <2>1, <2>2 DEF W
    <3>2. UsedUnits(r)' \subseteq UsedUnits(r)
      BY <3>1
    <3>3. IsFiniteSet(UsedUnits(r)')
      BY <3>2, <2>5, FS_Subset
    <3> QED BY <3>1, <3>3, <2>w, UnitsAdd
  <2>7. Cardinality(UsedUnits(r)') \in Nat
    BY <2>6, FS_CardinalityType
  <2> QED BY <2>3, <2>4, <2>5, <2>6, <2>7
<1> QED BY <1>4 DEF BookInv

\* Lookups, keep-alives and time change the expiry and not the use.
LEMMA OthersBook ==
  ASSUME IInv, BookInv,
         \/ UNCHANGED vars
         \/ \E p \in Slot, g \in Group : \E u \in UseResource[g] : DequeueCreate(p, g, u)
         \/ \E s \in Session : GetSession(s) \/ KeepAlive(s)
         \/ \E c \in Client : \/ \E s \in Session : WithSession(c, s)
                              \/ LockEntry(c) \/ Unlock(c)
         \/ StartGC \/ Tick
  PROVE  BookInv'
<1>1. \A e \in Entry : /\ Touched(e) \in Entry /\ Touched(e).use = e.use
                       /\ Elapsed(e) \in Entry /\ Elapsed(e).use = e.use
                       /\ [e EXCEPT !.expireAt = Expire] \in Entry
                       /\ [e EXCEPT !.expireAt = Expire].use = e.use
  <2>1. \A e \in Entry : [e EXCEPT !.expireAt = Expire] \in Entry
                         /\ [e EXCEPT !.expireAt = Expire].use = e.use
    BY SessionAssumption DEF Entry
  <2>2. \A e \in Entry : [e EXCEPT !.inited = TRUE] \in Entry
                         /\ [e EXCEPT !.inited = TRUE].use = e.use
    BY DEF Entry
  <2>3. \A e \in Entry : Touched(e) = [[e EXCEPT !.inited = TRUE] EXCEPT !.expireAt = Expire]
    BY DEF Touched
  <2>4. \A e \in Entry : Elapsed(e) \in Entry /\ Elapsed(e).use = e.use
    BY DEF Elapsed, Entry
  <2> QED BY <2>1, <2>2, <2>3, <2>4
<1>2. UNCHANGED resourceConsumeMap
  BY DEF vars, DequeueCreate, GetSession, KeepAlive, WithSession, LockEntry, Unlock, StartGC, Tick
<1>3. CASE UNCHANGED sessionStore
  BY <1>2, <1>3, SameUseKeeps DEF Stored
<1>4. ASSUME NEW s \in Stored, NEW e \in Entry, e.use = sessionStore[s].use,
             sessionStore' = [sessionStore EXCEPT ![s] = e]
      PROVE  BookInv'
  <2>1. Stored' = Stored
    BY <1>4, NullAssumption DEF Stored, IInv, TypeOK
  <2>2. \A q \in Stored : sessionStore'[q].use = sessionStore[q].use
    BY <1>4 DEF Stored, IInv, TypeOK
  <2> QED BY <1>2, <2>1, <2>2, SameUseKeeps
<1>5. ASSUME NEW s \in Session, Touch(s) PROVE BookInv'
  <2>1. s \in Stored /\ sessionStore[s] \in Entry
    BY <1>5 DEF Touch, Stored, IInv, TypeOK
  <2>2. sessionStore' = [sessionStore EXCEPT ![s] = Touched(sessionStore[s])]
    BY <1>5 DEF Touch
  <2> QED BY <1>1, <1>4, <2>1, <2>2
<1>6. ASSUME NEW s \in Session, KeepAlive(s) PROVE BookInv'
  <2>1. s \in Stored /\ sessionStore[s] \in Entry
    BY <1>6 DEF KeepAlive, Stored, IInv, TypeOK
  <2>2. sessionStore' = [sessionStore EXCEPT ![s] = [sessionStore[s] EXCEPT !.expireAt = Expire]]
    BY <1>6 DEF KeepAlive
  <2> QED BY <1>1, <1>4, <2>1, <2>2
<1>7. CASE Tick
  <2>1. \A s \in Session : sessionStore'[s] = IF sessionStore[s] = Null THEN Null
                                               ELSE Elapsed(sessionStore[s])
    BY <1>7 DEF Tick
  <2>2. \A s \in Session : sessionStore[s] # Null => sessionStore[s] \in Entry
    BY DEF IInv, TypeOK
  <2>3. Stored' = Stored
    BY <1>1, <2>1, <2>2, NullAssumption DEF Stored
  <2> QED BY <1>1, <1>2, <2>1, <2>2, <2>3, SameUseKeeps DEF Stored
<1> QED BY <1>3, <1>5, <1>6, <1>7
        DEF vars, DequeueCreate, GetSession, WithSession, LockEntry, Unlock, StartGC

\* What is booked for a resource is what the stored sessions use of it: no create, expiry or
\* keep-alive leaks a unit or gives one back twice (entry_consume, entry_free).
THEOREM BooksBalance == Spec => []BookedIsUsed
<1>1. Init => BookInv
  <2> SUFFICES ASSUME Init PROVE BookInv OBVIOUS
  <2>1. \A r \in Resource : UsedUnits(r) = {}
    BY DEF Init, UsedUnits, Stored
  <2> QED BY <2>1, FS_EmptySet DEF BookInv, Init
<1>2. IInv /\ BookInv /\ [Next]_vars => BookInv'
  BY CreateSessionBooks, DeleteSessionBooks, OthersBook DEF Next
<1>3. BookInv => BookedIsUsed
  BY DEF BookInv, BookedIsUsed
<1> QED BY <1>1, <1>2, <1>3, InitIInv, NextIInv, PTL DEF Spec

-----------------------------------------------------------------------------
(***************************************************************************)
(* A session is not closed while it is used                                *)
(***************************************************************************)
\* The callbacks of all goroutines, one after the other, take no longer than an expiry.
UsesFitExpiry == IsFiniteSet(Client) /\ Cardinality(Client) * MaxUse <= Expire

Using(c, s) == client[c].pc # "idle" /\ client[c].sid = s
Waiting(s) == {c \in Client : client[c].pc = "lock" /\ client[c].sid = s}

\* The time those that wait for the entry's mutex may still take.
Need(s) == MaxUse * Cardinality(Waiting(s))

\* What remains until the expiry covers what the callback inside and those that wait for it
\* may still take; the collector visits expired sessions only.
UseInv ==
    /\ \A c, d \in Client : client[c].pc = "in" /\ client[d].pc = "in"
                            /\ client[c].sid = client[d].sid => c = d
    /\ \A c \in Client : client[c].held <= MaxUse
    /\ \A c \in Client, s \in Session : Using(c, s) =>
          /\ s \in Stored /\ sessionStore[s].expireAt >= Need(s)
          /\ client[c].pc = "in" => sessionStore[s].expireAt >= Need(s) + MaxUse - client[c].held
    /\ \A c \in Client : client[c].pc # "idle" => client[c].sid \in Session
    /\ \A s \in sweep : sessionStore[s].expireAt < 0

\* Those who wait need no more than an expiry, and one that does not wait fits in as well.
LEMMA NeedBound ==
  ASSUME UsesFitExpiry, NEW W \in SUBSET Client
  PROVE  /\ IsFiniteSet(W)
         /\ MaxUse * Cardinality(W) \in Nat /\ MaxUse * Cardinality(W) <= Expire
         /\ \A c \in Client : c \notin W => MaxUse * Cardinality(W) + MaxUse <= Expire
<1> DEFINE n == Cardinality(Client)  w == Cardinality(W)
<1>1. IsFiniteSet(W) /\ n \in Nat /\ w \in Nat /\ w <= n
  BY FS_Subset, FS_CardinalityType DEF UsesFitExpiry
<1>2. MaxUse \in Nat /\ Expire \in Nat /\ n * MaxUse <= Expire
  BY SessionAssumption DEF UsesFitExpiry
<1>3. ASSUME NEW k \in Nat, k <= n PROVE MaxUse * k \in Nat /\ MaxUse * k <= Expire
  <2>1. MaxUse * k <= n * MaxUse
    BY <1>1, <1>2, <1>3
  <2> HIDE DEF n
  <2> QED BY <1>1, <1>2, <2>1, <1>3
<1>4. ASSUME NEW c \in Client, c \notin W PROVE w + 1 <= n
  <2>1. IsFiniteSet(W \cup {c}) /\ Cardinality(W \cup {c}) = w + 1
    BY <1>1, <1>4, FS_AddElement
  <2>2. W \cup {c} \subseteq Client
    OBVIOUS
  <2> QED BY <2>1, <2>2, FS_Subset DEF UsesFitExpiry
<1> HIDE DEF n, w
<1>5. ASSUME NEW c \in Client, c \notin W PROVE MaxUse * w + MaxUse <= Expire
  <2>1. MaxUse * (w + 1) = MaxUse * w + MaxUse
    BY <1>1, <1>2
  <2> QED BY <1>1, <1>3, <1>4, <1>5, <2>1
<1> QED BY <1>1, <1>3, <1>5 DEF w

\* One that gets the mutex no longer waits.
LEMMA NeedLess ==
  ASSUME UsesFitExpiry, NEW W, IsFiniteSet(W), NEW c \in W
  PROVE  MaxUse * Cardinality(W) = MaxUse * Cardinality(W \ {c}) + MaxUse
<1>1. Cardinality(W \ {c}) = Cardinality(W) - 1 /\ Cardinality(W) \in Nat
  BY FS_RemoveElement, FS_CardinalityType
<1>2. \A m, k \in Nat : m * k = m * (k - 1) + m
  OBVIOUS
<1> QED BY <1>1, <1>2, SessionAssumption

\* Types of what UseInv relates.
LEMMA UseTypes ==
  ASSUME IInv
  PROVE  /\ \A s \in Stored : sessionStore[s] \in Entry /\ sessionStore[s].expireAt \in Int
         /\ \A c \in Client : /\ client[c].held \in Nat /\ client[c].pc \in {"idle", "lock", "in"}
                             /\ client[c] \in [pc : {"idle", "lock", "in"},
                                               sid : Session \cup {Null}, held : Nat]
         /\ MaxUse \in Nat /\ Expire \in Nat
  BY SessionAssumption DEF IInv, TypeOK, Stored, Entry

\* A step that moves no client and takes no time from a session in use.
LEMMA ClientsStay ==
  ASSUME IInv, UseInv, UNCHANGED client,
         \A c \in Client, s \in Stored : Using(c, s) =>
            s \in Stored' /\ (sessionStore'[s] = sessionStore[s] \/ sessionStore'[s].expireAt = Expire),
         \A s \in sweep' : sessionStore'[s].expireAt < 0,
         UsesFitExpiry
  PROVE  UseInv'
<1>1. \A s : Waiting(s)' = Waiting(s) /\ Need(s)' = Need(s)
  BY DEF Waiting, Need
<1>2. ASSUME NEW c \in Client, NEW s \in Session, Using(c, s)
      PROVE  /\ s \in Stored' /\ sessionStore'[s].expireAt >= Need(s)
             /\ client[c].pc = "in" => sessionStore'[s].expireAt >= Need(s) + MaxUse - client[c].held
  <2>1. /\ s \in Stored /\ sessionStore[s].expireAt >= Need(s)
        /\ client[c].pc = "in" => sessionStore[s].expireAt >= Need(s) + MaxUse - client[c].held
    BY <1>2 DEF UseInv
  <2>2. CASE sessionStore'[s] = sessionStore[s]
    BY <1>2, <2>1, <2>2
  <2>3. CASE sessionStore'[s].expireAt = Expire
    <3>1. client[c].pc = "in" => c \notin Waiting(s)
      BY DEF Waiting
    <3>2. client[c].held \in Nat /\ MaxUse \in Nat /\ Expire \in Nat
      BY UseTypes
    <3>3. /\ Need(s) \in Nat /\ Need(s) <= Expire
          /\ client[c].pc = "in" => Need(s) + MaxUse <= Expire
      <4>1. Waiting(s) \in SUBSET Client
        BY DEF Waiting
      <4> QED BY <3>1, <4>1, NeedBound DEF Need
    <3> QED BY <1>2, <2>1, <2>3, <3>2, <3>3
  <2> QED BY <1>2, <2>1, <2>2, <2>3
<1> QED BY <1>1, <1>2 DEF UseInv, Using

\* Creating, looking up and collecting sessions.
LEMMA StoreUse ==
  ASSUME IInv, UseInv, UsesFitExpiry,
         \/ \E p \in Slot, s \in Session : CreateSession(p, s)
         \/ \E s \in Session : GetSession(s) \/ KeepAlive(s) \/ DeleteSession(s)
         \/ StartGC
  PROVE  UseInv'
<1>1. UNCHANGED client
  BY DEF CreateSession, GetSession, KeepAlive, DeleteSession, StartGC
<1>2. ASSUME NEW p \in Slot, NEW s \in Session, CreateSession(p, s) PROVE UseInv'
  <2>1. \A q \in Session : q # s => sessionStore'[q] = sessionStore[q]
    BY <1>2 DEF CreateSession, IInv, TypeOK
  <2>2. \A c \in Client : ~Using(c, s)
    BY <1>2 DEF CreateSession, Unused, Using
  <2>3. sweep' = {}
    BY <1>2 DEF CreateSession, MutexFree
  <2> QED BY <1>1, <2>1, <2>2, <2>3, ClientsStay DEF Stored
<1>3. ASSUME NEW s \in Session, GetSession(s) PROVE UseInv'
  <2>1. s \in Stored /\ sessionStore[s] \in Entry
    BY <1>3 DEF GetSession, Touch, Stored, IInv, TypeOK
  <2>2. sessionStore' = [sessionStore EXCEPT ![s] = Touched(sessionStore[s])] /\ sweep' = {}
    BY <1>3 DEF GetSession, Touch, MutexFree
  <2>3. Touched(sessionStore[s]) \in Entry /\ Touched(sessionStore[s]).expireAt = Expire
    BY <2>1, TouchedType, TouchedExpiry
  <2>4. sessionStore'[s] # Null /\ sessionStore'[s].expireAt = Expire
    BY <2>1, <2>2, <2>3, NullAssumption DEF IInv, TypeOK
  <2>5. \A q \in Session : q # s => sessionStore'[q] = sessionStore[q]
    BY <2>2 DEF IInv, TypeOK
  <2> QED BY <1>1, <2>2, <2>4, <2>5, ClientsStay DEF Stored
<1>4. ASSUME NEW s \in Session, KeepAlive(s) PROVE UseInv'
  <2>1. s \in Stored /\ sessionStore[s] \in Entry
    BY <1>4 DEF KeepAlive, Stored, IInv, TypeOK
  <2>2. /\ sessionStore' = [sessionStore EXCEPT ![s] = [sessionStore[s] EXCEPT !.expireAt = Expire]]
        /\ sweep' = sweep \ {s}
    BY <1>4 DEF KeepAlive
  <2>3. sessionStore'[s] # Null /\ sessionStore'[s].expireAt = Expire
    <3>1. [sessionStore[s] EXCEPT !.expireAt = Expire] \in Entry
          /\ [sessionStore[s] EXCEPT !.expireAt = Expire].expireAt = Expire
      BY <2>1, SessionAssumption DEF Entry
    <3> QED BY <2>1, <2>2, <3>1, NullAssumption DEF IInv, TypeOK
  <2>4. \A q \in Session : q # s => sessionStore'[q] = sessionStore[q]
    BY <2>2 DEF IInv, TypeOK
  <2>5. \A q \in sweep' : sessionStore'[q].expireAt < 0
    BY <2>2, <2>4 DEF UseInv, IInv, TypeOK, Stored
  <2> QED BY <1>1, <2>3, <2>4, <2>5, ClientsStay DEF Stored
<1>5. ASSUME NEW s \in Session, DeleteSession(s) PROVE UseInv'
  <2>1. /\ sessionStore' = [sessionStore EXCEPT ![s] = Null]
        /\ s \in sweep /\ sweep' = sweep \ {s}
    BY <1>5 DEF DeleteSession
  <2>2. \A q \in Session : q # s => sessionStore'[q] = sessionStore[q]
    BY <2>1 DEF IInv, TypeOK
  <2>3. \A c \in Client : ~Using(c, s)
    <3>1. sessionStore[s].expireAt < 0 /\ s \in Stored
      BY <2>1 DEF UseInv, IInv, TypeOK
    <3>2. sessionStore[s].expireAt \in Int
      BY <3>1, UseTypes
    <3>3. Need(s) \in Nat
      <4>1. Waiting(s) \in SUBSET Client
        BY DEF Waiting
      <4> QED BY <4>1, NeedBound DEF Need
    <3> QED BY <3>1, <3>2, <3>3 DEF UseInv
  <2>4. \A q \in sweep' : sessionStore'[q].expireAt < 0
    BY <2>1, <2>2 DEF UseInv, IInv, TypeOK, Stored
  <2> QED BY <1>1, <2>2, <2>3, <2>4, ClientsStay DEF Stored
<1>6. CASE StartGC
  <2>1. UNCHANGED sessionStore /\ \A q \in sweep' : sessionStore'[q].expireAt < 0
    BY <1>6 DEF StartGC, Expired
  <2> QED BY <1>1, <2>1, ClientsStay DEF Stored
<1> QED BY <1>2, <1>3, <1>4, <1>5, <1>6

\* WithSession: the lookup gives the session a full expiry, enough for all who wait.
LEMMA WithSessionUse ==
  ASSUME IInv, UseInv, UsesFitExpiry, NEW c \in Client, NEW s \in Session, WithSession(c, s)
  PROVE  UseInv'
<1>1. /\ client[c].pc = "idle" /\ s \in Stored /\ sessionStore[s] \in Entry /\ sweep' = {}
      /\ client' = [client EXCEPT ![c] = [pc |-> "lock", sid |-> s, held |-> 0]]
      /\ sessionStore' = [sessionStore EXCEPT ![s] = Touched(sessionStore[s])]
  BY DEF WithSession, Touch, MutexFree, Stored, IInv, TypeOK
<1>2. /\ client'[c] = [pc |-> "lock", sid |-> s, held |-> 0]
      /\ \A d \in Client : d # c => client'[d] = client[d]
  BY <1>1 DEF IInv, TypeOK
<1>3. Touched(sessionStore[s]) \in Entry /\ Touched(sessionStore[s]).expireAt = Expire
  BY <1>1, TouchedType, TouchedExpiry
<1>4. /\ sessionStore'[s].expireAt = Expire /\ s \in Stored'
      /\ \A q \in Session : q # s => sessionStore'[q] = sessionStore[q]
  BY <1>1, <1>3, NullAssumption DEF IInv, TypeOK, Stored
<1>5. ASSUME NEW d \in Client, NEW q \in Session, Using(d, q)'
      PROVE  /\ q \in Stored' /\ sessionStore'[q].expireAt >= Need(q)'
             /\ client'[d].pc = "in" =>
                   sessionStore'[q].expireAt >= Need(q)' + MaxUse - client'[d].held
  <2>1. CASE q = s
    <3> DEFINE W == Waiting(q)'
    <3>1. W \in SUBSET Client /\ (client'[d].pc = "in" => d \notin W)
      BY DEF Waiting
    <3> HIDE DEF W
    <3>2. /\ MaxUse * Cardinality(W) \in Nat /\ MaxUse * Cardinality(W) <= Expire
          /\ client'[d].pc = "in" => MaxUse * Cardinality(W) + MaxUse <= Expire
      BY <3>1, NeedBound
    <3>3. Need(q)' = MaxUse * Cardinality(W)
      BY DEF Need, W
    <3>4. client'[d].held \in Nat /\ MaxUse \in Nat /\ Expire \in Nat
      BY <1>2, UseTypes
    <3> QED BY <1>4, <2>1, <3>2, <3>3, <3>4
  <2>2. CASE q # s
    <3>1. d # c /\ client'[d] = client[d] /\ Using(d, q)
      BY <1>2, <1>5, <2>2 DEF Using
    <3>2. Waiting(q)' = Waiting(q)
      BY <1>1, <1>2, <2>2 DEF Waiting
    <3>3. Need(q)' = Need(q)
      BY <3>2 DEF Need
    <3>4. /\ q \in Stored /\ sessionStore[q].expireAt >= Need(q)
          /\ client[d].pc = "in" => sessionStore[q].expireAt >= Need(q) + MaxUse - client[d].held
      BY <3>1 DEF UseInv
    <3>5. sessionStore'[q] = sessionStore[q] /\ q \in Stored'
      BY <1>4, <2>2, <3>4 DEF Stored
    <3> QED BY <3>1, <3>3, <3>4, <3>5
  <2> QED BY <2>1, <2>2
<1>6. \A d, e \in Client : client'[d].pc = "in" /\ client'[e].pc = "in"
                           /\ client'[d].sid = client'[e].sid => d = e
  BY <1>2 DEF UseInv
<1>7. \A d \in Client : client'[d].held <= MaxUse
                        /\ (client'[d].pc # "idle" => client'[d].sid \in Session)
  BY <1>2, SessionAssumption DEF UseInv
<1> QED BY <1>1, <1>5, <1>6, <1>7 DEF UseInv

\* The one that gets the entry's mutex takes its time with it.
LEMMA LockEntryUse ==
  ASSUME IInv, UseInv, UsesFitExpiry, NEW c \in Client, LockEntry(c)
  PROVE  UseInv'
<1>0. PICK s \in Session : s = client[c].sid
  BY DEF LockEntry, UseInv
<1>1. /\ client[c].pc = "lock" /\ EntryFree(s)
      /\ client' = [client EXCEPT ![c] = [client[c] EXCEPT !.pc = "in"]]
      /\ UNCHANGED <<sessionStore, sweep>>
  BY <1>0 DEF LockEntry
<1>2. /\ client'[c].pc = "in" /\ client'[c].sid = s /\ client'[c].held = client[c].held
      /\ \A d \in Client : d # c => client'[d] = client[d]
  BY <1>0, <1>1, UseTypes DEF IInv, TypeOK
<1>3. Stored' = Stored
  BY <1>1 DEF Stored
<1>4. \A q \in Session : Waiting(q)' = Waiting(q) \ {c}
  BY <1>2 DEF Waiting
<1>5. Need(s) = Need(s)' + MaxUse /\ Need(s)' \in Nat /\ Need(s) \in Nat
  <2> DEFINE W == Waiting(s)
  <2>1. W \in SUBSET Client /\ c \in W
    BY <1>0, <1>1 DEF Waiting
  <2>2. W \ {c} \in SUBSET Client
    BY <2>1
  <2>3. Need(s) = MaxUse * Cardinality(W) /\ Need(s)' = MaxUse * Cardinality(W \ {c})
    BY <1>4 DEF Need
  <2> HIDE DEF W
  <2> QED BY <2>1, <2>2, <2>3, NeedBound, NeedLess
<1>6. \A q \in Session : q # s => Need(q)' = Need(q)
  <2>1. \A q \in Session : q # s => Waiting(q) \ {c} = Waiting(q)
    BY <1>0 DEF Waiting
  <2> QED BY <1>4, <2>1 DEF Need
<1>7. ASSUME NEW d \in Client, NEW q \in Session, Using(d, q)'
      PROVE  /\ q \in Stored' /\ sessionStore'[q].expireAt >= Need(q)'
             /\ client'[d].pc = "in" =>
                   sessionStore'[q].expireAt >= Need(q)' + MaxUse - client'[d].held
  <2>1. Using(d, q)
    BY <1>0, <1>1, <1>2, <1>7 DEF Using
  <2>2. /\ q \in Stored /\ sessionStore[q].expireAt >= Need(q)
        /\ client[d].pc = "in" => sessionStore[q].expireAt >= Need(q) + MaxUse - client[d].held
    BY <2>1 DEF UseInv
  <2>3. sessionStore[q].expireAt \in Int /\ client[d].held \in Nat /\ MaxUse \in Nat
    BY <2>2, UseTypes
  <2>4. CASE q = s
    <3>1. d # c => client[d].pc # "in"
      BY <1>1, <2>1, <2>4 DEF EntryFree, Using
    <3> QED BY <1>1, <1>2, <1>3, <1>5, <2>2, <2>3, <2>4, <3>1
  <2>5. CASE q # s
    <3>1. d # c
      BY <1>2, <1>7, <2>5 DEF Using
    <3> QED BY <1>1, <1>2, <1>3, <1>6, <2>2, <2>5, <3>1
  <2> QED BY <2>4, <2>5
<1>8. \A d, e \in Client : client'[d].pc = "in" /\ client'[e].pc = "in"
                           /\ client'[d].sid = client'[e].sid => d = e
  BY <1>0, <1>1, <1>2 DEF UseInv, EntryFree
<1>9. \A d \in Client : client'[d].held <= MaxUse
                        /\ (client'[d].pc # "idle" => client'[d].sid \in Session)
  BY <1>2, <1>3 DEF UseInv
<1>10. \A q \in sweep' : sessionStore'[q].expireAt < 0
  BY <1>1 DEF UseInv
<1> QED BY <1>7, <1>8, <1>9, <1>10 DEF UseInv

\* A callback that returns leaves the others as they are.
LEMMA UnlockUse ==
  ASSUME IInv, UseInv, UsesFitExpiry, NEW c \in Client, Unlock(c)
  PROVE  UseInv'
<1>1. /\ client[c].pc = "in" /\ client' = [client EXCEPT ![c] = Outside]
      /\ UNCHANGED <<sessionStore, sweep>>
  BY DEF Unlock
<1>2. /\ client'[c] = Outside
      /\ \A d \in Client : d # c => client'[d] = client[d]
  BY <1>1 DEF IInv, TypeOK
<1>3. \A q : Waiting(q)' = Waiting(q) /\ Need(q)' = Need(q)
  <2>1. \A q : Waiting(q)' = Waiting(q)
    BY <1>1, <1>2 DEF Waiting, Outside
  <2> QED BY <2>1 DEF Need
<1>4. \A d \in Client, q \in Session : Using(d, q)' => Using(d, q) /\ d # c
  BY <1>2 DEF Using, Outside
<1>5. Stored' = Stored
  BY <1>1 DEF Stored
<1>6. Outside.held <= MaxUse /\ Outside.pc = "idle"
  BY SessionAssumption DEF Outside
<1> QED BY <1>1, <1>2, <1>3, <1>4, <1>5, <1>6 DEF UseInv

\* Time passes for a session in use only while some callback runs in it, and for that one
\* as much is left as before.
LEMMA TickUse ==
  ASSUME IInv, UseInv, UsesFitExpiry, Tick
  PROVE  UseInv'
<1>1. /\ sweep' = {}
      /\ \A c \in Client : /\ client[c].pc = "in" => client[c].held < MaxUse
                           /\ client[c].pc = "lock" => ~EntryFree(client[c].sid)
      /\ \A s \in Session : sessionStore'[s] = IF sessionStore[s] = Null THEN Null
                                                ELSE Elapsed(sessionStore[s])
      /\ \A c \in Client : client'[c] = IF client[c].pc = "in"
                                           THEN [client[c] EXCEPT !.held = @ + 1] ELSE client[c]
  BY DEF Tick, MutexFree
<1>2. \A c \in Client :
         /\ client'[c].pc = client[c].pc /\ client'[c].sid = client[c].sid
         /\ client'[c].held = IF client[c].pc = "in" THEN client[c].held + 1 ELSE client[c].held
  BY <1>1, UseTypes
<1>3. \A q : Waiting(q)' = Waiting(q) /\ Need(q)' = Need(q)
  BY <1>2 DEF Waiting, Need
<1>4. ASSUME NEW s \in Stored
      PROVE  /\ s \in Stored'
             /\ sessionStore'[s].expireAt = IF sessionStore[s].expireAt < 0
                                               THEN sessionStore[s].expireAt
                                               ELSE sessionStore[s].expireAt - 1
  <2>1. sessionStore[s] \in Entry /\ sessionStore'[s] = Elapsed(sessionStore[s])
    BY <1>1, UseTypes DEF Stored
  <2>2. /\ Elapsed(sessionStore[s]) \in Entry
        /\ Elapsed(sessionStore[s]).expireAt = IF sessionStore[s].expireAt < 0
                                                  THEN sessionStore[s].expireAt
                                                  ELSE sessionStore[s].expireAt - 1
    BY <2>1 DEF Elapsed, Entry
  <2> QED BY <2>1, <2>2, NullAssumption DEF Stored
<1>5. ASSUME NEW c \in Client, NEW s \in Session, Using(c, s)
      PROVE  \E d \in Client : client[d].pc = "in" /\ client[d].sid = s /\ Using(d, s)
                               /\ (client[c].pc = "in" => c = d)
  BY <1>1, <1>5, UseTypes DEF Using, EntryFree
<1>6. ASSUME NEW c \in Client, NEW s \in Session, Using(c, s)
      PROVE  /\ s \in Stored' /\ sessionStore'[s].expireAt >= Need(s)
             /\ client[c].pc = "in" =>
                   sessionStore'[s].expireAt >= Need(s) + MaxUse - client'[c].held
  <2>1. PICK d \in Client : client[d].pc = "in" /\ Using(d, s) /\ (client[c].pc = "in" => c = d)
    BY <1>5, <1>6
  <2>2. s \in Stored /\ sessionStore[s].expireAt >= Need(s) + MaxUse - client[d].held
    BY <2>1 DEF UseInv
  <2>3. client[d].held < MaxUse /\ client'[d].held = client[d].held + 1
    BY <1>1, <1>2, <2>1
  <2>4. /\ sessionStore[s].expireAt \in Int /\ client[d].held \in Nat /\ MaxUse \in Nat
    BY <2>2, UseTypes
  <2>5. Need(s) \in Nat
    <3>1. Waiting(s) \in SUBSET Client
      BY DEF Waiting
    <3> QED BY <3>1, NeedBound DEF Need
  <2>6. sessionStore'[s].expireAt = sessionStore[s].expireAt - 1 /\ s \in Stored'
    BY <1>4, <2>2, <2>3, <2>4, <2>5
  <2> QED BY <2>1, <2>2, <2>3, <2>4, <2>5, <2>6
<1>7. \A c \in Client : client'[c].held <= MaxUse
  BY <1>1, <1>2, UseTypes DEF UseInv
<1>8. \A c \in Client, s \in Session : Using(c, s)' <=> Using(c, s)
  BY <1>2 DEF Using
<1> QED BY <1>1, <1>2, <1>3, <1>6, <1>7, <1>8 DEF UseInv

\* The collector closes no session inside a WithSession callback, though it does not take the
\* entry's mutex, provided the callbacks of all goroutines together fit in an expiry
\* (getStickySessionEntry, WithSession, mayDeleteSession).
THEOREM NoSessionClosedInUse == Spec /\ UsesFitExpiry => []NotClosedInUse
<1> SUFFICES ASSUME UsesFitExpiry PROVE Spec => []NotClosedInUse
  OBVIOUS
<1>1. Init => UseInv
  <2> SUFFICES ASSUME Init PROVE UseInv OBVIOUS
  <2> QED BY SessionAssumption DEF Init, UseInv, Using, Outside
<1>2. IInv /\ UseInv /\ [Next]_vars => UseInv'
  <2> SUFFICES ASSUME IInv, UseInv, [Next]_vars PROVE UseInv' OBVIOUS
  <2>1. CASE UNCHANGED vars
    BY <2>1, ClientsStay DEF vars, Stored, UseInv
  <2>2. CASE \E p \in Slot, g \in Group : \E u \in UseResource[g] : DequeueCreate(p, g, u)
    <3>1. UNCHANGED <<client, sessionStore, sweep>>
      BY <2>2 DEF DequeueCreate
    <3> QED BY <3>1, ClientsStay DEF Stored, UseInv
  <2> QED BY <2>1, <2>2, StoreUse, WithSessionUse, LockEntryUse, UnlockUse, TickUse DEF Next
<1>3. UseInv => NotClosedInUse
  BY DEF UseInv, Using, NotClosedInUse
<1> QED BY <1>1, <1>2, <1>3, InitIInv, NextIInv, PTL DEF Spec
=============================================================================
