--------------------------- MODULE Future_proofs ---------------------------
(***************************************************************************)
(* Proofs about Future for any number of callbacks, deliveries and         *)
(* waiters: whatever the order of registrations and deliveries, one        *)
(* delivery wins, every callback is called at most once, and every Await   *)
(* returns the winner's result.                                            *)
(***************************************************************************)
EXTENDS Future, TLAPS

Results == {"ok", "err"}

\* Between its critical section of returns and the end of its callbacks.
Resolving(d) == deliverer[d].pc \in {"close", "run"}

\* Nothing has happened before the first delivery but registrations.
Unresolved ==
    ~doneOk => /\ result = Null /\ closed = 0 /\ spawned = {}
               /\ \A f \in Callback : called[f] = 0
               /\ \A d \in Deliverer : deliverer[d].pc = "start"

\* At most one delivery resolves, and it closes the channel once.
OneResolver ==
    /\ doneOk => result \in Results
    /\ closed <= 1
    /\ \A d \in Deliverer : deliverer[d].pc = "close" => closed = 0
    /\ \A d, e \in Deliverer : Resolving(d) /\ Resolving(e) => d = e

\* A callback that is still to be called is in one place and was not called.
OnePlace ==
    /\ \A d \in Deliverer : deliverer[d].todo # {} => Resolving(d)
    /\ \A d \in Deliverer : \A f \in deliverer[d].todo :
          f \in listed /\ f \in Wanted(result) /\ called[f] = 0
    /\ \A f \in spawned : f \notin listed /\ f \in Wanted(result) /\ called[f] = 0

\* The inductive invariant.
IInv == TypeOK /\ Unresolved /\ OneResolver /\ OnePlace /\ AtMostOnce /\ AwaitAgrees

\* Init establishes the invariant.
LEMMA InitIInv == Init => IInv
<1> SUFFICES ASSUME Init PROVE IInv OBVIOUS
<1> USE DEF Init
<1>1. TypeOK
  BY DEF TypeOK
<1>2. Unresolved /\ OneResolver
  BY DEF Unresolved, OneResolver, Resolving
<1>3. OnePlace
  BY DEF OnePlace
<1>4. AtMostOnce /\ AwaitAgrees
  BY DEF AtMostOnce, AwaitAgrees
<1> QED BY <1>1, <1>2, <1>3, <1>4 DEF IInv

\* What Wanted holds are callbacks.
LEMMA WantedType == \A r : Wanted(r) \subseteq Callback
  BY DEF Wanted

\* Then, Catch and Finally keep the invariant: a callback given to a resolved
\* future is handed to a goroutine and is on no list a delivery still walks.
LEMMA RegisterKeeps ==
  ASSUME IInv, NEW f \in Callback, Register(f)
  PROVE  IInv'
<1> USE DEF IInv, TypeOK, Register, Fresh, AlreadyFor, Resolving
<1>1. TypeOK' OBVIOUS
<1>2. Unresolved'
  BY DEF Unresolved
<1>3. OneResolver'
  BY DEF OneResolver
<1>4. OnePlace'
  BY DEF OnePlace
<1>5. AtMostOnce'
  BY DEF AtMostOnce
<1>6. AwaitAgrees'
  BY DEF AwaitAgrees
<1> QED BY <1>1, <1>2, <1>3, <1>4, <1>5, <1>6

\* The goroutine of a late callback calls it for the first time.
LEMMA RunSpawnedKeeps ==
  ASSUME IInv, NEW f \in Callback, RunSpawned(f)
  PROVE  IInv'
<1> USE DEF IInv, TypeOK, RunSpawned, Resolving
<1>1. TypeOK' OBVIOUS
<1>2. Unresolved'
  BY DEF Unresolved
<1>3. OneResolver'
  BY DEF OneResolver
<1>4. OnePlace'
  BY DEF OnePlace
<1>5. AtMostOnce'
  BY DEF AtMostOnce, OnePlace, Unresolved
<1>6. AwaitAgrees'
  BY DEF AwaitAgrees
<1> QED BY <1>1, <1>2, <1>3, <1>4, <1>5, <1>6

\* The critical section of returns: a second delivery changes nothing, the first
\* finds every other deliverer at its start.
LEMMA DeliverKeeps ==
  ASSUME IInv, NEW d \in Deliverer, NEW r \in Results, Deliver(d, r)
  PROVE  IInv'
<1> USE DEF IInv, TypeOK, Resolving, Results
<1>1. CASE TurnedAway
  BY <1>1 DEF Deliver, Unresolved, OneResolver, OnePlace, AtMostOnce, AwaitAgrees, TurnedAway,
              Wanted
<1>2. CASE ~TurnedAway
  <2>1. /\ ~doneOk /\ doneOk' /\ result' = r
        /\ deliverer' = [deliverer EXCEPT ![d] =
                           [pc |-> "close", todo |-> listed \cap Wanted(r)]]
        /\ UNCHANGED <<closed, listed, spawned, waiter, called>>
    BY <1>2 DEF Deliver, TurnedAway
  <2>2. TypeOK'
    BY <1>2, <2>1, WantedType DEF Deliver
  <2>3. Unresolved' /\ OneResolver'
    BY <2>1 DEF Unresolved, OneResolver
  <2>4. OnePlace'
    <3>1. \A e \in Deliverer \ {d} : deliverer'[e].todo = {}
      BY <2>1 DEF OnePlace, Unresolved
    <3>2. deliverer'[d].todo = listed \cap Wanted(r) /\ Resolving(d)'
      BY <2>1
    <3> QED BY <2>1, <3>1, <3>2, WantedType DEF OnePlace, Unresolved
  <2>5. AtMostOnce'
    BY <2>1 DEF AtMostOnce, Unresolved
  <2>6. AwaitAgrees'
    BY <2>1, FutureAssumption DEF AwaitAgrees, Unresolved
  <2> QED BY <2>2, <2>3, <2>4, <2>5, <2>6
<1> QED BY <1>1, <1>2

\* Closing the channel is reached by the resolver alone, once.
LEMMA CloseKeeps ==
  ASSUME IInv, NEW d \in Deliverer, Close(d)
  PROVE  IInv'
<1> USE DEF IInv, TypeOK, Close, Resolving
<1>1. TypeOK' OBVIOUS
<1>2. Unresolved'
  BY DEF Unresolved
<1>3. OneResolver'
  BY DEF OneResolver
<1>4. OnePlace'
  BY DEF OnePlace
<1>5. AtMostOnce'
  BY DEF AtMostOnce, OneResolver
<1>6. AwaitAgrees'
  BY FutureAssumption DEF AwaitAgrees, OneResolver, Unresolved, Results
<1> QED BY <1>1, <1>2, <1>3, <1>4, <1>5, <1>6

\* The resolver's walk over its lists calls each callback for the first time.
LEMMA RunListedKeeps ==
  ASSUME IInv, NEW d \in Deliverer, RunListed(d)
  PROVE  IInv'
<1> USE DEF IInv, TypeOK, Resolving
<1>1. CASE /\ deliverer[d].todo = {}
           /\ deliverer' = [deliverer EXCEPT ![d].pc = "end"]
           /\ UNCHANGED called
  BY <1>1 DEF RunListed, Unresolved, OneResolver, OnePlace, AtMostOnce, AwaitAgrees
<1>2. ASSUME NEW f \in Ready(d),
             deliverer' = [deliverer EXCEPT ![d].todo = @ \ {f}],
             called' = [called EXCEPT ![f] = @ + 1]
      PROVE  IInv'
  <2>1. /\ f \in deliverer[d].todo /\ f \in Callback
        /\ deliverer[d].pc = "run"
        /\ UNCHANGED <<doneOk, result, closed, listed, spawned, waiter>>
    BY <1>2 DEF RunListed, Ready
  <2>2. TypeOK'
    BY <1>2, <2>1
  <2>3. doneOk /\ f \in listed /\ f \in Wanted(result) /\ called[f] = 0
    BY <2>1 DEF Unresolved, OnePlace
  <2>4. Unresolved' /\ OneResolver'
    BY <1>2, <2>1, <2>3 DEF Unresolved, OneResolver
  <2>5. OnePlace'
    <3>1. \A e \in Deliverer : deliverer'[e].todo # {} => Resolving(e)'
      BY <1>2, <2>1 DEF OnePlace
    <3>2. \A e \in Deliverer : f \notin deliverer'[e].todo
      BY <1>2, <2>1 DEF OnePlace, OneResolver
    <3>3. \A e \in Deliverer : deliverer'[e].todo \subseteq deliverer[e].todo
      BY <1>2, <2>1
    <3>4. \A g \in Callback : g # f => called'[g] = called[g]
      BY <1>2, <2>1
    <3>5. f \notin spawned
      BY <2>3 DEF OnePlace
    <3> QED BY <2>1, <3>1, <3>2, <3>3, <3>4, <3>5 DEF OnePlace, Wanted
  <2>6. AtMostOnce' /\ AwaitAgrees'
    BY <1>2, <2>1, <2>3 DEF AtMostOnce, AwaitAgrees
  <2> QED BY <2>2, <2>4, <2>5, <2>6
<1> QED BY <1>1, <1>2 DEF RunListed

\* Await reads the result after the close, when it no longer changes.
LEMMA AwaitKeeps ==
  ASSUME IInv, NEW w \in Waiter, Await(w)
  PROVE  IInv'
  BY DEF IInv, TypeOK, Await, Unresolved, OneResolver, Resolving, OnePlace, AtMostOnce,
         AwaitAgrees, Wanted

\* Every step keeps the invariant.
LEMMA NextIInv == IInv /\ [Next]_vars => IInv'
<1> SUFFICES ASSUME IInv, [Next]_vars PROVE IInv' OBVIOUS
<1>1. CASE UNCHANGED vars
  BY <1>1 DEF vars, IInv, TypeOK, Unresolved, OneResolver, Resolving, OnePlace,
              AtMostOnce, AwaitAgrees, Wanted
<1>2. ASSUME NEW f \in Callback, Register(f) \/ RunSpawned(f) PROVE IInv'
  BY <1>2, RegisterKeeps, RunSpawnedKeeps
<1>3. ASSUME NEW d \in Deliverer, DelivererStep(d) PROVE IInv'
  BY <1>3, DeliverKeeps, CloseKeeps, RunListedKeeps DEF DelivererStep, Results
<1>4. ASSUME NEW w \in Waiter, Await(w) PROVE IInv'
  BY <1>4, AwaitKeeps
<1> QED BY <1>1, <1>2, <1>3, <1>4 DEF Next

\* Registrations and racing deliveries never call a callback twice, never call
\* one the resolution is not for and never close the channel twice (returns,
\* Then, Catch, Finally).
THEOREM CallbacksAtMostOnce == Spec => []AtMostOnce
<1>1. IInv => AtMostOnce
  BY DEF IInv
<1> QED BY <1>1, InitIInv, NextIInv, PTL DEF Spec

\* All calls of Await return the same result, the one of the delivery that won,
\* though Await reads it without the lock.
THEOREM AwaitReturnsTheResult == Spec => []AwaitAgrees
<1>1. IInv => AwaitAgrees
  BY DEF IInv
<1> QED BY <1>1, InitIInv, NextIInv, PTL DEF Spec
=============================================================================
