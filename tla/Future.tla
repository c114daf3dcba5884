------------------------------- MODULE Future -------------------------------
(***************************************************************************)
(* Future of typedhandler_job_go.go: a result that several goroutines may  *)
(* try to deliver (returns), on which callbacks are registered (Then,      *)
(* Catch, Finally) before, while and after it is delivered, and for which  *)
(* others block (Await).  The mutex makes a registration and the first     *)
(* half of returns atomic; closing the channel and calling the callbacks   *)
(* happen after it is released.  The order of callbacks in a list is       *)
(* abstracted: a list is the set of callbacks in it.                       *)
(***************************************************************************)
EXTENDS Naturals

CONSTANTS
    Callback,   \* functions given to Then, Catch or Finally, each once
    Kind,       \* Kind[f]: the method f is given to
    Deliverer,  \* goroutines that call returns, each once
    Waiter,     \* goroutines that call Await
    Null

ASSUME FutureAssumption ==
    /\ Kind \in [Callback -> {"then", "catch", "finally"}]
    /\ Null \notin {"ok", "err"}

VARIABLES
    doneOk,     \* the future is resolved
    result,     \* "ok" or "err" (f.err # nil), Null before
    closed,     \* close(f.done) calls
    listed,     \* callbacks in thenFns, catchFns and finallyFns
    spawned,    \* callbacks handed to a goroutine of their own (go fn)
    deliverer,  \* Deliverer -> [pc, todo]: todo is the callbacks left to call
    waiter,     \* Waiter -> the result Await returned, Null until then
    called      \* Callback -> number of calls

vars == <<doneOk, result, closed, listed, spawned, deliverer, waiter, called>>

\* The callbacks a resolution with r is for.
Wanted(r) == {f \in Callback : \/ Kind[f] = "finally"
                               \/ Kind[f] = "then" /\ r = "ok"
                               \/ Kind[f] = "catch" /\ r = "err"}

(***************************************************************************)
(* Registration                                                            *)
(***************************************************************************)
\* f was not given to the future yet.
Fresh(f) == f \notin listed /\ f \notin spawned /\ called[f] = 0

\* Mutant: the state is not looked at under the lock.
AlreadyForLate(f) == FALSE

\* The future is resolved in the way f waits for.
AlreadyFor(f) == doneOk /\ f \in Wanted(result)

\* Then, Catch, Finally: at once in a new goroutine, or listed.
Register(f) ==
    /\ Fresh(f)
    /\ IF AlreadyFor(f)
         THEN spawned' = spawned \cup {f} /\ UNCHANGED listed
         ELSE listed' = listed \cup {f} /\ UNCHANGED spawned
    /\ UNCHANGED <<doneOk, result, closed, deliverer, waiter, called>>

RunSpawned(f) ==
    /\ f \in spawned
    /\ spawned' = spawned \ {f}
    /\ called' = [called EXCEPT ![f] = @ + 1]
    /\ UNCHANGED <<doneOk, result, closed, listed, deliverer, waiter>>

(***************************************************************************)
(* returns                                                                 *)
(***************************************************************************)
\* Mutant: a second delivery is not turned away.
TurnedAwayNever == FALSE

TurnedAway == doneOk

\* Under the lock: the first delivery resolves the future and copies the lists,
\* which keep their content; a later one returns.
Deliver(d, r) ==
    /\ deliverer[d].pc = "start"
    /\ IF TurnedAway
         THEN /\ deliverer' = [deliverer EXCEPT ![d].pc = "end"]
              /\ UNCHANGED <<doneOk, result>>
         ELSE /\ doneOk' = TRUE
              /\ result' = r
              /\ deliverer' = [deliverer EXCEPT ![d] =
                                 [pc |-> "close", todo |-> listed \cap Wanted(r)]]
    /\ UNCHANGED <<closed, listed, spawned, waiter, called>>

Close(d) ==
    /\ deliverer[d].pc = "close"
    /\ closed' = closed + 1
    /\ deliverer' = [deliverer EXCEPT ![d].pc = "run"]
    /\ UNCHANGED <<doneOk, result, listed, spawned, waiter, called>>

\* The then or catch callbacks first, the finally callbacks last.
Ready(d) == LET first == {f \in deliverer[d].todo : Kind[f] # "finally"}
            IN  IF first # {} THEN first ELSE deliverer[d].todo

RunListed(d) ==
    /\ deliverer[d].pc = "run"
    /\ \/ \E f \in Ready(d) :
             /\ deliverer' = [deliverer EXCEPT ![d].todo = @ \ {f}]
             /\ called' = [called EXCEPT ![f] = @ + 1]
       \/ /\ deliverer[d].todo = {}
          /\ deliverer' = [deliverer EXCEPT ![d].pc = "end"]
          /\ UNCHANGED called
    /\ UNCHANGED <<doneOk, result, closed, listed, spawned, waiter>>

(***************************************************************************)
(* Await                                                                   *)
(***************************************************************************)
\* Blocks until the channel is closed, then reads the result without the lock.
Await(w) ==
    /\ waiter[w] = Null
    /\ closed > 0
    /\ waiter' = [waiter EXCEPT ![w] = result]
    /\ UNCHANGED <<doneOk, result, closed, listed, spawned, deliverer, called>>

Init ==
    /\ doneOk = FALSE
    /\ result = Null
    /\ closed = 0
    /\ listed = {}
    /\ spawned = {}
    /\ deliverer = [d \in Deliverer |-> [pc |-> "start", todo |-> {}]]
    /\ waiter = [w \in Waiter |-> Null]
    /\ called = [f \in Callback |-> 0]

DelivererStep(d) ==
    \/ \E r \in {"ok", "err"} : Deliver(d, r)
    \/ Close(d)
    \/ RunListed(d)

Next ==
    \/ \E f \in Callback : Register(f) \/ RunSpawned(f)
    \/ \E d \in Deliverer : DelivererStep(d)
    \/ \E w \in Waiter : Await(w)

Spec == Init /\ [][Next]_vars

\* Goroutines that can run do run; registering and waiting are up to the user.
FairSpec ==
    /\ Spec
    /\ \A d \in Deliverer : WF_vars(DelivererStep(d))
    /\ \A f \in Callback : WF_vars(RunSpawned(f))
    /\ \A w \in Waiter : WF_vars(Await(w))

(***************************************************************************)
(* Properties                                                              *)
(***************************************************************************)
TypeOK ==
    /\ doneOk \in BOOLEAN
    /\ result \in {"ok", "err", Null}
    /\ closed \in Nat
    /\ listed \subseteq Callback
    /\ spawned \subseteq Callback
    /\ deliverer \in [Deliverer -> [pc : {"start", "close", "run", "end"},
                                    todo : SUBSET Callback]]
    /\ waiter \in [Waiter -> {"ok", "err", Null}]
    /\ called \in [Callback -> Nat]

\* However registrations and deliveries interleave, no callback is called twice
\* and none of the kind the resolution is not for is called; done is closed at
\* most once (a second close panics).
AtMostOnce ==
    /\ closed <= 1
    /\ \A f \in Callback : /\ called[f] <= 1
                           /\ called[f] = 1 => doneOk /\ f \in Wanted(result)

\* Every Await returns the one result the future was resolved with, even though
\* it reads the fields without the lock and later deliveries may still arrive.
AwaitAgrees ==
    /\ closed > 0 => result # Null
    /\ \A w \in Waiter : waiter[w] # Null => waiter[w] = result

\* A callback the resolution is for is called, whenever it was registered.
CallbackRuns ==
    \A f \in Callback :
        (doneOk /\ f \in Wanted(result) /\ ~Fresh(f)) ~> called[f] = 1
=============================================================================
