------------------------------ MODULE TimeWheel ------------------------------
(***************************************************************************)
(* internal/timewheel: a ring of slots, each a list of tasks, of which a   *)
(* tick looks at one.  Heartbeats, the reaper, the session collector, the  *)
(* polls of Wait and the flush timers of Redis streams are its tasks.      *)
(* A slot's order does not matter (every task is started on its own        *)
(* goroutine) and is left out.  A task object that is gone and that nobody *)
(* runs may be allocated again.                                            *)
(***************************************************************************)
EXTENDS Integers

CONSTANTS
    SlotCount,  \* len(w.slots)
    Task,       \* task objects
    Delay,      \* the delays in use, in half ticks (a delay need not be a multiple)
    Null

ASSUME TimeWheelAssumption ==
    /\ SlotCount \in Nat \ {0}
    /\ Delay \subseteq Nat

TaskRecord == [idx : 0..(SlotCount - 1), rounds : Nat, delay : Delay, canceled : BOOLEAN]

ASSUME TaskAssumption == Null \notin TaskRecord /\ Null \notin Nat

VARIABLES
    slots,    \* Task -> its record and the slot it is in, or Null
    current,  \* the slot the next tick looks at
    running   \* Task -> delay of the task whose function runs, or Null

vars == <<slots, current, running>>

Tasks == {t \in Task : slots[t] # Null}
Free(t) == slots[t] = Null /\ running[t] = Null

\* int(delay / tickInterval), at least 1 for a delay above 0.
Ticks(delay) == IF delay \div 2 < 1 /\ delay > 0 THEN 1 ELSE delay \div 2

\* Mutant: off by one in the number of turns.
TaskOfEarly(delay) ==
    [idx |-> (current + Ticks(delay)) % SlotCount,
     rounds |-> (Ticks(delay) - 1) \div SlotCount, delay |-> delay, canceled |-> FALSE]

\* addTaskLocked
TaskOf(delay) ==
    [idx |-> (current + Ticks(delay)) % SlotCount, rounds |-> Ticks(delay) \div SlotCount,
     delay |-> delay, canceled |-> FALSE]

Add(t, delay) ==
    /\ Free(t)
    /\ slots' = [slots EXCEPT ![t] = TaskOf(delay)]
    /\ UNCHANGED <<current, running>>

\* Only marks the object: it stays in its slot until a tick looks at it, and a
\* task that fired meanwhile, or its successor, does not notice.
Cancel(t) ==
    /\ slots[t] # Null
    /\ slots' = [slots EXCEPT ![t].canceled = TRUE]
    /\ UNCHANGED <<current, running>>

\* Cancel, then Add of the same function as a new task.
Reset(t, u, delay) ==
    /\ slots[t] # Null /\ t # u /\ Free(u)
    /\ slots' = [slots EXCEPT ![t].canceled = TRUE, ![u] = TaskOf(delay)]
    /\ UNCHANGED <<current, running>>

\* The tasks of the current slot that fire.
Fires(t) == /\ slots[t] # Null /\ slots[t].idx = current
            /\ ~slots[t].canceled /\ slots[t].rounds = 0

\* Mutant: a cancelled task is skipped and left in its slot.
AfterTickSkipped(t) ==
    IF slots[t] = Null \/ slots[t].idx # current \/ slots[t].canceled THEN slots[t]
    ELSE IF slots[t].rounds = 0 THEN Null
    ELSE [slots[t] EXCEPT !.rounds = @ - 1]

\* What a tick leaves of a task.
AfterTick(t) ==
    IF slots[t] = Null \/ slots[t].idx # current THEN slots[t]
    ELSE IF slots[t].canceled \/ slots[t].rounds = 0 THEN Null
    ELSE [slots[t] EXCEPT !.rounds = @ - 1]

Tick ==
    /\ slots' = [t \in Task |-> AfterTick(t)]
    /\ running' = [t \in Task |-> IF Fires(t) THEN slots[t].delay ELSE running[t]]
    /\ current' = (current + 1) % SlotCount

\* task.fn() returns false.
Return(t) ==
    /\ running[t] # Null
    /\ running' = [running EXCEPT ![t] = Null]
    /\ UNCHANGED <<slots, current>>

\* task.fn() returns true: w.Add(task.delay, task.fn) makes a new task.
AddAgain(t, u) ==
    /\ running[t] # Null
    /\ Free(u)
    /\ running' = [running EXCEPT ![t] = Null]
    /\ slots' = [slots EXCEPT ![u] = TaskOf(running[t])]
    /\ UNCHANGED current

Init ==
    /\ slots = [t \in Task |-> Null]
    /\ current = 0
    /\ running = [t \in Task |-> Null]

Next ==
    \/ \E t \in Task : (\E d \in Delay : Add(t, d)) \/ Cancel(t) \/ Return(t)
    \/ \E t, u \in Task : AddAgain(t, u) \/ \E d \in Delay : Reset(t, u, d)
    \/ Tick

Spec == Init /\ [][Next]_vars

\* The wheel's loop keeps ticking.
FairSpec == Spec /\ WF_vars(Tick)

(***************************************************************************)
(* Properties                                                              *)
(***************************************************************************)
\* Ticks until a task in the wheel is started: whole turns, and the way from the
\* current slot to its own.
Distance(t) ==
    slots[t].rounds * SlotCount
    + (IF slots[t].idx >= current THEN slots[t].idx - current
       ELSE slots[t].idx - current + SlotCount)

\* The waiting timers of the abstract specification: a cancelled task is gone.
Waiting == [t \in Task |-> IF slots[t] = Null \/ slots[t].canceled THEN Null ELSE Distance(t)]

T == INSTANCE Timers WITH remaining <- Waiting,
                          running <- {t \in Task : running[t] # Null},
                          Delay <- {Ticks(d) : d \in Delay}

\* The ring with its rounds and lazily dropped tasks behaves like plain timers:
\* each is called at its time for every current slot and number of turns.
ImplementsTimers == T!Spec

\* A cancelled task does not stay in the ring for ever: its slot comes round.
CanceledDropped ==
    \A t \in Task : slots[t] # Null /\ slots[t].canceled ~> slots[t] = Null
=============================================================================
