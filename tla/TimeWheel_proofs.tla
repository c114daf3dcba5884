-------------------------- MODULE TimeWheel_proofs --------------------------
(***************************************************************************)
(* The time wheel implements plain timers, for every number of slots, set  *)
(* of delays and number of tasks.                                          *)
(***************************************************************************)
EXTENDS TimeWheel, TLAPS

N == SlotCount

\* The way round the ring from slot c to slot i.
Way(i, c) == IF i >= c THEN i - c ELSE i - c + N

(***************************************************************************)
(* Arithmetic of the ring                                                  *)
(***************************************************************************)
\* Quotient and remainder are unique.
LEMMA Unique ==
  ASSUME NEW a \in Int, NEW b \in 0..(N - 1), NEW c \in Int, NEW d \in 0..(N - 1),
         N * a + b = N * c + d
  PROVE  a = c /\ b = d
<1> USE TimeWheelAssumption DEF N
<1>1. N * (a - c) = d - b
  OBVIOUS
<1>2. ASSUME a > c PROVE FALSE
  <2>1. a - c >= 1 BY <1>2
  <2>2. N * (a - c) >= N BY <2>1
  <2> QED BY <1>1, <2>2
<1>3. ASSUME a < c PROVE FALSE
  <2>1. c - a >= 1 BY <1>3
  <2>2. N * (c - a) >= N BY <2>1
  <2>3. N * (c - a) = b - d BY <1>1
  <2> QED BY <2>2, <2>3
<1> QED BY <1>1, <1>2, <1>3

\* Division of a natural number by the number of slots.
LEMMA Division ==
  ASSUME NEW x \in Nat
  PROVE  /\ x \div N \in Nat
         /\ x % N \in 0..(N - 1)
         /\ x = N * (x \div N) + (x % N)
  BY TimeWheelAssumption DEF N

\* The index and the rounds addTaskLocked computes are the ticks of the delay.
LEMMA AddDistance ==
  ASSUME NEW c \in 0..(N - 1), NEW k \in Nat
  PROVE  (k \div N) * N + Way((c + k) % N, c) = k
<1> USE TimeWheelAssumption DEF N
<1> DEFINE q == k \div N
           m == k % N
           p == (c + k) \div N
           i == (c + k) % N
<1>1. q \in Nat /\ m \in 0..(N - 1) /\ k = N * q + m
  BY Division
<1>2. p \in Nat /\ i \in 0..(N - 1) /\ c + k = N * p + i
  BY Division
<1> HIDE DEF q, m, p, i
<1>3. CASE c + m < N
  <2>1. c + m \in 0..(N - 1) /\ N * p + i = N * q + (c + m)
    BY <1>1, <1>2, <1>3
  <2>2. i = c + m
    BY <1>1, <1>2, <2>1, Unique
  <2> QED BY <1>1, <2>2 DEF Way, q, i
<1>4. CASE c + m >= N
  <2>1. (c + m) - N \in 0..(N - 1)
    BY <1>1, <1>4
  <2>2. N * (q + 1) = N * q + N
    BY <1>1
  <2>3. N * p + i = N * (q + 1) + ((c + m) - N)
    BY <1>1, <1>2, <2>2
  <2>4. i = (c + m) - N
    <3> DEFINE a == q + 1
               b == (c + m) - N
    <3>1. /\ p \in Int /\ i \in 0..(N - 1) /\ a \in Int /\ b \in 0..(N - 1)
          /\ N * p + i = N * a + b
      BY <1>1, <1>2, <2>1, <2>3
    <3> HIDE DEF a, b
    <3>2. i = b
      BY <3>1, Unique, SMT
    <3> QED BY <3>2 DEF b
  <2> QED BY <1>1, <2>4 DEF Way, q, i
<1> QED BY <1>1, <1>3, <1>4

\* The slot after the last is the first.
LEMMA NextSlot ==
  ASSUME NEW c \in 0..(N - 1)
  PROVE  (c + 1) % N = IF c + 1 = N THEN 0 ELSE c + 1
<1> USE TimeWheelAssumption DEF N
<1>1. /\ (c + 1) \div N \in Nat /\ (c + 1) % N \in 0..(N - 1)
      /\ c + 1 = N * ((c + 1) \div N) + ((c + 1) % N)
  BY Division
<1>2. CASE c + 1 = N
  <2>1. N * ((c + 1) \div N) + ((c + 1) % N) = N * 1 + 0
    BY <1>1, <1>2
  <2> QED BY <1>1, <1>2, <2>1, Unique
<1>3. CASE c + 1 < N
  <2>1. N * ((c + 1) \div N) + ((c + 1) % N) = N * 0 + (c + 1)
    BY <1>1
  <2> QED BY <1>1, <1>3, <2>1, Unique
<1> QED BY <1>2, <1>3

\* A tick brings every slot but the current one nearer; the current one is a turn
\* away afterwards.
LEMMA TickWay ==
  ASSUME NEW c \in 0..(N - 1), NEW i \in 0..(N - 1)
  PROVE  Way(i, (c + 1) % N) = IF i = c THEN N - 1 ELSE Way(i, c) - 1
  BY NextSlot, TimeWheelAssumption DEF Way, N

(***************************************************************************)
(* The inductive invariant and the refinement                              *)
(***************************************************************************)
\* The records, and a current slot that exists.
TypeOK ==
    /\ slots \in [Task -> TaskRecord \cup {Null}]
    /\ current \in 0..(N - 1)
    /\ running \in [Task -> Delay \cup {Null}]

\* A delay is a natural number of ticks.
LEMMA TicksType == \A d \in Delay : Ticks(d) \in Nat
<1> SUFFICES ASSUME NEW d \in Delay PROVE Ticks(d) \in Nat OBVIOUS
<1>1. d \in Nat /\ d \div 2 \in Nat
  BY TimeWheelAssumption
<1> QED BY <1>1 DEF Ticks

\* A new task is a record, not cancelled, and its distance is its delay.
LEMMA TaskOfType ==
  ASSUME TypeOK, NEW d \in Delay
  PROVE  /\ TaskOf(d) \in TaskRecord /\ ~TaskOf(d).canceled
         /\ TaskOf(d).rounds * N + Way(TaskOf(d).idx, current) = Ticks(d)
<1>1. Ticks(d) \in Nat /\ current \in 0..(N - 1) /\ current + Ticks(d) \in Nat
  BY TicksType, TimeWheelAssumption DEF TypeOK, N
<1>2. Ticks(d) \div N \in Nat /\ (current + Ticks(d)) % N \in 0..(N - 1)
  BY <1>1, Division
<1>3. (Ticks(d) \div N) * N + Way((current + Ticks(d)) % N, current) = Ticks(d)
  BY <1>1, AddDistance
<1> QED BY <1>2, <1>3 DEF TaskOf, TaskRecord, N

\* Initially the types are right.
LEMMA InitType == Init => TypeOK
  BY TimeWheelAssumption DEF Init, TypeOK, N

\* Every step keeps the types.
LEMMA NextType == TypeOK /\ [Next]_vars => TypeOK'
<1> SUFFICES ASSUME TypeOK, [Next]_vars PROVE TypeOK' OBVIOUS
<1>1. ASSUME NEW t \in Task, NEW d \in Delay, Add(t, d) PROVE TypeOK'
  BY <1>1, TaskOfType DEF Add, TypeOK
<1>2. ASSUME NEW t \in Task, Cancel(t) PROVE TypeOK'
  BY <1>2 DEF Cancel, TypeOK, TaskRecord
<1>3. ASSUME NEW t \in Task, Return(t) PROVE TypeOK'
  BY <1>3 DEF Return, TypeOK
<1>4. ASSUME NEW t \in Task, NEW u \in Task, AddAgain(t, u) PROVE TypeOK'
  <2>1. running[t] \in Delay
    BY <1>4 DEF AddAgain, TypeOK
  <2> QED BY <1>4, <2>1, TaskOfType DEF AddAgain, TypeOK
<1>5. ASSUME NEW t \in Task, NEW u \in Task, NEW d \in Delay, Reset(t, u, d) PROVE TypeOK'
  <2>1. [slots[t] EXCEPT !.canceled = TRUE] \in TaskRecord
    BY <1>5 DEF Reset, TypeOK, TaskRecord
  <2> QED BY <1>5, <2>1, TaskOfType DEF Reset, TypeOK
<1>6. CASE Tick
  <2>1. \A t \in Task : AfterTick(t) \in TaskRecord \cup {Null}
    BY DEF AfterTick, TypeOK, TaskRecord
  <2>2. (current + 1) % N \in 0..(N - 1)
    BY Division, TimeWheelAssumption DEF TypeOK, N
  <2>3. \A t \in Task : (IF Fires(t) THEN slots[t].delay ELSE running[t]) \in Delay \cup {Null}
    BY DEF Fires, TypeOK, TaskRecord
  <2> QED BY <1>6, <2>1, <2>2, <2>3 DEF Tick, TypeOK, N
<1>7. CASE UNCHANGED vars
  BY <1>7 DEF vars, TypeOK
<1> QED BY <1>1, <1>2, <1>3, <1>4, <1>5, <1>6, <1>7 DEF Next

\* The distance of a task in terms of the way round the ring.
LEMMA DistanceWay == \A t \in Task : Distance(t) = slots[t].rounds * N + Way(slots[t].idx, current)
  BY DEF Distance, Way, N

\* The abstract state of one task.
LEMMA WaitingValue ==
  /\ Waiting = [t \in Task |-> Waiting[t]]
  /\ \A t \in Task : Waiting[t] = IF slots[t] = Null \/ slots[t].canceled THEN Null
                                  ELSE slots[t].rounds * N + Way(slots[t].idx, current)
  BY DistanceWay DEF Waiting

Running == {t \in Task : running[t] # Null}

\* A task put into the ring is a timer started with the ticks of its delay.
LEMMA AddStarts ==
  ASSUME TypeOK, NEW u \in Task, NEW d \in Delay, slots[u] = Null,
         slots' = [slots EXCEPT ![u] = TaskOf(d)], current' = current
  PROVE  Waiting' = [Waiting EXCEPT ![u] = Ticks(d)] /\ Waiting[u] = Null
<1>1. slots'[u] = TaskOf(d) /\ slots'[u] # Null /\ ~slots'[u].canceled
  BY TaskOfType, TaskAssumption DEF TypeOK
<1>2. slots'[u].rounds * N + Way(slots'[u].idx, current') = Ticks(d)
  BY <1>1, TaskOfType
<1>3. \A t \in Task : slots'[t].rounds * N + Way(slots'[t].idx, current') = Distance(t)'
  BY DEF Distance, Way, N
<1>4. \A t \in Task \ {u} : slots'[t] = slots[t] /\ Distance(t)' = Distance(t)
  BY DEF TypeOK, Distance
<1> QED BY <1>1, <1>2, <1>3, <1>4 DEF Waiting

\* Cancelling a task ends its timer.
LEMMA CancelStops ==
  ASSUME TypeOK, NEW t \in Task, slots[t] # Null,
         slots' = [slots EXCEPT ![t].canceled = TRUE], current' = current
  PROVE  Waiting' = [Waiting EXCEPT ![t] = Null]
<1>1. slots'[t] # Null /\ slots'[t].canceled
  BY TaskAssumption DEF TypeOK, TaskRecord
<1>2. \A u \in Task \ {t} : slots'[u] = slots[u] /\ Distance(u)' = Distance(u)
  BY DEF TypeOK, Distance
<1> QED BY <1>1, <1>2 DEF Waiting

\* Both at once.
LEMMA ResetRestarts ==
  ASSUME TypeOK, NEW t \in Task, NEW u \in Task, NEW d \in Delay, t # u,
         slots[t] # Null, slots[u] = Null, current' = current,
         slots' = [slots EXCEPT ![t].canceled = TRUE, ![u] = TaskOf(d)]
  PROVE  Waiting' = [Waiting EXCEPT ![t] = Null, ![u] = Ticks(d)] /\ Waiting[u] = Null
<1>1. slots'[u] = TaskOf(d) /\ slots'[u] # Null /\ ~slots'[u].canceled
  BY TaskOfType, TaskAssumption DEF TypeOK
<1>2. slots'[u].rounds * N + Way(slots'[u].idx, current') = Ticks(d)
  BY <1>1, TaskOfType
<1>3. Distance(u)' = Ticks(d)
  BY <1>2 DEF Distance, Way, N
<1>4. slots'[t] # Null /\ slots'[t].canceled
  <2>1. slots'[t] = [slots[t] EXCEPT !.canceled = TRUE] /\ slots[t] \in TaskRecord
    BY DEF TypeOK
  <2>2. slots'[t] \in TaskRecord /\ slots'[t].canceled
    BY <2>1 DEF TaskRecord
  <2> QED BY <2>2, TaskAssumption
<1>5. \A q \in Task \ {t, u} : slots'[q] = slots[q] /\ Distance(q)' = Distance(q)
  BY DEF TypeOK, Distance
<1> QED BY <1>1, <1>3, <1>4, <1>5 DEF Waiting

\* A turn of the ring is N ticks.
LEMMA Turn ==
  ASSUME NEW r \in Nat, r > 0
  PROVE  (r - 1) * N + (N - 1) = r * N - 1
  BY TimeWheelAssumption DEF N

\* A tick lowers the distance of a task by one; it fires the tasks at distance 0.
LEMMA TickPasses ==
  ASSUME TypeOK, Tick, NEW t \in Task
  PROVE  /\ Fires(t) <=> Waiting[t] = 0
         /\ Waiting'[t] = IF Waiting[t] = Null \/ Waiting[t] = 0 THEN Null ELSE Waiting[t] - 1
<1>1. slots'[t] = AfterTick(t) /\ current' = (current + 1) % N /\ current \in 0..(N - 1)
  BY DEF Tick, TypeOK, N
<1>2. CASE slots[t] = Null
  BY <1>1, <1>2, TaskAssumption DEF AfterTick, Fires, Waiting
<1>3. CASE slots[t] # Null /\ slots[t].canceled
  <2>1. slots'[t] = Null \/ slots'[t].canceled
    BY <1>1, <1>3 DEF AfterTick
  <2> QED BY <1>3, <2>1, TaskAssumption DEF Fires, Waiting
<1>4. CASE slots[t] # Null /\ ~slots[t].canceled
  <2> DEFINE r == slots[t].rounds
             i == slots[t].idx
  <2>1. slots[t] \in TaskRecord /\ r \in Nat /\ i \in 0..(N - 1) /\ N \in Nat \ {0}
    BY <1>4, TimeWheelAssumption DEF TypeOK, TaskRecord, N
  <2>2. Waiting[t] = r * N + Way(i, current)
    BY <1>4, WaitingValue
  <2>3. Way(i, current) \in 0..(N - 1) /\ (Way(i, current) = 0 <=> i = current)
    BY <1>1, <2>1 DEF Way
  <2>4. r * N \in Nat /\ (r * N = 0 <=> r = 0)
    BY <2>1
  <2>5. Waiting[t] \in Nat /\ (Waiting[t] = 0 <=> r = 0 /\ i = current)
    BY <2>2, <2>3, <2>4
  <2>6. Fires(t) <=> r = 0 /\ i = current
    BY <1>4 DEF Fires
  <2>7. CASE i = current /\ r = 0
    BY <1>1, <1>4, <2>5, <2>6, <2>7 DEF AfterTick, Waiting
  <2>8. CASE i = current /\ r > 0
    <3>1. /\ slots'[t] = [slots[t] EXCEPT !.rounds = r - 1]
          /\ slots'[t] \in TaskRecord
      BY <1>1, <1>4, <2>1, <2>8 DEF AfterTick, TaskRecord
    <3>2. /\ slots'[t] # Null /\ ~slots'[t].canceled
          /\ slots'[t].rounds = r - 1 /\ slots'[t].idx = i
      BY <1>4, <2>1, <3>1, TaskAssumption DEF TaskRecord
    <3>3. Waiting'[t] = (r - 1) * N + Way(i, current')
      BY <3>2 DEF Waiting, Distance, Way, N
    <3>4. Way(i, current') = N - 1
      BY <1>1, <2>1, <2>8, TickWay
    <3>5. Waiting[t] = r * N /\ Waiting[t] # 0
      BY <2>2, <2>3, <2>4, <2>5, <2>8
    <3>6. Waiting'[t] = r * N - 1
      BY <2>1, <2>8, <3>3, <3>4, Turn
    <3> QED BY <2>5, <2>6, <2>8, <3>5, <3>6, TaskAssumption
  <2>9. CASE i # current
    <3>1. slots'[t] = slots[t]
      BY <1>1, <2>9 DEF AfterTick
    <3>2. Waiting'[t] = r * N + Way(i, current')
      BY <1>4, <3>1 DEF Waiting, Distance, Way, N
    <3>3. Way(i, current') = Way(i, current) - 1
      BY <1>1, <2>1, <2>9, TickWay
    <3>4. Waiting'[t] = Waiting[t] - 1
      BY <2>2, <2>3, <2>4, <3>2, <3>3
    <3> QED BY <2>5, <2>6, <2>9, <3>4, TaskAssumption
  <2> QED BY <2>1, <2>7, <2>8, <2>9
<1> QED BY <1>2, <1>3, <1>4

\* Every step of the wheel is a step of the timers, or none.
LEMMA StepRefines == TypeOK /\ [Next]_vars => [T!Next]_(T!vars)
<1> SUFFICES ASSUME TypeOK, [Next]_vars PROVE [T!Next]_(T!vars) OBVIOUS
<1> USE DEF T!Next, T!vars
<1>1. ASSUME NEW t \in Task, NEW d \in Delay, Add(t, d) PROVE T!Next
  <2>1. T!Start(t, Ticks(d))
    BY <1>1, AddStarts DEF Add, Free, T!Start
  <2> QED BY <2>1
<1>2. ASSUME NEW t \in Task, Cancel(t) PROVE T!Next
  <2>1. T!Stop(t)
    BY <1>2, CancelStops DEF Cancel, T!Stop
  <2> QED BY <2>1
<1>3. ASSUME NEW t \in Task, Return(t) PROVE T!Next
  <2>1. Running' = Running \ {t} /\ t \in Running /\ Waiting' = Waiting
    BY <1>3 DEF Return, TypeOK, Running, Waiting, Distance
  <2>2. T!Finish(t)
    BY <2>1 DEF T!Finish, Running
  <2> QED BY <2>2
<1>4. ASSUME NEW t \in Task, NEW u \in Task, AddAgain(t, u) PROVE T!Next
  <2>1. PICK d \in Delay : d = running[t]
    BY <1>4 DEF AddAgain, TypeOK
  <2>2. Waiting' = [Waiting EXCEPT ![u] = Ticks(d)] /\ Waiting[u] = Null
    BY <1>4, <2>1, AddStarts DEF AddAgain, Free
  <2>3. Running' = Running \ {t} /\ t \in Running /\ u \notin Running
    BY <1>4 DEF AddAgain, Free, TypeOK, Running
  <2>4. T!Repeat(t, u, Ticks(d))
    BY <2>2, <2>3 DEF T!Repeat, Running
  <2> QED BY <2>4
<1>5. ASSUME NEW t \in Task, NEW u \in Task, NEW d \in Delay, Reset(t, u, d) PROVE T!Next
  <2>1. Waiting' = [Waiting EXCEPT ![t] = Null, ![u] = Ticks(d)] /\ Waiting[u] = Null
    BY <1>5, ResetRestarts DEF Reset, Free
  <2>2. Running' = Running /\ u \notin Running
    BY <1>5 DEF Reset, Free, Running
  <2>3. T!Restart(t, u, Ticks(d))
    BY <1>5, <2>1, <2>2 DEF Reset, T!Restart, Running
  <2> QED BY <2>3
<1>6. CASE Tick
  <2>1. \A t \in Task : Fires(t) <=> t \in T!Due
    BY <1>6, TickPasses DEF T!Due
  <2>2. \A t \in Task : Waiting'[t] = IF Waiting[t] = Null \/ t \in T!Due THEN Null
                                     ELSE Waiting[t] - 1
    BY <1>6, TickPasses DEF T!Due
  <2>3. Waiting' = [t \in Task |-> Waiting'[t]]
    BY DEF Waiting
  <2>4. \A t \in Task : Fires(t) => slots[t].delay # Null
    BY TaskAssumption, TimeWheelAssumption DEF Fires, TypeOK, TaskRecord
  <2>5. Running' = Running \cup T!Due
    BY <1>6, <2>1, <2>4 DEF Tick, TypeOK, Running, T!Due
  <2>6. T!Pass
    BY <2>2, <2>3, <2>5 DEF T!Pass, Running
  <2> QED BY <2>6
<1>7. CASE UNCHANGED vars
  BY <1>7 DEF vars, Waiting, Distance
<1> QED BY <1>1, <1>2, <1>3, <1>4, <1>5, <1>6, <1>7 DEF Next

\* The wheel starts as timers do.
LEMMA InitRefines == Init => T!Init
  BY DEF Init, T!Init, Waiting

\* The time wheel implements plain timers: whatever the number of slots and the
\* length of a delay, a task is started when the ticks of its delay have passed
\* and the next one comes, neither before nor after, unless it was cancelled
\* first (addTaskLocked, Run).
THEOREM WheelImplementsTimers == Spec => ImplementsTimers
<1>1. Init => TypeOK /\ T!Init
  BY InitType, InitRefines
<1> QED BY <1>1, NextType, StepRefines, PTL DEF Spec, ImplementsTimers, T!Spec
=============================================================================
