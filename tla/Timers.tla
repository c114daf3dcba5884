------------------------------- MODULE Timers -------------------------------
(***************************************************************************)
(* What users of the time wheel rely on: a timer is called when the        *)
(* number of ticks of its delay has gone by and one more tick comes, never *)
(* before; a timer cancelled while it waits is not called.                 *)
(***************************************************************************)
EXTENDS Naturals

CONSTANTS Task, Delay, Null   \* Delay: the delays in ticks that timers are set with

VARIABLES
    remaining,  \* Task -> ticks still to pass, Null when not waiting
    running     \* timers whose function was started and has not returned

vars == <<remaining, running>>

Init == remaining = [t \in Task |-> Null] /\ running = {}

Start(t, d) ==
    /\ remaining[t] = Null /\ t \notin running
    /\ remaining' = [remaining EXCEPT ![t] = d]
    /\ UNCHANGED running

Stop(t) == remaining' = [remaining EXCEPT ![t] = Null] /\ UNCHANGED running

\* Stop one timer and start another.
Restart(t, u, d) ==
    /\ u # t /\ remaining[u] = Null /\ u \notin running
    /\ remaining' = [remaining EXCEPT ![t] = Null, ![u] = d]
    /\ UNCHANGED running

Due == {t \in Task : remaining[t] = 0}

Pass ==
    /\ remaining' = [t \in Task |-> IF remaining[t] = Null \/ t \in Due THEN Null
                                    ELSE remaining[t] - 1]
    /\ running' = running \cup Due

\* The function returns; if it asks to be called again, a new timer is started.
Finish(t) == t \in running /\ running' = running \ {t} /\ UNCHANGED remaining

Repeat(t, u, d) ==
    /\ t \in running
    /\ remaining[u] = Null /\ u \notin running \ {t}
    /\ running' = running \ {t}
    /\ remaining' = [remaining EXCEPT ![u] = d]

Next ==
    \/ \E t \in Task : (\E d \in Delay : Start(t, d)) \/ Stop(t) \/ Finish(t)
    \/ \E t, u \in Task, d \in Delay : Restart(t, u, d) \/ Repeat(t, u, d)
    \/ Pass

Spec == Init /\ [][Next]_vars
=============================================================================
