----------------------------- MODULE JobCounts -----------------------------
(***************************************************************************)
(* execution_counts, the counters kept by the three triggers on executions *)
(* and read by Total (job list totals, the progress WaitForJob prints).    *)
(*                                                                         *)
(* The clients of the table are left free: any statement may run at any    *)
(* time with any key.  That covers late workers (doneAsync and requeue are *)
(* not fenced by a lease owner), heartbeats that outlive their job, the    *)
(* job store's manual Requeue and Free, and root ids mixed up by concurrent*)
(* calls that share one Runtime cache.                                     *)
(***************************************************************************)
EXTENDS JobTable, FiniteSets

CONSTANTS
    Total_,          \* the rootid '*' of the overall counters
    CacheExpire,     \* CacheExpire[k]: JobOption.CacheExpire in ticks, Null if not set
    RequeueInterval, \* JobConfig.RequeueInterval, in ticks
    MaxRetriesError  \* the error ReapError writes

ASSUME JobCountsAssumption ==
    /\ IsFiniteSet(Key)
    /\ Total_ \notin Root
    /\ CacheExpire \in [Key -> Nat \cup {Null}]
    /\ RequeueInterval \in Nat
    /\ MaxRetriesError \in Value

VARIABLE counts     \* counts[g][s]: execution_counts of (rootid g, status s), 0 if absent

vars == <<executions, executions_results, created_before, counts>>

Group == Root \cup {Total_}

(***************************************************************************)
(* Triggers                                                                *)
(***************************************************************************)
\* The row is counted under rootid g and status s.
Counted(row, g, s) == row.status = s /\ (g = Total_ \/ row.root = g)

Inserted == {k \in Key : executions[k] = Null /\ executions'[k] # Null}
Deleted == {k \in Key : executions[k] # Null /\ executions'[k] = Null}

\* The WHEN clause of executions_after_update.
Retagged(old, new) == old.status # new.status \/ old.root # new.root

Moved == {k \in Key : /\ executions[k] # Null /\ executions'[k] # Null
                      /\ Retagged(executions[k], executions'[k])}

Entering(g, s) == {k \in Inserted \cup Moved : Counted(executions'[k], g, s)}

\* Mutant: the update trigger takes the row off the counters of its new rootid.
LeavingNewRoot(g, s) ==
    {k \in Deleted : Counted(executions[k], g, s)}
    \cup {k \in Moved : /\ executions[k].status = s
                        /\ g = Total_ \/ executions'[k].root = g}

Leaving(g, s) == {k \in Deleted \cup Moved : Counted(executions[k], g, s)}

\* The triggers fire once per row a statement touches, inside the statement.
Triggers ==
    counts' = [g \in Group |-> [s \in Statuses |->
                 counts[g][s] + Cardinality(Entering(g, s)) - Cardinality(Leaving(g, s))]]

(***************************************************************************)
(* Free clients                                                            *)
(***************************************************************************)
\* marshalOutputSet: an output or an error.
Results == [output : Value, error : {Null}] \cup [output : {Null}, error : Value]

EnqueueAny ==
    \E k \in Key, st \in {"queued", "leased"}, r \in Root :
        Enqueue(k, [status |-> st, root |-> r, ttl |-> CacheExpire[k]])

DequeueAny   == \E ks \in SUBSET Key : \E k \in ks : Dequeue(k, ks)
HeartBeatAny == \E k \in Key : LeaseUpdate(k)
SuccessAny   == \E k \in Key, out \in Results : DoneAsync(k, CacheExpire[k], out)
DoneAny      == \E k \in Key, out \in Results : Done(k, CacheExpire[k], out)
FreeAny      == \E k \in Key : Free(k)
RequeueAny   == \E k \in Key : Requeue(k, RequeueInterval)
ReapErrorAny == ReapError(MaxRetriesError)

Tick == AgeRows /\ UNCHANGED <<executions_results, created_before>>

Statement ==
    \/ EnqueueAny \/ DequeueAny \/ HeartBeatAny \/ SuccessAny \/ DoneAny
    \/ FreeAny \/ RequeueAny \/ ReapErrorAny \/ ReapRequeue \/ ReapDelete

Init == TableInit /\ counts = [g \in Group |-> [s \in Statuses |-> 0]]

Next == (Statement \/ Tick) /\ Triggers

Spec == Init /\ [][Next]_vars

(***************************************************************************)
(* Properties                                                              *)
(***************************************************************************)
\* The tables have the column types of the schema, and the counters are Ints.
TypeOK == TableTypeOK /\ counts \in [Group -> [Statuses -> Int]]

\* Whatever statements run in whatever order, the counters the triggers keep
\* equal a fresh GROUP BY over executions: per status overall, and per rootid
\* (the totals that Total reports without scanning the table).
CountsConsistent ==
    \A g \in Group, s \in Statuses :
        counts[g][s] = Cardinality({k \in Rows : Counted(executions[k], g, s)})
=============================================================================
