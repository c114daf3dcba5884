------------------------------ MODULE JobTable ------------------------------
(***************************************************************************)
(* The SQL job store of typedhandler_job_sql.go: the tables executions     *)
(* (queue, lock table and volatile cache at once) and executions_results   *)
(* (persistent cache), and the statements callSQLStrategy runs on them.    *)
(* One operator per method; a method that runs several statements outside  *)
(* a transaction (Reaping) has one operator per statement.                 *)
(*                                                                         *)
(* A timestamp column holds the REMAINING time (timestamp - now): Tick     *)
(* lowers it, and it saturates once it has passed, so that behaviours of   *)
(* any length stay finite.  SQL's NULL is Null, and as in SQL a comparison *)
(* with NULL never holds.  All rows carry the same handler version here.   *)
(***************************************************************************)
EXTENDS Integers

CONSTANTS
    Key,            \* job ids (encodeJobID), the UNIQUE column of both tables
    Root,           \* values of the rootid column
    Value,          \* marshalled outputs and errors
    Null,           \* SQL NULL / no such row
    Priority,       \* Priority[k]: JobOption.Priority of the handler of k
    LeaseDuration,  \* JobConfig.LeaseDuration, in ticks
    MaxRetry        \* JobConfig.MaxRetry

Statuses == {"queued", "leased", "done", "error"}

\* Remaining time of a timestamp column: -1 once it lies in the past.
Past == -1
Remaining == Int \cup {Null}

Row == [status : Statuses, root : Root, ttl : Remaining, run_at : Int,
        leased_until : Remaining, retry_count : Nat \cup {Null},
        output : Value \cup {Null}, error : Value \cup {Null}]

ResultRow == [status : {"done", "error"},
              output : Value \cup {Null}, error : Value \cup {Null}]

\* What a handler run leaves to be stored (marshalOutputSet): exactly one side.
Stored == [output : Value \cup {Null}, error : Value \cup {Null}]

JobMeta == [status : {"queued", "leased"}, root : Root, ttl : Remaining]

ASSUME JobTableAssumption ==
    /\ LeaseDuration \in Nat \ {0}
    /\ MaxRetry \in Nat
    /\ Priority \in [Key -> Int]
    /\ Null \notin Int \cup Value
    /\ Null \notin Row \cup ResultRow

VARIABLES
    executions,          \* Key -> row or Null
    executions_results,  \* Key -> persistent result or Null
    created_before       \* <<j, k>>: the row of j precedes that of k by created_at, id

tableVars == <<executions, executions_results, created_before>>

(***************************************************************************)
(* Time                                                                    *)
(***************************************************************************)
IsPast(t) == t # Null /\ t < 0                        \* column < now

Elapse(t) == IF t = Null THEN Null ELSE IF t = Past THEN Past ELSE t - 1

Aged(r) == [r EXCEPT !.ttl = Elapse(@), !.leased_until = Elapse(@),
                     !.run_at = IF @ > 0 THEN @ - 1 ELSE 0]

AgeRows == executions' = [k \in Key |-> IF executions[k] = Null THEN Null
                                        ELSE Aged(executions[k])]

(***************************************************************************)
(* Rows and the statements                                                 *)
(***************************************************************************)
Rows == {k \in Key : executions[k] # Null}

\* The columns created_at and id are kept as the order Dequeue sorts by.  The clocks of the
\* processes are taken to agree: a new row comes after those present.  A row that is reused
\* (ON CONFLICT updates neither column) keeps its place, a deleted one leaves the order.
Without(ks) == {p \in created_before : p[1] \notin ks /\ p[2] \notin ks}

HasStatus(k, S) == executions[k] # Null /\ executions[k].status \in S

\* Mutant: an error is stored with the status the schema's comment also lists.
StatusOfDead(stored) == IF stored.error # Null THEN "dead" ELSE "done"

StatusOf(stored) == IF stored.error # Null THEN "error" ELSE "done"

\* COALESCE(retry_count, 0) + 1.  Only retry_count >= MaxRetry is ever tested, so
\* the count stops growing once it is above MaxRetry.
Retried(n) == IF n = Null THEN 1 ELSE IF n > MaxRetry THEN n ELSE n + 1

NewRow(meta) ==
    [status |-> meta.status, root |-> meta.root, ttl |-> meta.ttl, run_at |-> 0,
     leased_until |-> Null, retry_count |-> Null, output |-> Null, error |-> Null]

\* The conflicting row taken over by Enqueue: leased_until, retry_count, output
\* and error stay as they were.
Reused(r, meta) == [r EXCEPT !.status = meta.status, !.root = meta.root,
                             !.ttl = meta.ttl, !.run_at = 0]

\* Mutant: a done row is taken over whether or not its ttl has passed.
EnqueuableDone(k) == executions[k] = Null \/ HasStatus(k, {"done"})

\* The row is inserted, or the conflicting row is a done one past its ttl.
Enqueuable(k) ==
    \/ executions[k] = Null
    \/ HasStatus(k, {"done"}) /\ IsPast(executions[k].ttl)

\* INSERT ... ON CONFLICT DO UPDATE.  The statement ignores the delay argument:
\* run_at is now.
Enqueue(k, meta) ==
    /\ IF Enqueuable(k)
         THEN /\ executions' = [executions EXCEPT ![k] =
                    IF @ = Null THEN NewRow(meta) ELSE Reused(@, meta)]
              /\ created_before' = IF executions[k] = Null
                                     THEN created_before \cup (Rows \X {k})
                                     ELSE created_before
         ELSE UNCHANGED <<executions, created_before>>
    /\ UNCHANGED executions_results

\* Rows a worker with the keys ks of its unlocked handlers may lease.
Runnable(ks) == {k \in ks : HasStatus(k, {"queued"}) /\ executions[k].run_at <= 0}

\* Mutant: the newest row first.
IsNextNewest(k, ks) ==
    /\ k \in Runnable(ks)
    /\ \A j \in Runnable(ks) \ {k} :
          \/ Priority[j] < Priority[k]
          \/ Priority[j] = Priority[k] /\ <<j, k>> \in created_before

\* ORDER BY priority DESC, created_at ASC, id ASC LIMIT 1
IsNext(k, ks) ==
    /\ k \in Runnable(ks)
    /\ \A j \in Runnable(ks) \ {k} :
          \/ Priority[j] < Priority[k]
          \/ Priority[j] = Priority[k] /\ <<k, j>> \in created_before

Leased(r) == [r EXCEPT !.status = "leased", !.leased_until = LeaseDuration]

Dequeue(k, ks) ==
    /\ IsNext(k, ks)
    /\ executions' = [executions EXCEPT ![k] = Leased(@)]
    /\ UNCHANGED <<executions_results, created_before>>

\* leased and leased_until < now
LeaseExpired(k) == HasStatus(k, {"leased"}) /\ IsPast(executions[k].leased_until)

RetriesOver(k) == executions[k].retry_count # Null /\ executions[k].retry_count >= MaxRetry

Failed(r, reason) == [r EXCEPT !.status = "error", !.error = reason]

\* Reaping, first statement: fail max retry over.
ReapError(reason) ==
    /\ executions' = [k \in Key |->
          IF LeaseExpired(k) /\ RetriesOver(k)
            THEN Failed(executions[k], reason)
            ELSE executions[k]]
    /\ UNCHANGED <<executions_results, created_before>>

Reaped(r) == [r EXCEPT !.status = "queued", !.leased_until = Null,
                       !.retry_count = Retried(@)]

\* Reaping, second statement: requeue lease over.
ReapRequeue ==
    /\ executions' = [k \in Key |->
          IF LeaseExpired(k)
            THEN Reaped(executions[k])
            ELSE executions[k]]
    /\ UNCHANGED <<executions_results, created_before>>

TtlOver(k) == HasStatus(k, {"done", "error"}) /\ IsPast(executions[k].ttl)

\* Reaping, third statement: delete ttl over.
ReapDelete ==
    /\ executions' = [k \in Key |-> IF TtlOver(k) THEN Null ELSE executions[k]]
    /\ created_before' = Without({k \in Key : TtlOver(k)})
    /\ UNCHANGED executions_results

Renewed(r) == [r EXCEPT !.leased_until = LeaseDuration]

\* Heartbeat: WHERE key = ?, whatever the status of the row.
LeaseUpdate(k) ==
    /\ executions' = [executions EXCEPT ![k] =
          IF @ = Null THEN Null ELSE Renewed(@)]
    /\ UNCHANGED <<executions_results, created_before>>

\* Mutant: the second statement of the transaction is missing.
StoreNothing(k, stored) == UNCHANGED executions_results

\* The upsert of both Done and doneAsync into executions_results.
StoreResult(k, stored) ==
    executions_results' = [executions_results EXCEPT ![k] =
        [status |-> StatusOf(stored), output |-> stored.output, error |-> stored.error]]

\* A volatile result stays in the row; the row of a persistent one is only closed.
Closed(r, ttl, stored) ==
    IF ttl # Null THEN [r EXCEPT !.status = StatusOf(stored), !.ttl = ttl,
                                 !.output = stored.output, !.error = stored.error]
    ELSE [r EXCEPT !.status = StatusOf(stored), !.ttl = Null]

\* The worker's result, in one transaction.
DoneAsync(k, ttl, stored) ==
    /\ executions' = [executions EXCEPT ![k] =
          IF @ = Null THEN Null ELSE Closed(@, ttl, stored)]
    /\ IF ttl # Null THEN UNCHANGED executions_results ELSE StoreResult(k, stored)
    /\ UNCHANGED created_before

\* Synchronous caller's result.  With a ttl the statement inserts neither
\* priority nor run_at, which are NOT NULL: SQLite rejects it before looking
\* at the conflict, the error is logged and nothing is stored.
Done(k, ttl, stored) ==
    /\ IF ttl # Null THEN UNCHANGED executions_results ELSE StoreResult(k, stored)
    /\ UNCHANGED <<executions, created_before>>

Free(k) ==
    /\ executions' = [executions EXCEPT ![k] = Null]
    /\ created_before' = Without({k})
    /\ UNCHANGED executions_results

Requeued(r, delay) == [r EXCEPT !.status = "queued", !.run_at = delay,
                                !.leased_until = Null, !.retry_count = Retried(@)]

Requeue(k, delay) ==
    /\ executions' = [executions EXCEPT ![k] =
          IF @ = Null THEN Null ELSE Requeued(@, delay)]
    /\ UNCHANGED <<executions_results, created_before>>

\* The row Hit and Result read.
Lookup(k, volatile) == IF volatile THEN executions[k] ELSE executions_results[k]

\* Result: ErrJobNotFound, JobPendingError, or the finished row.
Result(k, volatile) ==
    LET row == Lookup(k, volatile) IN
    IF row = Null THEN "notfound"
    ELSE IF row.status \in {"done", "error"} THEN "finished" ELSE "pending"

(***************************************************************************)
(* Initially the tables are empty.                                         *)
(***************************************************************************)
TableInit ==
    /\ executions = [k \in Key |-> Null]
    /\ executions_results = [k \in Key |-> Null]
    /\ created_before = {}

TableTypeOK ==
    /\ executions \in [Key -> Row \cup {Null}]
    /\ executions_results \in [Key -> ResultRow \cup {Null}]
    /\ created_before \subseteq Key \X Key
=============================================================================
