---------------------------- MODULE MCJobSystem ----------------------------
(* JobSystem for TLC: one node, or two nodes with the second half of the    *)
(* callers and workers on the second one; and the handlers each run is for. *)
EXTENDS JobSystem, TLC

CONSTANTS n1, n2, c1, c2, w1, w2, k1, k2

Here == [p \in Caller \cup Worker |-> n1]
Spread == [p \in Caller \cup Worker |-> IF p \in {c1, w1} THEN n1 ELSE n2]

\* What later steps depend on: no action reads a reply.
AllButReply == <<tableVars, handler, caller, worker, dequeued, heartbeats, reaper,
                 crashes, runs>>

SamePriority == [k \in Key |-> 0]

Handler(mode, expire, via, input, outcome) ==
    [mode |-> mode, expire |-> expire, via |-> via, input |-> input, outcome |-> outcome]

\* Handlers several nodes work on at once.
Shared ==
    {Handler("dedupe", Null, {"call"}, {k1}, {"ok", "requeue", "err"}),
     Handler("dispatch", 1, {"call"}, {k1}, {"ok", "abort"}),
     Handler("once", Null, {"call"}, {k1}, Outcomes),
     Handler("cache", Null, {"http"}, {k1}, Outcomes),
     Handler("dispatch", Null, {"http"}, {k1}, {"ok", "err", "requeue"})}

\* Handlers whose callers or workers have something to wait for.
Waiting ==
    {Handler("async", Null, {"call"}, {k1, k2}, {"ok"}),
     Handler("dispatch", Null, {"call"}, {k1}, {"ok", "syserr"}),
     Handler("dispatch", Null, {"go"}, {k1, k2}, {"ok", "err"}),
     Handler("memoized", 1, {"http"}, {k1}, {"ok", "err"})}

DispatchExpires == {Handler("dispatch", 1, {"call"}, {k1}, {"ok"})}
=============================================================================
