----------------------------- MODULE MCFuture -----------------------------
(* Future for TLC: one callback of each kind and a second Then, two racing  *)
(* deliveries, one waiter.                                                  *)
EXTENDS Future, TLC

CONSTANTS t1, t2, c1, f1

MCKind == (t1 :> "then") @@ (t2 :> "then") @@ (c1 :> "catch") @@ (f1 :> "finally")
=============================================================================
