-------------------------- MODULE MCSessionManager --------------------------
(* Two groups that share one resource: a function of g2 uses two units of it, *)
(* one of g1 a single unit.                                                    *)
EXTENDS SessionManager, TLC

CONSTANTS g1, g2, cpu, s1, s2, s3

MCResources == cpu :> 3
MCUse == (g1 :> {cpu :> 1}) @@ (g2 :> {cpu :> 2, cpu :> 0})
Symmetric == Permutations(Session) \cup Permutations(Slot) \cup Permutations(Client)
=============================================================================
