----------------------------- MODULE MCRevoker -----------------------------
(* The instance of Revoker that TLC checks: prefixes that nest, that split an edge, that
   are siblings, and the empty one. *)
EXTENDS Revoker

MCScope ==
    {[stem |-> <<1, 1, 2>>, star |-> TRUE], [stem |-> <<1, 1>>, star |-> TRUE],
     [stem |-> <<1, 2>>, star |-> TRUE], [stem |-> <<>>, star |-> TRUE],
     [stem |-> <<1, 1, 2>>, star |-> FALSE]}
MCSubject == {<<1, 1, 2>>, <<1, 1, 2, 1>>, <<1, 2>>, <<1>>}
=============================================================================
