------------------------------ MODULE MCServer ------------------------------
(* The instance of Server that TLC checks: beside a command two jobs of the handler with an *)
(* Interval, beside Serve one.                                                              *)
EXTENDS Server

CONSTANTS j1, j2, h1

MCLoad == [serve |-> {<<j1, h1>>}, run |-> {<<j1, h1>>, <<j2, h1>>}]
=============================================================================
