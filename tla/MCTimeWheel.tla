----------------------------- MODULE MCTimeWheel -----------------------------
(* TimeWheel for TLC: three slots and delays of none, part of a tick, within a *)
(* turn and over two turns.                                                     *)
EXTENDS TimeWheel
=============================================================================
