--------------------------- MODULE MCRedisStream ---------------------------
(* The instance of RedisStream that TLC checks: one handler, of any mode.    *)
EXTENDS RedisStream

MCStart == {Latest, 1}
=============================================================================
