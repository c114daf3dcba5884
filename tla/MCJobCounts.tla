---------------------------- MODULE MCJobCounts ----------------------------
(* JobCounts for TLC: one key of a handler with CacheExpire, one without.   *)
EXTENDS JobCounts, TLC

CONSTANTS volatile, persistent

MCKey == {volatile, persistent}
MCPriority == [k \in MCKey |-> 0]
MCCacheExpire == [k \in MCKey |-> IF k = volatile THEN 0 ELSE Null]

Symmetry == Permutations(Root)
=============================================================================
