---------------------------- MODULE MCRelayQueue ----------------------------
(* Small instances of RelayQueue for TLC.  Where identities differ, the    *)
(* record itself stands for its identity, so that records of one size and  *)
(* one source are interchangeable.                                         *)
EXTENDS RelayQueue, TLC

CONSTANTS a, b, c, k1, s1, s2, t1, t2

Distinct == [r \in Records |-> r]
Conflict == [r \in Records |-> k1]
OneSource == [r \in Records |-> s1]
TwoSources == [r \in Records |-> IF r = b THEN s2 ELSE s1]
Unit == [r \in Records |-> 1]
Growing == [r \in Records |-> IF r = b THEN 2 ELSE 1]

TwoThreads == Permutations({t1, t2}) \cup Permutations({a, b})
OneThread == Permutations({a, c})
=============================================================================
