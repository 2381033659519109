---------------------------- MODULE MCConsumer ----------------------------
(* Consumer.tla for TLC: m1 expires as soon as the clock moves, m2 can     *)
(* still be delivered in the last second, m3 carries no UUID.              *)
EXTENDS Consumer, TLC

CONSTANTS m1, m2, m3, s1, s2

ExpiryTimes == [m \in Msgs |-> IF m = m1 THEN 0 ELSE 1]
Symmetry == Permutations(Sessions)
=============================================================================
