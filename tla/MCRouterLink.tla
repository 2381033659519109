---------------------------- MODULE MCRouterLink ----------------------------
(* RouterLink.tla for TLC: one topic, subscribed to, left and subscribed   *)
(* to again in any order, or one application message.                      *)
EXTENDS RouterLink

CONSTANTS t1, sub1, sub2, unsub1, send1

TopicOf == [r \in Subscribes \cup Unsubscribes |-> t1]
=============================================================================
