------------------------------ MODULE MCRouter ------------------------------
(* Router.tla for TLC: a message with two recipients and one with a        *)
(* subject, each from an Edge Router, with or without a UUID, or from the  *)
(* network.                                                                *)
EXTENDS Router, TLC

CONSTANTS t1, t2, both, plain

RecipientsOf == [x \in Msgs |-> IF x = both THEN {t1, t2} ELSE {}]
SubjectOf == [x \in Msgs |-> t1]
Symmetry == Permutations(Conns) \cup Permutations(Mrns)
=============================================================================
