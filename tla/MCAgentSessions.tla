--------------------------- MODULE MCAgentSessions ---------------------------
(* AgentSessions.tla for TLC: x1 is a message to the Agent m1, x2 one on   *)
(* the subject s1.                                                         *)
EXTENDS AgentSessions, TLC

CONSTANTS c1, c2, m1, m2, s1, x1, x2

RecipientsOf == [x \in Msgs |-> IF x = x1 THEN {m1} ELSE {}]
SubjectOf == [x \in Msgs |-> s1]
Symmetry == Permutations(Conns)
=============================================================================
