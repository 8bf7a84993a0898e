------------------------------- MODULE MCPorts -------------------------------
EXTENDS Ports, TLC

CONSTANTS t1, t2, m1

MCWaitable == Port \cup {SendQ(p) : p \in Port} \cup {Limbo}
OneTeam == [t \in Thread |-> m1]
TwoTeams == [t \in Thread |-> IF t = t1 THEN m1 ELSE t]
Symmetry == Permutations(Thread)
=============================================================================
