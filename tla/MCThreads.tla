------------------------------ MODULE MCThreads ------------------------------
EXTENDS Threads, TLC

MCWaitable == Thread \cup Sem \cup {ReaperSem}
Symmetry == Permutations(Thread \ {Boot}) \cup Permutations(Team \ {BootTeam})
=============================================================================
