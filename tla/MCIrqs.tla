------------------------------- MODULE MCIrqs --------------------------------
EXTENDS Irqs

CONSTANTS t1, t2, t3

MCWaitable == {Limbo}
\* t1 is the driver of irq 4; the others ask for any of the rest, which go before
\* it and after it, and more than once.
MCDrives == [t \in Thread |-> IF t = t1 THEN {4} ELSE Irq \ {4}]
=============================================================================
