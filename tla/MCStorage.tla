------------------------------ MODULE MCStorage ------------------------------
EXTENDS Storage
\* main.c copies one array into every node.
SameLengths == [n \in Nodes |-> 1]
\* spinlock.c and rwlock.c number the nodes downwards: the lengths never rise.
FallingLengths == [n \in Nodes |-> IF n = 1 THEN 3 ELSE IF n < 4 THEN 2 ELSE 1]
Lengths == [p \in Programs |-> IF p = "mutex" THEN SameLengths ELSE FallingLengths]
=============================================================================
