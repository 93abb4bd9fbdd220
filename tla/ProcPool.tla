---- MODULE ProcPool ----
\* NPROC (os/defs.h): the size of the pool of processes (os/proc.c), and the number of slots
\* that the indices of the task queue go round (os/queue.c): there is one for each process.
EXTENDS Integers

CONSTANT NPROC

ASSUME NPROCAssumption == NPROC \in Nat \ {0}
====
