---- MODULE MCSpinlock ----
\* Two harts, two locks that each context takes in either order: enough for a
\* handler to interrupt a thread, for two CPUs to contend, for locks to nest, and
\* for the callers to deadlock (lock 1 under lock 2 against lock 2 under lock 1).
EXTENDS Spinlock
====
