---- MODULE AbstractLock ----
\* What lock.c promises its callers: a set of locks, each of which is held by at
\* most one CPU.  acquire() takes a free lock, release() gives it back, and only
\* the holder may do so.  Spinlock.tla implements this specification.
CONSTANTS CPU, Lock, NoCpu

VARIABLE holder     \* holder[l]: the CPU that is inside acquire/release of l

Init == holder = [l \in Lock |-> NoCpu]

Acquire(c, l) ==
    /\ holder[l] = NoCpu
    /\ holder' = [holder EXCEPT ![l] = c]

Release(c, l) ==
    /\ holder[l] = c
    /\ holder' = [holder EXCEPT ![l] = NoCpu]

Next == \E c \in CPU, l \in Lock : Acquire(c, l) \/ Release(c, l)

Spec == Init /\ [][Next]_holder
====
