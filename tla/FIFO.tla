---- MODULE FIFO ----
\* What os/queue.c promises the scheduler: a first-in first-out queue of
\* processes that never holds a process twice.
EXTENDS Sequences

CONSTANTS Item, Null

VARIABLES
    queue,      \* the processes waiting, oldest first
    out         \* what the last pop returned

Init == queue = <<>> /\ out = Null

\* push_queue: the callers push only what is not queued.
Push(p) ==
    /\ \A i \in DOMAIN queue : queue[i] # p
    /\ queue' = Append(queue, p)
    /\ UNCHANGED out

\* pop_queue returns the oldest process, or NULL when there is none.
Pop ==
    IF queue = <<>>
    THEN out' = Null /\ UNCHANGED queue
    ELSE out' = Head(queue) /\ queue' = Tail(queue)

Next == (\E p \in Item : Push(p)) \/ Pop

Spec == Init /\ [][Next]_<<queue, out>>
====
