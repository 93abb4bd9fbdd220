---- MODULE TaskQueue ----
\* The task queue of os/queue.c: a ring of NPROC slots with a front and a tail
\* index and an "empty" flag that tells an empty ring from a full one.  Each
\* operation runs under q->lock and is therefore one step.
\*
\* Callers (add_task) push a process only when it has just become RUNNABLE and is
\* not in the queue; Proc.tla shows that the kernel keeps to this.
EXTENDS ProcPool, Sequences, FiniteSets

CONSTANTS
    Item,       \* the processes that can be pushed
    Null        \* NULL: what pop_queue returns when there is nothing

ASSUME ItemAssumption == IsFiniteSet(Item) /\ Cardinality(Item) <= NPROC
ASSUME NullAssumption == Null \notin Item

VARIABLES
    front, tail,    \* q->front, q->tail
    empty,          \* q->empty
    data,           \* q->data
    popped,         \* the result of the last pop_queue
    panic           \* "queue shouldn't be overflow" has been raised

queueVars == <<front, tail, empty, data, popped, panic>>

Slot == 0 .. NPROC - 1

QueueTypeOK ==
    /\ front \in Slot
    /\ tail \in Slot
    /\ empty \in BOOLEAN
    /\ data \in [Slot -> Item \cup {Null}]
    /\ popped \in Item \cup {Null}
    /\ panic \in BOOLEAN

\* How many slots are in use, and the i-th element from the front.
Len_ == IF empty THEN 0 ELSE IF front < tail THEN tail - front ELSE tail - front + NPROC
Nth(i) == data[(front + i) % NPROC]
Contents == [i \in 1 .. Len_ |-> Nth(i - 1)]
InRing == {Nth(i) : i \in 0 .. Len_ - 1}

init_queue ==
    /\ front = 0
    /\ tail = 0
    /\ empty = TRUE
    /\ data = [s \in Slot |-> Null]
    /\ popped = Null
    /\ panic = FALSE

\* Mutant of push_queue: the test for overflow comes after the insertion and
\* takes a ring that has just become full for one that has overflowed.
push_queue_checks_after(p) ==
    /\ ~panic
    /\ p \notin InRing
    /\ empty' = FALSE
    /\ data' = [data EXCEPT ![tail] = p]
    /\ tail' = (tail + 1) % NPROC
    /\ panic' = (tail' = front)
    /\ UNCHANGED <<front, popped>>

push_queue(p) ==
    /\ ~panic
    /\ p \notin InRing
    /\ IF ~empty /\ front = tail
       THEN /\ panic' = TRUE
            /\ UNCHANGED <<front, tail, empty, data, popped>>
       ELSE /\ empty' = FALSE
            /\ data' = [data EXCEPT ![tail] = p]
            /\ tail' = (tail + 1) % NPROC
            /\ UNCHANGED <<front, popped, panic>>

\* Mutant of pop_queue: the ring is never marked empty.
pop_queue_keeps_flag ==
    /\ ~panic
    /\ popped' = IF empty THEN Null ELSE data[front]
    /\ front' = IF empty THEN front ELSE (front + 1) % NPROC
    /\ UNCHANGED <<tail, empty, data, panic>>

pop_queue ==
    /\ ~panic
    /\ IF empty
       THEN /\ popped' = Null
            /\ UNCHANGED <<front, tail, empty, data, panic>>
       ELSE /\ popped' = data[front]
            /\ front' = (front + 1) % NPROC
            /\ empty' = (front' = tail)
            /\ UNCHANGED <<tail, data, panic>>

QueueNext == (\E p \in Item : push_queue(p)) \/ pop_queue

QueueSpec == init_queue /\ [][QueueNext]_queueVars
-----------------------------------------------------------------------------
\* The overflow panic of push_queue cannot be reached: the ring has a slot for
\* every process, and no process is queued twice.
NoOverflow == ~panic

\* No process sits in two slots of the ring.
Distinct ==
    \A i, j \in 0 .. Len_ - 1 : Nth(i) = Nth(j) => i = j

\* The slots in use hold processes, never a stale NULL.
Filled == \A i \in 0 .. Len_ - 1 : Nth(i) \in Item

\* With every slot in use the ring is not taken for empty, and the other way
\* round, also after front and tail have wrapped around.
RingInv == QueueTypeOK /\ NoOverflow /\ (empty => front = tail) /\ Filled /\ Distinct

\* pop_queue hands out the processes in the order push_queue took them.
Fifo == INSTANCE FIFO WITH queue <- Contents, out <- popped
ImplementsFifo == Fifo!Spec
====
