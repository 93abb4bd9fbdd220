---- MODULE ProcProofs ----
\* Proofs about the task queue, the scheduler and fork, wait and exit, for any number of
\* CPUs and any size of the pool: the ring of os/queue.c never overflows and is a
\* first-in first-out queue; no assertion of the scheduler fails, no process is lost or
\* run twice, no kernel stack is reused under a CPU, every process has a parent to wait
\* for it, no parent sleeps through the exit of its child, and no CPUs wait for one another's
\* locks in a circle.
\*
\* The two parts meet in QueueUsedAsPromised: what the ring takes for granted of its
\* callers, that nobody pushes a process which is queued already, is what they do.
EXTENDS Proc, TaskQueue, FiniteSetTheorems, SequenceTheorems, TLAPS
-----------------------------------------------------------------------------
\* The ring of the task queue.

\* % NPROC of a number below 2 * NPROC.
LEMMA ModOnce ==
    ASSUME NEW x \in Int, 0 <= x, x < 2 * NPROC
    PROVE  /\ x % NPROC = IF x < NPROC THEN x ELSE x - NPROC
           /\ x % NPROC \in Slot
<1>1. x % NPROC = IF x < NPROC THEN x ELSE x - NPROC
  BY NPROCAssumption, SMTT(30)
<1>2. (IF x < NPROC THEN x ELSE x - NPROC) \in Slot
  BY NPROCAssumption DEF Slot
<1>. QED BY <1>1, <1>2

\* The slot k steps after slot f, going around the end of the ring once.
LEMMA ModRing ==
    ASSUME NEW f \in Slot, NEW k \in 0 .. NPROC
    PROVE  /\ (f + k) % NPROC = IF f + k < NPROC THEN f + k ELSE f + k - NPROC
           /\ (f + k) % NPROC \in Slot
<1>1. f + k \in Int
  BY NPROCAssumption DEF Slot
<1>2. 0 <= f + k
  BY NPROCAssumption DEF Slot
<1>3. f + k < 2 * NPROC
  BY NPROCAssumption DEF Slot
<1>4. f \in Int /\ k \in Int /\ NPROC \in Int
  BY NPROCAssumption DEF Slot
<1>. QED BY <1>1, <1>2, <1>3, <1>4, ModOnce

\* The number of slots in use, and where the next push goes.
LEMMA LenRange ==
    ASSUME QueueTypeOK, empty => front = tail
    PROVE  /\ Len_ \in 0 .. NPROC
           /\ Len_ = 0 <=> empty
           /\ Len_ = NPROC <=> ~empty /\ front = tail
           /\ (front + Len_) % NPROC = tail
<1>1. /\ Len_ \in 0 .. NPROC
      /\ Len_ = 0 <=> empty
      /\ Len_ = NPROC <=> ~empty /\ front = tail
  BY NPROCAssumption DEF QueueTypeOK, Slot, Len_
<1>2. (front + Len_) % NPROC = IF front + Len_ < NPROC THEN front + Len_ ELSE front + Len_ - NPROC
  BY <1>1, ModRing DEF QueueTypeOK
<1>. QED BY <1>1, <1>2, NPROCAssumption DEF QueueTypeOK, Slot, Len_

\* push_queue of a ring that is not full appends at the tail and disturbs none
\* of the slots in use.
LEMMA PushRing ==
    ASSUME RingInv, NEW p \in Item, push_queue(p), ~(~empty /\ front = tail)
    PROVE  /\ QueueTypeOK' /\ ~empty' /\ ~panic' /\ popped' = popped
           /\ Len_' = Len_ + 1
           /\ \A k \in 0 .. Len_ - 1 : Nth(k)' = Nth(k)
           /\ \A n : n = Len_ => Nth(n)' = p
<1>1. /\ QueueTypeOK /\ ~panic
      /\ empty' = FALSE /\ data' = [data EXCEPT ![tail] = p]
      /\ tail' = (tail + 1) % NPROC /\ front' = front
      /\ popped' = popped /\ panic' = panic
  BY DEF push_queue, RingInv, NoOverflow
<1>2. tail' = IF tail + 1 < NPROC THEN tail + 1 ELSE 0
  <2>1. tail \in Slot /\ 1 \in 0 .. NPROC
    BY <1>1, NPROCAssumption DEF QueueTypeOK
  <2>2. (tail + 1) % NPROC = IF tail + 1 < NPROC THEN tail + 1 ELSE tail + 1 - NPROC
    BY <2>1, ModRing
  <2>. QED BY <1>1, <2>1, <2>2, NPROCAssumption DEF Slot
<1>3. QueueTypeOK'
  <2>1. tail' \in Slot
    BY <1>1, <1>2, NPROCAssumption DEF QueueTypeOK, Slot
  <2>. QED BY <1>1, <2>1 DEF QueueTypeOK
<1>4. /\ Len_ \in 0 .. NPROC - 1
      /\ (front + Len_) % NPROC = tail
  BY LenRange, NPROCAssumption DEF RingInv
<1>5. Len_' = Len_ + 1
  BY <1>1, <1>2, NPROCAssumption DEF QueueTypeOK, Slot, Len_, RingInv
<1>6. ASSUME NEW k \in 0 .. Len_ - 1 PROVE Nth(k)' = Nth(k)
  <2>0. k \in 0 .. NPROC
    BY <1>4, NPROCAssumption
  <2>1. (front + k) % NPROC = IF front + k < NPROC THEN front + k ELSE front + k - NPROC
    BY <1>1, <2>0, ModRing DEF QueueTypeOK
  <2>2. (front + Len_) % NPROC = IF front + Len_ < NPROC THEN front + Len_ ELSE front + Len_ - NPROC
    BY <1>1, <1>4, ModRing, NPROCAssumption DEF QueueTypeOK
  <2>3. (front + k) % NPROC # tail
    BY <1>1, <1>4, <2>1, <2>2, NPROCAssumption DEF QueueTypeOK, Slot
  <2>4. (front + k) % NPROC \in Slot
    BY <1>1, <2>0, ModRing DEF QueueTypeOK
  <2>. QED BY <1>1, <2>3, <2>4 DEF QueueTypeOK, Nth
<1>7. ASSUME NEW n, n = Len_ PROVE Nth(n)' = p
  <2>1. (front' + n) % NPROC = tail
    BY <1>1, <1>4, <1>7
  <2>2. data'[tail] = p
    BY <1>1 DEF QueueTypeOK
  <2>. QED BY <2>1, <2>2 DEF Nth
<1>. QED BY <1>1, <1>3, <1>5, <1>6, <1>7

\* pop_queue of a ring that is not empty removes the first slot in use and
\* shifts the others down by one.
LEMMA PopRing ==
    ASSUME RingInv, pop_queue, ~empty
    PROVE  /\ QueueTypeOK' /\ (empty' => front' = tail') /\ ~panic'
           /\ popped' = Nth(0)
           /\ Len_' = Len_ - 1
           /\ \A k \in 0 .. Len_ - 2 : Nth(k)' = Nth(k + 1)
<1>1. /\ QueueTypeOK /\ ~panic /\ front \in Slot
      /\ popped' = data[front]
      /\ front' = (front + 1) % NPROC
      /\ empty' = (front' = tail)
      /\ UNCHANGED <<tail, data, panic>>
  BY DEF pop_queue, RingInv, NoOverflow, QueueTypeOK
<1>2. 0 \in 0 .. NPROC /\ 1 \in 0 .. NPROC /\ NPROC \in Nat
  BY NPROCAssumption
<1>3. front' = (IF front + 1 < NPROC THEN front + 1 ELSE front + 1 - NPROC) /\ front' \in Slot
  BY <1>1, <1>2, ModRing
<1>4. Len_ \in 1 .. NPROC
  BY <1>1, LenRange DEF RingInv
<1>5. Len_' = Len_ - 1
  <2>1. tail \in Slot
    BY <1>1 DEF QueueTypeOK
  <2>2. Len_ = IF front < tail THEN tail - front ELSE tail - front + NPROC
    BY DEF Len_
  <2>3. Len_' = IF front' = tail THEN 0
                ELSE IF front' < tail THEN tail - front' ELSE tail - front' + NPROC
    BY <1>1 DEF Len_
  <2>. QED BY <1>1, <1>2, <1>3, <2>1, <2>2, <2>3 DEF Slot
<1>6. popped' = Nth(0)
  <2>1. (front + 0) % NPROC = front
    <3>1. (front + 0) % NPROC = IF front + 0 < NPROC THEN front + 0 ELSE front + 0 - NPROC
      BY <1>1, <1>2, ModRing
    <3>2. front + 0 = front /\ front < NPROC
      BY <1>1, <1>2 DEF Slot
    <3>. QED BY <3>1, <3>2
  <2>. QED BY <1>1, <2>1 DEF Nth
<1>7. popped' \in Item
  <2>1. 0 \in 0 .. Len_ - 1
    BY <1>4
  <2>. QED BY <1>6, <2>1 DEF RingInv, Filled
<1>8. ASSUME NEW k \in 0 .. Len_ - 2 PROVE Nth(k)' = Nth(k + 1)
  <2>1. k \in 0 .. NPROC /\ k + 1 \in 0 .. NPROC
    BY <1>2, <1>4
  <2>2. (front' + k) % NPROC = IF front' + k < NPROC THEN front' + k ELSE front' + k - NPROC
    BY <1>3, <2>1, ModRing
  <2>3. (front + (k + 1)) % NPROC =
           IF front + (k + 1) < NPROC THEN front + (k + 1) ELSE front + (k + 1) - NPROC
    BY <1>1, <2>1, ModRing
  <2>4. (front' + k) % NPROC = (front + (k + 1)) % NPROC
    BY <1>1, <1>2, <1>3, <1>4, <2>1, <2>2, <2>3 DEF Slot
  <2>. QED BY <1>1, <2>4 DEF Nth
<1>9. QueueTypeOK'
  BY <1>1, <1>3, <1>7 DEF QueueTypeOK
<1>. QED BY <1>1, <1>5, <1>6, <1>8, <1>9

\* A full ring of NPROC distinct processes holds them all, so that nobody is
\* left to push.
LEMMA FullHoldsAll ==
    ASSUME RingInv, NEW p \in Item, p \notin InRing
    PROVE  Len_ # NPROC
<1> SUFFICES ASSUME Len_ = NPROC PROVE FALSE
  OBVIOUS
<1> DEFINE S == 0 .. NPROC - 1
           T == Item \ {p}
           f == [k \in S |-> Nth(k)]
<1>1. IsFiniteSet(S) /\ Cardinality(S) = NPROC
  BY FS_Interval, NPROCAssumption
<1>2. IsFiniteSet(T) /\ Cardinality(T) = Cardinality(Item) - 1
  BY FS_RemoveElement, ItemAssumption
<1>3. Cardinality(Item) \in Nat
  BY FS_CardinalityType, ItemAssumption
<1>4. Cardinality(T) < Cardinality(S)
  BY <1>1, <1>2, <1>3, ItemAssumption, NPROCAssumption
<1>5. f \in [S -> T]
  BY DEF RingInv, Filled, InRing
<1>6. \A k, j \in S : f[k] = f[j] => k = j
  BY DEF RingInv, Distinct
<1>. QED
  <2> HIDE DEF S, T, f
  <2>. QED BY <1>1, <1>2, <1>4, <1>5, <1>6, FS_PigeonHole

\* The ring invariant holds in every reachable state.
LEMMA RingInvInductive == QueueSpec => []RingInv
<1>1. init_queue => RingInv
  <2> SUFFICES ASSUME init_queue PROVE RingInv
    OBVIOUS
  <2>1. QueueTypeOK /\ NoOverflow /\ front = tail
    <3>1. 0 \in Slot
      BY NPROCAssumption DEF Slot
    <3>. QED BY <3>1 DEF init_queue, QueueTypeOK, NoOverflow
  <2>2. 0 .. Len_ - 1 = {}
    BY DEF init_queue, Len_
  <2>. QED BY <2>1, <2>2 DEF RingInv, Filled, Distinct
<1>2. RingInv /\ [QueueNext]_queueVars => RingInv'
  <2> SUFFICES ASSUME RingInv, [QueueNext]_queueVars PROVE RingInv'
    OBVIOUS
  <2>0. Len_ \in 0 .. NPROC /\ (Len_ = NPROC <=> ~empty /\ front = tail) /\ (Len_ = 0 <=> empty)
    BY LenRange DEF RingInv
  <2>1. ASSUME NEW p \in Item, push_queue(p) PROVE RingInv'
    <3>1. p \notin InRing
      BY <2>1 DEF push_queue
    <3>2. ~(~empty /\ front = tail)
      BY <2>0, <3>1, FullHoldsAll
    <3>3. /\ QueueTypeOK' /\ ~empty' /\ ~panic'
          /\ Len_' = Len_ + 1
          /\ \A k \in 0 .. Len_ - 1 : Nth(k)' = Nth(k)
          /\ \A n : n = Len_ => Nth(n)' = p
      BY <2>1, <3>2, PushRing
    <3>4. \A k \in 0 .. Len_ - 1 : Nth(k) # p
      BY <3>1 DEF InRing
    <3>5. Filled'
      BY <2>0, <3>3 DEF RingInv, Filled
    <3>6. Distinct'
      BY <2>0, <3>3, <3>4 DEF RingInv, Distinct
    <3>. QED BY <3>3, <3>5, <3>6 DEF RingInv, NoOverflow
  <2>2. ASSUME pop_queue PROVE RingInv'
    <3>1. CASE empty
      BY <2>2, <3>1 DEF pop_queue, RingInv, QueueTypeOK, NoOverflow, Filled, Distinct, Len_, Nth
    <3>2. CASE ~empty
      <4>1. /\ QueueTypeOK' /\ (empty' => front' = tail') /\ ~panic'
            /\ Len_' = Len_ - 1
            /\ \A k \in 0 .. Len_ - 2 : Nth(k)' = Nth(k + 1)
        BY <2>2, <3>2, PopRing
      <4>2. Filled'
        BY <2>0, <4>1 DEF RingInv, Filled
      <4>3. Distinct'
        BY <2>0, <4>1 DEF RingInv, Distinct
      <4>. QED BY <4>1, <4>2, <4>3 DEF RingInv, NoOverflow
    <3>. QED BY <3>1, <3>2
  <2>3. CASE UNCHANGED queueVars
    BY <2>3 DEF queueVars, RingInv, QueueTypeOK, NoOverflow, Filled, Distinct, Len_, Nth
  <2>. QED BY <2>1, <2>2, <2>3 DEF QueueNext
<1>. QED BY <1>1, <1>2, PTL DEF QueueSpec

\* The indices stay inside the ring and the slots hold processes or NULL.
THEOREM QueueTypeCorrect == QueueSpec => []QueueTypeOK
<1>1. RingInv => QueueTypeOK
  BY DEF RingInv
<1>. QED BY <1>1, RingInvInductive, PTL

\* push_queue never raises "queue shouldn't be overflow", whatever NPROC is, as
\* long as there are no more processes than slots and none is pushed twice.
THEOREM QueueNoOverflow == QueueSpec => []NoOverflow
<1>1. RingInv => NoOverflow
  BY DEF RingInv
<1>. QED BY <1>1, RingInvInductive, PTL

\* The ring implements the first-in first-out queue.
THEOREM QueueImplementsFifo == QueueSpec => ImplementsFifo
<1>1. init_queue => Fifo!Init
  BY DEF init_queue, Fifo!Init, Contents, Len_
<1>2. RingInv /\ [QueueNext]_queueVars => [Fifo!Next]_<<Contents, popped>>
  <2> SUFFICES ASSUME RingInv, [QueueNext]_queueVars PROVE [Fifo!Next]_<<Contents, popped>>
    OBVIOUS
  <2>0. /\ Len_ \in 0 .. NPROC /\ (Len_ = NPROC <=> ~empty /\ front = tail) /\ (Len_ = 0 <=> empty)
        /\ NPROC \in Nat
    BY LenRange, NPROCAssumption DEF RingInv
  <2>s. /\ Contents \in Seq(Item) /\ Len(Contents) = Len_ /\ DOMAIN Contents = 1 .. Len_
        /\ \A k \in 1 .. Len_ : Contents[k] = Nth(k - 1)
    <3>1. \A k \in 1 .. Len_ : k - 1 \in 0 .. Len_ - 1
      BY <2>0
    <3>2. Contents \in [1 .. Len_ -> Item]
      BY <3>1 DEF Contents, RingInv, Filled
    <3>. QED BY <2>0, <3>2 DEF Contents
  <2>1. ASSUME NEW p \in Item, push_queue(p) PROVE Fifo!Push(p)
    <3>1. p \notin InRing
      BY <2>1 DEF push_queue
    <3>2. ~(~empty /\ front = tail)
      BY <2>0, <3>1, FullHoldsAll
    <3>3. /\ popped' = popped
          /\ Len_' = Len_ + 1
          /\ \A k \in 0 .. Len_ - 1 : Nth(k)' = Nth(k)
          /\ \A n : n = Len_ => Nth(n)' = p
      BY <2>1, <3>2, PushRing
    <3>4. \A k \in DOMAIN Contents : Contents[k] # p
      BY <2>0, <2>s, <3>1 DEF InRing
    <3>5. Contents' = Append(Contents, p)
      <4>1. Contents' = [k \in 1 .. Len_ + 1 |-> Nth(k - 1)']
        BY <3>3 DEF Contents
      <4>2. \A k \in 1 .. Len_ + 1 : Nth(k - 1)' = IF k = Len_ + 1 THEN p ELSE Contents[k]
        BY <2>0, <2>s, <3>3
      <4>3. \A k \in 1 .. Len_ : Contents[k] \in Item
        BY <2>s, <2>0
      <4>4. Contents' \in Seq(Item) /\ Len(Contents') = Len_ + 1
        <5>1. \A k \in 1 .. Len_ + 1 : Nth(k - 1)' \in Item
          BY <2>0, <4>2, <4>3
        <5>2. Contents' \in [1 .. Len_ + 1 -> Item]
          BY <4>1, <5>1
        <5>3. Len_ + 1 \in Nat
          BY <2>0
        <5>. QED BY <5>2, <5>3
      <4>5. /\ Append(Contents, p) \in Seq(Item) /\ Len(Append(Contents, p)) = Len_ + 1
            /\ \A k \in 1 .. Len_ : Append(Contents, p)[k] = Contents[k]
            /\ Append(Contents, p)[Len_ + 1] = p
        BY <2>s, AppendProperties
      <4>6. \A k \in 1 .. Len(Contents') : Contents'[k] = Append(Contents, p)[k]
        BY <2>0, <4>1, <4>2, <4>4, <4>5
      <4>. QED BY <4>4, <4>5, <4>6, SeqEqual
    <3>. QED BY <3>3, <3>4, <3>5 DEF Fifo!Push
  <2>2. ASSUME pop_queue PROVE Fifo!Pop
    <3>1. CASE empty
      <4>1. Contents = <<>>
        BY <2>0, <2>s, <3>1
      <4>2. UNCHANGED Contents /\ popped' = Null
        BY <2>2, <3>1 DEF pop_queue, Contents, Len_, Nth
      <4>. QED BY <4>1, <4>2 DEF Fifo!Pop
    <3>2. CASE ~empty
      <4>1. /\ popped' = Nth(0)
            /\ Len_' = Len_ - 1
            /\ \A k \in 0 .. Len_ - 2 : Nth(k)' = Nth(k + 1)
        BY <2>2, <3>2, PopRing
      <4>2. Contents # <<>> /\ Head(Contents) = Nth(0)
        BY <2>0, <2>s, <3>2
      <4>3. Contents' = Tail(Contents)
        <5>1. Contents' = [k \in 1 .. Len_ - 1 |-> Nth(k - 1)']
          BY <4>1 DEF Contents
        <5>2. \A k \in 1 .. Len_ - 1 : Nth(k - 1)' = Contents[k + 1] /\ Contents[k + 1] \in Item
          BY <2>0, <2>s, <4>1
        <5>3. Contents' \in Seq(Item) /\ Len(Contents') = Len_ - 1
          BY <2>0, <3>2, <5>1, <5>2
        <5>4. /\ Tail(Contents) \in Seq(Item) /\ Len(Tail(Contents)) = Len_ - 1
              /\ \A k \in 1 .. Len_ - 1 : Tail(Contents)[k] = Contents[k + 1]
          BY <2>s, <4>2, HeadTailProperties
        <5>5. \A k \in 1 .. Len(Contents') : Contents'[k] = Tail(Contents)[k]
          BY <2>0, <5>1, <5>2, <5>3, <5>4
        <5>. QED BY <5>3, <5>4, <5>5, SeqEqual
      <4>. QED BY <4>1, <4>2, <4>3 DEF Fifo!Pop
    <3>. QED BY <3>1, <3>2
  <2>3. CASE UNCHANGED queueVars
    BY <2>3 DEF queueVars, Contents, Len_, Nth
  <2>. QED BY <2>1, <2>2, <2>3 DEF QueueNext, Fifo!Next
<1>. QED BY <1>1, <1>2, RingInvInductive, PTL DEF QueueSpec, ImplementsFifo, Fifo!Spec
-----------------------------------------------------------------------------
\* The task queue, as the scheduler sees it.

\* add_task of a process that is not queued.
LEMMA QueueAppend ==
    ASSUME task_queue \in Seq(Pool), QueuedOnce, NEW x \in Pool, x \notin Queued,
           task_queue' = Append(task_queue, x)
    PROVE  /\ task_queue' \in Seq(Pool)
           /\ Queued' = Queued \cup {x}
           /\ QueuedOnce'
<1>1. PICK n \in Nat : n = Len(task_queue)
  BY LenProperties
<1>2. /\ task_queue' \in Seq(Pool)
      /\ Len(task_queue') = n + 1
      /\ \A k \in 1 .. n : task_queue'[k] = task_queue[k]
      /\ task_queue'[n + 1] = x
  BY <1>1, AppendProperties
<1>3. \A k \in 1 .. n + 1 : k \in 1 .. n \/ k = n + 1
  BY <1>1
<1>4. \A k \in 1 .. n : task_queue[k] \in Queued
  BY <1>1 DEF Queued
<1>5. Queued' = Queued \cup {x}
  <2>1. Queued' = {task_queue'[k] : k \in 1 .. n + 1}
    BY <1>2 DEF Queued
  <2>2. Queued = {task_queue[k] : k \in 1 .. n}
    BY <1>1 DEF Queued
  <2>3. n + 1 \in 1 .. n + 1 /\ \A k \in 1 .. n : k \in 1 .. n + 1
    BY <1>1
  <2>. QED BY <2>1, <2>2, <2>3, <1>2, <1>3
<1>6. QueuedOnce'
  <2> SUFFICES ASSUME NEW j \in 1 .. n + 1, NEW k \in 1 .. n + 1,
                      task_queue'[j] = task_queue'[k]
               PROVE  j = k
    BY <1>2 DEF QueuedOnce
  <2>. QED BY <1>1, <1>2, <1>3, <1>4 DEF QueuedOnce
<1>. QED BY <1>2, <1>5, <1>6

\* fetch_task takes the head out of the queue.
LEMMA QueueTail ==
    ASSUME task_queue \in Seq(Pool), QueuedOnce, task_queue # <<>>,
           task_queue' = Tail(task_queue)
    PROVE  /\ task_queue' \in Seq(Pool)
           /\ Head(task_queue) \in Queued
           /\ Queued' = Queued \ {Head(task_queue)}
           /\ QueuedOnce'
<1>1. PICK n \in Nat : n = Len(task_queue)
  BY LenProperties
<1>2. n # 0
  BY <1>1, EmptySeq
<1>3. Head(task_queue) = task_queue[1]
  OBVIOUS
<1>4. /\ task_queue' \in Seq(Pool)
      /\ Len(task_queue') = n - 1
      /\ \A k \in 1 .. n - 1 : task_queue'[k] = task_queue[k + 1]
  BY <1>1, HeadTailProperties
<1>5. 1 \in 1 .. n
  BY <1>2
<1>6. Queued' = {task_queue[k + 1] : k \in 1 .. n - 1}
  BY <1>4 DEF Queued
<1>7. Queued = {task_queue[k] : k \in 1 .. n}
  BY <1>1 DEF Queued
<1>8. \A k \in 1 .. n : k = 1 \/ (k - 1 \in 1 .. n - 1 /\ (k - 1) + 1 = k)
  OBVIOUS
<1>9. \A k \in 1 .. n - 1 : k + 1 \in 1 .. n /\ k + 1 # 1
  OBVIOUS
<1>10. Queued' = Queued \ {Head(task_queue)}
  <2>1. ASSUME NEW x \in Queued' PROVE x \in Queued /\ x # Head(task_queue)
    BY <1>1, <1>3, <1>5, <1>6, <1>7, <1>9 DEF QueuedOnce
  <2>2. ASSUME NEW x \in Queued, x # Head(task_queue) PROVE x \in Queued'
    BY <2>2, <1>3, <1>6, <1>7, <1>8
  <2>. QED BY <2>1, <2>2
<1>11. QueuedOnce'
  <2> SUFFICES ASSUME NEW j \in 1 .. n - 1, NEW k \in 1 .. n - 1,
                      task_queue'[j] = task_queue'[k]
               PROVE  j = k
    BY <1>4 DEF QueuedOnce
  <2>1. j + 1 = k + 1
    BY <1>1, <1>4, <1>9 DEF QueuedOnce
  <2>. QED BY <2>1
<1>. QED BY <1>3, <1>4, <1>5, <1>7, <1>10, <1>11

\* The queue has room for a process that is not in it: push_queue never panics,
\* because the ring is as long as the pool.
LEMMA QueueRoom ==
    ASSUME task_queue \in Seq(Pool), QueuedOnce, NEW p \in Pool, p \notin Queued
    PROVE  Len(task_queue) # NPROC
<1> SUFFICES ASSUME Len(task_queue) = NPROC PROVE FALSE
  OBVIOUS
<1> DEFINE S == 1 .. NPROC
           T == Pool \ {p}
           f == [k \in S |-> task_queue[k]]
<1>1. IsFiniteSet(S) /\ Cardinality(S) = NPROC
  BY FS_Interval, NPROCAssumption
<1>2. IsFiniteSet(Pool) /\ Cardinality(Pool) = NPROC
  BY FS_Interval, NPROCAssumption DEF Pool
<1>3. IsFiniteSet(T) /\ Cardinality(T) = NPROC - 1
  BY <1>2, FS_RemoveElement
<1>4. Cardinality(T) < Cardinality(S)
  BY <1>1, <1>3, NPROCAssumption
<1>5. f \in [S -> T]
  BY DEF Queued
<1>6. \A j, k \in S : f[j] = f[k] => j = k
  BY DEF QueuedOnce
<1>. QED
  BY <1>1, <1>3, <1>4, <1>5, <1>6, FS_PigeonHole

-----------------------------------------------------------------------------
\* Steps of a thread that keeps its CPU.

\* The process on a CPU is in no other place.
LEMMA OnCpu ==
    ASSUME IInv, NEW c \in CPU, Busy(c)
    PROVE  /\ fetched[c] \in Pool \ Queued
           /\ \A d \in CPU : Busy(d) /\ fetched[d] = fetched[c] => d = c
           /\ HasProc(c) => proc[c] = fetched[c]
BY DEF IInv, TypeOK, PlaceInv, CpuInv

\* The types that the proofs keep using.
LEMMA Types ==
    ASSUME IInv
    PROVE  /\ Queued \subseteq Pool
           /\ \A c \in CPU : fetched[c] \in Pool
           /\ \A p \in Pool : plock[p] \in CPU \cup {NoCpu} /\ np[p] \in Pool
           /\ wait_lock \in CPU \cup {NoCpu}
           /\ init_proc \in Pool
<1>1. task_queue \in Seq(Pool)
  BY DEF IInv, TypeOK
<1>2. Queued \subseteq Pool
  <2>1. \A k \in 1 .. Len(task_queue) : task_queue[k] \in Pool
    BY <1>1, ElementOfSeq
  <2>. QED BY <2>1 DEF Queued
<1>3. init_proc \in Pool
  BY NPROCAssumption DEF init_proc, Pool
<1>. QED BY <1>2, <1>3 DEF IInv, TypeOK

\* A step of the thread on c changes the position and, if it goes through exec, the
\* state of its own process only.
LEMMA ThreadState ==
    ASSUME IInv, NEW c \in CPU, NEW p \in Pool, p = fetched[c], cpc[c] = "run",
           NEW l \in ThreadPC \ {"none", "dead"}, NEW s \in {state[p], "RUNNABLE"},
           \A q \in Pool : pc'[q] = IF q = p THEN l ELSE pc[q],
           \A q \in Pool : state'[q] = IF q = p THEN s ELSE state[q],
           UNCHANGED <<task_queue, proc, cpc, fetched, scan>>
    PROVE  CpuInv' /\ PlaceInv' /\ StateInv'
<1>0. CpuInv /\ PlaceInv /\ StateInv
  BY DEF IInv
<1>a. /\ p \notin Queued
      /\ \A d \in CPU : Busy(d) /\ fetched[d] = p => d = c
  BY OnCpu DEF Busy
<1>b. s \in {"RUNNING", "RUNNABLE"}
  BY <1>0 DEF StateInv, OfCpu
<1>c. Queued' = Queued /\ (QueuedOnce' <=> QueuedOnce)
  BY DEF Queued, QueuedOnce
<1>1. CpuInv' /\ PlaceInv'
  BY <1>0, <1>c DEF CpuInv, PlaceInv, HasProc, Busy
<1>2. OfQueue'
  BY <1>0, <1>a, <1>c, Types DEF StateInv, OfQueue
<1>3. ASSUME NEW d \in CPU PROVE OfCpu(d)'
  <2>0. OfCpu(d) /\ fetched[d] \in Pool /\ (d # c /\ Busy(d) => fetched[d] # p)
    BY <1>0, <1>a, Types DEF StateInv
  <2>1. CASE d = c
    BY <2>0, <2>1, <1>b DEF OfCpu
  <2>2. CASE d # c
    BY <2>0, <2>2 DEF OfCpu, Busy
  <2>. QED BY <2>1, <2>2
<1>4. ASSUME NEW q \in Pool PROVE OfProc(q)'
  <2>1. CASE q = p
    BY <2>1, <1>b DEF OfProc, Busy
  <2>2. CASE q # p
    <3>1. OfProc(q) /\ pc'[q] = pc[q] /\ state'[q] = state[q]
      BY <1>0, <2>2 DEF StateInv
    <3>. QED BY <3>1, <1>c DEF OfProc, Busy
  <2>. QED BY <2>1, <2>2
<1>. QED BY <1>1, <1>2, <1>3, <1>4 DEF StateInv

\* ... and the locks that belong to its old and to its new position.
LEMMA ThreadLocks ==
    ASSUME IInv, NEW c \in CPU, NEW p \in Pool, p = fetched[c], cpc[c] = "run",
           NEW l \in ThreadPC \ {"fork"}, pc[p] # "fork",
           \A q \in Pool : pc'[q] = IF q = p THEN l ELSE pc[q],
           \A q \in Pool \ {p} : np'[q] = np[q],
           l \in OwnLock => plock[p] \in {NoCpu, c},
           \A q \in Pool : plock'[q] = IF q # p THEN plock[q] ELSE IF l \in OwnLock THEN c
                                       ELSE IF pc[p] \in OwnLock THEN NoCpu ELSE plock[p],
           l \in WaitLock => wait_lock \in {NoCpu, c},
           wait_lock' = IF l \in WaitLock THEN c
                        ELSE IF pc[p] \in WaitLock THEN NoCpu ELSE wait_lock,
           UNCHANGED <<cpc, fetched>>
    PROVE  LockInv'
<1>0. LockInv
  BY DEF IInv
<1>a. \A d \in CPU : Busy(d) /\ fetched[d] = p => d = c
  BY OnCpu DEF Busy
<1>1. ASSUME NEW d \in CPU, NEW q \in Pool
      PROVE  plock'[q] = d <=> HoldsOwn(d, q)' \/ HoldsNew(d, q)'
  <2>0. /\ plock[q] = d <=> HoldsOwn(d, q) \/ HoldsNew(d, q)
        /\ plock[q] = c <=> HoldsOwn(c, q) \/ HoldsNew(c, q)
        /\ fetched[d] \in Pool /\ (d # c /\ Busy(d) => fetched[d] # p)
        /\ plock[q] \in CPU \cup {NoCpu}
    BY <1>0, <1>a, Types DEF LockInv
  <2>1. CASE d = c
    BY <2>0, <2>1, CPUAssumption DEF HoldsOwn, HoldsNew
  <2>2. CASE d # c
    BY <2>0, <2>2, CPUAssumption DEF HoldsOwn, HoldsNew, Busy
  <2>. QED BY <2>1, <2>2
<1>2. ASSUME NEW d \in CPU
      PROVE  wait_lock' = d <=> HoldsWait(d)'
  <2>0. /\ wait_lock = d <=> HoldsWait(d)
        /\ wait_lock = c <=> HoldsWait(c)
        /\ fetched[d] \in Pool /\ (d # c /\ Busy(d) => fetched[d] # p)
    BY <1>0, <1>a, Types DEF LockInv
  <2>. QED BY <2>0, CPUAssumption DEF HoldsWait, Busy
<1>. QED BY <1>1, <1>2 DEF LockInv

\* ... and only its own locals.
LEMMA ThreadLocals ==
    ASSUME IInv, NEW c \in CPU, NEW p \in Pool, p = fetched[c], cpc[c] = "run",
           NEW l \in ThreadPC \ {"fork", "forked"}, NEW s \in {state[p], "RUNNABLE"},
           \A q \in Pool : pc'[q] = IF q = p THEN l ELSE pc[q],
           \A q \in Pool : state'[q] = IF q = p THEN s ELSE state[q],
           \A q \in Pool \ {p} : i'[q] = i[q] /\ np'[q] = np[q],
           l = "alloc" => i'[p] \in Pool,
           l = "reparent" => i'[p] = 0,
           UNCHANGED parent
    PROVE  LocalInv' /\ InitInv' /\ ParentAlive' /\ ForkedChildStays'
<1>0. LocalInv /\ InitInv /\ ParentAlive /\ ForkedChildStays
  BY DEF IInv
<1>a. state[p] \in {"RUNNING", "RUNNABLE"}
  BY DEF IInv, StateInv, OfCpu
<1>b. \A q \in Pool : np[q] \in Pool
  BY Types
<1>1. LocalInv'
  <2> SUFFICES ASSUME NEW q \in Pool
               PROVE  /\ pc'[q] = "alloc" => i'[q] \in Pool
                      /\ pc'[q] = "fork" => state'[np'[q]] = "USED"
                      /\ pc'[q] = "reparent" /\ q # init_proc =>
                            \A n \in Pool : n < i'[q] => parent[n] # q
    BY DEF LocalInv
  <2>1. CASE q = p
    <3>1. \A n \in Pool : ~(n < 0)
      BY NPROCAssumption DEF Pool
    <3>. QED BY <2>1, <3>1
  <2>2. CASE q # p
    BY <1>0, <1>a, <1>b, <2>2 DEF LocalInv
  <2>. QED BY <2>1, <2>2
<1>2. InitInv'
  BY <1>0, <1>a, Types DEF InitInv
<1>3. ParentAlive'
  BY <1>0, <1>a DEF ParentAlive
<1>4. ForkedChildStays'
  BY <1>0, <1>a, <1>b DEF ForkedChildStays
<1>. QED BY <1>1, <1>2, <1>3, <1>4

\* The thread of p, on c, goes to l: all that the three lemmas above ask for.
ThreadStep(c, p, l, s) ==
    /\ p \in Pool /\ p = fetched[c] /\ cpc[c] = "run" /\ pc[p] # "fork"
    /\ l \in ThreadPC \ {"none", "dead", "fork", "forked"} /\ s \in {state[p], "RUNNABLE"}
    /\ \A q \in Pool : pc'[q] = IF q = p THEN l ELSE pc[q]
    /\ \A q \in Pool : state'[q] = IF q = p THEN s ELSE state[q]
    /\ \A q \in Pool \ {p} : i'[q] = i[q] /\ np'[q] = np[q]
    /\ l = "alloc" => i'[p] \in Pool
    /\ l = "reparent" => i'[p] = 0
    /\ l \in OwnLock => plock[p] \in {NoCpu, c}
    /\ \A q \in Pool : plock'[q] = IF q # p THEN plock[q] ELSE IF l \in OwnLock THEN c
                                   ELSE IF pc[p] \in OwnLock THEN NoCpu ELSE plock[p]
    /\ l \in WaitLock => wait_lock \in {NoCpu, c}
    /\ wait_lock' = IF l \in WaitLock THEN c
                    ELSE IF pc[p] \in WaitLock THEN NoCpu ELSE wait_lock
    /\ UNCHANGED <<parent, task_queue, proc, cpc, fetched, scan>>

\* Such a step keeps the invariant.
LEMMA ThreadStepInv ==
    ASSUME IInv, TypeOK', NEW c \in CPU, NEW p, NEW l, NEW s, ThreadStep(c, p, l, s)
    PROVE  IInv'
<1>1. CpuInv' /\ PlaceInv' /\ StateInv'
  BY ThreadState DEF ThreadStep
<1>2. LockInv'
  BY ThreadLocks DEF ThreadStep
<1>3. LocalInv' /\ InitInv' /\ ParentAlive' /\ ForkedChildStays'
  BY ThreadLocals DEF ThreadStep
<1>. QED BY <1>1, <1>2, <1>3 DEF IInv

\* Where a thread is when one of its actions is enabled.
LEMMA AtThread ==
    ASSUME IInv, NEW c \in CPU, cpc[c] = "run"
    PROVE  fetched[c] \in Pool /\ proc[c] = fetched[c]
BY Types DEF IInv, CpuInv, HasProc

-----------------------------------------------------------------------------
\* sched(): the thread gives up its CPU.

\* The positions at which a thread leaves, and the state it leaves with.
Leaves(l, s) ==
    \/ l = "yielded" /\ s = "RUNNABLE"
    \/ l = "woken" /\ s = "SLEEPING"
    \/ l = "dead" /\ s = "ZOMBIE"

\* The thread of p, on c, leaves at l with state s.
SchedStep(c, p, l, s) ==
    /\ p \in Pool /\ p = fetched[c] /\ cpc[c] = "run" /\ pc[p] # "fork"
    /\ Leaves(l, s) /\ sched(c, p, l)
    /\ l = "dead" /\ p # init_proc => \A n \in Pool : parent[n] # p
    /\ \A q \in Pool : state'[q] = IF q = p THEN s ELSE state[q]
    /\ \A q \in Pool \ {p} : i'[q] = i[q]
    /\ plock[p] \in {NoCpu, c}
    /\ \A q \in Pool : plock'[q] = IF q = p THEN c ELSE plock[q]
    /\ wait_lock' = IF pc[p] \in WaitLock THEN NoCpu ELSE wait_lock
    /\ UNCHANGED <<parent, np, task_queue, proc, fetched, scan>>

\* With p->lock and no other lock, none of the panics of sched() is taken.
LEMMA SchedCpu ==
    ASSUME IInv, NEW c \in CPU, NEW p, NEW l, NEW s, SchedStep(c, p, l, s)
    PROVE  /\ cpc' = [cpc EXCEPT ![c] = "back"]
           /\ pc' = [pc EXCEPT ![p] = l]
<1>a. /\ p \in Pool /\ p = fetched[c] /\ cpc[c] = "run" /\ pc[p] # "fork"
      /\ Leaves(l, s) /\ sched(c, p, l) /\ state'[p] = s
      /\ \A q \in Pool : plock'[q] = IF q = p THEN c ELSE plock[q]
      /\ wait_lock' = IF pc[p] \in WaitLock THEN NoCpu ELSE wait_lock
  BY DEF SchedStep
<1>0. LockInv
  BY DEF IInv
<1>1. \A q \in Pool : plock'[q] = c <=> q = p
  BY <1>0, <1>a DEF LockInv, HoldsOwn, HoldsNew
<1>2. {q \in Pool : plock'[q] = c} = {p}
  BY <1>1, <1>a
<1>3. wait_lock' # c
  BY <1>0, <1>a, CPUAssumption DEF LockInv, HoldsWait
<1>4. Cardinality({p}) = 1
  BY FS_Singleton
<1>5. noff(c)' = 1
  <2>1. noff(c)' = Cardinality({q \in Pool : plock'[q] = c}) + (IF wait_lock' = c THEN 1 ELSE 0)
    BY DEF noff
  <2>. QED BY <2>1, <1>2, <1>3, <1>4
<1>6. s # "RUNNING"
  BY <1>a DEF Leaves
<1>7. plock'[p] = c
  BY <1>a
<1>. QED BY <1>a, <1>5, <1>6, <1>7 DEF sched, CpuGoto, Goto

\* The scheduler of c gets the process back.
LEMMA SchedState ==
    ASSUME IInv, NEW c \in CPU, NEW p \in Pool, p = fetched[c], cpc[c] = "run",
           NEW l, NEW s, Leaves(l, s),
           \A d \in CPU : cpc'[d] = IF d = c THEN "back" ELSE cpc[d],
           \A q \in Pool : pc'[q] = IF q = p THEN l ELSE pc[q],
           \A q \in Pool : state'[q] = IF q = p THEN s ELSE state[q],
           UNCHANGED <<task_queue, proc, fetched, scan>>
    PROVE  CpuInv' /\ PlaceInv' /\ StateInv'
<1>0. CpuInv /\ PlaceInv /\ StateInv
  BY DEF IInv
<1>a. /\ p \notin Queued
      /\ \A d \in CPU : Busy(d) /\ fetched[d] = p => d = c
  BY OnCpu DEF Busy
<1>b. /\ Queued' = Queued /\ (QueuedOnce' <=> QueuedOnce)
      /\ \A d \in CPU : (Busy(d)' <=> Busy(d)) /\ (HasProc(d)' <=> HasProc(d))
  <2>1. Queued' = Queued /\ (QueuedOnce' <=> QueuedOnce)
    BY DEF Queued, QueuedOnce
  <2>2. \A d \in CPU : (Busy(d)' <=> Busy(d)) /\ (HasProc(d)' <=> HasProc(d))
    BY DEF Busy, HasProc
  <2>. QED BY <2>1, <2>2
<1>1. CpuInv'
  <2> SUFFICES ASSUME NEW d \in CPU
               PROVE  /\ cpc'[d] \notin {"panic", "panic: dead"}
                      /\ scan'[d] = 0
                      /\ proc'[d] = IF HasProc(d)' THEN fetched'[d] ELSE NoProc
    BY DEF CpuInv
  <2>. QED BY <1>0, <1>b DEF CpuInv
<1>2. PlaceInv'
  BY <1>0, <1>b DEF PlaceInv
<1>3. OfQueue'
  BY <1>0, <1>a, <1>b, Types DEF StateInv, OfQueue
<1>4. ASSUME NEW d \in CPU PROVE OfCpu(d)'
  <2>0. OfCpu(d) /\ fetched[d] \in Pool /\ (d # c /\ Busy(d) => fetched[d] # p)
    BY <1>0, <1>a, Types DEF StateInv
  <2>1. CASE d = c
    BY <2>0, <2>1 DEF OfCpu, Leaves
  <2>2. CASE d # c
    BY <2>0, <2>2 DEF OfCpu, Busy
  <2>. QED BY <2>1, <2>2
<1>5. ASSUME NEW q \in Pool PROVE OfProc(q)'
  <2>1. CASE q = p
    BY <2>1 DEF OfProc, Busy, Leaves, Active, Resumes
  <2>2. CASE q # p
    <3>1. OfProc(q) /\ pc'[q] = pc[q] /\ state'[q] = state[q]
      BY <1>0, <2>2 DEF StateInv
    <3>2. \A d \in CPU : fetched[d] = q => d # c
      BY <2>2
    <3>. QED BY <3>1, <3>2, <1>b DEF OfProc
  <2>. QED BY <2>1, <2>2
<1>. QED BY <1>1, <1>2, <1>3, <1>4, <1>5 DEF StateInv

\* ... with p->lock still held.
LEMMA SchedLocks ==
    ASSUME IInv, NEW c \in CPU, NEW p \in Pool, p = fetched[c], cpc[c] = "run",
           NEW l, NEW s, Leaves(l, s), pc[p] # "fork", plock[p] \in {NoCpu, c},
           \A d \in CPU : cpc'[d] = IF d = c THEN "back" ELSE cpc[d],
           \A q \in Pool : pc'[q] = IF q = p THEN l ELSE pc[q],
           \A q \in Pool : plock'[q] = IF q = p THEN c ELSE plock[q],
           wait_lock' = IF pc[p] \in WaitLock THEN NoCpu ELSE wait_lock,
           UNCHANGED <<fetched, np>>
    PROVE  LockInv'
<1>0. LockInv
  BY DEF IInv
<1>a. \A d \in CPU : Busy(d) /\ fetched[d] = p => d = c
  BY OnCpu DEF Busy
<1>1. ASSUME NEW d \in CPU, NEW q \in Pool
      PROVE  plock'[q] = d <=> HoldsOwn(d, q)' \/ HoldsNew(d, q)'
  <2>0. /\ plock[q] = d <=> HoldsOwn(d, q) \/ HoldsNew(d, q)
        /\ plock[q] = c <=> HoldsOwn(c, q) \/ HoldsNew(c, q)
        /\ fetched[d] \in Pool /\ (d # c /\ Busy(d) => fetched[d] # p)
        /\ plock[q] \in CPU \cup {NoCpu}
    BY <1>0, <1>a, Types DEF LockInv
  <2>1. CASE d = c
    BY <2>0, <2>1, CPUAssumption DEF HoldsOwn, HoldsNew
  <2>2. CASE d # c
    BY <2>0, <2>2, CPUAssumption DEF HoldsOwn, HoldsNew, Busy
  <2>. QED BY <2>1, <2>2
<1>2. ASSUME NEW d \in CPU
      PROVE  wait_lock' = d <=> HoldsWait(d)'
  <2>0. /\ wait_lock = d <=> HoldsWait(d)
        /\ wait_lock = c <=> HoldsWait(c)
        /\ fetched[d] \in Pool /\ (d # c /\ Busy(d) => fetched[d] # p)
    BY <1>0, <1>a, Types DEF LockInv
  <2>. QED BY <2>0, CPUAssumption DEF HoldsWait, Busy
<1>. QED BY <1>1, <1>2 DEF LockInv

\* ... and, if the process exits, without children.
LEMMA SchedLocals ==
    ASSUME IInv, NEW c \in CPU, NEW p \in Pool, p = fetched[c], cpc[c] = "run",
           NEW l, NEW s, Leaves(l, s),
           l = "dead" /\ p # init_proc => \A n \in Pool : parent[n] # p,
           \A q \in Pool : pc'[q] = IF q = p THEN l ELSE pc[q],
           \A q \in Pool : state'[q] = IF q = p THEN s ELSE state[q],
           \A q \in Pool \ {p} : i'[q] = i[q],
           UNCHANGED <<parent, np>>
    PROVE  LocalInv' /\ InitInv' /\ ParentAlive' /\ ForkedChildStays'
<1>0. LocalInv /\ InitInv /\ ParentAlive /\ ForkedChildStays
  BY DEF IInv
<1>a. state[p] \in {"RUNNING", "RUNNABLE"}
  BY DEF IInv, StateInv, OfCpu
<1>b. (\A q \in Pool : np[q] \in Pool) /\ s \in {"RUNNABLE", "SLEEPING", "ZOMBIE"}
  BY Types DEF Leaves
<1>1. LocalInv'
  <2> SUFFICES ASSUME NEW q \in Pool
               PROVE  /\ pc'[q] = "alloc" => i'[q] \in Pool
                      /\ pc'[q] = "fork" => state'[np'[q]] = "USED"
                      /\ pc'[q] = "reparent" /\ q # init_proc =>
                            \A n \in Pool : n < i'[q] => parent[n] # q
    BY DEF LocalInv
  <2>1. CASE q = p
    BY <2>1 DEF Leaves
  <2>2. CASE q # p
    BY <1>0, <1>a, <1>b, <2>2 DEF LocalInv
  <2>. QED BY <2>1, <2>2
<1>2. InitInv'
  BY <1>0, <1>b, Types DEF InitInv
<1>3. ParentAlive'
  <2> SUFFICES ASSUME NEW q \in Pool \ {init_proc}, state'[q] \notin {"UNUSED", "USED"}
               PROVE  /\ parent[q] \in Pool \ {q}
                      /\ state'[parent[q]] \notin {"UNUSED", "USED"}
                      /\ state'[parent[q]] = "ZOMBIE" => parent[q] = init_proc
    BY DEF ParentAlive
  <2>1. /\ parent[q] \in Pool \ {q}
        /\ state[parent[q]] \notin {"UNUSED", "USED"}
        /\ state[parent[q]] = "ZOMBIE" => parent[q] = init_proc
    BY <1>0, <1>a DEF ParentAlive
  <2>2. s = "ZOMBIE" /\ p # init_proc => parent[q] # p
    BY DEF Leaves
  <2>. QED BY <2>1, <2>2, <1>b
<1>4. ForkedChildStays'
  BY <1>0, <1>b DEF ForkedChildStays, Leaves
<1>. QED BY <1>1, <1>2, <1>3, <1>4

\* Every way to leave the CPU keeps the invariant.
LEMMA SchedStepInv ==
    ASSUME IInv, NEW c \in CPU, NEW p, NEW l, NEW s, SchedStep(c, p, l, s),
           UNCHANGED <<pid, PID, havekids, wpid>>,
           sleep_chan' \in [Pool -> Pool \cup {NoProc}], i' \in [Pool -> 0 .. NPROC],
           state' \in [Pool -> ProcState], plock' \in [Pool -> CPU \cup {NoCpu}]
    PROVE  IInv'
<1>1. cpc' = [cpc EXCEPT ![c] = "back"] /\ pc' = [pc EXCEPT ![p] = l]
  BY SchedCpu
<1>2. TypeOK
  BY DEF IInv
<1>3. /\ \A d \in CPU : cpc'[d] = IF d = c THEN "back" ELSE cpc[d]
      /\ \A q \in Pool : pc'[q] = IF q = p THEN l ELSE pc[q]
  BY <1>1, <1>2 DEF TypeOK
<1>4. TypeOK'
  <2>1. l \in ThreadPC /\ "back" \in CpuPC
    BY DEF SchedStep, Leaves, ThreadPC, CpuPC
  <2>2. wait_lock' \in CPU \cup {NoCpu}
    BY <1>2 DEF TypeOK, SchedStep
  <2>. QED BY <1>1, <1>2, <2>1, <2>2 DEF TypeOK, SchedStep
<1>5. CpuInv' /\ PlaceInv' /\ StateInv'
  BY <1>3, SchedState DEF SchedStep
<1>6. LockInv'
  BY <1>3, SchedLocks DEF SchedStep
<1>7. LocalInv' /\ InitInv' /\ ParentAlive' /\ ForkedChildStays'
  BY <1>3, SchedLocals DEF SchedStep
<1>. QED BY <1>4, <1>5, <1>6, <1>7 DEF IInv

-----------------------------------------------------------------------------
\* The actions of a thread that keeps its CPU.

\* The positions without p->lock, with it, and those under wait_lock.
LEMMA Constants ==
    /\ ThreadPC = {"none", "first", "user", "getppid", "yielded", "alloc", "fork", "forked",
                   "wait", "scan", "sleep", "sleeping", "woken", "rewait",
                   "exit", "wakeup", "reparent", "dead"}
    /\ OwnLock = {"first", "yielded", "woken", "sleeping", "reparent"}
    /\ WaitLock = {"scan", "sleep", "sleeping", "wakeup", "reparent"}
    /\ Resumes = {"first", "yielded", "woken"}
    /\ 0 \in Pool /\ 0 \in 0 .. NPROC
<1>1. 0 \in Pool /\ 0 \in 0 .. NPROC
  BY NPROCAssumption DEF Pool
<1>. QED BY <1>1 DEF ThreadPC, OwnLock, WaitLock, Resumes

\* fork() begins: allocproc will look at the pool from slot 0.
LEMMA Step_fork ==
    ASSUME IInv, NEW c \in CPU, fork(c)
    PROVE  IInv'
<1>0. TypeOK
  BY DEF IInv
<1>a. PICK p \in Pool : p = fetched[c] /\ proc[c] = p /\ cpc[c] = "run" /\ pc[p] = "user"
  BY AtThread DEF fork, At
<1>b. /\ i' = [i EXCEPT ![p] = 0]
      /\ pc' = [pc EXCEPT ![p] = "alloc"]
      /\ UNCHANGED <<state, pid, parent, sleep_chan, plock, wait_lock, task_queue, PID, proc,
                     cpc, fetched, scan, np, havekids, wpid>>
  BY <1>a DEF fork, Goto, procVars, lockVars, localVars
<1>1. ThreadStep(c, p, "alloc", state[p])
  BY <1>0, <1>a, <1>b, Constants DEF ThreadStep, TypeOK
<1>2. TypeOK'
  BY <1>0, <1>a, <1>b, Constants DEF TypeOK
<1>. QED BY <1>1, <1>2, ThreadStepInv

\* fork() returns the pid of the child.
LEMMA Step_fork_return ==
    ASSUME IInv, NEW c \in CPU, fork_return(c)
    PROVE  IInv'
<1>0. TypeOK
  BY DEF IInv
<1>a. PICK p \in Pool : p = fetched[c] /\ proc[c] = p /\ cpc[c] = "run" /\ pc[p] = "forked"
  BY AtThread DEF fork_return, At
<1>b. /\ np' = [np EXCEPT ![p] = 0]
      /\ pc' = [pc EXCEPT ![p] = "user"]
      /\ UNCHANGED <<state, pid, parent, sleep_chan, plock, wait_lock, task_queue, PID, proc,
                     cpc, fetched, scan, i, havekids, wpid>>
  BY <1>a DEF fork_return, Goto, procVars, lockVars, localVars
<1>1. ThreadStep(c, p, "user", state[p])
  BY <1>0, <1>a, <1>b, Constants DEF ThreadStep, TypeOK
<1>2. TypeOK'
  BY <1>0, <1>a, <1>b, Constants DEF TypeOK
<1>. QED BY <1>1, <1>2, ThreadStepInv

\* getppid() reads p->parent ...
LEMMA Step_getppid ==
    ASSUME IInv, NEW c \in CPU, getppid(c)
    PROVE  IInv'
<1>0. TypeOK
  BY DEF IInv
<1>a. PICK p \in Pool : p = fetched[c] /\ proc[c] = p /\ cpc[c] = "run" /\ pc[p] = "user" /\ parent[p] # NoProc
  BY AtThread DEF getppid, At
<1>b. /\ np' = [np EXCEPT ![p] = parent[p]]
      /\ pc' = [pc EXCEPT ![p] = "getppid"]
      /\ UNCHANGED <<state, pid, parent, sleep_chan, plock, wait_lock, task_queue, PID, proc,
                     cpc, fetched, scan, i, havekids, wpid>>
  BY <1>a DEF getppid, Goto, procVars, lockVars, localVars
<1>1. ThreadStep(c, p, "getppid", state[p])
  BY <1>0, <1>a, <1>b, Constants DEF ThreadStep, TypeOK
<1>2. TypeOK'
  BY <1>0, <1>a, <1>b, Constants DEF TypeOK
<1>. QED BY <1>1, <1>2, ThreadStepInv

\* ... and the pid of that process.
LEMMA Step_getppid_return ==
    ASSUME IInv, NEW c \in CPU, getppid_return(c)
    PROVE  IInv'
<1>0. TypeOK
  BY DEF IInv
<1>a. PICK p \in Pool : p = fetched[c] /\ proc[c] = p /\ cpc[c] = "run" /\ pc[p] = "getppid"
  BY AtThread DEF getppid_return, At
<1>b. /\ np' = [np EXCEPT ![p] = 0]
      /\ pc' = [pc EXCEPT ![p] = "user"]
      /\ UNCHANGED <<state, pid, parent, sleep_chan, plock, wait_lock, task_queue, PID, proc,
                     cpc, fetched, scan, i, havekids, wpid>>
  BY <1>a DEF getppid_return, Goto, procVars, lockVars, localVars
<1>1. ThreadStep(c, p, "user", state[p])
  BY <1>0, <1>a, <1>b, Constants DEF ThreadStep, TypeOK
<1>2. TypeOK'
  BY <1>0, <1>a, <1>b, Constants DEF TypeOK
<1>. QED BY <1>1, <1>2, ThreadStepInv

\* wait() begins.
LEMMA Step_wait ==
    ASSUME IInv, NEW c \in CPU, NEW w \in WaitPid, wait(c, w)
    PROVE  IInv'
<1>0. TypeOK
  BY DEF IInv
<1>a. PICK p \in Pool : p = fetched[c] /\ proc[c] = p /\ cpc[c] = "run" /\ pc[p] = "user"
  BY AtThread DEF wait, At
<1>b. /\ wpid' = [wpid EXCEPT ![p] = w]
      /\ pc' = [pc EXCEPT ![p] = "wait"]
      /\ UNCHANGED <<state, pid, parent, sleep_chan, plock, wait_lock, task_queue, PID, proc,
                     cpc, fetched, scan, i, np, havekids>>
  BY <1>a DEF wait, Goto, procVars, lockVars, localVars
<1>1. ThreadStep(c, p, "wait", state[p])
  BY <1>0, <1>a, <1>b, Constants DEF ThreadStep, TypeOK
<1>2. TypeOK'
  BY <1>0, <1>a, <1>b, Constants DEF TypeOK
<1>. QED BY <1>1, <1>2, ThreadStepInv

\* wait() takes wait_lock.
LEMMA Step_wait_acquire ==
    ASSUME IInv, NEW c \in CPU, wait_acquire(c)
    PROVE  IInv'
<1>0. TypeOK
  BY DEF IInv
<1>a. PICK p \in Pool : p = fetched[c] /\ proc[c] = p /\ cpc[c] = "run" /\ pc[p] \in {"wait", "rewait"} /\ wait_lock = NoCpu
  BY AtThread DEF wait_acquire, At
<1>b. /\ i' = [i EXCEPT ![p] = 0]
      /\ havekids' = [havekids EXCEPT ![p] = FALSE]
      /\ pc' = [pc EXCEPT ![p] = "scan"]
      /\ wait_lock' = c
      /\ UNCHANGED <<state, pid, parent, sleep_chan, plock, task_queue, PID, proc, cpc,
                     fetched, scan, np, wpid>>
  BY <1>a DEF wait_acquire, Goto, procVars, lockVars, localVars
<1>1. ThreadStep(c, p, "scan", state[p])
  BY <1>0, <1>a, <1>b, Constants DEF ThreadStep, TypeOK
<1>2. TypeOK'
  BY <1>0, <1>a, <1>b, Constants DEF TypeOK
<1>. QED BY <1>1, <1>2, ThreadStepInv

\* sleep() takes p->lock under wait_lock.
LEMMA Step_sleep_lock ==
    ASSUME IInv, NEW c \in CPU, sleep_lock(c)
    PROVE  IInv'
<1>0. TypeOK
  BY DEF IInv
<1>a. PICK p \in Pool : p = fetched[c] /\ proc[c] = p /\ cpc[c] = "run" /\ pc[p] = "sleep" /\ plock[p] = NoCpu
  BY AtThread DEF sleep_lock, At, Free
<1>c. wait_lock = c
  BY <1>a, Constants DEF IInv, LockInv, HoldsWait
<1>b. /\ plock' = [plock EXCEPT ![p] = c]
      /\ pc' = [pc EXCEPT ![p] = "sleeping"]
      /\ UNCHANGED <<state, pid, parent, sleep_chan, wait_lock, task_queue, PID, proc, cpc,
                     fetched, scan, i, np, havekids, wpid>>
  BY <1>a DEF sleep_lock, Goto, procVars, lockVars, localVars
<1>1. ThreadStep(c, p, "sleeping", state[p])
  BY <1>0, <1>a, <1>b, <1>c, Constants DEF ThreadStep, TypeOK
<1>2. TypeOK'
  BY <1>0, <1>a, <1>b, Constants DEF TypeOK
<1>. QED BY <1>1, <1>2, ThreadStepInv

\* exit() begins.
LEMMA Step_exit ==
    ASSUME IInv, NEW c \in CPU, exit(c)
    PROVE  IInv'
<1>0. TypeOK
  BY DEF IInv
<1>a. PICK p \in Pool : p = fetched[c] /\ proc[c] = p /\ cpc[c] = "run" /\ pc[p] = "user"
  BY AtThread DEF exit, At
<1>b. /\ pc' = [pc EXCEPT ![p] = "exit"]
      /\ UNCHANGED <<state, pid, parent, sleep_chan, plock, wait_lock, task_queue, PID, proc,
                     cpc, fetched, scan, i, np, havekids, wpid>>
  BY <1>a DEF exit, Goto, procVars, lockVars, localVars
<1>1. ThreadStep(c, p, "exit", state[p])
  BY <1>0, <1>a, <1>b, Constants DEF ThreadStep, TypeOK
<1>2. TypeOK'
  BY <1>0, <1>a, <1>b, Constants DEF TypeOK
<1>. QED BY <1>1, <1>2, ThreadStepInv

\* exit() takes wait_lock.
LEMMA Step_exit_acquire ==
    ASSUME IInv, NEW c \in CPU, exit_acquire(c)
    PROVE  IInv'
<1>0. TypeOK
  BY DEF IInv
<1>a. PICK p \in Pool : p = fetched[c] /\ proc[c] = p /\ cpc[c] = "run" /\ pc[p] = "exit" /\ wait_lock = NoCpu
  BY AtThread DEF exit_acquire, At
<1>b. /\ pc' = [pc EXCEPT ![p] = "wakeup"]
      /\ wait_lock' = c
      /\ i' = [i EXCEPT ![p] = 0]
      /\ UNCHANGED <<state, pid, parent, sleep_chan, plock, task_queue, PID, proc, cpc,
                     fetched, scan, np, havekids, wpid>>
  BY <1>a DEF exit_acquire, Goto, procVars, lockVars, localVars
<1>1. ThreadStep(c, p, "wakeup", state[p])
  BY <1>0, <1>a, <1>b, Constants DEF ThreadStep, TypeOK
<1>2. TypeOK'
  BY <1>0, <1>a, <1>b, Constants DEF TypeOK
<1>. QED BY <1>1, <1>2, ThreadStepInv

\* exit() takes p->lock and starts to reparent.
LEMMA Step_exit_lock ==
    ASSUME IInv, NEW c \in CPU, exit_lock(c)
    PROVE  IInv'
<1>0. TypeOK
  BY DEF IInv
<1>a. PICK p \in Pool : p = fetched[c] /\ proc[c] = p /\ cpc[c] = "run" /\ pc[p] = "wakeup" /\ plock[p] = NoCpu
  BY AtThread DEF exit_lock, At, Free
<1>c. wait_lock = c
  BY <1>a, Constants DEF IInv, LockInv, HoldsWait
<1>b. /\ plock' = [plock EXCEPT ![p] = c]
      /\ i' = [i EXCEPT ![p] = 0]
      /\ pc' = [pc EXCEPT ![p] = "reparent"]
      /\ UNCHANGED <<state, pid, parent, sleep_chan, wait_lock, task_queue, PID, proc, cpc,
                     fetched, scan, np, havekids, wpid>>
  BY <1>a DEF exit_lock, Goto, procVars, lockVars, localVars
<1>1. ThreadStep(c, p, "reparent", state[p])
  BY <1>0, <1>a, <1>b, <1>c, Constants DEF ThreadStep, TypeOK
<1>2. TypeOK'
  BY <1>0, <1>a, <1>b, Constants DEF TypeOK
<1>. QED BY <1>1, <1>2, ThreadStepInv

\* A thread that comes out of the scheduler holds its p->lock, and gives it back.
LEMMA Step_sched_return ==
    ASSUME IInv, NEW c \in CPU, sched_return(c)
    PROVE  IInv'
<1>0. TypeOK
  BY DEF IInv
<1>a. PICK p \in Pool : /\ p = fetched[c] /\ proc[c] = p /\ cpc[c] = "run"
                        /\ pc[p] \in {"first", "yielded"}
  BY AtThread DEF sched_return, At
<1>b. plock[p] = c
  BY <1>a, Constants DEF IInv, LockInv, HoldsOwn
<1>c. /\ plock' = [plock EXCEPT ![p] = NoCpu]
      /\ pc' = [pc EXCEPT ![p] = "user"]
      /\ UNCHANGED <<state, pid, parent, sleep_chan, wait_lock, task_queue, PID, proc, cpc,
                     fetched, scan, i, np, havekids, wpid>>
  BY <1>a, <1>b DEF sched_return, Goto, procVars, localVars
<1>1. ThreadStep(c, p, "user", state[p])
  BY <1>0, <1>a, <1>c, Constants DEF ThreadStep, TypeOK
<1>2. TypeOK'
  BY <1>0, <1>c, Constants DEF TypeOK
<1>. QED BY <1>1, <1>2, ThreadStepInv

\* exec marks the running process RUNNABLE; it stays on its CPU and off the queue.
LEMMA Step_exec ==
    ASSUME IInv, NEW c \in CPU, exec(c)
    PROVE  IInv'
<1>0. TypeOK
  BY DEF IInv
<1>a. PICK p \in Pool : p = fetched[c] /\ proc[c] = p /\ cpc[c] = "run" /\ pc[p] = "user"
  BY AtThread DEF exec, At
<1>b. /\ state' = [state EXCEPT ![p] = "RUNNABLE"]
      /\ UNCHANGED <<pid, parent, sleep_chan, plock, wait_lock, task_queue, PID, proc, cpc,
                     fetched, scan, pc, i, np, havekids, wpid>>
  BY <1>a DEF exec, lockVars, localVars
<1>1. ThreadStep(c, p, "user", "RUNNABLE")
  BY <1>0, <1>a, <1>b, Constants DEF ThreadStep, TypeOK
<1>2. TypeOK'
  BY <1>0, <1>b DEF TypeOK, ProcState
<1>. QED BY <1>1, <1>2, ThreadStepInv

\* wait() goes on to the next slot.
LEMMA Step_wait_scan ==
    ASSUME IInv, NEW c \in CPU, wait_scan(c)
    PROVE  IInv'
<1>0. TypeOK
  BY DEF IInv
<1>a. PICK p \in Pool : /\ p = fetched[c] /\ proc[c] = p /\ cpc[c] = "run" /\ pc[p] = "scan"
                        /\ i[p] < NPROC
  BY AtThread DEF wait_scan, At
<1>b. PICK h \in BOOLEAN :
      /\ havekids' = [havekids EXCEPT ![p] = h]
      /\ i' = [i EXCEPT ![p] = i[p] + 1]
      /\ UNCHANGED <<state, pid, parent, sleep_chan, plock, wait_lock, task_queue, PID, proc,
                     cpc, fetched, scan, pc, np, wpid>>
  BY <1>0, <1>a DEF wait_scan, procVars, lockVars, TypeOK
<1>c. wait_lock = c
  BY <1>a, Constants DEF IInv, LockInv, HoldsWait
<1>d. i[p] + 1 \in 0 .. NPROC
  BY <1>0, <1>a, NPROCAssumption DEF TypeOK
<1>1. ThreadStep(c, p, "scan", state[p])
  BY <1>0, <1>a, <1>b, <1>c, Constants DEF ThreadStep, TypeOK
<1>2. TypeOK'
  BY <1>0, <1>b, <1>d DEF TypeOK
<1>. QED BY <1>1, <1>2, ThreadStepInv

\* The scan ends: wait() returns, or goes to sleep with wait_lock held.
LEMMA Step_wait_end ==
    ASSUME IInv, NEW c \in CPU, wait_end(c)
    PROVE  IInv'
<1>0. TypeOK
  BY DEF IInv
<1>a. PICK p \in Pool : p = fetched[c] /\ proc[c] = p /\ cpc[c] = "run" /\ pc[p] = "scan"
  BY AtThread DEF wait_end, At
<1>b. /\ i' = [i EXCEPT ![p] = 0]
      /\ havekids' = [havekids EXCEPT ![p] = FALSE]
      /\ UNCHANGED <<state, pid, parent, sleep_chan, plock, task_queue, PID, proc, cpc,
                     fetched, scan, np>>
  BY <1>a DEF wait_end, procVars
<1>c. wait_lock = c
  BY <1>a, Constants DEF IInv, LockInv, HoldsWait
<1>1. CASE havekids[p]
  <2>1. pc' = [pc EXCEPT ![p] = "sleep"] /\ UNCHANGED <<wait_lock, wpid>>
    BY <1>a, <1>1 DEF wait_end, Goto
  <2>2. ThreadStep(c, p, "sleep", state[p])
    BY <1>0, <1>a, <1>b, <1>c, <2>1, Constants DEF ThreadStep, TypeOK
  <2>3. TypeOK'
    BY <1>0, <1>b, <2>1, Constants DEF TypeOK
  <2>. QED BY <2>2, <2>3, ThreadStepInv
<1>2. CASE ~havekids[p]
  <2>1. /\ pc' = [pc EXCEPT ![p] = "user"]
        /\ wait_lock' = NoCpu
        /\ wpid' = [wpid EXCEPT ![p] = -1]
    BY <1>a, <1>2 DEF wait_end, Goto
  <2>2. ThreadStep(c, p, "user", state[p])
    BY <1>0, <1>a, <1>b, <1>c, <2>1, Constants DEF ThreadStep, TypeOK
  <2>3. TypeOK'
    BY <1>0, <1>b, <2>1, Constants DEF TypeOK
  <2>. QED BY <2>2, <2>3, ThreadStepInv
<1>. QED BY <1>1, <1>2

\* sleep() returns: p->lock is given back before wait_lock is taken.
LEMMA Step_sleep_return ==
    ASSUME IInv, NEW c \in CPU, sleep_return(c)
    PROVE  IInv'
<1>0. TypeOK
  BY DEF IInv
<1>a. PICK p \in Pool : p = fetched[c] /\ proc[c] = p /\ cpc[c] = "run" /\ pc[p] = "woken"
  BY AtThread DEF sleep_return, At
<1>b. plock[p] = c
  BY <1>a, Constants DEF IInv, LockInv, HoldsOwn
<1>c. /\ sleep_chan' = [sleep_chan EXCEPT ![p] = NoProc]
      /\ plock' = [plock EXCEPT ![p] = NoCpu]
      /\ pc' = [pc EXCEPT ![p] = "rewait"]
      /\ UNCHANGED <<state, pid, parent, wait_lock, task_queue, PID, proc, cpc,
                     fetched, scan, i, np, havekids, wpid>>
  BY <1>a, <1>b DEF sleep_return, Goto, localVars
<1>1. ThreadStep(c, p, "rewait", state[p])
  BY <1>0, <1>a, <1>c, Constants DEF ThreadStep, TypeOK
<1>2. TypeOK'
  BY <1>0, <1>c, Constants DEF TypeOK
<1>. QED BY <1>1, <1>2, ThreadStepInv
-----------------------------------------------------------------------------
\* The actions of a thread that leaves its CPU.

\* yield: the process leaves RUNNABLE.
LEMMA Step_yield ==
    ASSUME IInv, NEW c \in CPU, yield(c)
    PROVE  IInv'
<1>0. TypeOK
  BY DEF IInv
<1>a. PICK p \in Pool : /\ p = fetched[c] /\ proc[c] = p /\ cpc[c] = "run" /\ pc[p] = "user"
                        /\ plock[p] = NoCpu
  BY AtThread DEF yield, At, Free
<1>b. /\ plock' = [plock EXCEPT ![p] = c]
      /\ state' = [state EXCEPT ![p] = "RUNNABLE"]
      /\ sched(c, p, "yielded")
      /\ UNCHANGED <<pid, parent, sleep_chan, wait_lock, task_queue, PID, proc, fetched, scan,
                     i, np, havekids, wpid>>
  BY <1>a DEF yield, localVars
<1>1. SchedStep(c, p, "yielded", "RUNNABLE")
  BY <1>0, <1>a, <1>b, Constants DEF SchedStep, Leaves, TypeOK
<1>2. state' \in [Pool -> ProcState] /\ plock' \in [Pool -> CPU \cup {NoCpu}]
  BY <1>0, <1>b DEF TypeOK, ProcState
<1>. QED BY <1>0, <1>1, <1>2, <1>b, SchedStepInv DEF TypeOK

\* sleep: wait_lock is given back and the process leaves SLEEPING.
LEMMA Step_sleep_sched ==
    ASSUME IInv, NEW c \in CPU, sleep_sched(c)
    PROVE  IInv'
<1>0. TypeOK
  BY DEF IInv
<1>a. PICK p \in Pool : p = fetched[c] /\ proc[c] = p /\ cpc[c] = "run" /\ pc[p] = "sleeping"
  BY AtThread DEF sleep_sched, At
<1>b. /\ wait_lock' = NoCpu
      /\ sleep_chan' = [sleep_chan EXCEPT ![p] = p]
      /\ state' = [state EXCEPT ![p] = "SLEEPING"]
      /\ sched(c, p, "woken")
      /\ UNCHANGED <<pid, parent, plock, task_queue, PID, proc, fetched, scan,
                     i, np, havekids, wpid>>
  BY <1>a DEF sleep_sched, localVars
<1>c. plock[p] = c
  BY <1>a, Constants DEF IInv, LockInv, HoldsOwn
<1>1. SchedStep(c, p, "woken", "SLEEPING")
  BY <1>0, <1>a, <1>b, <1>c, Constants DEF SchedStep, Leaves, TypeOK
<1>2. /\ state' \in [Pool -> ProcState]
      /\ sleep_chan' \in [Pool -> Pool \cup {NoProc}]
  BY <1>0, <1>b DEF TypeOK, ProcState
<1>. QED BY <1>0, <1>1, <1>2, <1>b, SchedStepInv DEF TypeOK

\* exit: wait_lock is given back and the process, which has no children left,
\* leaves as a ZOMBIE.
LEMMA Step_exit_sched ==
    ASSUME IInv, NEW c \in CPU, exit_sched(c)
    PROVE  IInv'
<1>0. TypeOK
  BY DEF IInv
<1>a. PICK p \in Pool : /\ p = fetched[c] /\ proc[c] = p /\ cpc[c] = "run"
                        /\ pc[p] = "reparent" /\ i[p] = NPROC
  BY AtThread DEF exit_sched, At
<1>b. /\ wait_lock' = NoCpu
      /\ i' = [i EXCEPT ![p] = 0]
      /\ state' = [state EXCEPT ![p] = "ZOMBIE"]
      /\ sched(c, p, "dead")
      /\ UNCHANGED <<pid, parent, sleep_chan, plock, task_queue, PID, proc, fetched, scan,
                     np, havekids, wpid>>
  BY <1>a DEF exit_sched
<1>c. plock[p] = c
  BY <1>a, Constants DEF IInv, LockInv, HoldsOwn
<1>d. p # init_proc => \A n \in Pool : parent[n] # p
  <2>1. \A n \in Pool : n < NPROC
    BY NPROCAssumption DEF Pool
  <2>. QED BY <1>a, <2>1 DEF IInv, LocalInv
<1>1. SchedStep(c, p, "dead", "ZOMBIE")
  BY <1>0, <1>a, <1>b, <1>c, <1>d, Constants DEF SchedStep, Leaves, TypeOK
<1>2. state' \in [Pool -> ProcState] /\ i' \in [Pool -> 0 .. NPROC]
  BY <1>0, <1>b, Constants DEF TypeOK, ProcState
<1>. QED BY <1>0, <1>1, <1>2, <1>b, SchedStepInv DEF TypeOK
-----------------------------------------------------------------------------
\* The actions of a thread on a process that has no CPU.

\* A process that is not RUNNABLE or RUNNING, and not just leaving its CPU with
\* its lock held, is in no place.
LEMMA Nowhere ==
    ASSUME IInv, NEW n \in Pool, state[n] \notin {"RUNNABLE", "RUNNING"},
           state[n] \in {"UNUSED", "USED"} \/ plock[n] = NoCpu
    PROVE  n \notin Queued /\ (\A d \in CPU : Busy(d) => fetched[d] # n) /\ pc[n] \notin Active
<1>0. StateInv /\ LockInv
  BY DEF IInv
<1>1. n \notin Queued
  BY <1>0 DEF StateInv, OfQueue
<1>2. ASSUME NEW d \in CPU, Busy(d), fetched[d] = n PROVE FALSE
  <2>1. OfCpu(d) /\ (plock[n] = d <=> HoldsOwn(d, n) \/ HoldsNew(d, n))
    BY <1>0 DEF StateInv, LockInv
  <2>2. cpc[d] = "back" /\ state[n] \in {"SLEEPING", "ZOMBIE"}
    BY <1>2, <2>1 DEF OfCpu, Busy
  <2>. QED BY <1>2, <2>1, <2>2, CPUAssumption DEF HoldsOwn
<1>3. pc[n] \notin Active
  BY <1>0, <1>2 DEF StateInv, OfProc, Busy
<1>. QED BY <1>1, <1>2, <1>3

\* The thread of p, on c, goes to l and takes, frees or queues process n.
PairStep(c, p, l, n, s, k) ==
    /\ p \in Pool /\ p = fetched[c] /\ cpc[c] = "run" /\ l \in ThreadPC \ {"none", "dead"}
    /\ n \in Pool \ {p} /\ n \notin Queued /\ \A d \in CPU : Busy(d) => fetched[d] # n
    /\ k \notin Active
    /\ \A q \in Pool : pc'[q] = IF q = p THEN l ELSE IF q = n THEN k ELSE pc[q]
    /\ \A q \in Pool : state'[q] = IF q = n THEN s ELSE state[q]
    /\ \/ s = "UNUSED" /\ UNCHANGED task_queue
       \/ s = "USED" /\ k = "first" /\ UNCHANGED task_queue
       \/ s = "RUNNABLE" /\ k \in Resumes /\ task_queue' = Append(task_queue, n)
    /\ UNCHANGED <<proc, cpc, fetched, scan>>

\* The other processes stay where they are.
LEMMA PairState ==
    ASSUME IInv, NEW c \in CPU, NEW p, NEW l, NEW n, NEW s, NEW k, PairStep(c, p, l, n, s, k)
    PROVE  CpuInv' /\ PlaceInv' /\ StateInv' /\ task_queue' \in Seq(Pool)
<1>p. /\ p \in Pool /\ p = fetched[c] /\ cpc[c] = "run" /\ l \in ThreadPC \ {"none", "dead"}
      /\ n \in Pool \ {p} /\ n \notin Queued /\ \A d \in CPU : Busy(d) => fetched[d] # n
      /\ k \notin Active
      /\ \A q \in Pool : pc'[q] = IF q = p THEN l ELSE IF q = n THEN k ELSE pc[q]
      /\ \A q \in Pool : state'[q] = IF q = n THEN s ELSE state[q]
      /\ s = "UNUSED" \/ (s = "USED" /\ k = "first") \/ (s = "RUNNABLE" /\ k \in Resumes)
      /\ UNCHANGED <<proc, cpc, fetched, scan>>
  BY DEF PairStep
<1>0. CpuInv /\ PlaceInv /\ StateInv /\ QueuedOnce /\ task_queue \in Seq(Pool)
  BY DEF IInv, PlaceInv, TypeOK
<1>a. /\ p \notin Queued
      /\ \A d \in CPU : Busy(d) /\ fetched[d] = p => d = c
  BY <1>p, OnCpu DEF Busy
<1>b. /\ QueuedOnce' /\ task_queue' \in Seq(Pool)
      /\ Queued' = IF s = "RUNNABLE" THEN Queued \cup {n} ELSE Queued
  <2>0. \/ UNCHANGED task_queue /\ s # "RUNNABLE"
        \/ s = "RUNNABLE" /\ task_queue' = Append(task_queue, n)
    BY DEF PairStep
  <2>1. CASE UNCHANGED task_queue /\ s # "RUNNABLE"
    BY <1>0, <2>1 DEF Queued, QueuedOnce
  <2>2. CASE s = "RUNNABLE" /\ task_queue' = Append(task_queue, n)
    BY <1>0, <1>p, <2>2, QueueAppend
  <2>. QED BY <2>0, <2>1, <2>2
<1>1. CpuInv'
  BY <1>0, <1>p DEF CpuInv, HasProc
<1>2. PlaceInv'
  BY <1>0, <1>b, <1>p DEF PlaceInv, Busy
<1>3. OfQueue'
  BY <1>0, <1>a, <1>b, <1>p, Types DEF StateInv, OfQueue
<1>4. ASSUME NEW d \in CPU PROVE OfCpu(d)'
  <2>0. OfCpu(d) /\ fetched[d] \in Pool /\ (Busy(d) => fetched[d] # n)
        /\ (d # c /\ Busy(d) => fetched[d] # p)
    BY <1>0, <1>a, <1>p, Types DEF StateInv
  <2>1. CASE d = c
    BY <1>p, <2>0, <2>1 DEF OfCpu, Busy
  <2>2. CASE d # c
    BY <1>p, <2>0, <2>2 DEF OfCpu, Busy
  <2>. QED BY <2>1, <2>2
<1>5. ASSUME NEW q \in Pool PROVE OfProc(q)'
  <2>0. OfCpu(c) /\ OfProc(q)
    BY <1>0 DEF StateInv
  <2>1. CASE q = p
    BY <1>p, <2>0, <2>1 DEF OfProc, OfCpu, Busy
  <2>2. CASE q = n
    BY <2>2, <1>b, <1>p DEF OfProc, Busy
  <2>3. CASE q # p /\ q # n
    <3>1. pc'[q] = pc[q] /\ state'[q] = state[q] /\ (q \in Queued' <=> q \in Queued)
      BY <2>3, <1>b, <1>p
    <3>. QED BY <1>p, <2>0, <3>1 DEF OfProc, Busy
  <2>. QED BY <2>1, <2>2, <2>3
<1>. QED BY <1>1, <1>2, <1>3, <1>4, <1>5, <1>b DEF StateInv

\* add_task of a process that is not queued never panics.
LEMMA AddTask ==
    ASSUME IInv, NEW c \in CPU, NEW n \in Pool, n \notin Queued, NEW l, add_task(c, n, l)
    PROVE  task_queue' = Append(task_queue, n) /\ cpc' = [cpc EXCEPT ![c] = l]
<1>1. Len(task_queue) # NPROC
  BY QueueRoom DEF IInv, TypeOK, PlaceInv
<1>. QED BY <1>1 DEF add_task, CpuGoto

\* A step of a CPU that neither takes nor releases a lock: it stays where it is, or
\* it is in the scheduler loop, or fork panics.
SameHolder(d) ==
    \/ cpc'[d] = cpc[d] /\ fetched'[d] = fetched[d]
    \/ cpc[d] \notin {"run", "back"} /\ cpc'[d] \notin {"run", "back"}
    \/ cpc[d] = "run" /\ pc[fetched[d]] = "alloc" /\ cpc'[d] = "panic: allocproc"

\* If that is all that happens, the locks keep their holders.
LEMMA SameLocks ==
    ASSUME IInv, UNCHANGED <<plock, wait_lock, pc, np>>, \A d \in CPU : SameHolder(d)
    PROVE  LockInv'
<1>0. LockInv
  BY DEF IInv
<1>1. ASSUME NEW d \in CPU, NEW q \in Pool
      PROVE  plock'[q] = d <=> HoldsOwn(d, q)' \/ HoldsNew(d, q)'
  <2>1. plock[q] = d <=> HoldsOwn(d, q) \/ HoldsNew(d, q)
    BY <1>0 DEF LockInv
  <2>2. SameHolder(d)
    OBVIOUS
  <2>. QED BY <2>1, <2>2, Constants DEF SameHolder, HoldsOwn, HoldsNew
<1>2. ASSUME NEW d \in CPU
      PROVE  wait_lock' = d <=> HoldsWait(d)'
  <2>1. wait_lock = d <=> HoldsWait(d)
    BY <1>0 DEF LockInv
  <2>2. SameHolder(d)
    OBVIOUS
  <2>. QED BY <2>1, <2>2, Constants DEF SameHolder, HoldsWait
<1>. QED BY <1>1, <1>2 DEF LockInv

\* allocproc takes an UNUSED process, goes on to the next, or makes fork panic.
LEMMA Step_allocproc ==
    ASSUME IInv, NEW c \in CPU, allocproc(c)
    PROVE  IInv'
<1>0. TypeOK /\ LocalInv /\ InitInv /\ ParentAlive /\ ForkedChildStays
  BY DEF IInv
<1>a. PICK p \in Pool : p = fetched[c] /\ proc[c] = p /\ cpc[c] = "run" /\ pc[p] = "alloc"
  BY AtThread DEF allocproc, At
<1>b. PICK n \in Pool : n = i[p] /\ plock[n] = NoCpu
  BY <1>0, <1>a DEF LocalInv, allocproc, Free
<1>c. PID <= MaxPid /\ UNCHANGED <<sleep_chan, wait_lock, task_queue, proc, fetched, scan, havekids, wpid>>
  BY DEF allocproc
<1>d. state[p] \in {"RUNNING", "RUNNABLE"}
  BY <1>a DEF IInv, StateInv, OfCpu
<1>1. CASE state[n] = "UNUSED"
  <2>1. /\ plock' = [plock EXCEPT ![n] = c]
        /\ pid' = [pid EXCEPT ![n] = PID]
        /\ PID' = PID + 1
        /\ state' = [state EXCEPT ![n] = "USED"]
        /\ parent' = [parent EXCEPT ![n] = NoProc]
        /\ np' = [np EXCEPT ![p] = n]
        /\ i' = [i EXCEPT ![p] = 0]
        /\ pc' = [pc EXCEPT ![p] = "fork", ![n] = "first"]
        /\ UNCHANGED cpc
    BY <1>a, <1>b, <1>1 DEF allocproc
  <2>2. n # p /\ n # init_proc
    BY <1>0, <1>1, <1>d DEF InitInv
  <2>3. n \notin Queued /\ \A d \in CPU : Busy(d) => fetched[d] # n
    BY <1>1, Nowhere
  <2>4. /\ \A q \in Pool : pc'[q] = IF q = p THEN "fork" ELSE IF q = n THEN "first" ELSE pc[q]
        /\ \A q \in Pool : state'[q] = IF q = n THEN "USED" ELSE state[q]
        /\ \A q \in Pool : parent'[q] = IF q = n THEN NoProc ELSE parent[q]
        /\ \A q \in Pool : np'[q] = IF q = p THEN n ELSE np[q]
        /\ \A q \in Pool : plock'[q] = IF q = n THEN c ELSE plock[q]
        /\ \A q \in Pool \ {p} : i'[q] = i[q]
    BY <1>0, <2>1, <2>2 DEF TypeOK
  <2>5. TypeOK'
    <3>1. PID \in -1 .. MaxPid /\ PID + 1 \in 1 .. MaxPid + 1
      BY <1>0, <1>c, PidAssumption DEF TypeOK
    <3>. QED BY <1>0, <1>c, <2>1, <3>1, Constants DEF TypeOK, ProcState
  <2>6. CpuInv' /\ PlaceInv' /\ StateInv'
    <3>1. "first" \notin Active /\ "fork" \in ThreadPC \ {"none", "dead"}
      BY Constants DEF Active
    <3>2. PairStep(c, p, "fork", n, "USED", "first")
      BY <1>a, <1>c, <2>1, <2>2, <2>3, <2>4, <3>1 DEF PairStep
    <3>. QED BY <3>2, PairState
  <2>7. LockInv'
    <3>0. LockInv
      BY DEF IInv
    <3>a. \A d \in CPU : Busy(d) => fetched[d] # n /\ (fetched[d] = p => d = c)
      BY <1>a, <2>3, OnCpu DEF Busy
    <3>b. UNCHANGED <<cpc, fetched, wait_lock>>
      BY <1>c, <2>1
    <3>1. ASSUME NEW d \in CPU, NEW q \in Pool
          PROVE  plock'[q] = d <=> HoldsOwn(d, q)' \/ HoldsNew(d, q)'
      <4>0. /\ plock[q] = d <=> HoldsOwn(d, q) \/ HoldsNew(d, q)
            /\ fetched[d] \in Pool
        BY <3>0, Types DEF LockInv
      <4>1. CASE d = c
        BY <4>0, <4>1, <1>a, <1>b, <2>2, <2>4, <3>b, Constants, CPUAssumption
           DEF HoldsOwn, HoldsNew
      <4>2. CASE d # c
        <5>1. Busy(d) => pc'[fetched[d]] = pc[fetched[d]] /\ np'[fetched[d]] = np[fetched[d]]
          BY <4>0, <4>2, <2>4, <3>a
        <5>2. q = n => plock[q] # d
          BY <1>b, CPUAssumption
        <5>. QED BY <4>0, <4>2, <2>4, <3>b, <5>1, <5>2 DEF HoldsOwn, HoldsNew, Busy
      <4>. QED BY <4>1, <4>2
    <3>2. ASSUME NEW d \in CPU
          PROVE  wait_lock' = d <=> HoldsWait(d)'
      <4>0. (wait_lock = d <=> HoldsWait(d)) /\ fetched[d] \in Pool
        BY <3>0, Types DEF LockInv
      <4>. QED BY <4>0, <1>a, <2>4, <3>a, <3>b, Constants DEF HoldsWait, Busy
    <3>. QED BY <3>1, <3>2 DEF LockInv
  <2>8. LocalInv'
    <3>1. \A q \in Pool : pc[q] = "fork" => np[q] \in Pool /\ state[np[q]] = "USED"
      BY <1>0, Types DEF LocalInv
    <3>2. \A q, m \in Pool : parent'[m] = q => parent[m] = q
      BY <2>4, NoProcAssumption
    <3>. QED BY <1>0, <1>1, <2>2, <2>4, <3>1, <3>2 DEF LocalInv
  <2>9. InitInv'
    BY <1>0, <2>2, <2>4, Types DEF InitInv
  <2>10. ParentAlive'
    BY <1>0, <1>1, <2>4 DEF ParentAlive
  <2>11. ForkedChildStays'
    <3>1. \A q \in Pool : np[q] \in Pool
      BY Types
    <3>. QED BY <1>0, <1>1, <2>2, <2>4, <3>1 DEF ForkedChildStays
  <2>. QED BY <2>5, <2>6, <2>7, <2>8, <2>9, <2>10, <2>11 DEF IInv
<1>2. CASE state[n] # "UNUSED" /\ n # NPROC - 1
  <2>1. /\ i' = [i EXCEPT ![p] = n + 1]
        /\ UNCHANGED <<state, pid, parent, sleep_chan, plock, wait_lock, task_queue, PID, proc,
                       cpc, fetched, scan, pc, np, havekids, wpid>>
    BY <1>a, <1>b, <1>c, <1>2 DEF allocproc
  <2>2. n + 1 \in Pool /\ n + 1 \in 0 .. NPROC
    BY <1>2, NPROCAssumption DEF Pool
  <2>3. ThreadStep(c, p, "alloc", state[p])
    BY <1>0, <1>a, <2>1, <2>2, Constants DEF ThreadStep, TypeOK
  <2>4. TypeOK'
    BY <1>0, <2>1, <2>2 DEF TypeOK
  <2>. QED BY <2>3, <2>4, ThreadStepInv
<1>3. CASE state[n] # "UNUSED" /\ n = NPROC - 1
  <2>1. /\ cpc' = [cpc EXCEPT ![c] = "panic: allocproc"]
        /\ UNCHANGED <<state, pid, parent, sleep_chan, plock, wait_lock, task_queue, PID, proc,
                       fetched, scan, pc, i, np, havekids, wpid>>
    BY <1>a, <1>b, <1>c, <1>3 DEF allocproc, CpuGoto
  <2>2. /\ cpc'[c] = "panic: allocproc"
        /\ \A d \in CPU \ {c} : cpc'[d] = cpc[d]
        /\ Queued' = Queued /\ (QueuedOnce' <=> QueuedOnce)
    BY <1>0, <2>1 DEF TypeOK, Queued, QueuedOnce
  <2>3. TypeOK'
    BY <1>0, <2>1 DEF TypeOK, CpuPC
  <2>4. CpuInv' /\ PlaceInv'
    BY <1>a, <2>1, <2>2 DEF IInv, CpuInv, PlaceInv, HasProc, Busy
  <2>5. StateInv'
    <3>0. StateInv
      BY DEF IInv
    <3>1. OfQueue'
      BY <2>1, <2>2, <3>0 DEF StateInv, OfQueue
    <3>2. ASSUME NEW d \in CPU PROVE OfCpu(d)'
      <4>0. OfCpu(d) /\ OfCpu(c)
        BY <3>0 DEF StateInv
      <4>. QED BY <1>a, <2>1, <2>2, <4>0 DEF OfCpu
    <3>3. ASSUME NEW q \in Pool PROVE OfProc(q)'
      <4>0. OfProc(q)
        BY <3>0 DEF StateInv
      <4>. QED BY <1>a, <2>1, <2>2, <4>0 DEF OfProc, Busy
    <3>. QED BY <3>1, <3>2, <3>3 DEF StateInv
  <2>6. LockInv'
    <3>1. ASSUME NEW d \in CPU PROVE SameHolder(d)
      BY <1>a, <2>1, <2>2 DEF SameHolder
    <3>. QED BY <2>1, <3>1, SameLocks
  <2>7. LocalInv' /\ InitInv' /\ ParentAlive' /\ ForkedChildStays'
    BY <1>0, <2>1 DEF LocalInv, InitInv, ParentAlive, ForkedChildStays
  <2>. QED BY <2>3, <2>4, <2>5, <2>6, <2>7 DEF IInv
<1>. QED BY <1>1, <1>2, <1>3

\* fork publishes its child: RUNNABLE, queued and unlocked, with p as its parent.
LEMMA Step_fork_publish ==
    ASSUME IInv, NEW c \in CPU, fork_publish(c)
    PROVE  IInv'
<1>0. TypeOK /\ LocalInv /\ InitInv /\ ParentAlive /\ ForkedChildStays /\ StateInv /\ LockInv
  BY DEF IInv
<1>a. PICK p \in Pool : p = fetched[c] /\ proc[c] = p /\ cpc[c] = "run" /\ pc[p] = "fork"
  BY AtThread DEF fork_publish, At
<1>b. PICK n \in Pool : n = np[p] /\ state[n] = "USED" /\ pc[n] = "first"
  <2>1. np[p] \in Pool /\ state[np[p]] = "USED"
    BY <1>0, <1>a, Types DEF LocalInv
  <2>2. OfProc(np[p])
    BY <1>0, <2>1 DEF StateInv
  <2>. QED BY <2>1, <2>2 DEF OfProc
<1>c. state[p] \in {"RUNNING", "RUNNABLE"} /\ n # p /\ n # init_proc
  BY <1>0, <1>a, <1>b DEF StateInv, OfCpu, InitInv
<1>d. n \notin Queued /\ \A d \in CPU : Busy(d) => fetched[d] # n
  BY <1>b, Nowhere
<1>e. /\ parent' = [parent EXCEPT ![n] = p]
      /\ state' = [state EXCEPT ![n] = "RUNNABLE"]
      /\ plock' = [plock EXCEPT ![n] = NoCpu]
      /\ pc' = [pc EXCEPT ![p] = "forked"]
      /\ add_task(c, n, "run")
      /\ UNCHANGED <<pid, sleep_chan, wait_lock, PID, proc, fetched, scan, i, np, havekids, wpid>>
  BY <1>a, <1>b DEF fork_publish, Goto, localVars
<1>f. task_queue' = Append(task_queue, n) /\ cpc' = cpc
  <2>1. task_queue' = Append(task_queue, n) /\ cpc' = [cpc EXCEPT ![c] = "run"]
    BY <1>d, <1>e, AddTask
  <2>. QED BY <1>0, <1>a, <2>1 DEF TypeOK
<1>g. /\ \A q \in Pool : pc'[q] = IF q = p THEN "forked" ELSE pc[q]
      /\ \A q \in Pool : state'[q] = IF q = n THEN "RUNNABLE" ELSE state[q]
      /\ \A q \in Pool : parent'[q] = IF q = n THEN p ELSE parent[q]
      /\ \A q \in Pool : plock'[q] = IF q = n THEN NoCpu ELSE plock[q]
      /\ UNCHANGED <<np, i, cpc, fetched, wait_lock>>
  BY <1>0, <1>e, <1>f DEF TypeOK
<1>h. plock[n] = c
  BY <1>0, <1>a, <1>b DEF LockInv, HoldsNew
<1>i. \A q \in Pool : np[q] \in Pool
  BY Types
<1>1. CpuInv' /\ PlaceInv' /\ StateInv' /\ task_queue' \in Seq(Pool)
  <2>1. "first" \notin Active /\ "first" \in Resumes /\ "forked" \in ThreadPC \ {"none", "dead"}
    BY Constants DEF Active
  <2>2. PairStep(c, p, "forked", n, "RUNNABLE", "first")
    BY <1>a, <1>b, <1>c, <1>d, <1>e, <1>f, <1>g, <2>1 DEF PairStep
  <2>. QED BY <2>2, PairState
<1>2. TypeOK'
  BY <1>0, <1>1, <1>e, <1>f, Constants DEF TypeOK, ProcState
<1>3. LockInv'
  <2>a. \A d \in CPU : Busy(d) => fetched[d] # n /\ (fetched[d] = p => d = c)
    BY <1>a, <1>d, OnCpu DEF Busy
  <2>1. ASSUME NEW d \in CPU, NEW q \in Pool
        PROVE  plock'[q] = d <=> HoldsOwn(d, q)' \/ HoldsNew(d, q)'
    <3>0. /\ plock[q] = d <=> HoldsOwn(d, q) \/ HoldsNew(d, q)
          /\ fetched[d] \in Pool
      BY <1>0, Types DEF LockInv
    <3>1. CASE d = c
      BY <3>0, <3>1, <1>a, <1>b, <1>c, <1>g, Constants, CPUAssumption DEF HoldsOwn, HoldsNew
    <3>2. CASE d # c
      <4>1. Busy(d) => pc'[fetched[d]] = pc[fetched[d]]
        BY <3>0, <3>2, <1>g, <2>a
      <4>2. q = n => plock[q] # d /\ plock'[q] # d
        BY <1>g, <1>h, <3>2, CPUAssumption
      <4>. QED BY <3>0, <3>2, <1>g, <4>1, <4>2 DEF HoldsOwn, HoldsNew, Busy
    <3>. QED BY <3>1, <3>2
  <2>2. ASSUME NEW d \in CPU
        PROVE  wait_lock' = d <=> HoldsWait(d)'
    <3>0. (wait_lock = d <=> HoldsWait(d)) /\ fetched[d] \in Pool
      BY <1>0, Types DEF LockInv
    <3>. QED BY <3>0, <1>a, <1>g, <2>a, Constants DEF HoldsWait, Busy
  <2>. QED BY <2>1, <2>2 DEF LockInv
<1>4. LocalInv'
  <2>1. ASSUME NEW q \in Pool, q # p, pc[q] = "fork" PROVE np[q] # n
    <3>1. "fork" \in Active
      BY Constants DEF Active
    <3>2. PICK d \in CPU : fetched[d] = q /\ cpc[d] \in {"run", "panic: allocproc"}
      BY <1>0, <2>1, <3>1 DEF StateInv, OfProc
    <3>3. cpc[d] = "run"
      BY <1>0, <2>1, <3>2 DEF StateInv, OfCpu
    <3>4. np[q] = n => plock[n] = d
      BY <1>0, <2>1, <3>2, <3>3 DEF LockInv, HoldsNew
    <3>. QED BY <1>a, <1>h, <2>1, <3>2, <3>4
  <2>2. ASSUME NEW q \in Pool
        PROVE  /\ pc'[q] = "alloc" => i'[q] \in Pool
               /\ pc'[q] = "fork" => state'[np'[q]] = "USED"
    BY <1>0, <1>g, <1>i, <2>1 DEF LocalInv
  <2>3. ASSUME NEW q \in Pool, pc'[q] = "reparent", q # init_proc,
               NEW m \in Pool, m < i'[q]
        PROVE  parent'[m] # q
    BY <1>0, <1>g, <2>3 DEF LocalInv
  <2>. QED BY <2>2, <2>3 DEF LocalInv
<1>5. InitInv'
  BY <1>0, <1>c, <1>g, Types DEF InitInv
<1>6. ParentAlive'
  BY <1>0, <1>b, <1>c, <1>g DEF ParentAlive
<1>7. ForkedChildStays'
  BY <1>0, <1>b, <1>g, <1>i DEF ForkedChildStays
<1>. QED BY <1>1, <1>2, <1>3, <1>4, <1>5, <1>6, <1>7 DEF IInv

\* wait() frees an exited child, which is on no CPU because its lock is free.
LEMMA Step_wait_reap ==
    ASSUME IInv, NEW c \in CPU, wait_reap(c)
    PROVE  IInv'
<1>0. TypeOK /\ LocalInv /\ InitInv /\ ParentAlive /\ ForkedChildStays /\ StateInv
  BY DEF IInv
<1>a. PICK p \in Pool : /\ p = fetched[c] /\ proc[c] = p /\ cpc[c] = "run" /\ pc[p] = "scan"
                        /\ i[p] < NPROC
  BY AtThread DEF wait_reap, At
<1>b. PICK n \in Pool : /\ n = i[p] /\ n # p /\ plock[n] = NoCpu
                        /\ parent[n] = p /\ state[n] = "ZOMBIE"
  <2>1. i[p] \in Pool
    BY <1>0, <1>a, NPROCAssumption DEF TypeOK, Pool
  <2>. QED BY <1>a, <2>1 DEF wait_reap, Free, Exited
<1>c. n # init_proc
  BY <1>0, <1>b, NoProcAssumption DEF InitInv
<1>d. n \notin Queued /\ (\A d \in CPU : Busy(d) => fetched[d] # n) /\ pc[n] \notin Active
  BY <1>b, Nowhere
<1>e. /\ state' = [state EXCEPT ![n] = "UNUSED"]
      /\ pid' = [pid EXCEPT ![n] = -1]
      /\ sleep_chan' = [sleep_chan EXCEPT ![n] = NoProc]
      /\ parent' = [parent EXCEPT ![n] = NoProc]
      /\ wait_lock' = NoCpu
      /\ i' = [i EXCEPT ![p] = 0]
      /\ havekids' = [havekids EXCEPT ![p] = FALSE]
      /\ wpid' = [wpid EXCEPT ![p] = -1]
      /\ pc' = [pc EXCEPT ![p] = "user"]
      /\ UNCHANGED <<plock, task_queue, PID, proc, cpc, fetched, scan, np>>
  BY <1>a, <1>b DEF wait_reap, freeproc, Goto
<1>f. /\ \A q \in Pool : pc'[q] = IF q = p THEN "user" ELSE pc[q]
      /\ \A q \in Pool : state'[q] = IF q = n THEN "UNUSED" ELSE state[q]
      /\ \A q \in Pool : parent'[q] = IF q = n THEN NoProc ELSE parent[q]
      /\ \A q \in Pool \ {p} : i'[q] = i[q]
      /\ UNCHANGED <<plock, task_queue, proc, cpc, fetched, scan, np>>
  BY <1>0, <1>e DEF TypeOK
<1>g. \A q \in Pool : np[q] \in Pool
  BY Types
<1>1. TypeOK'
  <2>1. -1 \in -1 .. MaxPid
    BY PidAssumption
  <2>. QED BY <1>0, <1>e, <2>1, Constants DEF TypeOK, ProcState
<1>2. CpuInv' /\ PlaceInv' /\ StateInv'
  <2>1. "user" \in ThreadPC \ {"none", "dead"}
    BY Constants
  <2>2. PairStep(c, p, "user", n, "UNUSED", pc[n])
    BY <1>a, <1>b, <1>d, <1>f, <2>1 DEF PairStep
  <2>. QED BY <2>2, PairState
<1>3. LockInv'
  <2>1. "user" \in ThreadPC \ {"fork"} /\ "user" \notin OwnLock /\ pc[p] \notin OwnLock
        /\ "user" \notin WaitLock /\ pc[p] \in WaitLock
    BY <1>a, Constants
  <2>. QED BY <1>a, <1>e, <1>f, <2>1, ThreadLocks
<1>4. LocalInv'
  <2>1. ASSUME NEW q \in Pool
        PROVE  /\ pc'[q] = "alloc" => i'[q] \in Pool
               /\ pc'[q] = "fork" => state'[np'[q]] = "USED"
    BY <1>0, <1>b, <1>f, <1>g DEF LocalInv
  <2>2. ASSUME NEW q \in Pool, pc'[q] = "reparent", q # init_proc,
               NEW m \in Pool, m < i'[q]
        PROVE  parent'[m] # q
    BY <1>0, <1>f, <2>2, NoProcAssumption DEF LocalInv
  <2>. QED BY <2>1, <2>2 DEF LocalInv
<1>5. InitInv'
  BY <1>0, <1>c, <1>f, Types DEF InitInv
<1>6. ParentAlive'
  BY <1>0, <1>b, <1>c, <1>f DEF ParentAlive
<1>7. ForkedChildStays'
  BY <1>0, <1>a, <1>b, <1>f, <1>g DEF ForkedChildStays
<1>. QED BY <1>1, <1>2, <1>3, <1>4, <1>5, <1>6, <1>7 DEF IInv

\* wakeup() queues a process that sleeps with its lock free, and so has left its CPU.
LEMMA Step_wakeup ==
    ASSUME IInv, NEW c \in CPU, wakeup(c)
    PROVE  IInv'
<1>0. TypeOK /\ LocalInv /\ InitInv /\ ParentAlive /\ ForkedChildStays /\ StateInv
  BY DEF IInv
<1>a. PICK p \in Pool : /\ p = fetched[c] /\ proc[c] = p /\ cpc[c] = "run" /\ pc[p] = "wakeup"
                        /\ i[p] < NPROC
  BY AtThread DEF wakeup, At
<1>b. PICK n \in Pool : n = i[p] /\ plock[n] = NoCpu
  <2>1. i[p] \in Pool
    BY <1>0, <1>a, NPROCAssumption DEF TypeOK, Pool
  <2>. QED BY <1>a, <2>1 DEF wakeup, Free
<1>c. i[p] + 1 \in 0 .. NPROC
  BY <1>0, <1>a, NPROCAssumption DEF TypeOK
<1>d. /\ i' = [i EXCEPT ![p] = i[p] + 1]
      /\ UNCHANGED <<pid, parent, sleep_chan, plock, wait_lock, PID, proc, fetched, scan, pc,
                     np, havekids, wpid>>
  BY <1>a DEF wakeup, lockVars
<1>1. CASE state[n] = "SLEEPING" /\ sleep_chan[n] = parent[p]
  <2>1. state' = [state EXCEPT ![n] = "RUNNABLE"] /\ add_task(c, n, "run")
    BY <1>a, <1>b, <1>1 DEF wakeup
  <2>2. n \notin Queued /\ (\A d \in CPU : Busy(d) => fetched[d] # n) /\ pc[n] = "woken"
    BY <1>0, <1>b, <1>1, Nowhere DEF StateInv, OfProc
  <2>3. task_queue' = Append(task_queue, n) /\ cpc' = cpc
    <3>1. task_queue' = Append(task_queue, n) /\ cpc' = [cpc EXCEPT ![c] = "run"]
      BY <2>1, <2>2, AddTask
    <3>. QED BY <1>0, <1>a, <3>1 DEF TypeOK
  <2>4. /\ \A q \in Pool : state'[q] = IF q = n THEN "RUNNABLE" ELSE state[q]
        /\ \A q \in Pool \ {p} : i'[q] = i[q]
    BY <1>0, <1>d, <2>1 DEF TypeOK
  <2>5. n # p
    BY <1>0, <1>a, <1>1 DEF StateInv, OfCpu
  <2>6. CpuInv' /\ PlaceInv' /\ StateInv' /\ task_queue' \in Seq(Pool)
    <3>1. "woken" \notin Active /\ "woken" \in Resumes /\ "wakeup" \in ThreadPC \ {"none", "dead"}
      BY Constants DEF Active
    <3>2. PairStep(c, p, "wakeup", n, "RUNNABLE", "woken")
      BY <1>a, <1>d, <2>2, <2>3, <2>4, <2>5, <3>1 DEF PairStep
    <3>. QED BY <3>2, PairState
  <2>7. TypeOK'
    BY <1>0, <1>c, <1>d, <2>1, <2>3, <2>6 DEF TypeOK, ProcState
  <2>8. LockInv'
    <3>1. ASSUME NEW d \in CPU PROVE SameHolder(d)
      BY <1>d, <2>3 DEF SameHolder
    <3>. QED BY <1>d, <3>1, SameLocks
  <2>9. LocalInv'
    <3>1. \A q \in Pool : np[q] \in Pool
      BY Types
    <3>. QED BY <1>0, <1>a, <1>d, <1>1, <2>4, <3>1 DEF LocalInv
  <2>10. InitInv'
    BY <1>0, <1>d, <2>4, Types DEF InitInv
  <2>11. ParentAlive'
    BY <1>0, <1>d, <1>1, <2>4 DEF ParentAlive
  <2>12. ForkedChildStays'
    <3>1. \A q \in Pool : np[q] \in Pool
      BY Types
    <3>. QED BY <1>0, <1>d, <2>4, <3>1 DEF ForkedChildStays
  <2>. QED BY <2>6, <2>7, <2>8, <2>9, <2>10, <2>11, <2>12 DEF IInv
<1>2. CASE ~(state[n] = "SLEEPING" /\ sleep_chan[n] = parent[p])
  <2>1. UNCHANGED <<state, task_queue, cpc>>
    BY <1>a, <1>b, <1>2 DEF wakeup
  <2>2. wait_lock = c
    BY <1>a, Constants DEF IInv, LockInv, HoldsWait
  <2>3. ThreadStep(c, p, "wakeup", state[p])
    BY <1>0, <1>a, <1>d, <2>1, <2>2, Constants DEF ThreadStep, TypeOK
  <2>4. TypeOK'
    BY <1>0, <1>c, <1>d, <2>1 DEF TypeOK
  <2>. QED BY <2>3, <2>4, ThreadStepInv
<1>. QED BY <1>1, <1>2

\* exit() gives a child to init.
LEMMA Step_reparent ==
    ASSUME IInv, NEW c \in CPU, reparent(c)
    PROVE  IInv'
<1>0. TypeOK /\ LocalInv /\ InitInv /\ ParentAlive /\ ForkedChildStays
  BY DEF IInv
<1>a. PICK p \in Pool : /\ p = fetched[c] /\ proc[c] = p /\ cpc[c] = "run" /\ pc[p] = "reparent"
                        /\ i[p] < NPROC
  BY AtThread DEF reparent, At
<1>b. PICK n \in Pool : n = i[p]
  BY <1>0, <1>a, NPROCAssumption DEF TypeOK, Pool
<1>c. n + 1 \in 0 .. NPROC
  BY NPROCAssumption DEF Pool
<1>d. /\ parent' = IF n # p /\ parent[n] = p THEN [parent EXCEPT ![n] = init_proc] ELSE parent
      /\ i' = [i EXCEPT ![p] = n + 1]
      /\ UNCHANGED <<state, pid, sleep_chan, plock, wait_lock, task_queue, PID, proc, cpc,
                     fetched, scan, pc, np, havekids, wpid>>
  BY <1>a, <1>b DEF reparent, lockVars
<1>e. /\ \A q \in Pool : parent'[q] = IF q = n /\ n # p /\ parent[n] = p THEN init_proc ELSE parent[q]
      /\ \A q \in Pool : i'[q] = IF q = p THEN n + 1 ELSE i[q]
      /\ UNCHANGED <<state, pc, np>>
  BY <1>0, <1>d DEF TypeOK
<1>f. plock[p] = c /\ wait_lock = c
  BY <1>a, Constants DEF IInv, LockInv, HoldsOwn, HoldsWait
<1>g. parent[p] # p /\ (parent[n] = p => n # init_proc)
  <2>1. state[p] \in {"RUNNING", "RUNNABLE"}
    BY <1>a DEF IInv, StateInv, OfCpu
  <2>. QED BY <1>0, <2>1, NoProcAssumption DEF InitInv, ParentAlive
<1>1. TypeOK'
  BY <1>0, <1>c, <1>d, Types DEF TypeOK
<1>2. CpuInv' /\ PlaceInv' /\ StateInv'
  <2>1. "reparent" \in ThreadPC \ {"none", "dead"} /\ state[p] \in {state[p], "RUNNABLE"}
        /\ (\A q \in Pool : pc'[q] = IF q = p THEN "reparent" ELSE pc[q])
        /\ \A q \in Pool : state'[q] = IF q = p THEN state[p] ELSE state[q]
    BY <1>a, <1>e, Constants
  <2>. QED BY <1>a, <1>d, <2>1, ThreadState
<1>3. LockInv'
  <2>1. ASSUME NEW d \in CPU PROVE SameHolder(d)
    BY <1>d DEF SameHolder
  <2>. QED BY <1>d, <2>1, SameLocks
<1>4. LocalInv'
  <2>1. ASSUME NEW q \in Pool
        PROVE  /\ pc'[q] = "alloc" => i'[q] \in Pool
               /\ pc'[q] = "fork" => state'[np'[q]] = "USED"
    BY <1>0, <1>a, <1>e DEF LocalInv
  <2>2. ASSUME NEW q \in Pool, pc'[q] = "reparent", q # init_proc,
               NEW m \in Pool, m < i'[q]
        PROVE  parent'[m] # q
    <3>1. CASE q = p
      <4>1. m = n \/ m < i[p]
        BY <1>b, <1>e, <2>2, <3>1, NPROCAssumption DEF Pool
      <4>. QED BY <1>0, <1>a, <1>b, <1>e, <1>g, <2>2, <3>1, <4>1 DEF LocalInv
    <3>2. CASE q # p
      BY <1>0, <1>e, <2>2, <3>2 DEF LocalInv
    <3>. QED BY <3>1, <3>2
  <2>. QED BY <2>1, <2>2 DEF LocalInv
<1>5. InitInv'
  BY <1>0, <1>e, <1>g, Types DEF InitInv
<1>6. ParentAlive'
  BY <1>0, <1>e, <1>g, Types DEF ParentAlive, InitInv
<1>7. ForkedChildStays'
  <2>1. \A q \in Pool : np[q] \in Pool
    BY Types
  <2>. QED BY <1>0, <1>a, <1>e, <2>1 DEF ForkedChildStays
<1>. QED BY <1>1, <1>2, <1>3, <1>4, <1>5, <1>6, <1>7 DEF IInv
-----------------------------------------------------------------------------
\* The actions of the scheduler loop.

\* A CPU without a process goes around its loop.
LEMMA IdleStep ==
    ASSUME IInv, NEW c \in CPU, NEW l \in {"fetch", "all_dead", "wfi"},
           cpc[c] \in {"fetch", "all_dead", "wfi"}, cpc' = [cpc EXCEPT ![c] = l],
           UNCHANGED <<state, pid, parent, sleep_chan, plock, wait_lock, task_queue, PID, proc,
                       fetched, scan, pc, i, np, havekids, wpid>>
    PROVE  IInv'
<1>0. TypeOK /\ CpuInv /\ PlaceInv /\ StateInv
  BY DEF IInv
<1>a. /\ \A d \in CPU : cpc'[d] = IF d = c THEN l ELSE cpc[d]
      /\ Queued' = Queued /\ (QueuedOnce' <=> QueuedOnce)
  BY <1>0 DEF TypeOK, Queued, QueuedOnce
<1>1. TypeOK'
  BY <1>0 DEF TypeOK, CpuPC
<1>2. CpuInv' /\ PlaceInv'
  <2>1. CpuInv'
    BY <1>0, <1>a DEF CpuInv, HasProc
  <2>2. \A d \in CPU : Busy(d)' <=> Busy(d)
    BY <1>a DEF Busy
  <2>3. PlaceInv'
    BY <1>0, <1>a, <2>2 DEF PlaceInv
  <2>. QED BY <2>1, <2>3
<1>3. StateInv'
  <2>1. OfQueue'
    BY <1>0, <1>a DEF StateInv, OfQueue
  <2>2. ASSUME NEW d \in CPU PROVE OfCpu(d)'
    <3>1. OfCpu(d)
      BY <1>0 DEF StateInv
    <3>. QED BY <1>a, <3>1 DEF OfCpu
  <2>3. ASSUME NEW q \in Pool PROVE OfProc(q)'
    <3>1. OfProc(q)
      BY <1>0 DEF StateInv
    <3>2. \A d \in CPU : cpc[d] \in {"lock", "run", "back", "panic: allocproc"} => cpc'[d] = cpc[d]
      BY <1>a
    <3>. QED BY <1>a, <3>1, <3>2 DEF OfProc, Busy
  <2>. QED BY <2>1, <2>2, <2>3 DEF StateInv
<1>4. LockInv'
  <2>1. ASSUME NEW d \in CPU PROVE SameHolder(d)
    BY <1>a DEF SameHolder
  <2>. QED BY <2>1, SameLocks
<1>5. LocalInv' /\ InitInv' /\ ParentAlive' /\ ForkedChildStays'
  BY DEF IInv, LocalInv, InitInv, ParentAlive, ForkedChildStays
<1>. QED BY <1>1, <1>2, <1>3, <1>4, <1>5 DEF IInv

\* fetch_task moves the head of the queue to a CPU.
LEMMA Step_fetch_task ==
    ASSUME IInv, NEW c \in CPU, fetch_task(c)
    PROVE  IInv'
<1>0. TypeOK /\ CpuInv /\ PlaceInv /\ StateInv
  BY DEF IInv
<1>a. /\ cpc[c] = "fetch"
      /\ UNCHANGED <<state, pid, parent, sleep_chan, plock, wait_lock, PID, proc,
                     scan, pc, i, np, havekids, wpid>>
  BY DEF fetch_task, procVars, lockVars, localVars
<1>1. CASE task_queue = <<>>
  <2>1. cpc' = [cpc EXCEPT ![c] = "all_dead"] /\ UNCHANGED <<task_queue, fetched>>
    BY <1>1 DEF fetch_task, CpuGoto
  <2>. QED BY <1>a, <2>1, IdleStep
<1>2. CASE task_queue # <<>>
  <2>1. PICK p : p = Head(task_queue)
    OBVIOUS
  <2>2. /\ fetched' = [fetched EXCEPT ![c] = p]
        /\ task_queue' = Tail(task_queue)
        /\ cpc' = [cpc EXCEPT ![c] = "lock"]
    BY <1>2, <2>1 DEF fetch_task, CpuGoto
  <2>3. /\ task_queue' \in Seq(Pool) /\ QueuedOnce'
        /\ p \in Queued /\ Queued' = Queued \ {p}
    BY <1>0, <1>2, <2>1, <2>2, QueueTail DEF TypeOK, PlaceInv
  <2>4. p \in Pool /\ state[p] = "RUNNABLE" /\ pc[p] \in Resumes
    BY <1>0, <2>3, Types DEF StateInv, OfQueue
  <2>5. /\ \A d \in CPU : cpc'[d] = IF d = c THEN "lock" ELSE cpc[d]
        /\ \A d \in CPU : fetched'[d] = IF d = c THEN p ELSE fetched[d]
    BY <1>0, <2>2 DEF TypeOK
  <2>6. TypeOK'
    BY <1>0, <1>a, <2>2, <2>3, <2>4 DEF TypeOK, CpuPC
  <2>7. CpuInv'
    BY <1>0, <1>a, <2>5 DEF CpuInv, HasProc
  <2>8. PlaceInv'
    <3>1. \A d \in CPU : Busy(d)' <=> Busy(d) \/ d = c
      BY <2>5 DEF Busy
    <3>2. \A d \in CPU : Busy(d) => fetched'[d] = fetched[d] /\ fetched[d] # p
      BY <1>0, <1>a, <2>3, <2>5 DEF PlaceInv, Busy
    <3>3. fetched'[c] = p
      BY <2>5
    <3>. QED BY <1>0, <2>3, <3>1, <3>2, <3>3 DEF PlaceInv
  <2>9. StateInv'
    <3>1. OfQueue'
      BY <1>0, <1>a, <2>3 DEF StateInv, OfQueue
    <3>2. ASSUME NEW d \in CPU PROVE OfCpu(d)'
      <4>1. OfCpu(d)
        BY <1>0 DEF StateInv
      <4>. QED BY <1>a, <2>4, <2>5, <4>1 DEF OfCpu
    <3>3. ASSUME NEW q \in Pool PROVE OfProc(q)'
      <4>1. OfProc(q)
        BY <1>0 DEF StateInv
      <4>2. \A d \in CPU : Busy(d) => cpc'[d] = cpc[d] /\ fetched'[d] = fetched[d]
        BY <1>a, <2>5 DEF Busy
      <4>3. cpc'[c] = "lock" /\ fetched'[c] = p
        BY <2>5
      <4>. QED BY <1>a, <2>3, <2>4, <4>1, <4>2, <4>3, Constants DEF OfProc, Busy, Active
    <3>. QED BY <3>1, <3>2, <3>3 DEF StateInv
  <2>10. LockInv'
    <3>1. ASSUME NEW d \in CPU PROVE SameHolder(d)
      BY <1>a, <2>5 DEF SameHolder
    <3>. QED BY <1>a, <3>1, SameLocks
  <2>11. LocalInv' /\ InitInv' /\ ParentAlive' /\ ForkedChildStays'
    BY <1>a DEF IInv, LocalInv, InitInv, ParentAlive, ForkedChildStays
  <2>. QED BY <2>6, <2>7, <2>8, <2>9, <2>10, <2>11 DEF IInv
<1>. QED BY <1>1, <1>2

\* all_dead() stops at pool[0]: init is never UNUSED.
LEMMA Step_all_dead ==
    ASSUME IInv, NEW c \in CPU, all_dead(c)
    PROVE  IInv'
<1>1. scan[c] = 0 /\ state[0] # "UNUSED"
  BY DEF IInv, CpuInv, InitInv, init_proc
<1>2. /\ cpc[c] = "all_dead" /\ cpc' = [cpc EXCEPT ![c] = "wfi"]
      /\ scan' = [scan EXCEPT ![c] = 0]
      /\ UNCHANGED <<state, pid, parent, sleep_chan, plock, wait_lock, task_queue, PID, proc,
                     fetched, pc, i, np, havekids, wpid>>
  BY <1>1 DEF all_dead, CpuGoto, procVars, lockVars, localVars
<1>3. scan' = scan
  BY <1>1, <1>2 DEF IInv, TypeOK
<1>. QED BY <1>2, <1>3, IdleStep

\* The timer wakes the hart.
LEMMA Step_wfi ==
    ASSUME IInv, NEW c \in CPU, wfi(c)
    PROVE  IInv'
<1>1. /\ cpc[c] = "wfi" /\ cpc' = [cpc EXCEPT ![c] = "fetch"]
      /\ UNCHANGED <<state, pid, parent, sleep_chan, plock, wait_lock, task_queue, PID, proc,
                     fetched, scan, pc, i, np, havekids, wpid>>
  BY DEF wfi, CpuGoto, procVars, lockVars, localVars
<1>. QED BY <1>1, IdleStep

\* scheduler() switches to the process, which is RUNNABLE, with its lock held.
LEMMA Step_dispatch ==
    ASSUME IInv, NEW c \in CPU, dispatch(c)
    PROVE  IInv'
<1>0. TypeOK /\ CpuInv /\ PlaceInv /\ StateInv /\ LockInv
  BY DEF IInv
<1>a. PICK p \in Pool : p = fetched[c] /\ cpc[c] = "lock" /\ plock[p] = NoCpu
  BY Types DEF dispatch, Free
<1>b. state[p] = "RUNNABLE" /\ pc[p] \in Resumes
  BY <1>0, <1>a DEF StateInv, OfCpu
<1>c. p \notin Queued /\ \A d \in CPU : Busy(d) /\ fetched[d] = p => d = c
  BY <1>a, OnCpu DEF Busy
<1>d. /\ plock' = [plock EXCEPT ![p] = c]
      /\ state' = [state EXCEPT ![p] = "RUNNING"]
      /\ proc' = [proc EXCEPT ![c] = p]
      /\ cpc' = [cpc EXCEPT ![c] = "run"]
      /\ UNCHANGED <<pid, parent, sleep_chan, wait_lock, task_queue, PID, fetched, scan, pc,
                     i, np, havekids, wpid>>
  BY <1>a, <1>b DEF dispatch, CpuGoto, localVars
<1>e. /\ \A q \in Pool : plock'[q] = IF q = p THEN c ELSE plock[q]
      /\ \A q \in Pool : state'[q] = IF q = p THEN "RUNNING" ELSE state[q]
      /\ \A d \in CPU : proc'[d] = IF d = c THEN p ELSE proc[d]
      /\ \A d \in CPU : cpc'[d] = IF d = c THEN "run" ELSE cpc[d]
      /\ UNCHANGED <<fetched, scan, pc, np, i, wait_lock, parent>>
  BY <1>0, <1>d DEF TypeOK
<1>f. Queued' = Queued /\ (QueuedOnce' <=> QueuedOnce)
  BY <1>d DEF Queued, QueuedOnce
<1>1. TypeOK'
  BY <1>0, <1>d DEF TypeOK, ProcState, CpuPC
<1>2. CpuInv' /\ PlaceInv'
  <2>1. CpuInv'
    BY <1>0, <1>a, <1>e DEF CpuInv, HasProc
  <2>2. \A d \in CPU : Busy(d)' <=> Busy(d)
    BY <1>a, <1>e DEF Busy
  <2>3. PlaceInv'
    BY <1>0, <1>e, <1>f, <2>2 DEF PlaceInv
  <2>. QED BY <2>1, <2>3
<1>3. StateInv'
  <2>1. OfQueue'
    BY <1>0, <1>c, <1>e, <1>f, Types DEF StateInv, OfQueue
  <2>2. ASSUME NEW d \in CPU PROVE OfCpu(d)'
    <3>0. OfCpu(d) /\ fetched[d] \in Pool /\ (d # c /\ Busy(d) => fetched[d] # p)
      BY <1>0, <1>c, Types DEF StateInv
    <3>. QED BY <1>a, <1>b, <1>e, <3>0, Constants DEF OfCpu, Busy
  <2>3. ASSUME NEW q \in Pool PROVE OfProc(q)'
    <3>0. OfProc(q)
      BY <1>0 DEF StateInv
    <3>1. CASE q = p
      BY <1>a, <1>e, <3>1 DEF OfProc
    <3>2. CASE q # p
      <4>1. /\ state'[q] = state[q] /\ pc'[q] = pc[q]
            /\ \A d \in CPU : fetched[d] = q => cpc'[d] = cpc[d]
        BY <1>a, <1>e, <3>2
      <4>. QED BY <1>e, <1>f, <3>0, <4>1 DEF OfProc, Busy
    <3>. QED BY <3>1, <3>2
  <2>. QED BY <2>1, <2>2, <2>3 DEF StateInv
<1>4. LockInv'
  <2>1. ASSUME NEW d \in CPU, NEW q \in Pool
        PROVE  plock'[q] = d <=> HoldsOwn(d, q)' \/ HoldsNew(d, q)'
    <3>0. /\ plock[q] = d <=> HoldsOwn(d, q) \/ HoldsNew(d, q)
          /\ (d # c /\ Busy(d) => fetched[d] # p)
      BY <1>0, <1>c DEF LockInv
    <3>. QED BY <1>a, <1>b, <1>e, <3>0, Constants, CPUAssumption DEF HoldsOwn, HoldsNew, Busy
  <2>2. ASSUME NEW d \in CPU
        PROVE  wait_lock' = d <=> HoldsWait(d)'
    <3>0. wait_lock = d <=> HoldsWait(d)
      BY <1>0 DEF LockInv
    <3>. QED BY <1>a, <1>b, <1>e, <3>0, Constants DEF HoldsWait
  <2>. QED BY <2>1, <2>2 DEF LockInv
<1>5. LocalInv'
  <2>1. \A q \in Pool : np[q] \in Pool
    BY Types
  <2>. QED BY <1>b, <1>e, <2>1 DEF IInv, LocalInv
<1>6. InitInv'
  BY <1>e, Types DEF IInv, InitInv
<1>7. ParentAlive'
  BY <1>b, <1>e DEF IInv, ParentAlive
<1>8. ForkedChildStays'
  <2>1. \A q \in Pool : np[q] \in Pool
    BY Types
  <2>. QED BY <1>e, <2>1 DEF IInv, ForkedChildStays
<1>. QED BY <1>1, <1>2, <1>3, <1>4, <1>5, <1>6, <1>7, <1>8 DEF IInv

\* scheduler() lets go of the process that switched back: only now can another
\* CPU find it, in the queue or by taking its lock.
LEMMA Step_switch_back ==
    ASSUME IInv, NEW c \in CPU, switch_back(c)
    PROVE  IInv'
<1>0. TypeOK /\ CpuInv /\ PlaceInv /\ StateInv /\ LockInv /\ QueuedOnce
  BY DEF IInv, PlaceInv
<1>a. PICK p \in Pool : p = fetched[c] /\ cpc[c] = "back"
  BY Types DEF switch_back
<1>b. proc[c] = p /\ plock[p] = c
  BY <1>0, <1>a DEF CpuInv, HasProc, LockInv, HoldsOwn
<1>c. p \notin Queued /\ \A d \in CPU : Busy(d) /\ fetched[d] = p => d = c
  BY <1>a, OnCpu DEF Busy
<1>d. \/ state[p] = "RUNNABLE" /\ pc[p] = "yielded"
      \/ state[p] = "SLEEPING" /\ pc[p] = "woken"
      \/ state[p] = "ZOMBIE" /\ pc[p] = "dead"
  BY <1>0, <1>a DEF StateInv, OfCpu
<1>e. /\ proc' = [proc EXCEPT ![c] = NoProc]
      /\ plock' = [plock EXCEPT ![p] = NoCpu]
      /\ fetched' = [fetched EXCEPT ![c] = 0]
      /\ UNCHANGED <<state, pid, parent, sleep_chan, wait_lock, PID, scan, pc,
                     i, np, havekids, wpid>>
  BY <1>a, <1>b DEF switch_back, procVars, localVars
<1>f. /\ cpc' = [cpc EXCEPT ![c] = "fetch"]
      /\ task_queue' \in Seq(Pool) /\ QueuedOnce'
      /\ Queued' = IF state[p] = "RUNNABLE" THEN Queued \cup {p} ELSE Queued
  <2>1. CASE state[p] = "RUNNABLE"
    <3>1. add_task(c, p, "fetch")
      BY <1>a, <1>b, <2>1 DEF switch_back
    <3>2. task_queue' = Append(task_queue, p) /\ cpc' = [cpc EXCEPT ![c] = "fetch"]
      BY <1>c, <3>1, AddTask
    <3>. QED BY <1>0, <1>c, <2>1, <3>2, QueueAppend DEF TypeOK
  <2>2. CASE state[p] # "RUNNABLE"
    <3>1. cpc' = [cpc EXCEPT ![c] = "fetch"] /\ UNCHANGED task_queue
      BY <1>a, <1>b, <2>2 DEF switch_back, CpuGoto
    <3>. QED BY <1>0, <2>2, <3>1 DEF TypeOK, Queued, QueuedOnce
  <2>. QED BY <2>1, <2>2
<1>g. /\ \A q \in Pool : plock'[q] = IF q = p THEN NoCpu ELSE plock[q]
      /\ \A d \in CPU : proc'[d] = IF d = c THEN NoProc ELSE proc[d]
      /\ \A d \in CPU : cpc'[d] = IF d = c THEN "fetch" ELSE cpc[d]
      /\ \A d \in CPU \ {c} : fetched'[d] = fetched[d]
      /\ UNCHANGED <<state, scan, pc, np, i, wait_lock, parent>>
  BY <1>0, <1>e, <1>f DEF TypeOK
<1>1. TypeOK'
  BY <1>0, <1>e, <1>f, Constants DEF TypeOK, CpuPC
<1>2. CpuInv'
  BY <1>0, <1>g DEF CpuInv, HasProc
<1>3. PlaceInv'
  <2>1. \A d \in CPU : Busy(d)' => Busy(d) /\ d # c /\ fetched'[d] = fetched[d]
    BY <1>g DEF Busy
  <2>. QED BY <1>0, <1>c, <1>f, <2>1 DEF PlaceInv
<1>4. StateInv'
  <2>1. OfQueue'
    BY <1>0, <1>d, <1>f, <1>g, Constants DEF StateInv, OfQueue
  <2>2. ASSUME NEW d \in CPU PROVE OfCpu(d)'
    <3>0. OfCpu(d)
      BY <1>0 DEF StateInv
    <3>. QED BY <1>g, <3>0 DEF OfCpu
  <2>3. ASSUME NEW q \in Pool PROVE OfProc(q)'
    <3>0. OfProc(q)
      BY <1>0 DEF StateInv
    <3>1. CASE q = p
      BY <1>d, <1>f, <1>g, <3>1, Constants DEF OfProc, Active
    <3>2. CASE q # p
      <4>1. /\ state'[q] = state[q] /\ pc'[q] = pc[q] /\ (q \in Queued' <=> q \in Queued)
            /\ \A d \in CPU : fetched[d] = q => cpc'[d] = cpc[d] /\ fetched'[d] = q
        BY <1>a, <1>f, <1>g, <3>2
      <4>. QED BY <3>0, <4>1 DEF OfProc, Busy
    <3>. QED BY <3>1, <3>2
  <2>. QED BY <2>1, <2>2, <2>3 DEF StateInv
<1>5. LockInv'
  <2>1. ASSUME NEW d \in CPU, NEW q \in Pool
        PROVE  plock'[q] = d <=> HoldsOwn(d, q)' \/ HoldsNew(d, q)'
    <3>0. plock[q] = d <=> HoldsOwn(d, q) \/ HoldsNew(d, q)
      BY <1>0 DEF LockInv
    <3>1. CASE d = c
      BY <1>a, <1>b, <1>g, <3>0, <3>1, CPUAssumption DEF HoldsOwn, HoldsNew
    <3>2. CASE d # c
      <4>1. q = p => plock[q] # d
        BY <1>b, <3>2
      <4>. QED BY <1>g, <3>0, <3>2, <4>1, CPUAssumption DEF HoldsOwn, HoldsNew
    <3>. QED BY <3>1, <3>2
  <2>2. ASSUME NEW d \in CPU
        PROVE  wait_lock' = d <=> HoldsWait(d)'
    <3>0. wait_lock = d <=> HoldsWait(d)
      BY <1>0 DEF LockInv
    <3>. QED BY <1>a, <1>g, <3>0 DEF HoldsWait
  <2>. QED BY <2>1, <2>2 DEF LockInv
<1>6. LocalInv' /\ InitInv' /\ ParentAlive' /\ ForkedChildStays'
  BY <1>g DEF IInv, LocalInv, InitInv, ParentAlive, ForkedChildStays
<1>. QED BY <1>1, <1>2, <1>3, <1>4, <1>5, <1>6 DEF IInv
-----------------------------------------------------------------------------
\* The invariant is inductive.

\* After proc_init and load_init_app only init exists, and it is queued.
LEMMA InitIInv ==
    ASSUME Init
    PROVE  IInv
<1>a. /\ init_proc \in Pool /\ init_proc = 0 /\ NoProc \notin Pool
      /\ \A p \in Pool : p < 0 => FALSE
  BY NPROCAssumption, NoProcAssumption DEF init_proc, Pool
<1>b. Queued = {init_proc} /\ QueuedOnce
  BY DEF Init, Queued, QueuedOnce
<1>1. TypeOK
  <2>1. task_queue \in Seq(Pool)
    BY <1>a DEF Init
  <2>2. PID \in 1 .. MaxPid + 1 /\ 1 \in -1 .. MaxPid /\ 0 \in -1 .. MaxPid
    BY PidAssumption DEF Init
  <2>. QED BY <1>a, <2>1, <2>2, Constants DEF Init, TypeOK, ProcState, CpuPC
<1>2. CpuInv /\ PlaceInv
  BY <1>b DEF Init, CpuInv, PlaceInv, HasProc, Busy
<1>3. StateInv
  <2>1. OfQueue
    BY <1>a, <1>b, Constants DEF Init, OfQueue
  <2>2. ASSUME NEW c \in CPU PROVE OfCpu(c)
    BY DEF Init, OfCpu
  <2>3. ASSUME NEW p \in Pool PROVE OfProc(p)
    BY <1>b, Constants DEF Init, OfProc, Active
  <2>. QED BY <2>1, <2>2, <2>3 DEF StateInv
<1>4. LockInv
  BY CPUAssumption DEF Init, LockInv, HoldsOwn, HoldsNew, HoldsWait
<1>5. LocalInv /\ ForkedChildStays
  BY <1>a DEF Init, LocalInv, ForkedChildStays
<1>6. InitInv /\ ParentAlive
  BY <1>a DEF Init, InitInv, ParentAlive
<1>. QED BY <1>1, <1>2, <1>3, <1>4, <1>5, <1>6 DEF IInv

\* Every step of every CPU preserves it.
LEMMA NextIInv ==
    ASSUME IInv, [Next]_vars
    PROVE  IInv'
<1>1. CASE UNCHANGED vars
  <2>1. UNCHANGED <<state, pid, parent, sleep_chan, plock, wait_lock, task_queue, PID, proc, cpc,
                    fetched, scan, pc, i, np, havekids, wpid>>
    BY <1>1 DEF vars, procVars, lockVars, localVars
  <2>2. Queued' = Queued /\ (QueuedOnce' <=> QueuedOnce)
    BY <2>1 DEF Queued, QueuedOnce
  <2>3. TypeOK' /\ CpuInv' /\ PlaceInv'
    BY <2>1, <2>2 DEF IInv, TypeOK, CpuInv, PlaceInv, HasProc, Busy
  <2>4. StateInv'
    <3>0. StateInv
      BY DEF IInv
    <3>1. OfQueue'
      BY <2>1, <2>2, <3>0 DEF StateInv, OfQueue
    <3>2. ASSUME NEW c \in CPU PROVE OfCpu(c)'
      BY <2>1, <3>0 DEF StateInv, OfCpu
    <3>3. ASSUME NEW p \in Pool PROVE OfProc(p)'
      BY <2>1, <2>2, <3>0 DEF StateInv, OfProc, Busy
    <3>. QED BY <3>1, <3>2, <3>3 DEF StateInv
  <2>5. LockInv'
    BY <2>1 DEF IInv, LockInv, HoldsOwn, HoldsNew, HoldsWait
  <2>6. LocalInv' /\ InitInv' /\ ParentAlive' /\ ForkedChildStays'
    BY <2>1 DEF IInv, LocalInv, InitInv, ParentAlive, ForkedChildStays
  <2>. QED BY <2>3, <2>4, <2>5, <2>6 DEF IInv
<1>2. ASSUME NEW c \in CPU, Syscall(c) PROVE IInv'
  BY <1>2, Step_fork, Step_wait, Step_exec, Step_getppid, Step_exit DEF Syscall
<1>3. ASSUME NEW c \in CPU, Scheduler(c) PROVE IInv'
  BY <1>3, Step_fetch_task, Step_all_dead, Step_wfi, Step_dispatch, Step_switch_back DEF Scheduler
<1>4. ASSUME NEW c \in CPU, Kernel(c) PROVE IInv'
  BY <1>3, <1>4, Step_sched_return, Step_getppid_return, Step_allocproc, Step_fork_publish,
     Step_fork_return, Step_wait_acquire, Step_wait_scan, Step_wait_reap, Step_wait_end,
     Step_sleep_lock, Step_sleep_sched, Step_sleep_return, Step_exit_acquire, Step_wakeup,
     Step_exit_lock, Step_reparent, Step_exit_sched DEF Kernel, sleep
<1>. QED BY <1>1, <1>2, <1>4, Step_yield DEF Next

\* The invariant of the scheduler and of fork, wait and exit holds in every
\* reachable state.
THEOREM ProcInvariant == Spec => []IInv
<1>1. Init => IInv
  BY InitIInv
<1>2. IInv /\ [Next]_vars => IInv'
  BY NextIInv
<1>. QED BY <1>1, <1>2, PTL DEF Spec
-----------------------------------------------------------------------------
\* What it implies.

\* The places of a process, counted.
LEMMA CountPlaces ==
    ASSUME IInv, NEW p \in Pool
    PROVE  /\ Places(p) \in {0, 1}
           /\ Places(p) = 1 <=> p \in Queued \/ \E c \in CPU : Busy(c) /\ fetched[c] = p
           /\ QueueSlots(p) # {} <=> p \in Queued
<1>0. PlaceInv /\ CpuInv
  BY DEF IInv
<1>1. /\ QueueSlots(p) # {} <=> p \in Queued
      /\ p \in Queued => \E k : QueueSlots(p) = {k}
  <2>1. QueueSlots(p) # {} <=> p \in Queued
    BY DEF QueueSlots, Queued
  <2>2. ASSUME p \in Queued PROVE \E k : QueueSlots(p) = {k}
    <3>1. PICK k : k \in QueueSlots(p)
      BY <2>1, <2>2
    <3>2. \A j \in QueueSlots(p) : j = k
      BY <1>0, <3>1 DEF QueueSlots, PlaceInv, QueuedOnce
    <3>3. QueueSlots(p) = {k}
      BY <3>1, <3>2
    <3>. QED BY <3>3
  <2>. QED BY <2>1, <2>2
<1>2. /\ \A c \in Fetchers(p) \cup Runners(p) : c \in CPU /\ Busy(c) /\ fetched[c] = p
      /\ \A c \in CPU : Busy(c) /\ fetched[c] = p => c \in Fetchers(p) \/ c \in Runners(p)
      /\ Fetchers(p) \cap Runners(p) = {}
  BY <1>0, NoProcAssumption DEF Fetchers, Runners, CpuInv, HasProc, Busy
<1>3. \A c, d \in Fetchers(p) \cup Runners(p) : c = d
  BY <1>0, <1>2 DEF PlaceInv
<1>4. /\ Cardinality({}) = 0 /\ \A x : Cardinality({x}) = 1
  BY FS_EmptySet, FS_Singleton
<1>5. CASE p \in Queued
  <2>1. Fetchers(p) = {} /\ Runners(p) = {}
    BY <1>0, <1>2, <1>5 DEF PlaceInv
  <2>2. PICK k : QueueSlots(p) = {k}
    BY <1>1, <1>5
  <2>3. Places(p) = 1
    <3>1. Cardinality(QueueSlots(p)) = 1
      BY <1>4, <2>2
    <3>. QED BY <1>4, <2>1, <3>1 DEF Places
  <2>. QED BY <1>1, <1>5, <2>3
<1>6. CASE p \notin Queued /\ \E c \in CPU : Busy(c) /\ fetched[c] = p
  <2>1. QueueSlots(p) = {}
    BY <1>1, <1>6
  <2>2. PICK c \in CPU : Busy(c) /\ fetched[c] = p
    BY <1>6
  <2>3. \/ Fetchers(p) = {c} /\ Runners(p) = {}
        \/ Fetchers(p) = {} /\ Runners(p) = {c}
    <3>1. CASE c \in Fetchers(p)
      BY <1>2, <1>3, <3>1
    <3>2. CASE c \in Runners(p)
      BY <1>2, <1>3, <3>2
    <3>. QED BY <1>2, <2>2, <3>1, <3>2
  <2>4. Places(p) = 1
    BY <1>4, <2>1, <2>3 DEF Places
  <2>. QED BY <1>1, <1>6, <2>4
<1>7. CASE p \notin Queued /\ ~\E c \in CPU : Busy(c) /\ fetched[c] = p
  <2>1. QueueSlots(p) = {} /\ Fetchers(p) = {} /\ Runners(p) = {}
    BY <1>1, <1>2, <1>7
  <2>2. Places(p) = 0
    BY <1>4, <2>1 DEF Places
  <2>. QED BY <1>1, <1>7, <2>2
<1>. QED BY <1>5, <1>6, <1>7

\* No assertion of scheduler() and sched() fails, push_queue never finds the ring
\* full, and all_dead() never finds the pool empty, however many CPUs interleave
\* their system calls (os/sched.c, os/proc.c).
THEOREM SchedulerNeverPanics == Spec => []NoPanic
<1>1. IInv => NoPanic
  BY DEF IInv, CpuInv, NoPanic
<1>. QED BY <1>1, ProcInvariant, PTL

\* A process that can run is in the queue once, or fetched by one scheduler, or on
\* one CPU: it is neither lost nor run twice.
THEOREM EveryProcessInOnePlace == Spec => []InOnePlace
<1>1. ASSUME IInv PROVE InOnePlace
  <2> SUFFICES ASSUME NEW p \in Pool
               PROVE  /\ Places(p) <= 1
                      /\ state[p] \in {"RUNNABLE", "RUNNING"} => Places(p) = 1
                      /\ QueueSlots(p) # {} => state[p] = "RUNNABLE"
    BY DEF InOnePlace
  <2>0. StateInv
    BY <1>1 DEF IInv
  <2>1. state[p] \in {"RUNNABLE", "RUNNING"} =>
          p \in Queued \/ \E c \in CPU : Busy(c) /\ fetched[c] = p
    BY <2>0 DEF StateInv, OfProc, Busy
  <2>2. p \in Queued => state[p] = "RUNNABLE"
    BY <2>0 DEF StateInv, OfQueue
  <2>3. Places(p) <= 1
    <3>1. Places(p) = 0 \/ Places(p) = 1
      BY <1>1, CountPlaces
    <3>. QED BY <3>1
  <2>. QED BY <1>1, <2>1, <2>2, <2>3, CountPlaces
<1>2. IInv => InOnePlace
  BY <1>1
<1>. QED BY <1>2, ProcInvariant, PTL

\* wait() frees and fork() takes only processes whose kernel stack no CPU is on.
THEOREM StacksNotReused == Spec => []StackNotReused
<1>1. ASSUME IInv PROVE StackNotReused
  <2> SUFFICES ASSUME NEW p \in Pool, state[p] \in {"UNUSED", "USED"}
               PROVE  Places(p) = 0
    BY DEF StackNotReused
  <2>1. p \notin Queued /\ \A c \in CPU : Busy(c) => fetched[c] # p
    BY <1>1, Nowhere
  <2>. QED BY <1>1, <2>1, CountPlaces
<1>2. IInv => StackNotReused
  BY <1>1
<1>. QED BY <1>2, ProcInvariant, PTL

\* Every process but init has a parent that can still wait for it: exit() hands all
\* children to init before it becomes a zombie, and wait() frees no parent.
THEOREM EveryParentAlive == Spec => []ParentAlive
<1>1. IInv => ParentAlive
  BY DEF IInv
<1>. QED BY <1>1, ProcInvariant, PTL

\* The child whose pid fork() reads without a lock is still the child it created.
THEOREM ForkReturnsItsChild == Spec => []ForkedChildStays
<1>1. IInv => ForkedChildStays
  BY DEF IInv
<1>. QED BY <1>1, ProcInvariant, PTL
-----------------------------------------------------------------------------
\* The scheduler and the ring.

\* A process that is added is in no queue: the child that fork publishes, the parent that
\* exit wakes, and the process that a CPU has just let go of.
LEMMA AddedNotQueued ==
    ASSUME IInv, NEW c \in CPU, NEW n \in Pool, NEW l,
           \/ cpc[c] = "back" /\ n = fetched[c]
           \/ state[n] \in {"USED", "SLEEPING"},
           add_task(c, n, l)
    PROVE  n \notin Queued /\ task_queue' = Append(task_queue, n)
<1>1. n \notin Queued
  BY DEF IInv, PlaceInv, Busy, StateInv, OfQueue
<1>. QED BY <1>1, AddTask

\* Every step of the system leaves the queue alone, adds to it a process that is not in it,
\* or takes the oldest out.
LEMMA NextQueueStep == IInv /\ [Next]_vars => QueueStep \/ UNCHANGED task_queue
<1> SUFFICES ASSUME IInv, [Next]_vars PROVE QueueStep \/ UNCHANGED task_queue
  OBVIOUS
<1>1. CASE UNCHANGED vars
  BY <1>1 DEF vars
<1>2. ASSUME NEW c \in CPU, fetch_task(c) PROVE QueueStep \/ UNCHANGED task_queue
  BY <1>2 DEF fetch_task, QueueStep
<1>3. ASSUME NEW c \in CPU, switch_back(c) PROVE QueueStep \/ UNCHANGED task_queue
  <2>1. PICK p \in Pool : p = fetched[c] /\ cpc[c] = "back"
    BY <1>3, Types DEF switch_back
  <2>2. add_task(c, p, "fetch") \/ UNCHANGED task_queue
    BY <1>3, <2>1 DEF switch_back
  <2>. QED BY <2>1, <2>2, AddedNotQueued DEF QueueStep
<1>4. ASSUME NEW c \in CPU, fork_publish(c) PROVE QueueStep \/ UNCHANGED task_queue
  <2>1. PICK p \in Pool : p = fetched[c] /\ proc[c] = p /\ pc[p] = "fork"
    BY <1>4, AtThread DEF fork_publish, At
  <2>2. PICK n \in Pool : n = np[p] /\ state[n] = "USED"
    BY <2>1, Types DEF IInv, LocalInv
  <2>3. add_task(c, n, "run")
    BY <1>4, <2>1, <2>2 DEF fork_publish
  <2>. QED BY <2>2, <2>3, AddedNotQueued DEF QueueStep
<1>5. ASSUME NEW c \in CPU, wakeup(c) PROVE QueueStep \/ UNCHANGED task_queue
  <2>1. PICK p \in Pool : proc[c] = p /\ i[p] < NPROC
    BY <1>5, AtThread DEF wakeup, At
  <2>2. PICK n \in Pool : n = i[p]
    BY <2>1, NPROCAssumption DEF IInv, TypeOK, Pool
  <2>3. (state[n] = "SLEEPING" /\ add_task(c, n, "run")) \/ UNCHANGED task_queue
    BY <1>5, <2>1, <2>2 DEF wakeup
  <2>. QED BY <2>3, AddedNotQueued DEF QueueStep
<1>6. ASSUME NEW c \in CPU, Syscall(c) \/ yield(c) PROVE UNCHANGED task_queue
  BY <1>6 DEF Syscall, yield, fork, wait, exec, getppid, exit
<1>7. ASSUME NEW c \in CPU, Scheduler(c) PROVE QueueStep \/ UNCHANGED task_queue
  BY <1>2, <1>3, <1>7 DEF Scheduler, all_dead, wfi, dispatch
<1>8. ASSUME NEW c \in CPU, Kernel(c) PROVE QueueStep \/ UNCHANGED task_queue
  BY <1>4, <1>5, <1>7, <1>8 DEF Kernel, sched_return, getppid_return, allocproc, fork_return,
     wait_acquire, wait_scan, wait_reap, wait_end, sleep, sleep_lock, sleep_sched, sleep_return,
     exit_acquire, exit_lock, reparent, exit_sched
<1>. QED BY <1>1, <1>6, <1>8 DEF Next

\* The scheduler, fork, exit and wait keep to what the ring of os/queue.c takes for granted:
\* QueueNoOverflow and QueueImplementsFifo are about the queue they use.
THEOREM QueueUsedAsPromised == Spec => QueueUse
<1>1. IInv /\ [Next]_vars => [QueueStep]_task_queue
  BY NextQueueStep
<1>. QED BY <1>1, ProcInvariant, PTL DEF Spec, QueueUse
-----------------------------------------------------------------------------
\* The order in which locks are taken.

\* The lock of a running process that has not entered sched() or exit()'s second half
\* is free: only its own CPU could hold it.
LEMMA OwnLockFree ==
    ASSUME IInv, NEW c \in CPU, NEW p \in Pool, cpc[c] = "run", p = fetched[c], pc[p] \notin OwnLock
    PROVE  plock[p] = NoCpu
<1>1. state[p] \in {"RUNNING", "RUNNABLE"}
  BY DEF IInv, StateInv, OfCpu
<1>2. ASSUME NEW d \in CPU, HoldsOwn(d, p) PROVE FALSE
  <2>1. d = c
    BY <1>2, OnCpu DEF HoldsOwn, Busy
  <2>. QED BY <1>2, <2>1 DEF HoldsOwn
<1>3. ASSUME NEW d \in CPU, HoldsNew(d, p) PROVE FALSE
  <2>1. fetched[d] \in Pool /\ LocalInv
    BY Types DEF IInv
  <2>. QED BY <1>1, <1>3, <2>1 DEF HoldsNew, LocalInv
<1>. QED BY <1>2, <1>3, Types DEF IInv, LockInv

\* A CPU that holds a p->lock waits for nothing, or it is the holder of wait_lock:
\* the scheduler and the threads that come out of it go straight on to release it,
\* and fork() takes besides the child's lock only its own, which is free.
LEMMA HolderGoesOn ==
    ASSUME IInv, NEW d \in CPU, NEW p \in Pool, plock[p] = d
    PROVE  wait_lock = d \/ \A e \in CPU : ~BlockedBy(d, e)
<1>0. /\ HoldsOwn(d, p) \/ HoldsNew(d, p)
      /\ wait_lock = d <=> HoldsWait(d)
  BY DEF IInv, LockInv
<1>1. CASE cpc[d] = "back"
  BY <1>1 DEF BlockedBy, WantsWaitLock, Wants, At
<1>2. CASE cpc[d] = "run"
  <2>0. PICK q \in Pool : q = fetched[d] /\ proc[d] = q
    BY <1>2, AtThread
  <2>1. CASE HoldsOwn(d, p)
    <3>1. CASE pc[q] \in WaitLock
      BY <1>0, <1>2, <2>0, <3>1 DEF HoldsWait
    <3>2. CASE pc[q] \in Resumes
      BY <1>2, <2>0, <3>2, Constants DEF BlockedBy, WantsWaitLock, Wants, At
    <3>. QED BY <1>2, <2>0, <2>1, <3>1, <3>2, Constants DEF HoldsOwn
  <2>2. CASE HoldsNew(d, p)
    <3>1. pc[q] = "fork"
      BY <2>0, <2>2 DEF HoldsNew
    <3>2. plock[q] = NoCpu
      BY <1>2, <2>0, <3>1, OwnLockFree, Constants
    <3>. QED BY <1>2, <2>0, <3>1, <3>2, CPUAssumption DEF BlockedBy, WantsWaitLock, Wants, At
  <2>. QED BY <1>0, <2>1, <2>2
<1>. QED BY <1>0, <1>1, <1>2 DEF HoldsOwn, HoldsNew

\* The holder of wait_lock waits only for a p->lock, and for one whose holder goes on.
LEMMA WaitLockGoesOn ==
    ASSUME IInv, NEW c \in CPU, NEW d \in CPU, wait_lock = c, BlockedBy(c, d)
    PROVE  \A e \in CPU : ~BlockedBy(d, e)
<1>1. HoldsWait(c)
  BY DEF IInv, LockInv
<1>2. PICK q \in Pool : q = fetched[c] /\ proc[c] = q /\ cpc[c] = "run" /\ pc[q] \in WaitLock
  BY <1>1, AtThread DEF HoldsWait
<1>3. ~WantsWaitLock(c)
  BY <1>2, Constants DEF WantsWaitLock, At
<1>4. PICK p \in Pool : Wants(c, p) /\ plock[p] = d
  BY <1>3 DEF BlockedBy
<1>5. d # c
  <2> SUFFICES ASSUME d = c PROVE FALSE
    OBVIOUS
  <2>1. HoldsOwn(c, p) \/ HoldsNew(c, p)
    BY <1>4 DEF IInv, LockInv
  <2>2. p = q /\ pc[q] \in OwnLock
    BY <1>2, <2>1, Constants DEF HoldsOwn, HoldsNew
  <2>. QED BY <1>2, <1>4, <2>2, Constants DEF Wants
<1>6. wait_lock # d
  BY <1>5
<1>. QED BY <1>4, <1>6, HolderGoesOn

\* However many CPUs there are and in whatever order exit(), fork(), wait() and the
\* scheduler take the locks of os/proc.c, no set of CPUs waits for one another.
THEOREM LocksNeverCycle == Spec => []NoLockCycle
<1>1. ASSUME IInv PROVE NoLockCycle
  <2> SUFFICES ASSUME NEW D \in SUBSET CPU, D # {},
                      \A c \in D : \E d \in D : BlockedBy(c, d)
               PROVE  FALSE
    BY DEF NoLockCycle
  <2>1. ASSUME NEW c \in D, wait_lock = c PROVE FALSE
    <3>1. PICK d \in D : BlockedBy(c, d)
      OBVIOUS
    <3>2. \A e \in CPU : ~BlockedBy(d, e)
      BY <1>1, <2>1, <3>1, WaitLockGoesOn
    <3>. QED BY <3>2
  <2>2. PICK c \in D : TRUE
    OBVIOUS
  <2>3. PICK d \in D : BlockedBy(c, d)
    OBVIOUS
  <2>4. wait_lock # d
    BY <2>1
  <2>5. PICK p \in Pool : plock[p] = d
    BY <2>3, <2>4 DEF BlockedBy
  <2>6. \A e \in CPU : ~BlockedBy(d, e)
    BY <1>1, <2>4, <2>5, HolderGoesOn
  <2>. QED BY <2>6
<1>2. IInv => NoLockCycle
  BY <1>1
<1>. QED BY <1>2, ProcInvariant, PTL
-----------------------------------------------------------------------------
\* No wakeup is lost.

\* What a step must respect to keep WakeInv.  Who falls asleep does so for itself,
\* with no exited child and none that has passed it in wakeup() ...
SleepStep ==
    \A q \in Pool : state'[q] = "SLEEPING" =>
        \/ state[q] = "SLEEPING" /\ wpid'[q] = wpid[q] /\ sleep_chan'[q] = sleep_chan[q]
        \/ /\ sleep_chan'[q] = q
           /\ \A n \in Pool : ~Exited(q, n)' /\ ~(parent'[n] = q /\ Woken(n)')

\* ... who becomes a zombie child of q, by exit() or by reparenting, finds q awake, or
\* q is init, and not in the scan of wait() ...
ZombieStep ==
    \A q, n \in Pool : parent'[n] = q /\ state'[n] = "ZOMBIE" =>
        \/ state[n] = "ZOMBIE" /\ parent[n] = q /\ pid'[n] = pid[n]
        \/ (q = init_proc \/ state'[q] # "SLEEPING") /\ Passed(q)' = {}

\* ... who passes its parent in wakeup() leaves it awake ...
WokenStep ==
    \A q, n \in Pool : parent'[n] = q /\ Woken(n)' =>
        (parent[n] = q /\ Woken(n)) \/ state'[q] # "SLEEPING"

\* ... and wait() passes no exited child.
PassedStep ==
    \A q \in Pool : \A n \in Passed(q)' :
        (n \in Passed(q) /\ wpid'[q] = wpid[q]) \/ ~Exited(q, n)'

LEMMA WakeStep ==
    ASSUME WakeInv, SleepStep, ZombieStep, WokenStep, PassedStep
    PROVE  WakeInv'
<1>0. SleepsForItself /\ WokenInv /\ ScanInv /\ NoLostWakeup
  BY DEF WakeInv
<1>1. SleepsForItself'
  BY <1>0 DEF SleepStep, SleepsForItself
<1>2. WokenInv'
  <2> SUFFICES ASSUME NEW p \in Pool, NEW n \in Pool, parent'[n] = p, Woken(n)'
               PROVE  state'[p] # "SLEEPING"
    BY DEF WokenInv
  <2>1. (parent[n] = p /\ Woken(n)) \/ state'[p] # "SLEEPING"
    BY DEF WokenStep
  <2>2. parent[n] = p /\ Woken(n) => state[p] # "SLEEPING"
    BY <1>0 DEF WokenInv
  <2>. QED BY <2>1, <2>2 DEF SleepStep
<1>3. ASSUME NEW q \in Pool, NEW n \in Pool, Exited(q, n)'
      PROVE  Exited(q, n) \/ wpid'[q] # wpid[q]
                \/ ((q = init_proc \/ state'[q] # "SLEEPING") /\ Passed(q)' = {})
  BY <1>3 DEF ZombieStep, Exited
<1>4. ScanInv'
  <2> SUFFICES ASSUME NEW q \in Pool, NEW n \in Passed(q)', Exited(q, n)'
               PROVE  FALSE
    BY DEF ScanInv
  <2>1. n \in Pool
    BY DEF Passed
  <2>2. n \in Passed(q) /\ wpid'[q] = wpid[q]
    BY DEF PassedStep
  <2>. QED BY <1>0, <1>3, <2>1, <2>2 DEF ScanInv
<1>5. NoLostWakeup'
  <2> SUFFICES ASSUME NEW p \in Pool \ {init_proc}, NEW n \in Pool,
                      state'[p] = "SLEEPING", Exited(p, n)'
               PROVE  FALSE
    BY DEF NoLostWakeup
  <2>1. state[p] = "SLEEPING" /\ wpid'[p] = wpid[p]
    BY DEF SleepStep
  <2>. QED BY <1>0, <1>3, <2>1 DEF NoLostWakeup
<1>. QED BY <1>1, <1>2, <1>4, <1>5 DEF WakeInv

\* Only one thread is between acquire(&wait_lock) and its release.
LEMMA OneWaiter ==
    ASSUME IInv, NEW p \in Pool, NEW q \in Pool, pc[p] \in WaitLock, pc[q] \in WaitLock
    PROVE  p = q
<1>1. ASSUME NEW r \in Pool, pc[r] \in WaitLock
      PROVE  \E c \in CPU : wait_lock = c /\ fetched[c] = r
  <2>1. pc[r] \in Active /\ pc[r] # "alloc"
    BY <1>1, Constants DEF Active
  <2>2. PICK c \in CPU : cpc[c] \in {"run", "panic: allocproc"} /\ fetched[c] = r
    BY <2>1 DEF IInv, StateInv, OfProc
  <2>3. cpc[c] = "run"
    BY <2>1, <2>2 DEF IInv, StateInv, OfCpu
  <2>. QED BY <1>1, <2>2, <2>3 DEF IInv, LockInv, HoldsWait
<1>2. PICK c \in CPU : wait_lock = c /\ fetched[c] = p
  BY <1>1
<1>3. PICK d \in CPU : wait_lock = d /\ fetched[d] = q
  BY <1>1
<1>. QED BY <1>2, <1>3

\* Passed children are looked at under wait_lock.
LEMMA PassedLocked ==
    ASSUME NEW q \in Pool, Passed(q) # {}
    PROVE  pc[q] \in WaitLock
BY Constants DEF Passed

\* A process that is awake goes to l, and nobody else is touched.
WakeMove(p, l) ==
    /\ p \in Pool
    /\ state[p] \in {"RUNNING", "RUNNABLE"} /\ state'[p] \in {"RUNNING", "RUNNABLE"}
    /\ \A q \in Pool : pc'[q] = IF q = p THEN l ELSE pc[q]
    /\ \A q \in Pool \ {p} : /\ state'[q] = state[q] /\ i'[q] = i[q]
                             /\ wpid'[q] = wpid[q] /\ sleep_chan'[q] = sleep_chan[q]
    /\ UNCHANGED <<parent, pid>>
    /\ l = "wakeup" => i'[p] = 0
    /\ l = "reparent" => pc[p] = "wakeup" /\ i[p] = NPROC
    /\ l = "scan" => \/ i'[p] = 0
                     \/ /\ pc[p] = "scan" /\ wpid'[p] = wpid[p]
                        /\ i[p] \in Pool /\ ~Exited(p, i[p]) /\ i'[p] = i[p] + 1
    /\ l = "sleep" => pc[p] = "scan" /\ i[p] = NPROC /\ wpid'[p] = wpid[p]
    /\ l = "sleeping" => pc[p] = "sleep" /\ wpid'[p] = wpid[p]

LEMMA WakeMoveInv ==
    ASSUME IInv, WakeInv, NEW p, NEW l, WakeMove(p, l)
    PROVE  WakeInv'
<1>0. p \in Pool /\ \A q \in Pool : 0 <= q /\ q < NPROC /\ q \in Int
  BY NPROCAssumption DEF WakeMove, Pool
<1>1. SleepStep
  BY <1>0 DEF WakeMove, SleepStep
<1>2. ZombieStep
  BY <1>0 DEF WakeMove, ZombieStep
<1>3. WokenStep
  <2> SUFFICES ASSUME NEW q \in Pool, NEW n \in Pool, parent'[n] = q, Woken(n)'
               PROVE  parent[n] = q /\ Woken(n)
    BY DEF WokenStep
  <2>1. CASE n = p
    BY <1>0, <2>1, NPROCAssumption DEF WakeMove, Woken
  <2>2. CASE n # p
    BY <2>2 DEF WakeMove, Woken
  <2>. QED BY <2>1, <2>2
<1>4. PassedStep
  <2> SUFFICES ASSUME NEW q \in Pool, NEW n \in Passed(q)'
               PROVE  (n \in Passed(q) /\ wpid'[q] = wpid[q]) \/ ~Exited(q, n)'
    BY DEF PassedStep
  <2>1. CASE q # p
    BY <2>1 DEF WakeMove, Passed
  <2>2. CASE q = p
    <3>0. n \in Pool /\ n \in Int /\ 0 <= n /\ n < NPROC
      BY <1>0 DEF Passed
    <3>1. CASE l = "scan"
      <4>1. i'[p] # 0
        BY <1>0, <2>2, <3>0, <3>1 DEF WakeMove, Passed
      <4>2. /\ pc[p] = "scan" /\ wpid'[p] = wpid[p]
            /\ i[p] \in Pool /\ ~Exited(p, i[p]) /\ i'[p] = i[p] + 1
        BY <3>1, <4>1 DEF WakeMove
      <4>3. n < i[p] \/ n = i[p]
        BY <1>0, <2>2, <3>0, <3>1, <4>2 DEF WakeMove, Passed
      <4>4. CASE n < i[p]
        BY <2>2, <3>0, <4>2, <4>4 DEF Passed
      <4>5. CASE n = i[p]
        BY <2>2, <3>0, <4>2, <4>5 DEF WakeMove, Exited
      <4>. QED BY <4>3, <4>4, <4>5
    <3>2. CASE l \in {"sleep", "sleeping"}
      BY <1>0, <2>2, <3>0, <3>2 DEF WakeMove, Passed
    <3>. QED BY <1>0, <2>2, <3>1, <3>2 DEF WakeMove, Passed
  <2>. QED BY <2>1, <2>2
<1>. QED BY <1>1, <1>2, <1>3, <1>4, WakeStep

\* The steps of a thread in user code, in fork() up to the search, and in wait() and
\* exit() as long as only its own position changes.
LEMMA WakeThread ==
    ASSUME IInv, WakeInv, NEW c \in CPU,
           \/ yield(c) \/ sched_return(c) \/ exec(c) \/ getppid(c) \/ getppid_return(c)
           \/ fork(c) \/ fork_return(c) \/ (\E w \in WaitPid : wait(c, w))
           \/ wait_acquire(c) \/ wait_scan(c) \/ wait_end(c) \/ sleep_lock(c)
           \/ sleep_return(c) \/ exit(c) \/ exit_acquire(c) \/ exit_lock(c)
    PROVE  WakeInv'
<1>0. TypeOK
  BY DEF IInv
<1>1. PICK p \in Pool : p = fetched[c] /\ proc[c] = p /\ cpc[c] = "run"
  <2>1. cpc[c] = "run"
    BY DEF yield, sched_return, exec, getppid, getppid_return, fork, fork_return, wait,
       wait_acquire, wait_scan, wait_end, sleep_lock, sleep_return, exit, exit_acquire, exit_lock, At
  <2>. QED BY <2>1, AtThread
<1>2. state[p] \in {"RUNNING", "RUNNABLE"}
  BY <1>1 DEF IInv, StateInv, OfCpu
<1>3. CASE yield(c)
  <2>1. WakeMove(p, "yielded")
    BY <1>0, <1>1, <1>2, <1>3 DEF WakeMove, yield, sched, Goto, TypeOK, localVars
  <2>. QED BY <2>1, WakeMoveInv
<1>4. CASE sched_return(c)
  <2>1. WakeMove(p, pc'[p])
    BY <1>0, <1>1, <1>2, <1>4 DEF WakeMove, sched_return, Goto, At, TypeOK, localVars, procVars
  <2>. QED BY <2>1, WakeMoveInv
<1>5. CASE exec(c)
  <2>1. WakeMove(p, "user")
    BY <1>0, <1>1, <1>2, <1>5 DEF WakeMove, exec, At, TypeOK, localVars
  <2>. QED BY <2>1, WakeMoveInv
<1>6. CASE getppid(c) \/ getppid_return(c) \/ fork(c) \/ fork_return(c) \/ exit(c)
  <2>1. /\ getppid(c) => WakeMove(p, "getppid")
        /\ getppid_return(c) \/ fork_return(c) => WakeMove(p, "user")
    BY <1>0, <1>1, <1>2 DEF WakeMove, getppid, getppid_return, fork_return, Goto, TypeOK, procVars
  <2>2. /\ fork(c) => WakeMove(p, "alloc")
        /\ exit(c) => WakeMove(p, "exit")
    BY <1>0, <1>1, <1>2 DEF WakeMove, fork, exit, Goto, TypeOK, localVars, procVars
  <2>. QED BY <1>6, <2>1, <2>2, WakeMoveInv
<1>7. ASSUME NEW w \in WaitPid, wait(c, w) PROVE WakeInv'
  <2>1. WakeMove(p, "wait")
    BY <1>0, <1>1, <1>2, <1>7 DEF WakeMove, wait, Goto, TypeOK, procVars
  <2>. QED BY <2>1, WakeMoveInv
<1>8. CASE wait_acquire(c)
  <2>1. WakeMove(p, "scan")
    BY <1>0, <1>1, <1>2, <1>8 DEF WakeMove, wait_acquire, Goto, TypeOK, procVars
  <2>. QED BY <2>1, WakeMoveInv
<1>9. CASE wait_scan(c)
  <2>1. pc[p] = "scan" /\ i[p] < NPROC /\ (i[p] = p \/ ~Exited(p, i[p]))
    BY <1>1, <1>9 DEF wait_scan, At
  <2>a. i[p] \in Pool
    BY <1>0, <2>1, NPROCAssumption DEF TypeOK, Pool
  <2>b. ~Exited(p, p)
    BY <1>2 DEF Exited
  <2>2. i[p] \in Pool /\ ~Exited(p, i[p])
    BY <2>1, <2>a, <2>b
  <2>3. WakeMove(p, "scan")
    BY <1>0, <1>1, <1>2, <1>9, <2>1, <2>2 DEF WakeMove, wait_scan, TypeOK, procVars
  <2>. QED BY <2>3, WakeMoveInv
<1>10. CASE wait_end(c)
  <2>1. pc[p] = "scan" /\ i[p] = NPROC
    BY <1>1, <1>10 DEF wait_end, At
  <2>2. WakeMove(p, pc'[p])
    BY <1>0, <1>1, <1>2, <1>10, <2>1 DEF WakeMove, wait_end, Goto, TypeOK, procVars
  <2>. QED BY <2>2, WakeMoveInv
<1>11. CASE sleep_lock(c)
  <2>1. WakeMove(p, "sleeping")
    BY <1>0, <1>1, <1>2, <1>11 DEF WakeMove, sleep_lock, At, Goto, TypeOK, procVars, localVars
  <2>. QED BY <2>1, WakeMoveInv
<1>12. CASE sleep_return(c)
  <2>1. WakeMove(p, pc'[p])
    BY <1>0, <1>1, <1>2, <1>12 DEF WakeMove, sleep_return, At, Goto, TypeOK, localVars
  <2>. QED BY <2>1, WakeMoveInv
<1>13. CASE exit_acquire(c)
  <2>1. WakeMove(p, "wakeup")
    BY <1>0, <1>1, <1>2, <1>13 DEF WakeMove, exit_acquire, Goto, TypeOK, procVars
  <2>. QED BY <2>1, WakeMoveInv
<1>14. CASE exit_lock(c)
  <2>1. WakeMove(p, "reparent")
    BY <1>0, <1>1, <1>2, <1>14 DEF WakeMove, exit_lock, At, Goto, TypeOK, procVars
  <2>. QED BY <2>1, WakeMoveInv
<1>. QED BY <1>3, <1>4, <1>5, <1>6, <1>7, <1>8, <1>9, <1>10, <1>11, <1>12, <1>13, <1>14

\* The scheduler puts nobody to sleep.
LEMMA WakeScheduler ==
    ASSUME IInv, WakeInv, NEW c \in CPU, Scheduler(c)
    PROVE  WakeInv'
<1>0. TypeOK
  BY DEF IInv
<1>1. CASE dispatch(c) /\ state' # state
  <2>1. PICK p \in Pool : p = fetched[c] /\ cpc[c] = "lock"
    BY <1>1, Types DEF dispatch
  <2>2. state[p] = "RUNNABLE" /\ pc[p] \in Resumes
    BY <2>1 DEF IInv, StateInv, OfCpu
  <2>3. WakeMove(p, pc[p])
    BY <1>0, <1>1, <2>1, <2>2, Constants DEF WakeMove, dispatch, TypeOK, localVars
  <2>. QED BY <2>3, WakeMoveInv
<1>2. CASE ~(dispatch(c) /\ state' # state)
  <2>1. UNCHANGED <<state, pid, parent, sleep_chan, pc, i, wpid>>
    BY <1>2 DEF Scheduler, fetch_task, all_dead, wfi, dispatch, switch_back, procVars, localVars
  <2>. QED BY <2>1 DEF WakeInv, SleepsForItself, WokenInv, ScanInv, NoLostWakeup, Woken, Passed, Exited
<1>. QED BY <1>1, <1>2

\* fork() takes a process nobody sleeps in ...
LEMMA WakeAllocproc ==
    ASSUME IInv, WakeInv, NEW c \in CPU, allocproc(c)
    PROVE  WakeInv'
<1>0. TypeOK
  BY DEF IInv
<1>1. PICK p \in Pool : p = fetched[c] /\ proc[c] = p /\ cpc[c] = "run" /\ pc[p] = "alloc"
  BY AtThread DEF allocproc, At
<1>2. state[p] \in {"RUNNING", "RUNNABLE"}
  BY <1>1 DEF IInv, StateInv, OfCpu
<1>3. PICK n \in Pool : n = i[p]
  BY <1>1 DEF IInv, LocalInv
<1>4. CASE state[n] # "UNUSED"
  <2>1. WakeMove(p, "alloc")
    BY <1>0, <1>1, <1>2, <1>3, <1>4 DEF WakeMove, allocproc, TypeOK
  <2>. QED BY <2>1, WakeMoveInv
<1>5. CASE state[n] = "UNUSED"
  <2>1. /\ state' = [state EXCEPT ![n] = "USED"]
        /\ parent' = [parent EXCEPT ![n] = NoProc]
        /\ pid' = [pid EXCEPT ![n] = PID]
        /\ pc' = [pc EXCEPT ![p] = "fork", ![n] = "first"]
        /\ i' = [i EXCEPT ![p] = 0]
        /\ UNCHANGED <<sleep_chan, wpid>>
    BY <1>1, <1>3, <1>5 DEF allocproc
  <2>2. SleepStep
    BY <1>0, <2>1 DEF SleepStep, TypeOK
  <2>3. ZombieStep
    BY <1>0, <2>1 DEF ZombieStep, TypeOK
  <2>4. WokenStep
    BY <1>0, <2>1, NoProcAssumption DEF WokenStep, Woken, TypeOK
  <2>5. PassedStep
    BY <1>0, <2>1 DEF PassedStep, Passed, TypeOK
  <2>. QED BY <2>2, <2>3, <2>4, <2>5, WakeStep
<1>. QED BY <1>4, <1>5

\* ... and publishes a child that has not run.
LEMMA WakeForkPublish ==
    ASSUME IInv, WakeInv, NEW c \in CPU, fork_publish(c)
    PROVE  WakeInv'
<1>0. TypeOK
  BY DEF IInv
<1>1. PICK p \in Pool : p = fetched[c] /\ proc[c] = p /\ cpc[c] = "run" /\ pc[p] = "fork"
  BY AtThread DEF fork_publish, At
<1>2. PICK n \in Pool : n = np[p]
  BY Types
<1>3. state[n] = "USED" /\ pc[n] = "first"
  BY <1>1, <1>2 DEF IInv, LocalInv, StateInv, OfProc
<1>4. /\ state' = [state EXCEPT ![n] = "RUNNABLE"]
      /\ parent' = [parent EXCEPT ![n] = p]
      /\ pc' = [pc EXCEPT ![p] = "forked"]
      /\ UNCHANGED <<pid, sleep_chan, i, wpid>>
  BY <1>1, <1>2 DEF fork_publish, Goto, localVars
<1>5. SleepStep
  BY <1>0, <1>4 DEF SleepStep, TypeOK
<1>6. ZombieStep
  BY <1>0, <1>4 DEF ZombieStep, TypeOK
<1>7. WokenStep
  BY <1>0, <1>3, <1>4 DEF WokenStep, Woken, TypeOK
<1>8. PassedStep
  BY <1>0, <1>4 DEF PassedStep, Passed, TypeOK
<1>. QED BY <1>5, <1>6, <1>7, <1>8, WakeStep

\* wait() frees a child.
LEMMA WakeReap ==
    ASSUME IInv, WakeInv, NEW c \in CPU, wait_reap(c)
    PROVE  WakeInv'
<1>0. TypeOK
  BY DEF IInv
<1>1. PICK p \in Pool : p = fetched[c] /\ proc[c] = p /\ cpc[c] = "run" /\ pc[p] = "scan"
  BY AtThread DEF wait_reap, At
<1>2. PICK n \in Pool : n = i[p] /\ n # p /\ state[n] = "ZOMBIE"
  BY <1>0, <1>1, NPROCAssumption DEF wait_reap, Exited, TypeOK, Pool
<1>3. state[p] \in {"RUNNING", "RUNNABLE"}
  BY <1>1 DEF IInv, StateInv, OfCpu
<1>4. /\ state' = [state EXCEPT ![n] = "UNUSED"]
      /\ pid' = [pid EXCEPT ![n] = -1]
      /\ sleep_chan' = [sleep_chan EXCEPT ![n] = NoProc]
      /\ parent' = [parent EXCEPT ![n] = NoProc]
      /\ i' = [i EXCEPT ![p] = 0]
      /\ wpid' = [wpid EXCEPT ![p] = -1]
      /\ pc' = [pc EXCEPT ![p] = "user"]
  BY <1>1, <1>2 DEF wait_reap, freeproc, Goto
<1>5. SleepStep
  BY <1>0, <1>3, <1>4 DEF SleepStep, TypeOK
<1>6. ZombieStep
  BY <1>0, <1>4 DEF ZombieStep, TypeOK
<1>7. WokenStep
  BY <1>0, <1>4, NoProcAssumption DEF WokenStep, Woken, TypeOK
<1>8. PassedStep
  BY <1>0, <1>4 DEF PassedStep, Passed, TypeOK
<1>. QED BY <1>5, <1>6, <1>7, <1>8, WakeStep

\* An iteration of wakeup() that passes the parent leaves it awake: a parent that
\* sleeps does so on its own address, which is what wakeup() compares with.
LEMMA WakeWakeup ==
    ASSUME IInv, WakeInv, NEW c \in CPU, wakeup(c)
    PROVE  WakeInv'
<1>0. TypeOK /\ SleepsForItself
  BY DEF IInv, WakeInv
<1>1. PICK p \in Pool : /\ p = fetched[c] /\ proc[c] = p /\ cpc[c] = "run"
                        /\ pc[p] = "wakeup" /\ i[p] < NPROC
  BY AtThread DEF wakeup, At
<1>2. PICK n \in Pool : n = i[p]
  BY <1>0, <1>1, NPROCAssumption DEF TypeOK, Pool
<1>3. /\ i' = [i EXCEPT ![p] = @ + 1]
      /\ UNCHANGED <<pid, parent, sleep_chan, pc, wpid>>
      /\ IF state[n] = "SLEEPING" /\ sleep_chan[n] = parent[p]
         THEN state' = [state EXCEPT ![n] = "RUNNABLE"] ELSE state' = state
  BY <1>1, <1>2 DEF wakeup
<1>4. SleepStep
  BY <1>0, <1>3 DEF SleepStep, TypeOK
<1>5. ZombieStep
  BY <1>0, <1>3 DEF ZombieStep, TypeOK
<1>6. WokenStep
  <2> SUFFICES ASSUME NEW q \in Pool, NEW m \in Pool, parent'[m] = q, Woken(m)', ~Woken(m)
               PROVE  state'[q] # "SLEEPING"
    BY <1>3 DEF WokenStep
  <2>1. m = p
    BY <1>0, <1>3 DEF Woken, TypeOK
  <2>2. i[p] + 1 > q /\ ~(i[p] > q)
    BY <1>0, <1>1, <1>3, <2>1 DEF Woken, TypeOK
  <2>3. q = n
    BY <1>2, <2>2, NPROCAssumption DEF Pool
  <2>4. state[q] = "SLEEPING" => sleep_chan[q] = parent[p]
    BY <1>0, <1>3, <2>1 DEF SleepsForItself
  <2>. QED BY <1>0, <1>3, <2>3, <2>4 DEF TypeOK
<1>7. PassedStep
  BY <1>0, <1>1, <1>3 DEF PassedStep, Passed, TypeOK
<1>. QED BY <1>4, <1>5, <1>6, <1>7, WakeStep

\* Reparenting gives exited children only to init, which then is not in wait()'s scan.
LEMMA WakeReparent ==
    ASSUME IInv, WakeInv, NEW c \in CPU, reparent(c)
    PROVE  WakeInv'
<1>0. TypeOK
  BY DEF IInv
<1>1. PICK p \in Pool : /\ p = fetched[c] /\ proc[c] = p /\ cpc[c] = "run"
                        /\ pc[p] = "reparent" /\ i[p] < NPROC
  BY AtThread DEF reparent, At
<1>2. PICK n \in Pool : n = i[p]
  BY <1>0, <1>1, NPROCAssumption DEF TypeOK, Pool
<1>3. /\ i' = [i EXCEPT ![p] = @ + 1]
      /\ parent' = IF n # p /\ parent[n] = p THEN [parent EXCEPT ![n] = init_proc] ELSE parent
      /\ UNCHANGED <<state, pid, sleep_chan, pc, wpid>>
  BY <1>1, <1>2 DEF reparent
<1>4. Passed(init_proc)' = {}
  <2>1. Passed(init_proc) = {}
    <3>1. ASSUME Passed(init_proc) # {} PROVE FALSE
      <4>1. pc[init_proc] \in WaitLock
        BY <3>1, PassedLocked, Types
      <4>2. p = init_proc
        BY <1>1, <4>1, OneWaiter, Constants, Types
      <4>. QED BY <1>1, <3>1, <4>2 DEF Passed
    <3>. QED BY <3>1
  <2>2. pc[init_proc] # "scan" \/ init_proc # p
    BY <1>1
  <2>. QED BY <1>0, <1>3, <2>1, <2>2, Types DEF Passed, TypeOK
<1>5. SleepStep
  BY <1>3 DEF SleepStep
<1>6. ZombieStep
  BY <1>0, <1>3, <1>4 DEF ZombieStep, TypeOK
<1>7. WokenStep
  <2> SUFFICES ASSUME NEW q \in Pool, NEW m \in Pool, parent'[m] = q, Woken(m)'
               PROVE  parent[m] = q /\ Woken(m)
    BY DEF WokenStep
  <2>1. pc[m] \in WaitLock
    BY <1>3, Constants DEF Woken
  <2>2. m = p
    BY <1>1, <2>1, OneWaiter, Constants
  <2>. QED BY <1>0, <1>1, <1>3, <2>2 DEF Woken, TypeOK
<1>8. PassedStep
  BY <1>0, <1>1, <1>3, <1>6 DEF PassedStep, Passed, TypeOK, Exited, ZombieStep
<1>. QED BY <1>5, <1>6, <1>7, <1>8, WakeStep

\* An exiting process becomes a zombie after its parent has been woken, and the
\* parent is not in wait()'s scan.
LEMMA WakeExit ==
    ASSUME IInv, WakeInv, NEW c \in CPU, exit_sched(c)
    PROVE  WakeInv'
<1>0. TypeOK /\ WokenInv
  BY DEF IInv, WakeInv
<1>1. PICK p \in Pool : p = fetched[c] /\ proc[c] = p /\ cpc[c] = "run" /\ pc[p] = "reparent"
  BY AtThread DEF exit_sched, At
<1>2. /\ i' = [i EXCEPT ![p] = 0]
      /\ state' = [state EXCEPT ![p] = "ZOMBIE"]
      /\ pc' = [pc EXCEPT ![p] = "dead"]
      /\ UNCHANGED <<pid, parent, sleep_chan, wpid>>
  BY <1>1 DEF exit_sched, sched, Goto
<1>3. ASSUME NEW q \in Pool PROVE Passed(q)' = {}
  <2>1. CASE pc[q] \in WaitLock
    <3>1. q = p
      BY <1>1, <2>1, OneWaiter, Constants
    <3>. QED BY <1>0, <1>2, <3>1 DEF Passed, TypeOK
  <2>2. CASE pc[q] \notin WaitLock
    BY <1>0, <1>1, <1>2, <2>2, Constants DEF Passed, TypeOK
  <2>. QED BY <2>1, <2>2
<1>4. SleepStep
  BY <1>0, <1>2 DEF SleepStep, TypeOK
<1>5. ZombieStep
  <2> SUFFICES ASSUME NEW q \in Pool, NEW n \in Pool, parent'[n] = q, state'[n] = "ZOMBIE",
                      ~(state[n] = "ZOMBIE" /\ parent[n] = q /\ pid'[n] = pid[n])
               PROVE  state'[q] # "SLEEPING"
    BY <1>3 DEF ZombieStep
  <2>1. n = p
    BY <1>0, <1>2 DEF TypeOK
  <2>2. state[q] # "SLEEPING"
    BY <1>0, <1>1, <1>2, <2>1 DEF WokenInv, Woken
  <2>. QED BY <1>0, <1>2, <2>2 DEF TypeOK
<1>6. WokenStep
  BY <1>0, <1>2 DEF WokenStep, Woken, TypeOK
<1>7. PassedStep
  BY <1>3 DEF PassedStep
<1>. QED BY <1>4, <1>5, <1>6, <1>7, WakeStep

\* Who falls asleep has passed the whole pool, and holds wait_lock until then.
LEMMA WakeSleep ==
    ASSUME IInv, WakeInv, NEW c \in CPU, sleep_sched(c)
    PROVE  WakeInv'
<1>0. TypeOK /\ ScanInv
  BY DEF IInv, WakeInv
<1>1. PICK p \in Pool : p = fetched[c] /\ proc[c] = p /\ cpc[c] = "run" /\ pc[p] = "sleeping"
  BY AtThread DEF sleep_sched, At
<1>2. /\ sleep_chan' = [sleep_chan EXCEPT ![p] = p]
      /\ state' = [state EXCEPT ![p] = "SLEEPING"]
      /\ pc' = [pc EXCEPT ![p] = "woken"]
      /\ UNCHANGED <<pid, parent, i, wpid>>
  BY <1>1 DEF sleep_sched, sched, Goto, localVars
<1>3. ASSUME NEW n \in Pool PROVE ~Exited(p, n)' /\ ~(parent'[n] = p /\ Woken(n)')
  <2>1. ~Exited(p, n)
    BY <1>0, <1>1 DEF ScanInv, Passed
  <2>2. ~Exited(p, n)'
    BY <1>0, <1>2, <2>1 DEF Exited, TypeOK
  <2>3. ASSUME Woken(n)' PROVE FALSE
    <3>1. pc'[n] \in {"reparent", "wakeup"}
      BY <2>3 DEF Woken
    <3>2. n # p /\ pc[n] \in WaitLock
      BY <1>0, <1>2, <3>1, Constants DEF TypeOK
    <3>. QED BY <1>1, <3>2, OneWaiter, Constants
  <2>. QED BY <2>2, <2>3
<1>4. SleepStep
  BY <1>0, <1>2, <1>3 DEF SleepStep, TypeOK
<1>5. ZombieStep
  BY <1>0, <1>2 DEF ZombieStep, TypeOK
<1>6. WokenStep
  BY <1>0, <1>2 DEF WokenStep, Woken, TypeOK
<1>7. PassedStep
  BY <1>0, <1>2 DEF PassedStep, Passed, TypeOK
<1>. QED BY <1>4, <1>5, <1>6, <1>7, WakeStep

LEMMA InitWake == Init => WakeInv
<1> SUFFICES ASSUME Init PROVE WakeInv
  OBVIOUS
<1>1. \A p \in Pool : /\ state[p] \in {"RUNNABLE", "UNUSED"} /\ pc[p] \in {"first", "none"}
  BY DEF Init
<1>. QED BY <1>1 DEF WakeInv, SleepsForItself, WokenInv, ScanInv, NoLostWakeup, Woken, Passed

LEMMA NextWake ==
    ASSUME IInv, WakeInv, [Next]_vars
    PROVE  WakeInv'
<1>1. CASE UNCHANGED vars
  <2>1. UNCHANGED <<state, pid, parent, sleep_chan, pc, i, wpid>>
    BY <1>1 DEF vars, procVars, localVars
  <2>. QED BY <2>1 DEF WakeInv, SleepsForItself, WokenInv, ScanInv, NoLostWakeup, Woken, Passed, Exited
<1>2. ASSUME NEW c \in CPU, Syscall(c) PROVE WakeInv'
  BY <1>2, WakeThread DEF Syscall
<1>3. ASSUME NEW c \in CPU, yield(c) PROVE WakeInv'
  BY <1>3, WakeThread
<1>4. ASSUME NEW c \in CPU, Kernel(c) PROVE WakeInv'
  BY <1>4, WakeScheduler, WakeThread, WakeAllocproc, WakeForkPublish, WakeReap, WakeSleep,
     WakeWakeup, WakeReparent, WakeExit DEF Kernel, sleep
<1>. QED BY <1>1, <1>2, <1>3, <1>4 DEF Next

\* No process but init ever sleeps in wait() while a child it waits for is a zombie:
\* exit() and wait() keep wait_lock over scan, sleep and wakeup (os/proc.c).
THEOREM NoWakeupLost == Spec => []NoLostWakeup
<1>1. Init => WakeInv
  BY InitWake
<1>2. IInv /\ WakeInv /\ [Next]_vars => WakeInv'
  BY NextWake
<1>3. WakeInv => NoLostWakeup
  BY DEF WakeInv
<1>. QED BY <1>1, <1>2, <1>3, ProcInvariant, PTL DEF Spec
====
