---- MODULE Proc ----
\* Processes and the scheduler: os/proc.c and os/sched.c on several CPUs.
\*
\* A CPU runs either its scheduler loop or the kernel thread of the process in
\* c->proc.  Kernel threads are never preempted: they leave the CPU in sched(),
\* with only p->lock held, and that lock is given back on the other side of the
\* switch.  User code is an arbitrary sequence of system calls and timer ticks.
\*
\* Granularity.  A step is a section of code between two places where the thread
\* can be made to wait for a lock.  The leaf locks (the queue's, pid_lock,
\* mm->lock) are taken and released inside a step.  Every iteration of a scan of
\* the pool takes that process's lock and is a step of its own.
\*
\* Left out: memory (allocproc, mm_copy, freeproc's pages), exit codes, and
\* p->killed, which no code sets.
EXTENDS ProcPool, Sequences, FiniteSets

CONSTANTS
    CPU,        \* the harts
    MaxPid,     \* bound: fork is not called once this many pids are given out
    WaitPid,    \* the pid arguments user code passes to wait()
    Calls,      \* the system calls that user code makes, besides sched_yield and exit
    NoCpu, NoProc

ASSUME CPUAssumption == CPU # {} /\ IsFiniteSet(CPU) /\ NoCpu \notin CPU
ASSUME PidAssumption == MaxPid \in Nat \ {0} /\ WaitPid \subseteq Int
ASSUME CallsAssumption == Calls \subseteq {"fork", "exec", "wait", "getppid"}

Pool == 0 .. NPROC - 1
init_proc == 0                      \* pool[0]
ASSUME NoProcAssumption == NoProc \notin Pool

VARIABLES
    state, pid, parent, sleep_chan, \* fields of struct proc
    plock,          \* the CPU that holds p->lock
    wait_lock,      \* the CPU that holds wait_lock
    task_queue,     \* the ring of TaskQueue.tla, as the sequence it implements
    PID,            \* the static counter of allocpid
    proc,           \* c->proc
    cpc,            \* what the CPU is doing
    fetched,        \* the local variable p of scheduler()
    scan,           \* the loop index of all_dead()
    pc,             \* where the kernel thread of each process is
    i, np, havekids, wpid   \* its loop index, the process fork or getppid looks at,
                            \* wait's havekids and pid

procVars == <<state, pid, parent, sleep_chan>>
lockVars == <<plock, wait_lock>>
localVars == <<i, np, havekids, wpid>>
vars == <<procVars, lockVars, task_queue, PID, proc, cpc, fetched, scan, pc, localVars>>

ProcState == {"UNUSED", "USED", "SLEEPING", "RUNNABLE", "RUNNING", "ZOMBIE"}
CpuPC == {"fetch", "all_dead", "wfi", "lock", "run", "back",
          "panic", "panic: allocproc", "panic: dead"}
ThreadPC == {"none", "first", "user", "getppid", "yielded", "alloc", "fork", "forked",
             "wait", "scan", "sleep", "sleeping", "woken", "rewait",
             "exit", "wakeup", "reparent", "dead"}

TypeOK ==
    /\ state \in [Pool -> ProcState]
    /\ pid \in [Pool -> -1 .. MaxPid]
    /\ parent \in [Pool -> Pool \cup {NoProc}]
    /\ sleep_chan \in [Pool -> Pool \cup {NoProc}]
    /\ plock \in [Pool -> CPU \cup {NoCpu}]
    /\ wait_lock \in CPU \cup {NoCpu}
    /\ task_queue \in Seq(Pool)
    /\ PID \in 1 .. MaxPid + 1
    /\ proc \in [CPU -> Pool \cup {NoProc}]
    /\ cpc \in [CPU -> CpuPC]
    /\ fetched \in [CPU -> Pool]
    /\ scan \in [CPU -> Pool]
    /\ pc \in [Pool -> ThreadPC]
    /\ i \in [Pool -> 0 .. NPROC]
    /\ np \in [Pool -> Pool]
    /\ havekids \in [Pool -> BOOLEAN]
    /\ wpid \in [Pool -> WaitPid \cup {-1}]

\* After proc_init and load_init_app: init, the only process, is in the queue.
Init ==
    /\ state = [p \in Pool |-> IF p = init_proc THEN "RUNNABLE" ELSE "UNUSED"]
    /\ pid = [p \in Pool |-> IF p = init_proc THEN 1 ELSE 0]
    /\ parent = [p \in Pool |-> NoProc]
    /\ sleep_chan = [p \in Pool |-> NoProc]
    /\ plock = [p \in Pool |-> NoCpu]
    /\ wait_lock = NoCpu
    /\ task_queue = <<init_proc>>
    /\ PID = 2
    /\ proc = [c \in CPU |-> NoProc]
    /\ cpc = [c \in CPU |-> "fetch"]
    /\ fetched = [c \in CPU |-> 0]
    /\ scan = [c \in CPU |-> 0]
    /\ pc = [p \in Pool |-> IF p = init_proc THEN "first" ELSE "none"]
    /\ i = [p \in Pool |-> 0]
    /\ np = [p \in Pool |-> 0]
    /\ havekids = [p \in Pool |-> FALSE]
    /\ wpid = [p \in Pool |-> -1]
-----------------------------------------------------------------------------
\* Helpers.

Goto(p, l) == pc' = [pc EXCEPT ![p] = l]
CpuGoto(c, l) == cpc' = [cpc EXCEPT ![c] = l]

\* curr_proc() runs on c and its thread is at l.
At(c, l) == cpc[c] = "run" /\ pc[proc[c]] = l

Free(p) == plock[p] = NoCpu

\* mycpu()->noff: every lock held counts one.
noff(c) == Cardinality({p \in Pool : plock[p] = c}) + (IF wait_lock = c THEN 1 ELSE 0)

\* push_queue panics when the ring is full; otherwise the CPU goes on at l.
add_task(c, p, l) ==
    IF Len(task_queue) = NPROC
    THEN CpuGoto(c, "panic") /\ UNCHANGED task_queue
    ELSE task_queue' = Append(task_queue, p) /\ CpuGoto(c, l)

\* sched(), called with the primed locks and state: the panics, then the switch
\* to the scheduler of c; the thread will resume at l.
sched(c, p, l) ==
    /\ CpuGoto(c, IF plock'[p] = c /\ noff(c)' = 1 /\ state'[p] # "RUNNING"
                  THEN "back" ELSE "panic")
    /\ Goto(p, l)
-----------------------------------------------------------------------------
\* scheduler()

\* Mutant of fetch_task: the newest task goes first.
fetch_task_newest(c) ==
    /\ cpc[c] = "fetch"
    /\ IF task_queue = <<>>
       THEN CpuGoto(c, "all_dead") /\ UNCHANGED <<task_queue, fetched>>
       ELSE /\ fetched' = [fetched EXCEPT ![c] = task_queue[Len(task_queue)]]
            /\ task_queue' = SubSeq(task_queue, 1, Len(task_queue) - 1)
            /\ CpuGoto(c, "lock")
    /\ UNCHANGED <<procVars, lockVars, PID, proc, scan, pc, localVars>>

fetch_task(c) ==
    /\ cpc[c] = "fetch"
    /\ IF task_queue = <<>>
       THEN /\ CpuGoto(c, "all_dead")
            /\ UNCHANGED <<task_queue, fetched>>
       ELSE /\ fetched' = [fetched EXCEPT ![c] = Head(task_queue)]
            /\ task_queue' = Tail(task_queue)
            /\ CpuGoto(c, "lock")
    /\ UNCHANGED <<procVars, lockVars, PID, proc, scan, pc, localVars>>

all_dead(c) ==
    /\ cpc[c] = "all_dead"
    /\ Free(scan[c])
    /\ IF state[scan[c]] # "UNUSED"
       THEN CpuGoto(c, "wfi") /\ scan' = [scan EXCEPT ![c] = 0]
       ELSE IF scan[c] = NPROC - 1
            THEN CpuGoto(c, "panic: dead") /\ UNCHANGED scan
            ELSE scan' = [scan EXCEPT ![c] = @ + 1] /\ UNCHANGED cpc
    /\ UNCHANGED <<procVars, lockVars, task_queue, PID, proc, fetched, pc, localVars>>

\* Every hart has its own timer, so wfi ends without help from other CPUs.
wfi(c) ==
    /\ cpc[c] = "wfi"
    /\ CpuGoto(c, "fetch")
    /\ UNCHANGED <<procVars, lockVars, task_queue, PID, proc, fetched, scan, pc, localVars>>

\* acquire(&p->lock), the assertion, and the switch to the process.
dispatch(c) ==
    LET p == fetched[c] IN
    /\ cpc[c] = "lock"
    /\ Free(p)
    /\ plock' = [plock EXCEPT ![p] = c]
    /\ IF state[p] = "RUNNABLE"
       THEN /\ state' = [state EXCEPT ![p] = "RUNNING"]
            /\ proc' = [proc EXCEPT ![c] = p]
            /\ CpuGoto(c, "run")
       ELSE CpuGoto(c, "panic") /\ UNCHANGED <<state, proc>>
    /\ UNCHANGED <<pid, parent, sleep_chan, wait_lock, task_queue, PID, fetched, scan, pc, localVars>>

\* The process has switched back with p->lock held.
switch_back(c) ==
    LET p == fetched[c] IN
    /\ cpc[c] = "back"
    /\ IF proc[c] = p /\ plock[p] = c
       THEN /\ proc' = [proc EXCEPT ![c] = NoProc]
            /\ IF state[p] = "RUNNABLE"
               THEN add_task(c, p, "fetch")
               ELSE CpuGoto(c, "fetch") /\ UNCHANGED task_queue
            /\ plock' = [plock EXCEPT ![p] = NoCpu]
            /\ fetched' = [fetched EXCEPT ![c] = 0]       \* not read any more
       ELSE CpuGoto(c, "panic") /\ UNCHANGED <<proc, task_queue, plock, fetched>>
    /\ UNCHANGED <<procVars, wait_lock, PID, scan, pc, localVars>>
-----------------------------------------------------------------------------
\* The timer tick of usertrap, and sched_yield(): acquire(&p->lock) and sched().
yield(c) ==
    LET p == proc[c] IN
    /\ At(c, "user")
    /\ Free(p)
    /\ plock' = [plock EXCEPT ![p] = c]
    /\ state' = [state EXCEPT ![p] = "RUNNABLE"]
    /\ UNCHANGED wait_lock
    /\ sched(c, p, "yielded")
    /\ UNCHANGED <<pid, parent, sleep_chan, task_queue, PID, proc, fetched, scan, localVars>>

\* A thread comes out of the scheduler, in first_sched_ret or in yield, and
\* releases the p->lock that scheduler() took.
sched_return(c) ==
    LET p == proc[c] IN
    /\ At(c, "first") \/ At(c, "yielded")
    /\ IF plock[p] = c
       THEN /\ plock' = [plock EXCEPT ![p] = NoCpu]
            /\ Goto(p, "user")
            /\ UNCHANGED cpc
       ELSE CpuGoto(c, "panic") /\ UNCHANGED <<plock, pc>>
    /\ UNCHANGED <<procVars, wait_lock, task_queue, PID, proc, fetched, scan, localVars>>

\* exec of an application that exists.  load_user_elf marks the process, which
\* is running, RUNNABLE.
exec(c) ==
    LET p == proc[c] IN
    /\ At(c, "user")
    /\ Free(p)
    /\ state' = [state EXCEPT ![p] = "RUNNABLE"]
    /\ UNCHANGED <<pid, parent, sleep_chan, lockVars, task_queue, PID, proc, cpc, fetched, scan, pc, localVars>>

\* getppid reads p->parent and then that process's pid, without a lock.
getppid(c) ==
    LET p == proc[c] IN
    /\ At(c, "user")
    /\ parent[p] # NoProc
    /\ np' = [np EXCEPT ![p] = parent[p]]
    /\ Goto(p, "getppid")
    /\ UNCHANGED <<procVars, lockVars, task_queue, PID, proc, cpc, fetched, scan, i, havekids, wpid>>

getppid_return(c) ==
    LET p == proc[c] IN
    /\ At(c, "getppid")
    /\ np' = [np EXCEPT ![p] = 0]
    /\ Goto(p, "user")
    /\ UNCHANGED <<procVars, lockVars, task_queue, PID, proc, cpc, fetched, scan, i, havekids, wpid>>
-----------------------------------------------------------------------------
\* fork()

fork(c) ==
    LET p == proc[c] IN
    /\ At(c, "user")
    /\ PID <= MaxPid
    /\ Goto(p, "alloc")
    /\ i' = [i EXCEPT ![p] = 0]
    /\ UNCHANGED <<procVars, lockVars, task_queue, PID, proc, cpc, fetched, scan, np, havekids, wpid>>

\* One iteration of allocproc.  An UNUSED process is initialised and stays
\* locked; running off the end makes fork panic.
allocproc(c) ==
    LET p == proc[c]  n == i[proc[c]] IN
    /\ At(c, "alloc")
    /\ Free(n)
    /\ PID <= MaxPid
    /\ IF state[n] = "UNUSED"
       THEN /\ plock' = [plock EXCEPT ![n] = c]
            /\ pid' = [pid EXCEPT ![n] = PID]
            /\ PID' = PID + 1
            /\ state' = [state EXCEPT ![n] = "USED"]
            /\ parent' = [parent EXCEPT ![n] = NoProc]
            /\ np' = [np EXCEPT ![p] = n]
            /\ i' = [i EXCEPT ![p] = 0]
            /\ pc' = [pc EXCEPT ![p] = "fork", ![n] = "first"]
            /\ UNCHANGED cpc
       ELSE /\ IF n = NPROC - 1
               THEN CpuGoto(c, "panic: allocproc") /\ UNCHANGED i
               ELSE i' = [i EXCEPT ![p] = @ + 1] /\ UNCHANGED cpc
            /\ UNCHANGED <<plock, pid, PID, state, parent, np, pc>>
    /\ UNCHANGED <<sleep_chan, wait_lock, task_queue, proc, fetched, scan, havekids, wpid>>

\* acquire(&p->lock) with np->lock held; the child is published.
fork_publish(c) ==
    LET p == proc[c]  n == np[proc[c]] IN
    /\ At(c, "fork")
    /\ Free(p)
    /\ parent' = [parent EXCEPT ![n] = p]
    /\ state' = [state EXCEPT ![n] = "RUNNABLE"]
    /\ add_task(c, n, "run")
    /\ plock' = [plock EXCEPT ![n] = NoCpu]
    /\ Goto(p, "forked")
    /\ UNCHANGED <<pid, sleep_chan, wait_lock, PID, proc, fetched, scan, localVars>>

\* return np->pid, read without the lock.
fork_return(c) ==
    LET p == proc[c] IN
    /\ At(c, "forked")
    /\ np' = [np EXCEPT ![p] = 0]
    /\ Goto(p, "user")
    /\ UNCHANGED <<procVars, lockVars, task_queue, PID, proc, cpc, fetched, scan, i, havekids, wpid>>
-----------------------------------------------------------------------------
\* wait(pid)

\* Mutant of wait: p->lock is not given back.
wait_keeps_lock(c, w) ==
    LET p == proc[c] IN
    /\ At(c, "user")
    /\ Free(p)
    /\ wpid' = [wpid EXCEPT ![p] = w]
    /\ plock' = [plock EXCEPT ![p] = c]
    /\ Goto(p, "wait")
    /\ UNCHANGED <<procVars, wait_lock, task_queue, PID, proc, cpc, fetched, scan, i, np, havekids>>

\* sys_wait takes p->lock to look up where the exit code goes.
wait(c, w) ==
    LET p == proc[c] IN
    /\ At(c, "user")
    /\ Free(p)
    /\ wpid' = [wpid EXCEPT ![p] = w]
    /\ Goto(p, "wait")
    /\ UNCHANGED <<procVars, lockVars, task_queue, PID, proc, cpc, fetched, scan, i, np, havekids>>

\* acquire(&wait_lock), at the start and again at the end of sleep(); a scan of
\* the pool begins.
wait_acquire(c) ==
    LET p == proc[c] IN
    /\ At(c, "wait") \/ At(c, "rewait")
    /\ wait_lock = NoCpu
    /\ wait_lock' = c
    /\ i' = [i EXCEPT ![p] = 0]
    /\ havekids' = [havekids EXCEPT ![p] = FALSE]
    /\ Goto(p, "scan")
    /\ UNCHANGED <<procVars, plock, task_queue, PID, proc, cpc, fetched, scan, np, wpid>>

\* Mutant of Exited: wait() does not look whose child it frees.
Exited_anybody(p, n) ==
    state[n] = "ZOMBIE" /\ (wpid[p] <= 0 \/ pid[n] = wpid[p])

\* A child that wait(pid) returns.
Exited(p, n) ==
    parent[n] = p /\ state[n] = "ZOMBIE" /\ (wpid[p] <= 0 \/ pid[n] = wpid[p])

\* freeproc
freeproc(n) ==
    /\ state' = [state EXCEPT ![n] = "UNUSED"]
    /\ pid' = [pid EXCEPT ![n] = -1]
    /\ sleep_chan' = [sleep_chan EXCEPT ![n] = NoProc]
    /\ parent' = [parent EXCEPT ![n] = NoProc]

\* An iteration of the scan that goes on: pool[n] is p itself or no child to return.
wait_scan(c) ==
    LET p == proc[c]  n == i[proc[c]] IN
    /\ At(c, "scan")
    /\ n < NPROC
    /\ n = p \/ (Free(n) /\ ~Exited(p, n))
    /\ havekids' = [havekids EXCEPT ![p] = @ \/ (n # p /\ parent[n] = p)]
    /\ i' = [i EXCEPT ![p] = @ + 1]
    /\ UNCHANGED <<procVars, lockVars, task_queue, PID, proc, cpc, fetched, scan, pc, np, wpid>>

\* Mutant of wait_reap: the child is freed without its lock.
wait_reap_unlocked(c) ==
    LET p == proc[c]  n == i[proc[c]] IN
    /\ At(c, "scan")
    /\ n < NPROC /\ n # p /\ Exited(p, n)
    /\ freeproc(n)
    /\ wait_lock' = NoCpu
    /\ i' = [i EXCEPT ![p] = 0]
    /\ havekids' = [havekids EXCEPT ![p] = FALSE]
    /\ wpid' = [wpid EXCEPT ![p] = -1]
    /\ Goto(p, "user")
    /\ UNCHANGED <<plock, task_queue, PID, proc, cpc, fetched, scan, np>>

\* The iteration that finds an exited child frees it and returns its pid.
wait_reap(c) ==
    LET p == proc[c]  n == i[proc[c]] IN
    /\ At(c, "scan")
    /\ n < NPROC /\ n # p /\ Free(n) /\ Exited(p, n)
    /\ freeproc(n)
    /\ wait_lock' = NoCpu
    /\ i' = [i EXCEPT ![p] = 0]
    /\ havekids' = [havekids EXCEPT ![p] = FALSE]
    /\ wpid' = [wpid EXCEPT ![p] = -1]
    /\ Goto(p, "user")
    /\ UNCHANGED <<plock, task_queue, PID, proc, cpc, fetched, scan, np>>

\* The scan found nothing: return -1 without children, else sleep(p, &wait_lock).
wait_end(c) ==
    LET p == proc[c] IN
    /\ At(c, "scan")
    /\ i[p] = NPROC
    /\ i' = [i EXCEPT ![p] = 0]
    /\ havekids' = [havekids EXCEPT ![p] = FALSE]
    /\ IF havekids[p]
       THEN Goto(p, "sleep") /\ UNCHANGED <<wait_lock, wpid>>
       ELSE /\ wait_lock' = NoCpu
            /\ wpid' = [wpid EXCEPT ![p] = -1]
            /\ Goto(p, "user")
    /\ UNCHANGED <<procVars, plock, task_queue, PID, proc, cpc, fetched, scan, np>>

\* sleep(p, &wait_lock), up to acquire(&p->lock) ...
sleep_lock(c) ==
    LET p == proc[c] IN
    /\ At(c, "sleep")
    /\ Free(p)
    /\ plock' = [plock EXCEPT ![p] = c]
    /\ Goto(p, "sleeping")
    /\ UNCHANGED <<procVars, wait_lock, task_queue, PID, proc, cpc, fetched, scan, localVars>>

\* ... the release of wait_lock and the switch away ...
sleep_sched(c) ==
    LET p == proc[c] IN
    /\ At(c, "sleeping")
    /\ wait_lock' = NoCpu
    /\ sleep_chan' = [sleep_chan EXCEPT ![p] = p]
    /\ state' = [state EXCEPT ![p] = "SLEEPING"]
    /\ UNCHANGED plock
    /\ sched(c, p, "woken")
    /\ UNCHANGED <<pid, parent, task_queue, PID, proc, fetched, scan, localVars>>

\* ... and, woken up, the release of p->lock before wait_lock is taken again.
sleep_return(c) ==
    LET p == proc[c] IN
    /\ At(c, "woken")
    /\ IF plock[p] = c
       THEN /\ sleep_chan' = [sleep_chan EXCEPT ![p] = NoProc]
            /\ plock' = [plock EXCEPT ![p] = NoCpu]
            /\ Goto(p, "rewait")
            /\ UNCHANGED cpc
       ELSE CpuGoto(c, "panic") /\ UNCHANGED <<sleep_chan, plock, pc>>
    /\ UNCHANGED <<state, pid, parent, wait_lock, task_queue, PID, proc, fetched, scan, localVars>>

\* Mutant of sleep: wait_lock is released before p->lock is taken.
sleep_unlocks_first(c) ==
    LET p == proc[c] IN
    \/ /\ At(c, "sleep")
       /\ wait_lock = c
       /\ wait_lock' = NoCpu
       /\ UNCHANGED <<procVars, plock, task_queue, PID, proc, cpc, fetched, scan, pc, localVars>>
    \/ wait_lock # c /\ sleep_lock(c)
    \/ /\ At(c, "sleeping")
       /\ sleep_chan' = [sleep_chan EXCEPT ![p] = p]
       /\ state' = [state EXCEPT ![p] = "SLEEPING"]
       /\ UNCHANGED lockVars
       /\ sched(c, p, "woken")
       /\ UNCHANGED <<pid, parent, task_queue, PID, proc, fetched, scan, localVars>>
    \/ sleep_return(c)

sleep(c) == sleep_lock(c) \/ sleep_sched(c) \/ sleep_return(c)
-----------------------------------------------------------------------------
\* exit(), called by the process or for it by usertrap after a fatal trap.

exit(c) ==
    LET p == proc[c] IN
    /\ At(c, "user")
    /\ Goto(p, "exit")
    /\ UNCHANGED <<procVars, lockVars, task_queue, PID, proc, cpc, fetched, scan, localVars>>

\* Mutant of exit_acquire: p->lock is taken before the wakeup scan needs it.
exit_acquire_both(c) ==
    LET p == proc[c] IN
    /\ At(c, "exit")
    /\ wait_lock = NoCpu /\ Free(p)
    /\ wait_lock' = c
    /\ plock' = [plock EXCEPT ![p] = c]
    /\ i' = [i EXCEPT ![p] = 0]
    /\ Goto(p, "wakeup")
    /\ UNCHANGED <<procVars, task_queue, PID, proc, cpc, fetched, scan, np, havekids, wpid>>

\* acquire(&wait_lock); the scan of wakeup() begins.
exit_acquire(c) ==
    LET p == proc[c] IN
    /\ At(c, "exit")
    /\ wait_lock = NoCpu
    /\ wait_lock' = c
    /\ i' = [i EXCEPT ![p] = 0]
    /\ Goto(p, "wakeup")
    /\ UNCHANGED <<procVars, plock, task_queue, PID, proc, cpc, fetched, scan, np, havekids, wpid>>

\* Mutant of wakeup: a process that is no longer asleep is queued again.
wakeup_awake(c) ==
    LET p == proc[c]  n == i[proc[c]] IN
    /\ At(c, "wakeup")
    /\ n < NPROC
    /\ Free(n)
    /\ IF sleep_chan[n] # NoProc /\ sleep_chan[n] = parent[p]
       THEN state' = [state EXCEPT ![n] = "RUNNABLE"] /\ add_task(c, n, "run")
       ELSE UNCHANGED <<state, task_queue, cpc>>
    /\ i' = [i EXCEPT ![p] = @ + 1]
    /\ UNCHANGED <<pid, parent, sleep_chan, lockVars, PID, proc, fetched, scan, pc, np, havekids, wpid>>

\* One iteration of wakeup(p->parent); wait_lock keeps p->parent what it is.
wakeup(c) ==
    LET p == proc[c]  n == i[proc[c]] IN
    /\ At(c, "wakeup")
    /\ n < NPROC
    /\ Free(n)
    /\ IF state[n] = "SLEEPING" /\ sleep_chan[n] = parent[p]
       THEN state' = [state EXCEPT ![n] = "RUNNABLE"] /\ add_task(c, n, "run")
       ELSE UNCHANGED <<state, task_queue, cpc>>
    /\ i' = [i EXCEPT ![p] = @ + 1]
    /\ UNCHANGED <<pid, parent, sleep_chan, lockVars, PID, proc, fetched, scan, pc, np, havekids, wpid>>

exit_lock(c) ==
    LET p == proc[c] IN
    /\ At(c, "wakeup")
    /\ i[p] = NPROC
    /\ Free(p)
    /\ plock' = [plock EXCEPT ![p] = c]
    /\ i' = [i EXCEPT ![p] = 0]
    /\ Goto(p, "reparent")
    /\ UNCHANGED <<procVars, wait_lock, task_queue, PID, proc, cpc, fetched, scan, np, havekids, wpid>>

\* Mutant of reparent: the children keep the exiting process as their parent.
reparent_nothing(c) ==
    LET p == proc[c]  n == i[proc[c]] IN
    /\ At(c, "reparent")
    /\ n < NPROC
    /\ n = p \/ Free(n)
    /\ i' = [i EXCEPT ![p] = @ + 1]
    /\ UNCHANGED <<procVars, lockVars, task_queue, PID, proc, cpc, fetched, scan, pc, np, havekids, wpid>>

\* One iteration of the reparenting loop.
reparent(c) ==
    LET p == proc[c]  n == i[proc[c]] IN
    /\ At(c, "reparent")
    /\ n < NPROC
    /\ n = p \/ Free(n)
    /\ parent' = IF n # p /\ parent[n] = p THEN [parent EXCEPT ![n] = init_proc] ELSE parent
    /\ i' = [i EXCEPT ![p] = @ + 1]
    /\ UNCHANGED <<state, pid, sleep_chan, lockVars, task_queue, PID, proc, cpc, fetched, scan, pc, np, havekids, wpid>>

\* Mutant of exit_sched: wait_lock is not released.
exit_sched_keeps_lock(c) ==
    LET p == proc[c] IN
    /\ At(c, "reparent")
    /\ i[p] = NPROC
    /\ i' = [i EXCEPT ![p] = 0]
    /\ state' = [state EXCEPT ![p] = "ZOMBIE"]
    /\ UNCHANGED lockVars
    /\ sched(c, p, "dead")
    /\ UNCHANGED <<pid, parent, sleep_chan, task_queue, PID, proc, fetched, scan, np, havekids, wpid>>

exit_sched(c) ==
    LET p == proc[c] IN
    /\ At(c, "reparent")
    /\ i[p] = NPROC
    /\ i' = [i EXCEPT ![p] = 0]
    /\ state' = [state EXCEPT ![p] = "ZOMBIE"]
    /\ wait_lock' = NoCpu
    /\ UNCHANGED plock
    /\ sched(c, p, "dead")
    /\ UNCHANGED <<pid, parent, sleep_chan, task_queue, PID, proc, fetched, scan, np, havekids, wpid>>
-----------------------------------------------------------------------------
\* What user code may do next, and what the kernel goes on to do by itself.
Syscall(c) ==
    \/ "fork" \in Calls /\ fork(c)
    \/ "wait" \in Calls /\ \E w \in WaitPid : wait(c, w)
    \/ "exec" \in Calls /\ exec(c)
    \/ "getppid" \in Calls /\ getppid(c)
    \/ exit(c)

Scheduler(c) == fetch_task(c) \/ all_dead(c) \/ wfi(c) \/ dispatch(c) \/ switch_back(c)

Kernel(c) ==
    \/ Scheduler(c) \/ sched_return(c) \/ getppid_return(c)
    \/ allocproc(c) \/ fork_publish(c) \/ fork_return(c)
    \/ wait_acquire(c) \/ wait_scan(c) \/ wait_reap(c) \/ wait_end(c) \/ sleep(c)
    \/ exit_acquire(c) \/ wakeup(c) \/ exit_lock(c) \/ reparent(c) \/ exit_sched(c)

Next == \E c \in CPU : Syscall(c) \/ yield(c) \/ Kernel(c)

Spec == Init /\ [][Next]_vars

\* A CPU that spins on a lock gets it if the lock keeps becoming free, and a
\* timer tick eventually finds user code running (its period is longer than a
\* system call).
Fairness == \A c \in CPU : SF_vars(Kernel(c)) /\ SF_vars(yield(c))

FairSpec == Spec /\ Fairness
-----------------------------------------------------------------------------
\* None of the assertions of the scheduler and of sched() fails, and the task
\* queue never overflows: a fetched process is RUNNABLE, a thread gives up its
\* CPU with its own lock and no other, and comes back holding it; no idle CPU
\* ever finds the whole pool UNUSED.  (fork panics on purpose when the pool is
\* exhausted: that is not counted here.)
NoPanic == TypeOK /\ \A c \in CPU : cpc[c] \notin {"panic", "panic: dead"}

\* Where a process that could run is to be found.
QueueSlots(p) == {k \in 1 .. Len(task_queue) : task_queue[k] = p}
Fetchers(p) == {c \in CPU : cpc[c] = "lock" /\ fetched[c] = p}
Runners(p) == {c \in CPU : proc[c] = p}
Places(p) == Cardinality(QueueSlots(p)) + Cardinality(Fetchers(p)) + Cardinality(Runners(p))

\* A RUNNABLE or RUNNING process is queued once, or fetched by one scheduler, or
\* on one CPU, and nowhere else: it is neither forgotten nor run twice.
InOnePlace ==
    \A p \in Pool :
        /\ Places(p) <= 1
        /\ state[p] \in {"RUNNABLE", "RUNNING"} => Places(p) = 1
        /\ QueueSlots(p) # {} => state[p] = "RUNNABLE"

\* The kernel stack of a process is never given to a new process while a CPU is
\* still on it: a slot that wait() has freed, or fork() taken, runs nowhere.
StackNotReused ==
    \A p \in Pool : state[p] \in {"UNUSED", "USED"} => Places(p) = 0

\* No process that sleeps in wait() has an exited child it is waiting for: "wakeup
\* wait-ing parent. There is no race because
\* locking against wait_lock" (exit).
EveryParentWoken ==
    wait_lock = NoCpu =>
        \A p, n \in Pool : state[p] = "SLEEPING" => ~Exited(p, n)

\* The same, for every parent but init and at every moment, not only while
\* wait_lock is free: no parent falls asleep with a zombie it could have found, and
\* no child turns into one behind a parent that has gone to sleep meanwhile.
NoLostWakeup ==
    \A p \in Pool \ {init_proc}, n \in Pool : state[p] = "SLEEPING" => ~Exited(p, n)

\* A process that is alive or a zombie has a parent that can still wait for it.
\* Only init may be a zombie parent.
ParentAlive ==
    \A p \in Pool \ {init_proc} :
        state[p] \notin {"UNUSED", "USED"} =>
            /\ parent[p] \in Pool \ {p}
            /\ state[parent[p]] \notin {"UNUSED", "USED"}
            /\ state[parent[p]] = "ZOMBIE" => parent[p] = init_proc

\* fork() may read np->pid after it has unlocked np: until it returns, the child
\* may run and exit but stays the child it created.
ForkedChildStays ==
    \A p \in Pool : pc[p] = "forked" =>
        /\ parent[np[p]] = p
        /\ state[np[p]] \notin {"UNUSED", "USED"}

\* The locks a CPU may be spinning for (user code, which may tick, wait or exec at
\* any time, counts as wanting its own), and the CPUs it then waits for.
Wants(c, p) ==
    \/ cpc[c] = "lock" /\ p = fetched[c]
    \/ cpc[c] = "all_dead" /\ p = scan[c]
    \/ /\ cpc[c] = "run"
       /\ LET q == proc[c] IN
          \/ pc[q] \in {"user", "fork", "sleep"} /\ p = q
          \/ pc[q] \in {"alloc", "wakeup"} /\ p = i[q]
          \/ pc[q] \in {"scan", "reparent"} /\ p = i[q] /\ p # q
          \/ pc[q] = "wakeup" /\ i[q] = NPROC /\ p = q
WantsWaitLock(c) == At(c, "wait") \/ At(c, "rewait") \/ At(c, "exit")
BlockedBy(c, d) ==
    \/ WantsWaitLock(c) /\ wait_lock = d
    \/ \E p \in Pool : Wants(c, p) /\ plock[p] = d

\* The p->locks are taken in no fixed order: exit() holds its own while it takes
\* those before and after it, fork() the child's while it takes the parent's, a
\* thread comes out of the scheduler with its own and may find wait_lock taken.
\* Still no set of CPUs, one CPU included, ever waits for locks of one another.
NoLockCycle ==
    \A D \in (SUBSET CPU) \ {{}} : \E c \in D : \A d \in D : ~BlockedBy(c, d)

\* The queue is fair: a queued process gets a CPU.
QueuedRuns == \A p \in Pool : (QueueSlots(p) # {}) ~> (\E c \in CPU : proc[c] = p)

\* exit() gets through its scans, which take every lock of the pool.
ExitEnds == \A p \in Pool : (pc[p] = "exit") ~> (state[p] = "ZOMBIE")

-----------------------------------------------------------------------------
\* The inductive invariant of ProcProofs.tla.

\* A CPU that has taken a process from the queue and not yet let go of it; one
\* whose c->proc is set.
Busy(c) == cpc[c] \in {"lock", "run", "back", "panic: allocproc"}
HasProc(c) == cpc[c] \in {"run", "back", "panic: allocproc"}

\* The processes in the ring.
Queued == {task_queue[k] : k \in 1 .. Len(task_queue)}

\* What the ring of TaskQueue.tla takes for granted of its callers: add_task pushes only a
\* process that is not in it, and fetch_task takes the oldest.
QueueStep ==
    \/ \E p \in Pool \ Queued : task_queue' = Append(task_queue, p)
    \/ task_queue # <<>> /\ task_queue' = Tail(task_queue)
QueueUse == [][QueueStep]_task_queue

\* Where a thread is when it comes out of the scheduler, where it is only while
\* it has a CPU, and where it holds p->lock and wait_lock.
Resumes == {"first", "yielded", "woken"}
Active == ThreadPC \ (Resumes \cup {"none", "dead"})
OwnLock == Resumes \cup {"sleeping", "reparent"}
WaitLock == {"scan", "sleep", "sleeping", "wakeup", "reparent"}

\* c->proc is scheduler()'s p from the switch until the thread has come back; an
\* idle CPU never gets past pool[0], which is init.
CpuInv ==
    \A c \in CPU :
        /\ cpc[c] \notin {"panic", "panic: dead"}
        /\ scan[c] = 0
        /\ proc[c] = IF HasProc(c) THEN fetched[c] ELSE NoProc

\* No process is in two places.
QueuedOnce == \A j, k \in 1 .. Len(task_queue) : task_queue[j] = task_queue[k] => j = k

PlaceInv ==
    /\ QueuedOnce
    /\ \A c, d \in CPU : Busy(c) /\ Busy(d) /\ fetched[c] = fetched[d] => c = d
    /\ \A c \in CPU : Busy(c) => fetched[c] \notin Queued

\* What p->state and the thread's position are for a process in the queue and for
\* the one a CPU has taken from it (exec leaves a running process RUNNABLE) ...
OfQueue ==
    \A p \in Queued : state[p] = "RUNNABLE" /\ pc[p] \in Resumes

OfCpu(c) ==
    LET p == fetched[c] IN
    /\ cpc[c] = "lock" => state[p] = "RUNNABLE" /\ pc[p] \in Resumes
    /\ cpc[c] \in {"run", "panic: allocproc"} =>
          state[p] \in {"RUNNING", "RUNNABLE"} /\ pc[p] \notin {"none", "dead"}
    /\ cpc[c] = "panic: allocproc" => pc[p] = "alloc"
    /\ cpc[c] = "back" => \/ state[p] = "RUNNABLE" /\ pc[p] = "yielded"
                          \/ state[p] = "SLEEPING" /\ pc[p] = "woken"
                          \/ state[p] = "ZOMBIE" /\ pc[p] = "dead"

\* ... and where a process is, given its state and its thread's position.
OfProc(p) ==
    /\ state[p] = "RUNNABLE" => p \in Queued \/ \E c \in CPU : Busy(c) /\ fetched[c] = p
    /\ state[p] = "RUNNING" \/ pc[p] \in Active =>
          \E c \in CPU : cpc[c] \in {"run", "panic: allocproc"} /\ fetched[c] = p
    /\ state[p] = "SLEEPING" => pc[p] = "woken"
    /\ state[p] = "USED" => pc[p] = "first"

StateInv ==
    /\ OfQueue
    /\ \A c \in CPU : OfCpu(c)
    /\ \A p \in Pool : OfProc(p)

\* Who holds which lock: p->lock is held for the process on the CPU across the
\* switch, and for the child that fork has not published.
HoldsOwn(c, p) ==
    fetched[c] = p /\ (cpc[c] = "back" \/ (cpc[c] = "run" /\ pc[p] \in OwnLock))
HoldsNew(c, p) ==
    cpc[c] = "run" /\ pc[fetched[c]] = "fork" /\ np[fetched[c]] = p
HoldsWait(c) ==
    cpc[c] = "run" /\ pc[fetched[c]] \in WaitLock

LockInv ==
    /\ \A c \in CPU, p \in Pool : plock[p] = c <=> HoldsOwn(c, p) \/ HoldsNew(c, p)
    /\ \A c \in CPU : wait_lock = c <=> HoldsWait(c)

\* The locals of fork and exit: the slot that allocproc found, the child that
\* fork returns, and how far reparenting has come.
LocalInv ==
    \A p \in Pool :
        /\ pc[p] = "alloc" => i[p] \in Pool
        /\ pc[p] = "fork" => state[np[p]] = "USED"
        /\ pc[p] = "reparent" /\ p # init_proc =>
              \A n \in Pool : n < i[p] => parent[n] # p

\* init is nobody's child, so no wait() frees it.
InitInv == parent[init_proc] = NoProc /\ state[init_proc] \notin {"UNUSED", "USED"}

\* Why no wakeup is lost: everyone sleeps for itself; a child whose scan in wakeup()
\* has passed its parent leaves it awake, and the parent cannot fall asleep before
\* the child has given wait_lock back; what a scan of wait() has passed holds no
\* exited child until sleep() gives wait_lock back.
SleepsForItself == \A p \in Pool : state[p] = "SLEEPING" => sleep_chan[p] = p
Woken(n) == pc[n] = "reparent" \/ (pc[n] = "wakeup" /\ i[n] > parent[n])
WokenInv == \A p, n \in Pool : parent[n] = p /\ Woken(n) => state[p] # "SLEEPING"
Passed(p) == IF pc[p] = "scan" THEN {n \in Pool : n < i[p]}
             ELSE IF pc[p] \in {"sleep", "sleeping"} THEN Pool ELSE {}
ScanInv == \A p \in Pool : \A n \in Passed(p) : ~Exited(p, n)
WakeInv == SleepsForItself /\ WokenInv /\ ScanInv /\ NoLostWakeup

IInv ==
    /\ TypeOK /\ CpuInv /\ PlaceInv /\ StateInv /\ LockInv /\ LocalInv
    /\ InitInv /\ ParentAlive /\ ForkedChildStays
====
