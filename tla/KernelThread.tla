---- MODULE KernelThread ----
\* How a kernel thread enters and leaves the kernel and changes CPUs: usertrap
\* and usertrapret (os/trap.c), uservec and userret (os/trampoline.S), sched and
\* the switch in scheduler (os/sched.c, os/switch.S).
\*
\* The kernel finds "its" CPU through the tp register alone (mycpu()), user code
\* may change tp, and a thread that sleeps may wake up on another hart.  What a
\* thread leaves behind in struct cpu (noff, interrupt_on) is found there by the
\* thread that runs next, and the SIE bit stays with the hart.
\*
\* The fields of struct cpu are therefore indexed with tp[c], the registers with
\* the hart c itself.  Proc.tla has the states of processes; here a thread is
\* queued, running or asleep.  Spinlock.tla has the locks; here only p->lock, which
\* is taken on one side of a switch and released on the other, and the one lock
\* (lk) that sleep() gives up.
EXTENDS Integers, FiniteSets

CONSTANTS
    CPU,            \* the harts, and the indices of cpus[]
    Thread,         \* the processes
    NoCpu, NoThread

ASSUME CPUAssumption == NoCpu \notin CPU
ASSUME ThreadAssumption == NoThread \notin Thread

VARIABLES
    \* registers of a hart
    tp,             \* the register that mycpu() reads
    sie,            \* sstatus.SIE
    stvec,          \* "kernel": kernel_trap_entry, "user": uservec
    on,             \* the thread whose stack the hart is on, NoThread: its scheduler
    \* fields of struct cpu
    proc, noff, interrupt_on,
    \* a process
    status,         \* "queued", "running", "asleep"
    plock,          \* the struct cpu that holds p->lock
    kernel_hartid,  \* of its trapframe
    saved,          \* the local variable interrupt_on of its sched()
    in_syscall,     \* it is between the intr_on() and intr_off() of usertrap
    pc,             \* where its kernel thread is
    cpc,            \* where the scheduler of a hart is
    fetched,        \* its local variable p
    panic           \* an assertion has failed

cpuVars == <<tp, sie, stvec, on>>
structVars == <<proc, noff, interrupt_on>>
threadVars == <<status, plock, kernel_hartid, saved, in_syscall, pc>>
vars == <<cpuVars, structVars, threadVars, cpc, fetched, panic>>

ThreadPC == {"first", "intr_off", "usertrapret", "user", "kernel", "sched", "resumed",
             "release"}

TypeOK ==
    /\ tp \in [CPU -> CPU]
    /\ sie \in [CPU -> BOOLEAN]
    /\ stvec \in [CPU -> {"kernel", "user"}]
    /\ on \in [CPU -> Thread \cup {NoThread}]
    /\ proc \in [CPU -> Thread \cup {NoThread}]
    /\ noff \in [CPU -> Nat]
    /\ interrupt_on \in [CPU -> BOOLEAN]
    /\ status \in [Thread -> {"queued", "running", "asleep"}]
    /\ plock \in [Thread -> CPU \cup {NoCpu}]
    /\ kernel_hartid \in [Thread -> CPU]
    /\ saved \in [Thread -> BOOLEAN]
    /\ in_syscall \in [Thread -> BOOLEAN]
    /\ pc \in [Thread -> ThreadPC]
    /\ cpc \in [CPU -> {"loop", "wfi", "back"}]
    /\ fetched \in [CPU -> Thread \cup {NoThread}]
    /\ panic \in BOOLEAN

\* After secondarycpu_entry (w_tp), trap_init, and allocproc of every thread; a new
\* trapframe is zeroed: kernel_hartid names some hart, not the one that will run it.
Init ==
    /\ tp = [c \in CPU |-> c]
    /\ sie = [c \in CPU |-> FALSE]
    /\ stvec = [c \in CPU |-> "kernel"]
    /\ on = [c \in CPU |-> NoThread]
    /\ proc = [c \in CPU |-> NoThread]
    /\ noff = [c \in CPU |-> 0]
    /\ interrupt_on = [c \in CPU |-> FALSE]
    /\ status = [t \in Thread |-> "queued"]
    /\ plock = [t \in Thread |-> NoCpu]
    /\ kernel_hartid \in [Thread -> CPU]
    /\ saved = [t \in Thread |-> FALSE]
    /\ in_syscall = [t \in Thread |-> FALSE]
    /\ pc = [t \in Thread |-> "first"]
    /\ cpc = [c \in CPU |-> "loop"]
    /\ fetched = [c \in CPU |-> NoThread]
    /\ panic = FALSE
-----------------------------------------------------------------------------
mycpu(c) == tp[c]
curr_proc(c) == proc[mycpu(c)]

\* Hart c executes the kernel thread of its current process at l.
At(c, l) == ~panic /\ on[c] # NoThread /\ pc[on[c]] = l
Goto(c, l) == pc' = [pc EXCEPT ![on[c]] = l]
AtSched(c, l) == ~panic /\ on[c] = NoThread /\ cpc[c] = l

\* swtch: the hart saves the registers of one stack and loads those of another.
swtch(c, t) == on' = [on EXCEPT ![c] = t]

\* uservec, on a trap from user mode: the hardware clears SIE, and tp is loaded from
\* the trapframe that the process's page table maps.
uservec(c) == tp' = [tp EXCEPT ![c] = kernel_hartid[on[c]]]

\* userret: the user's vector and the user's tp, any value u; sret moves SPIE, which
\* usertrapret has set, into SIE.
userret(c, u) ==
    /\ stvec' = [stvec EXCEPT ![c] = "user"]
    /\ tp' = [tp EXCEPT ![c] = u]
    /\ sie' = [sie EXCEPT ![c] = TRUE]

\* assert(cond): a panic stops the model.
assert(cond) == panic' = ~cond

push_off(c) ==
    /\ interrupt_on' = IF noff[mycpu(c)] = 0 THEN [interrupt_on EXCEPT ![mycpu(c)] = sie[c]]
                                             ELSE interrupt_on
    /\ noff' = [noff EXCEPT ![mycpu(c)] = @ + 1]
    /\ sie' = [sie EXCEPT ![c] = FALSE]

acquire(c, t) ==
    /\ plock[t] = NoCpu
    /\ plock' = [plock EXCEPT ![t] = mycpu(c)]
    /\ push_off(c)

\* release(&t->lock) with holding() and the panics of pop_off.
release(c, t) ==
    /\ assert(plock[t] = mycpu(c) /\ ~sie[c] /\ noff[mycpu(c)] >= 1)
    /\ plock' = [plock EXCEPT ![t] = NoCpu]
    /\ noff' = [noff EXCEPT ![mycpu(c)] = @ - 1]
    /\ sie' = [sie EXCEPT ![c] = noff[mycpu(c)] = 1 /\ interrupt_on[mycpu(c)]]
    /\ UNCHANGED interrupt_on
-----------------------------------------------------------------------------
\* scheduler(): a task is fetched, its lock taken, and the hart is on its stack.
dispatch(c, t) ==
    /\ AtSched(c, "loop")
    /\ status[t] = "queued"
    /\ acquire(c, t)
    /\ status' = [status EXCEPT ![t] = "running"]
    /\ proc' = [proc EXCEPT ![mycpu(c)] = t]
    /\ swtch(c, t)
    /\ fetched' = [fetched EXCEPT ![c] = t]
    /\ cpc' = [cpc EXCEPT ![c] = "back"]
    /\ UNCHANGED <<tp, stvec, kernel_hartid, saved, in_syscall, pc, panic>>

\* Nothing to run: intr_on(); wfi; intr_off().
wfi_begin(c) ==
    /\ AtSched(c, "loop")
    /\ sie' = [sie EXCEPT ![c] = TRUE]
    /\ cpc' = [cpc EXCEPT ![c] = "wfi"]
    /\ UNCHANGED <<tp, stvec, on, structVars, threadVars, panic, fetched>>

wfi_end(c) ==
    /\ AtSched(c, "wfi")
    /\ sie' = [sie EXCEPT ![c] = FALSE]
    /\ cpc' = [cpc EXCEPT ![c] = "loop"]
    /\ UNCHANGED <<tp, stvec, on, structVars, threadVars, panic, fetched>>

\* swtch has come back: the assertions, and release(&p->lock).
switch_back(c) ==
    LET t == fetched[c] IN
    /\ AtSched(c, "back")
    /\ IF curr_proc(c) # t \/ sie[c] \/ plock[t] # mycpu(c)
       THEN /\ panic' = TRUE
            /\ UNCHANGED <<sie, structVars, plock, cpc>>
       ELSE /\ proc' = [proc EXCEPT ![mycpu(c)] = NoThread]
            /\ release(c, t)
            /\ cpc' = [cpc EXCEPT ![c] = "loop"]
    /\ fetched' = [fetched EXCEPT ![c] = NoThread]
    /\ UNCHANGED <<tp, stvec, on, status, kernel_hartid, saved, in_syscall, pc>>

\* wakeup() on any CPU, once the lock of the sleeping thread is free.
wakeup(t) ==
    /\ ~panic
    /\ status[t] = "asleep" /\ plock[t] = NoCpu
    /\ status' = [status EXCEPT ![t] = "queued"]
    /\ UNCHANGED <<cpuVars, structVars, plock, kernel_hartid, saved, in_syscall, pc, cpc, panic, fetched>>
-----------------------------------------------------------------------------
\* first_sched_ret(): release, which may turn interrupts on with what the
\* scheduler had saved, then intr_off() and usertrapret().
first_sched_ret(c) ==
    /\ At(c, "first")
    /\ release(c, curr_proc(c))
    /\ Goto(c, "intr_off")
    /\ UNCHANGED <<tp, stvec, on, proc, status, kernel_hartid, saved, in_syscall, cpc, fetched>>

\* Mutant of intr_off: interrupts stay as release() left them.
intr_off_forgotten(c) ==
    /\ At(c, "intr_off")
    /\ in_syscall' = [in_syscall EXCEPT ![on[c]] = FALSE]
    /\ Goto(c, "usertrapret")
    /\ UNCHANGED <<cpuVars, structVars, status, plock, kernel_hartid, saved, cpc, panic, fetched>>

\* The intr_off() of first_sched_ret, and the one of usertrap after syscall().
intr_off(c) ==
    /\ At(c, "intr_off")
    /\ sie' = [sie EXCEPT ![c] = FALSE]
    /\ in_syscall' = [in_syscall EXCEPT ![on[c]] = FALSE]
    /\ Goto(c, "usertrapret")
    /\ UNCHANGED <<tp, stvec, on, structVars, status, plock, kernel_hartid, saved, cpc, panic, fetched>>

\* Mutant of usertrapret: the hart is recorded only once, as if a thread never moved.
usertrapret_keeps_hartid(c, u) ==
    /\ At(c, "usertrapret")
    /\ IF sie[c]
       THEN panic' = TRUE /\ UNCHANGED <<cpuVars, kernel_hartid, pc>>
       ELSE /\ userret(c, u)
            /\ Goto(c, "user")
            /\ UNCHANGED <<on, kernel_hartid, panic>>
    /\ UNCHANGED <<structVars, status, plock, saved, in_syscall, cpc, fetched>>

\* usertrapret: the trapframe remembers the hart on which the process goes to user mode.
usertrapret(c, u) ==
    /\ At(c, "usertrapret")
    /\ IF sie[c]
       THEN panic' = TRUE /\ UNCHANGED <<cpuVars, kernel_hartid, pc>>
       ELSE /\ kernel_hartid' = [kernel_hartid EXCEPT ![curr_proc(c)] = tp[c]]
            /\ userret(c, u)
            /\ Goto(c, "user")
            /\ UNCHANGED <<on, panic>>
    /\ UNCHANGED <<structVars, status, plock, saved, in_syscall, cpc, fetched>>

\* A trap from user mode: uservec, then usertrap sets stvec and, for a system call,
\* turns interrupts on.
usertrap(c, ecall) ==
    /\ At(c, "user")
    /\ uservec(c)
    /\ stvec' = [stvec EXCEPT ![c] = "kernel"]
    /\ sie' = [sie EXCEPT ![c] = ecall]
    /\ in_syscall' = [in_syscall EXCEPT ![on[c]] = ecall]
    /\ Goto(c, "kernel")
    /\ UNCHANGED <<on, structVars, status, plock, kernel_hartid, saved, cpc, panic, fetched>>

\* The handler is done without a switch.
usertrap_end(c) ==
    /\ At(c, "kernel")
    /\ Goto(c, IF in_syscall[on[c]] THEN "intr_off" ELSE "usertrapret")
    /\ UNCHANGED <<cpuVars, structVars, status, plock, kernel_hartid, saved, in_syscall, cpc, panic, fetched>>

\* Mutant of yield: the process is queued again before it has given up its stack,
\* without its lock.
yield_unlocked(c) ==
    /\ At(c, "kernel")
    /\ push_off(c)
    /\ status' = [status EXCEPT ![curr_proc(c)] = "queued"]
    /\ Goto(c, "sched")
    /\ UNCHANGED <<tp, stvec, on, proc, plock, kernel_hartid, saved, in_syscall, cpc, panic, fetched>>

\* yield() takes p->lock.
yield(c) ==
    /\ At(c, "kernel")
    /\ acquire(c, curr_proc(c))
    /\ status' = [status EXCEPT ![curr_proc(c)] = "queued"]
    /\ Goto(c, "sched")
    /\ UNCHANGED <<tp, stvec, on, proc, kernel_hartid, saved, in_syscall, cpc, panic, fetched>>

\* sleep(chan, lk) in a system call: p->lock is taken while lk is held (a push_off
\* of each), then lk is released, which leaves noff at one.
sleep(c) ==
    /\ At(c, "kernel") /\ in_syscall[on[c]]
    /\ acquire(c, curr_proc(c))
    /\ status' = [status EXCEPT ![curr_proc(c)] = "asleep"]
    /\ Goto(c, "sched")
    /\ UNCHANGED <<tp, stvec, on, proc, kernel_hartid, saved, in_syscall, cpc, panic, fetched>>

\* sched(), up to the swtch to the scheduler of this CPU.
sched(c) ==
    LET p == curr_proc(c) IN
    /\ At(c, "sched")
    /\ IF plock[p] # mycpu(c) \/ noff[mycpu(c)] # 1 \/ status[p] = "running" \/ sie[c]
       THEN panic' = TRUE /\ UNCHANGED <<saved, on, pc>>
       ELSE /\ saved' = [saved EXCEPT ![p] = interrupt_on[mycpu(c)]]
            /\ swtch(c, NoThread)
            /\ Goto(c, "resumed")
            /\ UNCHANGED panic
    /\ UNCHANGED <<tp, sie, stvec, structVars, status, plock, kernel_hartid, in_syscall, cpc, fetched>>

\* Mutant of sched_resumed: interrupt_on is left as the last thread here set it.
sched_resumed_no_restore(c) ==
    /\ At(c, "resumed")
    /\ assert(plock[curr_proc(c)] = mycpu(c))
    /\ Goto(c, "release")
    /\ UNCHANGED <<cpuVars, structVars, status, plock, kernel_hartid, saved, in_syscall, cpc, fetched>>

\* sched() after swtch, possibly on another hart.
sched_resumed(c) ==
    /\ At(c, "resumed")
    /\ interrupt_on' = [interrupt_on EXCEPT ![mycpu(c)] = saved[on[c]]]
    /\ assert(plock[curr_proc(c)] = mycpu(c))
    /\ Goto(c, "release")
    /\ UNCHANGED <<cpuVars, proc, noff, status, plock, kernel_hartid, saved, in_syscall, cpc, fetched>>

\* The release(&p->lock) after sched() in yield() and sleep().
sched_release(c) ==
    /\ At(c, "release")
    /\ release(c, curr_proc(c))
    /\ Goto(c, "kernel")
    /\ UNCHANGED <<tp, stvec, on, proc, status, kernel_hartid, saved, in_syscall, cpc, fetched>>

Next ==
    \/ \E c \in CPU, t \in Thread : dispatch(c, t)
    \/ \E c \in CPU : wfi_begin(c) \/ wfi_end(c) \/ switch_back(c)
    \/ \E t \in Thread : wakeup(t)
    \/ \E c \in CPU :
          \/ first_sched_ret(c) \/ intr_off(c) \/ usertrap_end(c)
          \/ \E u \in CPU : usertrapret(c, u)
          \/ \E ecall \in BOOLEAN : usertrap(c, ecall)
          \/ yield(c) \/ sleep(c) \/ sched(c) \/ sched_resumed(c) \/ sched_release(c)

Spec == Init /\ [][Next]_vars
-----------------------------------------------------------------------------
InKernel(c) == on[c] = NoThread \/ pc[on[c]] # "user"

\* In the kernel, mycpu() is the structure of the executing hart, curr_proc() the
\* process whose stack it is on, and stvec the kernel's vector, whatever user code
\* did to tp and however often the thread has moved.
KernelContext ==
    \A c \in CPU : InKernel(c) =>
        /\ mycpu(c) = c
        /\ on[c] # NoThread => curr_proc(c) = on[c]
        /\ stvec[c] = "kernel"

\* Interrupts are a property of the thread: a system call runs with interrupts on
\* and a timer or device trap with interrupts off, also after sched() has brought
\* the thread back behind another thread, or on another hart.
InterruptsFollowThread ==
    \A c \in CPU : on[c] # NoThread /\ pc[on[c]] = "kernel" =>
        sie[c] = in_syscall[on[c]] /\ noff[c] = 0

\* The assertions of sched, scheduler, release and usertrapret hold.
NoPanic == TypeOK /\ ~panic

\* No two harts are ever on one kernel stack: a thread that has queued itself is
\* not dispatched before it has left its stack.
OneHartPerStack ==
    \A c, d \in CPU : on[c] = on[d] /\ on[c] # NoThread => c = d
-----------------------------------------------------------------------------
\* The inductive invariant.  A hart owns the thread its scheduler has fetched, from
\* the acquire in scheduler() to the release there; p->lock is held on that hart
\* while the thread is on its way in or out.
\* Hart c is between taking p->lock of its thread and releasing it.
InSwitch(c) ==
    /\ fetched[c] # NoThread
    /\ on[c] = NoThread \/ pc[on[c]] \in {"first", "sched", "resumed", "release"}

OwnInv ==
    /\ \A c \in CPU :
          /\ cpc[c] = "back" <=> fetched[c] # NoThread
          /\ on[c] # NoThread => on[c] = fetched[c]
          /\ fetched[c] # NoThread => proc[c] = fetched[c]
    /\ \A c, d \in CPU : fetched[c] = fetched[d] /\ fetched[c] # NoThread => c = d

ContextInv ==
    \A c \in CPU :
        /\ InKernel(c) => tp[c] = c /\ stvec[c] = "kernel"
        /\ ~InKernel(c) => kernel_hartid[on[c]] = c

LockInv ==
    /\ \A c \in CPU : IF InSwitch(c)
                      THEN plock[fetched[c]] = c /\ noff[c] = 1 /\ ~sie[c]
                      ELSE noff[c] = 0
    /\ \A t \in Thread : plock[t] # NoCpu => fetched[plock[t]] = t

\* A thread that no hart owns waits at the start of its stack or in sched(); one that
\* a hart owns is running unless it is leaving.
StatusInv ==
    /\ \A t \in Thread : (\A c \in CPU : fetched[c] # t) => pc[t] \in {"first", "resumed"}
    /\ \A c \in CPU : fetched[c] # NoThread =>
          /\ on[c] = NoThread => pc[fetched[c]] = "resumed"
          /\ status[fetched[c]] = "running" <=> on[c] # NoThread /\ pc[on[c]] # "sched"

\* Whether interrupts are to be on in a thread is in SIE, then in its CPU's
\* interrupt_on, then in its own saved.
IntrOf(c) ==
    on[c] # NoThread =>
        /\ pc[on[c]] = "kernel" => sie[c] = in_syscall[on[c]]
        /\ pc[on[c]] = "usertrapret" => ~sie[c]
        /\ pc[on[c]] \in {"sched", "release"} => interrupt_on[c] = in_syscall[on[c]]

IntrInv ==
    /\ \A c \in CPU : IntrOf(c)
    /\ \A t \in Thread : pc[t] = "resumed" => saved[t] = in_syscall[t]

IInv == NoPanic /\ OwnInv /\ ContextInv /\ LockInv /\ StatusInv /\ IntrInv
====
