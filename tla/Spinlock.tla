---- MODULE Spinlock ----
\* The spinlocks of os/lock.c (acquire, release, holding, push_off, pop_off)
\* together with the kernel interrupts of os/trap.c (kernel_trap) that may hit
\* a CPU whenever its SIE bit is set.
\*
\* Every CPU runs one kernel thread and, while inkernel_trap is set, the trap
\* handler on top of it: two contexts ("thread" and "trap") that share the CPU's
\* noff, interrupt_on and SIE but have a program counter each.  The contexts are
\* arbitrary callers of the locks, which they take in any order: exit() holds its
\* own p->lock while it takes those before and after it, fork() holds the child's
\* while it takes the parent's.  Their only discipline is that a context does not
\* ask for a lock it holds, that a trap handler returns with none, and that
\* intr_on()/intr_off() are called with none.
EXTENDS Integers, FiniteSets

CONSTANTS
    CPU,        \* the harts that run the kernel
    Lock,       \* the locks
    NoCpu       \* lk->cpu = 0

ASSUME LockAssumption == Lock # {} /\ IsFiniteSet(Lock)
ASSUME NoCpuAssumption == NoCpu \notin CPU

VARIABLES
    locked,         \* lk->locked
    cpu,            \* lk->cpu: set after the test-and-set, cleared before the unlock
    noff,           \* c->noff: depth of push_off nesting
    interrupt_on,   \* c->interrupt_on: SIE before the outermost push_off
    inkernel_trap,  \* c->inkernel_trap
    sie,            \* the SIE bit of sstatus
    pc,             \* next statement of each context
    arg,            \* the lock passed to the acquire or release in progress
    old,            \* the local variable "old" of push_off
    held,           \* locks acquired and not yet given back, per context
    wanted          \* SIE as the thread last set it with intr_on/intr_off

vars == <<locked, cpu, noff, interrupt_on, inkernel_trap, sie, pc, arg, old, held, wanted>>

Mode == {"thread", "trap"}
PC == {"idle", "intr_get", "intr_off", "locked?", "cpu?", "swap", "own",
       "release", "unlock", "pop_off", "panic"}

\* The context that runs on c.
M(c) == IF inkernel_trap[c] THEN "trap" ELSE "thread"

At(c, l) == pc[c][M(c)] = l
Goto(c, l) == pc' = [pc EXCEPT ![c][M(c)] = l]
Arg(c) == arg[c][M(c)]
Held(c) == held[c][M(c)]

TypeOK ==
    /\ locked \in [Lock -> BOOLEAN]
    /\ cpu \in [Lock -> CPU \cup {NoCpu}]
    /\ noff \in [CPU -> Nat]
    /\ interrupt_on \in [CPU -> BOOLEAN]
    /\ inkernel_trap \in [CPU -> BOOLEAN]
    /\ sie \in [CPU -> BOOLEAN]
    /\ pc \in [CPU -> [Mode -> PC]]
    /\ arg \in [CPU -> [Mode -> Lock]]
    /\ old \in [CPU -> [Mode -> BOOLEAN]]
    /\ held \in [CPU -> [Mode -> SUBSET Lock]]
    /\ wanted \in [CPU -> BOOLEAN]

\* spinlock_init of every lock; harts enter the kernel with interrupts off.
Init ==
    /\ locked = [l \in Lock |-> FALSE]
    /\ cpu = [l \in Lock |-> NoCpu]
    /\ noff = [c \in CPU |-> 0]
    /\ interrupt_on = [c \in CPU |-> FALSE]
    /\ inkernel_trap = [c \in CPU |-> FALSE]
    /\ sie = [c \in CPU |-> FALSE]
    /\ pc = [c \in CPU |-> [m \in Mode |-> "idle"]]
    /\ arg = [c \in CPU |-> [m \in Mode |-> CHOOSE l \in Lock : TRUE]]
    /\ old = [c \in CPU |-> [m \in Mode |-> FALSE]]
    /\ held = [c \in CPU |-> [m \in Mode |-> {}]]
    /\ wanted = [c \in CPU |-> FALSE]
-----------------------------------------------------------------------------
\* acquire(l) is called by a context that does not hold l.
acquire(c, l) ==
    /\ At(c, "idle")
    /\ l \notin Held(c)
    /\ arg' = [arg EXCEPT ![c][M(c)] = l]
    /\ Goto(c, "intr_get")
    /\ UNCHANGED <<locked, cpu, noff, interrupt_on, inkernel_trap, sie, old, held, wanted>>

\* push_off, first statement: old = intr_get().
intr_get(c) ==
    /\ At(c, "intr_get")
    /\ old' = [old EXCEPT ![c][M(c)] = sie[c]]
    /\ Goto(c, "intr_off")
    /\ UNCHANGED <<locked, cpu, noff, interrupt_on, inkernel_trap, sie, arg, held, wanted>>

\* Mutant of push_off: interrupts stay on.
push_off_leaves_sie(c) ==
    /\ At(c, "intr_off")
    /\ interrupt_on' = IF noff[c] = 0 THEN [interrupt_on EXCEPT ![c] = old[c][M(c)]]
                                      ELSE interrupt_on
    /\ noff' = [noff EXCEPT ![c] = @ + 1]
    /\ old' = [old EXCEPT ![c][M(c)] = FALSE]
    /\ Goto(c, "locked?")
    /\ UNCHANGED <<locked, cpu, inkernel_trap, sie, arg, held, wanted>>

\* Mutant of push_off: every nesting level overwrites the saved state.
push_off_always_saves(c) ==
    /\ At(c, "intr_off")
    /\ sie' = [sie EXCEPT ![c] = FALSE]
    /\ interrupt_on' = [interrupt_on EXCEPT ![c] = old[c][M(c)]]
    /\ noff' = [noff EXCEPT ![c] = @ + 1]
    /\ old' = [old EXCEPT ![c][M(c)] = FALSE]
    /\ Goto(c, "locked?")
    /\ UNCHANGED <<locked, cpu, inkernel_trap, arg, held, wanted>>

\* The rest of push_off; once SIE is clear nothing else runs on this CPU, so
\* intr_off() and the update of the cpu structure are one step.
push_off(c) ==
    /\ At(c, "intr_off")
    /\ sie' = [sie EXCEPT ![c] = FALSE]
    /\ interrupt_on' = IF noff[c] = 0 THEN [interrupt_on EXCEPT ![c] = old[c][M(c)]]
                                      ELSE interrupt_on
    /\ noff' = [noff EXCEPT ![c] = @ + 1]
    /\ old' = [old EXCEPT ![c][M(c)] = FALSE]      \* out of scope
    /\ Goto(c, "locked?")
    /\ UNCHANGED <<locked, cpu, inkernel_trap, arg, held, wanted>>

\* holding() inside acquire reads lk->locked and then lk->cpu, while other CPUs
\* may be changing both.
holding_locked(c) ==
    /\ At(c, "locked?")
    /\ Goto(c, IF locked[Arg(c)] THEN "cpu?" ELSE "swap")
    /\ UNCHANGED <<locked, cpu, noff, interrupt_on, inkernel_trap, sie, arg, old, held, wanted>>

holding_cpu(c) ==
    /\ At(c, "cpu?")
    /\ Goto(c, IF cpu[Arg(c)] = c THEN "panic" ELSE "swap")    \* "already acquired"
    /\ UNCHANGED <<locked, cpu, noff, interrupt_on, inkernel_trap, sie, arg, old, held, wanted>>

\* Mutant of test_and_set: the result of the swap is ignored.
test_and_set_once(c) ==
    /\ At(c, "swap")
    /\ locked' = [locked EXCEPT ![Arg(c)] = TRUE]
    /\ Goto(c, "own")
    /\ UNCHANGED <<cpu, noff, interrupt_on, inkernel_trap, sie, arg, old, held, wanted>>

\* The amoswap that finds 0; the ones that find 1 change nothing.
test_and_set(c) ==
    /\ At(c, "swap")
    /\ ~locked[Arg(c)]
    /\ locked' = [locked EXCEPT ![Arg(c)] = TRUE]
    /\ Goto(c, "own")
    /\ UNCHANGED <<cpu, noff, interrupt_on, inkernel_trap, sie, arg, old, held, wanted>>

acquired(c) ==
    /\ At(c, "own")
    /\ cpu' = [cpu EXCEPT ![Arg(c)] = c]
    /\ held' = [held EXCEPT ![c][M(c)] = @ \cup {Arg(c)}]
    /\ Goto(c, "idle")
    /\ UNCHANGED <<locked, noff, interrupt_on, inkernel_trap, sie, arg, old, wanted>>

\* Locks are given back in any order (sleep, fork and exit do not nest them).
release(c, l) ==
    /\ At(c, "idle")
    /\ l \in Held(c)
    /\ arg' = [arg EXCEPT ![c][M(c)] = l]
    /\ Goto(c, "release")
    /\ UNCHANGED <<locked, cpu, noff, interrupt_on, inkernel_trap, sie, old, held, wanted>>

\* Mutant of clear_cpu: release forgets lk->cpu = 0.
clear_cpu_forgotten(c) ==
    /\ At(c, "release")
    /\ Goto(c, IF locked[Arg(c)] /\ cpu[Arg(c)] = c THEN "unlock" ELSE "panic")
    /\ UNCHANGED <<locked, cpu, noff, interrupt_on, inkernel_trap, sie, arg, old, held, wanted>>

clear_cpu(c) ==
    /\ At(c, "release")
    /\ IF locked[Arg(c)] /\ cpu[Arg(c)] = c
       THEN /\ cpu' = [cpu EXCEPT ![Arg(c)] = NoCpu]
            /\ Goto(c, "unlock")
       ELSE /\ Goto(c, "panic")                                \* "release"
            /\ UNCHANGED cpu
    /\ UNCHANGED <<locked, noff, interrupt_on, inkernel_trap, sie, arg, old, held, wanted>>

lock_release(c) ==
    /\ At(c, "unlock")
    /\ locked' = [locked EXCEPT ![Arg(c)] = FALSE]
    /\ held' = [held EXCEPT ![c][M(c)] = @ \ {Arg(c)}]
    /\ Goto(c, "pop_off")
    /\ UNCHANGED <<cpu, noff, interrupt_on, inkernel_trap, sie, arg, old, wanted>>

\* The three panics of pop_off: interruptible, unpaired, and about to enable
\* interrupts inside a kernel trap (found after noff has been decremented).
pop_off(c) ==
    LET last == noff[c] = 1 /\ interrupt_on[c] IN
    /\ At(c, "pop_off")
    /\ IF sie[c] \/ noff[c] < 1
       THEN /\ Goto(c, "panic")
            /\ UNCHANGED <<noff, sie>>
       ELSE /\ noff' = [noff EXCEPT ![c] = @ - 1]
            /\ sie' = [sie EXCEPT ![c] = last /\ ~inkernel_trap[c]]
            /\ Goto(c, IF last /\ inkernel_trap[c] THEN "panic" ELSE "idle")
    /\ UNCHANGED <<locked, cpu, interrupt_on, inkernel_trap, arg, old, held, wanted>>

\* intr_on()/intr_off() as usertrap brackets a system call with them and the
\* idle loop of the scheduler its wfi.
set_intr(c, on) ==
    /\ At(c, "idle") /\ ~inkernel_trap[c] /\ Held(c) = {}
    /\ sie' = [sie EXCEPT ![c] = on]
    /\ wanted' = [wanted EXCEPT ![c] = on]
    /\ UNCHANGED <<locked, cpu, noff, interrupt_on, inkernel_trap, pc, arg, old, held>>

\* An interrupt is taken: the hart clears SIE, kernel_trap sets inkernel_trap
\* or panics over a nested trap.
kernel_trap(c) ==
    /\ sie[c] /\ ~At(c, "panic")
    /\ sie' = [sie EXCEPT ![c] = FALSE]
    /\ IF inkernel_trap[c]
       THEN Goto(c, "panic") /\ UNCHANGED inkernel_trap
       ELSE inkernel_trap' = [inkernel_trap EXCEPT ![c] = TRUE] /\ UNCHANGED pc
    /\ UNCHANGED <<locked, cpu, noff, interrupt_on, arg, old, held, wanted>>

\* The end of kernel_trap: the assertion that interrupts are still off, then
\* sret, which sets SIE again because the interrupt was taken with SIE set.
kernel_trap_ret(c) ==
    /\ inkernel_trap[c] /\ At(c, "idle") /\ Held(c) = {}
    /\ IF sie[c]
       THEN Goto(c, "panic") /\ UNCHANGED <<inkernel_trap, sie>>
       ELSE /\ inkernel_trap' = [inkernel_trap EXCEPT ![c] = FALSE]
            /\ sie' = [sie EXCEPT ![c] = TRUE]
            /\ UNCHANGED pc
    /\ UNCHANGED <<locked, cpu, noff, interrupt_on, arg, old, held, wanted>>

\* Steps a CPU that has entered acquire, release or a trap goes on to take.
Run(c) ==
    \/ intr_get(c) \/ push_off(c) \/ holding_locked(c) \/ holding_cpu(c)
    \/ test_and_set(c) \/ acquired(c)
    \/ \E l \in Lock : release(c, l)
    \/ clear_cpu(c) \/ lock_release(c) \/ pop_off(c)
    \/ kernel_trap_ret(c)

Next ==
    \E c \in CPU :
        \/ \E l \in Lock : acquire(c, l)
        \/ Run(c)
        \/ \E on \in BOOLEAN : set_intr(c, on)
        \/ kernel_trap(c)

\* A hart keeps executing instructions, and every critical section of the kernel
\* is finite.  Nothing is assumed of an amoswap that competes with others.
Fairness == \A c \in CPU : WF_vars(Run(c))

Spec == Init /\ [][Next]_vars
FairSpec == Spec /\ Fairness
-----------------------------------------------------------------------------
\* Context m of c is past the swap of acquire(l) and before the swap of release(l).
Inside(c, m, l) == l \in held[c][m] \/ (pc[c][m] = "own" /\ arg[c][m] = l)

\* No two contexts, of one CPU or of two, are between acquire(l) and release(l).
MutualExclusion ==
    \A l \in Lock, c, d \in CPU, m, n \in Mode :
        Inside(c, m, l) /\ Inside(d, n, l) => c = d /\ m = n

\* None of the panics of lock.c and kernel_trap is reachable by callers that keep
\* the discipline: in particular the unlocked reads of holding() never make
\* acquire() report a lock this CPU does not hold as "already acquired".
NoPanic == \A c \in CPU, m \in Mode : pc[c][m] # "panic"

\* An interrupt never finds the code it interrupts between acquire and release,
\* so that a handler may take any lock of the kernel.
TrapHoldsNothing ==
    \A c \in CPU : inkernel_trap[c] =>
        \A l \in Lock : ~Inside(c, "thread", l)

\* push_off and pop_off match: once a thread is outside every critical section,
\* its interrupts are as it last set them, whatever nesting, release order and
\* interrupts came in between; inside one, they are off.
InterruptStateRestored ==
    \A c \in CPU :
        IF ~inkernel_trap[c] /\ pc[c]["thread"] = "idle" /\ held[c]["thread"] = {}
        THEN sie[c] = wanted[c] /\ noff[c] = 0
        ELSE held[c][M(c)] # {} => ~sie[c] /\ noff[c] > 0

-----------------------------------------------------------------------------
\* The inductive invariant behind the four properties above, in parts.

\* Program counters at which a context has not yet disabled interrupts, and
\* those at which noff counts a lock that is not in held.
Before == {"idle", "intr_get", "intr_off"}
Counted == {"locked?", "cpu?", "swap", "own", "pop_off"}
Acquiring == {"intr_get", "intr_off", "locked?", "cpu?", "swap", "own"}

\* noff counts the locks of the running context, and the one it is taking or
\* has just given back.
DepthInv ==
    \A c \in CPU :
        noff[c] = Cardinality(held[c][M(c)]) + (IF pc[c][M(c)] \in Counted THEN 1 ELSE 0)

\* What the context that does not run looks like.
SuspendedInv ==
    \A c \in CPU :
        IF inkernel_trap[c]
        THEN held[c]["thread"] = {} /\ pc[c]["thread"] \in Before /\ wanted[c]
        ELSE held[c]["trap"] = {} /\ pc[c]["trap"] = "idle"

\* SIE, and the value of it that push_off keeps for pop_off.
IntrInv ==
    \A c \in CPU :
        /\ sie[c] => noff[c] = 0 /\ ~inkernel_trap[c]
        /\ noff[c] = 0 /\ ~inkernel_trap[c] => sie[c] = wanted[c]
        /\ noff[c] # 0 => interrupt_on[c] = (wanted[c] /\ ~inkernel_trap[c])
        /\ pc[c]["trap"] = "intr_off" => ~old[c]["trap"]
        /\ pc[c]["thread"] = "intr_off" /\ held[c]["thread"] = {} => old[c]["thread"] = wanted[c]

ArgInv ==
    \A c \in CPU, m \in Mode :
        /\ pc[c][m] \in Acquiring => arg[c][m] \notin held[c][m]
        /\ pc[c][m] \in {"release", "unlock"} => arg[c][m] \in held[c][m]

\* lk->locked is set exactly while a context is inside.
LockedInv ==
    \A l \in Lock : locked[l] <=> \E c \in CPU, m \in Mode : Inside(c, m, l)

\* lk->cpu names c exactly while c holds the lock and has not begun to unlock it.
Owns(c, m, l) == l \in held[c][m] /\ ~(pc[c][m] = "unlock" /\ arg[c][m] = l)
CpuInv ==
    \A l \in Lock, c \in CPU : cpu[l] = c <=> \E m \in Mode : Owns(c, m, l)

IInv ==
    /\ TypeOK
    /\ NoPanic
    /\ DepthInv
    /\ SuspendedInv
    /\ IntrInv
    /\ ArgInv
    /\ MutualExclusion
    /\ LockedInv
    /\ CpuInv
-----------------------------------------------------------------------------
\* CPUs that spin for locks held by what runs on one another: an error of the
\* callers, which Proc!NoLockCycle excludes for the locks of the process layer.
\* A handler that spins for a lock of the thread it interrupted is no such cycle.
WaitCycle ==
    \E D \in (SUBSET CPU) \ {{}} :
        \A c \in D : At(c, "swap") /\ \E d \in D : Arg(c) \in Held(d)

\* When a CPU spins in acquire, some CPU gets a lock, unless the callers have made
\* each other wait in a circle: acquire, release and the interrupts add no
\* deadlock of their own, whatever the order in which locks are taken.
AcquireProgress ==
    (\E c \in CPU : At(c, "swap")) ~> ((\E c \in CPU : At(c, "own")) \/ WaitCycle)

\* acquire and release implement the lock of AbstractLock.tla.
HolderOf(l) ==
    IF \E c \in CPU, m \in Mode : Inside(c, m, l)
    THEN CHOOSE c \in CPU : \E m \in Mode : Inside(c, m, l)
    ELSE NoCpu
Abstract == INSTANCE AbstractLock WITH holder <- [l \in Lock |-> HolderOf(l)]
ImplementsLock == Abstract!Spec
====
