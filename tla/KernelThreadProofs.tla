---- MODULE KernelThreadProofs ----
\* Proofs that a kernel thread keeps its CPU, its stack and its interrupt state
\* over traps, context switches and migration, for any number of harts and threads.
\* Every Step_ lemma says under <1>a where the hart is, under <1>b what the action
\* does there, and then takes the invariant part by part.
EXTENDS KernelThread, TLAPS

\* A step of hart c, or of the thread on it, leaves the interrupt state of the other
\* threads alone: only the two facts about c itself are left to show.
LEMMA IntrStep ==
    ASSUME TypeOK, OwnInv, IntrInv, NEW c \in CPU,
           \A d \in CPU \ {c} : UNCHANGED <<on[d], sie[d], interrupt_on[d]>>,
           \A t \in Thread \ {on[c]} : UNCHANGED <<pc[t], saved[t], in_syscall[t]>>,
           IntrOf(c)',
           on[c] # NoThread /\ pc'[on[c]] = "resumed" => saved'[on[c]] = in_syscall'[on[c]]
    PROVE  IntrInv'
<1>1. ASSUME NEW d \in CPU \ {c}
      PROVE  IntrOf(d)'
  <2>1. UNCHANGED <<on[d], sie[d], interrupt_on[d]>>
    OBVIOUS
  <2>2. on[d] # NoThread => UNCHANGED <<pc[on[d]], in_syscall[on[d]]>>
    BY DEF TypeOK, OwnInv
  <2>. QED BY <2>1, <2>2 DEF IntrInv, IntrOf
<1>2. ASSUME NEW t \in Thread, pc'[t] = "resumed"
      PROVE  saved'[t] = in_syscall'[t]
  <2>1. CASE t = on[c]
    BY <1>2, <2>1, ThreadAssumption
  <2>2. CASE t # on[c]
    <3>1. UNCHANGED <<pc[t], saved[t], in_syscall[t]>>
      BY <2>2
    <3>. QED BY <1>2, <3>1 DEF IntrInv
  <2>. QED BY <2>1, <2>2
<1>. QED BY <1>1, <1>2 DEF IntrInv

\* The scheduler takes a thread that no hart is on: a thread that has queued itself
\* keeps its lock until it has left its stack.
LEMMA Step_dispatch ==
    ASSUME IInv, NEW c \in CPU, NEW t \in Thread, dispatch(c, t)
    PROVE  IInv'
<1>0. TypeOK /\ ~panic /\ OwnInv /\ ContextInv /\ LockInv /\ StatusInv /\ IntrInv
  BY DEF IInv, NoPanic
<1>a. tp[c] = c /\ fetched[c] = NoThread /\ on[c] = NoThread /\ noff[c] = 0
  BY <1>0 DEF dispatch, AtSched, OwnInv, ContextInv, InKernel, LockInv, InSwitch
<1>b. \A d \in CPU : fetched[d] # t
  BY <1>0, CPUAssumption, ThreadAssumption DEF dispatch, acquire, TypeOK, LockInv,
     StatusInv, InSwitch
<1>c. pc[t] \in {"first", "resumed"} /\ t # NoThread
  BY <1>0, <1>b, ThreadAssumption DEF StatusInv
<1>d. /\ on' = [on EXCEPT ![c] = t]
      /\ fetched' = [fetched EXCEPT ![c] = t]
      /\ proc' = [proc EXCEPT ![c] = t]
      /\ plock' = [plock EXCEPT ![t] = c]
      /\ noff' = [noff EXCEPT ![c] = 1]
      /\ interrupt_on' = [interrupt_on EXCEPT ![c] = sie[c]]
      /\ sie' = [sie EXCEPT ![c] = FALSE]
      /\ status' = [status EXCEPT ![t] = "running"]
      /\ cpc' = [cpc EXCEPT ![c] = "back"]
      /\ UNCHANGED <<tp, stvec, kernel_hartid, saved, in_syscall, pc, panic>>
  BY <1>0, <1>a DEF dispatch, acquire, push_off, swtch, mycpu, TypeOK
<1>1. NoPanic'
  BY <1>0, <1>d DEF TypeOK, NoPanic
<1>2. OwnInv'
  BY <1>0, <1>a, <1>b, <1>c, <1>d DEF TypeOK, OwnInv
<1>3. ContextInv'
  BY <1>0, <1>a, <1>b, <1>c, <1>d DEF TypeOK, ContextInv, InKernel
<1>4. LockInv'
  BY <1>0, <1>a, <1>b, <1>c, <1>d, ThreadAssumption DEF TypeOK, LockInv, InSwitch
<1>5. StatusInv'
  BY <1>0, <1>a, <1>b, <1>c, <1>d, ThreadAssumption DEF TypeOK, StatusInv
<1>6. IntrInv'
  <2>1. IntrOf(c)'
    BY <1>0, <1>c, <1>d DEF TypeOK, IntrOf
  <2>. QED BY <1>0, <1>a, <1>d, <2>1, IntrStep DEF TypeOK
<1>. QED BY <1>1, <1>2, <1>3, <1>4, <1>5, <1>6 DEF IInv

\* wfi is reached only on the scheduler's own stack, where no lock is held.
LEMMA Step_wfi_begin ==
    ASSUME IInv, NEW c \in CPU, wfi_begin(c)
    PROVE  IInv'
<1>0. TypeOK /\ ~panic /\ OwnInv /\ ContextInv /\ LockInv /\ StatusInv /\ IntrInv
  BY DEF IInv, NoPanic
<1>a. /\ on[c] = NoThread /\ fetched[c] = NoThread
  BY <1>0 DEF wfi_begin, AtSched, OwnInv
<1>b. /\ sie' = [sie EXCEPT ![c] = TRUE]
      /\ cpc' = [cpc EXCEPT ![c] = "wfi"]
      /\ UNCHANGED <<tp, stvec, on, proc, noff, interrupt_on, status, plock,
                     kernel_hartid, saved, in_syscall, pc, fetched, panic>>
  BY <1>0, <1>a DEF wfi_begin, structVars, threadVars
<1>1. NoPanic'
  BY <1>0, <1>a, <1>b DEF TypeOK, NoPanic
<1>2. OwnInv'
  BY <1>0, <1>a, <1>b DEF TypeOK, OwnInv
<1>3. ContextInv'
  BY <1>0, <1>a, <1>b DEF TypeOK, ContextInv, InKernel
<1>4. LockInv'
  BY <1>0, <1>a, <1>b DEF TypeOK, LockInv, InSwitch
<1>5. StatusInv'
  BY <1>0, <1>a, <1>b DEF TypeOK, StatusInv
<1>6. IntrInv'
  <2>1. IntrOf(c)'
    BY <1>0, <1>a, <1>b DEF TypeOK, IntrInv, IntrOf
  <2>2. on[c] # NoThread /\ pc'[on[c]] = "resumed" => saved'[on[c]] = in_syscall'[on[c]]
    BY <1>0, <1>a, <1>b DEF TypeOK, IntrInv
  <2>. QED BY <1>0, <1>b, <2>1, <2>2, IntrStep DEF TypeOK
<1>. QED BY <1>1, <1>2, <1>3, <1>4, <1>5, <1>6 DEF IInv

\* The intr_off() after wfi.
LEMMA Step_wfi_end ==
    ASSUME IInv, NEW c \in CPU, wfi_end(c)
    PROVE  IInv'
<1>0. TypeOK /\ ~panic /\ OwnInv /\ ContextInv /\ LockInv /\ StatusInv /\ IntrInv
  BY DEF IInv, NoPanic
<1>a. /\ on[c] = NoThread /\ fetched[c] = NoThread
  BY <1>0 DEF wfi_end, AtSched, OwnInv
<1>b. /\ sie' = [sie EXCEPT ![c] = FALSE]
      /\ cpc' = [cpc EXCEPT ![c] = "loop"]
      /\ UNCHANGED <<tp, stvec, on, proc, noff, interrupt_on, status, plock,
                     kernel_hartid, saved, in_syscall, pc, fetched, panic>>
  BY <1>0, <1>a DEF wfi_end, structVars, threadVars
<1>1. NoPanic'
  BY <1>0, <1>a, <1>b DEF TypeOK, NoPanic
<1>2. OwnInv'
  BY <1>0, <1>a, <1>b DEF TypeOK, OwnInv
<1>3. ContextInv'
  BY <1>0, <1>a, <1>b DEF TypeOK, ContextInv, InKernel
<1>4. LockInv'
  BY <1>0, <1>a, <1>b DEF TypeOK, LockInv, InSwitch
<1>5. StatusInv'
  BY <1>0, <1>a, <1>b DEF TypeOK, StatusInv
<1>6. IntrInv'
  <2>1. IntrOf(c)'
    BY <1>0, <1>a, <1>b DEF TypeOK, IntrInv, IntrOf
  <2>2. on[c] # NoThread /\ pc'[on[c]] = "resumed" => saved'[on[c]] = in_syscall'[on[c]]
    BY <1>0, <1>a, <1>b DEF TypeOK, IntrInv
  <2>. QED BY <1>0, <1>b, <2>1, <2>2, IntrStep DEF TypeOK
<1>. QED BY <1>1, <1>2, <1>3, <1>4, <1>5, <1>6 DEF IInv

\* The hart's own thread has come back with its lock: the assertions of scheduler() hold.
LEMMA Step_switch_back ==
    ASSUME IInv, NEW c \in CPU, switch_back(c)
    PROVE  IInv'
<1>0. TypeOK /\ ~panic /\ OwnInv /\ ContextInv /\ LockInv /\ StatusInv /\ IntrInv
  BY DEF IInv, NoPanic
<1>a. /\ tp[c] = c /\ on[c] = NoThread /\ fetched[c] \in Thread
      /\ proc[c] = fetched[c] /\ plock[fetched[c]] = c /\ noff[c] = 1 /\ ~sie[c]
  BY <1>0 DEF switch_back, AtSched, TypeOK, OwnInv, ContextInv, InKernel, LockInv, InSwitch
<1>b. /\ fetched' = [fetched EXCEPT ![c] = NoThread]
      /\ proc' = [proc EXCEPT ![c] = NoThread]
      /\ plock' = [plock EXCEPT ![fetched[c]] = NoCpu]
      /\ noff' = [noff EXCEPT ![c] = 0]
      /\ sie' = [sie EXCEPT ![c] = interrupt_on[c]]
      /\ cpc' = [cpc EXCEPT ![c] = "loop"]
      /\ panic' = FALSE
      /\ UNCHANGED <<tp, stvec, on, interrupt_on, status, kernel_hartid, saved,
                     in_syscall, pc>>
  BY <1>0, <1>a DEF switch_back, release, assert, mycpu, curr_proc, TypeOK
<1>1. NoPanic'
  BY <1>0, <1>a, <1>b DEF TypeOK, NoPanic
<1>2. OwnInv'
  BY <1>0, <1>a, <1>b DEF TypeOK, OwnInv
<1>3. ContextInv'
  BY <1>0, <1>a, <1>b DEF TypeOK, ContextInv, InKernel
<1>4. LockInv'
  BY <1>0, <1>a, <1>b DEF TypeOK, LockInv, InSwitch
<1>5. StatusInv'
  BY <1>0, <1>a, <1>b DEF TypeOK, StatusInv
<1>6. IntrInv'
  <2>1. IntrOf(c)'
    BY <1>0, <1>a, <1>b DEF TypeOK, IntrInv, IntrOf
  <2>2. on[c] # NoThread /\ pc'[on[c]] = "resumed" => saved'[on[c]] = in_syscall'[on[c]]
    BY <1>0, <1>a, <1>b DEF TypeOK, IntrInv
  <2>. QED BY <1>0, <1>b, <2>1, <2>2, IntrStep DEF TypeOK
<1>. QED BY <1>1, <1>2, <1>3, <1>4, <1>5, <1>6 DEF IInv

\* A new thread starts with its lock, taken by the scheduler of this hart.
LEMMA Step_first_sched_ret ==
    ASSUME IInv, NEW c \in CPU, first_sched_ret(c)
    PROVE  IInv'
<1>0. TypeOK /\ ~panic /\ OwnInv /\ ContextInv /\ LockInv /\ StatusInv /\ IntrInv
  BY DEF IInv, NoPanic
<1>a. /\ on[c] \in Thread /\ fetched[c] = on[c] /\ proc[c] = on[c]
      /\ pc[on[c]] = "first" /\ tp[c] = c /\ plock[on[c]] = c /\ noff[c] = 1
      /\ ~sie[c]
  BY <1>0 DEF first_sched_ret, At, TypeOK, OwnInv, ContextInv, InKernel, LockInv, InSwitch
<1>b. /\ plock' = [plock EXCEPT ![on[c]] = NoCpu]
      /\ noff' = [noff EXCEPT ![c] = 0]
      /\ sie' = [sie EXCEPT ![c] = interrupt_on[c]]
      /\ panic' = FALSE
      /\ pc' = [pc EXCEPT ![on[c]] = "intr_off"]
      /\ UNCHANGED <<tp, stvec, on, proc, interrupt_on, status, kernel_hartid, saved,
                     in_syscall, cpc, fetched>>
  <2>1. sie' = [sie EXCEPT ![c] = interrupt_on[c]]
    BY <1>0, <1>a DEF first_sched_ret, release, mycpu, TypeOK
  <2>. QED BY <1>0, <1>a, <2>1 DEF first_sched_ret, release, assert, Goto, mycpu, curr_proc,
              TypeOK
<1>1. NoPanic'
  BY <1>0, <1>a, <1>b DEF TypeOK, ThreadPC, NoPanic
<1>2. OwnInv'
  BY <1>0, <1>a, <1>b DEF TypeOK, OwnInv
<1>3. ContextInv'
  BY <1>0, <1>a, <1>b DEF TypeOK, ContextInv, InKernel
<1>4. LockInv'
  BY <1>0, <1>a, <1>b DEF TypeOK, OwnInv, LockInv, InSwitch
<1>5. StatusInv'
  BY <1>0, <1>a, <1>b DEF TypeOK, StatusInv
<1>6. IntrInv'
  <2>1. IntrOf(c)'
    BY <1>0, <1>a, <1>b DEF TypeOK, IntrInv, IntrOf
  <2>2. on[c] # NoThread /\ pc'[on[c]] = "resumed" => saved'[on[c]] = in_syscall'[on[c]]
    BY <1>0, <1>a, <1>b DEF TypeOK, IntrInv
  <2>. QED BY <1>0, <1>b, <2>1, <2>2, IntrStep DEF TypeOK
<1>. QED BY <1>1, <1>2, <1>3, <1>4, <1>5, <1>6 DEF IInv

\* usertrapret is reached with interrupts off.
LEMMA Step_intr_off ==
    ASSUME IInv, NEW c \in CPU, intr_off(c)
    PROVE  IInv'
<1>0. TypeOK /\ ~panic /\ OwnInv /\ ContextInv /\ LockInv /\ StatusInv /\ IntrInv
  BY DEF IInv, NoPanic
<1>a. /\ on[c] \in Thread /\ fetched[c] = on[c] /\ proc[c] = on[c]
      /\ pc[on[c]] = "intr_off"
  BY <1>0 DEF intr_off, At, TypeOK, OwnInv
<1>b. /\ sie' = [sie EXCEPT ![c] = FALSE]
      /\ in_syscall' = [in_syscall EXCEPT ![on[c]] = FALSE]
      /\ pc' = [pc EXCEPT ![on[c]] = "usertrapret"]
      /\ UNCHANGED <<tp, stvec, on, proc, noff, interrupt_on, status, plock,
                     kernel_hartid, saved, cpc, fetched, panic>>
  BY <1>0, <1>a DEF intr_off, Goto, structVars
<1>1. NoPanic'
  BY <1>0, <1>a, <1>b DEF TypeOK, ThreadPC, NoPanic
<1>2. OwnInv'
  BY <1>0, <1>a, <1>b DEF TypeOK, OwnInv
<1>3. ContextInv'
  BY <1>0, <1>a, <1>b DEF TypeOK, ContextInv, InKernel
<1>4. LockInv'
  BY <1>0, <1>a, <1>b DEF TypeOK, LockInv, InSwitch
<1>5. StatusInv'
  BY <1>0, <1>a, <1>b DEF TypeOK, StatusInv
<1>6. IntrInv'
  <2>1. IntrOf(c)'
    BY <1>0, <1>a, <1>b DEF TypeOK, IntrInv, IntrOf
  <2>2. on[c] # NoThread /\ pc'[on[c]] = "resumed" => saved'[on[c]] = in_syscall'[on[c]]
    BY <1>0, <1>a, <1>b DEF TypeOK, IntrInv
  <2>. QED BY <1>0, <1>b, <2>1, <2>2, IntrStep DEF TypeOK
<1>. QED BY <1>1, <1>2, <1>3, <1>4, <1>5, <1>6 DEF IInv

\* A trap that is no system call ends with interrupts still off.
LEMMA Step_usertrap_end ==
    ASSUME IInv, NEW c \in CPU, usertrap_end(c)
    PROVE  IInv'
<1>0. TypeOK /\ ~panic /\ OwnInv /\ ContextInv /\ LockInv /\ StatusInv /\ IntrInv
  BY DEF IInv, NoPanic
<1>a. /\ on[c] \in Thread /\ fetched[c] = on[c] /\ proc[c] = on[c]
      /\ pc[on[c]] = "kernel"
  BY <1>0 DEF usertrap_end, At, TypeOK, OwnInv
<1>b. /\ pc' = [pc EXCEPT ![on[c]] = IF in_syscall[on[c]] THEN "intr_off" ELSE "usertrapret"]
      /\ UNCHANGED <<tp, sie, stvec, on, proc, noff, interrupt_on, status, plock,
                     kernel_hartid, saved, in_syscall, cpc, fetched, panic>>
  BY <1>0, <1>a DEF usertrap_end, Goto, cpuVars, structVars
<1>1. NoPanic'
  BY <1>0, <1>a, <1>b DEF TypeOK, ThreadPC, NoPanic
<1>2. OwnInv'
  BY <1>0, <1>a, <1>b DEF TypeOK, OwnInv
<1>3. ContextInv'
  BY <1>0, <1>a, <1>b DEF TypeOK, ContextInv, InKernel
<1>4. LockInv'
  BY <1>0, <1>a, <1>b DEF TypeOK, LockInv, InSwitch
<1>5. StatusInv'
  BY <1>0, <1>a, <1>b DEF TypeOK, StatusInv
<1>6. IntrInv'
  <2>1. IntrOf(c)'
    BY <1>0, <1>a, <1>b DEF TypeOK, IntrInv, IntrOf
  <2>2. on[c] # NoThread /\ pc'[on[c]] = "resumed" => saved'[on[c]] = in_syscall'[on[c]]
    BY <1>0, <1>a, <1>b DEF TypeOK, IntrInv
  <2>. QED BY <1>0, <1>b, <2>1, <2>2, IntrStep DEF TypeOK
<1>. QED BY <1>1, <1>2, <1>3, <1>4, <1>5, <1>6 DEF IInv

\* The hart that goes to user mode is recorded in the trapframe of the process on it.
LEMMA Step_usertrapret ==
    ASSUME IInv, NEW c \in CPU, NEW u \in CPU, usertrapret(c, u)
    PROVE  IInv'
<1>0. TypeOK /\ ~panic /\ OwnInv /\ ContextInv /\ LockInv /\ StatusInv /\ IntrInv
  BY DEF IInv, NoPanic
<1>a. /\ on[c] \in Thread /\ fetched[c] = on[c] /\ proc[c] = on[c]
      /\ pc[on[c]] = "usertrapret" /\ tp[c] = c /\ ~sie[c]
  BY <1>0 DEF usertrapret, At, TypeOK, OwnInv, ContextInv, InKernel, IntrInv, IntrOf
<1>b. /\ kernel_hartid' = [kernel_hartid EXCEPT ![on[c]] = c]
      /\ stvec' = [stvec EXCEPT ![c] = "user"]
      /\ tp' = [tp EXCEPT ![c] = u]
      /\ sie' = [sie EXCEPT ![c] = TRUE]
      /\ pc' = [pc EXCEPT ![on[c]] = "user"]
      /\ panic' = FALSE
      /\ UNCHANGED <<on, proc, noff, interrupt_on, status, plock, saved, in_syscall,
                     cpc, fetched>>
  BY <1>0, <1>a DEF usertrapret, userret, Goto, mycpu, curr_proc, structVars
<1>1. NoPanic'
  BY <1>0, <1>a, <1>b DEF TypeOK, ThreadPC, NoPanic
<1>2. OwnInv'
  BY <1>0, <1>a, <1>b DEF TypeOK, OwnInv
<1>3. ContextInv'
  BY <1>0, <1>a, <1>b, ThreadAssumption DEF TypeOK, OwnInv, ContextInv, InKernel
<1>4. LockInv'
  BY <1>0, <1>a, <1>b DEF TypeOK, LockInv, InSwitch
<1>5. StatusInv'
  BY <1>0, <1>a, <1>b DEF TypeOK, StatusInv
<1>6. IntrInv'
  <2>1. IntrOf(c)'
    BY <1>0, <1>a, <1>b DEF TypeOK, IntrInv, IntrOf
  <2>2. on[c] # NoThread /\ pc'[on[c]] = "resumed" => saved'[on[c]] = in_syscall'[on[c]]
    BY <1>0, <1>a, <1>b DEF TypeOK, IntrInv
  <2>. QED BY <1>0, <1>b, <2>1, <2>2, IntrStep DEF TypeOK
<1>. QED BY <1>1, <1>2, <1>3, <1>4, <1>5, <1>6 DEF IInv

\* uservec restores this hart's number, because the thread cannot move in user mode.
LEMMA Step_usertrap ==
    ASSUME IInv, NEW c \in CPU, NEW ecall \in BOOLEAN, usertrap(c, ecall)
    PROVE  IInv'
<1>0. TypeOK /\ ~panic /\ OwnInv /\ ContextInv /\ LockInv /\ StatusInv /\ IntrInv
  BY DEF IInv, NoPanic
<1>a. /\ on[c] \in Thread /\ fetched[c] = on[c] /\ proc[c] = on[c]
      /\ pc[on[c]] = "user" /\ kernel_hartid[on[c]] = c
  BY <1>0 DEF usertrap, At, TypeOK, OwnInv, ContextInv, InKernel
<1>b. /\ tp' = [tp EXCEPT ![c] = c]
      /\ stvec' = [stvec EXCEPT ![c] = "kernel"]
      /\ sie' = [sie EXCEPT ![c] = ecall]
      /\ in_syscall' = [in_syscall EXCEPT ![on[c]] = ecall]
      /\ pc' = [pc EXCEPT ![on[c]] = "kernel"]
      /\ UNCHANGED <<on, proc, noff, interrupt_on, status, plock, kernel_hartid,
                     saved, cpc, fetched, panic>>
  BY <1>0, <1>a DEF usertrap, uservec, Goto, structVars
<1>1. NoPanic'
  BY <1>0, <1>a, <1>b DEF TypeOK, ThreadPC, NoPanic
<1>2. OwnInv'
  BY <1>0, <1>a, <1>b DEF TypeOK, OwnInv
<1>3. ContextInv'
  BY <1>0, <1>a, <1>b DEF TypeOK, ContextInv, InKernel
<1>4. LockInv'
  BY <1>0, <1>a, <1>b DEF TypeOK, LockInv, InSwitch
<1>5. StatusInv'
  BY <1>0, <1>a, <1>b DEF TypeOK, StatusInv
<1>6. IntrInv'
  <2>1. IntrOf(c)'
    BY <1>0, <1>a, <1>b DEF TypeOK, IntrInv, IntrOf
  <2>2. on[c] # NoThread /\ pc'[on[c]] = "resumed" => saved'[on[c]] = in_syscall'[on[c]]
    BY <1>0, <1>a, <1>b DEF TypeOK, IntrInv
  <2>. QED BY <1>0, <1>b, <2>1, <2>2, IntrStep DEF TypeOK
<1>. QED BY <1>1, <1>2, <1>3, <1>4, <1>5, <1>6 DEF IInv

\* The outermost push_off records what the thread ran with.
LEMMA Step_yield ==
    ASSUME IInv, NEW c \in CPU, yield(c)
    PROVE  IInv'
<1>0. TypeOK /\ ~panic /\ OwnInv /\ ContextInv /\ LockInv /\ StatusInv /\ IntrInv
  BY DEF IInv, NoPanic
<1>a. /\ on[c] \in Thread /\ fetched[c] = on[c] /\ proc[c] = on[c]
      /\ pc[on[c]] = "kernel" /\ tp[c] = c
  BY <1>0 DEF yield, At, TypeOK, OwnInv, ContextInv, InKernel
<1>c. noff[c] = 0 /\ sie[c] = in_syscall[on[c]]
  <2>1. noff[c] = 0
    BY <1>0, <1>a DEF LockInv, InSwitch
  <2>. QED BY <1>0, <1>a, <2>1, ThreadAssumption DEF IntrInv, IntrOf
<1>b. /\ plock' = [plock EXCEPT ![on[c]] = c]
      /\ noff' = [noff EXCEPT ![c] = 1]
      /\ interrupt_on' = [interrupt_on EXCEPT ![c] = sie[c]]
      /\ sie' = [sie EXCEPT ![c] = FALSE]
      /\ status' = [status EXCEPT ![on[c]] = "queued"]
      /\ pc' = [pc EXCEPT ![on[c]] = "sched"]
      /\ UNCHANGED <<tp, stvec, on, proc, kernel_hartid, saved, in_syscall, cpc,
                     fetched, panic>>
  BY <1>0, <1>a, <1>c DEF yield, acquire, push_off, Goto, mycpu, curr_proc, TypeOK
<1>1. NoPanic'
  BY <1>0, <1>a, <1>b, <1>c DEF TypeOK, ThreadPC, NoPanic
<1>2. OwnInv'
  BY <1>0, <1>a, <1>b, <1>c DEF TypeOK, OwnInv
<1>3. ContextInv'
  BY <1>0, <1>a, <1>b, <1>c DEF TypeOK, ContextInv, InKernel
<1>4. LockInv'
  BY <1>0, <1>a, <1>b, <1>c, ThreadAssumption DEF TypeOK, OwnInv, LockInv, InSwitch
<1>5. StatusInv'
  BY <1>0, <1>a, <1>b, <1>c DEF TypeOK, OwnInv, StatusInv
<1>6. IntrInv'
  <2>1. IntrOf(c)'
    BY <1>0, <1>a, <1>b, <1>c DEF TypeOK, IntrInv, IntrOf
  <2>2. on[c] # NoThread /\ pc'[on[c]] = "resumed" => saved'[on[c]] = in_syscall'[on[c]]
    BY <1>0, <1>a, <1>b DEF TypeOK, IntrInv
  <2>. QED BY <1>0, <1>b, <2>1, <2>2, IntrStep DEF TypeOK
<1>. QED BY <1>1, <1>2, <1>3, <1>4, <1>5, <1>6 DEF IInv

\* As in yield.
LEMMA Step_sleep ==
    ASSUME IInv, NEW c \in CPU, sleep(c)
    PROVE  IInv'
<1>0. TypeOK /\ ~panic /\ OwnInv /\ ContextInv /\ LockInv /\ StatusInv /\ IntrInv
  BY DEF IInv, NoPanic
<1>a. /\ on[c] \in Thread /\ fetched[c] = on[c] /\ proc[c] = on[c]
      /\ pc[on[c]] = "kernel" /\ tp[c] = c
  BY <1>0 DEF sleep, At, TypeOK, OwnInv, ContextInv, InKernel
<1>c. noff[c] = 0 /\ sie[c] = in_syscall[on[c]]
  <2>1. noff[c] = 0
    BY <1>0, <1>a DEF LockInv, InSwitch
  <2>. QED BY <1>0, <1>a, <2>1, ThreadAssumption DEF IntrInv, IntrOf
<1>b. /\ plock' = [plock EXCEPT ![on[c]] = c]
      /\ noff' = [noff EXCEPT ![c] = 1]
      /\ interrupt_on' = [interrupt_on EXCEPT ![c] = sie[c]]
      /\ sie' = [sie EXCEPT ![c] = FALSE]
      /\ status' = [status EXCEPT ![on[c]] = "asleep"]
      /\ pc' = [pc EXCEPT ![on[c]] = "sched"]
      /\ UNCHANGED <<tp, stvec, on, proc, kernel_hartid, saved, in_syscall, cpc,
                     fetched, panic>>
  BY <1>0, <1>a, <1>c DEF sleep, acquire, push_off, Goto, mycpu, curr_proc, TypeOK
<1>1. NoPanic'
  BY <1>0, <1>a, <1>b, <1>c DEF TypeOK, ThreadPC, NoPanic
<1>2. OwnInv'
  BY <1>0, <1>a, <1>b, <1>c DEF TypeOK, OwnInv
<1>3. ContextInv'
  BY <1>0, <1>a, <1>b, <1>c DEF TypeOK, ContextInv, InKernel
<1>4. LockInv'
  BY <1>0, <1>a, <1>b, <1>c, ThreadAssumption DEF TypeOK, OwnInv, LockInv, InSwitch
<1>5. StatusInv'
  BY <1>0, <1>a, <1>b, <1>c DEF TypeOK, OwnInv, StatusInv
<1>6. IntrInv'
  <2>1. IntrOf(c)'
    BY <1>0, <1>a, <1>b, <1>c DEF TypeOK, IntrInv, IntrOf
  <2>2. on[c] # NoThread /\ pc'[on[c]] = "resumed" => saved'[on[c]] = in_syscall'[on[c]]
    BY <1>0, <1>a, <1>b DEF TypeOK, IntrInv
  <2>. QED BY <1>0, <1>b, <2>1, <2>2, IntrStep DEF TypeOK
<1>. QED BY <1>1, <1>2, <1>3, <1>4, <1>5, <1>6 DEF IInv

\* The checks of sched() hold, and the thread takes its interrupt state with it.
LEMMA Step_sched ==
    ASSUME IInv, NEW c \in CPU, sched(c)
    PROVE  IInv'
<1>0. TypeOK /\ ~panic /\ OwnInv /\ ContextInv /\ LockInv /\ StatusInv /\ IntrInv
  BY DEF IInv, NoPanic
<1>a. /\ on[c] \in Thread /\ fetched[c] = on[c] /\ proc[c] = on[c]
      /\ pc[on[c]] = "sched" /\ tp[c] = c /\ plock[on[c]] = c /\ noff[c] = 1
      /\ ~sie[c] /\ status[on[c]] # "running"
      /\ interrupt_on[c] = in_syscall[on[c]]
  BY <1>0 DEF sched, At, TypeOK, OwnInv, ContextInv, InKernel, LockInv, InSwitch, StatusInv,
     IntrInv, IntrOf
<1>b. /\ saved' = [saved EXCEPT ![on[c]] = interrupt_on[c]]
      /\ on' = [on EXCEPT ![c] = NoThread]
      /\ pc' = [pc EXCEPT ![on[c]] = "resumed"]
      /\ UNCHANGED <<tp, sie, stvec, proc, noff, interrupt_on, status, plock,
                     kernel_hartid, in_syscall, cpc, fetched, panic>>
  BY <1>0, <1>a DEF sched, swtch, Goto, mycpu, curr_proc, structVars
<1>1. NoPanic'
  BY <1>0, <1>a, <1>b DEF TypeOK, ThreadPC, NoPanic
<1>2. OwnInv'
  BY <1>0, <1>a, <1>b DEF TypeOK, OwnInv
<1>3. ContextInv'
  BY <1>0, <1>a, <1>b DEF TypeOK, ContextInv, InKernel
<1>4. LockInv'
  BY <1>0, <1>a, <1>b DEF TypeOK, LockInv, InSwitch
<1>5. StatusInv'
  BY <1>0, <1>a, <1>b DEF TypeOK, OwnInv, StatusInv
<1>6. IntrInv'
  <2>1. IntrOf(c)'
    BY <1>0, <1>a, <1>b DEF TypeOK, IntrInv, IntrOf
  <2>2. on[c] # NoThread /\ pc'[on[c]] = "resumed" => saved'[on[c]] = in_syscall'[on[c]]
    BY <1>0, <1>a, <1>b DEF TypeOK, IntrInv
  <2>. QED BY <1>0, <1>b, <2>1, <2>2, IntrStep DEF TypeOK
<1>. QED BY <1>1, <1>2, <1>3, <1>4, <1>5, <1>6 DEF IInv

\* The thread puts its interrupt state into the structure of the hart it woke up on.
LEMMA Step_sched_resumed ==
    ASSUME IInv, NEW c \in CPU, sched_resumed(c)
    PROVE  IInv'
<1>0. TypeOK /\ ~panic /\ OwnInv /\ ContextInv /\ LockInv /\ StatusInv /\ IntrInv
  BY DEF IInv, NoPanic
<1>a. /\ on[c] \in Thread /\ fetched[c] = on[c] /\ proc[c] = on[c]
      /\ pc[on[c]] = "resumed" /\ tp[c] = c /\ plock[on[c]] = c
  BY <1>0 DEF sched_resumed, At, TypeOK, OwnInv, ContextInv, InKernel, LockInv, InSwitch
<1>b. /\ interrupt_on' = [interrupt_on EXCEPT ![c] = saved[on[c]]]
      /\ pc' = [pc EXCEPT ![on[c]] = "release"]
      /\ panic' = FALSE
      /\ UNCHANGED <<tp, sie, stvec, on, proc, noff, status, plock, kernel_hartid,
                     saved, in_syscall, cpc, fetched>>
  BY <1>0, <1>a DEF sched_resumed, assert, Goto, mycpu, curr_proc, cpuVars
<1>1. NoPanic'
  BY <1>0, <1>a, <1>b DEF TypeOK, ThreadPC, NoPanic
<1>2. OwnInv'
  BY <1>0, <1>a, <1>b DEF TypeOK, OwnInv
<1>3. ContextInv'
  BY <1>0, <1>a, <1>b DEF TypeOK, ContextInv, InKernel
<1>4. LockInv'
  BY <1>0, <1>a, <1>b DEF TypeOK, LockInv, InSwitch
<1>5. StatusInv'
  BY <1>0, <1>a, <1>b DEF TypeOK, StatusInv
<1>6. IntrInv'
  <2>1. IntrOf(c)'
    BY <1>0, <1>a, <1>b DEF TypeOK, IntrInv, IntrOf
  <2>2. on[c] # NoThread /\ pc'[on[c]] = "resumed" => saved'[on[c]] = in_syscall'[on[c]]
    BY <1>0, <1>a, <1>b DEF TypeOK, IntrInv
  <2>. QED BY <1>0, <1>b, <2>1, <2>2, IntrStep DEF TypeOK
<1>. QED BY <1>1, <1>2, <1>3, <1>4, <1>5, <1>6 DEF IInv

\* release() turns interrupts on again for a system call and for nothing else.
LEMMA Step_sched_release ==
    ASSUME IInv, NEW c \in CPU, sched_release(c)
    PROVE  IInv'
<1>0. TypeOK /\ ~panic /\ OwnInv /\ ContextInv /\ LockInv /\ StatusInv /\ IntrInv
  BY DEF IInv, NoPanic
<1>a. /\ on[c] \in Thread /\ fetched[c] = on[c] /\ proc[c] = on[c]
      /\ pc[on[c]] = "release" /\ tp[c] = c /\ plock[on[c]] = c /\ noff[c] = 1
      /\ ~sie[c] /\ interrupt_on[c] = in_syscall[on[c]]
  BY <1>0 DEF sched_release, At, TypeOK, OwnInv, ContextInv, InKernel, LockInv, InSwitch,
     IntrInv, IntrOf
<1>b. /\ plock' = [plock EXCEPT ![on[c]] = NoCpu]
      /\ noff' = [noff EXCEPT ![c] = 0]
      /\ sie' = [sie EXCEPT ![c] = interrupt_on[c]]
      /\ panic' = FALSE
      /\ pc' = [pc EXCEPT ![on[c]] = "kernel"]
      /\ UNCHANGED <<tp, stvec, on, proc, interrupt_on, status, kernel_hartid, saved,
                     in_syscall, cpc, fetched>>
  <2>1. sie' = [sie EXCEPT ![c] = interrupt_on[c]]
    BY <1>0, <1>a DEF sched_release, release, mycpu, TypeOK
  <2>. QED BY <1>0, <1>a, <2>1 DEF sched_release, release, assert, Goto, mycpu, curr_proc,
              TypeOK
<1>1. NoPanic'
  BY <1>0, <1>a, <1>b DEF TypeOK, ThreadPC, NoPanic
<1>2. OwnInv'
  BY <1>0, <1>a, <1>b DEF TypeOK, OwnInv
<1>3. ContextInv'
  BY <1>0, <1>a, <1>b DEF TypeOK, ContextInv, InKernel
<1>4. LockInv'
  BY <1>0, <1>a, <1>b DEF TypeOK, OwnInv, LockInv, InSwitch
<1>5. StatusInv'
  BY <1>0, <1>a, <1>b DEF TypeOK, StatusInv
<1>6. IntrInv'
  <2>1. IntrOf(c)'
    BY <1>0, <1>a, <1>b DEF TypeOK, IntrInv, IntrOf
  <2>2. on[c] # NoThread /\ pc'[on[c]] = "resumed" => saved'[on[c]] = in_syscall'[on[c]]
    BY <1>0, <1>a, <1>b DEF TypeOK, IntrInv
  <2>. QED BY <1>0, <1>b, <2>1, <2>2, IntrStep DEF TypeOK
<1>. QED BY <1>1, <1>2, <1>3, <1>4, <1>5, <1>6 DEF IInv

\* A sleeping thread whose lock is free is on no hart: queueing it moves nobody.
LEMMA Step_wakeup ==
    ASSUME IInv, NEW t \in Thread, wakeup(t)
    PROVE  IInv'
<1>0. TypeOK /\ ~panic /\ OwnInv /\ ContextInv /\ LockInv /\ StatusInv /\ IntrInv
  BY DEF IInv, NoPanic
<1>a. ASSUME NEW d \in CPU, fetched[d] = t
      PROVE  FALSE
  <2>1. ~InSwitch(d)
    BY <1>0, <1>a, CPUAssumption DEF wakeup, LockInv
  <2>2. status[t] = "running"
    BY <1>0, <1>a, <2>1, ThreadAssumption DEF StatusInv, InSwitch
  <2>. QED BY <2>2 DEF wakeup
<1>b. /\ status' = [status EXCEPT ![t] = "queued"]
      /\ UNCHANGED <<tp, sie, stvec, on, proc, noff, interrupt_on, plock, kernel_hartid,
                     saved, in_syscall, pc, cpc, fetched, panic>>
  BY DEF wakeup, cpuVars, structVars
<1>1. NoPanic'
  BY <1>0, <1>b DEF TypeOK, NoPanic
<1>2. OwnInv' /\ ContextInv' /\ LockInv'
  BY <1>0, <1>b DEF OwnInv, ContextInv, InKernel, LockInv, InSwitch
<1>3. StatusInv'
  BY <1>0, <1>a, <1>b DEF TypeOK, StatusInv
<1>4. IntrInv'
  BY <1>0, <1>b DEF IntrInv, IntrOf
<1>. QED BY <1>1, <1>2, <1>3, <1>4 DEF IInv

\* A new system satisfies the invariant: no hart owns a thread and every thread waits
\* at first_sched_ret.
LEMMA InitIInv == Init => IInv
<1>. SUFFICES ASSUME Init PROVE IInv
  OBVIOUS
<1>1. NoPanic
  BY DEF Init, NoPanic, TypeOK, ThreadPC
<1>2. OwnInv /\ ContextInv /\ StatusInv
  BY DEF Init, OwnInv, ContextInv, InKernel, StatusInv
<1>3. LockInv
  BY DEF Init, LockInv, InSwitch
<1>4. IntrInv
  BY DEF Init, IntrInv, IntrOf
<1>. QED BY <1>1, <1>2, <1>3, <1>4 DEF IInv

\* Every step of a hart or of wakeup keeps the invariant.
LEMMA NextIInv == IInv /\ [Next]_vars => IInv'
<1>. SUFFICES ASSUME IInv, [Next]_vars PROVE IInv'
  OBVIOUS
<1>1. CASE UNCHANGED vars
  BY <1>1 DEF IInv, NoPanic, TypeOK, OwnInv, ContextInv, InKernel, LockInv, InSwitch,
     StatusInv, IntrInv, IntrOf, vars, cpuVars, structVars, threadVars
<1>2. ASSUME NEW c \in CPU, NEW t \in Thread, dispatch(c, t)
      PROVE  IInv'
  BY <1>2, Step_dispatch
<1>3. ASSUME NEW c \in CPU, wfi_begin(c) \/ wfi_end(c) \/ switch_back(c)
      PROVE  IInv'
  BY <1>3, Step_wfi_begin, Step_wfi_end, Step_switch_back
<1>4. ASSUME NEW t \in Thread, wakeup(t)
      PROVE  IInv'
  BY <1>4, Step_wakeup
<1>5. ASSUME NEW c \in CPU, first_sched_ret(c) \/ intr_off(c) \/ usertrap_end(c)
      PROVE  IInv'
  BY <1>5, Step_first_sched_ret, Step_intr_off, Step_usertrap_end
<1>6. ASSUME NEW c \in CPU, NEW u \in CPU, usertrapret(c, u)
      PROVE  IInv'
  BY <1>6, Step_usertrapret
<1>7. ASSUME NEW c \in CPU, NEW ecall \in BOOLEAN, usertrap(c, ecall)
      PROVE  IInv'
  BY <1>7, Step_usertrap
<1>8. ASSUME NEW c \in CPU, yield(c) \/ sleep(c) \/ sched(c)
      PROVE  IInv'
  BY <1>8, Step_yield, Step_sleep, Step_sched
<1>9. ASSUME NEW c \in CPU, sched_resumed(c) \/ sched_release(c)
      PROVE  IInv'
  BY <1>9, Step_sched_resumed, Step_sched_release
<1>. QED BY <1>1, <1>2, <1>3, <1>4, <1>5, <1>6, <1>7, <1>8, <1>9 DEF Next

\* The inductive invariant holds in every reachable state of the traps and switches of
\* trap.c, trampoline.S, sched.c and switch.S.
THEOREM Invariant == Spec => []IInv
BY InitIInv, NextIInv, PTL DEF Spec

\* Whatever user code leaves in tp and however often sched() moves a thread, the
\* kernel runs with the structure of its own hart, the process whose stack it is on,
\* and the kernel's trap vector.
THEOREM ContextCorrect == Spec => []KernelContext
<1>1. IInv => KernelContext
  BY DEF IInv, OwnInv, ContextInv, KernelContext, mycpu, curr_proc
<1>. QED BY <1>1, Invariant, PTL

\* The interrupt state that push_off leaves in struct cpu, and that sched() carries
\* over the switch, is always the one of the thread that runs: system calls run with
\* interrupts on, other traps with interrupts off.
THEOREM InterruptsCorrect == Spec => []InterruptsFollowThread
<1>1. ASSUME IInv PROVE InterruptsFollowThread
  <2>. SUFFICES ASSUME NEW c \in CPU, on[c] # NoThread, pc[on[c]] = "kernel"
                PROVE  sie[c] = in_syscall[on[c]] /\ noff[c] = 0
    BY DEF InterruptsFollowThread
  <2>1. sie[c] = in_syscall[on[c]]
    BY <1>1 DEF IInv, IntrInv, IntrOf
  <2>2. noff[c] = 0
    BY <1>1 DEF IInv, LockInv, InSwitch
  <2>. QED BY <2>1, <2>2
<1>. QED BY <1>1, Invariant, PTL

\* None of the assertions of scheduler, sched, release, pop_off and usertrapret fails.
THEOREM PanicFree == Spec => []NoPanic
<1>1. IInv => NoPanic
  BY DEF IInv
<1>. QED BY <1>1, Invariant, PTL

\* No two harts are ever on one kernel stack.
THEOREM StackExclusive == Spec => []OneHartPerStack
<1>1. IInv => OneHartPerStack
  BY DEF IInv, OwnInv, OneHartPerStack
<1>. QED BY <1>1, Invariant, PTL
====
