# A TLA+ model of uCore-VisionFive2

uCore-VisionFive2 is a small SMP kernel for RISC-V boards: it boots several harts,
runs user programs as processes with their own page tables, switches between them
on timer ticks, and offers a dozen system calls. This directory holds TLA+ modules
that model its concurrent core, its memory and its SD card driver, the TLC
configurations that check them on small instances, and proofs for any number of CPUs,
locks, harts, processes and pages.

All paths below are relative to the repository (`os/...`). `PROJECT.json` maps every
definition to the lines it stands for.

## 1. Inventory

| Part | State it keeps | Operations | What makes it correct |
|---|---|---|---|
| spinlocks, `os/lock.c` | `locked`, `cpu` of a lock; `noff`, `interrupt_on` of a CPU | `acquire`, `release`, `holding`, `push_off`, `pop_off` | mutual exclusion; no false panic from the unlocked reads of `holding`; interrupts off inside and restored outside; progress |
| kernel interrupts, `os/trap.c` (`kernel_trap`) | `inkernel_trap`, SIE | timer tick, UART interrupt while the kernel runs | never nested; never inside a critical section of the interrupted thread |
| crossing and switching, `os/trap.c`, `os/trampoline.S`, `os/switch.S`, `sched()` | `tp`, SIE, `stvec`, `kernel_hartid`, `interrupt_on` | `uservec`, `usertrap`, `sched`, `swtch`, `first_sched_ret`, `usertrapret`, `userret` | the kernel is always on its own hart's `struct cpu`, with the thread's own interrupt state, and on a stack no other hart uses |
| task queue, `os/queue.c` | `front`, `tail`, `empty`, `data` | `push_queue`, `pop_queue` | it is a FIFO queue and cannot overflow |
| processes, `os/proc.c`, `os/sched.c` | the pool (`state`, `pid`, `parent`, `sleep_chan`), `wait_lock`, one lock per process | `scheduler`, `yield`, `fork`, `exec`, `wait`, `sleep`, `wakeup`, `exit`, `getppid` | a process is in one place; no lost wakeup; a stack is not reused early; no deadlock; every queued process runs |
| console input, `os/console.c` | ring `buf` with `r`, `w`, `e` | `consintr` (UART interrupt), `user_console_read` | lines are delivered in order, editing cannot touch a committed line, no reader sleeps past a line |
| SMP boot, `os/main.c`, `os/entry.S` | `booted_count`, `halt_specific_init`, boot stack, temporary page table | `bootcpu_init`, `secondarycpu_*` | one hart at a time on the boot stack; the temporary table outlives its users; everybody reaches the scheduler |
| page and object allocators, `os/kalloc.c` | free list; bitmaps and counts | `kallocpage`, `kfreepage`, `kalloc`, `kfree`, `allocator_init` | no page and no object has two owners or none; failure is reported |
| user address spaces, `os/vm.c` | page tables, VMA lists | `mm_create`, `mm_mappages`, `mm_mappagesat`, `mm_copy`, `mm_free_pages`, `mm_free` | every page is owned once and given back |
| user memory access, `os/uaccess.c`, page faults in `os/trap.c` | A and D bits | `copy_to_user`, `copy_from_user`, `copystr_from_user`, `sys_wait`'s pointer | the bytes copied are those of the range, or an error; an access that is allowed ends |
| loader, `os/loader.c` | none | `load_user_elf`, `get_elf` | memory holds the image the ELF file describes and nothing of an earlier owner |
| kernel page table, `os/kvm.c`, relocation in `os/main.c` | the temporary and the final table, setup pages | `bootcpu_start_relocation`, `kvm_init`, `kvmmap` | every hart finds code, data and stack through the table it uses; exactly what is asked for is mapped; setup pages are not given out again |
| SD card driver, `os/drivers/dw_mmc.c` | `struct dwmci_host`, controller registers | `dwmci_init`, `dwmci_set_ios`, `dwmci_send_cmd`, `dwmci_execute_tuning` | success means that all the data moved; every call ends; the clock is what is recorded |
| devices: PLIC, timer, SBI | hardware | register accesses | |
| output and debugging, `string.c` | none | formatting, `memmove` | |

How the parts interact. Everything shared is protected by spinlocks, except what the
hazards list names. A kernel thread leaves its CPU only in `sched()`, with its own
`p->lock` held and no other; the scheduler on the other side of `swtch` releases it.
`p->lock` is therefore acquired by one context and released by another, once in each
direction. Interrupts arrive in user code (where a tick means `yield`) or in kernel
code outside critical sections (where it means nothing, and a UART interrupt runs
`consintr`). Processes meet in `sleep`/`wakeup`: `wait`/`exit` on the parent,
`read`/`consintr` on `&cons`.

What is hard here: the order of locks around `sleep` and `sched`, values in
`struct cpu` that belong to a thread which may change harts, reads without a lock
(`holding`, `getppid`, `fork`'s `np->pid`), a bounded queue in which full and empty
look alike, unsigned indices that wrap, boot-time structures that are reused or
destroyed while other harts may still need them, memory that runs out half way, and a
controller that changes its status bits between the driver's reads. `PROJECT.json` lists these as
hazards, each at its line, with the properties aimed at it.

## 2. Modules

```
AbstractLock <--(refines)-- Spinlock     <-- SpinlockProofs
FIFO         <--(refines)-- TaskQueue    <-- ProcProofs (of TaskQueue and Proc)
LineDiscipline <-(refines)- Console      <-- ConsoleProofs
                            KernelThread <-- KernelThreadProofs
ProcPool --(extends)------> Proc         <-- ProcProofs
   |-----(extends)--------> TaskQueue
BootMap --(extends)-------> Boot         <-- BootProofs (of Boot and BootMap)
   |-----(instance)-------> KernelMap
                            Memory       <-- MemoryProofs
                            UserMemory   <-- UserMemoryProofs
                            DwMmc        <-- DwMmcProofs
```

Each `MC*` module extends one of them with what only TLC needs (symmetry, small
sets). Definitions named `..._something` under a comment "Mutant of" are wrong
versions of the definition that follows them; they are not part of any
specification and document which mistake a property would notice.

**Spinlock.** Each CPU has two contexts, the thread and the trap handler on top of
it. `acquire` is six steps (`intr_get`, `push_off`, two reads of `holding`, the swap,
the store of `lk->cpu`), `release` is three. Callers are arbitrary: they nest locks in any
order, as `exit` does, which holds its own `p->lock` while it takes those before and after
it in the pool, and `fork`, which holds the child's while it takes the parent's. Only, a
context does not ask for a lock it holds, and handlers return holding nothing. Callers may
therefore deadlock here; that the kernel's do not is a property of the callers, and
`Proc` has it (`NoLockCycle`). Memory is sequentially consistent: the fences of `acquire` and
`release` give that to data under a lock; `holding` reads `lk->cpu` without one, but
a CPU only has to see its own stores there.

**TaskQueue.** The ring of `queue.c`, one step per operation (each is one critical
section). Callers push a process that is not queued; `Proc`, which has the queue as a
sequence, shows that they do (`InOnePlace`, and `QueueUse` for each step). The two share
`NPROC` (`ProcPool`): the ring has as many slots as the pool has processes.

**Proc.** `scheduler`, `yield`, `fork`, `exec`, `wait`, `sleep`, `wakeup`, `exit` and
`getppid`. A step is the code between two places where a lock may have to be waited
for; each iteration of a scan over the pool takes a lock and is a step. Leaf locks
(the queue's, `pid_lock`, `mm->lock`) are inside a step. The one lock outside this module that
nests with a `p->lock` is `cons.lock`: `user_console_read` and `consintr` hold it while
they take a `p->lock`, and nothing takes it under one, so that it adds no cycle. User code is an arbitrary
sequence of calls and ticks. Exit codes, memory and `p->killed` (never set) are left
out. Panics are program counter values, so that a property can exclude them.

**KernelThread.** The registers of a hart (`tp`, SIE, `stvec`, whose stack it is on)
are indexed by the hart; the fields of `struct cpu` by what `mycpu()` returns, which
is `tp`. User code loads any value into `tp`. Threads trap, make system calls, yield,
sleep and resume on any hart. A thread's general registers are taken to be saved and
restored correctly by the assembly.

**Console.** `consintr` under `cons.lock`, with each iteration of its `wakeup`;
`user_console_read` with `sleep` as three steps. Indices are unsigned numbers modulo
`W` (2^32 in the code), and so is `target`, a `uint` that `user_console_read` cuts from its
64-bit length; `n` stays whole, and negative when the length is 2^63 or more. Echo is left out. `LineDiscipline` is what it promises: a
committed part and a line that can still be edited. The handler of the UART is one at
a time, because the PLIC hands out a claim once.

**Boot.** From `bootcpu_init` on. The SBI starts or refuses each hart. `booted_count++`
is a load and a store, as in the code. A write of `satp` does not end the use of the table
that was there before: `tlb` holds the tables whose entries a hart may still have cached,
and only `sfence.vma` (in `kvm_init` and `secondarycpu_entry`; `secondarycpu_relocating`
has none) takes one out.

**KernelMap** and **BootMap.** What the boot hart does before and in between.
`KernelMap` has the page tables in memory as functions from index to entry:
`bootcpu_start_relocation` writes the temporary one, `kvmmake` and `kvmmap` build the
final one, one entry per step, and later `allocator_init` and `proc_init` add the object
pools and the kernel stacks. The addresses are those of `os/memlayout.h`, as page
numbers; the sizes of the linker's sections are a parameter. `BootMap` composes it with
`Boot`: the harts run once the table is there, `satp` of a hart names one of the tables
in memory, and the 0xde of `bootcpu_init` removes the temporary ones.

**Memory.** The free list and the object allocators of `kalloc.c` and the address spaces
of `vm.c`: the root table, the two levels of tables below it, the leaf entries, the list
of areas, and what each page contains (junk, or a page of a program). `allocproc`, `fork`,
`exec`, `exit` and `wait` build and tear down an address space one `kallocpage`,
`kfreepage` or `kalloc` at a time, and processes interleave between them. `NullPA` is what
`kallocpage` returns for an empty list: `walk` and `mm_create` convert it back to NULL and
notice, `mm_mappages` and `allocproc` compare it with zero and do not; the access that
follows is a fault in the kernel. Of the objects `struct mm` and `struct vma` the model
keeps the number allocated; `dropped` counts those that no pointer leads to any more. A
panic stops the model. `Proc` has the locks and the family relations; here any running
process may wait for any zombie. The order of the free list and permission bits are left
out. Programs and stacks lie below the trapframe and the trampoline (`LayoutAssumption`, as
`USTACK_START` and the linker scripts of the programs have it).

**UserMemory.** One process, byte by byte: pages of `P` bytes in physical pages that are
not neighbours. `load_user_elf` maps, copies and clears a program; then it calls `read`,
`write`, `exec` and `wait` (as copies of any length at any address) and loads, stores and
fetches at any address. `sys_wait` returns -1 without a store when there is no child, and
otherwise stores an `int` of `IntSize` bytes at the kernel's address of the pointer: bytes
that are neighbours in physical memory, since nobody looks whether they end in the page.
Whether the harts set the A and D bits or fault is open
(`hartSetsAD`), as the comment in `kvm.c` demands. The module assumes programs whose
segments begin on a page (`LayoutAssumption`): the loader copies from the first byte of
the page and gets any other wrong. It also assumes that each segment has a permission, since
`mm_mappages` asserts it.

**DwMmc.** The driver in FIFO mode. Every read of a status register is a step, and the
controller (external: what the driver's use of the registers implies of it) moves words,
raises bits, fails, or does nothing in between. Callers start operations one after the
other once `dwmci_init` has succeeded. `hist` records what really happened to the words
of a command. The file is compiled only with `DRIVER_DWMMC`.

## 3. Runs

| Run | Instance | What it shows |
|---|---|---|
| `spinlock` | 2 CPUs, 2 locks, nested in either order | `MutualExclusion`, `NoPanic`, `InterruptStateRestored`; `AcquireProgress` under weak fairness |
| `task_queue` | 4 slots, 4 processes | `NoOverflow`; refinement of `FIFO` at every fill level and rotation |
| `proc` | 2 CPUs, pool of 3, 5 pids | `NoPanic`, `InOnePlace`, `StackNotReused`, `ParentAlive`, `ForkedChildStays`, `NoLostWakeup`, `NoLockCycle` |
| `proc_live` | 2 CPUs, pool of 3, 3 pids | `QueuedRuns`, `ExitEnds`, and no deadlock |
| `proc_orphan` | 1 CPU, pool of 4 | *violation*: `EveryParentWoken`, see below |
| `kernel_thread` | 2 harts, 3 threads | `KernelContext`, `InterruptsFollowThread`, `NoPanic`, `OneHartPerStack` |
| `console` | ring of 2, indices and `uint` modulo 4, 2 readers, lengths 2 and 4 | `RingBounds`, `ReadCount`, `ShortReadEof`, `CommittedIsRead`; refinement of `LineDiscipline` |
| `boot` | 4 harts, boot hart 2, 4 images, 3 pools, 3 processes | `BootStackExclusive`, `SatpIntact`, `OwnCpu`, `HartsMapped`, `KernelTableExact`, `AllSchedule` |
| `memory` | 3 processes, 2 programs, 15 pages, 13 objects of each kind, tables of 2 entries | `PagesAccounted`, `ObjectsAccounted`, `ImageIntact`, until pages or objects are exhausted |
| `memory_oom` | as `memory`, 1 program | *violation*: `AllocprocComplete`, see below |
| `user_memory` | 5 pages of 3 bytes, copies up to 5 bytes, an `int` of 2, 2 calls | `LoadedExact`, `CopyExact`, `PermittedAccessCompletes` |
| `dwmmc` | FIFO of 2 words, transfers of 1 and 3, 4 calls | `SuccessMeansComplete`, `ClockAsRecorded`, `FirstCommandInits`, `EveryCallReturns` |

To repeat one: `tlc -config MCProc.cfg MCProc` in this directory.

**Why these bounds are enough to be interesting.** Two CPUs give every race between
two holders; three pool slots give init, a parent and a child, so that orphans, reuse
of a slot and a full queue all occur; five pids let slots be reused twice. In `proc`
pids are bounded (`MaxPid`: `fork` is not called once they are given out) and the
calls can be restricted (`Calls`) to keep the liveness runs small. Ring sizes are the
smallest at which wrap, full, empty and a partly committed line differ; `W` is twice
`N`, so that the wrap of the indices happens inside the ring's life, and a length of
`W` stands for those of 2^32 and more, which `target` cuts; the proofs have every length. Four harts, with
the boot hart in the middle, give harts before and after it and refusals in any
pattern; the images are a small one, one that ends on a boundary of 2 MiB, and two with
sections of more than 2 MiB, so that large and small pages and shared tables all occur.
Fifteen pages hold two processes and a part of the third (`init` needs seven:
the root, three tables, the trapframe, a program of one page and its stack), so that the memory runs out at every
step of `fork` and `exec`, and thirteen `vma` objects run out after a few exits, because
each exit loses two; tables of two entries (`T`, 512 in the code) are the smallest
in which an address has all three levels, and let some areas share tables and others
not. Copies of five bytes over pages of three cross two boundaries, and addresses up to a
page above `MAXVA` meet every error; an `int` of two bytes fits a page of three or passes its
end. A FIFO of two words and transfers of one and three
give a transfer below the watermark and one that does not fit; four calls are a reset,
a clock change and two commands, or two resets and a command; one retry per wait
(`MaxPolls`) gives success at once, success after a wait, and timeout. Processes and readers without distinguished names are symmetric where no
liveness is checked.

`CHECK_DEADLOCK FALSE` appears where the system really stops: in `MCSpinlock.cfg`, because
callers that take two locks in opposite orders stop; in `MCProc.cfg`, because
`fork` panics on an exhausted pool and then its CPU stops; in the `MCMemory`
configurations, because the kernel panics when it has no memory; in `MCBoot.cfg`, because boot
ends; in `MCUserMemory.cfg` and `MCDwMmc.cfg`, because the process exits or the
kernel panics, and because the calls are bounded (`MaxCalls`). `MCProcLive.cfg` has too
few pids to exhaust the pool and checks deadlock.

**Fairness.** `Spinlock`: weak fairness of each CPU's steps inside `acquire`, `release`
and traps (harts execute, critical sections are finite); nothing about who wins an
`amoswap`. `AcquireProgress` then says that some CPU gets a lock unless the callers hold
locks in a circle (`WaitCycle`): `acquire` itself adds no other way to wait for ever. `Proc`: strong fairness of each CPU's kernel steps, which says that a
spinning CPU gets a lock that becomes free again and again, which the hardware
arbitrates but does not promise; and strong fairness of the timer tick in user code,
which is what `QueuedRuns` rests on: `kernel_trap` drops ticks that hit the kernel, so
a program that managed always to be in the kernel when the tick comes would not be
preempted. User code owes nothing: no fairness on system calls. `Console`: weak
fairness of the interrupt handler, strong fairness of a reader's kernel steps, none of
typing. `Boot`: weak fairness of each hart. `UserMemory`: weak fairness of the kernel and
of the instruction that was begun. `DwMmc`: weak fairness of the driver's steps and none
of the controller: `EveryCallReturns` holds although the card may never answer.

## 4. Findings

* `proc_orphan`. `exit` wakes its own parent and afterwards hands its children to init.
  A child that is a ZOMBIE by then becomes a child of init without anybody waking
  init: if init sleeps in `wait`, it stays asleep with an exited child until another
  of its children exits. The comment in `exit` says that there is no race.
  `NoLostWakeup` states what does hold: every other parent is awake by then.
* `memory_oom`. `allocproc` says that it returns 0 when a memory allocation fails. It
  does not look at the result of `mm_mappagesat`: when the memory is exhausted during
  the walk for the trampoline and another process gives pages back before the trapframe
  is allocated, it returns a process without a trampoline.

`PagesAccounted` has a term for the tables that `mm_free` does not give back
(`leaked`): each exit loses the tables of its address space. It says that this is the
only loss. It also shows what is not wrong although it looks so: `kallocpage` returns a
non-zero value on failure and two callers test for zero, but the page that does not
exist never becomes part of a process that runs (`ImageIntact`). `ObjectsAccounted` has
a term for the `vma` objects of the trampoline and the trapframe, which are in no list and
which `freeproc` forgets: after some 8000 exits `kalloc` panics.

Two definitions state what comments of the code say and do not hold. They are in no
configuration; TLC refutes each within a minute when it is added to the one named.

* `EofMeansZero` (a PROPERTY, `MCConsole.cfg`). A `^D` behind other characters is saved "for
  next time, to make sure caller gets a 0-byte result". Whether there are other characters is
  decided by `n < target`, and `target` is a `uint`: for a length of 2^32 or more the test
  can be false, and the `^D` is consumed by the read that returns characters.
  `ShortReadEof` is what does hold.
* `TableInUseIntact` (an INVARIANT, `MCBoot.cfg`). The boot hart fills the temporary page tables
  with 0xde when every secondary hart has set `satp` to the table of the kernel.
  `secondarycpu_relocating` does this without `sfence.vma`, unlike the two other places, so a
  hart may go on translating through what it has cached of the temporary tables, non-leaf
  entries included, which lead to the bytes that have been overwritten. `SatpIntact` is what
  does hold: no hart has them in `satp`.

Met while modelling and stated in the definitions, without a run of their own:

* `sys_getppid` reads `parent` and `pid` without the lock that `os/proc.h` asks for; the
  parent may be freed, and its slot reused, between the two loads. The result is a wrong
  number.
* `sys_wait` passes `PA_TO_KVA(0)` for an address that is not mapped; the test for NULL in
  `wait` does not notice and the store faults in the kernel (`CopyExact` names this panic,
  and the one of `walk` for an address above `MAXVA`, as the only ones).
* `wait` stores an `int` wherever the pointer is. In the last bytes of a page it does not fit,
  and the rest of it goes to the first bytes of the physically next page, which may belong
  to another process or the kernel (`Stored` says exactly this).
* When `copy_to_user` fails, `user_console_read` has already taken the character from the ring,
  and it is lost; the count that is returned does not include it (`ReadCount`).
* A DTO that the SD card controller raises between the driver's read of RINTSTS and its
  clear is lost, and a complete transfer ends with `-ETIMEDOUT`. An update of the clock that
  timed out leaves `host->clock` at a frequency that no longer runs, and the next
  `dwmci_setup_bus` for it returns early; `ClockAsRecorded` excludes this (`clk_lost`).
* `copy_to_user` does not look at `PTE_W`; `copystr_from_user` leaves a string that fills
  the buffer unterminated; the page fault handler repeats an access that the permissions
  do not allow for ever (until a tick ends its slice, and again in the next).
* `proc_init` takes a trapframe page for every process, which `allocproc` replaces
  without giving it back (`JustTaken`).
* `dwmci_send_cmd` ignores a FIFO reset that does not end, and a transfer that timed out
  may raise its bits during the next command: `SuccessMeansComplete` says that these two
  (`hist.clean`) are the only ways to report success for data that did not move.

## 5. Proofs

Each `*Proofs` module extends the module it is about. There is one lemma per action
(`Step_...` or named for the action), with one step per part of the invariant; helper lemmas say what the
model's operators return or preserve. Where a property is also checked by a run,
`PROJECT.json` says so.

`SpinlockProofs` proves, for any set of CPUs and any finite set of locks,
`TypeOK`, `MutualExclusion`, `NoPanic`, `InterruptStateRestored` and
`TrapHoldsNothing`. None is inductive alone. The inductive invariant `IInv` adds:
`DepthInv`, `noff` is the number of locks of the running context plus the one in
transit; `SuspendedInv`, the context that does not run is outside every critical
section; `IntrInv`, SIE implies `noff = 0` and `interrupt_on` is what the thread
wanted; `ArgInv`, a lock being taken is not held and one being released is;
`LockedInv`, `locked` is set exactly while some context is inside; `CpuInv`, `lk->cpu`
names a CPU exactly while it holds the lock and has not begun to release it. The
assumptions are that there are finitely many locks, at least one, and that `NoCpu` is no CPU.
It also proves `ImplementsLock`: the swap of `acquire` is the abstract acquire, the one of
`release` the abstract release, and every other step leaves the owner of every lock alone.

`ProcProofs` first proves about `TaskQueue`, for every size of the pool, its type invariant,
`NoOverflow` and that the ring implements `FIFO`. The inductive invariant `RingInv` says that the slots in
use hold distinct processes; as there are no more processes than slots, a push that
finds the ring full would push a process that is already in it (`FullHoldsAll`, a
counting argument with the finite set library). The refinement needs two facts about
`(front + i) % NPROC` under push and pop (`PushRing`, `PopRing`).

Then it proves about `Proc` `NoPanic`, `InOnePlace`, `StackNotReused`, `ParentAlive`,
`ForkedChildStays`, `NoLockCycle` and `NoLostWakeup` for any finite set of CPUs, any size of the pool and any number of pids.
What makes them true is who holds which lock, and that is the heart of `IInv`:
`LockInv` says exactly for which position of which thread a CPU holds `p->lock` (its own,
from `sched` on one side of the switch to the release on the other, or that of the child
that `fork` has not published yet) and `wait_lock`. `PlaceInv` says that no process is
queued or fetched twice; `StateInv` ties `p->state` to the position of the thread and says
where a process in that state is; `CpuInv` ties `c->proc` to what the scheduler fetched,
and says that an idle scheduler never passes `pool[0]`; `LocalInv` has the locals of `fork`
and `exit`, above all that the slots which `exit` has visited hold no child of it;
`InitInv`, that init is never freed. That the queue cannot be full at a push is the same
counting argument as for the ring. `ParentAlive` and `ForkedChildStays` are parts
of the invariant and need all the others: a parent cannot go between the moment it is
recorded and the end of its own reparenting, because both need `wait_lock`. The locks have no order, so the argument for `NoLockCycle`
is about who goes on: a CPU that holds a `p->lock` waits for nothing unless it also holds
`wait_lock` (`HolderGoesOn`, from `LockInv`), and the holder of `wait_lock` waits only for a
`p->lock` (`WaitLockGoesOn`), so no chain of waiting CPUs is longer than three.
`NoLostWakeup` has an invariant of its own, `WakeInv`: everyone sleeps for itself; a child whose
walk in `wakeup` has passed its parent leaves it awake (`WokenInv`), since the parent cannot
fall asleep before it gets `wait_lock`; and what a scan in `wait` has passed holds no exited child
until `sleep` gives `wait_lock` back (`ScanInv`). `QueueUse`
closes the gap between the two modules: every step of `Proc` leaves the queue alone, appends
a process that is not in it or takes the oldest, which is all that the ring assumes of its
callers.

`KernelThreadProofs` proves `KernelContext`, `InterruptsFollowThread`, `NoPanic` and
`OneHartPerStack` for any sets of harts and threads. `OwnInv`: the thread that runs on a
hart is the one its scheduler fetched, and no two have fetched the same. `ContextInv`: in
the kernel `tp` is the hart, and in user code the trapframe holds the number that
will make it so. `LockInv`: `p->lock` is held, `noff` is 1 and SIE is off exactly
while a thread is on its way in or out. `StatusInv`: a thread that no hart owns waits in `sched` or
at its first step. `IntrInv` follows the interrupt state from SIE to `interrupt_on` to the
stack of the thread and back.

`ConsoleProofs` proves `RingBounds`, `ShortReadEof`, `ReadCount`, that at most one reader looks at the ring, and
`ImplementsDiscipline`, for any set of readers, any ring size `N` and any width `W` of the
indices that is a larger multiple of `N`. The code has 128 and 2^32; if `N` did not divide
`W` the ring would jump when the indices wrap, and the assumption is what a change of
`INPUT_BUF_SIZE` has to respect. The invariant adds to `RingBounds` who holds `cons.lock`,
that the slots between `r` and `e` hold what was typed, that the line being edited holds
nothing that would have committed it, and that `n` and the number of characters read add up to
the length that `target` was cut from. The
refinement maps the two slices of the ring to the abstract queue and line; `%` is handled once,
in the lemmas about `After` and `Sub`.

`BootProofs` proves, for any number of harts and any of them as the boot hart, `TypeOK`,
`BootStackExclusive`, `SatpIntact`, `InitBeforeSchedule` and `OwnCpu`. The
invariant `IInv` has at its heart `OrderInv`, only the hart that the boot hart waits for
is between its start and its `booted_count++`, and `CountInv`, the counter is the number
of harts that have come up, so that the wait can end only with that store. `LoopInv`
bounds `cpuid` by the harts already visited (the boot hart takes none), `NumberInv` says
that the numbers handed out are below `cpuid` and distinct, `RegInv` and `PhaseInv` tie
stack, page table and flags to where a hart is. `BootMapIsBoot` shows that the boot
which builds its page tables is one of these, so that the theorems hold of it too
(`BootMapHarts`).

`HartsFindTheirPages` is `HartsMapped` for any image that the temporary tables can hold, any
memory, pools and number of harts: every hart finds its code, its variables and its stack
through the table in its `satp`. It follows an address through the levels of tables entry
by entry (`Leads`, which `LeadsTranslates` ties to what the hardware does) and rests on
`MapInv`. `PagesInv`: no table lies at or behind the next page of the setup, so that a page
that `kvmmap` takes is not a table yet. `StageInv`: how far the boot hart is, and that the temporary tables
are poisoned only when the final one is there. `TemporaryInv`: until then they hold what
`bootcpu_start_relocation` wrote. `BuildInv`: the calls of `kvmmap` made so far have put each of their pages
where `Placed` says, and entries without permissions lead to tables; `BuiltInv` is the same when all are
made. It stays true because a step of `kvmmap` adds entries and replaces none
(`KvmmapKeeps`: it panics on one that is in use), and leads the address it is at to
its page (`KvmmapMaps`, through tables that are the kernel's own because of `Closed`). `CallsAre` lists the calls, so that the page of an address is known
from the call whose range it is in; the pages of the stacks are distinct because each is taken after
the last. Images are assumed
to have text and data, and at most 511 large pages, which is what one table has room for behind
the index of `KERNEL_VIRT_BASE`: `bootcpu_start_relocation` puts a single table there, and `PX`
would wrap, so that the end of a larger image would be mapped nowhere.

`MemoryProofs` proves `PagesAccounted`, `ObjectsAccounted` and `ImageIntact` for any set of pages, any pool,
any programs, any number of objects and tables of any size. The argument has two layers.
`HeldOnce` speaks of places (a root, a table, a leaf entry, a trapframe) and pages only:
a page that is in a place is in no other, not free and not leaked, and none is
lost. A step takes a page for one place (`Take`), gives one back (`Give`), moves none
(`Keep`) or discards an address space (`Discard`), and each is shown once. The other layer says
how far one process has got with its address space: `SetupInv` (what of `allocproc` is
done), `ListInv` (where the lists of areas and the counter stand), `MappedInv` with
`Distinct` (an address is in the list once, so the page that `freevma` gives back is
still there), `PartInv` (the area that is being mapped), `ContentInv` (what is in the pages). `ByInv`
ties a process to the one that builds or buries it: that one has stopped, so `mm_copy`
reads from areas that do not change. After a panic only `HeldOnce` and the types are left.
The assumptions are those of the layout, and that `NoPage`, `NullPA` and the page of the
trampoline are not pages of the free memory. `ImageIntact` contains the fact that
`NullPA`, which `mm_mappages` does not notice, never survives `fill`. `ObjectsAccounted` is
a second invariant on top (`ObjectsInv`): a `struct vma` in use is a member of the set
`Held`, one for each area in a list, for the mapping in progress, and for the entries of the
trampoline and the trapframe, so that a step of the allocator is a set that gains, loses or swaps
a member (`HeldGains`, `HeldLoses`, `HeldSwaps`); `ReferenceInv` says for which positions of
`allocproc` and `freeproc` the two entries are there. For this the pool of processes has to be
finite.

`UserMemoryProofs` proves `LoadedExact` and `CopyExact` for every page size, every size of the
address space, every set of programs whose segments begin on a page, and every address and length.
Two facts about addresses carry it: those of one page are neighbours in physical memory and
no two user addresses are one byte of it (`Injective`), so that the bytes a piece of a copy
moves are the bytes of the range between the old and the new position, and no others
(`PieceBytes`). `LoadInv` says which segments, and which pages of the present one, have been
loaded; `RangeInv`, `WriteInv` and `ReadInv` what a copy that has passed `n` bytes has
found permitted, written and read, and which bytes `wait` has stored (`IntBytes`: different
ones, in the page as long as they do not pass its end); `ResultInv` why it has ended. The pages that a segment
covers are unmapped when it comes up because the programs' areas are disjoint. The next
piece of `copystr_from_user` ends at the first zero byte: that there is a first one is the
well-foundedness of the natural numbers, which the library states for sets.

`DwMmcProofs` proves `SuccessMeansComplete`, `ClockAsRecorded`, `FirstCommandInits` and
`PhaseCentred` for every even depth of the FIFO, every source clock and frequency, any
lengths of transfers, any number of phases, retries and calls, and any behaviour of the
controller in the sense of `DwMmc`. `LocalInv` says that an operation finds its locals
fresh and that only a host that is ready sends commands. `FifothInv`: the depth that
`dwmci_init` derives from FIFOTH is derived once, so what `fill` writes fits (`RoomFits`;
here the depth has to be even). `FlagInv`: `DW_MMC_CARD_NEED_INIT` is set exactly until a
command has been sent. `ClockInv`: the divider is slow enough (`DividerBound`, the
rounding up), then the clock has it, then it is recorded, in this order. `TuneInv`: the
good phases are those since the first one. `DataInv` is the accounting of words: a command
begun cleanly waits, or has failed with a bit that the driver will read, or (`Accounted`)
every word is in one place, the buffer, the FIFO or the card, and the numbers add up to
the length; DTO means that the card has none left. `LastRound` adds what makes the end of
the loop right: when DTO was read at the head of an iteration, that iteration empties the
FIFO, since a wait that gives up would need a first read that finds no word.

Proved without a run: the type invariants, `TrapHoldsNothing`, `InitBeforeSchedule`,
`ReadersExclude`, `PhaseCentred`, and `ImplementsLock`, which stands and falls with
`MutualExclusion`. The inductive invariants were checked with TLC before they were proved.

Model-checked only. All liveness properties, and `CommittedIsRead`, which is one: the
prover does not do fairness. `KernelTableExact` of `BootMap`: it also says where the pools
are, that nothing but the regions is mapped and that no two of them meet, which holds for images,
pools and memories that leave room between the fixed addresses of `os/memlayout.h` and need
no more than the 512 pages set aside for the setup; the run gives it such ones.

## 6. Not modelled, and the plan

Not modelled yet: the PLIC and the timer as components. With claim and completion around
`uart_intr`, one handler at a time (assumed in `Console`) would follow from the code.

Left out for good: SBI calls (register accesses; their effects are inputs of the models),
formatting, logging and debugging, console output (`user_console_write` changes no state
of the kernel), `string.c` (byte loops, used as `memmove` and `memset` by `UserMemory`),
the general registers in the assembly files, and of the SD card driver the DMA descriptors
(called from nowhere), `dwmci_setup_cfg`, responses, bus width and DDR mode.
