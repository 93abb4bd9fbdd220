---- MODULE UserMemory ----
\* The bytes of a process: how load_user_elf (os/loader.c) puts a program into memory,
\* how the kernel reads and writes user memory (os/uaccess.c, sys_wait), and how usertrap
\* (os/trap.c) serves page faults.
\*
\* Pages have P bytes, the highest one is the trampoline; neighbouring pages of the process
\* are in physical pages that are not neighbours.  The address space is empty when a
\* program is loaded and there is memory for it: Memory.tla is about the pages
\* themselves.  The kernel copies of one process do not run concurrently with it.
EXTENDS Integers, Sequences, FiniteSetsExt

CONSTANTS
    P,              \* PGSIZE
    NPages,         \* MAXVA, in pages
    UStack,         \* the page of the stack
    Programs,       \* each a sequence of PT_LOAD segments: vaddr, filesz, memsz, perm
    MaxLen,         \* bound on the length of a copy
    IntSize,        \* sizeof(int)
    MaxCalls        \* bound on the calls and accesses of the program

Trampoline == NPages - 1
MAXVA == NPages * P
PGROUNDDOWN(va) == (va \div P) * P
PGROUNDUP(va) == PGROUNDDOWN(va + P - 1)

\* load_user_elf copies a segment from the first byte of its first page on, wherever p_vaddr
\* is in that page: it loads programs whose segments begin on a page.  The segments share
\* no page and stay below the stack, and each has a permission, as mm_mappages asserts.
SegmentPages(s) == PGROUNDDOWN(s.vaddr) \div P .. PGROUNDUP(s.vaddr + s.memsz) \div P - 1
ASSUME LayoutAssumption ==
    /\ P \in Nat \ {0} /\ NPages \in Nat /\ UStack \in 0 .. Trampoline - 1
    /\ MaxLen \in Nat /\ MaxCalls \in Nat /\ IntSize \in 1 .. P
    /\ Programs \subseteq Seq([vaddr : Nat, filesz : Nat, memsz : Nat, perm : SUBSET {"R", "W", "X"}])
    /\ \A prog \in Programs : \A j \in DOMAIN prog :
         /\ prog[j].vaddr % P = 0 /\ prog[j].filesz <= prog[j].memsz /\ prog[j].perm # {}
         /\ SegmentPages(prog[j]) \subseteq 0 .. UStack - 1
         /\ \A k \in DOMAIN prog \ {j} : SegmentPages(prog[j]) \cap SegmentPages(prog[k]) = {}

VARIABLES
    pc,
    prog,           \* the program
    hartSetsAD,     \* whether the harts set the A and D bits themselves or fault
    pte,            \* its pages: mapped or not, permissions, the A and D bits
    mem,            \* physical memory, by address
    seg, va, off,   \* load_user_elf: the segment, the page, the bytes of the file copied
    call,           \* the system call or access in progress, with its arguments
    n, buf, ret,    \* bytes done, the kernel's buffer, the result
    calls,          \* how many have begun
    mem0            \* memory before the call, for the properties

loadVars == <<prog, hartSetsAD, seg, va, off>>
callVars == <<call, n, buf, ret, calls, mem0>>
vars == <<pc, pte, mem, loadVars, callVars>>

Junk == <<"junk", 0>>
Zero == <<"zero", 0>>
FileByte(s, k) == <<"file", s, k>>
KernelByte(k) == <<"kernel", k>>
UserByte == <<"user", 0>>
NoPte == [perm |-> {}, A |-> FALSE, D |-> FALSE]

\* The physical page of a page, and the address of a byte.
Frame(p) == NPages - 1 - p
PA(a) == Frame(a \div P) * P + (a % P)
AllBytes == 0 .. MAXVA - 1
NoCall == [op |-> "none", va |-> 0, len |-> 0]

Init ==
    /\ pc = "segments"
    /\ prog \in Programs
    /\ hartSetsAD \in BOOLEAN
    /\ pte = [p \in 0 .. NPages - 1 |-> IF p = Trampoline THEN [NoPte EXCEPT !.perm = {"R", "X"}, !.A = TRUE] ELSE NoPte]
    /\ mem = [a \in AllBytes |-> Junk]
    /\ seg = 1 /\ va = 0 /\ off = 0
    /\ call = NoCall /\ n = 0 /\ buf = <<>> /\ ret = 0 /\ calls = 0 /\ mem0 = mem
-----------------------------------------------------------------------------
\* memory with the bytes at user addresses S replaced.
Written(S, Byte(_)) ==
    [a \in AllBytes |-> IF \E b \in S : PA(b) = a THEN Byte(CHOOSE b \in S : PA(b) = a) ELSE mem[a]]

Least(a, b) == IF a < b THEN a ELSE b
Segment == prog[seg]
vm_start == PGROUNDDOWN(Segment.vaddr)
vm_end == PGROUNDUP(vm_start + Segment.memsz)

\* The next segment gets its pages, with what is left in them.
load_segment ==
    /\ pc = "segments" /\ seg <= Len(prog)
    /\ pte' = [p \in DOMAIN pte |-> IF p \in vm_start \div P .. vm_end \div P - 1
                                   THEN [NoPte EXCEPT !.perm = Segment.perm \cup {"U"}] ELSE pte[p]]
    /\ va' = vm_start /\ off' = 0
    /\ pc' = IF Segment.perm = {} THEN "panic" ELSE "copy"
    /\ UNCHANGED <<prog, hartSetsAD, seg, mem, callVars>>

\* The heap is empty; the stack is mapped and cleared.
load_stack ==
    /\ pc = "segments" /\ seg > Len(prog)
    /\ pte' = [pte EXCEPT ![UStack] = [NoPte EXCEPT !.perm = {"R", "W", "U"}]]
    /\ mem' = Written(UStack * P .. UStack * P + P - 1, LAMBDA b : Zero)
    /\ pc' = "loaded"
    /\ UNCHANGED <<loadVars, callVars>>

\* Mutant of load_page: the rest of the page keeps what it held.
load_page_no_clear ==
    LET copy_size == Least(Segment.filesz - off, P) IN
    /\ pc = "copy" /\ va < vm_end
    /\ mem' = Written(va .. va + copy_size - 1, LAMBDA b : FileByte(seg, off + b - va))
    /\ va' = va + P /\ off' = off + copy_size
    /\ UNCHANGED <<pc, prog, hartSetsAD, seg, pte, callVars>>

\* One page of the copy loop: bytes of the file, then zeros.
load_page ==
    LET copy_size == Least(Segment.filesz - off, P) IN
    /\ pc = "copy" /\ va < vm_end
    /\ mem' = Written(va .. va + P - 1,
                      LAMBDA b : IF b < va + copy_size THEN FileByte(seg, off + b - va) ELSE Zero)
    /\ va' = va + P /\ off' = off + copy_size
    /\ UNCHANGED <<pc, prog, hartSetsAD, seg, pte, callVars>>

\* The loop over the bss.  Its first page is cleared from bss_start to the end of the
\* page; for the pages behind it, which begin on a boundary, clear_size is 0.  Then
\* assert(file_remains == 0).
load_bss ==
    LET bss_start == Segment.vaddr + Segment.filesz IN
    /\ pc = "copy" /\ va = vm_end
    /\ mem' = IF Segment.memsz > Segment.filesz
              THEN Written(bss_start .. PGROUNDUP(bss_start) - 1, LAMBDA b : Zero)
              ELSE mem
    /\ pc' = IF off = Segment.filesz THEN "segments" ELSE "panic"
    /\ seg' = seg + 1
    /\ UNCHANGED <<prog, hartSetsAD, pte, va, off, callVars>>

run ==
    /\ pc = "loaded"
    /\ pc' = "run"
    /\ UNCHANGED <<pte, mem, loadVars, callVars>>
-----------------------------------------------------------------------------
\* walkaddr(va0): panics above MAXVA (IS_USER_VA includes MAXVA itself), and returns 0 for
\* what is not mapped or not the user's.
IS_USER_VA(a) == a <= MAXVA
walkaddr_ok(a) == a \div P \in DOMAIN pte /\ "U" \in pte[a \div P].perm

\* A system call or an access begins, with any address and length.
begin(op, a, len) ==
    /\ pc = "run" /\ calls < MaxCalls
    /\ call' = [op |-> op, va |-> a, len |-> len]
    /\ n' = 0 /\ buf' = <<>> /\ ret' = 0 /\ mem0' = mem
    /\ pc' = op
    /\ calls' = calls + 1
    /\ UNCHANGED <<pte, mem, loadVars>>

finish(r) == pc' = "return" /\ ret' = r

\* The address and the length of the next piece, up to the end of its page.
At == call.va + n
\* Mutant of Piece: the length is not cut at the end of the page.
Piece_whole == call.len - n
Piece == Least(P - (At % P), call.len - n)

\* One iteration of a copy: an address above MAXVA panics, one that is not mapped ends it.
copy_loop(op, Move) ==
    /\ pc = op
    /\ \/ /\ n = call.len
          /\ finish(IF op = "copystr" THEN n ELSE 0)
          /\ UNCHANGED <<mem, n, buf>>
       \/ /\ n < call.len /\ ~IS_USER_VA(PGROUNDDOWN(At))
          /\ pc' = "panic"
          /\ UNCHANGED <<mem, n, buf, ret>>
       \/ /\ n < call.len /\ IS_USER_VA(PGROUNDDOWN(At)) /\ ~walkaddr_ok(At)
          /\ finish(-1)
          /\ UNCHANGED <<mem, n, buf>>
       \/ n < call.len /\ walkaddr_ok(At) /\ Move
    /\ UNCHANGED <<pte, loadVars, call, calls, mem0>>

\* The bytes the kernel sees from At on: those of one physical page and, were a piece too
\* long, of what lies behind it.
Physical(k) == (PA(At) + k) % MAXVA

copy_to_user ==
    copy_loop("copy_to",
        /\ mem' = [a \in AllBytes |-> IF \E k \in 0 .. Piece - 1 : Physical(k) = a
                                     THEN KernelByte(n + (CHOOSE k \in 0 .. Piece - 1 : Physical(k) = a))
                                     ELSE mem[a]]
        /\ n' = n + Piece
        /\ UNCHANGED <<pc, buf, ret>>)

copy_from_user ==
    copy_loop("copy_from",
        /\ buf' = buf \o [k \in 1 .. Piece |-> mem[Physical(k - 1)]]
        /\ n' = n + Piece
        /\ UNCHANGED <<pc, mem, ret>>)

\* Up to the first zero, which is copied and not counted.
copystr_from_user ==
    LET zeros == {k \in 0 .. Piece - 1 : mem[Physical(k)] = Zero} IN
    copy_loop("copystr",
        IF zeros = {}
        THEN /\ buf' = buf \o [k \in 1 .. Piece |-> mem[Physical(k - 1)]]
             /\ n' = n + Piece
             /\ UNCHANGED <<pc, mem, ret>>
        ELSE /\ buf' = buf \o [k \in 1 .. Min(zeros) + 1 |-> mem[Physical(k - 1)]]
             /\ n' = n + Min(zeros)
             /\ finish(n + Min(zeros))
             /\ UNCHANGED mem)

\* Where the k-th byte of the exit code goes: an int at the kernel's address of
\* useraddr(va), whose bytes are neighbours in physical memory, and nobody has looked
\* whether it is aligned or ends in va's page.
IntByte(k) == (PA(call.va) + k) % MAXVA

\* sys_wait: useraddr(va) comes first and panics above MAXVA.  Then wait has no child and
\* returns -1 whatever va is; or it has one (at last: Proc.tla is about the waiting) and
\* stores its exit code.  For what is not mapped the address is PA_TO_KVA(0): not NULL,
\* so wait stores through it, and nothing is mapped there.
sys_wait ==
    /\ pc = "wait"
    /\ \/ /\ ~IS_USER_VA(PGROUNDDOWN(call.va))
          /\ pc' = "panic"
          /\ UNCHANGED <<mem, ret>>
       \/ /\ IS_USER_VA(PGROUNDDOWN(call.va))
          /\ finish(-1)
          /\ UNCHANGED mem
       \/ /\ IS_USER_VA(PGROUNDDOWN(call.va)) /\ ~walkaddr_ok(call.va)
          /\ pc' = "panic"
          /\ UNCHANGED <<mem, ret>>
       \/ /\ walkaddr_ok(call.va)
          /\ mem' = [a \in AllBytes |-> IF \E k \in 0 .. IntSize - 1 : IntByte(k) = a
                                        THEN KernelByte(CHOOSE k \in 0 .. IntSize - 1 : IntByte(k) = a)
                                        ELSE mem[a]]
          /\ finish(0)
    /\ UNCHANGED <<pte, loadVars, call, n, buf, calls, mem0>>

return ==
    /\ pc = "return"
    /\ pc' = "run"
    /\ call' = NoCall /\ n' = 0 /\ buf' = <<>> /\ ret' = 0 /\ mem0' = mem
    /\ UNCHANGED <<pte, mem, loadVars, calls>>
-----------------------------------------------------------------------------
\* An instruction of the program: the permission it needs, and whether the hart may do it.
Need == CASE call.op = "store" -> "W" [] call.op = "fetch" -> "X" [] OTHER -> "R"
Accesses == {"load", "store", "fetch"}
Permitted == walkaddr_ok(call.va) /\ Need \in pte[call.va \div P].perm
BitsSet == LET e == pte[call.va \div P] IN e.A /\ (call.op = "store" => e.D)
Executes == Permitted /\ (BitsSet \/ hartSetsAD)

\* The hart executes it; otherwise it faults.
complete ==
    /\ pc \in Accesses /\ Executes
    /\ pte' = [pte EXCEPT ![call.va \div P].A = TRUE, ![call.va \div P].D = @ \/ call.op = "store"]
    /\ mem' = IF call.op = "store" THEN [mem EXCEPT ![PA(call.va)] = UserByte] ELSE mem
    /\ finish(0)
    /\ UNCHANGED <<loadVars, call, n, buf, calls, mem0>>

\* Mutant of page_fault: D is set for no access.
page_fault_only_A ==
    /\ pc \in Accesses /\ ~Executes
    /\ call.va < MAXVA /\ pte[call.va \div P].perm # {}
    /\ pte' = [pte EXCEPT ![call.va \div P].A = TRUE]
    /\ UNCHANGED pc
    /\ UNCHANGED <<mem, loadVars, callVars>>

\* usertrap's case for page faults: a valid entry gets its bits and the access is tried
\* again, whatever the fault was; otherwise exit(-2).
page_fault ==
    /\ pc \in Accesses /\ ~Executes
    /\ \/ /\ ~IS_USER_VA(call.va)
          /\ pc' = "panic"
          /\ UNCHANGED pte
       \/ /\ call.va < MAXVA /\ pte[call.va \div P].perm # {}
          /\ pte' = [pte EXCEPT ![call.va \div P].A = TRUE, ![call.va \div P].D = @ \/ call.op = "store"]
          /\ UNCHANGED pc
       \/ /\ call.va <= MAXVA /\ (call.va < MAXVA => pte[call.va \div P].perm = {})
          /\ pc' = "exit"
          /\ UNCHANGED pte
    /\ UNCHANGED <<mem, loadVars, callVars>>
-----------------------------------------------------------------------------
Kernel == load_segment \/ load_page \/ load_bss \/ load_stack \/ run \/ copy_to_user \/ copy_from_user
          \/ copystr_from_user \/ sys_wait \/ return

Next ==
    \/ Kernel \/ complete \/ page_fault
    \/ \E op \in {"copy_to", "copy_from", "copystr"}, a \in 0 .. MAXVA + P, len \in 0 .. MaxLen : begin(op, a, len)
    \/ \E op \in Accesses \cup {"wait"}, a \in 0 .. MAXVA + P : begin(op, a, 0)

\* The hart goes on executing: with the kernel, and with the instruction it has begun.
Spec == Init /\ [][Next]_vars /\ WF_vars(Kernel) /\ WF_vars(complete \/ page_fault)
-----------------------------------------------------------------------------
\* A program that starts finds in each of its pages the bytes of the file followed by
\* zeros, and zeros on its stack: nothing of what an earlier owner left in the pages, and
\* no byte of another segment.  Loading a program that fits does not panic.
LoadedExact ==
    /\ pc = "loaded" =>
         /\ \A j \in DOMAIN prog : \A p \in SegmentPages(prog[j]), b \in 0 .. P - 1 :
              LET k == p * P + b - prog[j].vaddr IN
              mem[PA(p * P + b)] = IF k < prog[j].filesz THEN FileByte(j, k) ELSE Zero
         /\ \A b \in 0 .. P - 1 : mem[PA(UStack * P + b)] = Zero
         /\ {p \in DOMAIN pte : "U" \in pte[p].perm} =
              {UStack} \cup UNION {SegmentPages(prog[j]) : j \in DOMAIN prog}
    /\ pc = "panic" => call # NoCall

\* The bytes of the range that a copy has passed.
Reached == 0 .. n - 1

\* What wait has written: bytes of the int.  Those up to the end of the page of call.va are
\* the user's, call.va + k; the rest, when the pointer is in the last bytes of a page, are
\* the first ones of the physically next page, whosever it is.
Stored(a) ==
    \E k \in 0 .. IntSize - 1 :
        a = IntByte(k) /\ mem[a] = KernelByte(k) /\ ((call.va % P) + k < P => a = PA(call.va + k))

\* A copy reaches the bytes of its range, in order, across page boundaries, and no other
\* byte of memory: 0 (or the length of the string, its zero copied with it unless the
\* string fills the buffer) when all of it was copied, -1 when it met a page that is not
\* the user's.  wait stores an int, all of it, or nothing when it returns -1; the int
\* stays in the user's page when the pointer leaves room for it there, and only then.
\* The kernel panics only for an address above MAXVA, or when wait is given one that is
\* not mapped.
CopyExact ==
    /\ pc \in {"return", "panic", "copy_to", "copy_from", "copystr", "wait"} =>
         \A a \in AllBytes : mem[a] # mem0[a] =>
            \/ /\ call.op = "copy_to"
               /\ \E k \in Reached : PA(call.va + k) = a /\ mem[a] = KernelByte(k)
            \/ call.op = "wait" /\ ret = 0 /\ Stored(a)
            \/ call.op = "store" /\ a = PA(call.va)
    /\ pc = "return" /\ call.op = "wait" /\ ret = 0 =>
         \A k \in 0 .. IntSize - 1 : mem[IntByte(k)] = KernelByte(k)
    /\ pc = "return" /\ call.op \in {"copy_to", "copy_from"} =>
         /\ ret = -1 <=> \E k \in 0 .. call.len - 1 : ~walkaddr_ok(call.va + k)
         /\ ret = 0 => /\ n = call.len
                       /\ \A k \in Reached :
                            IF call.op = "copy_to" THEN mem[PA(call.va + k)] = KernelByte(k)
                            ELSE buf[k + 1] = mem0[PA(call.va + k)]
    /\ pc = "return" /\ call.op = "copystr" /\ ret >= 0 =>
         /\ ret \in 0 .. call.len
         /\ \A k \in 0 .. ret - 1 : buf[k + 1] = mem0[PA(call.va + k)] /\ buf[k + 1] # Zero
         /\ IF ret < call.len THEN buf = [k \in 1 .. ret + 1 |-> mem0[PA(call.va + k - 1)]] /\ buf[ret + 1] = Zero
                              ELSE Len(buf) = ret
    /\ pc = "panic" => \/ call.va + call.len > MAXVA
                       \/ call.op = "wait" /\ ~walkaddr_ok(call.va)

\* A load, store or fetch that the page's permissions allow is executed, however the hart
\* treats the A and D bits: the page fault handler does not repeat it for ever.
PermittedAccessCompletes == (pc \in Accesses /\ Permitted) ~> pc = "return"
-----------------------------------------------------------------------------
\* The inductive invariant.
Copies == {"copy_to", "copy_from", "copystr"}
Ops == Copies \cup Accesses \cup {"wait"}
Loading == {"segments", "copy", "loaded"}
Pte == [perm : SUBSET {"R", "W", "X", "U"}, A : BOOLEAN, D : BOOLEAN]

TypeOK ==
    /\ pc \in Loading \cup {"run", "return", "panic", "exit"} \cup Ops
    /\ prog \in Programs
    /\ hartSetsAD \in BOOLEAN
    /\ pte \in [0 .. Trampoline -> Pte]
    /\ mem = [a \in AllBytes |-> mem[a]] /\ mem0 = [a \in AllBytes |-> mem0[a]]
    /\ seg \in Nat /\ va \in Nat /\ off \in Nat
    /\ call \in [op : Ops \cup {"none"}, va : Nat, len : Nat]
    /\ n \in Nat /\ ret \in Int /\ calls \in Nat
    /\ buf \in Seq({mem0[a] : a \in AllBytes})

\* The byte of segment j at address a, and the pages of the first i segments.
Content(j, a) ==
    IF a - prog[j].vaddr < prog[j].filesz THEN FileByte(j, a - prog[j].vaddr) ELSE Zero
UserPages == {p \in 0 .. Trampoline : "U" \in pte[p].perm}
PagesUpTo(i) == UNION {SegmentPages(prog[j]) : j \in 1 .. i}
SegmentsLoaded(i) ==
    \A j \in 1 .. i : \A a \in AllBytes : a \div P \in SegmentPages(prog[j]) => mem[PA(a)] = Content(j, a)

\* load_user_elf has loaded the segments before seg, and of this one the pages below va.
LoadInv ==
    /\ pc \in Loading <=> call = NoCall /\ pc # "run"
    /\ pc = "segments" =>
         seg \in 1 .. Len(prog) + 1 /\ SegmentsLoaded(seg - 1) /\ UserPages = PagesUpTo(seg - 1)
    /\ pc = "copy" =>
         /\ seg \in 1 .. Len(prog) /\ SegmentsLoaded(seg - 1) /\ UserPages = PagesUpTo(seg)
         /\ va % P = 0 /\ vm_start <= va /\ va <= vm_end
         /\ off = Least(Segment.filesz, va - vm_start)
         /\ \A a \in AllBytes : vm_start <= a /\ a < va => mem[PA(a)] = Content(seg, a)
    /\ pc = "loaded" =>
         /\ SegmentsLoaded(Len(prog)) /\ UserPages = {UStack} \cup PagesUpTo(Len(prog))
         /\ \A a \in AllBytes : a \div P = UStack => mem[PA(a)] = Zero

\* A call is under way, has returned or has panicked.
InCall == pc \in Ops \cup {"return", "panic"}

\* The bytes that a copy has passed are the user's.
RangeInv ==
    /\ n <= call.len
    /\ InCall /\ call.op \in Copies => \A j \in Reached : walkaddr_ok(call.va + j)

\* copy_to_user has written them and nothing else; of the other calls only wait, and of the
\* accesses only a store, write to memory, at the very end.
WriteInv ==
    /\ InCall /\ call.op = "copy_to" =>
         /\ buf = <<>>
         /\ \A j \in Reached : mem[PA(call.va + j)] = KernelByte(j)
         /\ \A a \in AllBytes : mem[a] # mem0[a] => \E j \in Reached : PA(call.va + j) = a
    /\ InCall /\ call.op # "copy_to" => \A a \in AllBytes :
         mem[a] # mem0[a] => /\ pc = "return"
                             /\ \/ call.op = "wait" /\ ret = 0 /\ Stored(a)
                                \/ call.op = "store" /\ a = PA(call.va)
    /\ pc = "return" /\ call.op = "wait" /\ ret = 0 =>
         \A k \in 0 .. IntSize - 1 : mem[IntByte(k)] = KernelByte(k)

\* The other copies have read them into the buffer, and copystr the zero after them if it
\* has found one.
FoundZero == pc = "return" /\ call.op = "copystr" /\ n < call.len /\ ret = n /\ Len(buf) = n + 1
ReadInv ==
    InCall /\ call.op \in {"copy_from", "copystr"} =>
        /\ \A j \in 1 .. Len(buf) : buf[j] = mem0[PA(call.va + j - 1)]
        /\ Len(buf) = n \/ (FoundZero /\ buf[n + 1] = Zero)
        /\ call.op = "copystr" => \A j \in 1 .. n : buf[j] # Zero

\* Why a call has ended.
ResultInv ==
    /\ pc \in Ops => call.op = pc
    /\ pc = "return" => call.op \in Ops
    /\ pc = "return" /\ call.op \in Copies =>
         \/ ret = -1 /\ n < call.len /\ ~walkaddr_ok(call.va + n)
         \/ ret = (IF call.op = "copystr" THEN n ELSE 0) /\ n = call.len
         \/ FoundZero
    /\ pc = "panic" => call.va + call.len > MAXVA \/ (call.op = "wait" /\ ~walkaddr_ok(call.va))

IInv == TypeOK /\ LoadInv /\ RangeInv /\ WriteInv /\ ReadInv /\ ResultInv
====
