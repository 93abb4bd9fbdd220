---- MODULE MCUserMemory ----
EXTENDS UserMemory

RX == {"R", "X"}
RW == {"R", "W"}
Seg(v, f, m, perm) == [vaddr |-> v, filesz |-> f, memsz |-> m, perm |-> perm]

\* With P = 3: text that ends in its page; data with a bss that goes on into the next page;
\* a segment that is all bss; one page unmapped below the stack.
Small == { <<Seg(0, 5, 5, RX)>>,
           <<Seg(0, 3, 3, RX), Seg(3, 1, 5, RW)>>,
           <<Seg(6, 0, 3, RW), Seg(0, 4, 6, RX)>> }
====
