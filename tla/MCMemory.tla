---- MODULE MCMemory ----
\* Instances of Memory.tla for TLC.
EXTENDS Memory, TLC

\* Tables of two entries, so that an address has three bits.  The trampoline and the
\* trapframe share their tables; the stack and the programs have tables of their own.
OnePage == << <<4>> >>
TwoPages == << <<2, 3>> >>
SmallImages == [a \in App |-> IF a = InitApp THEN OnePage ELSE TwoPages]
Stack == <<5>>

\* All processes but init are interchangeable.
SlotSymmetry == Permutations(Slot \ {InitSlot})
====
