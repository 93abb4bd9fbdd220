---- MODULE MCBoot ----
\* Instance of BootMap.tla for TLC.
EXTENDS BootMap

\* A small image; one that ends on a boundary of 2 MiB; text and data of more than 2 MiB,
\* so that some of it is in large pages.
Images ==
    {[text |-> 9, rodata |-> 3, data |-> 20],
     [text |-> 450, rodata |-> 11, data |-> 50],
     [text |-> 530, rodata |-> 0, data |-> 30],
     [text |-> 20, rodata |-> 2, data |-> 1100]}
\* Pools of a few pages.
SmallPools == <<2, 3, 1>>
====
