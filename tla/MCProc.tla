---- MODULE MCProc ----
\* Instances of Proc.tla for TLC.
EXTENDS Proc, TLC

\* Arguments of wait(): any child, or also the child with pid 3.
AnyChild == {-1}
SomeChild == {-1, 3}

\* The CPUs are interchangeable.
CpuSymmetry == Permutations(CPU)
====
