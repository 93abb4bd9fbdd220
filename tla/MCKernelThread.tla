---- MODULE MCKernelThread ----
\* Instance of KernelThread.tla for TLC.
EXTENDS KernelThread, TLC

ThreadSymmetry == Permutations(Thread)
====
