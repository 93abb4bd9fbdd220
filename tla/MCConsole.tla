---- MODULE MCConsole ----
\* The instance of Console.tla for TLC: no symmetry, which liveness does not allow.  The
\* two lengths of MCConsole.cfg are one that fits a uint and one that is cut to zero.
EXTENDS Console
====
