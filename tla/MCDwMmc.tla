---- MODULE MCDwMmc ----
\* Instance of DwMmc.tla for TLC.
EXTENDS DwMmc
====
