---- MODULE MCTaskQueue ----
\* Four processes in a ring of four slots: the ring gets full, and its indices
\* wrap around.
EXTENDS TaskQueue
====
