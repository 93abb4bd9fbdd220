---- MODULE LineDiscipline ----
\* What the console promises its readers: the keys of the line being typed can
\* still be edited; a newline, an end-of-file key or a full buffer commits the
\* line; read() takes committed characters in the order in which they were typed.
EXTENDS Sequences, Naturals

CONSTANTS N, Text, None

VARIABLES
    input,      \* committed, not yet read
    line,       \* typed, not yet committed
    taken       \* the last character read

vars == <<input, line, taken>>

Init == input = <<>> /\ line = <<>> /\ taken = None

\* A character is dropped when the buffer is full.
Type(ch) ==
    /\ Len(input) + Len(line) < N
    /\ IF ch \in {"lf", "eof"} \/ Len(input) + Len(line) + 1 = N
       THEN input' = input \o Append(line, ch) /\ line' = <<>>
       ELSE line' = Append(line, ch) /\ UNCHANGED input
    /\ UNCHANGED taken

Kill == line' = <<>> /\ UNCHANGED <<input, taken>>

Erase ==
    /\ line # <<>>
    /\ line' = SubSeq(line, 1, Len(line) - 1)
    /\ UNCHANGED <<input, taken>>

Take ==
    /\ input # <<>>
    /\ taken' = Head(input)
    /\ input' = Tail(input)
    /\ UNCHANGED line

Next == (\E ch \in Text \cup {"lf", "eof"} : Type(ch)) \/ Kill \/ Erase \/ Take

Spec == Init /\ [][Next]_vars
====
