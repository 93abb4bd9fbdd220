---- MODULE Console ----
\* The console input of os/console.c: the UART interrupt (consintr) fills and edits
\* a ring of INPUT_BUF_SIZE characters, processes take whole lines out of it with
\* read() (user_console_read), and both meet in sleep() and wakeup() on &cons.
\*
\* The indices r, w and e are unsigned ints that are never reduced; they wrap at W
\* (2^32 in the code) and are taken modulo N only to address the ring.  The length
\* of a read() is wider: read() keeps it in an int64 and, cut to W, in a uint.
\*
\* One interrupt handler runs at a time: the PLIC gives the UART's interrupt to one
\* hart until that hart completes it.  Left out: the echo on the terminal.
EXTENDS Integers, Sequences, FiniteSets

CONSTANTS
    N,          \* INPUT_BUF_SIZE
    W,          \* the range of unsigned int
    Text,       \* ordinary characters
    Reader,     \* the processes that read
    Length,     \* the lengths asked for: sys_read's uint64 as read()'s int64, negative from
                \* 2^63 on
    None        \* no character, and no holder of a lock

ASSUME SizeAssumption == N \in Nat \ {0} /\ W \in Nat /\ W > N /\ W % N = 0
ASSUME LengthAssumption == Length \subseteq Int

Intr == "intr"      \* the interrupt handler as the holder of cons.lock

ASSUME NoneAssumption == None \notin Text \cup Reader \cup {Intr} /\ Intr \notin Reader

VARIABLES
    buf, r, w, e,   \* struct cons
    lock,           \* the holder of cons.lock
    scan,           \* the processes that wakeup(&cons) has yet to look at
    pc, n, target,  \* a reader and its local variables
    got,            \* the characters copied to user space by this read
    state,          \* its process state, as far as sleep and wakeup are concerned
    plock,          \* p->lock of a sleeper is held until it has switched away
    taken           \* the last character taken out of the ring

consVars == <<buf, r, w, e>>
readVars == <<pc, n, target, got>>
vars == <<consVars, lock, scan, readVars, state, plock, taken>>

Char == Text \cup {"lf", "eof"}
ReadPC == {"user", "acquire", "loop", "sleep", "asleep", "woken"}

\* Arithmetic of unsigned int.
Sub(a, b) == (a - b + W) % W
Inc(a) == (a + 1) % W

Dec(a) == (a - 1 + W) % W
At(i) == buf[i % N]

TypeOK ==
    /\ buf \in [0 .. N - 1 -> Char \cup {None}]
    /\ r \in 0 .. W - 1 /\ w \in 0 .. W - 1 /\ e \in 0 .. W - 1
    /\ lock \in Reader \cup {Intr, None}
    /\ scan \in SUBSET Reader
    /\ pc \in [Reader -> ReadPC]
    /\ n \in [Reader -> Int]
    /\ target \in [Reader -> 0 .. W - 1]
    /\ got \in [Reader -> Seq(Char)]
    /\ state \in [Reader -> {"RUNNING", "SLEEPING", "RUNNABLE"}]
    /\ plock \in [Reader -> BOOLEAN]
    /\ taken \in Char \cup {None}

\* console_init; the indices are zero in the zeroed bss.
Init ==
    /\ buf = [i \in 0 .. N - 1 |-> None]
    /\ r = 0 /\ w = 0 /\ e = 0
    /\ lock = None
    /\ scan = {}
    /\ pc = [p \in Reader |-> "user"]
    /\ n = [p \in Reader |-> 0]
    /\ target = [p \in Reader |-> 0]
    /\ got = [p \in Reader |-> <<>>]
    /\ state = [p \in Reader |-> "RUNNING"]
    /\ plock = [p \in Reader |-> FALSE]
    /\ taken = None
-----------------------------------------------------------------------------
\* consintr(c), under cons.lock.  NUL, ^P, a full ring and an erase with nothing to
\* erase change nothing and are not steps.

\* ^U: back to the last newline, or to the start of what can be edited.
consintr_kill ==
    /\ lock = None
    /\ LET pending == Sub(e, w)
           stops == {k \in 0 .. pending : k = pending \/ At(Dec(Sub(e, k))) = "lf"}
       IN e' = Sub(e, CHOOSE k \in stops : \A j \in stops : k <= j)
    /\ UNCHANGED <<buf, r, w, lock, scan, readVars, state, plock, taken>>

\* Mutant of consintr_erase: backspace also takes back committed characters.
consintr_erase_committed ==
    /\ lock = None
    /\ e # r
    /\ e' = Dec(e)
    /\ UNCHANGED <<buf, r, w, lock, scan, readVars, state, plock, taken>>

\* ^H and DEL.
consintr_erase ==
    /\ lock = None
    /\ e # w
    /\ e' = Dec(e)
    /\ UNCHANGED <<buf, r, w, lock, scan, readVars, state, plock, taken>>

\* The character that completes a line, given that it is stored at e.
Commits(c) == c \in {"lf", "eof"} \/ Sub(Inc(e), r) = N

\* Mutant of consintr_char: the test for a free slot compares with the write index.
consintr_char_overruns(key) ==
    LET c == IF key = "cr" THEN "lf" ELSE key IN
    /\ lock = None
    /\ Sub(e, w) < N
    /\ buf' = [buf EXCEPT ![e % N] = c]
    /\ e' = Inc(e)
    /\ IF Commits(c)
       THEN w' = e' /\ lock' = Intr /\ scan' = Reader
       ELSE UNCHANGED <<w, lock, scan>>
    /\ UNCHANGED <<r, readVars, state, plock, taken>>

\* Any other key: stored unless the ring is full; a complete line is committed and
\* wakeup(&cons) begins, with cons.lock held.
consintr_char(key) ==
    LET c == IF key = "cr" THEN "lf" ELSE key IN
    /\ lock = None
    /\ Sub(e, r) < N
    /\ buf' = [buf EXCEPT ![e % N] = c]
    /\ e' = Inc(e)
    /\ IF Commits(c)
       THEN w' = e' /\ lock' = Intr /\ scan' = Reader
       ELSE UNCHANGED <<w, lock, scan>>
    /\ UNCHANGED <<r, readVars, state, plock, taken>>

\* One iteration of wakeup: it has to wait for p->lock.
wakeup(p) ==
    /\ lock = Intr /\ p \in scan
    /\ ~plock[p]
    /\ scan' = scan \ {p}
    /\ state' = IF state[p] = "SLEEPING" THEN [state EXCEPT ![p] = "RUNNABLE"] ELSE state
    /\ UNCHANGED <<consVars, lock, readVars, plock, taken>>

consintr_end ==
    /\ lock = Intr /\ scan = {}
    /\ lock' = None
    /\ UNCHANGED <<consVars, scan, readVars, state, plock, taken>>
-----------------------------------------------------------------------------
\* user_console_read(buf, len): n is an int64, target a uint.
read(p, len) ==
    /\ pc[p] = "user"
    /\ n' = [n EXCEPT ![p] = len]
    /\ target' = [target EXCEPT ![p] = len % W]
    /\ got' = [got EXCEPT ![p] = <<>>]
    /\ pc' = [pc EXCEPT ![p] = "acquire"]
    /\ UNCHANGED <<consVars, lock, scan, state, plock, taken>>

\* acquire(&cons.lock), at the start and at the end of sleep().
read_acquire(p) ==
    /\ pc[p] \in {"acquire", "woken"} /\ state[p] = "RUNNING"
    /\ lock = None
    /\ lock' = p
    /\ pc' = [pc EXCEPT ![p] = "loop"]
    /\ UNCHANGED <<consVars, scan, n, target, got, state, plock, taken>>

\* release(&cons.lock) and the return of target - n, of which syscall() keeps an int.
return(p) ==
    /\ lock' = None
    /\ pc' = [pc EXCEPT ![p] = "user"]

\* The loop ends because nothing is left to read.
read_done(p) ==
    /\ pc[p] = "loop"
    /\ n[p] <= 0
    /\ return(p)
    /\ UNCHANGED <<consVars, scan, n, target, got, state, plock, taken>>

\* Mutant of read_sleep: cons.lock is released before p->lock is taken.
read_sleep_unlocks_first(p) ==
    /\ pc[p] = "loop" /\ n[p] > 0 /\ r = w
    /\ lock' = None
    /\ pc' = [pc EXCEPT ![p] = "sleep"]
    /\ UNCHANGED <<consVars, scan, n, target, got, state, plock, taken>>

\* sleep(&cons, &cons.lock): p->lock is taken ...
read_sleep(p) ==
    /\ pc[p] = "loop" /\ n[p] > 0 /\ r = w
    /\ ~plock[p]
    /\ plock' = [plock EXCEPT ![p] = TRUE]
    /\ pc' = [pc EXCEPT ![p] = "sleep"]
    /\ UNCHANGED <<consVars, lock, scan, n, target, got, state, taken>>

\* ... cons.lock released, the state changed ...
sleep(p) ==
    /\ pc[p] = "sleep"
    /\ lock' = IF lock = p THEN None ELSE lock
    /\ state' = [state EXCEPT ![p] = "SLEEPING"]
    /\ pc' = [pc EXCEPT ![p] = "asleep"]
    /\ UNCHANGED <<consVars, scan, n, target, got, plock, taken>>

\* ... and p->lock released by the scheduler, once the thread has switched away.
switch_back(p) ==
    /\ pc[p] = "asleep"
    /\ plock' = [plock EXCEPT ![p] = FALSE]
    /\ pc' = [pc EXCEPT ![p] = "woken"]
    /\ UNCHANGED <<consVars, lock, scan, n, target, got, state, taken>>

\* The scheduler runs the woken process again.
dispatch(p) ==
    /\ pc[p] = "woken" /\ state[p] = "RUNNABLE"
    /\ state' = [state EXCEPT ![p] = "RUNNING"]
    /\ UNCHANGED <<consVars, lock, scan, readVars, plock, taken>>

\* Mutant of read_eof: an end-of-file behind other characters is consumed.
read_eof_consumed(p) ==
    /\ pc[p] = "loop" /\ n[p] > 0 /\ r # w
    /\ At(r) = "eof"
    /\ r' = Inc(r) /\ taken' = "eof"
    /\ return(p)
    /\ UNCHANGED <<buf, w, e, scan, n, target, got, state, plock>>

\* ^D ends the read; when n < target (an int64 and a uint) it is put back (cons.r--).
read_eof(p) ==
    /\ pc[p] = "loop" /\ n[p] > 0 /\ r # w
    /\ At(r) = "eof"
    /\ IF n[p] < target[p] THEN UNCHANGED <<r, taken>> ELSE r' = Inc(r) /\ taken' = "eof"
    /\ return(p)
    /\ UNCHANGED <<buf, w, e, scan, n, target, got, state, plock>>

\* A character is taken and copied to the user's buffer; a newline ends the read.
read_char(p) ==
    /\ pc[p] = "loop" /\ n[p] > 0 /\ r # w
    /\ At(r) # "eof"
    /\ r' = Inc(r) /\ taken' = At(r)
    /\ got' = [got EXCEPT ![p] = Append(@, At(r))]
    /\ n' = [n EXCEPT ![p] = @ - 1]
    /\ IF At(r) = "lf" THEN return(p) ELSE UNCHANGED <<lock, pc>>
    /\ UNCHANGED <<buf, w, e, scan, target, state, plock>>

\* Mutant of read_fault: the character that was not copied is counted.
read_fault_counts(p) ==
    /\ pc[p] = "loop" /\ n[p] > 0 /\ r # w
    /\ At(r) # "eof"
    /\ r' = Inc(r) /\ taken' = At(r)
    /\ n' = [n EXCEPT ![p] = @ - 1]
    /\ return(p)
    /\ UNCHANGED <<buf, w, e, scan, target, got, state, plock>>

\* copy_to_user fails: the read ends and the character is gone.
read_fault(p) ==
    /\ pc[p] = "loop" /\ n[p] > 0 /\ r # w
    /\ At(r) # "eof"
    /\ r' = Inc(r) /\ taken' = At(r)
    /\ return(p)
    /\ UNCHANGED <<buf, w, e, scan, n, target, got, state, plock>>
-----------------------------------------------------------------------------
Type == consintr_kill \/ consintr_erase \/ (\E k \in Char \cup {"cr"} : consintr_char(k))
Handler == (\E p \in Reader : wakeup(p)) \/ consintr_end

Read(p) ==
    \/ read_acquire(p) \/ read_done(p) \/ read_sleep(p) \/ sleep(p) \/ switch_back(p)
    \/ dispatch(p) \/ read_eof(p) \/ read_char(p) \/ read_fault(p)

Next ==
    \/ Type \/ Handler
    \/ \E p \in Reader : Read(p) \/ \E len \in Length : read(p, len)

Spec == Init /\ [][Next]_vars

\* Harts execute, and a spinning acquire gets a lock that keeps becoming free.
\* Nobody has to type, and nobody has to read.
Fairness == WF_vars(Handler) /\ \A p \in Reader : SF_vars(Read(p))
FairSpec == Spec /\ Fairness
-----------------------------------------------------------------------------
\* The index k places after another, and the characters between two indices.
After(a, k) == (a + k) % W
Slice(from, to) == [k \in 1 .. Sub(to, from) |-> At(After(from, k - 1))]

\* r, w and e stay in this order and within one ring of each other, across the
\* wrap of the unsigned indices.
RingBounds == TypeOK /\ Sub(w, r) <= Sub(e, r) /\ Sub(e, r) <= N

\* Ring, indices and editing keys implement the line discipline.
Discipline == INSTANCE LineDiscipline WITH input <- Slice(r, w), line <- Slice(w, e)
ImplementsDiscipline == Discipline!Spec

\* p takes an end-of-file out of the ring, after having read something.
TakesEof(p) ==
    /\ pc[p] = "loop" /\ pc'[p] = "user"
    /\ r' # r /\ At(r) = "eof"
    /\ got'[p] # <<>>

\* "Save ^D for next time, to make sure caller gets a 0-byte result." (user_console_read):
\* an end-of-file leaves the ring only in a read that returns nothing.  THIS DOES NOT
\* HOLD.  A length of W or more is cut when it becomes target: the test n < target is then
\* false after any number of characters, and they and the ^D are taken by one read.
EofMeansZero == [][\A p \in Reader : ~TakesEof(p)]_vars

\* What does hold: it does so for every length that fits a uint (n and what has been
\* read make up the length).
ShortReadEof == [][\A p \in Reader : n[p] + Len(got[p]) < W => ~TakesEof(p)]_vars

\* What read() returns is the number of characters it has copied to the user, whatever
\* ended it: a full buffer, a newline, an end-of-file or a copy that failed and lost
\* its character.  (The cut of target is undone by the one in syscall().)
ReadCount == \A p \in Reader : (target[p] - n[p]) % W = Len(got[p]) % W

\* What has been committed gets read: a process in read() does not stay there for
\* ever while there is something for it to take.
CommittedIsRead ==
    \A p \in Reader : (pc[p] # "user" /\ r # w) ~> (pc[p] = "user" \/ r = w)
-----------------------------------------------------------------------------
\* The inductive invariant: besides the order of the indices,

\* cons.lock is held by the reader that looks at the ring, and by nobody else,
LockInv == \A p \in Reader : lock = p <=> pc[p] \in {"loop", "sleep"}

\* what has been typed is in the ring,
BufInv == \A k \in 0 .. Sub(e, r) - 1 : At(After(r, k)) \in Char

\* the line being edited holds no character that would have committed it,
LineInv == \A k \in 0 .. Sub(e, w) - 1 : At(After(w, k)) \notin {"lf", "eof"}

\* and n counts down, as characters are copied out, from the length that target is cut from.
ReadInv == \A p \in Reader : target[p] = (n[p] + Len(got[p])) % W

IInv == RingBounds /\ LockInv /\ BufInv /\ LineInv /\ ReadInv
====
