---- MODULE ConsoleProofs ----
\* Proofs about the console of os/console.c for every ring size, every width of the
\* indices and any number of readers.
EXTENDS Console, SequenceTheorems, TLAPS

\* The values of the unsigned indices.
Index == 0 .. W - 1

\* x % W, once around.
LEMMA WrapOnce ==
    ASSUME NEW x \in Int, 0 <= x, x < 2 * W
    PROVE  x % W \in Index /\ x % W = IF x < W THEN x ELSE x - W
<1>1. CASE x < W
  BY <1>1, SizeAssumption DEF Index
<1>2. CASE ~(x < W)
  BY <1>2, SizeAssumption DEF Index
<1>. QED BY <1>1, <1>2

\* Differences of indices do not notice the wrap.
LEMMA SubIs ==
    ASSUME NEW a \in Index, NEW b \in Index
    PROVE  Sub(a, b) \in Index /\ Sub(a, b) = IF b <= a THEN a - b ELSE a - b + W
<1>1. /\ a \in Int /\ b \in Int /\ W \in Int
      /\ a - b + W \in Int /\ 0 <= a - b + W /\ a - b + W < 2 * W
  BY SizeAssumption DEF Index
<1>2. Sub(a, b) \in Index /\ Sub(a, b) = IF a - b + W < W THEN a - b + W ELSE a - b + W - W
  BY <1>1, WrapOnce DEF Sub
<1>. QED BY <1>2, SizeAssumption DEF Index

\* cons.r++, cons.e++ and their wrap at W.
LEMMA IncIs ==
    ASSUME NEW a \in Index
    PROVE  Inc(a) \in Index /\ Inc(a) = IF a = W - 1 THEN 0 ELSE a + 1
<1>1. a \in Int /\ W \in Int /\ a + 1 \in Int /\ 0 <= a + 1 /\ a + 1 < 2 * W
  BY SizeAssumption DEF Index
<1>2. Inc(a) \in Index /\ Inc(a) = IF a + 1 < W THEN a + 1 ELSE a + 1 - W
  BY <1>1, WrapOnce DEF Inc
<1>. QED BY <1>2, SizeAssumption DEF Index

\* cons.e-- and its wrap at zero.
LEMMA DecIs ==
    ASSUME NEW a \in Index
    PROVE  Dec(a) \in Index /\ Dec(a) = IF a = 0 THEN W - 1 ELSE a - 1
<1>1. a \in Int /\ W \in Int /\ a - 1 + W \in Int /\ 0 <= a - 1 + W /\ a - 1 + W < 2 * W
  BY SizeAssumption DEF Index
<1>2. Dec(a) \in Index /\ Dec(a) = IF a - 1 + W < W THEN a - 1 + W ELSE a - 1 + W - W
  BY <1>1, WrapOnce DEF Dec
<1>. QED BY <1>2, SizeAssumption DEF Index

\* The index k places after a.
LEMMA AfterIs ==
    ASSUME NEW a \in Index, NEW k \in Index
    PROVE  After(a, k) \in Index /\ After(a, k) = IF a + k < W THEN a + k ELSE a + k - W
<1>1. a \in Int /\ k \in Int /\ W \in Int /\ a + k \in Int /\ 0 <= a + k /\ a + k < 2 * W
  BY SizeAssumption DEF Index
<1>. QED BY <1>1, WrapOnce DEF After

\* How distances and places move with the indices.
LEMMA Distances ==
    ASSUME NEW a \in Index, NEW b \in Index
    PROVE  /\ After(a, Sub(b, a)) = b
           /\ Sub(a, a) = 0
           /\ Sub(b, a) = 0 => a = b
           /\ Sub(b, a) < W - 1 => Sub(Inc(b), a) = Sub(b, a) + 1
           /\ a # b => Sub(b, Inc(a)) = Sub(b, a) - 1 /\ Sub(Dec(b), a) = Sub(b, a) - 1
<1>1. Sub(b, a) \in Index /\ Sub(b, a) = IF a <= b THEN b - a ELSE b - a + W
  BY SubIs
<1>2. After(a, Sub(b, a)) = IF a + Sub(b, a) < W THEN a + Sub(b, a) ELSE a + Sub(b, a) - W
  BY <1>1, AfterIs
<1>3. Sub(a, a) = 0
  BY SubIs, SizeAssumption DEF Index
<1>4. ASSUME Sub(b, a) < W - 1
      PROVE  Sub(Inc(b), a) = Sub(b, a) + 1
  <2>1. Inc(b) \in Index /\ Inc(b) = IF b = W - 1 THEN 0 ELSE b + 1
    BY IncIs
  <2>2. Sub(Inc(b), a) = IF a <= Inc(b) THEN Inc(b) - a ELSE Inc(b) - a + W
    BY <2>1, SubIs
  <2>. QED BY <1>1, <1>4, <2>1, <2>2, SizeAssumption DEF Index
<1>5. ASSUME a # b
      PROVE  Sub(b, Inc(a)) = Sub(b, a) - 1
  <2>1. Inc(a) \in Index /\ Inc(a) = IF a = W - 1 THEN 0 ELSE a + 1
    BY IncIs
  <2>2. Sub(b, Inc(a)) = IF Inc(a) <= b THEN b - Inc(a) ELSE b - Inc(a) + W
    BY <2>1, SubIs
  <2>. QED BY <1>1, <1>5, <2>1, <2>2, SizeAssumption DEF Index
<1>6. ASSUME a # b
      PROVE  Sub(Dec(b), a) = Sub(b, a) - 1
  <2>1. Dec(b) \in Index /\ Dec(b) = IF b = 0 THEN W - 1 ELSE b - 1
    BY DecIs
  <2>2. Sub(Dec(b), a) = IF a <= Dec(b) THEN Dec(b) - a ELSE Dec(b) - a + W
    BY <2>1, SubIs
  <2>. QED BY <1>1, <1>6, <2>1, <2>2, SizeAssumption DEF Index
<1>. QED BY <1>1, <1>2, <1>3, <1>4, <1>5, <1>6, SizeAssumption DEF Index

\* Three indices in order: distances add up, and places can be counted from any of them.
LEMMA Between ==
    ASSUME NEW a \in Index, NEW b \in Index, NEW c \in Index, Sub(b, a) <= Sub(c, a)
    PROVE  /\ Sub(c, b) = Sub(c, a) - Sub(b, a)
           /\ \A k \in 0 .. Sub(c, b) - 1 : After(b, k) = After(a, Sub(b, a) + k)
<1>1. Sub(b, a) \in Index /\ Sub(b, a) = IF a <= b THEN b - a ELSE b - a + W
  BY SubIs
<1>2. Sub(c, a) \in Index /\ Sub(c, a) = IF a <= c THEN c - a ELSE c - a + W
  BY SubIs
<1>3. Sub(c, b) \in Index /\ Sub(c, b) = IF b <= c THEN c - b ELSE c - b + W
  BY SubIs
<1>4. Sub(c, b) = Sub(c, a) - Sub(b, a)
  BY <1>1, <1>2, <1>3, SizeAssumption DEF Index
<1>5. ASSUME NEW k \in 0 .. Sub(c, b) - 1
      PROVE  After(b, k) = After(a, Sub(b, a) + k)
  <2>1. k \in Index /\ Sub(b, a) + k \in Index
    BY <1>1, <1>2, <1>3, <1>4, SizeAssumption DEF Index
  <2>2. After(b, k) = IF b + k < W THEN b + k ELSE b + k - W
    BY <2>1, AfterIs
  <2>3. After(a, Sub(b, a) + k) =
          IF a + (Sub(b, a) + k) < W THEN a + (Sub(b, a) + k) ELSE a + (Sub(b, a) + k) - W
    BY <2>1, AfterIs
  <2>. QED BY <1>1, <2>1, <2>2, <2>3, SizeAssumption DEF Index
<1>. QED BY <1>4, <1>5

\* The place behind the first one.
LEMMA AfterInc ==
    ASSUME NEW a \in Index, NEW k \in 0 .. W - 2
    PROVE  After(Inc(a), k) = After(a, k + 1)
<1>1. Inc(a) \in Index /\ Inc(a) = IF a = W - 1 THEN 0 ELSE a + 1
  BY IncIs
<1>2. k \in Index /\ k + 1 \in Index
  BY SizeAssumption DEF Index
<1>3. After(Inc(a), k) = IF Inc(a) + k < W THEN Inc(a) + k ELSE Inc(a) + k - W
  BY <1>1, <1>2, AfterIs
<1>4. After(a, k + 1) = IF a + (k + 1) < W THEN a + (k + 1) ELSE a + (k + 1) - W
  BY <1>2, AfterIs
<1>. QED BY <1>1, <1>2, <1>3, <1>4, SizeAssumption DEF Index

\* Division with remainder exists and is unique.
LEMMA Quotient ==
    ASSUME NEW x \in Nat
    PROVE  x \div N \in Int /\ x % N \in 0 .. N - 1 /\ x = N * (x \div N) + (x % N)
<1>1. N \in Nat /\ N > 0
  BY SizeAssumption
<1>2. x = N * (x \div N) + (x % N) /\ x \div N \in Int
  BY <1>1
<1>3. x % N \in 0 .. N - 1
  BY <1>1
<1>. QED BY <1>2, <1>3

\* Quotient and remainder by N are unique.
LEMMA Remainder ==
    ASSUME NEW p \in Int, NEW q \in Int, NEW x \in 0 .. N - 1, NEW y \in 0 .. N - 1,
           N * p + x = N * q + y
    PROVE  x = y
<1>1. N * (p - q) = y - x
  BY SizeAssumption
<1>2. CASE p - q >= 1
  <2>1. N * (p - q) >= N * 1
    BY <1>2, SizeAssumption
  <2>. QED BY <1>1, <2>1, SizeAssumption
<1>3. CASE p - q <= -1
  <2>1. N * (p - q) <= N * (-1)
    BY <1>3, SizeAssumption
  <2>. QED BY <1>1, <2>1, SizeAssumption
<1>4. CASE p = q
  BY <1>4, SizeAssumption
<1>. QED BY <1>2, <1>3, <1>4

\* Numbers with the same remainder are a multiple of N apart.
LEMMA SameSlot ==
    ASSUME NEW x \in Nat, NEW y \in Nat, x % N = y % N
    PROVE  \E s \in Int : y - x = N * s
<1>1. PICK p \in Int, t \in 0 .. N - 1 : x = N * p + t /\ t = x % N
  BY Quotient
<1>2. PICK q \in Int, u \in 0 .. N - 1 : y = N * q + u /\ u = y % N
  BY Quotient
<1>3. t = u /\ t \in Int /\ N \in Int
  BY <1>1, <1>2, SizeAssumption
<1>4. y - x = N * (q - p)
  BY <1>1, <1>2, <1>3
<1>. QED BY <1>4

\* Two places less than N apart are two slots of the ring, also across the wrap of the
\* indices, because W is a multiple of N.
LEMMA DistinctSlots ==
    ASSUME NEW a \in Index, NEW i \in Nat, NEW j \in Nat, i < j, j < N
    PROVE  After(a, i) % N # After(a, j) % N
<1>. SUFFICES ASSUME After(a, i) % N = After(a, j) % N PROVE FALSE
  OBVIOUS
<1>. DEFINE x == After(a, i)
            y == After(a, j)
<1>1. i \in Index /\ j \in Index
  BY SizeAssumption DEF Index
<1>2. /\ x \in Index /\ y \in Index
      /\ x = a + i \/ x = a + i - W
      /\ y = a + j \/ y = a + j - W
  BY <1>1, AfterIs
<1>3. PICK s \in Int : y - x = N * s
  <2>1. x \in Nat /\ y \in Nat
    BY <1>2, SizeAssumption DEF Index
  <2>. QED BY <2>1, SameSlot
<1>4. PICK m \in Int : W = N * m
  <2>1. W = N * (W \div N) + (W % N) /\ W \div N \in Int
    BY SizeAssumption, Quotient
  <2>. QED BY <2>1, SizeAssumption
<1>5. N \in Int /\ W \in Int /\ a \in Int /\ x \in Int /\ y \in Int
  BY <1>2, SizeAssumption DEF Index
<1>6. \E z \in Int : j - i = N * z
  <2>1. CASE y - x = j - i
    BY <1>3, <2>1
  <2>2. CASE y - x = j - i - W
    <3>1. j - i = N * (s + m)
      BY <1>3, <1>4, <1>5, <2>2
    <3>. QED BY <3>1
  <2>3. CASE y - x = j - i + W
    <3>1. j - i = N * (s - m)
      BY <1>3, <1>4, <1>5, <2>3
    <3>. QED BY <3>1
  <2>. QED BY <1>2, <1>5, <2>1, <2>2, <2>3
<1>7. PICK z \in Int : N * z + 0 = N * 0 + (j - i)
  BY <1>6, <1>5
<1>8. j - i \in 0 .. N - 1 /\ 0 \in 0 .. N - 1 /\ j - i # 0
  BY SizeAssumption
<1>. QED BY <1>7, <1>8, Remainder
-----------------------------------------------------------------------------
\* The ring: the part of the invariant about struct cons.
RingInv ==
    /\ r \in Index /\ w \in Index /\ e \in Index
    /\ buf \in [0 .. N - 1 -> Char \cup {None}]
    /\ Sub(w, r) <= Sub(e, r) /\ Sub(e, r) <= N
    /\ BufInv /\ LineInv

\* The lengths of what is committed and of what is being typed.
LEMMA Lengths ==
    ASSUME RingInv
    PROVE  /\ N \in Nat /\ W \in Nat /\ 0 < N /\ N < W
           /\ Sub(w, r) \in 0 .. N /\ Sub(e, r) \in 0 .. N /\ Sub(e, w) \in 0 .. N
           /\ Sub(e, w) = Sub(e, r) - Sub(w, r)
           /\ Sub(w, r) = 0 <=> r = w
           /\ Sub(e, w) = 0 <=> w = e
<1>0. N \in Nat /\ W \in Nat /\ 0 < N /\ N < W
  BY SizeAssumption
<1>1. Sub(w, r) \in Index /\ Sub(e, r) \in Index /\ Sub(e, w) \in Index
  BY SubIs DEF RingInv
<1>2. Sub(e, w) = Sub(e, r) - Sub(w, r)
  BY Between DEF RingInv
<1>3. (Sub(w, r) = 0 <=> r = w) /\ (Sub(e, w) = 0 <=> w = e)
  BY Distances DEF RingInv
<1>. QED BY <1>0, <1>1, <1>2, <1>3 DEF RingInv, Index

\* A step is seen by the ring through buf, r, w and e alone.
LEMMA NextRing ==
    /\ Sub(e, r)' = Sub(e', r') /\ Sub(w, r)' = Sub(w', r') /\ Sub(e, w)' = Sub(e', w')
    /\ \A k : At(After(r, k))' = buf'[After(r', k) % N]
    /\ \A k : At(After(w, k))' = buf'[After(w', k) % N]
BY DEF Sub, After, At

\* Every place of the ring is a slot of buf.
LEMMA SlotOf ==
    ASSUME NEW i \in Index
    PROVE  i % N \in 0 .. N - 1
BY SizeAssumption DEF Index

\* ^U takes back the whole line: there is no newline in it at which to stop.
LEMMA KillRing ==
    ASSUME RingInv, consintr_kill
    PROVE  RingInv' /\ e' = w
<1>0. /\ N \in Nat /\ W \in Nat /\ 0 < N /\ N < W
      /\ Sub(e, w) \in 0 .. N /\ Sub(w, r) \in 0 .. N
      /\ r \in Index /\ w \in Index /\ e \in Index
  BY Lengths DEF RingInv
<1>. DEFINE pending == Sub(e, w)
            stops == {k \in 0 .. pending : k = pending \/ At(Dec(Sub(e, k))) = "lf"}
<1>1. ASSUME NEW k \in 0 .. pending, k # pending
      PROVE  At(Dec(Sub(e, k))) # "lf"
  <2>1. k \in Index /\ pending - 1 - k \in 0 .. pending - 1 /\ pending - 1 - k \in Index
    BY <1>0, <1>1 DEF Index
  <2>2. Dec(Sub(e, k)) = After(w, pending - 1 - k)
    <3>1. pending = IF w <= e THEN e - w ELSE e - w + W
      BY <1>0, SubIs
    <3>2. Sub(e, k) \in Index /\ Sub(e, k) = IF k <= e THEN e - k ELSE e - k + W
      BY <1>0, <2>1, SubIs
    <3>3. Dec(Sub(e, k)) = IF Sub(e, k) = 0 THEN W - 1 ELSE Sub(e, k) - 1
      BY <3>2, DecIs
    <3>4. After(w, pending - 1 - k) =
            IF w + (pending - 1 - k) < W THEN w + (pending - 1 - k) ELSE w + (pending - 1 - k) - W
      BY <1>0, <2>1, AfterIs
    <3>. QED BY <1>0, <1>1, <2>1, <3>1, <3>2, <3>3, <3>4 DEF Index
  <2>. QED BY <2>1, <2>2 DEF RingInv, LineInv
<1>2. stops = {pending}
  BY <1>0, <1>1
<1>3. e' = Sub(e, pending)
  <2>1. e' = Sub(e, CHOOSE k \in stops : \A j \in stops : k <= j)
    BY DEF consintr_kill
  <2>2. (CHOOSE k \in stops : \A j \in stops : k <= j) = pending
    BY <1>0, <1>2
  <2>. QED BY <2>1, <2>2
<1>4. e' = w
  <2>1. pending = IF w <= e THEN e - w ELSE e - w + W
    BY <1>0, SubIs
  <2>2. pending \in Index
    BY <1>0 DEF Index
  <2>3. Sub(e, pending) = IF pending <= e THEN e - pending ELSE e - pending + W
    BY <1>0, <2>2, SubIs
  <2>. QED BY <1>0, <1>3, <2>1, <2>2, <2>3 DEF Index
<1>5. UNCHANGED <<buf, r, w>>
  BY DEF consintr_kill
<1>6. Sub(w, w) = 0
  BY <1>0, Distances
<1>7. BufInv' /\ LineInv'
  <2>1. \A k \in 0 .. Sub(w, r) - 1 : At(After(r, k)) \in Char
    BY <1>0, Lengths DEF RingInv, BufInv
  <2>2. \A k : At(After(r, k))' = At(After(r, k))
    BY <1>5 DEF At, After
  <2>3. Sub(e, r)' = Sub(w, r) /\ Sub(e, w)' = 0
    BY <1>4, <1>5, <1>6, NextRing
  <2>. QED BY <2>1, <2>2, <2>3 DEF BufInv, LineInv
<1>. QED BY <1>0, <1>4, <1>5, <1>7, NextRing DEF RingInv

\* An erase takes back the last character of the line, and none that is committed.
LEMMA EraseRing ==
    ASSUME RingInv, consintr_erase
    PROVE  RingInv' /\ Sub(e, w)' = Sub(e, w) - 1
<1>0. /\ N \in Nat /\ W \in Nat /\ 0 < N /\ N < W
      /\ Sub(e, w) \in 0 .. N /\ Sub(w, r) \in 0 .. N /\ Sub(e, r) \in 0 .. N
      /\ Sub(e, w) = Sub(e, r) - Sub(w, r)
      /\ r \in Index /\ w \in Index /\ e \in Index
  BY Lengths DEF RingInv
<1>1. e # w /\ e' = Dec(e) /\ UNCHANGED <<buf, r, w>>
  BY DEF consintr_erase
<1>2. Sub(e, w) # 0
  BY <1>1, Lengths
<1>3. e # r
  BY <1>0, <1>2, Distances
<1>4. e' \in Index /\ Sub(e, w)' = Sub(e, w) - 1 /\ Sub(e, r)' = Sub(e, r) - 1
  BY <1>0, <1>1, <1>3, DecIs, Distances, NextRing
<1>5. \A k : At(After(r, k))' = At(After(r, k)) /\ At(After(w, k))' = At(After(w, k))
  BY <1>1 DEF At, After
<1>6. BufInv'
  BY <1>0, <1>4, <1>5 DEF RingInv, BufInv
<1>7. LineInv'
  BY <1>0, <1>4, <1>5 DEF RingInv, LineInv
<1>8. Sub(w, r)' = Sub(w, r)
  BY <1>1, NextRing
<1>. QED BY <1>0, <1>1, <1>2, <1>4, <1>6, <1>7, <1>8 DEF RingInv

\* A key is stored behind the others, in a slot that none of them uses.
LEMMA CharRing ==
    ASSUME RingInv, NEW key \in Char \cup {"cr"}, consintr_char(key), NEW c,
           c = IF key = "cr" THEN "lf" ELSE key
    PROVE  /\ RingInv'
           /\ c \in Char
           /\ Sub(e, r)' = Sub(e, r) + 1 /\ Sub(e, r) < N
           /\ \A k \in 0 .. Sub(e, r) - 1 : At(After(r, k))' = At(After(r, k))
           /\ buf'[e % N] = c
           /\ r' = r
           /\ IF c \in {"lf", "eof"} \/ Sub(e, r) + 1 = N THEN w' = e' ELSE w' = w
<1>0. /\ N \in Nat /\ W \in Nat /\ 0 < N /\ N < W
      /\ Sub(e, w) \in 0 .. N /\ Sub(w, r) \in 0 .. N /\ Sub(e, r) \in 0 .. N
      /\ Sub(e, w) = Sub(e, r) - Sub(w, r)
      /\ r \in Index /\ w \in Index /\ e \in Index
  BY Lengths DEF RingInv
<1>1. /\ Sub(e, r) < N /\ buf' = [buf EXCEPT ![e % N] = c]
      /\ e' = Inc(e) /\ r' = r
      /\ IF c \in {"lf", "eof"} \/ Sub(Inc(e), r) = N THEN w' = e' ELSE w' = w
  BY DEF consintr_char, Commits
<1>2. c \in Char
  BY DEF Char
<1>3. e' \in Index /\ Sub(e', r) = Sub(e, r) + 1 /\ Sub(e, r)' = Sub(e, r) + 1
  BY <1>0, <1>1, IncIs, Distances, NextRing
<1>4. IF c \in {"lf", "eof"} \/ Sub(e, r) + 1 = N THEN w' = e' ELSE w' = w
  BY <1>1, <1>3
<1>5. e % N \in 0 .. N - 1 /\ After(r, Sub(e, r)) = e
  BY <1>0, SlotOf, Distances
<1>6. buf' \in [0 .. N - 1 -> Char \cup {None}] /\ buf'[e % N] = c
  BY <1>1, <1>2, <1>5 DEF RingInv
<1>7. ASSUME NEW k \in 0 .. Sub(e, r) - 1
      PROVE  At(After(r, k))' = At(After(r, k))
  <2>1. After(r, k) \in Index
    <3>1. k \in Index
      BY <1>0, <1>7 DEF Index
    <3>. QED BY <1>0, <3>1, AfterIs
  <2>2. After(r, k) % N \in 0 .. N - 1
    BY <2>1, SlotOf
  <2>3. After(r, k) % N # e % N
    BY <1>0, <1>1, <1>5, <1>7, DistinctSlots
  <2>. QED BY <1>1, <2>2, <2>3, NextRing DEF RingInv, At
<1>8. BufInv'
  <2>1. ASSUME NEW k \in 0 .. Sub(e, r)
        PROVE  buf'[After(r, k) % N] \in Char
    <3>1. CASE k = Sub(e, r)
      BY <1>2, <1>5, <1>6, <3>1
    <3>2. CASE k # Sub(e, r)
      <4>1. k \in 0 .. Sub(e, r) - 1
        BY <1>0, <3>2
      <4>2. At(After(r, k))' \in Char
        BY <1>7, <4>1 DEF RingInv, BufInv
      <4>. QED BY <1>1, <4>2, NextRing
    <3>. QED BY <3>1, <3>2
  <2>. QED BY <1>0, <1>1, <1>3, <2>1, NextRing DEF BufInv
<1>9. LineInv' /\ Sub(w, r)' <= Sub(e, r)' /\ w' \in Index
  <2>1. CASE w' = e'
    <3>1. Sub(e, w)' = 0
      BY <1>3, <2>1, Distances, NextRing
    <3>2. Sub(w, r)' = Sub(e, r)'
      BY <2>1, NextRing
    <3>. QED BY <1>0, <1>3, <2>1, <3>1, <3>2 DEF LineInv
  <2>2. CASE w' = w /\ c \notin {"lf", "eof"}
    <3>1. Sub(w, r)' = Sub(w, r) /\ Sub(e, w)' = Sub(e, w) + 1
      BY <1>0, <1>1, <2>2, Distances, NextRing
    <3>2. ASSUME NEW k \in 0 .. Sub(e, w)
          PROVE  buf'[After(w, k) % N] \notin {"lf", "eof"}
      <4>1. CASE After(w, k) % N = e % N
        BY <1>6, <2>2, <4>1
      <4>2. CASE After(w, k) % N # e % N
        <5>1. k # Sub(e, w)
          BY <1>0, <4>2, Distances
        <5>2. After(w, k) \in Index /\ After(w, k) % N \in 0 .. N - 1
          <6>1. k \in Index
            BY <1>0, <3>2 DEF Index
          <6>. QED BY <1>0, <6>1, AfterIs, SlotOf
        <5>3. At(After(w, k)) \notin {"lf", "eof"}
          BY <1>0, <5>1 DEF RingInv, LineInv
        <5>. QED BY <1>1, <4>2, <5>2, <5>3 DEF RingInv, At
      <4>. QED BY <4>1, <4>2
    <3>. QED BY <1>0, <1>3, <2>2, <3>1, <3>2, NextRing DEF LineInv
  <2>. QED BY <1>4, <2>1, <2>2
<1>10. RingInv'
  BY <1>0, <1>1, <1>3, <1>6, <1>8, <1>9 DEF RingInv
<1>. QED BY <1>1, <1>2, <1>3, <1>4, <1>6, <1>7, <1>10

\* Taking a committed character leaves the others where they are.
LEMMA TakeRing ==
    ASSUME RingInv, r # w, r' = Inc(r), UNCHANGED <<buf, w, e>>
    PROVE  /\ RingInv'
           /\ At(r) \in Char
           /\ Sub(w, r)' = Sub(w, r) - 1
           /\ \A k \in 0 .. Sub(e, r) - 2 : At(After(r, k))' = At(After(r, k + 1))
<1>0. /\ N \in Nat /\ W \in Nat /\ 0 < N /\ N < W
      /\ Sub(e, w) \in 0 .. N /\ Sub(w, r) \in 0 .. N /\ Sub(e, r) \in 0 .. N
      /\ Sub(e, w) = Sub(e, r) - Sub(w, r)
      /\ r \in Index /\ w \in Index /\ e \in Index
  BY Lengths DEF RingInv
<1>1. Sub(w, r) # 0 /\ Sub(e, r) # 0 /\ e # r
  BY <1>0, Lengths, Distances
<1>2. r' \in Index /\ Sub(w, r)' = Sub(w, r) - 1 /\ Sub(e, r)' = Sub(e, r) - 1
  BY <1>0, <1>1, IncIs, Distances, NextRing
<1>3. ASSUME NEW k \in 0 .. Sub(e, r) - 2
      PROVE  At(After(r, k))' = At(After(r, k + 1))
  <2>1. After(r', k) = After(r, k + 1)
    BY <1>0, <1>3, AfterInc
  <2>. QED BY <2>1, NextRing DEF At
<1>4. At(r) \in Char
  <2>1. After(r, 0) = r
    BY <1>0, AfterIs DEF Index
  <2>. QED BY <1>0, <1>1, <2>1 DEF RingInv, BufInv
<1>5. BufInv'
  <2>1. \A k \in 0 .. Sub(e, r) - 2 : k + 1 \in 0 .. Sub(e, r) - 1
    BY <1>0
  <2>. QED BY <1>0, <1>2, <1>3, <2>1 DEF RingInv, BufInv
<1>6. LineInv' /\ Sub(e, w)' = Sub(e, w)
  BY NextRing DEF RingInv, LineInv, At
<1>. QED BY <1>0, <1>1, <1>2, <1>3, <1>4, <1>5, <1>6 DEF RingInv
-----------------------------------------------------------------------------
\* The steps of consintr and of the readers that leave struct cons alone.
RingStays == UNCHANGED <<buf, r, w, e>>

\* Those steps keep what is known of the ring.
LEMMA StayRing ==
    ASSUME RingInv, RingStays
    PROVE  RingInv'
BY DEF RingInv, RingStays, BufInv, LineInv, Sub, At, After

\* What each action does to the ring.
LEMMA RingStep ==
    ASSUME RingInv, Next
    PROVE  RingInv'
<1>1. CASE Type
  BY <1>1, KillRing, EraseRing, CharRing DEF Type
<1>2. CASE Handler
  <2>1. RingStays
    BY <1>2 DEF Handler, wakeup, consintr_end, RingStays, consVars
  <2>. QED BY <2>1, StayRing
<1>3. ASSUME NEW p \in Reader, NEW len \in Length, read(p, len)
      PROVE  RingInv'
  <2>1. RingStays
    BY <1>3 DEF read, RingStays, consVars
  <2>. QED BY <2>1, StayRing
<1>4. ASSUME NEW p \in Reader, Read(p)
      PROVE  RingInv'
  <2>1. CASE read_char(p) \/ read_fault(p)
    BY <2>1, TakeRing DEF read_char, read_fault
  <2>2. CASE read_eof(p)
    <3>1. CASE n[p] < target[p]
      BY <2>2, <3>1, StayRing DEF read_eof, RingStays
    <3>2. CASE ~(n[p] < target[p])
      BY <2>2, <3>2, TakeRing DEF read_eof
    <3>. QED BY <3>1, <3>2
  <2>3. CASE \/ read_acquire(p) \/ read_done(p) \/ read_sleep(p) \/ sleep(p)
             \/ switch_back(p) \/ dispatch(p)
    <3>1. RingStays
      BY <2>3 DEF read_acquire, read_done, read_sleep, sleep, switch_back, dispatch,
                  RingStays, consVars
    <3>. QED BY <3>1, StayRing
  <2>. QED BY <1>4, <2>1, <2>2, <2>3 DEF Read
<1>. QED BY <1>1, <1>2, <1>3, <1>4 DEF Next

\* The remainder by W, of any integer.
LEMMA CutToUint ==
    ASSUME NEW x \in Int
    PROVE  x \div W \in Int /\ x % W \in 0 .. W - 1 /\ x = W * (x \div W) + (x % W)
<1>1. W \in Int /\ W > 0
  BY SizeAssumption
<1>2. x = W * (x \div W) + (x % W) /\ x \div W \in Int
  BY <1>1
<1>3. x % W \in 0 .. W - 1
  BY <1>1
<1>. QED BY <1>2, <1>3

\* It is unchanged by a multiple of W.
LEMMA CutOnce ==
    ASSUME NEW x \in Int, NEW y \in Int, NEW k \in Int, x = y + W * k
    PROVE  x % W = y % W
<1>1. W \in Int /\ W > 0
  BY SizeAssumption
<1>2. PICK p \in Int, s \in 0 .. W - 1 : s = x % W /\ x = W * p + s
  BY CutToUint
<1>3. PICK q \in Int, t \in 0 .. W - 1 : t = y % W /\ y = W * q + t
  BY CutToUint
<1>4. s \in Int /\ t \in Int /\ 0 <= s /\ s < W /\ 0 <= t /\ t < W
  BY <1>1, <1>2, <1>3
<1>5. PICK m \in Int : m = p - q - k
  BY <1>1
<1>6. W * m = t - s
  BY <1>1, <1>2, <1>3, <1>4, <1>5
<1>7. CASE m >= 1
  <2>1. W * m >= W * 1
    BY <1>1, <1>7
  <2>. QED BY <1>1, <1>4, <1>6, <2>1
<1>8. CASE m <= -1
  <2>1. W * m <= W * (-1)
    BY <1>1, <1>8
  <2>. QED BY <1>1, <1>4, <1>6, <2>1
<1>9. CASE m = 0
  BY <1>1, <1>2, <1>3, <1>4, <1>6, <1>9
<1>. QED BY <1>7, <1>8, <1>9

\* What read() returns, modulo W: the cut of target does not show.
LEMMA CutDifference ==
    ASSUME NEW len \in Int, NEW left \in Int
    PROVE  ((len % W) - left) % W = (len - left) % W
<1>1. PICK q \in Int, t \in 0 .. W - 1 : t = len % W /\ len = W * q + t
  BY CutToUint
<1>2. W \in Int /\ t \in Int
  BY <1>1, SizeAssumption
<1>3. PICK x \in Int : x = len - left
  BY <1>2
<1>4. PICK y \in Int : y = t - left
  BY <1>2
<1>5. x = y + W * q
  <2>1. PICK k \in Int : k = W * q
    BY <1>1, <1>2
  <2>2. len = k + t
    BY <1>1, <2>1
  <2>. QED BY <1>2, <1>3, <1>4, <2>1, <2>2
<1>6. x % W = y % W
  BY <1>5, CutOnce
<1>. QED BY <1>1, <1>3, <1>4, <1>6

\* The rest of the invariant: the types of everything but the ring, cons.lock, and the
\* counters of the readers.
ControlType ==
    /\ lock \in Reader \cup {Intr, None}
    /\ scan \in SUBSET Reader
    /\ pc \in [Reader -> ReadPC]
    /\ n \in [Reader -> Int]
    /\ target \in [Reader -> 0 .. W - 1]
    /\ got \in [Reader -> Seq(Char)]
    /\ state \in [Reader -> {"RUNNING", "SLEEPING", "RUNNABLE"}]
    /\ plock \in [Reader -> BOOLEAN]
    /\ taken \in Char \cup {None}

\* IInv as the ring, the types of the control state, the lock and the readers.
LEMMA Parts == IInv <=> RingInv /\ ControlType /\ LockInv /\ ReadInv
BY DEF IInv, RingBounds, TypeOK, RingInv, ControlType, Index

\* The same in the next state.
LEMMA PartsNext == IInv' <=> RingInv' /\ ControlType' /\ LockInv' /\ ReadInv'
BY DEF IInv, RingBounds, TypeOK, RingInv, ControlType, Index

\* A reader takes and gives back cons.lock, and counts what it copies.
LEMMA ControlStep ==
    ASSUME IInv, Next
    PROVE  ControlType' /\ LockInv' /\ ReadInv'
<1>0. RingInv /\ ControlType /\ LockInv /\ ReadInv
  BY Parts
<1>1. CASE Type
  <2>1. UNCHANGED <<readVars, state, plock, taken>> /\ lock = None
    BY <1>1 DEF Type, consintr_kill, consintr_erase, consintr_char
  <2>2. lock' \in {None, Intr} /\ scan' \in SUBSET Reader
    BY <1>0, <1>1 DEF Type, consintr_kill, consintr_erase, consintr_char, ControlType
  <2>. QED BY <1>0, <2>1, <2>2, NoneAssumption DEF ControlType, LockInv, ReadInv, readVars
<1>2. CASE Handler
  BY <1>0, <1>2, NoneAssumption DEF Handler, wakeup, consintr_end, readVars, ControlType, LockInv, ReadInv
<1>3. ASSUME NEW p \in Reader, NEW len \in Length, read(p, len)
      PROVE  ControlType' /\ LockInv' /\ ReadInv'
  <2>1. ControlType'
    <3>1. len % W \in 0 .. W - 1
      BY CutToUint, LengthAssumption
    <3>2. <<>> \in Seq(Char) /\ len \in Int
      BY LengthAssumption
    <3>. QED BY <1>0, <1>3, <3>1, <3>2 DEF read, ControlType, ReadPC
  <2>2. LockInv'
    BY <1>0, <1>3 DEF read, ControlType, LockInv
  <2>3. ReadInv'
    <3>1. /\ n' = [n EXCEPT ![p] = len]
          /\ target' = [target EXCEPT ![p] = len % W]
          /\ got' = [got EXCEPT ![p] = <<>>]
      BY <1>3 DEF read
    <3>2. Len(<<>>) = 0 /\ len + 0 = len
      BY LengthAssumption
    <3>. QED BY <1>0, <3>1, <3>2 DEF ControlType, ReadInv
  <2>. QED BY <2>1, <2>2, <2>3
<1>4. ASSUME NEW p \in Reader,
             \/ read_acquire(p) \/ read_done(p) \/ read_sleep(p) \/ sleep(p)
             \/ switch_back(p) \/ dispatch(p)
      PROVE  ControlType' /\ LockInv' /\ ReadInv'
  <2>1. ControlType'
    BY <1>0, <1>4 DEF read_acquire, read_done, return, read_sleep, sleep, switch_back, dispatch,
                      readVars, ControlType, ReadPC
  <2>2. LockInv'
    BY <1>0, <1>4, NoneAssumption
       DEF read_acquire, read_done, return, read_sleep, sleep, switch_back, dispatch,
           readVars, ControlType, LockInv
  <2>3. ReadInv'
    BY <1>0, <1>4 DEF read_acquire, read_done, return, read_sleep, sleep, switch_back, dispatch,
                      readVars, ControlType, ReadInv
  <2>. QED BY <2>1, <2>2, <2>3
<1>5. ASSUME NEW p \in Reader, read_eof(p) \/ read_fault(p)
      PROVE  ControlType' /\ LockInv' /\ ReadInv'
  <2>1. r # w /\ (r' = r \/ r' = Inc(r)) /\ UNCHANGED <<buf, w, e, scan, n, target, got, state, plock>>
    BY <1>5 DEF read_eof, read_fault
  <2>2. taken' \in Char \cup {None}
    <3>1. taken' \in {taken, "eof"} \/ (taken' = At(r) /\ r' = Inc(r))
      BY <1>5 DEF read_eof, read_fault
    <3>2. r' = Inc(r) => At(r) \in Char
      BY <1>0, <2>1, TakeRing
    <3>. QED BY <1>0, <3>1, <3>2 DEF ControlType, Char
  <2>3. pc[p] = "loop" /\ lock' = None /\ pc' = [pc EXCEPT ![p] = "user"]
    BY <1>5 DEF read_eof, read_fault, return
  <2>4. ControlType'
    BY <1>0, <2>1, <2>2, <2>3 DEF ControlType, ReadPC
  <2>5. LockInv'
    BY <1>0, <2>3, NoneAssumption DEF ControlType, LockInv
  <2>6. ReadInv'
    BY <1>0, <2>1, <2>3 DEF ControlType, ReadInv
  <2>. QED BY <2>4, <2>5, <2>6
<1>6. ASSUME NEW p \in Reader, read_char(p)
      PROVE  ControlType' /\ LockInv' /\ ReadInv'
  <2>1. At(r) \in Char
    BY <1>0, <1>6, TakeRing DEF read_char
  <2>2. /\ pc[p] = "loop" /\ n[p] > 0 /\ taken' = At(r)
        /\ got' = [got EXCEPT ![p] = Append(got[p], At(r))]
        /\ n' = [n EXCEPT ![p] = n[p] - 1]
        /\ \/ lock' = None /\ pc' = [pc EXCEPT ![p] = "user"]
           \/ UNCHANGED <<lock, pc>>
        /\ UNCHANGED <<scan, target, state, plock>>
    BY <1>6 DEF read_char, return
  <2>3. /\ Append(got[p], At(r)) \in Seq(Char)
        /\ Len(got[p]) \in Nat /\ Len(Append(got[p], At(r))) = Len(got[p]) + 1
    <3>1. got[p] \in Seq(Char)
      BY <1>0 DEF ControlType
    <3>. QED BY <2>1, <3>1, AppendProperties, LenProperties
  <2>4. n[p] \in Int /\ n[p] - 1 \in Int
    <3>1. n[p] \in Int
      BY <1>0 DEF ControlType
    <3>. QED BY <2>2, <3>1, LengthAssumption
  <2>5. ControlType'
    BY <1>0, <2>1, <2>2, <2>3, <2>4 DEF ControlType, ReadPC
  <2>6. LockInv'
    BY <1>0, <2>2, NoneAssumption DEF ControlType, LockInv
  <2>7. ReadInv'
    <3>1. n'[p] + Len(got'[p]) = n[p] + Len(got[p])
      <4>1. n'[p] = n[p] - 1 /\ Len(got'[p]) = Len(got[p]) + 1
        BY <1>0, <2>2, <2>3 DEF ControlType
      <4>. QED BY <2>3, <2>4, <4>1
    <3>2. \A q \in Reader \ {p} : UNCHANGED <<n[q], target[q], got[q]>>
      BY <1>0, <2>2 DEF ControlType
    <3>3. target'[p] = target[p]
      BY <2>2
    <3>. QED BY <1>0, <3>1, <3>2, <3>3 DEF ReadInv
  <2>. QED BY <2>5, <2>6, <2>7
<1>. QED BY <1>1, <1>2, <1>3, <1>4, <1>5, <1>6 DEF Next, Read

\* The invariant is inductive.
LEMMA IInvInductive == Spec => []IInv
<1>1. Init => IInv
  <2>. SUFFICES ASSUME Init PROVE IInv
    OBVIOUS
  <2>1. RingInv
    <3>1. 0 \in Index /\ Sub(0, 0) = 0
      BY SizeAssumption, Distances DEF Index
    <3>. QED BY <3>1, SizeAssumption DEF Init, RingInv, BufInv, LineInv
  <2>2. ControlType /\ LockInv /\ ReadInv
    <3>1. Len(<<>>) = 0 /\ (0 + 0) % W = 0 /\ 0 \in 0 .. W - 1 /\ 0 \in Int
      BY SizeAssumption, LengthAssumption
    <3>2. <<>> \in Seq(Char)
      OBVIOUS
    <3>. QED BY <3>1, <3>2, NoneAssumption DEF Init, ControlType, ReadPC, LockInv, ReadInv
  <2>. QED BY <2>1, <2>2, Parts
<1>2. IInv /\ [Next]_vars => IInv'
  <2>1. ASSUME IInv, Next PROVE IInv'
    BY <2>1, Parts, PartsNext, RingStep, ControlStep
  <2>2. ASSUME IInv, UNCHANGED vars PROVE IInv'
    BY <2>2 DEF IInv, RingBounds, TypeOK, LockInv, BufInv, LineInv, ReadInv, Sub, At, After,
                vars, consVars, readVars
  <2>. QED BY <2>1, <2>2
<1>. QED BY <1>1, <1>2, PTL DEF Spec

\* The indices of struct cons stay in order and within one ring of each other for
\* every INPUT_BUF_SIZE that divides the range of unsigned int.
THEOREM ConsoleRingBounds == Spec => []RingBounds
<1>1. IInv => RingBounds
  BY DEF IInv
<1>. QED BY <1>1, IInvInductive, PTL

\* cons.lock: at most one reader is between its acquire and its release, and none
\* while consintr holds the lock over wakeup().
ReadersExclude ==
    \A p, q \in Reader :
        pc[p] \in {"loop", "sleep"} /\ pc[q] \in {"loop", "sleep"} => p = q /\ lock = p

\* No two readers are inside the critical section of user_console_read.
THEOREM ConsoleReadersExclude == Spec => []ReadersExclude
<1>1. IInv => ReadersExclude
  BY DEF IInv, LockInv, ReadersExclude
<1>. QED BY <1>1, IInvInductive, PTL

\* An end-of-file leaves the ring only in a read that returns nothing, if the length
\* that was asked for fits the uint in which user_console_read() keeps it.
THEOREM ConsoleShortReadEof == Spec => ShortReadEof
<1>. DEFINE A == \A p \in Reader : n[p] + Len(got[p]) < W => ~TakesEof(p)
<1>1. ASSUME IInv, Next, NEW p \in Reader, n[p] + Len(got[p]) < W, TakesEof(p)
      PROVE  FALSE
  <2>0. ControlType /\ ReadInv
    BY <1>1, Parts
  <2>a. pc[p] = "loop" /\ pc'[p] = "user" /\ r' # r /\ At(r) = "eof" /\ got'[p] # <<>>
    BY <1>1 DEF TakesEof
  <2>1. PICK q \in Reader : read_eof(q)
    BY <1>1, <2>a
       DEF Next, Type, consintr_kill, consintr_erase, consintr_char, Handler, wakeup,
           consintr_end, Read, read_acquire, read_done, read_sleep, sleep, switch_back,
           dispatch, read_char, read_fault, read, consVars
  <2>2. q = p
    BY <2>0, <2>1, <2>a DEF read_eof, return, ControlType
  <2>3. n[p] > 0 /\ ~(n[p] < target[p]) /\ got' = got
    BY <2>1, <2>2, <2>a DEF read_eof
  <2>4. n[p] \in Int /\ got[p] \in Seq(Char) /\ Len(got[p]) \in Nat
    BY <2>0, LengthAssumption, LenProperties DEF ControlType
  <2>5. (n[p] + Len(got[p])) % W = n[p] + Len(got[p])
    <3>1. PICK len \in Int : len = n[p] + Len(got[p])
      BY <2>4
    <3>2. 0 <= len /\ len < W /\ W \in Int
      BY <1>1, <2>3, <2>4, <3>1, SizeAssumption
    <3>3. len % W = len
      BY <3>2
    <3>. QED BY <3>1, <3>3
  <2>6. target[p] = n[p] + Len(got[p])
    BY <2>0, <2>5 DEF ReadInv
  <2>7. Len(got[p]) = 0
    BY <2>3, <2>4, <2>6
  <2>. QED BY <2>3, <2>4, <2>7, <2>a, EmptySeq
<1>2. IInv /\ [Next]_vars => [A]_vars
  BY <1>1
<1>. QED BY <1>2, IInvInductive, PTL DEF Spec, ShortReadEof

\* read() returns the number of characters it has given to the user, also when a copy
\* fails half way and when the length does not fit a uint.
THEOREM ConsoleReadCount == Spec => []ReadCount
<1>1. ASSUME IInv PROVE ReadCount
  <2> SUFFICES ASSUME NEW p \in Reader
               PROVE  (target[p] - n[p]) % W = Len(got[p]) % W
    BY DEF ReadCount
  <2>0. ControlType /\ ReadInv
    BY <1>1, Parts
  <2>1. PICK k \in Int : k = n[p]
    BY <2>0, LengthAssumption DEF ControlType
  <2>2. PICK l \in Int : l = Len(got[p])
    BY <2>0, LenProperties DEF ControlType
  <2>3. PICK len \in Int : len = k + l
    OBVIOUS
  <2>4. target[p] = len % W
    BY <2>0, <2>1, <2>2, <2>3 DEF ReadInv
  <2>5. ((len % W) - k) % W = (len - k) % W
    BY CutDifference
  <2>6. len - k = l
    BY <2>3
  <2>. QED BY <2>1, <2>2, <2>4, <2>5, <2>6
<1>2. IInv => ReadCount
  BY <1>1
<1>. QED BY <1>2, IInvInductive, PTL
-----------------------------------------------------------------------------
\* The refinement of LineDiscipline.

\* The characters between two indices, of any ring.
Chars(b, x, y) == [k \in 1 .. Sub(y, x) |-> b[After(x, k - 1) % N]]

\* Slice is Chars of this state's ring, and of the next state's in the next state.
LEMMA SliceIsChars ==
    /\ Slice(r, w) = Chars(buf, r, w) /\ Slice(w, e) = Chars(buf, w, e)
    /\ Slice(r, w)' = Chars(buf', r', w') /\ Slice(w, e)' = Chars(buf', w', e')
BY DEF Slice, Chars, At, Sub, After

\* Both slices are sequences of characters, counted from r.
LEMMA CharsOfRing ==
    ASSUME NEW b, NEW x \in Index, NEW y \in Index, NEW z \in Index,
           Sub(y, x) <= Sub(z, x),
           \A k \in 0 .. Sub(z, x) - 1 : b[After(x, k) % N] \in Char
    PROVE  /\ Sub(y, x) \in Nat /\ Sub(z, y) \in Nat /\ Sub(z, y) = Sub(z, x) - Sub(y, x)
           /\ Chars(b, x, y) \in Seq(Char) /\ Len(Chars(b, x, y)) = Sub(y, x)
           /\ \A k \in 1 .. Sub(y, x) : Chars(b, x, y)[k] = b[After(x, k - 1) % N]
           /\ Chars(b, y, z) \in Seq(Char) /\ Len(Chars(b, y, z)) = Sub(z, y)
           /\ \A k \in 1 .. Sub(z, y) : Chars(b, y, z)[k] = b[After(x, Sub(y, x) + (k - 1)) % N]
<1>1. Sub(y, x) \in Nat /\ Sub(z, y) \in Nat /\ Sub(z, x) \in Nat /\ Sub(z, y) = Sub(z, x) - Sub(y, x)
  BY SubIs, Between, SizeAssumption DEF Index
<1>2. \A k \in 1 .. Sub(y, x) : b[After(x, k - 1) % N] \in Char
  BY <1>1
<1>3. \A k \in 1 .. Sub(z, y) :
         /\ After(y, k - 1) = After(x, Sub(y, x) + (k - 1))
         /\ Sub(y, x) + (k - 1) \in 0 .. Sub(z, x) - 1
  BY <1>1, Between
<1>4. \A k \in 1 .. Sub(z, y) : b[After(y, k - 1) % N] \in Char
  BY <1>3
<1>5. Chars(b, x, y) \in [1 .. Sub(y, x) -> Char] /\ Chars(b, y, z) \in [1 .. Sub(z, y) -> Char]
  BY <1>2, <1>4 DEF Chars
<1>6. Chars(b, x, y) \in Seq(Char) /\ Len(Chars(b, x, y)) = Sub(y, x)
  BY <1>1, <1>5
<1>7. Chars(b, y, z) \in Seq(Char) /\ Len(Chars(b, y, z)) = Sub(z, y)
  BY <1>1, <1>5
<1>. QED BY <1>1, <1>3, <1>6, <1>7 DEF Chars

\* What is committed and what is being typed, as the reader of this module sees them.
LEMMA Lines ==
    ASSUME RingInv
    PROVE  /\ Slice(r, w) \in Seq(Char) /\ Len(Slice(r, w)) = Sub(w, r)
           /\ \A k \in 1 .. Sub(w, r) : Slice(r, w)[k] = At(After(r, k - 1))
           /\ Slice(w, e) \in Seq(Char) /\ Len(Slice(w, e)) = Sub(e, w)
           /\ \A k \in 1 .. Sub(e, w) : Slice(w, e)[k] = At(After(r, Sub(w, r) + (k - 1)))
<1>1. /\ r \in Index /\ w \in Index /\ e \in Index /\ Sub(w, r) <= Sub(e, r)
      /\ \A k \in 0 .. Sub(e, r) - 1 : buf[After(r, k) % N] \in Char
  BY DEF RingInv, BufInv, At
<1>. QED BY <1>1, CharsOfRing, SliceIsChars DEF At

\* The same in the next state.
LEMMA LinesNext ==
    ASSUME RingInv'
    PROVE  /\ Slice(r, w)' \in Seq(Char) /\ Len(Slice(r, w)') = Sub(w, r)'
           /\ \A k \in 1 .. Sub(w, r)' : Slice(r, w)'[k] = At(After(r, k - 1))'
           /\ Slice(w, e)' \in Seq(Char) /\ Len(Slice(w, e)') = Sub(e, w)'
           /\ \A k \in 1 .. Sub(e, w)' : Slice(w, e)'[k] = buf'[After(r', Sub(w, r)' + (k - 1)) % N]
<1>1. /\ r' \in Index /\ w' \in Index /\ e' \in Index /\ Sub(w', r') <= Sub(e', r')
      /\ \A k \in 0 .. Sub(e', r') - 1 : buf'[After(r', k) % N] \in Char
  BY NextRing DEF RingInv, BufInv, Index
<1>. DEFINE in == Chars(buf', r', w')
            ln == Chars(buf', w', e')
<1>2. /\ in \in Seq(Char) /\ Len(in) = Sub(w', r')
      /\ \A k \in 1 .. Sub(w', r') : in[k] = buf'[After(r', k - 1) % N]
      /\ ln \in Seq(Char) /\ Len(ln) = Sub(e', w')
      /\ \A k \in 1 .. Sub(e', w') : ln[k] = buf'[After(r', Sub(w', r') + (k - 1)) % N]
  BY <1>1, CharsOfRing
<1>3. /\ Slice(r, w)' = in /\ Slice(w, e)' = ln
      /\ Sub(w, r)' = Sub(w', r') /\ Sub(e, w)' = Sub(e', w')
      /\ \A k : At(After(r, k - 1))' = buf'[After(r', k - 1) % N]
  BY SliceIsChars, NextRing
<1>. HIDE DEF in, ln
<1>. QED BY <1>2, <1>3

\* A key that is stored is the abstract Type.
LEMMA TypeRefines ==
    ASSUME RingInv, NEW key \in Char \cup {"cr"}, consintr_char(key)
    PROVE  \E c \in Char : Discipline!Type(c)
<1>. DEFINE c == IF key = "cr" THEN "lf" ELSE key
            in == Slice(r, w)
            ln == Slice(w, e)
            R == Sub(w, r)
            L == Sub(e, w)
<1>1. /\ RingInv' /\ c \in Char
      /\ Sub(e, r)' = Sub(e, r) + 1 /\ Sub(e, r) < N
      /\ \A k \in 0 .. Sub(e, r) - 1 : At(After(r, k))' = At(After(r, k))
      /\ buf'[e % N] = c
      /\ r' = r
      /\ IF c \in {"lf", "eof"} \/ Sub(e, r) + 1 = N THEN w' = e' ELSE w' = w
  BY CharRing
<1>. HIDE DEF c
<1>2. R \in Nat /\ L \in Nat /\ Sub(e, r) = R + L /\ N \in Nat
  BY Lengths
<1>3. /\ in \in Seq(Char) /\ Len(in) = R
      /\ \A k \in 1 .. R : in[k] = At(After(r, k - 1))
      /\ ln \in Seq(Char) /\ Len(ln) = L
      /\ \A k \in 1 .. L : ln[k] = At(After(r, R + (k - 1)))
  BY Lines
<1>4. /\ in' \in Seq(Char) /\ Len(in') = R'
      /\ \A k \in 1 .. R' : in'[k] = At(After(r, k - 1))'
      /\ ln' \in Seq(Char) /\ Len(ln') = L'
      /\ \A k \in 1 .. L' : ln'[k] = buf'[After(r', R' + (k - 1)) % N]
  BY <1>1, LinesNext
<1>5. After(r, R + L) = e
  BY <1>2, Distances DEF RingInv
<1>6. /\ \A k \in 0 .. R + L - 1 : buf'[After(r, k) % N] = At(After(r, k))
      /\ buf'[After(r, R + L) % N] = c
      /\ \A k : At(After(r, k))' = buf'[After(r, k) % N]
  BY <1>1, <1>2, <1>5, NextRing
<1>7. R' = Sub(w', r) /\ L' = Sub(e', w') /\ Sub(e', r) = R + L + 1
  BY <1>1, <1>2, NextRing
<1>8. e' \in Index /\ w' \in Index /\ r \in Index /\ Sub(e', e') = 0
  BY <1>1, Distances DEF RingInv, Index
<1>a. PICK al : /\ al = Append(ln, c)
                /\ al \in Seq(Char) /\ Len(al) = L + 1
                /\ \A k \in 1 .. L : al[k] = ln[k]
                /\ \A k : k = L + 1 => al[k] = c
  <2>1. /\ Append(ln, c) \in Seq(Char) /\ Len(Append(ln, c)) = L + 1
        /\ \A k \in 1 .. L : Append(ln, c)[k] = ln[k]
        /\ Append(ln, c)[L + 1] = c
    BY <1>1, <1>3, AppendProperties
  <2>. QED BY <2>1
<1>9. CASE c \in {"lf", "eof"} \/ R + L + 1 = N
  <2>1. w' = e'
    BY <1>1, <1>2, <1>9
  <2>2. R' = R + L + 1 /\ L' = 0
    BY <1>7, <1>8, <2>1
  <2>3. ln' = <<>>
    BY <1>4, <2>2, EmptySeq
  <2>4. PICK cat : /\ cat = in \o al
                   /\ cat \in Seq(Char) /\ Len(cat) = R + L + 1
                   /\ \A k \in 1 .. R + L + 1 : cat[k] = IF k <= R THEN in[k] ELSE al[k - R]
    <3>1. /\ in \o al \in Seq(Char) /\ Len(in \o al) = Len(in) + Len(al)
          /\ \A k \in 1 .. Len(in) + Len(al) : (in \o al)[k] =
               IF k <= Len(in) THEN in[k] ELSE al[k - Len(in)]
      BY <1>3, <1>a, ConcatProperties
    <3>2. Len(in) = R /\ Len(in) + Len(al) = R + L + 1
      BY <1>2, <1>3, <1>a
    <3>. QED BY <3>1, <3>2
  <2>5. ASSUME NEW k \in 1 .. R + L + 1
        PROVE  in'[k] = cat[k]
    <3>0. in'[k] = buf'[After(r, k - 1) % N]
      BY <1>4, <1>6, <2>2
    <3>1. CASE k <= R
      BY <1>2, <1>3, <1>6, <2>4, <3>0, <3>1
    <3>2. CASE k > R /\ k <= R + L
      <4>1. k - R \in 1 .. L /\ R + ((k - R) - 1) = k - 1 /\ k - 1 \in 0 .. R + L - 1
        BY <1>2, <3>2
      <4>2. cat[k] = ln[k - R]
        <5>1. ~(k <= R)
          BY <1>2, <3>2
        <5>2. cat[k] = al[k - R]
          BY <2>4, <5>1
        <5>. QED BY <1>a, <4>1, <5>2
      <4>3. ln[k - R] = At(After(r, k - 1))
        BY <1>3, <4>1
      <4>. QED BY <1>6, <3>0, <4>1, <4>2, <4>3
    <3>3. CASE k = R + L + 1
      <4>1. k - R = L + 1 /\ k - 1 = R + L /\ ~(k <= R)
        BY <1>2, <3>3
      <4>. QED BY <1>2, <1>6, <1>a, <2>4, <3>0, <4>1
    <3>. QED BY <1>2, <3>1, <3>2, <3>3
  <2>6. in' = in \o Append(ln, c)
    BY <1>4, <1>a, <2>2, <2>4, <2>5, SeqEqual
  <2>. QED BY <1>1, <1>2, <1>3, <1>9, <2>3, <2>6 DEF Discipline!Type, consintr_char
<1>10. CASE ~(c \in {"lf", "eof"} \/ R + L + 1 = N)
  <2>1. w' = w
    BY <1>1, <1>2, <1>10
  <2>2. R' = R /\ L' = L + 1
    <3>1. Sub(w', r') <= Sub(e', r')
      BY <1>1, NextRing DEF RingInv
    <3>2. Sub(e', w') = Sub(e', r) - Sub(w', r)
      BY <1>1, <1>8, <3>1, Between
    <3>. QED BY <1>2, <1>7, <2>1, <3>2
  <2>3. in' = in
    <3>1. \A k \in 1 .. R : in'[k] = in[k]
      BY <1>2, <1>3, <1>4, <1>6, <2>2
    <3>. QED BY <1>3, <1>4, <2>2, <3>1, SeqEqual
  <2>4. ASSUME NEW k \in 1 .. L + 1
        PROVE  ln'[k] = al[k]
    <3>0. ln'[k] = buf'[After(r, R + (k - 1)) % N]
      BY <1>1, <1>4, <2>2
    <3>1. CASE k <= L
      <4>1. k \in 1 .. L /\ R + (k - 1) \in 0 .. R + L - 1
        BY <1>2, <3>1
      <4>. QED BY <1>3, <1>6, <1>a, <3>0, <4>1
    <3>2. CASE k = L + 1
      <4>1. R + (k - 1) = R + L
        BY <1>2, <3>2
      <4>. QED BY <1>6, <1>a, <3>0, <3>2, <4>1
    <3>. QED BY <1>2, <3>1, <3>2
  <2>5. ln' = Append(ln, c)
    BY <1>4, <1>a, <2>2, <2>4, SeqEqual
  <2>. QED BY <1>1, <1>2, <1>3, <1>10, <2>3, <2>5 DEF Discipline!Type, consintr_char
<1>. QED BY <1>9, <1>10

\* ^U is the abstract Kill.
LEMMA KillRefines ==
    ASSUME RingInv, consintr_kill
    PROVE  Discipline!Kill
<1>1. RingInv' /\ e' = w /\ UNCHANGED <<buf, r, w, taken>>
  BY KillRing DEF consintr_kill
<1>2. Slice(r, w)' = Slice(r, w)
  BY <1>1, SliceIsChars
<1>3. Sub(e, w)' = 0
  BY <1>1, Distances, NextRing DEF RingInv
<1>4. Slice(w, e)' = <<>>
  BY <1>1, <1>3, LinesNext, EmptySeq
<1>. QED BY <1>1, <1>2, <1>4 DEF Discipline!Kill

\* ^H and DEL are the abstract Erase.
LEMMA EraseRefines ==
    ASSUME RingInv, consintr_erase
    PROVE  Discipline!Erase
<1>. DEFINE ln == Slice(w, e)
            L == Sub(e, w)
<1>1. RingInv' /\ L' = L - 1 /\ e # w /\ UNCHANGED <<buf, r, w, taken>>
  BY EraseRing DEF consintr_erase
<1>2. Slice(r, w)' = Slice(r, w)
  BY <1>1, SliceIsChars
<1>3. L \in Nat /\ L # 0
  BY <1>1, Lengths
<1>4. /\ ln \in Seq(Char) /\ Len(ln) = L
      /\ \A k \in 1 .. L : ln[k] = At(After(r, Sub(w, r) + (k - 1)))
  BY Lines
<1>5. /\ ln' \in Seq(Char) /\ Len(ln') = L - 1
      /\ \A k \in 1 .. L - 1 : ln'[k] = At(After(r, Sub(w, r) + (k - 1)))
  <2>1. \A k : buf'[After(r', Sub(w, r)' + (k - 1)) % N] = At(After(r, Sub(w, r) + (k - 1)))
    BY <1>1, NextRing DEF At
  <2>. QED BY <1>1, <2>1, LinesNext
<1>6. PICK s : /\ s = SubSeq(ln, 1, L - 1)
               /\ s \in Seq(Char) /\ Len(s) = L - 1
               /\ \A k \in 1 .. L - 1 : s[k] = ln[k]
  <2>1. \A k \in 1 .. L - 1 : ln[k] \in Char
    BY <1>3, <1>4, ElementOfSeq
  <2>2. /\ SubSeq(ln, 1, L - 1) \in Seq(Char)
        /\ Len(SubSeq(ln, 1, L - 1)) = IF 1 <= L - 1 THEN L - 1 - 1 + 1 ELSE 0
        /\ \A k \in 1 .. L - 1 - 1 + 1 : SubSeq(ln, 1, L - 1)[k] = ln[1 + k - 1]
    BY <1>3, <2>1, SubSeqProperties
  <2>3. Len(SubSeq(ln, 1, L - 1)) = L - 1 /\ L - 1 - 1 + 1 = L - 1
    BY <1>3, <2>2
  <2>4. ASSUME NEW k \in 1 .. L - 1
        PROVE  SubSeq(ln, 1, L - 1)[k] = ln[k]
    <3>1. 1 + k - 1 = k /\ k \in 1 .. L - 1 - 1 + 1
      BY <2>3
    <3>. QED BY <2>2, <3>1
  <2>. QED BY <2>2, <2>3, <2>4
<1>7. ln' = s
  <2>1. \A k \in 1 .. L - 1 : ln'[k] = s[k]
    BY <1>3, <1>4, <1>5, <1>6
  <2>. QED BY <1>5, <1>6, <2>1, SeqEqual
<1>8. ln # <<>>
  BY <1>3, <1>4, EmptySeq
<1>. QED BY <1>1, <1>2, <1>4, <1>6, <1>7, <1>8 DEF Discipline!Erase

\* A reader that moves r is the abstract Take.
LEMMA TakeRefines ==
    ASSUME RingInv, r # w, r' = Inc(r), UNCHANGED <<buf, w, e>>, taken' = At(r)
    PROVE  Discipline!Take
<1>. DEFINE in == Slice(r, w)
            R == Sub(w, r)
<1>1. /\ RingInv' /\ R' = R - 1
      /\ \A k \in 0 .. Sub(e, r) - 2 : At(After(r, k))' = At(After(r, k + 1))
  BY TakeRing
<1>2. R \in Nat /\ R # 0 /\ Sub(e, r) \in Nat /\ R <= Sub(e, r)
  BY Lengths DEF RingInv
<1>3. Slice(w, e)' = Slice(w, e)
  BY SliceIsChars
<1>4. /\ in \in Seq(Char) /\ Len(in) = R
      /\ \A k \in 1 .. R : in[k] = At(After(r, k - 1))
  BY Lines
<1>5. /\ in' \in Seq(Char) /\ Len(in') = R - 1
      /\ \A k \in 1 .. R - 1 : in'[k] = At(After(r, k - 1))'
  BY <1>1, LinesNext
<1>6. in # <<>> /\ Head(in) = At(r)
  <2>1. in # <<>>
    BY <1>2, <1>4, EmptySeq
  <2>2. After(r, 0) = r
    BY AfterIs, SizeAssumption DEF RingInv, Index
  <2>3. in[1] = At(r)
    BY <1>2, <1>4, <2>2
  <2>. QED BY <1>4, <2>1, <2>3
<1>7. PICK t : /\ t = Tail(in)
               /\ t \in Seq(Char) /\ Len(t) = R - 1
               /\ \A k \in 1 .. R - 1 : t[k] = in[k + 1]
  <2>1. /\ Tail(in) \in Seq(Char) /\ Len(Tail(in)) = R - 1
        /\ \A k \in 1 .. Len(Tail(in)) : Tail(in)[k] = in[k + 1]
    BY <1>4, <1>6, HeadTailProperties
  <2>. QED BY <2>1
<1>8. ASSUME NEW k \in 1 .. R - 1
      PROVE  in'[k] = t[k]
  <2>1. k - 1 \in 0 .. Sub(e, r) - 2 /\ (k - 1) + 1 = (k + 1) - 1 /\ k + 1 \in 1 .. R
    BY <1>2, <1>8
  <2>2. in'[k] = At(After(r, (k + 1) - 1))
    BY <1>1, <1>5, <2>1
  <2>3. in[k + 1] = At(After(r, (k + 1) - 1))
    BY <1>4, <2>1
  <2>. QED BY <1>7, <2>2, <2>3
<1>9. in' = t
  BY <1>5, <1>7, <1>8, SeqEqual
<1>. QED BY <1>3, <1>6, <1>7, <1>9 DEF Discipline!Take

\* Ring, indices and editing keys of console.c implement the line discipline.
THEOREM ConsoleImplementsDiscipline == Spec => ImplementsDiscipline
<1>. DEFINE dvars == <<Slice(r, w), Slice(w, e), taken>>
<1>1. Init => Discipline!Init
  <2>1. 0 \in Index /\ Sub(0, 0) = 0
    BY SizeAssumption, Distances DEF Index
  <2>. QED BY <2>1 DEF Init, Discipline!Init, Slice
<1>2. IInv /\ [Next]_vars => [Discipline!Next]_dvars
  <2>. SUFFICES ASSUME IInv, [Next]_vars PROVE [Discipline!Next]_dvars
    OBVIOUS
  <2>0. RingInv
    BY Parts
  <2>1. ASSUME UNCHANGED <<buf, r, w, e, taken>> PROVE UNCHANGED dvars
    BY <2>1, SliceIsChars
  <2>2. CASE Type
    BY <2>0, <2>2, TypeRefines, KillRefines, EraseRefines DEF Type, Discipline!Next, Char
  <2>3. CASE Handler
    BY <2>1, <2>3 DEF Handler, wakeup, consintr_end, consVars
  <2>4. ASSUME NEW p \in Reader, NEW len \in Length, read(p, len)
        PROVE  UNCHANGED dvars
    BY <2>1, <2>4 DEF read, consVars
  <2>5. ASSUME NEW p \in Reader, Read(p)
        PROVE  [Discipline!Next]_dvars
    <3>1. CASE read_char(p) \/ read_fault(p)
      <4>1. Discipline!Take
        BY <2>0, <3>1, TakeRefines DEF read_char, read_fault
      <4>. QED BY <4>1 DEF Discipline!Next
    <3>2. CASE read_eof(p) /\ n[p] < target[p]
      BY <2>1, <3>2 DEF read_eof
    <3>3. CASE read_eof(p) /\ ~(n[p] < target[p])
      <4>1. Discipline!Take
        BY <2>0, <3>3, TakeRefines DEF read_eof
      <4>. QED BY <4>1 DEF Discipline!Next
    <3>4. CASE \/ read_acquire(p) \/ read_done(p) \/ read_sleep(p) \/ sleep(p)
               \/ switch_back(p) \/ dispatch(p)
      BY <2>1, <3>4 DEF read_acquire, read_done, read_sleep, sleep, switch_back, dispatch, consVars
    <3>. QED BY <2>5, <3>1, <3>2, <3>3, <3>4 DEF Read
  <2>6. CASE UNCHANGED vars
    BY <2>1, <2>6 DEF vars, consVars
  <2>. QED BY <2>2, <2>3, <2>4, <2>5, <2>6 DEF Next
<1>. QED BY <1>1, <1>2, IInvInductive, PTL
     DEF Spec, ImplementsDiscipline, Discipline!Spec, Discipline!vars
====
