---- MODULE UserMemoryProofs ----
\* The proofs about UserMemory.tla, for every size of page and address space, every program
\* that fits and every address and length.
\*
\* Both properties are about bytes at user addresses, which lie in physical memory page by
\* page: what carries the proofs is that the addresses of one page stay neighbours there,
\* and that no two user addresses are one byte of memory (Injective).  IInv says which bytes
\* the loader has written so far, and which of its range a copy has passed.
EXTENDS UserMemory, WellFoundedInduction, TLAPS
-----------------------------------------------------------------------------
\* Pages and addresses.

\* The parts of an address.
LEMMA DivMod ==
    ASSUME NEW a \in Int
    PROVE  /\ a \div P \in Int /\ a % P \in 0 .. P - 1
           /\ \E d \in Int, r \in 0 .. P - 1 : d = a \div P /\ r = a % P /\ a = d * P + r
<1>1. P \in Int /\ P > 0
  BY LayoutAssumption
<1>2. a \div P \in Int /\ a % P \in 0 .. P - 1
  BY <1>1
<1>3. PICK d \in Int, r \in 0 .. P - 1 : d = a \div P /\ r = a % P
  BY <1>1, <1>2
<1>4. a = d * P + r
  BY <1>1, <1>3
<1>. QED BY <1>2, <1>3, <1>4

\* A page ends where the next one begins, or before.
LEMMA PageOrder ==
    ASSUME NEW p \in Int, NEW q \in Int, p < q
    PROVE  p * P + P <= q * P /\ p * P \in Int /\ q * P \in Int
<1>1. P \in Nat \ {0}
  BY LayoutAssumption
<1>2. PICK d \in Nat : q = p + 1 + d
  <2>1. q - p - 1 \in Nat
    OBVIOUS
  <2>. QED BY <2>1
<1>3. q * P = p * P + P + d * P
  BY <1>1, <1>2
<1>4. d * P >= 0
  BY <1>1
<1>. QED BY <1>1, <1>3, <1>4

\* An address has one page and one place in it.
LEMMA PageUnique ==
    ASSUME NEW p \in Int, NEW q \in Int, NEW b \in 0 .. P - 1, NEW c \in 0 .. P - 1,
           p * P + b = q * P + c
    PROVE  p = q /\ b = c
<1>1. P \in Nat \ {0}
  BY LayoutAssumption
<1>2. p * P \in Int /\ q * P \in Int
  BY <1>1
<1>3. ~(p < q)
  BY <1>1, <1>2, PageOrder
<1>4. ~(q < p)
  BY <1>1, <1>2, PageOrder
<1>5. p = q
  BY <1>3, <1>4
<1>. QED BY <1>1, <1>2, <1>5

\* The page and the place of byte b of page p.
LEMMA PageByte ==
    ASSUME NEW p \in Int, NEW b \in 0 .. P - 1
    PROVE  (p * P + b) \div P = p /\ (p * P + b) % P = b
<1>1. P \in Nat \ {0} /\ p * P \in Int
  BY LayoutAssumption
<1>2. PICK a \in Int : a = p * P + b
  BY <1>1
<1>4. PICK d \in Int, r \in 0 .. P - 1 : d = a \div P /\ r = a % P /\ a = d * P + r
  BY <1>2, DivMod
<1>5. d = p /\ r = b
  <2>1. d * P + r = p * P + b
    BY <1>2, <1>4
  <2>. QED BY <2>1, PageUnique
<1>. QED BY <1>2, <1>4, <1>5

\* An address below MAXVA is in a page, and an address in a page is below MAXVA.
LEMMA AddressPage ==
    ASSUME NEW a \in Nat
    PROVE  /\ a \in AllBytes <=> a \div P \in 0 .. Trampoline
           /\ a \div P \in Nat
<1>1. P \in Nat \ {0} /\ NPages \in Nat
  BY LayoutAssumption
<1>2. PICK d \in Int, r \in 0 .. P - 1 : d = a \div P /\ r = a % P /\ a = d * P + r
  <2>1. a \in Int
    OBVIOUS
  <2>. QED BY <2>1, DivMod
<1>3. d * P \in Int /\ NPages * P \in Int
  BY <1>1
<1>4. d >= 0
  <2>1. d < 0 => d * P + P <= 0 * P
    BY PageOrder
  <2>2. 0 * P = 0
    BY <1>1
  <2>. QED BY <1>1, <1>2, <1>3, <2>1, <2>2
<1>5. d < NPages => a < NPages * P
  <2>1. d < NPages => d * P + P <= NPages * P
    BY <1>1, PageOrder
  <2>. QED BY <1>1, <1>2, <1>3, <2>1
<1>6. d >= NPages => a >= NPages * P
  <2>1. NPages < d => NPages * P + P <= d * P
    BY <1>1, PageOrder
  <2>2. NPages = d => NPages * P = d * P
    OBVIOUS
  <2>. QED BY <1>1, <1>2, <1>3, <2>1, <2>2
<1>7. a \in AllBytes <=> a < NPages * P
  BY <1>3 DEF AllBytes, MAXVA
<1>8. d \in 0 .. Trampoline <=> d >= 0 /\ d < NPages
  BY <1>1 DEF Trampoline
<1>. QED BY <1>1, <1>2, <1>3, <1>4, <1>5, <1>6, <1>7, <1>8

\* The physical addresses of a process are in memory, and those of a page are neighbours.
LEMMA PhysicalByte ==
    ASSUME NEW p \in 0 .. Trampoline, NEW b \in 0 .. P - 1
    PROVE  /\ p * P + b \in AllBytes
           /\ PA(p * P + b) = Frame(p) * P + b
           /\ PA(p * P + b) \in AllBytes
           /\ Frame(p) \in 0 .. Trampoline
<1>1. P \in Nat \ {0} /\ NPages \in Nat
  BY LayoutAssumption
<1>2. ASSUME NEW q \in 0 .. Trampoline PROVE q * P + b \in AllBytes
  <2>1. q * P + P <= NPages * P
    BY <1>1, PageOrder DEF Trampoline
  <2>2. q * P \in Nat /\ NPages * P \in Nat
    BY <1>1 DEF Trampoline
  <2>. QED BY <1>1, <2>1, <2>2 DEF AllBytes, MAXVA
<1>3. Frame(p) \in 0 .. Trampoline
  BY <1>1 DEF Frame, Trampoline
<1>4. (p * P + b) \div P = p /\ (p * P + b) % P = b
  BY PageByte
<1>. QED BY <1>2, <1>3, <1>4 DEF PA

\* No two addresses of a process are the same byte of memory.
LEMMA Injective ==
    ASSUME NEW a \in AllBytes, NEW c \in AllBytes
    PROVE  /\ PA(a) \in AllBytes
           /\ PA(a) = PA(c) => a = c
<1>1. P \in Nat \ {0} /\ NPages \in Nat
  BY LayoutAssumption
<1>2. a \in Nat /\ c \in Nat
  BY <1>1 DEF AllBytes, MAXVA
<1>3. PICK p \in Int, b \in 0 .. P - 1 : p = a \div P /\ a = p * P + b
  BY <1>2, DivMod
<1>4. PICK q \in Int, d \in 0 .. P - 1 : q = c \div P /\ c = q * P + d
  BY <1>2, DivMod
<1>5. p \in 0 .. Trampoline /\ q \in 0 .. Trampoline
  BY <1>2, <1>3, <1>4, AddressPage
<1>6. /\ PA(a) = Frame(p) * P + b /\ PA(a) \in AllBytes /\ Frame(p) \in 0 .. Trampoline
      /\ PA(c) = Frame(q) * P + d /\ Frame(q) \in 0 .. Trampoline
  BY <1>3, <1>4, <1>5, PhysicalByte
<1>7. PA(a) = PA(c) => Frame(p) = Frame(q) /\ b = d
  BY <1>1, <1>6, PageUnique DEF Trampoline
<1>8. Frame(p) = Frame(q) => p = q
  BY <1>1, <1>5 DEF Frame, Trampoline
<1>. QED BY <1>3, <1>4, <1>6, <1>7, <1>8

\* The bytes of a piece, from a up to the end of its page.
LEMMA PieceBytes ==
    ASSUME NEW a \in AllBytes, NEW j \in 0 .. P - (a % P) - 1
    PROVE  /\ a + j \in AllBytes /\ (a + j) \div P = a \div P
           /\ PA(a + j) = PA(a) + j
           /\ (PA(a) + j) % MAXVA = PA(a + j)
<1>1. P \in Nat \ {0} /\ NPages \in Nat
  BY LayoutAssumption
<1>2. a \in Nat
  BY <1>1 DEF AllBytes, MAXVA
<1>3. PICK p \in Int, b \in 0 .. P - 1 : p = a \div P /\ b = a % P /\ a = p * P + b
  BY <1>2, DivMod
<1>4. p \in 0 .. Trampoline
  BY <1>2, <1>3, AddressPage
<1>5. b + j \in 0 .. P - 1 /\ a + j = p * P + (b + j)
  <2>1. p * P \in Int
    BY <1>1, <1>3
  <2>. QED BY <1>1, <1>3, <2>1
<1>6. (a + j) \div P = p
  BY <1>3, <1>5, PageByte
<1>7. /\ PA(a) = Frame(p) * P + b /\ Frame(p) \in 0 .. Trampoline
      /\ a + j \in AllBytes /\ PA(a + j) = Frame(p) * P + (b + j) /\ PA(a + j) \in AllBytes
  BY <1>3, <1>4, <1>5, PhysicalByte
<1>8. PA(a + j) = PA(a) + j
  <2>1. Frame(p) * P \in Int
    BY <1>1, <1>7
  <2>. QED BY <1>1, <1>3, <1>7, <2>1
<1>9. (PA(a) + j) % MAXVA = PA(a + j)
  <2>1. PICK x \in AllBytes : x = PA(a + j)
    BY <1>7
  <2>2. MAXVA \in Nat /\ x \in 0 .. MAXVA - 1
    BY <1>1, <2>1 DEF AllBytes, MAXVA
  <2>3. x % MAXVA = x
    BY <2>2
  <2>. QED BY <1>8, <2>1, <2>3
<1>. QED BY <1>3, <1>6, <1>7, <1>8, <1>9

\* What PGROUNDDOWN and PGROUNDUP return.
LEMMA Rounded ==
    ASSUME NEW x \in Nat
    PROVE  /\ PGROUNDDOWN(x) \in Nat /\ PGROUNDDOWN(x) <= x /\ x < PGROUNDDOWN(x) + P
           /\ PGROUNDDOWN(x) % P = 0 /\ (x % P = 0 => PGROUNDDOWN(x) = x)
           /\ PGROUNDUP(x) \in Nat /\ x <= PGROUNDUP(x) /\ PGROUNDUP(x) < x + P
           /\ PGROUNDUP(x) % P = 0
<1>1. P \in Nat \ {0}
  BY LayoutAssumption
<1>2. ASSUME NEW y \in Nat
      PROVE  /\ PGROUNDDOWN(y) \in Nat /\ PGROUNDDOWN(y) <= y /\ y < PGROUNDDOWN(y) + P
             /\ PGROUNDDOWN(y) % P = 0 /\ (y % P = 0 => PGROUNDDOWN(y) = y)
  <2>0. y \in Int
    OBVIOUS
  <2>1. PICK d \in Int, r \in 0 .. P - 1 : d = y \div P /\ r = y % P /\ y = d * P + r
    BY <2>0, DivMod
  <2>2. d \in Nat
    BY <2>1, AddressPage
  <2>3. PGROUNDDOWN(y) = d * P /\ d * P \in Nat
    BY <1>1, <2>1, <2>2 DEF PGROUNDDOWN
  <2>4. (d * P + 0) % P = 0
    BY <1>1, <2>2, PageByte
  <2>. QED BY <1>1, <2>1, <2>3, <2>4
<1>3. PICK y \in Nat : y = x + P - 1 /\ PGROUNDUP(x) = PGROUNDDOWN(y)
  BY <1>1 DEF PGROUNDUP
<1>4. PICK z \in Nat : z = PGROUNDDOWN(y) /\ z <= y /\ y < z + P /\ z % P = 0
  BY <1>2
<1>5. /\ PGROUNDUP(x) \in Nat /\ x <= PGROUNDUP(x) /\ PGROUNDUP(x) < x + P
      /\ PGROUNDUP(x) % P = 0
  BY <1>1, <1>3, <1>4
<1>. QED BY <1>2, <1>5

\* Addresses are ordered as their pages are, when one of them begins a page.
LEMMA AddressOrder ==
    ASSUME NEW x \in Nat, x % P = 0, NEW a \in Nat
    PROVE  /\ a < x <=> a \div P < x \div P
           /\ a % P = 0 /\ a < x => a + P <= x
<1>1. P \in Nat \ {0} /\ a \in Int /\ x \in Int
  BY LayoutAssumption
<1>2. PICK p \in Int, b \in 0 .. P - 1 : p = a \div P /\ b = a % P /\ a = p * P + b
  BY <1>1, DivMod
<1>3. PICK q \in Int, c \in 0 .. P - 1 : q = x \div P /\ c = x % P /\ x = q * P + c
  BY <1>1, DivMod
<1>4. p * P \in Int /\ q * P \in Int /\ c = 0
  BY <1>1, <1>3
<1>5. p < q => p * P + P <= q * P
  BY PageOrder
<1>6. q < p => q * P + P <= p * P
  BY PageOrder
<1>7. a < x <=> p < q
  BY <1>1, <1>2, <1>3, <1>4, <1>5, <1>6
<1>8. b = 0 /\ p < q => a + P <= x
  BY <1>1, <1>2, <1>3, <1>4, <1>5
<1>. QED BY <1>2, <1>3, <1>7, <1>8

\* PGROUNDUP is monotone.
LEMMA RoundedOrder ==
    ASSUME NEW x \in Nat, NEW y \in Nat, x <= y
    PROVE  PGROUNDUP(x) <= PGROUNDUP(y)
<1>1. PICK u \in Nat, v \in Nat : /\ u = PGROUNDUP(x) /\ u % P = 0 /\ u < x + P
                                  /\ v = PGROUNDUP(y) /\ v % P = 0 /\ y <= v
  BY Rounded
<1>2. v < u => v + P <= u
  BY <1>1, AddressOrder
<1>3. P \in Nat
  BY LayoutAssumption
<1>. QED BY <1>1, <1>2, <1>3

\* A segment of a program.
SegmentType == [vaddr : Nat, filesz : Nat, memsz : Nat, perm : SUBSET {"R", "W", "X"}]

\* Where a segment begins and ends, and that its pages are its own.
LEMMA SegmentOf ==
    ASSUME TypeOK, NEW j \in 1 .. Len(prog)
    PROVE  /\ prog[j] \in SegmentType
           /\ prog[j].vaddr % P = 0 /\ prog[j].filesz <= prog[j].memsz
           /\ PGROUNDUP(prog[j].vaddr + prog[j].memsz) \in Nat
           /\ prog[j].vaddr + prog[j].memsz <= PGROUNDUP(prog[j].vaddr + prog[j].memsz)
           /\ \A a \in Nat : a \div P \in SegmentPages(prog[j]) <=>
                prog[j].vaddr <= a /\ a < PGROUNDUP(prog[j].vaddr + prog[j].memsz)
           /\ SegmentPages(prog[j]) \subseteq 0 .. UStack - 1
           /\ \A i \in 1 .. Len(prog) : i # j => SegmentPages(prog[i]) \cap SegmentPages(prog[j]) = {}
<1>1. prog \in Programs /\ prog \in Seq(SegmentType)
  BY LayoutAssumption DEF TypeOK, SegmentType
<1>2. prog[j] \in SegmentType /\ j \in DOMAIN prog /\ DOMAIN prog = 1 .. Len(prog)
  BY <1>1
<1>3. /\ prog[j].vaddr % P = 0 /\ prog[j].filesz <= prog[j].memsz
      /\ SegmentPages(prog[j]) \subseteq 0 .. UStack - 1
      /\ \A i \in DOMAIN prog \ {j} : SegmentPages(prog[j]) \cap SegmentPages(prog[i]) = {}
  BY <1>1, <1>2, LayoutAssumption
<1>4. PICK v \in Nat, m \in Nat : v = prog[j].vaddr /\ m = prog[j].memsz
  BY <1>2 DEF SegmentType
<1>5. v + m \in Nat
  OBVIOUS
<1>6. PICK e \in Nat : e = PGROUNDUP(v + m) /\ v + m <= e /\ e % P = 0
  BY <1>5, Rounded
<1>7. PGROUNDDOWN(v) = v
  BY <1>3, <1>4, Rounded
<1>8. SegmentPages(prog[j]) = v \div P .. e \div P - 1
  BY <1>4, <1>6, <1>7 DEF SegmentPages
<1>9. ASSUME NEW a \in Nat
      PROVE  a \div P \in SegmentPages(prog[j]) <=> v <= a /\ a < e
  <2>1. PICK p \in Nat, q \in Nat, u \in Nat : p = v \div P /\ q = e \div P /\ u = a \div P
    BY AddressPage
  <2>2. a < v <=> u < p
    BY <1>3, <1>4, <2>1, AddressOrder
  <2>3. a < e <=> u < q
    BY <1>6, <2>1, AddressOrder
  <2>. QED BY <1>8, <2>1, <2>2, <2>3
<1>10. \A i \in 1 .. Len(prog) : i # j => SegmentPages(prog[i]) \cap SegmentPages(prog[j]) = {}
  BY <1>2, <1>3
<1>. QED BY <1>2, <1>3, <1>4, <1>6, <1>9, <1>10
-----------------------------------------------------------------------------
\* Writes to memory.

\* The address that Written chooses for a byte of memory.
LEMMA Chosen ==
    ASSUME NEW S \in SUBSET AllBytes, NEW x \in AllBytes
    PROVE  /\ (\E b \in S : PA(b) = PA(x)) <=> x \in S
           /\ x \in S => (CHOOSE b \in S : PA(b) = PA(x)) = x
BY Injective

\* No call is in progress.
LEMMA NotInCall ==
    ASSUME pc' \in Loading \cup {"run", "exit"}, n' <= call'.len
    PROVE  RangeInv' /\ WriteInv' /\ ReadInv' /\ ResultInv'
BY DEF InCall, RangeInv, WriteInv, ReadInv, ResultInv, Loading, Ops, Copies, Accesses

\* Programs are loaded into an address space without user pages.
LEMMA InitIInv == Init => IInv
<1> SUFFICES ASSUME Init PROVE IInv
  OBVIOUS
<1>1. TypeOK
  <2>1. pte \in [0 .. Trampoline -> Pte]
    <3>1. DOMAIN pte = 0 .. NPages - 1 /\ 0 .. NPages - 1 = 0 .. Trampoline
      BY LayoutAssumption DEF Init, Trampoline
    <3>2. NoPte \in Pte /\ [NoPte EXCEPT !.perm = {"R", "X"}, !.A = TRUE] \in Pte
      BY DEF NoPte, Pte
    <3>. QED BY <3>1, <3>2 DEF Init
  <2>2. buf \in Seq({mem0[a] : a \in AllBytes})
    BY DEF Init
  <2>3. mem = [a \in AllBytes |-> mem[a]] /\ mem0 = [a \in AllBytes |-> mem0[a]]
    BY DEF Init
  <2>4. call \in [op : Ops \cup {"none"}, va : Nat, len : Nat]
    BY DEF Init, NoCall
  <2>. QED BY <2>1, <2>2, <2>3, <2>4 DEF Init, TypeOK, Loading
<1>2. LoadInv
  <2>1. UserPages = {}
    <3>1. ASSUME NEW p \in 0 .. Trampoline PROVE "U" \notin pte[p].perm
      BY LayoutAssumption DEF Init, NoPte, Trampoline
    <3>. QED BY <3>1 DEF UserPages
  <2>2. PagesUpTo(0) = {}
    BY DEF PagesUpTo
  <2>3. SegmentsLoaded(0)
    BY DEF SegmentsLoaded
  <2>4. Len(prog) \in Nat
    BY <1>1, LayoutAssumption DEF TypeOK
  <2>. QED BY <2>1, <2>2, <2>3, <2>4 DEF Init, LoadInv, Loading
<1>3. RangeInv /\ WriteInv /\ ReadInv /\ ResultInv
  BY DEF Init, InCall, RangeInv, WriteInv, ReadInv, ResultInv, Ops, Copies, Accesses, NoCall
<1>. QED BY <1>1, <1>2, <1>3 DEF IInv
-----------------------------------------------------------------------------
\* Loading.

\* The segment that is being loaded.
LEMMA CurrentSegment ==
    ASSUME TypeOK, seg \in 1 .. Len(prog)
    PROVE  /\ Segment \in SegmentType /\ Segment.filesz <= Segment.memsz
           /\ vm_start = Segment.vaddr /\ vm_start \in Nat /\ vm_start % P = 0
           /\ vm_end \in Nat /\ vm_end % P = 0 /\ vm_start + Segment.memsz <= vm_end
           /\ vm_end = PGROUNDUP(vm_start + Segment.memsz)
           /\ SegmentPages(Segment) = vm_start \div P .. vm_end \div P - 1
           /\ \A a \in Nat : a \div P \in SegmentPages(Segment) <=> vm_start <= a /\ a < vm_end
           /\ \A a \in Nat : vm_start <= a /\ a < vm_end => a \in AllBytes
<1>1. /\ Segment \in SegmentType /\ Segment.filesz <= Segment.memsz /\ Segment.vaddr % P = 0
      /\ \A a \in Nat : a \div P \in SegmentPages(Segment) <=>
                Segment.vaddr <= a /\ a < PGROUNDUP(Segment.vaddr + Segment.memsz)
      /\ SegmentPages(Segment) \subseteq 0 .. UStack - 1
  BY SegmentOf DEF Segment
<1>2. PICK v \in Nat, m \in Nat : v = Segment.vaddr /\ m = Segment.memsz
  BY <1>1 DEF SegmentType
<1>3. vm_start = v
  BY <1>1, <1>2, Rounded DEF vm_start
<1>4. v + m \in Nat
  OBVIOUS
<1>5. PICK e \in Nat : e = PGROUNDUP(v + m) /\ v + m <= e /\ e % P = 0
  BY <1>4, Rounded
<1>6. vm_end = e
  BY <1>2, <1>3, <1>5 DEF vm_end
<1>7. SegmentPages(Segment) = vm_start \div P .. vm_end \div P - 1
  BY <1>2, <1>3, <1>5, <1>6 DEF SegmentPages, vm_start
<1>8. \A a \in Nat : a \div P \in SegmentPages(Segment) <=> vm_start <= a /\ a < vm_end
  BY <1>1, <1>2, <1>3, <1>5, <1>6
<1>9. ASSUME NEW a \in Nat, vm_start <= a, a < vm_end PROVE a \in AllBytes
  <2>1. PICK p \in Nat : p = a \div P /\ p \in 0 .. UStack - 1
    BY <1>1, <1>8, <1>9, AddressPage
  <2>2. p \in 0 .. Trampoline
    BY <2>1, LayoutAssumption DEF Trampoline
  <2>. QED BY <2>1, <2>2, AddressPage
<1>. QED BY <1>1, <1>2, <1>3, <1>5, <1>6, <1>7, <1>8, <1>9

\* The pages of one more segment.
LEMMA PagesGrow ==
    ASSUME TypeOK, seg \in 1 .. Len(prog)
    PROVE  PagesUpTo(seg) = PagesUpTo(seg - 1) \cup SegmentPages(Segment)
<1>1. 1 .. seg = 1 .. seg - 1 \cup {seg}
  BY DEF TypeOK
<1>. QED BY <1>1 DEF PagesUpTo, Segment

\* A segment gets its pages.
LEMMA LoadSegmentStep == IInv /\ load_segment => IInv'
<1> SUFFICES ASSUME IInv, load_segment PROVE IInv'
  OBVIOUS
<1>0. /\ TypeOK /\ LoadInv /\ pc = "segments" /\ call = NoCall
      /\ pte' = [p \in 0 .. Trampoline |-> IF p \in vm_start \div P .. vm_end \div P - 1
                                           THEN [NoPte EXCEPT !.perm = Segment.perm \cup {"U"}] ELSE pte[p]]
      /\ va' = vm_start /\ off' = 0 /\ pc' = IF Segment.perm = {} THEN "panic" ELSE "copy"
      /\ UNCHANGED <<prog, hartSetsAD, seg, mem>> /\ UNCHANGED <<call, n, buf, ret, calls, mem0>>
  BY DEF IInv, TypeOK, LoadInv, load_segment, callVars, Loading
<1>1. Len(prog) \in Nat /\ seg \in 1 .. Len(prog)
  BY <1>0, LayoutAssumption DEF TypeOK, LoadInv, load_segment
<1>9. pc' = "copy"
  <2>1. prog \in Programs /\ seg \in DOMAIN prog
    BY <1>0, <1>1, LayoutAssumption DEF TypeOK
  <2>. QED BY <1>0, <2>1, LayoutAssumption DEF Segment
<1>2. /\ Segment \in SegmentType /\ vm_start = Segment.vaddr /\ vm_start \in Nat /\ vm_end \in Nat /\ vm_start % P = 0
      /\ Segment.filesz <= Segment.memsz /\ vm_start + Segment.memsz <= vm_end
      /\ SegmentPages(Segment) = vm_start \div P .. vm_end \div P - 1
  BY <1>0, <1>1, CurrentSegment
<1>3. SegmentPages(Segment) \subseteq 0 .. Trampoline
  <2>1. SegmentPages(Segment) \subseteq 0 .. UStack - 1
    BY <1>0, <1>1, SegmentOf DEF Segment
  <2>. QED BY <2>1, LayoutAssumption DEF Trampoline
<1>4. vm_start' = vm_start /\ vm_end' = vm_end /\ Segment' = Segment
  BY <1>0 DEF vm_start, vm_end, Segment, PGROUNDDOWN, PGROUNDUP
<1>5. TypeOK'
  <2>1. [NoPte EXCEPT !.perm = Segment.perm \cup {"U"}] \in Pte
    BY <1>2 DEF NoPte, Pte, SegmentType
  <2>2. pte' \in [0 .. Trampoline -> Pte]
    BY <1>0, <2>1 DEF TypeOK
  <2>3. pc' \in Loading /\ va' \in Nat /\ off' \in Nat
    BY <1>0, <1>9, <1>2 DEF Loading
  <2>. QED BY <1>0, <1>9, <2>2, <2>3 DEF TypeOK
<1>6. UserPages' = PagesUpTo(seg)
  <2>1. PagesUpTo(seg) = PagesUpTo(seg - 1) \cup SegmentPages(Segment)
    BY <1>0, <1>1, PagesGrow
  <2>2. UserPages = PagesUpTo(seg - 1)
    BY <1>0 DEF LoadInv
  <2>3. ASSUME NEW p \in 0 .. Trampoline
        PROVE  "U" \in pte'[p].perm <=> p \in SegmentPages(Segment) \/ "U" \in pte[p].perm
    <3>1. [NoPte EXCEPT !.perm = Segment.perm \cup {"U"}].perm = Segment.perm \cup {"U"}
      BY DEF NoPte
    <3>. QED BY <1>0, <1>2, <3>1
  <2>4. UserPages' = UserPages \cup SegmentPages(Segment)
    BY <1>3, <2>3 DEF UserPages
  <2>. QED BY <2>1, <2>2, <2>4
<1>7. LoadInv'
  <2>1. SegmentsLoaded(seg - 1)'
    BY <1>0 DEF LoadInv, SegmentsLoaded, Content
  <2>2. off' = Least(Segment.filesz, vm_start - vm_start)
    BY <1>0, <1>2 DEF Least, SegmentType
  <2>3. PagesUpTo(seg)' = PagesUpTo(seg)
    BY <1>0 DEF PagesUpTo
  <2>4. vm_start <= vm_end
    BY <1>2 DEF SegmentType
  <2>5. pc' \in Loading <=> call' = NoCall /\ pc' # "run"
    BY <1>0, <1>9 DEF Loading
  <2>6. \A a \in AllBytes : ~(vm_start <= a /\ a < va')
    BY <1>0, <1>2, LayoutAssumption DEF AllBytes, MAXVA
  <2>7. va' % P = 0 /\ vm_start <= va' /\ va' <= vm_end /\ off' = Least(Segment.filesz, va' - vm_start)
    BY <1>0, <1>2, <2>2, <2>4
  <2>. QED BY <1>0, <1>9, <1>1, <1>4, <1>6, <2>1, <2>3, <2>5, <2>6, <2>7 DEF LoadInv
<1>8. RangeInv' /\ WriteInv' /\ ReadInv' /\ ResultInv'
  BY <1>0, <1>9, NotInCall DEF IInv, RangeInv, Loading
<1>. QED BY <1>5, <1>7, <1>8 DEF IInv

\* One page of the segment is copied, and the rest of it cleared.
LEMMA LoadPageStep == IInv /\ load_page => IInv'
<1> SUFFICES ASSUME IInv, load_page PROVE IInv'
  OBVIOUS
<1> DEFINE copy_size == Least(Segment.filesz - off, P)
           S == va .. va + P - 1
           Byte(b) == IF b < va + copy_size THEN FileByte(seg, off + b - va) ELSE Zero
<1>0. /\ TypeOK /\ LoadInv /\ pc = "copy" /\ va < vm_end /\ call = NoCall
      /\ mem' = [a \in AllBytes |-> IF \E b \in S : PA(b) = a THEN Byte(CHOOSE b \in S : PA(b) = a) ELSE mem[a]]
      /\ va' = va + P /\ off' = off + copy_size
      /\ UNCHANGED <<pc, prog, hartSetsAD, seg, pte>> /\ UNCHANGED <<call, n, buf, ret, calls, mem0>>
  BY DEF IInv, LoadInv, load_page, Written, callVars, Loading
<1>1. seg \in 1 .. Len(prog)
  BY <1>0 DEF LoadInv
<1>2. /\ Segment \in SegmentType /\ Segment.filesz <= Segment.memsz
      /\ vm_start = Segment.vaddr /\ vm_start \in Nat /\ vm_end \in Nat /\ vm_end % P = 0
      /\ \A a \in Nat : a \div P \in SegmentPages(Segment) <=> vm_start <= a /\ a < vm_end
      /\ \A a \in Nat : vm_start <= a /\ a < vm_end => a \in AllBytes
  BY <1>0, <1>1, CurrentSegment
<1>3. PICK s \in Nat, e \in Nat, f \in Nat, v \in Nat, o \in Nat, l \in Nat :
           s = vm_start /\ e = vm_end /\ f = Segment.filesz /\ v = va /\ o = off /\ l = P
  BY <1>0, <1>2, LayoutAssumption DEF TypeOK, SegmentType
<1>4. s <= v /\ v < e /\ l > 0 /\ o = Least(f, v - s) /\ v + l <= e /\ v % P = 0
  <2>1. s <= v /\ v < e /\ l > 0 /\ o = Least(f, v - s) /\ v % P = 0
    BY <1>0, <1>3, LayoutAssumption DEF LoadInv
  <2>. QED BY <1>2, <1>3, <2>1, AddressOrder
<1>5. vm_start' = vm_start /\ vm_end' = vm_end /\ Segment' = Segment
  BY <1>0 DEF vm_start, vm_end, Segment, PGROUNDDOWN, PGROUNDUP
<1>6. S = v .. v + l - 1 /\ S \in SUBSET AllBytes
  <2>1. \A x \in S : x \in Nat /\ vm_start <= x /\ x < vm_end
    BY <1>3, <1>4
  <2>. QED BY <1>2, <1>3, <2>1
<1>7. ASSUME NEW x \in AllBytes
      PROVE  mem'[PA(x)] = IF x \in S THEN Byte(x) ELSE mem[PA(x)]
  <2>1. PA(x) \in AllBytes
    BY Injective
  <2>2. PICK T \in SUBSET AllBytes : T = S
    BY <1>6
  <2>3. /\ (\E b \in S : PA(b) = PA(x)) <=> x \in S
        /\ x \in S => (CHOOSE b \in S : PA(b) = PA(x)) = x
    BY <2>2, Chosen
  <2>4. mem'[PA(x)] = IF \E b \in S : PA(b) = PA(x) THEN Byte(CHOOSE b \in S : PA(b) = PA(x)) ELSE mem[PA(x)]
    BY <1>0, <2>1
  <2>. QED BY <2>3, <2>4
<1>8. ASSUME NEW x \in S PROVE Byte(x) = Content(seg, x)
  <2>1. x \in Nat /\ v <= x /\ x < v + l
    BY <1>3, <1>6
  <2>2. PICK c \in Int : c = copy_size /\ c = Least(f - o, l)
    BY <1>3 DEF Least
  <2>3. x < v + c <=> x - s < f
    BY <1>4, <2>1, <2>2 DEF Least
  <2>4. x - s < f => o + x - v = x - s
    BY <1>4, <2>1 DEF Least
  <2>5. prog[seg].vaddr = s /\ prog[seg].filesz = f
    BY <1>2, <1>3 DEF Segment
  <2>. QED BY <1>3, <2>2, <2>3, <2>4, <2>5 DEF Content
<1>9. TypeOK'
  <2>1. off' \in Nat /\ va' \in Nat
    BY <1>0, <1>3, <1>4 DEF Least
  <2>2. mem' = [a \in AllBytes |-> mem'[a]]
    BY <1>0
  <2>. QED BY <1>0, <2>1, <2>2 DEF TypeOK
<1>10. LoadInv'
  <2>1. SegmentsLoaded(seg - 1)'
    <3>1. SUFFICES ASSUME NEW j \in 1 .. seg - 1, NEW a \in AllBytes, a \div P \in SegmentPages(prog[j])
                   PROVE  mem'[PA(a)] = Content(j, a)
      BY <1>0 DEF SegmentsLoaded, Content, PA, SegmentPages
    <3>2. j \in 1 .. Len(prog) /\ j # seg
      BY <1>0, <1>1 DEF TypeOK
    <3>3. a \div P \notin SegmentPages(Segment)
      BY <1>0, <1>1, <3>1, <3>2, SegmentOf DEF Segment
    <3>4. a \notin S
      <4>1. a \in Nat
        BY LayoutAssumption DEF AllBytes, MAXVA
      <4>. QED BY <1>2, <1>3, <1>4, <1>6, <3>3, <4>1
    <3>5. mem[PA(a)] = Content(j, a)
      BY <1>0, <3>1 DEF LoadInv, SegmentsLoaded
    <3>. QED BY <1>7, <3>4, <3>5
  <2>2. UserPages' = PagesUpTo(seg)'
    BY <1>0 DEF LoadInv, UserPages, PagesUpTo
  <2>3. (v + l) % P = 0
    <3>1. PICK d \in Int, r \in 0 .. P - 1 : d = v \div P /\ r = v % P /\ v = d * P + r
      <4>1. v \in Int
        OBVIOUS
      <4>. QED BY <4>1, DivMod
    <3>2. v + l = (d + 1) * P + 0
      BY <1>3, <1>4, <3>1, LayoutAssumption
    <3>3. d + 1 \in Int /\ 0 \in 0 .. P - 1
      BY <1>3, <1>4
    <3>. QED BY <3>2, <3>3, PageByte
  <2>4. off' = Least(Segment.filesz, va' - vm_start)
    BY <1>0, <1>3, <1>4 DEF Least
  <2>5. ASSUME NEW a \in AllBytes, vm_start <= a, a < va' PROVE mem'[PA(a)] = Content(seg, a)
    <3>1. a \in Nat
      BY LayoutAssumption DEF AllBytes, MAXVA
    <3>2. a \in S \/ a < va
      BY <1>0, <1>3, <1>6, <2>5, <3>1
    <3>3. a < va => mem[PA(a)] = Content(seg, a)
      BY <1>0, <2>5 DEF LoadInv
    <3>. QED BY <1>7, <1>8, <3>2, <3>3
  <2>6. \A a \in AllBytes : vm_start <= a /\ a < va' => mem'[PA(a)] = Content(seg, a)'
    BY <1>0, <2>5 DEF Content
  <2>7. va' % P = 0 /\ vm_start <= va' /\ va' <= vm_end
    BY <1>0, <1>3, <1>4, <2>3
  <2>8. pc' = "copy" /\ pc' \in Loading /\ call' = NoCall
    BY <1>0 DEF Loading
  <2>. QED BY <1>0, <1>1, <1>5, <2>1, <2>2, <2>4, <2>6, <2>7, <2>8 DEF LoadInv
<1>11. RangeInv' /\ WriteInv' /\ ReadInv' /\ ResultInv'
  BY <1>0, NotInCall DEF IInv, RangeInv, Loading
<1>. QED BY <1>9, <1>10, <1>11 DEF IInv

\* What is left of the last page of the file's bytes is cleared; the segment is complete.
LEMMA LoadBssStep == IInv /\ load_bss => IInv'
<1> SUFFICES ASSUME IInv, load_bss PROVE IInv'
  OBVIOUS
<1> DEFINE bss_start == Segment.vaddr + Segment.filesz
           S == bss_start .. PGROUNDUP(bss_start) - 1
<1>0. /\ TypeOK /\ LoadInv /\ pc = "copy" /\ va = vm_end /\ call = NoCall
      /\ mem' = IF Segment.memsz > Segment.filesz
                THEN [a \in AllBytes |-> IF \E b \in S : PA(b) = a THEN Zero ELSE mem[a]]
                ELSE mem
      /\ pc' = IF off = Segment.filesz THEN "segments" ELSE "panic"
      /\ seg' = seg + 1
      /\ UNCHANGED <<prog, hartSetsAD, pte, va, off>> /\ UNCHANGED <<call, n, buf, ret, calls, mem0>>
  BY DEF IInv, LoadInv, load_bss, Written, callVars, Loading
<1>1. seg \in 1 .. Len(prog)
  BY <1>0 DEF LoadInv
<1>2. /\ Segment \in SegmentType /\ Segment.filesz <= Segment.memsz
      /\ vm_start = Segment.vaddr /\ vm_start \in Nat /\ vm_end \in Nat /\ vm_start + Segment.memsz <= vm_end
      /\ vm_end = PGROUNDUP(vm_start + Segment.memsz)
      /\ \A a \in Nat : a \div P \in SegmentPages(Segment) <=> vm_start <= a /\ a < vm_end
      /\ \A a \in Nat : vm_start <= a /\ a < vm_end => a \in AllBytes
  BY <1>0, <1>1, CurrentSegment
<1>3. PICK s \in Nat, e \in Nat, f \in Nat, m \in Nat :
           s = vm_start /\ e = vm_end /\ f = Segment.filesz /\ m = Segment.memsz
  BY <1>2 DEF SegmentType
<1>4. pc' = "segments"
  <2>1. off = Least(f, e - s) /\ s + m <= e /\ f <= m
    BY <1>0, <1>2, <1>3 DEF LoadInv
  <2>. QED BY <1>0, <1>3, <2>1 DEF Least
<1>5. /\ \A x \in S : x \in Nat /\ s + f <= x /\ x < e
      /\ bss_start = s + f
  <2>1. s + f \in Nat /\ s + m \in Nat /\ s + f <= s + m /\ bss_start = s + f
    BY <1>2, <1>3
  <2>2. PGROUNDUP(s + f) \in Nat
    BY <2>1, Rounded
  <2>3. PGROUNDUP(s + f) <= PGROUNDUP(s + m)
    BY <2>1, RoundedOrder
  <2>4. PGROUNDUP(s + m) = e
    BY <1>2, <1>3
  <2>5. PICK u \in Nat : u = PGROUNDUP(bss_start) /\ u <= e
    BY <2>1, <2>2, <2>3, <2>4
  <2>6. \A x \in s + f .. u - 1 : x \in Nat /\ s + f <= x /\ x < e
    BY <2>5
  <2>. QED BY <2>1, <2>5, <2>6
<1>6. S \in SUBSET AllBytes
  <2>1. \A x \in S : x \in Nat /\ vm_start <= x /\ x < vm_end
    BY <1>3, <1>5
  <2>. QED BY <1>2, <2>1
<1>7. ASSUME NEW x \in AllBytes
      PROVE  mem'[PA(x)] = mem[PA(x)] \/ (x \in S /\ mem'[PA(x)] = Zero)
  <2>1. PA(x) \in AllBytes
    BY Injective
  <2>2. PICK T \in SUBSET AllBytes : T = S
    BY <1>6
  <2>3. (\E b \in S : PA(b) = PA(x)) <=> x \in S
    BY <2>2, Chosen
  <2>. QED BY <1>0, <2>1, <2>3
<1>8. TypeOK'
  <2>1. mem' = [a \in AllBytes |-> mem'[a]]
    BY <1>0 DEF TypeOK
  <2>. QED BY <1>0, <1>1, <1>4, <2>1 DEF TypeOK, Loading
<1>9. seg' \in 1 .. Len(prog) + 1 /\ seg' - 1 = seg
  BY <1>0, <1>1
<1>12. SegmentsLoaded(seg - 1)'
  <2>1. SUFFICES ASSUME NEW j \in 1 .. seg, NEW a \in AllBytes, a \div P \in SegmentPages(prog[j])
                 PROVE  mem'[PA(a)] = Content(j, a)
    BY <1>0, <1>9 DEF SegmentsLoaded, Content
  <2>2. a \in Nat
    BY LayoutAssumption DEF AllBytes, MAXVA
  <2>3. CASE j = seg
    <3>1. vm_start <= a /\ a < vm_end
      BY <1>2, <2>1, <2>2, <2>3 DEF Segment
    <3>2. mem[PA(a)] = Content(seg, a)
      BY <1>0, <3>1 DEF LoadInv
    <3>3. a \in S => Content(seg, a) = Zero
      <4>1. prog[seg].vaddr = s /\ prog[seg].filesz = f
        BY <1>2, <1>3 DEF Segment
      <4>2. a \in S => ~(a - s < f)
        BY <1>5, <2>2
      <4>. QED BY <4>1, <4>2 DEF Content
    <3>. QED BY <1>7, <2>3, <3>2, <3>3
  <2>4. CASE j # seg
    <3>1. j \in 1 .. seg - 1 /\ j \in 1 .. Len(prog)
      BY <1>1, <2>4 DEF TypeOK
    <3>2. a \div P \notin SegmentPages(Segment)
      BY <1>0, <1>1, <2>1, <2>4, <3>1, SegmentOf DEF Segment
    <3>3. a \notin S
      BY <1>2, <1>3, <1>5, <2>2, <3>2
    <3>4. mem[PA(a)] = Content(j, a)
      BY <1>0, <2>1, <3>1 DEF LoadInv, SegmentsLoaded
    <3>. QED BY <1>7, <3>3, <3>4
  <2>. QED BY <2>3, <2>4
<1>10. LoadInv'
  <2>1. UserPages' = PagesUpTo(seg)
    BY <1>0 DEF LoadInv, UserPages
  <2>2. PagesUpTo(seg - 1)' = PagesUpTo(seg)
    BY <1>0, <1>9 DEF PagesUpTo
  <2>. QED BY <1>0, <1>4, <1>9, <1>12, <2>1, <2>2 DEF LoadInv, Loading
<1>11. RangeInv' /\ WriteInv' /\ ReadInv' /\ ResultInv'
  BY <1>0, <1>4, NotInCall DEF IInv, RangeInv, Loading
<1>. QED BY <1>8, <1>10, <1>11 DEF IInv

\* The stack is mapped and cleared.
LEMMA LoadStackStep == IInv /\ load_stack => IInv'
<1> SUFFICES ASSUME IInv, load_stack PROVE IInv'
  OBVIOUS
<1> DEFINE S == UStack * P .. UStack * P + P - 1
<1>0. /\ TypeOK /\ LoadInv /\ pc = "segments" /\ call = NoCall /\ seg > Len(prog)
      /\ pte' = [pte EXCEPT ![UStack] = [NoPte EXCEPT !.perm = {"R", "W", "U"}]]
      /\ mem' = [a \in AllBytes |-> IF \E b \in S : PA(b) = a THEN Zero ELSE mem[a]]
      /\ pc' = "loaded"
      /\ UNCHANGED <<prog, hartSetsAD, seg, va, off>> /\ UNCHANGED <<call, n, buf, ret, calls, mem0>>
  BY DEF IInv, LoadInv, load_stack, Written, callVars, loadVars, Loading
<1>1. P \in Nat \ {0} /\ NPages \in Nat /\ UStack \in 0 .. Trampoline - 1 /\ UStack \in 0 .. Trampoline
  BY LayoutAssumption DEF Trampoline
<1>2. Len(prog) \in Nat /\ seg - 1 = Len(prog)
  <2>1. Len(prog) \in Nat
    BY <1>0, LayoutAssumption DEF TypeOK
  <2>2. seg \in 1 .. Len(prog) + 1
    BY <1>0 DEF LoadInv
  <2>. QED BY <1>0, <2>1, <2>2
<1>3. ASSUME NEW x \in S PROVE x \in AllBytes /\ x \div P = UStack
  <2>1. PICK b \in 0 .. P - 1 : x = UStack * P + b
    <3>1. UStack * P \in Nat
      BY <1>1 DEF Trampoline
    <3>2. PICK u \in Nat : u = UStack * P
      BY <3>1
    <3>3. x - u \in 0 .. P - 1 /\ x = u + (x - u)
      BY <1>1, <3>2
    <3>. QED BY <3>2, <3>3
  <2>2. UStack * P + b \in AllBytes
    BY <1>1, PhysicalByte
  <2>3. UStack \in Int
    BY <1>1
  <2>4. (UStack * P + b) \div P = UStack
    BY <2>3, PageByte
  <2>. QED BY <2>1, <2>2, <2>4
<1>4. ASSUME NEW x \in AllBytes, x \div P = UStack PROVE x \in S
  <2>1. x \in Int
    BY <1>1 DEF AllBytes, MAXVA
  <2>2. PICK d \in Int, r \in 0 .. P - 1 : d = x \div P /\ x = d * P + r
    BY <2>1, DivMod
  <2>3. UStack * P \in Nat
    BY <1>1 DEF Trampoline
  <2>. QED BY <1>1, <1>4, <2>2, <2>3
<1>5. ASSUME NEW x \in AllBytes
      PROVE  mem'[PA(x)] = IF x \div P = UStack THEN Zero ELSE mem[PA(x)]
  <2>1. PA(x) \in AllBytes
    BY Injective
  <2>2. PICK T \in SUBSET AllBytes : T = S
    BY <1>3
  <2>3. (\E b \in S : PA(b) = PA(x)) <=> x \in S
    BY <2>2, Chosen
  <2>. QED BY <1>0, <1>3, <1>4, <2>1, <2>3
<1>6. TypeOK'
  <2>1. mem' = [a \in AllBytes |-> mem'[a]]
    BY <1>0
  <2>2. [NoPte EXCEPT !.perm = {"R", "W", "U"}] \in Pte
    BY DEF NoPte, Pte
  <2>3. pte' \in [0 .. Trampoline -> Pte]
    BY <1>0, <2>2 DEF TypeOK
  <2>. QED BY <1>0, <2>1, <2>3 DEF TypeOK, Loading
<1>7. SegmentsLoaded(Len(prog))'
  <2>1. SUFFICES ASSUME NEW j \in 1 .. Len(prog), NEW a \in AllBytes, a \div P \in SegmentPages(prog[j])
                 PROVE  mem'[PA(a)] = Content(j, a)
    BY <1>0 DEF SegmentsLoaded, Content
  <2>2. a \div P # UStack
    <3>1. a \div P \in 0 .. UStack - 1
      BY <1>0, <2>1, SegmentOf
    <3>. QED BY <1>1, <3>1
  <2>3. mem[PA(a)] = Content(j, a)
    BY <1>0, <1>2, <2>1 DEF LoadInv, SegmentsLoaded
  <2>. QED BY <1>5, <2>2, <2>3
<1>8. UserPages' = {UStack} \cup PagesUpTo(Len(prog))'
  <2>1. ASSUME NEW p \in 0 .. Trampoline
        PROVE  "U" \in pte'[p].perm <=> p = UStack \/ "U" \in pte[p].perm
    <3>1. "U" \in [NoPte EXCEPT !.perm = {"R", "W", "U"}].perm
      BY DEF NoPte
    <3>. QED BY <1>0, <3>1 DEF TypeOK
  <2>2. UserPages' = {UStack} \cup UserPages
    BY <1>1, <2>1 DEF UserPages
  <2>3. UserPages = PagesUpTo(Len(prog)) /\ PagesUpTo(Len(prog))' = PagesUpTo(Len(prog))
    BY <1>0, <1>2 DEF LoadInv, PagesUpTo
  <2>. QED BY <2>2, <2>3
<1>9. LoadInv'
  <2>1. \A a \in AllBytes : a \div P = UStack => mem'[PA(a)] = Zero
    BY <1>5
  <2>. QED BY <1>0, <1>7, <1>8, <2>1 DEF LoadInv, Loading
<1>10. RangeInv' /\ WriteInv' /\ ReadInv' /\ ResultInv'
  BY <1>0, NotInCall DEF IInv, RangeInv, Loading
<1>. QED BY <1>6, <1>9, <1>10 DEF IInv
-----------------------------------------------------------------------------
\* Calls and accesses.

\* The program starts.
LEMMA RunStep == IInv /\ run => IInv'
<1> SUFFICES ASSUME IInv, run PROVE IInv'
  OBVIOUS
<1>0. /\ TypeOK /\ LoadInv /\ pc = "loaded" /\ pc' = "run" /\ call = NoCall
      /\ UNCHANGED <<pte, mem, prog, hartSetsAD, seg, va, off>> /\ UNCHANGED <<call, n, buf, ret, calls, mem0>>
  BY DEF IInv, LoadInv, run, callVars, loadVars, Loading
<1>1. TypeOK'
  BY <1>0 DEF TypeOK
<1>2. LoadInv'
  BY <1>0 DEF LoadInv, Loading
<1>3. RangeInv' /\ WriteInv' /\ ReadInv' /\ ResultInv'
  BY <1>0, NotInCall DEF IInv, RangeInv, Loading
<1>. QED BY <1>1, <1>2, <1>3 DEF IInv

\* A call or an access begins.
LEMMA BeginStep ==
    ASSUME IInv, NEW op \in Ops, NEW a \in Nat, NEW len \in Nat, begin(op, a, len)
    PROVE  IInv'
<1>0. /\ TypeOK /\ LoadInv /\ pc = "run" /\ pc' = op
      /\ call' = [op |-> op, va |-> a, len |-> len]
      /\ n' = 0 /\ buf' = <<>> /\ ret' = 0 /\ mem0' = mem /\ calls' = calls + 1
      /\ UNCHANGED <<pte, mem, prog, hartSetsAD, seg, va, off>>
  BY DEF IInv, begin, loadVars
<1>1. call'.op = op /\ call'.va = a /\ call'.len = len /\ call' # NoCall
  BY <1>0 DEF NoCall, Ops, Copies, Accesses
<1>2. TypeOK'
  <2>1. call' \in [op : Ops \cup {"none"}, va : Nat, len : Nat]
    BY <1>0
  <2>2. buf' \in Seq({mem0'[x] : x \in AllBytes})
    BY <1>0
  <2>3. mem' = [x \in AllBytes |-> mem'[x]] /\ mem0' = [x \in AllBytes |-> mem0'[x]]
    BY <1>0 DEF TypeOK
  <2>. QED BY <1>0, <2>1, <2>2, <2>3 DEF TypeOK
<1>3. pc' \notin Loading \cup {"run", "return", "panic"}
  BY <1>0 DEF Loading, Ops, Copies, Accesses
<1>4. LoadInv'
  BY <1>1, <1>3 DEF LoadInv, Loading
<1>5. RangeInv'
  BY <1>0, <1>1 DEF RangeInv, Reached
<1>6. WriteInv'
  BY <1>0, <1>1 DEF WriteInv, Reached
<1>7. ReadInv'
  BY <1>0, <1>1 DEF ReadInv
<1>8. ResultInv'
  BY <1>0, <1>1, <1>3 DEF ResultInv
<1>. QED BY <1>2, <1>4, <1>5, <1>6, <1>7, <1>8 DEF IInv

\* The next piece of a copy: bytes of one user page.
LEMMA PieceOf ==
    ASSUME TypeOK, n < call.len, walkaddr_ok(At)
    PROVE  /\ Piece \in Nat /\ Piece > 0 /\ n + Piece <= call.len
           /\ \A k \in 0 .. Piece - 1 : Physical(k) = PA(call.va + (n + k)) /\ Physical(k) \in AllBytes
           /\ \A j \in n .. n + Piece - 1 : call.va + j \in AllBytes /\ walkaddr_ok(call.va + j)
<1>1. PICK v \in Nat, l \in Nat, m \in Nat, a \in Nat : v = call.va /\ l = call.len /\ m = n /\ a = At /\ a = v + m
  BY DEF TypeOK, At
<1>2. P \in Nat \ {0} /\ DOMAIN pte = 0 .. Trampoline
  BY LayoutAssumption DEF TypeOK
<1>3. a \in AllBytes
  BY <1>1, <1>2, AddressPage DEF walkaddr_ok
<1>4. PICK r \in 0 .. P - 1 : r = a % P
  BY <1>1, <1>2
<1>5. PICK c \in Nat : c = Piece /\ c > 0 /\ c <= P - r /\ m + c <= l
  <2>1. At % P = r /\ call.len - n = l - m
    BY <1>1, <1>4
  <2>2. Piece = Least(P - r, l - m)
    BY <2>1 DEF Piece
  <2>9. m < l
    BY <1>1
  <2>7. l - m \in Nat /\ l - m > 0 /\ m + (l - m) = l
    BY <2>9
  <2>8. P - r \in Nat /\ P - r > 0
    BY <1>2, <1>4
  <2>3. PICK x \in Nat, y \in Nat : x = P - r /\ y = l - m /\ x > 0 /\ y > 0 /\ m + y = l
    BY <2>7, <2>8
  <2>4. Least(x, y) \in Nat /\ Least(x, y) > 0 /\ Least(x, y) <= x /\ Least(x, y) <= y
    BY <2>3 DEF Least
  <2>5. PICK c \in Nat : c = Piece /\ c > 0 /\ c <= x /\ c <= y
    BY <2>2, <2>3, <2>4
  <2>6. c <= P - r /\ m + c <= l
    BY <2>3, <2>5
  <2>. QED BY <2>5, <2>6
<1>6. ASSUME NEW k \in 0 .. c - 1
      PROVE  /\ Physical(k) = PA(v + (m + k)) /\ Physical(k) \in AllBytes
             /\ v + (m + k) \in AllBytes /\ walkaddr_ok(v + (m + k))
  <2>1. k \in 0 .. P - (a % P) - 1
    BY <1>2, <1>4, <1>5
  <2>2. a + k \in AllBytes /\ (a + k) \div P = a \div P /\ (PA(a) + k) % MAXVA = PA(a + k)
    BY <1>3, <2>1, PieceBytes
  <2>3. a + k = v + (m + k)
    BY <1>1
  <2>4. PA(a + k) \in AllBytes
    BY <2>2, Injective
  <2>5. walkaddr_ok(a + k)
    BY <1>1, <2>2 DEF walkaddr_ok
  <2>. QED BY <1>1, <2>2, <2>3, <2>4, <2>5 DEF Physical
<1>7. ASSUME NEW j \in n .. n + Piece - 1 PROVE call.va + j \in AllBytes /\ walkaddr_ok(call.va + j)
  <2>1. j - m \in 0 .. c - 1 /\ v + (m + (j - m)) = call.va + j
    BY <1>1, <1>5, <1>7
  <2>. QED BY <1>6, <2>1
<1>. QED BY <1>1, <1>5, <1>6, <1>7

\* The bytes that a copy has passed are bytes of memory.
LEMMA RangeBytes ==
    ASSUME TypeOK, RangeInv, InCall, call.op \in Copies, NEW j \in Reached
    PROVE  call.va + j \in AllBytes
<1>1. walkaddr_ok(call.va + j)
  BY DEF RangeInv
<1>2. call.va + j \in Nat
  BY DEF TypeOK, Reached
<1>. QED BY <1>1, <1>2, AddressPage DEF walkaddr_ok, TypeOK

\* The least element of a set of natural numbers.
LEMMA MinOf ==
    ASSUME NEW S \in SUBSET Nat, S # {}
    PROVE  Min(S) \in S /\ \A y \in S : Min(S) <= y
<1>1. PICK R : R = {ss \in Nat \X Nat : ss[1] < ss[2]} /\ IsWellFoundedOn(R, Nat)
  BY NatLessThanWellFounded DEF OpToRel
<1>2. PICK x \in S : \A y \in S : ~ (<<y, x>> \in R)
  BY <1>1, WFMin
<1>3. \A y \in S : x <= y
  <2>1. ASSUME NEW y \in S, y < x PROVE FALSE
    <3>1. <<y, x>> \in Nat \X Nat
      OBVIOUS
    <3>2. <<y, x>> \in R
      BY <1>1, <2>1, <3>1
    <3>. QED BY <1>2, <3>2
  <2>. QED BY <2>1
<1>. QED BY <1>3 DEF Min

\* The ways a copy ends without moving a byte: all of it is done, its next address is above
\* MAXVA, or its next page is not the user's.
LEMMA CopyEnds ==
    ASSUME IInv, NEW op \in Copies, pc = op,
           \/ n = call.len /\ finish(IF op = "copystr" THEN n ELSE 0)
           \/ n < call.len /\ ~IS_USER_VA(PGROUNDDOWN(At)) /\ pc' = "panic" /\ ret' = ret
           \/ n < call.len /\ ~walkaddr_ok(At) /\ finish(-1),
           UNCHANGED <<mem, n, buf, pte, loadVars, call, calls, mem0>>
    PROVE  IInv'
<1>0. /\ TypeOK /\ LoadInv /\ RangeInv /\ WriteInv /\ ReadInv /\ ResultInv
      /\ UNCHANGED <<mem, n, buf, pte, prog, hartSetsAD, seg, va, off, call, calls, mem0>>
  BY DEF IInv, loadVars
<1>1. /\ pc' \in {"return", "panic"} /\ pc \in Ops /\ call.op = op /\ call # NoCall
  <2>1. pc' \in {"return", "panic"}
    BY DEF finish
  <2>. QED BY <1>0, <2>1 DEF ResultInv, LoadInv, Loading, Ops, Copies
<1>2. ret' \in Int
  BY <1>0 DEF finish, TypeOK
<1>3. TypeOK'
  BY <1>0, <1>1, <1>2 DEF TypeOK
<1>4. LoadInv'
  BY <1>0, <1>1 DEF LoadInv, Loading
<1>5. \A a : walkaddr_ok(a)' <=> walkaddr_ok(a)
  BY <1>0 DEF walkaddr_ok
<1>6. InCall /\ InCall'
  BY <1>1 DEF InCall
<1>7. RangeInv'
  BY <1>0, <1>5, <1>6 DEF RangeInv, Reached
<1>8. WriteInv'
  <2>1. op = "copy_to" \/ \A a \in AllBytes : mem[a] = mem0[a]
    BY <1>0, <1>1, <1>6 DEF WriteInv, Copies, Accesses
  <2>2. op = call'.op /\ op # "wait"
    BY <1>0, <1>1 DEF Copies
  <2>3. CASE op = "copy_to"
    BY <1>0, <1>1, <1>6, <2>2, <2>3 DEF WriteInv, Reached
  <2>4. CASE op # "copy_to"
    BY <1>0, <2>1, <2>2, <2>4 DEF WriteInv
  <2>. QED BY <2>3, <2>4
<1>9. ReadInv'
  <2>1. ~FoundZero
    BY <1>1 DEF FoundZero, Ops, Copies, Accesses
  <2>. QED BY <1>0, <1>6, <2>1 DEF ReadInv
<1>10. ResultInv'
  <2>1. pc' = "panic" => call.va + call.len > MAXVA
    <3>1. SUFFICES ASSUME pc' = "panic" PROVE call.va + call.len > MAXVA
      OBVIOUS
    <3>2. n < call.len /\ ~IS_USER_VA(PGROUNDDOWN(At))
      BY <3>1 DEF finish
    <3>3. PICK v \in Nat, l \in Nat, m \in Nat : v = call.va /\ l = call.len /\ m = n /\ At = v + m
      BY <1>0 DEF TypeOK, At
    <3>4. v + m \in Nat
      OBVIOUS
    <3>5. PICK d \in Nat : d = PGROUNDDOWN(v + m) /\ d <= v + m
      BY <3>4, Rounded
    <3>6. MAXVA \in Nat /\ ~(d <= MAXVA)
      BY <3>2, <3>3, <3>5, LayoutAssumption DEF IS_USER_VA, MAXVA
    <3>7. m < l
      BY <3>2, <3>3
    <3>8. v + l > MAXVA
      BY <3>5, <3>6, <3>7
    <3>. QED BY <3>3, <3>8
  <2>2. pc' = "return" => \/ ret' = -1 /\ n < call.len /\ ~walkaddr_ok(call.va + n)
                          \/ ret' = (IF op = "copystr" THEN n ELSE 0) /\ n = call.len
    BY DEF finish, At
  <2>3. walkaddr_ok(call.va + n)' <=> walkaddr_ok(call.va + n)
    BY <1>0 DEF walkaddr_ok
  <2>4. pc' \notin Ops
    BY <1>1 DEF Ops, Copies, Accesses
  <2>5. pc' = "return" /\ call'.op \in Copies =>
         \/ ret' = -1 /\ n' < call'.len /\ ~walkaddr_ok(call.va + n)'
         \/ ret' = (IF call'.op = "copystr" THEN n' ELSE 0) /\ n' = call'.len
    BY <1>0, <1>1, <2>2, <2>3
  <2>6. call'.op \in Ops
    BY <1>0, <1>1 DEF Ops
  <2>7. pc' = "panic" => call'.va + call'.len > MAXVA
    BY <1>0, <2>1
  <2>. QED BY <2>4, <2>5, <2>6, <2>7 DEF ResultInv
<1>. QED BY <1>3, <1>4, <1>7, <1>8, <1>9, <1>10 DEF IInv

\* One iteration of copy_to_user.
LEMMA CopyToStep == IInv /\ copy_to_user => IInv'
<1> SUFFICES ASSUME IInv, copy_to_user PROVE IInv'
  OBVIOUS
<1> DEFINE Sources(a) == {k \in 0 .. Piece - 1 : Physical(k) = a}
<1>1. CASE /\ pc = "copy_to"
           /\ \/ n = call.len /\ finish(0)
              \/ n < call.len /\ ~IS_USER_VA(PGROUNDDOWN(At)) /\ pc' = "panic" /\ ret' = ret
              \/ n < call.len /\ ~walkaddr_ok(At) /\ finish(-1)
           /\ UNCHANGED <<mem, n, buf, pte, loadVars, call, calls, mem0>>
  <2>1. PICK op \in Copies : op = "copy_to"
    BY DEF Copies
  <2>2. \/ n = call.len /\ finish(IF op = "copystr" THEN n ELSE 0)
        \/ n < call.len /\ ~IS_USER_VA(PGROUNDDOWN(At)) /\ pc' = "panic" /\ ret' = ret
        \/ n < call.len /\ ~walkaddr_ok(At) /\ finish(-1)
    BY <1>1, <2>1
  <2>. QED BY <1>1, <2>1, <2>2, CopyEnds
<1>2. CASE /\ pc = "copy_to" /\ n < call.len /\ walkaddr_ok(At)
           /\ mem' = [a \in AllBytes |-> IF \E k \in 0 .. Piece - 1 : Physical(k) = a
                                     THEN KernelByte(n + (CHOOSE k \in 0 .. Piece - 1 : Physical(k) = a))
                                     ELSE mem[a]]
           /\ n' = n + Piece
           /\ UNCHANGED <<pc, buf, ret>>
           /\ UNCHANGED <<pte, prog, hartSetsAD, seg, va, off, call, calls, mem0>>
  <2>0. /\ TypeOK /\ LoadInv /\ RangeInv /\ WriteInv /\ ResultInv /\ InCall /\ call.op = "copy_to"
    BY <1>2 DEF IInv, ResultInv, InCall, Ops, Copies
  <2>1. /\ Piece \in Nat /\ Piece > 0 /\ n + Piece <= call.len
        /\ \A k \in 0 .. Piece - 1 : Physical(k) = PA(call.va + (n + k)) /\ Physical(k) \in AllBytes
        /\ \A j \in n .. n + Piece - 1 : call.va + j \in AllBytes /\ walkaddr_ok(call.va + j)
    BY <1>2, <2>0, PieceOf
  <2>2. PICK v \in Nat, l \in Nat, m \in Nat, c \in Nat :
             v = call.va /\ l = call.len /\ m = n /\ c = Piece /\ n' = m + c /\ m + c <= l
    BY <1>2, <2>0, <2>1 DEF TypeOK
  <2>3. \A j \in 0 .. m + c - 1 : j \in 0 .. m - 1 \/ j \in m .. m + c - 1
    OBVIOUS
  <2>4. \A j \in 0 .. m - 1 : v + j \in AllBytes /\ walkaddr_ok(v + j) /\ mem[PA(v + j)] = KernelByte(j)
    <3>1. \A j \in 0 .. m - 1 : j \in Reached
      BY <2>2 DEF Reached
    <3>2. \A j \in 0 .. m - 1 : v + j \in AllBytes
      BY <2>0, <2>2, <3>1, RangeBytes DEF Copies
    <3>. QED BY <2>0, <2>2, <3>1, <3>2 DEF RangeInv, WriteInv, Copies
  <2>5. \A j \in 0 .. m + c - 1 : v + j \in AllBytes /\ walkaddr_ok(v + j)
    BY <2>1, <2>2, <2>3, <2>4
  <2>6. ASSUME NEW j \in 0 .. m + c - 1 PROVE mem'[PA(v + j)] = KernelByte(j)
    <3>1. PICK a \in AllBytes : a = PA(v + j) /\ v + j \in AllBytes
      BY <2>5, Injective
    <3>2. ASSUME NEW k \in 0 .. c - 1, Physical(k) = a PROVE m + k = j
      <4>1. Physical(k) = PA(v + (m + k)) /\ m + k \in 0 .. m + c - 1
        BY <2>1, <2>2
      <4>2. v + (m + k) \in AllBytes
        BY <2>5, <4>1
      <4>3. v + (m + k) = v + j
        BY <3>1, <3>2, <4>1, <4>2, Injective
      <4>. QED BY <4>3
    <3>3. mem'[a] = IF \E k \in 0 .. c - 1 : Physical(k) = a
                    THEN KernelByte(m + (CHOOSE k \in 0 .. c - 1 : Physical(k) = a)) ELSE mem[a]
      BY <1>2, <2>2
    <3>4. CASE j \in m .. m + c - 1
      <4>1. PICK k \in 0 .. c - 1 : j = m + k
        <5>1. j - m \in 0 .. c - 1 /\ j = m + (j - m)
          BY <3>4
        <5>. QED BY <5>1
      <4>2. Physical(k) = a
        BY <2>1, <2>2, <3>1, <4>1
      <4>3. PICK i \in 0 .. c - 1 : i = (CHOOSE x \in 0 .. c - 1 : Physical(x) = a) /\ Physical(i) = a
        BY <4>2
      <4>4. mem'[a] = KernelByte(m + i)
        BY <3>3, <4>2, <4>3
      <4>. QED BY <3>1, <3>2, <4>3, <4>4
    <3>5. CASE j \in 0 .. m - 1
      <4>1. ~\E k \in 0 .. c - 1 : Physical(k) = a
        BY <3>2, <3>5
      <4>. QED BY <2>4, <3>1, <3>3, <3>5, <4>1
    <3>. QED BY <2>3, <3>4, <3>5
  <2>7. ASSUME NEW a \in AllBytes, mem'[a] # mem0[a]
        PROVE  \E j \in 0 .. m + c - 1 : PA(v + j) = a
    <3>1. CASE \E k \in 0 .. c - 1 : Physical(k) = a
      <4>1. PICK k \in 0 .. c - 1 : Physical(k) = a
        BY <3>1
      <4>2. PA(v + (m + k)) = a
        BY <2>1, <2>2, <4>1
      <4>3. m + k \in 0 .. m + c - 1
        OBVIOUS
      <4>. QED BY <4>2, <4>3
    <3>2. CASE ~\E k \in 0 .. c - 1 : Physical(k) = a
      <4>1. mem'[a] = mem[a]
        BY <1>2, <2>2, <3>2
      <4>2. \E j \in Reached : PA(call.va + j) = a
        BY <2>0, <2>7, <4>1 DEF WriteInv
      <4>3. PICK j \in 0 .. m - 1 : PA(v + j) = a
        BY <2>2, <4>2 DEF Reached
      <4>4. j \in 0 .. m + c - 1
        OBVIOUS
      <4>. QED BY <4>3, <4>4
    <3>. QED BY <3>1, <3>2
  <2>8. TypeOK'
    <3>1. mem' = [a \in AllBytes |-> mem'[a]]
      BY <1>2
    <3>2. n' \in Nat
      BY <2>2
    <3>. QED BY <1>2, <2>0, <3>1, <3>2 DEF TypeOK
  <2>9. LoadInv'
    BY <1>2, <2>0 DEF LoadInv, Loading
  <2>10. Reached' = 0 .. m + c - 1 /\ InCall' /\ call' = call /\ mem0' = mem0
    BY <1>2, <2>0, <2>2 DEF Reached, InCall
  <2>11. RangeInv'
    <3>1. \A a : walkaddr_ok(a)' <=> walkaddr_ok(a)
      BY <1>2 DEF walkaddr_ok
    <3>2. n' <= call'.len
      BY <2>2, <2>10
    <3>. QED BY <2>2, <2>5, <2>10, <3>1, <3>2 DEF RangeInv
  <2>12. WriteInv'
    <3>1. buf' = <<>>
      BY <1>2, <2>0 DEF WriteInv
    <3>. QED BY <2>0, <2>2, <2>6, <2>7, <2>10, <3>1 DEF WriteInv
  <2>13. ReadInv'
    BY <2>0, <2>10 DEF ReadInv
  <2>14. ResultInv'
    BY <1>2, <2>0, <2>10 DEF ResultInv, Ops, Copies, Accesses
  <2>. QED BY <2>8, <2>9, <2>11, <2>12, <2>13, <2>14 DEF IInv
<1>. QED BY <1>1, <1>2 DEF copy_to_user, copy_loop, loadVars

\* What the bytes are that copy_from_user and copystr_from_user append to the buffer.
LEMMA ReadPiece ==
    ASSUME IInv, NEW op \in {"copy_from", "copystr"}, pc = op, n < call.len, walkaddr_ok(At),
           NEW c \in 1 .. Piece, buf' = buf \o [k \in 1 .. c |-> mem[Physical(k - 1)]],
           call' = call, mem0' = mem0
    PROVE  /\ Len(buf) = n /\ Len(buf') = n + c /\ buf' \in Seq({mem0[a] : a \in AllBytes})
           /\ \A j \in 1 .. n : buf'[j] = buf[j]
           /\ \A k \in 0 .. c - 1 : buf'[n + k + 1] = mem[Physical(k)]
           /\ \A j \in 1 .. n + c : buf'[j] = mem0[PA(call.va + j - 1)]
<1> DEFINE B == {mem0[a] : a \in AllBytes}
           More == [k \in 1 .. c |-> mem[Physical(k - 1)]]
<1>1. /\ TypeOK /\ WriteInv /\ ReadInv /\ InCall /\ call.op = op
  BY DEF IInv, ResultInv, InCall, Ops, Copies
<1>2. /\ Piece \in Nat
      /\ \A k \in 0 .. Piece - 1 : Physical(k) = PA(call.va + (n + k)) /\ Physical(k) \in AllBytes
  BY <1>1, PieceOf
<1>3. Len(buf) = n
  BY <1>1 DEF ReadInv, FoundZero
<1>4. \A a \in AllBytes : mem[a] = mem0[a]
  BY <1>1 DEF WriteInv
<1>5. PICK v \in Nat, m \in Nat : v = call.va /\ m = n /\ c \in Nat
  BY <1>1, <1>2 DEF TypeOK
<1>6. \A k \in 1 .. c : /\ Physical(k - 1) \in AllBytes /\ Physical(k - 1) = PA(v + (m + (k - 1)))
                        /\ mem[Physical(k - 1)] = mem0[Physical(k - 1)]
  <2>1. \A k \in 1 .. c : k - 1 \in 0 .. Piece - 1
    BY <1>2, <1>5
  <2>. QED BY <1>2, <1>4, <1>5, <2>1
<1>7. More \in Seq(B) /\ Len(More) = c /\ buf \in Seq(B)
  <2>1. \A k \in 1 .. c : mem[Physical(k - 1)] \in B
    BY <1>6
  <2>2. More \in [1 .. c -> B]
    BY <2>1
  <2>3. More \in Seq(B) /\ Len(More) = c
    BY <1>5, <2>2
  <2>. QED BY <1>1, <2>3 DEF TypeOK
<1>8. /\ buf' \in Seq(B) /\ Len(buf') = m + c
      /\ \A j \in 1 .. m : buf'[j] = buf[j]
      /\ \A j \in m + 1 .. m + c : buf'[j] = More[j - m]
  <2>1. PICK M \in Seq(B) : M = More /\ Len(M) = c
    BY <1>7
  <2>2. buf' = buf \o M /\ Len(buf) = m /\ buf \in Seq(B)
    BY <1>3, <1>5, <1>7, <2>1
  <2>3. /\ buf' \in Seq(B) /\ Len(buf') = m + c
        /\ \A j \in 1 .. m : buf'[j] = buf[j]
        /\ \A j \in m + 1 .. m + c : buf'[j] = M[j - m]
    BY <1>5, <2>1, <2>2
  <2>. QED BY <2>1, <2>3
<1>9. ASSUME NEW k \in 0 .. c - 1 PROVE buf'[m + k + 1] = mem[Physical(k)]
  <2>1. m + k + 1 \in m + 1 .. m + c /\ (m + k + 1) - m = k + 1 /\ k + 1 \in 1 .. c /\ (k + 1) - 1 = k
    BY <1>5
  <2>2. buf'[m + k + 1] = More[k + 1]
    BY <1>8, <2>1
  <2>. QED BY <2>1, <2>2
<1>10. ASSUME NEW j \in 1 .. m + c PROVE buf'[j] = mem0[PA(v + j - 1)]
  <2>1. CASE j \in 1 .. m
    BY <1>1, <1>3, <1>5, <1>8, <2>1 DEF ReadInv
  <2>2. CASE j \in m + 1 .. m + c
    <3>1. j - m \in 1 .. c /\ m + ((j - m) - 1) = j - 1 /\ v + (j - 1) = v + j - 1
      BY <1>5, <2>2
    <3>2. buf'[j] = mem[Physical((j - m) - 1)]
      BY <1>8, <2>2, <3>1
    <3>. QED BY <1>6, <3>1, <3>2
  <2>3. j \in 1 .. m \/ j \in m + 1 .. m + c
    BY <1>5
  <2>. QED BY <2>1, <2>2, <2>3
<1>. QED BY <1>3, <1>5, <1>8, <1>9, <1>10

\* A piece is read: the copy goes on, or it has found the zero and ends.
LEMMA ReadStep ==
    ASSUME IInv, NEW op \in {"copy_from", "copystr"}, pc = op, n < call.len, walkaddr_ok(At),
           NEW c \in 1 .. Piece, buf' = buf \o [k \in 1 .. c |-> mem[Physical(k - 1)]],
           UNCHANGED <<pte, prog, hartSetsAD, seg, va, off, mem, call, calls, mem0>>,
           \/ c = Piece /\ n' = n + c /\ UNCHANGED <<pc, ret>>
              /\ (op = "copystr" => \A k \in 0 .. Piece - 1 : mem[Physical(k)] # Zero)
           \/ /\ op = "copystr" /\ n' = n + c - 1 /\ pc' = "return" /\ ret' = n'
              /\ mem[Physical(c - 1)] = Zero
              /\ \A k \in 0 .. c - 2 : mem[Physical(k)] # Zero
    PROVE  IInv'
<1>1. /\ TypeOK /\ LoadInv /\ RangeInv /\ WriteInv /\ ReadInv /\ ResultInv /\ InCall /\ call.op = op
      /\ InCall' /\ call' = call /\ mem0' = mem0 /\ mem' = mem /\ pte' = pte
  BY DEF IInv, ResultInv, InCall, Ops, Copies
<1>2. /\ Piece \in Nat /\ n + Piece <= call.len
      /\ \A j \in n .. n + Piece - 1 : walkaddr_ok(call.va + j)
  BY <1>1, PieceOf
<1>3. /\ Len(buf) = n /\ Len(buf') = n + c /\ buf' \in Seq({mem0[a] : a \in AllBytes})
      /\ \A j \in 1 .. n : buf'[j] = buf[j]
      /\ \A k \in 0 .. c - 1 : buf'[n + k + 1] = mem[Physical(k)]
      /\ \A j \in 1 .. n + c : buf'[j] = mem0[PA(call.va + j - 1)]
  BY <1>1, ReadPiece
<1>4. PICK m \in Nat, l \in Nat, u \in Nat : m = n /\ l = call.len /\ u = n' /\ c \in Nat /\ c > 0
  <2>1. n \in Nat /\ call.len \in Nat /\ c \in Nat /\ c > 0
    BY <1>1, <1>2 DEF TypeOK
  <2>2. n' \in Nat
    BY <2>1
  <2>. QED BY <2>1, <2>2
<1>5. u = m + c \/ u = m + c - 1
  BY <1>4
<1>6. u <= l /\ m + c <= l /\ m <= u
  <2>1. m + Piece <= l
    BY <1>2, <1>4
  <2>. QED BY <1>2, <1>4, <1>5, <2>1
<1>7. TypeOK'
  <2>1. pc' \in Ops \cup {"return"} /\ ret' \in Int /\ n' \in Nat
    BY <1>1, <1>4 DEF TypeOK, Ops, Copies
  <2>2. buf' \in Seq({mem0'[a] : a \in AllBytes})
    BY <1>1, <1>3
  <2>. QED BY <1>1, <2>1, <2>2 DEF TypeOK
<1>8. LoadInv'
  <2>1. pc' \notin Loading /\ pc \notin Loading /\ pc # "run" /\ pc' # "run"
    BY DEF Loading
  <2>. QED BY <1>1, <2>1 DEF LoadInv, Loading
<1>9. RangeInv'
  <2>1. \A a : walkaddr_ok(a)' <=> walkaddr_ok(a)
    BY <1>1 DEF walkaddr_ok
  <2>2. ASSUME NEW j \in 0 .. u - 1 PROVE walkaddr_ok(call.va + j)
    <3>1. CASE j \in 0 .. m - 1
      <4>1. j \in Reached
        BY <1>4, <3>1 DEF Reached
      <4>. QED BY <1>1, <4>1 DEF RangeInv, Copies
    <3>2. CASE j \notin 0 .. m - 1
      <4>1. PICK p \in Nat : p = Piece /\ c <= p
        BY <1>2
      <4>2. j \in m .. m + p - 1
        <5>1. c \in Nat
          BY <1>4
        <5>2. j \in Nat /\ j < u
          OBVIOUS
        <5>3. ~(j < m)
          BY <3>2, <5>2
        <5>. QED BY <1>5, <4>1, <5>1, <5>2, <5>3
      <4>3. j \in n .. n + Piece - 1
        BY <1>4, <4>1, <4>2
      <4>. QED BY <1>2, <4>3
    <3>. QED BY <3>1, <3>2
  <2>3. n' <= call'.len
    BY <1>1, <1>4, <1>6
  <2>4. Reached' = 0 .. u - 1
    BY <1>4 DEF Reached
  <2>. QED BY <1>1, <2>1, <2>2, <2>3, <2>4 DEF RangeInv
<1>10. WriteInv'
  <2>1. \A a \in AllBytes : mem[a] = mem0[a]
    BY <1>1 DEF WriteInv
  <2>. QED BY <1>1, <2>1 DEF WriteInv
<1>11. op = "copystr" => \A j \in 1 .. u : buf'[j] # Zero
  <2>1. SUFFICES ASSUME op = "copystr", NEW j \in 1 .. u PROVE buf'[j] # Zero
    OBVIOUS
  <2>2. CASE j \in 1 .. m
    BY <1>1, <1>3, <1>4, <2>1, <2>2 DEF ReadInv
  <2>3. CASE j \notin 1 .. m
    <3>1. PICK k \in 0 .. c - 1 : j = m + k + 1
      <4>1. j - m - 1 \in 0 .. c - 1 /\ j = m + (j - m - 1) + 1
        BY <1>4, <1>5, <2>3
      <4>. QED BY <4>1
    <3>2. buf'[j] = mem[Physical(k)]
      BY <1>3, <1>4, <3>1
    <3>3. u = m + c - 1 => k \in 0 .. c - 2
      BY <1>4, <3>1
    <3>4. u = m + c => c = Piece
      BY <1>4
    <3>5. mem[Physical(k)] # Zero
      <4>1. CASE u = m + c
        BY <1>4, <2>1, <3>1, <3>4, <4>1
      <4>2. CASE u = m + c - 1
        BY <1>4, <2>1, <3>1, <3>3, <4>2
      <4>. QED BY <1>5, <4>1, <4>2
    <3>. QED BY <3>2, <3>5
  <2>. QED BY <2>2, <2>3
<1>12. u = m + c - 1 => /\ FoundZero' /\ buf'[n' + 1] = Zero
                        /\ op = "copystr" /\ pc' = "return" /\ ret' = n'
  <2>1. SUFFICES ASSUME u = m + c - 1
                 PROVE  FoundZero' /\ buf'[n' + 1] = Zero /\ op = "copystr" /\ pc' = "return" /\ ret' = n'
    OBVIOUS
  <2>2. op = "copystr" /\ pc' = "return" /\ ret' = n' /\ mem[Physical(c - 1)] = Zero
    BY <1>4, <2>1
  <2>3. n' < call'.len /\ Len(buf') = n' + 1
    BY <1>1, <1>3, <1>4, <1>6, <2>1
  <2>4. c - 1 \in 0 .. c - 1 /\ n' + 1 = n + (c - 1) + 1
    BY <1>4, <2>1
  <2>5. buf'[n' + 1] = Zero
    BY <1>3, <2>2, <2>4
  <2>. QED BY <1>1, <2>2, <2>3, <2>5 DEF FoundZero
<1>13. ReadInv'
  <2>1. \A j \in 1 .. Len(buf') : buf'[j] = mem0'[PA(call'.va + j - 1)]
    BY <1>1, <1>3
  <2>2. Len(buf') = n' \/ (FoundZero' /\ buf'[n' + 1] = Zero)
    BY <1>3, <1>4, <1>5, <1>12
  <2>3. call'.op = "copystr" => \A j \in 1 .. n' : buf'[j] # Zero
    BY <1>1, <1>4, <1>11
  <2>. QED BY <2>1, <2>2, <2>3 DEF ReadInv
<1>14. ResultInv'
  <2>1. CASE u = m + c
    <3>1. pc' = op
      BY <1>4, <2>1
    <3>. QED BY <1>1, <3>1 DEF ResultInv
  <2>2. CASE u = m + c - 1
    BY <1>1, <1>12, <2>2 DEF ResultInv, Ops, Copies, Accesses
  <2>. QED BY <1>5, <2>1, <2>2
<1>. QED BY <1>7, <1>8, <1>9, <1>10, <1>13, <1>14 DEF IInv

\* One iteration of copy_from_user.
LEMMA CopyFromStep == IInv /\ copy_from_user => IInv'
<1> SUFFICES ASSUME IInv, copy_from_user PROVE IInv'
  OBVIOUS
<1>1. CASE /\ pc = "copy_from"
           /\ \/ n = call.len /\ finish(0)
              \/ n < call.len /\ ~IS_USER_VA(PGROUNDDOWN(At)) /\ pc' = "panic" /\ ret' = ret
              \/ n < call.len /\ ~walkaddr_ok(At) /\ finish(-1)
           /\ UNCHANGED <<mem, n, buf, pte, loadVars, call, calls, mem0>>
  <2>1. PICK op \in Copies : op = "copy_from"
    BY DEF Copies
  <2>2. \/ n = call.len /\ finish(IF op = "copystr" THEN n ELSE 0)
        \/ n < call.len /\ ~IS_USER_VA(PGROUNDDOWN(At)) /\ pc' = "panic" /\ ret' = ret
        \/ n < call.len /\ ~walkaddr_ok(At) /\ finish(-1)
    BY <1>1, <2>1
  <2>. QED BY <1>1, <2>1, <2>2, CopyEnds
<1>2. CASE /\ pc = "copy_from" /\ n < call.len /\ walkaddr_ok(At)
           /\ buf' = buf \o [k \in 1 .. Piece |-> mem[Physical(k - 1)]]
           /\ n' = n + Piece
           /\ UNCHANGED <<pc, mem, ret>>
           /\ UNCHANGED <<pte, prog, hartSetsAD, seg, va, off, call, calls, mem0>>
  <2>1. Piece \in Nat /\ Piece > 0
    BY <1>2, PieceOf DEF IInv
  <2>2. PICK op \in {"copy_from", "copystr"} : op = "copy_from"
    OBVIOUS
  <2>3. PICK c \in 1 .. Piece : c = Piece
    BY <2>1
  <2>4. buf' = buf \o [k \in 1 .. c |-> mem[Physical(k - 1)]]
    BY <1>2, <2>3
  <2>5. UNCHANGED <<pte, prog, hartSetsAD, seg, va, off, mem, call, calls, mem0>>
    BY <1>2
  <2>6. pc = op /\ c = Piece /\ n' = n + c /\ UNCHANGED <<pc, ret>> /\ op # "copystr"
    BY <1>2, <2>2, <2>3
  <2>. QED BY <1>2, <2>4, <2>5, <2>6, ReadStep
<1>. QED BY <1>1, <1>2 DEF copy_from_user, copy_loop, loadVars

\* One iteration of copystr_from_user.
LEMMA CopyStrStep == IInv /\ copystr_from_user => IInv'
<1> SUFFICES ASSUME IInv, copystr_from_user PROVE IInv'
  OBVIOUS
<1> DEFINE zeros == {k \in 0 .. Piece - 1 : mem[Physical(k)] = Zero}
<1>1. CASE /\ pc = "copystr"
           /\ \/ n = call.len /\ finish(n)
              \/ n < call.len /\ ~IS_USER_VA(PGROUNDDOWN(At)) /\ pc' = "panic" /\ ret' = ret
              \/ n < call.len /\ ~walkaddr_ok(At) /\ finish(-1)
           /\ UNCHANGED <<mem, n, buf, pte, loadVars, call, calls, mem0>>
  <2>1. PICK op \in Copies : op = "copystr"
    BY DEF Copies
  <2>2. \/ n = call.len /\ finish(IF op = "copystr" THEN n ELSE 0)
        \/ n < call.len /\ ~IS_USER_VA(PGROUNDDOWN(At)) /\ pc' = "panic" /\ ret' = ret
        \/ n < call.len /\ ~walkaddr_ok(At) /\ finish(-1)
    BY <1>1, <2>1
  <2>. QED BY <1>1, <2>1, <2>2, CopyEnds
<1>2. ASSUME n < call.len, walkaddr_ok(At) PROVE Piece \in Nat /\ Piece > 0 /\ n \in Nat
  BY <1>2, PieceOf DEF IInv, TypeOK
<1>3. PICK op \in {"copy_from", "copystr"} : op = "copystr"
  OBVIOUS
<1>4. CASE /\ pc = "copystr" /\ n < call.len /\ walkaddr_ok(At) /\ zeros = {}
           /\ buf' = buf \o [k \in 1 .. Piece |-> mem[Physical(k - 1)]]
           /\ n' = n + Piece
           /\ UNCHANGED <<pc, mem, ret>>
           /\ UNCHANGED <<pte, prog, hartSetsAD, seg, va, off, call, calls, mem0>>
  <2>1. PICK c \in 1 .. Piece : c = Piece
    BY <1>2, <1>4
  <2>2. buf' = buf \o [k \in 1 .. c |-> mem[Physical(k - 1)]]
    BY <1>4, <2>1
  <2>3. UNCHANGED <<pte, prog, hartSetsAD, seg, va, off, mem, call, calls, mem0>>
    BY <1>4
  <2>4. \A k \in 0 .. Piece - 1 : mem[Physical(k)] # Zero
    BY <1>4
  <2>5. pc = op /\ c = Piece /\ n' = n + c /\ UNCHANGED <<pc, ret>>
    BY <1>3, <1>4, <2>1
  <2>. QED BY <1>4, <2>2, <2>3, <2>4, <2>5, ReadStep
<1>5. CASE /\ pc = "copystr" /\ n < call.len /\ walkaddr_ok(At) /\ zeros # {}
           /\ buf' = buf \o [k \in 1 .. Min(zeros) + 1 |-> mem[Physical(k - 1)]]
           /\ n' = n + Min(zeros)
           /\ finish(n + Min(zeros))
           /\ UNCHANGED mem
           /\ UNCHANGED <<pte, prog, hartSetsAD, seg, va, off, call, calls, mem0>>
  <2>1. PICK Z \in SUBSET Nat : Z = zeros /\ Z # {}
    <3>1. \A k \in zeros : k \in Nat
      BY <1>2, <1>5
    <3>. QED BY <1>5, <3>1
  <2>2. PICK m \in Nat : m = Min(zeros) /\ m \in zeros /\ \A y \in zeros : m <= y
    BY <2>1, MinOf
  <2>3. PICK p \in Nat : p = Piece /\ m \in 0 .. p - 1
    BY <1>2, <1>5, <2>2
  <2>4. PICK c \in 1 .. Piece : c = m + 1 /\ c - 1 = m /\ c - 2 = m - 1
    <3>1. m + 1 \in 1 .. p /\ (m + 1) - 1 = m /\ (m + 1) - 2 = m - 1
      BY <2>3
    <3>. QED BY <2>3, <3>1
  <2>5. buf' = buf \o [k \in 1 .. c |-> mem[Physical(k - 1)]]
    BY <1>5, <2>2, <2>4
  <2>6. UNCHANGED <<pte, prog, hartSetsAD, seg, va, off, mem, call, calls, mem0>>
    BY <1>5
  <2>7. mem[Physical(c - 1)] = Zero
    BY <2>2, <2>4
  <2>8. \A k \in 0 .. c - 2 : mem[Physical(k)] # Zero
    <3>1. \A k \in 0 .. m - 1 : k \in 0 .. p - 1 /\ ~(m <= k)
      BY <2>3
    <3>. QED BY <2>2, <2>3, <2>4, <3>1
  <2>9. n' = n + c - 1
    <3>1. n \in Nat
      BY <1>2, <1>5
    <3>. QED BY <1>5, <2>2, <2>4, <3>1
  <2>10. pc = op /\ op = "copystr" /\ pc' = "return" /\ ret' = n'
    BY <1>3, <1>5 DEF finish
  <2>. QED BY <1>5, <2>5, <2>6, <2>7, <2>8, <2>9, <2>10, ReadStep
<1>. QED BY <1>1, <1>4, <1>5 DEF copystr_from_user, copy_loop, loadVars

\* The bytes of the int that wait stores are different ones, in the user's page as long as
\* they do not pass its end.
LEMMA IntBytes ==
    ASSUME call.va \in AllBytes, NEW k \in 0 .. IntSize - 1
    PROVE  /\ IntByte(k) \in AllBytes
           /\ \A j \in 0 .. IntSize - 1 : IntByte(j) = IntByte(k) => j = k
           /\ (call.va % P) + k < P => IntByte(k) = PA(call.va + k)
<1>1. P \in Nat \ {0} /\ NPages \in Nat /\ NPages >= 1 /\ IntSize \in 1 .. P
  BY LayoutAssumption DEF Trampoline
<1>2. PICK M \in Nat : M = MAXVA /\ M >= P
  <2>1. (NPages - 1) * P \in Nat
    BY <1>1
  <2>. QED BY <1>1, <2>1 DEF MAXVA
<1>3. PICK x \in 0 .. M - 1 : x = PA(call.va)
  BY <1>2, Injective DEF AllBytes
<1>4. ASSUME NEW j \in 0 .. IntSize - 1
      PROVE  (x + j) % M = IF x + j < M THEN x + j ELSE x + j - M
  <2>1. M \in Nat \ {0} /\ x + j \in Nat /\ x + j < M + M
    BY <1>1, <1>2, <1>3
  <2>2. CASE x + j < M
    BY <2>1, <2>2
  <2>3. CASE x + j >= M
    <3>1. PICK y \in 0 .. M - 1 : x + j = M + y
      BY <2>1, <2>3
    <3>2. (M + y) % M = y
      BY <2>1
    <3>. QED BY <2>1, <2>3, <3>1, <3>2
  <2>. QED BY <2>1, <2>2, <2>3
<1>5. \A j \in 0 .. IntSize - 1 : IntByte(j) = IF x + j < M THEN x + j ELSE x + j - M
  BY <1>2, <1>3, <1>4 DEF IntByte
<1>6. IntByte(k) \in AllBytes
  BY <1>1, <1>2, <1>3, <1>5 DEF AllBytes
<1>7. \A j \in 0 .. IntSize - 1 : IntByte(j) = IntByte(k) => j = k
  BY <1>1, <1>2, <1>3, <1>5
<1>8. ASSUME (call.va % P) + k < P PROVE IntByte(k) = PA(call.va + k)
  <2>1. PICK b \in 0 .. P - 1 : b = call.va % P
    BY <1>1 DEF AllBytes, MAXVA
  <2>2. k \in 0 .. P - (call.va % P) - 1
    BY <1>1, <1>8, <2>1
  <2>. QED BY <2>2, PieceBytes DEF IntByte
<1>. QED BY <1>6, <1>7, <1>8

\* sys_wait stores the int, or returns -1 without a store, or panics.
LEMMA WaitStep == IInv /\ sys_wait => IInv'
<1> SUFFICES ASSUME IInv, sys_wait PROVE IInv'
  OBVIOUS
<1>0. /\ TypeOK /\ LoadInv /\ RangeInv /\ WriteInv /\ ResultInv /\ pc = "wait" /\ call.op = "wait"
      /\ UNCHANGED <<pte, prog, hartSetsAD, seg, va, off, call, n, buf, calls, mem0>>
  BY DEF IInv, ResultInv, sys_wait, loadVars, Ops, Copies
<1>3. \A a \in AllBytes : mem[a] = mem0[a]
  BY <1>0 DEF WriteInv, InCall, Ops
<1>1. CASE /\ walkaddr_ok(call.va)
           /\ mem' = [a \in AllBytes |-> IF \E k \in 0 .. IntSize - 1 : IntByte(k) = a
                                         THEN KernelByte(CHOOSE k \in 0 .. IntSize - 1 : IntByte(k) = a)
                                         ELSE mem[a]]
           /\ pc' = "return" /\ ret' = 0
  <2>1. call.va \in AllBytes
    BY <1>0, <1>1, AddressPage DEF walkaddr_ok, TypeOK
  <2>2. \A k : IntByte(k)' = IntByte(k)
    BY <1>0 DEF IntByte
  <2>3. mem' = [a \in AllBytes |-> mem'[a]]
    BY <1>1
  <2>4. TypeOK'
    BY <1>0, <1>1, <2>3 DEF TypeOK
  <2>5. LoadInv'
    BY <1>0, <1>1 DEF LoadInv, Loading
  <2>6. ASSUME NEW k \in 0 .. IntSize - 1 PROVE mem'[IntByte(k)] = KernelByte(k)
    <3>1. IntByte(k) \in AllBytes /\ \A j \in 0 .. IntSize - 1 : IntByte(j) = IntByte(k) => j = k
      BY <2>1, IntBytes
    <3>2. (CHOOSE j \in 0 .. IntSize - 1 : IntByte(j) = IntByte(k)) = k
      BY <3>1
    <3>. QED BY <1>1, <3>1, <3>2
  <2>7. ASSUME NEW a \in AllBytes, mem'[a] # mem0'[a] PROVE Stored(a)'
    <3>1. PICK k \in 0 .. IntSize - 1 : IntByte(k) = a
      BY <1>0, <1>1, <1>3, <2>7
    <3>2. (call.va % P) + k < P => a = PA(call.va + k)
      BY <2>1, <3>1, IntBytes
    <3>. QED BY <1>0, <2>2, <2>6, <3>1, <3>2 DEF Stored
  <2>8. WriteInv'
    BY <1>0, <1>1, <2>2, <2>6, <2>7 DEF WriteInv, InCall, Ops, Copies, Accesses
  <2>9. RangeInv' /\ ReadInv' /\ ResultInv'
    BY <1>0, <1>1 DEF RangeInv, ReadInv, ResultInv, Ops, Copies, Accesses
  <2>. QED BY <2>4, <2>5, <2>8, <2>9 DEF IInv
<1>2. CASE /\ ~(IS_USER_VA(PGROUNDDOWN(call.va)) /\ walkaddr_ok(call.va))
           /\ pc' = "panic" /\ UNCHANGED <<mem, ret>>
  <2>1. TypeOK'
    BY <1>0, <1>2 DEF TypeOK
  <2>2. LoadInv'
    BY <1>0, <1>2 DEF LoadInv, Loading
  <2>3. WriteInv'
    BY <1>0, <1>2, <1>3 DEF WriteInv, InCall, Ops, Copies, Accesses
  <2>4. ~walkaddr_ok(call.va)'
    <3>1. ASSUME walkaddr_ok(call.va) PROVE IS_USER_VA(PGROUNDDOWN(call.va))
      <4>1. call.va \in AllBytes /\ call.va \in Nat
        BY <1>0, <3>1, AddressPage DEF walkaddr_ok, TypeOK
      <4>2. PICK v \in Nat, d \in Nat : v = call.va /\ d = PGROUNDDOWN(call.va) /\ d <= v
        BY <4>1, Rounded
      <4>3. v < MAXVA /\ MAXVA \in Nat
        BY <4>1, <4>2, LayoutAssumption DEF AllBytes, MAXVA
      <4>. QED BY <4>2, <4>3 DEF IS_USER_VA
    <3>. QED BY <1>0, <1>2, <3>1 DEF walkaddr_ok
  <2>5. ResultInv'
    BY <1>0, <1>2, <2>4 DEF ResultInv, Ops, Copies, Accesses
  <2>6. RangeInv' /\ ReadInv'
    BY <1>0, <1>2 DEF RangeInv, ReadInv, Copies
  <2>. QED BY <2>1, <2>2, <2>3, <2>5, <2>6 DEF IInv
<1>4. CASE pc' = "return" /\ ret' = -1 /\ UNCHANGED mem
  <2>1. TypeOK'
    BY <1>0, <1>4 DEF TypeOK
  <2>2. LoadInv'
    BY <1>0, <1>4 DEF LoadInv, Loading
  <2>3. WriteInv'
    BY <1>0, <1>3, <1>4 DEF WriteInv, InCall, Ops, Copies, Accesses
  <2>4. RangeInv' /\ ReadInv' /\ ResultInv'
    BY <1>0, <1>4 DEF RangeInv, ReadInv, ResultInv, Ops, Copies, Accesses
  <2>. QED BY <2>1, <2>2, <2>3, <2>4 DEF IInv
<1>. QED BY <1>1, <1>2, <1>4 DEF sys_wait, finish

\* A call returns.
LEMMA ReturnStep == IInv /\ return => IInv'
<1> SUFFICES ASSUME IInv, return PROVE IInv'
  OBVIOUS
<1>0. /\ TypeOK /\ LoadInv /\ pc = "return" /\ pc' = "run"
      /\ call' = NoCall /\ n' = 0 /\ buf' = <<>> /\ ret' = 0 /\ mem0' = mem
      /\ UNCHANGED <<pte, mem, prog, hartSetsAD, seg, va, off, calls>>
  BY DEF IInv, return, loadVars
<1>1. call' \in [op : Ops \cup {"none"}, va : Nat, len : Nat] /\ call'.len = 0
  BY <1>0 DEF NoCall
<1>2. mem0' = [a \in AllBytes |-> mem0'[a]] /\ buf' \in Seq({mem0'[a] : a \in AllBytes})
  BY <1>0 DEF TypeOK
<1>3. TypeOK'
  BY <1>0, <1>1, <1>2 DEF TypeOK
<1>4. LoadInv'
  BY <1>0 DEF LoadInv, Loading
<1>5. RangeInv' /\ WriteInv' /\ ReadInv' /\ ResultInv'
  <2>1. n' <= call'.len
    BY <1>0, <1>1
  <2>. QED BY <1>0, <2>1, NotInCall
<1>. QED BY <1>3, <1>4, <1>5 DEF IInv

\* The bits of an entry are set: nothing that the invariant speaks of is changed.
LEMMA BitsStep ==
    ASSUME TypeOK, call.va \div P \in 0 .. Trampoline, NEW d \in BOOLEAN,
           pte' = [pte EXCEPT ![call.va \div P].A = TRUE, ![call.va \div P].D = d]
    PROVE  /\ pte' \in [0 .. Trampoline -> Pte]
           /\ \A p \in 0 .. Trampoline : pte'[p].perm = pte[p].perm
           /\ UserPages' = UserPages
           /\ \A a : walkaddr_ok(a)' <=> walkaddr_ok(a)
<1>1. PICK q \in 0 .. Trampoline : q = call.va \div P
  OBVIOUS
<1>2. PICK e \in Pte : e = pte[q]
  BY DEF TypeOK
<1>3. [[e EXCEPT !.A = TRUE] EXCEPT !.D = d] \in Pte /\ [[e EXCEPT !.A = TRUE] EXCEPT !.D = d].perm = e.perm
  BY DEF Pte
<1>4. pte' = [pte EXCEPT ![q] = [[e EXCEPT !.A = TRUE] EXCEPT !.D = d]]
  BY <1>1, <1>2 DEF TypeOK, Pte
<1>5. pte' \in [0 .. Trampoline -> Pte]
  BY <1>3, <1>4 DEF TypeOK
<1>6. \A p \in 0 .. Trampoline : pte'[p].perm = pte[p].perm
  BY <1>2, <1>3, <1>4 DEF TypeOK
<1>7. DOMAIN pte' = DOMAIN pte /\ DOMAIN pte = 0 .. Trampoline
  BY <1>5 DEF TypeOK
<1>. QED BY <1>5, <1>6, <1>7 DEF UserPages, walkaddr_ok

\* The hart executes the access.
LEMMA CompleteStep == IInv /\ complete => IInv'
<1> SUFFICES ASSUME IInv, complete PROVE IInv'
  OBVIOUS
<1>0. /\ TypeOK /\ LoadInv /\ RangeInv /\ WriteInv /\ ResultInv /\ walkaddr_ok(call.va)
      /\ pc \in Accesses /\ call.op = pc /\ pc' = "return" /\ ret' = 0
      /\ mem' = IF call.op = "store" THEN [mem EXCEPT ![PA(call.va)] = UserByte] ELSE mem
      /\ pte' = [pte EXCEPT ![call.va \div P].A = TRUE, ![call.va \div P].D = @ \/ call.op = "store"]
      /\ UNCHANGED <<prog, hartSetsAD, seg, va, off, call, n, buf, calls, mem0>>
  BY DEF IInv, ResultInv, complete, Executes, Permitted, finish, loadVars, Ops
<1>1. call.va \div P \in 0 .. Trampoline /\ call.va \in AllBytes
  BY <1>0, AddressPage DEF walkaddr_ok, TypeOK
<1>2. PICK d \in BOOLEAN : pte' = [pte EXCEPT ![call.va \div P].A = TRUE, ![call.va \div P].D = d]
  <2>1. PICK q \in 0 .. Trampoline : q = call.va \div P
    BY <1>1
  <2>2. pte' = [pte EXCEPT ![q].A = TRUE, ![q].D = (pte[q].D \/ call.op = "store")]
    BY <1>0, <2>1 DEF TypeOK, Pte
  <2>3. (pte[q].D \/ call.op = "store") \in BOOLEAN
    OBVIOUS
  <2>. QED BY <2>1, <2>2, <2>3
<1>3. /\ pte' \in [0 .. Trampoline -> Pte] /\ \A a : walkaddr_ok(a)' <=> walkaddr_ok(a)
  BY <1>0, <1>1, <1>2, BitsStep
<1>4. call.op \in {"load", "store", "fetch"} /\ InCall /\ InCall'
  BY <1>0 DEF InCall, Ops, Accesses
<1>5. TypeOK'
  <2>1. mem' = [a \in AllBytes |-> mem'[a]]
    BY <1>0 DEF TypeOK
  <2>. QED BY <1>0, <1>3, <2>1 DEF TypeOK
<1>6. LoadInv'
  BY <1>0, <1>4 DEF LoadInv, Loading, Accesses
<1>7. WriteInv'
  <2>1. \A a \in AllBytes : mem[a] = mem0[a]
    BY <1>0, <1>4 DEF WriteInv, Accesses
  <2>2. \A a \in AllBytes : mem'[a] # mem[a] => call.op = "store" /\ a = PA(call.va)
    BY <1>0 DEF TypeOK
  <2>. QED BY <1>0, <1>4, <2>1, <2>2 DEF WriteInv
<1>8. RangeInv' /\ ReadInv' /\ ResultInv'
  BY <1>0, <1>4 DEF RangeInv, ReadInv, ResultInv, Ops, Copies, Accesses
<1>. QED BY <1>5, <1>6, <1>7, <1>8 DEF IInv

\* The hart faults on the access.
LEMMA PageFaultStep == IInv /\ page_fault => IInv'
<1> SUFFICES ASSUME IInv, page_fault PROVE IInv'
  OBVIOUS
<1>0. /\ TypeOK /\ LoadInv /\ RangeInv /\ WriteInv /\ ReadInv /\ ResultInv
      /\ pc \in Accesses /\ call.op = pc /\ call.va \in Nat /\ call.len \in Nat
      /\ UNCHANGED <<mem, prog, hartSetsAD, seg, va, off, call, n, buf, ret, calls, mem0>>
  BY DEF IInv, ResultInv, TypeOK, page_fault, loadVars, callVars, Ops
<1>1. call.op \in {"load", "store", "fetch"} /\ InCall
  BY <1>0 DEF InCall, Ops, Accesses
<1>2. \A a \in AllBytes : mem[a] = mem0[a]
  BY <1>0, <1>1 DEF WriteInv, Accesses
<1>3. MAXVA \in Nat
  BY LayoutAssumption DEF MAXVA
<1>4. CASE ~IS_USER_VA(call.va) /\ pc' = "panic" /\ UNCHANGED pte
  <2>1. TypeOK'
    BY <1>0, <1>4 DEF TypeOK
  <2>2. LoadInv'
    BY <1>0, <1>1, <1>4 DEF LoadInv, Loading, Accesses
  <2>3. call.va + call.len > MAXVA
    <3>1. PICK v \in Nat, l \in Nat : v = call.va /\ l = call.len
      BY <1>0
    <3>2. ~(v <= MAXVA)
      BY <1>4, <3>1 DEF IS_USER_VA
    <3>. QED BY <1>3, <3>1, <3>2
  <2>4. WriteInv'
    BY <1>0, <1>1, <1>2 DEF WriteInv
  <2>5. RangeInv' /\ ReadInv'
    BY <1>0, <1>1 DEF RangeInv, ReadInv, Copies
  <2>6. ResultInv'
    BY <1>0, <1>4, <2>3 DEF ResultInv, Ops, Copies, Accesses
  <2>. QED BY <2>1, <2>2, <2>4, <2>5, <2>6 DEF IInv
<1>5. CASE /\ call.va < MAXVA /\ UNCHANGED pc
           /\ pte' = [pte EXCEPT ![call.va \div P].A = TRUE, ![call.va \div P].D = @ \/ call.op = "store"]
  <2>1. call.va \div P \in 0 .. Trampoline
    <3>1. PICK v \in Nat : v = call.va
      BY <1>0
    <3>2. v \in AllBytes
      BY <1>3, <1>5, <3>1 DEF AllBytes
    <3>. QED BY <3>1, <3>2, AddressPage
  <2>2. PICK d \in BOOLEAN : pte' = [pte EXCEPT ![call.va \div P].A = TRUE, ![call.va \div P].D = d]
    <3>1. PICK q \in 0 .. Trampoline : q = call.va \div P
      BY <2>1
    <3>2. pte' = [pte EXCEPT ![q].A = TRUE, ![q].D = (pte[q].D \/ call.op = "store")]
      BY <1>0, <1>5, <3>1 DEF TypeOK, Pte
    <3>3. (pte[q].D \/ call.op = "store") \in BOOLEAN
      OBVIOUS
    <3>. QED BY <3>1, <3>2, <3>3
  <2>3. /\ pte' \in [0 .. Trampoline -> Pte] /\ \A a : walkaddr_ok(a)' <=> walkaddr_ok(a)
    BY <1>0, <2>1, <2>2, BitsStep
  <2>4. TypeOK'
    BY <1>0, <1>5, <2>3 DEF TypeOK
  <2>5. LoadInv'
    BY <1>0, <1>1, <1>5 DEF LoadInv, Loading, Accesses
  <2>6. WriteInv'
    BY <1>0, <1>1, <1>2 DEF WriteInv
  <2>7. RangeInv' /\ ReadInv'
    BY <1>0, <1>1 DEF RangeInv, ReadInv, Copies
  <2>8. ResultInv'
    BY <1>0, <1>5 DEF ResultInv, Ops, Copies, Accesses
  <2>. QED BY <2>4, <2>5, <2>6, <2>7, <2>8 DEF IInv
<1>6. CASE pc' = "exit" /\ UNCHANGED pte
  <2>1. TypeOK'
    BY <1>0, <1>6 DEF TypeOK
  <2>2. LoadInv'
    BY <1>0, <1>1, <1>6 DEF LoadInv, Loading, Accesses
  <2>3. RangeInv' /\ WriteInv' /\ ReadInv' /\ ResultInv'
    BY <1>0, <1>6, NotInCall DEF RangeInv
  <2>. QED BY <2>1, <2>2, <2>3 DEF IInv
<1>. QED BY <1>4, <1>5, <1>6 DEF page_fault

\* Every step preserves the invariant.
LEMMA NextIInv == IInv /\ [Next]_vars => IInv'
<1> SUFFICES ASSUME IInv, [Next]_vars PROVE IInv'
  OBVIOUS
<1>1. CASE Kernel
  BY <1>1, LoadSegmentStep, LoadPageStep, LoadBssStep, LoadStackStep, RunStep, CopyToStep,
     CopyFromStep, CopyStrStep, WaitStep, ReturnStep DEF Kernel
<1>2. CASE complete
  BY <1>2, CompleteStep
<1>3. CASE page_fault
  BY <1>3, PageFaultStep
<1>4. 0 .. MAXVA + P \subseteq Nat /\ 0 .. MaxLen \subseteq Nat
  BY LayoutAssumption DEF MAXVA
<1>5. CASE \E op \in {"copy_to", "copy_from", "copystr"}, a \in 0 .. MAXVA + P, len \in 0 .. MaxLen : begin(op, a, len)
  <2>1. PICK op \in Ops, a \in Nat, len \in Nat : begin(op, a, len)
    BY <1>4, <1>5 DEF Ops, Copies
  <2>. QED BY <2>1, BeginStep
<1>6. CASE \E op \in Accesses \cup {"wait"}, a \in 0 .. MAXVA + P : begin(op, a, 0)
  <2>1. PICK op \in Ops, a \in Nat : begin(op, a, 0)
    BY <1>4, <1>6 DEF Ops
  <2>2. PICK len \in Nat : len = 0
    OBVIOUS
  <2>. QED BY <2>1, <2>2, BeginStep
<1>7. CASE UNCHANGED vars
  <2>1. UNCHANGED <<pc, pte, mem, prog, hartSetsAD, seg, va, off, call, n, buf, ret, calls, mem0>>
    BY <1>7 DEF vars, loadVars, callVars
  <2>2. TypeOK'
    BY <2>1 DEF IInv, TypeOK
  <2>3. LoadInv'
    BY <2>1 DEF IInv, LoadInv, SegmentsLoaded, Content, UserPages, PagesUpTo, Segment, vm_start, vm_end,
                SegmentPages, PGROUNDDOWN, PGROUNDUP
  <2>4. RangeInv' /\ ReadInv' /\ ResultInv'
    BY <2>1 DEF IInv, RangeInv, ReadInv, ResultInv, InCall, Reached, FoundZero, walkaddr_ok
  <2>5. WriteInv'
    BY <2>1 DEF IInv, WriteInv, InCall, Reached, Stored, IntByte
  <2>. QED BY <2>2, <2>3, <2>4, <2>5 DEF IInv
<1>. QED BY <1>1, <1>2, <1>3, <1>5, <1>6, <1>7 DEF Next

\* The bytes of a process are what the loader, the copies and the program's own stores have
\* made of them.
THEOREM UserMemoryInvariant == Spec => []IInv
<1>1. Init => IInv
  BY InitIInv
<1>2. IInv /\ [Next]_vars => IInv'
  BY NextIInv
<1>. QED BY <1>1, <1>2, PTL DEF Spec
-----------------------------------------------------------------------------
\* What the invariant says of a program that starts.
LEMMA LoadedFromInvariant == IInv => LoadedExact
<1> SUFFICES ASSUME IInv PROVE LoadedExact
  OBVIOUS
<1>0. TypeOK /\ LoadInv /\ ResultInv
  BY DEF IInv
<1>1. prog \in Seq(SegmentType) /\ DOMAIN prog = 1 .. Len(prog)
  BY <1>0, LayoutAssumption DEF TypeOK, SegmentType
<1>2. P \in Nat \ {0} /\ UStack \in 0 .. Trampoline
  BY LayoutAssumption DEF Trampoline
<1>3. ASSUME pc = "loaded", NEW j \in DOMAIN prog, NEW p \in SegmentPages(prog[j]), NEW b \in 0 .. P - 1
      PROVE  mem[PA(p * P + b)] = IF p * P + b - prog[j].vaddr < prog[j].filesz
                                  THEN FileByte(j, p * P + b - prog[j].vaddr) ELSE Zero
  <2>0. PICK i \in 1 .. Len(prog) : i = j
    BY <1>1, <1>3
  <2>1. p \in 0 .. Trampoline
    <3>1. SegmentPages(prog[i]) \subseteq 0 .. UStack - 1
      BY <1>0, SegmentOf
    <3>2. 0 .. UStack - 1 \subseteq 0 .. Trampoline
      BY LayoutAssumption DEF Trampoline
    <3>. QED BY <1>3, <2>0, <3>1, <3>2
  <2>2. p * P + b \in AllBytes /\ (p * P + b) \div P = p
    <3>1. p \in Int
      BY <2>1
    <3>. QED BY <2>1, <3>1, PhysicalByte, PageByte
  <2>3. mem[PA(p * P + b)] = Content(j, p * P + b)
    <3>1. SegmentsLoaded(Len(prog))
      BY <1>0, <1>3 DEF LoadInv
    <3>2. PICK a \in AllBytes : a = p * P + b /\ a \div P \in SegmentPages(prog[i])
      BY <1>3, <2>0, <2>2
    <3>3. mem[PA(a)] = Content(i, a)
      BY <3>1, <3>2 DEF SegmentsLoaded
    <3>4. mem[PA(a)] = Content(j, a)
      BY <2>0, <3>3
    <3>. QED BY <3>2, <3>4
  <2>4. (p * P + b) - prog[j].vaddr = p * P + b - prog[j].vaddr
    <3>1. prog[i] \in SegmentType
      BY <1>0, SegmentOf
    <3>2. PICK v \in Nat : v = prog[j].vaddr
      BY <2>0, <3>1 DEF SegmentType
    <3>3. p \in Nat /\ p * P \in Nat
      BY <1>2, <2>1
    <3>4. (p * P + b) - v = p * P + b - v
      BY <1>2, <3>3
    <3>. QED BY <3>2, <3>4
  <2>. QED BY <2>3, <2>4 DEF Content
<1>4. ASSUME pc = "loaded", NEW b \in 0 .. P - 1 PROVE mem[PA(UStack * P + b)] = Zero
  <2>1. UStack * P + b \in AllBytes /\ (UStack * P + b) \div P = UStack
    <3>1. UStack \in Int
      BY <1>2
    <3>. QED BY <1>2, <3>1, PhysicalByte, PageByte
  <2>. QED BY <1>0, <1>4, <2>1 DEF LoadInv
<1>5. pc = "loaded" => {p \in DOMAIN pte : "U" \in pte[p].perm} =
                          {UStack} \cup UNION {SegmentPages(prog[j]) : j \in DOMAIN prog}
  <2>1. UserPages = {p \in DOMAIN pte : "U" \in pte[p].perm}
    BY <1>0 DEF TypeOK, UserPages
  <2>2. PagesUpTo(Len(prog)) = UNION {SegmentPages(prog[j]) : j \in DOMAIN prog}
    BY <1>1 DEF PagesUpTo
  <2>. QED BY <1>0, <2>1, <2>2 DEF LoadInv
<1>6. pc = "panic" => call # NoCall
  BY <1>0 DEF LoadInv, Loading
<1>. QED BY <1>3, <1>4, <1>5, <1>6 DEF LoadedExact

\* A program that starts finds the bytes of its file, zeros behind them and on its stack,
\* and no page that is neither: load_user_elf leaves nothing of an earlier owner.
THEOREM ProgramsLoadedExactly == Spec => []LoadedExact
BY UserMemoryInvariant, LoadedFromInvariant, PTL

\* What the invariant says of a copy.
LEMMA CopyFromInvariant == IInv => CopyExact
<1> SUFFICES ASSUME IInv PROVE CopyExact
  OBVIOUS
<1>0. TypeOK /\ RangeInv /\ WriteInv /\ ReadInv /\ ResultInv
  BY DEF IInv
<1>1. PICK m \in Nat, l \in Nat : m = n /\ l = call.len /\ m <= l /\ Reached = 0 .. m - 1
  BY <1>0 DEF TypeOK, RangeInv, Reached
<1>2. ASSUME pc \in {"return", "panic", "copy_to", "copy_from", "copystr", "wait"},
             NEW a \in AllBytes, mem[a] # mem0[a]
      PROVE  \/ /\ call.op = "copy_to"
                /\ \E k \in Reached : PA(call.va + k) = a /\ mem[a] = KernelByte(k)
             \/ call.op = "wait" /\ ret = 0 /\ Stored(a)
             \/ call.op = "store" /\ a = PA(call.va)
  <2>1. InCall
    BY <1>2 DEF InCall, Ops, Copies
  <2>. QED BY <1>0, <1>2, <2>1 DEF WriteInv
<1>3. ASSUME pc = "return", call.op \in {"copy_to", "copy_from"}
      PROVE  /\ ret = -1 <=> \E k \in 0 .. call.len - 1 : ~walkaddr_ok(call.va + k)
             /\ ret = 0 => /\ n = call.len
                           /\ \A k \in Reached :
                                IF call.op = "copy_to" THEN mem[PA(call.va + k)] = KernelByte(k)
                                ELSE buf[k + 1] = mem0[PA(call.va + k)]
  <2>1. InCall /\ call.op \in Copies /\ call.op # "copystr"
    BY <1>3 DEF InCall, Copies
  <2>2. \A k \in 0 .. m - 1 : walkaddr_ok(call.va + k)
    BY <1>0, <1>1, <2>1 DEF RangeInv
  <2>3. \/ ret = -1 /\ m < l /\ ~walkaddr_ok(call.va + m)
        \/ ret = 0 /\ m = l
    BY <1>0, <1>1, <1>3, <2>1 DEF ResultInv, FoundZero
  <2>4. ret = -1 <=> \E k \in 0 .. l - 1 : ~walkaddr_ok(call.va + k)
    <3>1. CASE ret = -1 /\ m < l /\ ~walkaddr_ok(call.va + m)
      <4>1. m \in 0 .. l - 1
        BY <3>1
      <4>. QED BY <3>1, <4>1
    <3>2. CASE ret = 0 /\ m = l
      BY <2>2, <3>2
    <3>. QED BY <2>3, <3>1, <3>2
  <2>5. ret = 0 => n = call.len
    BY <1>1, <2>3
  <2>6. ASSUME NEW k \in Reached
        PROVE  IF call.op = "copy_to" THEN mem[PA(call.va + k)] = KernelByte(k)
               ELSE buf[k + 1] = mem0[PA(call.va + k)]
    <3>1. call.op = "copy_to" => mem[PA(call.va + k)] = KernelByte(k)
      BY <1>0, <2>1 DEF WriteInv
    <3>2. ASSUME call.op # "copy_to" PROVE buf[k + 1] = mem0[PA(call.va + k)]
      <4>1. Len(buf) = m
        BY <1>0, <1>1, <1>3, <2>1, <3>2 DEF ReadInv, FoundZero
      <4>2. PICK v \in Nat : v = call.va
        BY <1>0 DEF TypeOK
      <4>3. k + 1 \in 1 .. m /\ v + (k + 1) - 1 = v + k
        BY <1>1
      <4>. QED BY <1>0, <1>3, <2>1, <3>2, <4>1, <4>2, <4>3 DEF ReadInv
    <3>. QED BY <3>1, <3>2
  <2>. QED BY <1>1, <2>4, <2>5, <2>6
<1>4. ASSUME pc = "return", call.op = "copystr", ret >= 0
      PROVE  /\ ret \in 0 .. call.len
             /\ \A k \in 0 .. ret - 1 : buf[k + 1] = mem0[PA(call.va + k)] /\ buf[k + 1] # Zero
             /\ IF ret < call.len THEN buf = [k \in 1 .. ret + 1 |-> mem0[PA(call.va + k - 1)]] /\ buf[ret + 1] = Zero
                                  ELSE Len(buf) = ret
  <2>1. InCall /\ call.op \in Copies
    BY <1>4 DEF InCall, Copies
  <2>2. ret = m
    BY <1>0, <1>1, <1>4, <2>1 DEF ResultInv, FoundZero
  <2>3. /\ \A j \in 1 .. Len(buf) : buf[j] = mem0[PA(call.va + j - 1)]
        /\ Len(buf) = n \/ (FoundZero /\ buf[n + 1] = Zero)
        /\ \A j \in 1 .. n : buf[j] # Zero
    BY <1>0, <1>4, <2>1 DEF ReadInv
  <2>4. PICK B : buf \in Seq(B)
    BY <1>0 DEF TypeOK
  <2>5. Len(buf) = m \/ (Len(buf) = m + 1 /\ buf[m + 1] = Zero /\ m < l)
    BY <1>1, <2>3 DEF FoundZero
  <2>6. PICK v \in Nat : v = call.va
    BY <1>0 DEF TypeOK
  <2>7. ASSUME NEW k \in 0 .. m - 1 PROVE buf[k + 1] = mem0[PA(v + k)] /\ buf[k + 1] # Zero
    <3>1. k + 1 \in 1 .. m /\ k + 1 \in 1 .. Len(buf) /\ v + (k + 1) - 1 = v + k
      BY <2>5
    <3>. QED BY <1>1, <2>3, <2>6, <3>1
  <2>8. m = l => Len(buf) = m
    BY <2>5
  <2>9. ASSUME m < l
        PROVE  buf = [k \in 1 .. m + 1 |-> mem0[PA(v + k - 1)]] /\ buf[m + 1] = Zero
    <3>1. FoundZero /\ Len(buf) = m + 1
      <4>1. ~(ret = -1) /\ n # call.len
        BY <1>1, <2>2, <2>9
      <4>2. FoundZero
        BY <1>0, <1>4, <2>1, <4>1 DEF ResultInv
      <4>. QED BY <1>1, <4>2 DEF FoundZero
    <3>2. buf[m + 1] = Zero
      BY <2>5, <3>1
    <3>3. DOMAIN buf = 1 .. m + 1 /\ buf = [k \in DOMAIN buf |-> buf[k]]
      BY <2>4, <3>1
    <3>4. \A k \in 1 .. m + 1 : buf[k] = mem0[PA(v + k - 1)]
      BY <2>3, <2>6, <3>1
    <3>. QED BY <3>2, <3>3, <3>4
  <2>. QED BY <1>1, <2>2, <2>6, <2>7, <2>8, <2>9
<1>5. pc = "panic" => \/ call.va + call.len > MAXVA
                      \/ call.op = "wait" /\ ~walkaddr_ok(call.va)
  BY <1>0 DEF ResultInv
<1>6. pc = "return" /\ call.op = "wait" /\ ret = 0 => \A k \in 0 .. IntSize - 1 : mem[IntByte(k)] = KernelByte(k)
  BY <1>0 DEF WriteInv
<1>. QED BY <1>2, <1>3, <1>4, <1>5, <1>6 DEF CopyExact

\* copy_to_user, copy_from_user and copystr_from_user move the bytes of their range across
\* page boundaries and no other, and return what they have done; wait stores one int, in the
\* user's page if the pointer leaves room for it there; the kernel panics for an address above
\* MAXVA, and in sys_wait for one that is not mapped, and for no other.
THEOREM CopiesExact == Spec => []CopyExact
BY UserMemoryInvariant, CopyFromInvariant, PTL
====
