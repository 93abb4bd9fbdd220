---- MODULE MemoryProofs ----
\* Proofs about Memory.tla, for any number of pages, processes and programs and for every
\* size of the page tables: no page is lost or held twice (PagesAccounted), a process
\* that runs finds its own program in its memory (ImageIntact), and the object allocators
\* account for every object (ObjectsAccounted).
\*
\* The argument has two layers.  HeldOnce speaks of places only: a page moves from the
\* free list to a place and back (Take, Give), or its place stays as it is (Keep).  What
\* one process does to its address space is sequential, and SlotInv says how far it has
\* got; ByInv ties a process to the one that builds it or buries it.
EXTENDS Memory, FiniteSetTheorems, TLAPS
-----------------------------------------------------------------------------
\* Places.

\* The kinds of places, and what each of them holds.
LEMMA Places ==
    /\ \A y \in Place :
         \/ y = <<"root", 0>> \/ y = <<"trapframe", 0>>
         \/ \E key \in Key : y = <<"table", key>>
         \/ \E va \in VA \ {TRAPFRAME} : y = <<"leaf", va>>
    /\ <<"root", 0>> \in Place /\ <<"trapframe", 0>> \in Place
    /\ \A key \in Key : <<"table", key>> \in Place
    /\ \A va \in VA \ {TRAPFRAME} : <<"leaf", va>> \in Place
    /\ \A va \in UserVA : <<"leaf", va>> \in Place
    /\ <<"leaf", TRAMPOLINE>> \in Place
BY LayoutAssumption DEF Place, UserVA

\* What the places of a process hold.
LEMMA Values ==
    ASSUME NEW p
    PROVE  /\ PageAt(p, <<"root", 0>>) = pgt[p]
           /\ PageAt(p, <<"trapframe", 0>>) = trapframe[p]
           /\ \A key : PageAt(p, <<"table", key>>) = table[p][key]
           /\ \A va : PageAt(p, <<"leaf", va>>) = pte[p][va]
BY DEF PageAt

\* The same in the next state.
LEMMA ValuesNext ==
    ASSUME NEW p
    PROVE  /\ PageAt(p, <<"root", 0>>)' = pgt'[p]
           /\ PageAt(p, <<"trapframe", 0>>)' = trapframe'[p]
           /\ \A key : PageAt(p, <<"table", key>>)' = table'[p][key]
           /\ \A va : PageAt(p, <<"leaf", va>>)' = pte'[p][va]
BY DEF PageAt

\* An entry of a user address is a place.
LEMMA Leaf ==
    ASSUME NEW p \in Slot, NEW va \in UserVA
    PROVE  <<"leaf", va>> \in Place /\ PageAt(p, <<"leaf", va>>) = pte[p][va]
BY Places, Values

\* Place x of process p holds the page it held, or holds none before and after.
Same(p, x) ==
    PageAt(p, x)' = PageAt(p, x) \/ (PageAt(p, x) \notin Page /\ PageAt(p, x)' \notin Page)

\* A process whose tables and trapframe are left alone.
LEMMA SameProcess ==
    ASSUME NEW p, pgt'[p] = pgt[p], trapframe'[p] = trapframe[p], table'[p] = table[p],
           pte'[p] = pte[p], NEW y \in Place
    PROVE  Same(p, y)
BY Places, Values, ValuesNext DEF Same

\* A step that changes place x of process p and, at most, leaf entries that hold no page.
OnlyAt(p, x) ==
    /\ \A q \in Slot : q # p \/ x # <<"root", 0>> => pgt'[q] = pgt[q]
    /\ \A q \in Slot : q # p \/ x # <<"trapframe", 0>> => trapframe'[q] = trapframe[q]
    /\ \A q \in Slot, key \in Key : q # p \/ x # <<"table", key>> => table'[q][key] = table[q][key]
    /\ \A q \in Slot, va \in VA \ {TRAPFRAME} : q # p \/ x # <<"leaf", va>> =>
         pte'[q][va] = pte[q][va] \/ (pte[q][va] \notin Page /\ pte'[q][va] \notin Page)

\* Such a step leaves every other place as it is.
LEMMA SameBut ==
    ASSUME NEW p, NEW x, OnlyAt(p, x)
    PROVE  \A q \in Slot, y \in Place : q # p \/ y # x => Same(q, y)
<1> SUFFICES ASSUME NEW q \in Slot, NEW y \in Place, q # p \/ y # x PROVE Same(q, y)
  OBVIOUS
<1>1. CASE y = <<"root", 0>>
  BY <1>1, Values, ValuesNext DEF Same, OnlyAt
<1>2. CASE y = <<"trapframe", 0>>
  BY <1>2, Values, ValuesNext DEF Same, OnlyAt
<1>3. ASSUME NEW key \in Key, y = <<"table", key>> PROVE Same(q, y)
  <2>1. table'[q][key] = table[q][key]
    BY <1>3 DEF OnlyAt
  <2>. QED BY <1>3, <2>1, Values, ValuesNext DEF Same
<1>4. ASSUME NEW va \in VA \ {TRAPFRAME}, y = <<"leaf", va>> PROVE Same(q, y)
  <2>1. pte'[q][va] = pte[q][va] \/ (pte[q][va] \notin Page /\ pte'[q][va] \notin Page)
    BY <1>4 DEF OnlyAt
  <2>. QED BY <1>4, <2>1, Values, ValuesNext DEF Same
<1>. QED BY <1>1, <1>2, <1>3, <1>4, Places

\* A step that moves no page.
LEMMA Keep ==
    ASSUME HeldOnce, freelist \subseteq Page, leaked \subseteq Page,
           freelist' = freelist, leaked' = leaked,
           \A p \in Slot, x \in Place : Same(p, x)
    PROVE  HeldOnce'
<1>1. \A p \in Slot, x \in Place : PageAt(p, x)' \notin freelist \cup leaked
  BY DEF HeldOnce, Same
<1>2. \A p, q \in Slot, x, y \in Place :
        PageAt(p, x)' \in Page /\ PageAt(p, x)' = PageAt(q, y)' => p = q /\ x = y
  BY DEF HeldOnce, Same
<1>3. \A g \in Page : g \in freelist \cup leaked \/ \E p \in Slot, x \in Place : PageAt(p, x)' = g
  BY DEF HeldOnce, Same
<1>. QED BY <1>1, <1>2, <1>3 DEF HeldOnce

\* A step in which place x of process p gets a page of the free list.
LEMMA Take ==
    ASSUME HeldOnce, freelist \subseteq Page, leaked \subseteq Page,
           NEW p \in Slot, NEW x \in Place, PageAt(p, x) \notin Page, NEW g \in freelist,
           PageAt(p, x)' = g, freelist' = freelist \ {g}, leaked' = leaked,
           \A q \in Slot, y \in Place : q # p \/ y # x => Same(q, y)
    PROVE  HeldOnce'
<1>1. \A q \in Slot, y \in Place : PageAt(q, y)' \notin freelist' \cup leaked
  BY DEF HeldOnce, Same
<1>2. \A q \in Slot, y \in Place : PageAt(q, y)' = g => q = p /\ y = x
  BY DEF HeldOnce, Same
<1>3. \A q, s \in Slot, y, z \in Place :
        PageAt(q, y)' \in Page /\ PageAt(q, y)' = PageAt(s, z)' => q = s /\ y = z
  BY <1>2 DEF HeldOnce, Same
<1>4. \A h \in Page : h \in freelist' \cup leaked \/ \E q \in Slot, y \in Place : PageAt(q, y)' = h
  BY DEF HeldOnce, Same
<1>. QED BY <1>1, <1>3, <1>4 DEF HeldOnce

\* A step in which place x of process p gives its page back.
LEMMA Give ==
    ASSUME HeldOnce, freelist \subseteq Page, leaked \subseteq Page,
           NEW p \in Slot, NEW x \in Place, PageAt(p, x) \in Page, PageAt(p, x)' \notin Page,
           freelist' = freelist \cup {PageAt(p, x)}, leaked' = leaked,
           \A q \in Slot, y \in Place : q # p \/ y # x => Same(q, y)
    PROVE  HeldOnce'
<1>0. PageAt(p, x) \notin leaked
  BY DEF HeldOnce
<1>1. \A q \in Slot, y \in Place : PageAt(q, y)' \notin freelist' \cup leaked
  BY DEF HeldOnce, Same
<1>3. \A q, s \in Slot, y, z \in Place :
        PageAt(q, y)' \in Page /\ PageAt(q, y)' = PageAt(s, z)' => q = s /\ y = z
  BY DEF HeldOnce, Same
<1>4. \A h \in Page : h \in freelist' \cup leaked \/ \E q \in Slot, y \in Place : PageAt(q, y)' = h
  BY DEF HeldOnce, Same
<1>. QED BY <1>0, <1>1, <1>3, <1>4 DEF HeldOnce
-----------------------------------------------------------------------------
\* The contents of pages.

\* What kallocpage returns.
LEMMA Kallocpage ==
    ASSUME freelist \subseteq Page
    PROVE  /\ kallocpage = NullPA => freelist = {}
           /\ kallocpage # NullPA => kallocpage \in freelist
BY PageAssumption DEF kallocpage

\* kallocpage changes the contents of no page that is in use, and of none at all if the
\* list is empty.
LEMMA AllocatedMem ==
    ASSUME TypeOK, HeldOnce, Allocated(kallocpage)
    PROVE  /\ mem' \in [Page -> {Junk} \cup (App \X VA)]
           /\ freelist' \subseteq Page
           /\ kallocpage = NullPA => freelist' = freelist
           /\ \A q \in Slot, va \in UserVA :
                pte[q][va] \in Page => mem'[pte[q][va]] = mem[pte[q][va]]
<1>1. /\ kallocpage = NullPA => freelist = {}
      /\ kallocpage # NullPA => kallocpage \in freelist
  BY Kallocpage DEF TypeOK
<1>2. ASSUME NEW q \in Slot, NEW va \in UserVA PROVE pte[q][va] \notin freelist
  <2>1. <<"leaf", va>> \in Place /\ PageAt(q, <<"leaf", va>>) = pte[q][va]
    BY Leaf
  <2>. QED BY <2>1 DEF HeldOnce
<1>3. mem \in [Page -> {Junk} \cup (App \X VA)] /\ freelist \subseteq Page
  BY DEF TypeOK
<1>. QED BY <1>1, <1>2, <1>3, PageAssumption DEF Allocated

\* kfreepage changes the contents of the page that is given back and of no other.
LEMMA FreedMem ==
    ASSUME TypeOK, HeldOnce, NEW p \in Slot, NEW x \in Place, PageAt(p, x) \in Page,
           kfreepages({PageAt(p, x)})
    PROVE  /\ mem' \in [Page -> {Junk} \cup (App \X VA)]
           /\ freelist' \subseteq Page
           /\ \A q \in Slot, va \in UserVA :
                pte[q][va] \in Page /\ (q # p \/ x # <<"leaf", va>>) =>
                    mem'[pte[q][va]] = mem[pte[q][va]]
<1>2. ASSUME NEW q \in Slot, NEW va \in UserVA, pte[q][va] \in Page, pte[q][va] = PageAt(p, x)
      PROVE  q = p /\ <<"leaf", va>> = x
  <2>1. <<"leaf", va>> \in Place /\ PageAt(q, <<"leaf", va>>) = pte[q][va]
    BY Leaf
  <2>. QED BY <1>2, <2>1 DEF HeldOnce
<1>3. mem \in [Page -> {Junk} \cup (App \X VA)] /\ freelist \subseteq Page
  BY DEF TypeOK
<1>. QED BY <1>2, <1>3 DEF kfreepages
-----------------------------------------------------------------------------
\* One process works on its address space and leaves the others alone.

\* What the invariant says of process q depends on these.
SlotStays(q) ==
    /\ pc'[q] = pc[q] /\ pgt'[q] = pgt[q] /\ pte'[q] = pte[q] /\ vma'[q] = vma[q]
    /\ trapframe'[q] = trapframe[q] /\ areas'[q] = areas[q] /\ k'[q] = k[q] /\ app'[q] = app[q]

\* The pages of process q keep their contents.
MemStays(q) == \A va \in UserVA : pte[q][va] \in Page => mem'[pte[q][va]] = mem[pte[q][va]]

\* The addresses of a list of areas.
LEMMA ListedVA ==
    ASSUME NEW l \in Seq(Seq(UserVA)), NEW i \in 1 .. Len(l)
    PROVE  l[i] \in Seq(UserVA) /\ Len(l[i]) \in Nat /\ \A j \in 1 .. Len(l[i]) : l[i][j] \in UserVA
OBVIOUS

\* The pages of areas that are loaded are there.
LEMMA LoadedMapped ==
    ASSUME NEW q \in Slot, vma[q] \in Seq(Seq(UserVA)), MappedInv(q), pc[q] \in Loaded,
           NEW i \in 1 .. Len(vma[q]), NEW j \in 1 .. Len(vma[q][i]), ~Pending(q, i)
    PROVE  vma[q][i][j] \in UserVA /\ pte[q][vma[q][i][j]] \in Page
<1>1. vma[q][i][j] \in UserVA
  BY ListedVA
<1>2. ~Gone(q, i, j)
  BY DEF Gone, Loaded, Freeing
<1>. QED BY <1>1, <1>2 DEF MappedInv

\* A process that the step does not touch.
LEMMA OtherSlot ==
    ASSUME TypeOK, NEW q \in Slot, SlotInv(q), SlotStays(q), MemStays(q)
    PROVE  SlotInv(q)'
<1>0. vma[q] \in Seq(Seq(UserVA))
  BY DEF TypeOK
<1>1. SetupInv(q)' /\ ListInv(q)'
  BY DEF SlotInv, SlotStays, SetupInv, ListInv
<1>2. MappedInv(q)'
  BY DEF SlotInv, SlotStays, MappedInv, Gone, Pending
<1>3. PartInv(q)'
  BY DEF SlotInv, SlotStays, PartInv
<1>4. ContentInv(q)'
  <2> SUFFICES ASSUME pc[q] \in Loaded, NEW i \in 1 .. Len(vma[q]), NEW j \in 1 .. Len(vma[q][i]),
                      ~Pending(q, i)
               PROVE  mem'[pte[q][vma[q][i][j]]] = <<app[q], vma[q][i][j]>>
    BY DEF ContentInv, SlotStays, Pending
  <2>1. vma[q][i][j] \in UserVA /\ pte[q][vma[q][i][j]] \in Page
    BY <1>0, LoadedMapped DEF SlotInv
  <2>2. mem[pte[q][vma[q][i][j]]] = <<app[q], vma[q][i][j]>>
    BY DEF SlotInv, ContentInv
  <2>. QED BY <2>1, <2>2 DEF MemStays
<1>. QED BY <1>1, <1>2, <1>3, <1>4 DEF SlotInv

\* A process without areas.
LEMMA EmptyList ==
    ASSUME NEW q, vma'[q] = <<>>, k'[q] = 0, pc'[q] \notin {"map", "fill"}
    PROVE  ListInv(q)' /\ MappedInv(q)' /\ PartInv(q)' /\ ContentInv(q)'
BY DEF ListInv, MappedInv, PartInv, ContentInv, Distinct

\* Process p works, for itself or for by[p].
Work(p) ==
    /\ pc[p] \notin {"fork", "wait"}
    /\ by' = by
    /\ \A q \in Slot : q # p => SlotStays(q) /\ MemStays(q)

\* What p owes to the process it works for.
ByNext(p) ==
    /\ pc'[p] = "reap" <=> pc[p] = "reap"
    /\ pc'[p] = "err" => by[p] # NoSlot
    /\ by[p] # NoSlot /\ pc[p] # "reap" =>
         /\ pc'[p] \in Building \cup {"err"}
         /\ app'[p] = app[p]
         /\ pc'[p] \in {"vma", "map", "fill"} =>
              \A i \in 1 .. Len(areas'[p]) : \A j \in 1 .. Len(areas'[p][i]) :
                  Within(vma[by[p]], areas'[p][i][j])

\* Nobody works for a process that runs its own code.
LEMMA StoppedBy ==
    ASSUME TypeOK, NEW q \in Slot, ByInv(q), by[q] # NoSlot
    PROVE  by[q] \in Slot /\ pc[by[q]] \in {"fork", "wait"}
BY DEF TypeOK, ByInv

\* Then everyone still works for the process that has stopped for it.
LEMMA WorkBy ==
    ASSUME TypeOK, \A q \in Slot : ByInv(q), NEW p \in Slot, Work(p), ByNext(p)
    PROVE  \A q \in Slot : ByInv(q)'
<1> SUFFICES ASSUME NEW q \in Slot PROVE ByInv(q)'
  OBVIOUS
<1>0. by[q] \in Slot \cup {NoSlot} /\ NoSlot \notin Slot
  BY SlotAssumption DEF TypeOK
<1>1. by[q] # NoSlot => by[q] \in Slot /\ by[q] # p /\ SlotStays(by[q])
  BY StoppedBy DEF Work
<1>2. \A s \in Slot : by'[q] = by'[s] /\ by'[q] # NoSlot => q = s
  BY DEF ByInv, Work
<1>3. by'[q] = by[q]
  BY DEF Work
<1>4. by[q] # NoSlot => /\ pc'[by'[q]] = pc[by[q]] /\ app'[by'[q]] = app[by[q]]
                        /\ vma'[by'[q]] = vma[by[q]]
  BY <1>1, <1>3 DEF SlotStays
<1>5. /\ pc'[q] \in {"reap", "err"} => by[q] # NoSlot
      /\ by[q] # NoSlot =>
           \/ pc'[q] = "reap" /\ pc[by[q]] = "wait"
           \/ pc'[q] \in Building \cup {"err"} /\ pc[by[q]] = "fork" /\ app'[q] = app[by[q]]
  <2>1. CASE q # p
    BY <2>1 DEF Work, SlotStays, ByInv
  <2>2. CASE q = p
    BY <2>2 DEF ByNext, ByInv, Building
  <2>. QED BY <2>1, <2>2
<1>6. by[q] # NoSlot /\ pc'[q] \in {"vma", "map", "fill"} =>
         \A i \in 1 .. Len(areas'[q]) : \A j \in 1 .. Len(areas'[q][i]) :
             Within(vma[by[q]], areas'[q][i][j])
  <2>1. CASE q # p
    BY <2>1 DEF Work, SlotStays, ByInv
  <2>2. CASE q = p
    BY <2>2 DEF ByNext
  <2>. QED BY <2>1, <2>2
<1>. QED BY <1>2, <1>3, <1>4, <1>5, <1>6 DEF ByInv

\* So a step of p has to be looked at for p alone, and not at all if it panics.
LEMMA WorkStep ==
    ASSUME IInv, ~panic, TypeOK', HeldOnce', NEW p \in Slot,
           panic' \/ (Work(p) /\ SlotInv(p)' /\ ByNext(p))
    PROVE  IInv'
<1> SUFFICES ASSUME ~panic' PROVE \A q \in Slot : SlotInv(q)' /\ ByInv(q)'
  BY DEF IInv
<1>1. \A q \in Slot : ByInv(q)'
  BY WorkBy DEF IInv
<1>2. ASSUME NEW q \in Slot, q # p PROVE SlotInv(q)'
  BY <1>2, OtherSlot DEF IInv, Work
<1>. QED BY <1>1, <1>2
-----------------------------------------------------------------------------
\* The parts of TypeOK.
PageTypes ==
    /\ freelist \subseteq Page
    /\ mem \in [Page -> {Junk} \cup (App \X VA)]
    /\ pgt \in [Slot -> Page \cup {NoPage}]
    /\ table \in [Slot -> [Key -> Page \cup {NoPage}]]
    /\ pte \in [Slot -> [VA -> Page \cup {NoPage, TrampolinePage, NullPA}]]
    /\ trapframe \in [Slot -> Page \cup {NoPage}]
    /\ leaked \subseteq Page
WorkTypes ==
    /\ pc \in [Slot -> SlotPC]
    /\ by \in [Slot -> Slot \cup {NoSlot}]
    /\ app \in [Slot -> App]
    /\ vma \in [Slot -> Seq(Seq(UserVA))]
    /\ areas \in [Slot -> Seq(Seq(UserVA))]
    /\ k \in [Slot -> Nat]
ObjectTypes == mms \in Int /\ vmas \in Int /\ dropped \in Int
PanicType == panic \in BOOLEAN

\* Together they are TypeOK.
LEMMA TypeParts == TypeOK <=> PageTypes /\ WorkTypes /\ ObjectTypes /\ PanicType
BY DEF TypeOK, PageTypes, WorkTypes, ObjectTypes, PanicType

\* The same in the next state.
LEMMA TypePartsNext == TypeOK' <=> PageTypes' /\ WorkTypes' /\ ObjectTypes' /\ PanicType'
BY DEF TypeOK, PageTypes, WorkTypes, ObjectTypes, PanicType

\* Parts that a step leaves alone.
LEMMA SameTypes ==
    ASSUME TypeOK
    PROVE  /\ UNCHANGED <<freelist, mem, pgt, table, pte, trapframe, leaked>> => PageTypes'
           /\ UNCHANGED <<vma, workVars>> => WorkTypes'
           /\ UNCHANGED objects => ObjectTypes'
           /\ UNCHANGED panic \/ Panic => PanicType'
<1>1. UNCHANGED panic => PanicType'
  BY DEF TypeOK, PanicType
<1>2. Panic => PanicType'
  BY Zenon DEF Panic, PanicType
<1>. QED BY <1>1, <1>2 DEF TypeOK, PageTypes, WorkTypes, ObjectTypes, workVars, objects
-----------------------------------------------------------------------------
\* Steps that move no page.

LEMMA NoPages ==
    ASSUME IInv, UNCHANGED <<freelist, mem, pgt, table, pte, trapframe, leaked>>
    PROVE  HeldOnce' /\ \A q \in Slot : MemStays(q)
<1>1. \A q \in Slot, y \in Place : Same(q, y)
  BY SameProcess
<1>2. freelist \subseteq Page /\ leaked \subseteq Page /\ HeldOnce
  BY DEF IInv, TypeOK
<1>3. freelist' = freelist /\ leaked' = leaked
  OBVIOUS
<1>4. HeldOnce'
  BY <1>1, <1>2, <1>3, Keep
<1>. QED BY <1>4 DEF MemStays

\* A step of p that, in its address space, moves on to l and does nothing else.
Move(p, l) ==
    /\ pc' = [pc EXCEPT ![p] = l]
    /\ UNCHANGED <<freelist, mem, mmVars, by, areas, k, leaked>>

\* It is work of p alone, and moves no page.
LEMMA MoveWork ==
    ASSUME IInv, NEW p \in Slot, NEW l \in SlotPC, Move(p, l), pc[p] \notin {"fork", "wait"},
           \A q \in Slot : q # p => app'[q] = app[q]
    PROVE  Work(p) /\ pc'[p] = l /\ HeldOnce'
<1>1. HeldOnce' /\ \A q \in Slot : MemStays(q)
  BY NoPages DEF Move, mmVars
<1>2. pc \in [Slot -> SlotPC]
  BY DEF IInv, TypeOK
<1>3. pc'[p] = l /\ \A q \in Slot : q # p => pc'[q] = pc[q]
  BY <1>2 DEF Move
<1>4. \A q \in Slot : q # p => SlotStays(q)
  BY <1>3 DEF SlotStays, Move, mmVars
<1>. QED BY <1>1, <1>3, <1>4 DEF Work, Move

\* In allocproc, p->mm has no areas yet.
LEMMA MoveEarly ==
    ASSUME IInv, ~panic, TypeOK', NEW p \in Slot, NEW l \in SlotPC, Move(p, l), app' = app,
           pc[p] \in NoAreas \ {"unused", "root", "tf"}, l \in NoAreas \ {"unused"},
           pc[p] \in NoRoot <=> l \in NoRoot, pc[p] \in NoTrapframe <=> l \in NoTrapframe
    PROVE  IInv'
<1>1. Work(p) /\ pc'[p] = l /\ HeldOnce'
  BY MoveWork DEF NoAreas, NoRoot
<1>2. SlotInv(p)
  BY DEF IInv
<1>3. SetupInv(p)'
  BY <1>1, <1>2 DEF SlotInv, SetupInv, Move, mmVars, NoAreas, NoRoot
<1>4. vma'[p] = <<>> /\ k'[p] = 0
  BY <1>2 DEF SlotInv, ListInv, Move, mmVars, NoAreas, NoRoot, Freeing
<1>5. SlotInv(p)'
  BY <1>1, <1>3, <1>4, EmptyList DEF SlotInv, NoAreas, NoRoot
<1>6. ByNext(p)
  BY <1>1 DEF ByNext, NoAreas, NoRoot, Building
<1>. QED BY <1>1, <1>5, <1>6, WorkStep

\* mm_create takes its object.
LEMMA Step_kalloc_mm ==
    ASSUME IInv, NEW p \in Slot, kalloc_mm(p)
    PROVE  IInv'
<1>1. TypeOK'
  <2>1. PageTypes' /\ WorkTypes /\ ObjectTypes /\ PanicType'
    BY SameTypes, TypeParts DEF IInv, kalloc_mm, mmVars
  <2>2. WorkTypes'
    BY <2>1 DEF WorkTypes, kalloc_mm, Goto, SlotPC, mmVars
  <2>3. ObjectTypes'
    BY <2>1 DEF ObjectTypes, kalloc_mm
  <2>. QED BY <2>1, <2>2, <2>3, TypePartsNext
<1>2. CASE mms = MaxObjects
  <2>1. panic' /\ ~panic
    BY <1>2 DEF kalloc_mm, At, Panic
  <2>2. HeldOnce'
    BY NoPages DEF kalloc_mm, mmVars
  <2>. QED BY <1>1, <2>1, <2>2, WorkStep
<1>3. CASE mms # MaxObjects
  BY <1>1, <1>3, MoveEarly DEF kalloc_mm, At, Goto, Move, NoAreas, NoRoot, NoTrapframe, SlotPC
<1>. QED BY <1>2, <1>3

\* mm_create_vma for the trampoline and for the trapframe.
LEMMA Step_kalloc_vma ==
    ASSUME IInv, NEW p \in Slot,
           kalloc_vma(p, "tvma", "trampoline") \/ kalloc_vma(p, "fvma", "trapframe")
    PROVE  IInv'
<1>1. TypeOK'
  <2>1. PageTypes' /\ WorkTypes /\ ObjectTypes /\ PanicType'
    BY SameTypes, TypeParts DEF IInv, kalloc_vma, mmVars
  <2>2. WorkTypes'
    BY <2>1 DEF WorkTypes, kalloc_vma, Goto, SlotPC, mmVars
  <2>3. ObjectTypes'
    BY <2>1 DEF ObjectTypes, kalloc_vma
  <2>. QED BY <2>1, <2>2, <2>3, TypePartsNext
<1>2. CASE vmas = MaxObjects
  <2>1. panic' /\ ~panic
    BY <1>2 DEF kalloc_vma, At, Panic
  <2>2. HeldOnce'
    BY NoPages DEF kalloc_vma, mmVars
  <2>. QED BY <1>1, <2>1, <2>2, WorkStep
<1>3. CASE vmas # MaxObjects
  BY <1>1, <1>3, MoveEarly DEF kalloc_vma, At, Goto, Move, NoAreas, NoRoot, NoTrapframe, SlotPC
<1>. QED BY <1>2, <1>3
-----------------------------------------------------------------------------
\* Steps that take a page.

\* An empty list: kallocpage does nothing.
LEMMA AllocNone ==
    ASSUME IInv, Allocated(kallocpage), kallocpage = NullPA
    PROVE  UNCHANGED <<freelist, mem>>
BY Kallocpage, PageAssumption DEF IInv, TypeOK, Allocated

\* The page goes to place x of p.
LEMMA AllocOne ==
    ASSUME IInv, Allocated(kallocpage), kallocpage # NullPA,
           NEW p \in Slot, NEW x \in Place, PageAt(p, x) \notin Page, PageAt(p, x)' = kallocpage,
           leaked' = leaked, OnlyAt(p, x)
    PROVE  HeldOnce'
<1>1. kallocpage \in freelist /\ freelist \subseteq Page /\ leaked \subseteq Page /\ HeldOnce
  BY Kallocpage DEF IInv, TypeOK
<1>2. freelist' = freelist \ {kallocpage}
  BY DEF Allocated
<1>. QED BY <1>1, <1>2, Take, SameBut

\* kallocpage leaves the contents of everybody's pages alone.
LEMMA AllocMem ==
    ASSUME IInv, Allocated(kallocpage)
    PROVE  /\ mem' \in [Page -> {Junk} \cup (App \X VA)]
           /\ freelist' \subseteq Page
           /\ \A q \in Slot : MemStays(q)
BY AllocatedMem DEF IInv, MemStays

\* The root table.
LEMMA Step_mm_create ==
    ASSUME IInv, NEW p \in Slot, mm_create(p)
    PROVE  IInv'
<1>0. ~panic /\ pc[p] = "root" /\ SlotInv(p) /\ PageTypes /\ WorkTypes /\ ObjectTypes
  BY TypeParts DEF IInv, mm_create, At
<1>1. CASE kallocpage = NullPA
  <2>1. HeldOnce' /\ PageTypes'
    BY <1>1, AllocNone, NoPages, SameTypes DEF IInv, mm_create
  <2>2. WorkTypes' /\ PanicType' /\ panic'
    BY <1>1, SameTypes DEF IInv, mm_create, workVars, Panic
  <2>3. ObjectTypes'
    BY <1>0, <1>1 DEF mm_create, ObjectTypes
  <2>. QED BY <1>0, <2>1, <2>2, <2>3, TypePartsNext, WorkStep
<1>2. CASE kallocpage # NullPA
  <2>0. kallocpage \in Page
    BY <1>0, <1>2, Kallocpage DEF PageTypes
  <2>1. /\ pgt' = [pgt EXCEPT ![p] = kallocpage] /\ pc' = [pc EXCEPT ![p] = "tvma"]
        /\ UNCHANGED <<mms, panic, table, pte, vma, trapframe, by, app, areas, k, leaked, vmas, dropped>>
    BY <1>2 DEF mm_create, Goto
  <2>2. /\ pgt'[p] = kallocpage /\ pc'[p] = "tvma"
        /\ \A q \in Slot : q # p => pgt'[q] = pgt[q] /\ pc'[q] = pc[q]
    BY <1>0, <2>1 DEF PageTypes, WorkTypes
  <2>3. /\ mem' \in [Page -> {Junk} \cup (App \X VA)] /\ freelist' \subseteq Page
        /\ \A q \in Slot : MemStays(q)
    BY AllocMem DEF mm_create
  <2>4. PageTypes'
    BY <1>0, <2>0, <2>1, <2>3 DEF PageTypes
  <2>5. WorkTypes' /\ ObjectTypes' /\ PanicType'
    BY <1>0, <2>1, SameTypes DEF IInv, WorkTypes, SlotPC, objects
  <2>6. HeldOnce'
    <3>1. PageAt(p, <<"root", 0>>) \notin Page /\ PageAt(p, <<"root", 0>>)' = kallocpage
      BY <1>0, <2>2, Values, ValuesNext, PageAssumption DEF SlotInv, SetupInv, NoRoot
    <3>2. OnlyAt(p, <<"root", 0>>)
      BY <2>1, <2>2 DEF OnlyAt
    <3>. QED BY <1>2, <2>1, <3>1, <3>2, Places, AllocOne DEF mm_create
  <2>7. Work(p)
    BY <1>0, <2>1, <2>2, <2>3 DEF Work, SlotStays
  <2>8. SetupInv(p)'
    BY <1>0, <2>0, <2>1, <2>2 DEF SlotInv, SetupInv, NoRoot, NoTrapframe
  <2>9. vma'[p] = <<>> /\ k'[p] = 0
    BY <1>0, <2>1 DEF SlotInv, ListInv, NoAreas, NoRoot, Freeing
  <2>10. SlotInv(p)' /\ ByNext(p)
    BY <1>0, <2>1, <2>2, <2>8, <2>9, EmptyList DEF SlotInv, ByNext, Building
  <2>. QED BY <1>0, <2>4, <2>5, <2>6, <2>7, <2>10, TypePartsNext, WorkStep
<1>. QED BY <1>1, <1>2

\* p->trapframe.
LEMMA Step_alloc_trapframe ==
    ASSUME IInv, NEW p \in Slot, alloc_trapframe(p)
    PROVE  IInv'
<1>0. ~panic /\ pc[p] = "tf" /\ SlotInv(p) /\ PageTypes /\ WorkTypes
  BY TypeParts DEF IInv, alloc_trapframe, At
<1>1. CASE kallocpage = NullPA
  <2>1. HeldOnce' /\ PageTypes'
    BY <1>1, AllocNone, NoPages, SameTypes DEF IInv, alloc_trapframe
  <2>2. WorkTypes' /\ ObjectTypes' /\ PanicType' /\ panic'
    BY <1>1, SameTypes DEF IInv, alloc_trapframe, workVars, Panic
  <2>. QED BY <1>0, <2>1, <2>2, TypePartsNext, WorkStep
<1>2. CASE kallocpage # NullPA
  <2>0. kallocpage \in Page
    BY <1>0, <1>2, Kallocpage DEF PageTypes
  <2>1. /\ trapframe' = [trapframe EXCEPT ![p] = kallocpage] /\ pc' = [pc EXCEPT ![p] = "fvma"]
        /\ UNCHANGED <<panic, table, pte, vma, pgt, by, app, areas, k, leaked, objects>>
    BY <1>2 DEF alloc_trapframe, Goto
  <2>2. /\ trapframe'[p] = kallocpage /\ pc'[p] = "fvma"
        /\ \A q \in Slot : q # p => trapframe'[q] = trapframe[q] /\ pc'[q] = pc[q]
    BY <1>0, <2>1 DEF PageTypes, WorkTypes
  <2>3. /\ mem' \in [Page -> {Junk} \cup (App \X VA)] /\ freelist' \subseteq Page
        /\ \A q \in Slot : MemStays(q)
    BY AllocMem DEF alloc_trapframe
  <2>4. PageTypes'
    BY <1>0, <2>0, <2>1, <2>3 DEF PageTypes
  <2>5. WorkTypes' /\ ObjectTypes' /\ PanicType'
    BY <1>0, <2>1, SameTypes DEF IInv, WorkTypes, SlotPC
  <2>6. HeldOnce'
    <3>1. PageAt(p, <<"trapframe", 0>>) \notin Page /\ PageAt(p, <<"trapframe", 0>>)' = kallocpage
      BY <1>0, <2>2, Values, ValuesNext, PageAssumption DEF SlotInv, SetupInv, NoTrapframe
    <3>2. OnlyAt(p, <<"trapframe", 0>>)
      BY <2>1, <2>2 DEF OnlyAt
    <3>. QED BY <1>2, <2>1, <3>1, <3>2, Places, AllocOne DEF alloc_trapframe
  <2>7. Work(p)
    BY <1>0, <2>1, <2>2, <2>3 DEF Work, SlotStays
  <2>8. SetupInv(p)'
    BY <1>0, <2>0, <2>1, <2>2 DEF SlotInv, SetupInv, NoRoot, NoTrapframe
  <2>9. vma'[p] = <<>> /\ k'[p] = 0
    BY <1>0, <2>1 DEF SlotInv, ListInv, NoAreas, NoRoot, Freeing
  <2>10. SlotInv(p)' /\ ByNext(p)
    BY <1>0, <2>1, <2>2, <2>8, <2>9, EmptyList DEF SlotInv, ByNext, Building
  <2>. QED BY <1>0, <2>4, <2>5, <2>6, <2>7, <2>10, TypePartsNext, WorkStep
<1>. QED BY <1>1, <1>2
-----------------------------------------------------------------------------
\* walk: a table of p, and nothing else that the invariant speaks of.

LEMMA IdleStep ==
    ASSUME IInv, TypeOK', HeldOnce', panic' = panic, by' = by,
           \A q \in Slot : SlotStays(q) /\ MemStays(q)
    PROVE  IInv'
<1> SUFFICES ASSUME ~panic, NEW q \in Slot PROVE SlotInv(q)' /\ ByInv(q)'
  BY DEF IInv
<1>1. SlotInv(q)'
  BY OtherSlot DEF IInv
<1>2. ByInv(q) /\ SlotStays(q) /\ by'[q] = by[q] /\ \A s \in Slot : by'[s] = by[s]
  BY DEF IInv
<1>3. by[q] # NoSlot => /\ pc'[by'[q]] = pc[by[q]] /\ app'[by'[q]] = app[by[q]]
                        /\ vma'[by'[q]] = vma[by[q]]
  BY <1>2, StoppedBy DEF IInv, SlotStays
<1>4. ByInv(q)'
  BY <1>2, <1>3 DEF ByInv, SlotStays
<1>. QED BY <1>1, <1>4

\* The table that walk adds was missing.
LEMMA MissingTable ==
    ASSUME NEW p \in Slot, NEW va \in VA, Missing(p, va) # {}
    PROVE  Path(va)[Min(Missing(p, va))] \in Key /\ table[p][Path(va)[Min(Missing(p, va))]] = NoPage
<1>1. <<2, va \div (T * T)>> \in Key /\ <<1, va \div T>> \in Key
  BY DEF Key
<1>2. Path(va)[1] = <<2, va \div (T * T)>> /\ Path(va)[2] = <<1, va \div T>>
  BY DEF Path
<1>3. Missing(p, va) \subseteq {1, 2}
  BY DEF Missing
<1>4. \E i \in Missing(p, va) : \A j \in Missing(p, va) : i <= j
  <2>1. CASE 1 \in Missing(p, va)
    BY <1>3, <2>1
  <2>2. CASE 1 \notin Missing(p, va)
    BY <1>3, <2>2
  <2>. QED BY <2>1, <2>2
<1>5. Min(Missing(p, va)) \in Missing(p, va)
  BY <1>4 DEF Min
<1>6. Min(Missing(p, va)) = 1 \/ Min(Missing(p, va)) = 2
  BY <1>3, <1>5
<1>7. table[p][Path(va)[Min(Missing(p, va))]] = NoPage
  BY <1>5 DEF Missing
<1>. QED BY <1>1, <1>2, <1>6, <1>7

\* The other tables stay.
LEMMA SetTable ==
    ASSUME table \in [Slot -> [Key -> Page \cup {NoPage}]], NEW p \in Slot, NEW key \in Key,
           NEW g \in Page, table' = [table EXCEPT ![p][key] = g]
    PROVE  /\ table' \in [Slot -> [Key -> Page \cup {NoPage}]]
           /\ table'[p][key] = g
           /\ \A q \in Slot, h \in Key : q # p \/ h # key => table'[q][h] = table[q][h]
OBVIOUS

\* walk finds a page for the table.
LEMMA WalkTable ==
    ASSUME IInv, NEW p \in Slot, NEW va \in VA, Missing(p, va) # {}, Allocated(kallocpage),
           kallocpage # NullPA,
           table' = [table EXCEPT ![p][Path(va)[Min(Missing(p, va))]] = kallocpage],
           UNCHANGED <<pgt, pte, vma, trapframe, pc, by, app, areas, k, leaked, objects, panic>>
    PROVE  IInv'
<1>0. PICK key \in Key : key = Path(va)[Min(Missing(p, va))]
  BY MissingTable
<1>1. table[p][key] = NoPage /\ table' = [table EXCEPT ![p][key] = kallocpage]
  BY <1>0, MissingTable
<1>2. PageTypes /\ kallocpage \in Page
  BY Kallocpage, TypeParts DEF PageTypes, IInv
<1>3. /\ mem' \in [Page -> {Junk} \cup (App \X VA)] /\ freelist' \subseteq Page
      /\ \A q \in Slot : MemStays(q)
  BY AllocMem
<1>4. /\ table' \in [Slot -> [Key -> Page \cup {NoPage}]]
      /\ table'[p][key] = kallocpage
      /\ \A q \in Slot, h \in Key : q # p \/ h # key => table'[q][h] = table[q][h]
  <2>1. PICK g \in Page : g = kallocpage
    BY <1>2
  <2>2. table \in [Slot -> [Key -> Page \cup {NoPage}]]
    BY <1>2 DEF PageTypes
  <2>3. table' = [table EXCEPT ![p][key] = g]
    BY <1>1, <2>1
  <2>4. /\ table' \in [Slot -> [Key -> Page \cup {NoPage}]]
        /\ table'[p][key] = g
        /\ \A q \in Slot, h \in Key : q # p \/ h # key => table'[q][h] = table[q][h]
    BY ONLY <2>2, <2>3, SetTable
  <2>. QED BY <2>1, <2>4
<1>5. PageTypes'
  BY <1>2, <1>3, <1>4 DEF PageTypes
<1>6. WorkTypes' /\ ObjectTypes' /\ PanicType'
  BY SameTypes DEF IInv, workVars
<1>7. HeldOnce'
  <2>1. PageAt(p, <<"table", key>>) \notin Page /\ PageAt(p, <<"table", key>>)' = kallocpage
    BY <1>1, <1>4, Values, ValuesNext, PageAssumption
  <2>2. OnlyAt(p, <<"table", key>>)
    BY <1>4 DEF OnlyAt
  <2>3. <<"table", key>> \in Place
    BY <1>1, Places
  <2>. QED BY <2>1, <2>2, <2>3, AllocOne
<1>8. \A q \in Slot : SlotStays(q)
  BY DEF SlotStays
<1>. QED BY <1>3, <1>5, <1>6, <1>7, <1>8, TypePartsNext, IdleStep
-----------------------------------------------------------------------------
\* The entries of the trampoline and of the trapframe.

\* Entries change that hold no page before and after.
LEMMA Entries ==
    ASSUME IInv, NEW p \in Slot, UNCHANGED <<freelist, pgt, table, trapframe, leaked>>,
           \A q \in Slot, va \in VA \ {TRAPFRAME} :
               pte'[q][va] = pte[q][va] \/ (pte[q][va] \notin Page /\ pte'[q][va] \notin Page)
    PROVE  HeldOnce'
<1>1. OnlyAt(p, <<"root", 0>>)
  BY DEF OnlyAt
<1>2. Same(p, <<"root", 0>>)
  BY Values, ValuesNext DEF Same
<1>3. \A q \in Slot, y \in Place : Same(q, y)
  BY <1>1, <1>2, SameBut
<1>4. freelist \subseteq Page /\ leaked \subseteq Page /\ HeldOnce
  BY DEF IInv, TypeOK
<1>. QED BY <1>3, <1>4, Keep

\* One of the two entries is written, with nothing or a page that p->trapframe holds.
LEMMA SetEntry ==
    ASSUME IInv, NEW p \in Slot, NEW va \in {TRAMPOLINE, TRAPFRAME},
           NEW g \in Page \cup {NoPage, TrampolinePage}, NEW l \in SlotPC,
           pte' = [pte EXCEPT ![p][va] = g], pc' = [pc EXCEPT ![p] = l],
           UNCHANGED <<freelist, mem, pgt, table, vma, trapframe, by, app, areas, k, leaked, objects, panic>>,
           ~panic, va = TRAMPOLINE => g = TrampolinePage, va = TRAPFRAME => g = trapframe[p],
           \/ pc[p] = "trampoline" /\ l = "tf"
           \/ pc[p] = "trapframe" /\ l = "areas"
    PROVE  IInv'
<1>0. PageTypes /\ WorkTypes /\ SlotInv(p) /\ va \in VA /\ TRAMPOLINE # TRAPFRAME
  BY TypeParts, LayoutAssumption DEF IInv
<1>1. /\ pte' \in [Slot -> [VA -> Page \cup {NoPage, TrampolinePage, NullPA}]]
      /\ pte'[p][va] = g
      /\ \A q \in Slot, v \in VA : q # p \/ v # va => pte'[q][v] = pte[q][v]
      /\ \A q \in Slot : q # p => pte'[q] = pte[q]
  BY <1>0 DEF PageTypes
<1>2. pc'[p] = l /\ \A q \in Slot : q # p => pc'[q] = pc[q]
  BY <1>0 DEF WorkTypes
<1>3. PageTypes'
  BY <1>0, <1>1 DEF PageTypes
<1>4. WorkTypes' /\ ObjectTypes' /\ PanicType'
  BY <1>0, SameTypes DEF IInv, WorkTypes
<1>5. HeldOnce'
  <2>1. va = TRAMPOLINE => pte[p][va] \notin Page
    BY <1>0, PageAssumption DEF SlotInv, SetupInv
  <2>2. va = TRAMPOLINE => pte'[p][va] \notin Page
    BY <1>1, PageAssumption
  <2>3. ASSUME NEW q \in Slot, NEW v \in VA \ {TRAPFRAME}
        PROVE  pte'[q][v] = pte[q][v] \/ (pte[q][v] \notin Page /\ pte'[q][v] \notin Page)
    BY <1>1, <2>1, <2>2
  <2>. QED BY <2>3, Entries
<1>6. Work(p)
  BY <1>1, <1>2 DEF Work, SlotStays, MemStays
<1>7. SetupInv(p)'
  BY <1>0, <1>1, <1>2, LayoutAssumption DEF SlotInv, SetupInv, NoRoot, NoTrapframe
<1>8. vma'[p] = <<>> /\ k'[p] = 0
  BY <1>0 DEF SlotInv, ListInv, NoAreas, NoRoot, Freeing
<1>9. SlotInv(p)' /\ ByNext(p)
  BY <1>2, <1>7, <1>8, EmptyList DEF SlotInv, ByNext, Building
<1>. QED BY <1>3, <1>4, <1>5, <1>6, <1>9, TypePartsNext, WorkStep

\* mm_mappagesat(TRAMPOLINE).
LEMMA Step_map_trampoline ==
    ASSUME IInv, NEW p \in Slot, map_trampoline(p)
    PROVE  IInv'
<1>0. ~panic /\ pc[p] = "trampoline" /\ TRAMPOLINE \in VA /\ WorkTypes /\ ObjectTypes
  BY LayoutAssumption, TypeParts DEF map_trampoline, At, IInv
<1>1. CASE Missing(p, TRAMPOLINE) # {} /\ kallocpage # NullPA
  BY <1>0, <1>1, WalkTable DEF map_trampoline, walk, objects
<1>2. CASE Missing(p, TRAMPOLINE) # {} /\ kallocpage = NullPA
  <2>1. Move(p, "tf") /\ app' = app /\ dropped' = dropped + 1 /\ UNCHANGED <<mms, vmas, panic>>
    BY <1>2, AllocNone DEF map_trampoline, walk, Move, mmVars, Goto
  <2>2. PageTypes' /\ PanicType'
    BY <2>1, SameTypes DEF IInv, Move, mmVars
  <2>3. WorkTypes' /\ ObjectTypes'
    BY <1>0, <2>1 DEF WorkTypes, ObjectTypes, Move, mmVars, SlotPC
  <2>. QED BY <1>0, <2>1, <2>2, <2>3, TypePartsNext, MoveEarly DEF NoAreas, NoRoot, NoTrapframe, SlotPC
<1>3. CASE Missing(p, TRAMPOLINE) = {}
  BY <1>0, <1>3, SetEntry, LayoutAssumption DEF map_trampoline, walk, Goto, SlotPC
<1>. QED BY <1>1, <1>2, <1>3

\* mm_mappagesat(TRAPFRAME).
LEMMA Step_map_trapframe ==
    ASSUME IInv, NEW p \in Slot, map_trapframe(p)
    PROVE  IInv'
<1>0. ~panic /\ pc[p] = "trapframe" /\ TRAPFRAME \in VA /\ WorkTypes /\ ObjectTypes
  BY LayoutAssumption, TypeParts DEF map_trapframe, At, IInv
<1>1. CASE Missing(p, TRAPFRAME) # {} /\ kallocpage # NullPA
  BY <1>0, <1>1, WalkTable DEF map_trapframe, walk, objects
<1>2. CASE Missing(p, TRAPFRAME) # {} /\ kallocpage = NullPA
  <2>1. Move(p, "areas") /\ app' = app /\ dropped' = dropped + 1 /\ UNCHANGED <<mms, vmas, panic>>
    BY <1>2, AllocNone DEF map_trapframe, walk, Move, mmVars, Goto
  <2>2. PageTypes' /\ PanicType'
    BY <2>1, SameTypes DEF IInv, Move, mmVars
  <2>3. WorkTypes' /\ ObjectTypes'
    BY <1>0, <2>1 DEF WorkTypes, ObjectTypes, Move, mmVars, SlotPC
  <2>. QED BY <1>0, <2>1, <2>2, <2>3, TypePartsNext, MoveEarly DEF NoAreas, NoRoot, NoTrapframe, SlotPC
<1>3. CASE Missing(p, TRAPFRAME) = {}
  <2>1. trapframe[p] \in Page \cup {NoPage}
    BY DEF IInv, TypeOK
  <2>. QED BY <1>0, <1>3, <2>1, SetEntry, LayoutAssumption DEF map_trapframe, walk, Goto, SlotPC
<1>. QED BY <1>1, <1>2, <1>3
-----------------------------------------------------------------------------
\* Lists of areas.

LEMMA Prepend ==
    ASSUME NEW S, NEW l \in Seq(S), NEW a \in S
    PROVE  /\ <<a>> \o l \in Seq(S) /\ Len(<<a>> \o l) = Len(l) + 1 /\ (<<a>> \o l)[1] = a
           /\ \A i \in 2 .. Len(l) + 1 : (<<a>> \o l)[i] = l[i - 1]
OBVIOUS

\* A list without its first element.
LEMMA TailOf ==
    ASSUME NEW S, NEW l \in Seq(S), l # <<>>
    PROVE  /\ Tail(l) \in Seq(S) /\ Len(Tail(l)) = Len(l) - 1 /\ Len(l) \in Nat \ {0}
           /\ \A i \in 1 .. Len(l) - 1 : Tail(l)[i] = l[i + 1]
           /\ Head(l) = l[1] /\ l[1] \in S
OBVIOUS

\* The program of load_user_elf is a list of areas.
LEMMA ImageType ==
    ASSUME NEW a \in App
    PROVE  Image(a) \in Seq(Seq(UserVA))
BY LayoutAssumption DEF Image

\* mm_copy and load_user_elf begin.
LEMMA Step_begin_areas ==
    ASSUME IInv, NEW p \in Slot, begin_areas(p)
    PROVE  IInv'
<1>0. ~panic /\ pc[p] = "areas" /\ SlotInv(p) /\ ByInv(p) /\ WorkTypes
  BY TypeParts DEF IInv, begin_areas, At
<1>1. PICK l \in Seq(Seq(UserVA)) : l = IF by[p] = NoSlot THEN Image(app[p]) ELSE vma[by[p]]
  BY <1>0, ImageType DEF WorkTypes
<1>2. /\ pc' = [pc EXCEPT ![p] = "vma"] /\ areas' = [areas EXCEPT ![p] = l] /\ k' = [k EXCEPT ![p] = 0]
      /\ UNCHANGED <<freelist, mem, pgt, table, pte, vma, trapframe, by, app, leaked, objects, panic>>
  BY <1>1 DEF begin_areas, Goto, mmVars
<1>3. /\ pc'[p] = "vma" /\ areas'[p] = l /\ k'[p] = 0
      /\ \A q \in Slot : q # p => pc'[q] = pc[q] /\ areas'[q] = areas[q] /\ k'[q] = k[q]
  BY <1>0, <1>2 DEF WorkTypes
<1>4. WorkTypes'
  BY <1>0, <1>2 DEF WorkTypes, SlotPC
<1>5. PageTypes' /\ ObjectTypes' /\ PanicType' /\ HeldOnce' /\ \A q \in Slot : MemStays(q)
  BY <1>2, SameTypes, NoPages DEF IInv
<1>6. Work(p)
  BY <1>0, <1>2, <1>3, <1>5 DEF Work, SlotStays
<1>7. SlotInv(p)'
  <2>1. SetupInv(p)'
    BY <1>0, <1>2, <1>3 DEF SlotInv, SetupInv, NoRoot, NoTrapframe
  <2>2. vma'[p] = <<>>
    BY <1>0, <1>2 DEF SlotInv, ListInv, NoAreas
  <2>. QED BY <1>3, <2>1, <2>2, EmptyList DEF SlotInv
<1>8. ByNext(p)
  <2>1. by[p] # NoSlot => areas'[p] = vma[by[p]]
    BY <1>1, <1>3
  <2>. QED BY <1>0, <1>2, <1>3, <2>1 DEF ByNext, Building, Within
<1>. QED BY <1>0, <1>4, <1>5, <1>6, <1>7, <1>8, TypePartsNext, WorkStep

\* A process whose memory is loaded does something else next.
LEMMA MoveLoaded ==
    ASSUME TypeOK, NEW q \in Slot, SlotInv(q), MemStays(q),
           pc[q] \in Loaded \ {"fill", "map"}, pc'[q] \in Loaded \ {"fill"},
           pc'[q] = "map" => areas[q] # <<>>,
           pgt'[q] = pgt[q], pte'[q] = pte[q], vma'[q] = vma[q], trapframe'[q] = trapframe[q],
           areas'[q] = areas[q], k'[q] = k[q], app'[q] = app[q]
    PROVE  SlotInv(q)'
<1>0. vma[q] \in Seq(Seq(UserVA)) /\ areas[q] \in Seq(Seq(UserVA))
  BY DEF TypeOK
<1>1. k[q] = 0
  BY DEF SlotInv, ListInv, Freeing, Loaded
<1>2. SetupInv(q)'
  BY DEF SlotInv, SetupInv, NoRoot, NoTrapframe, Loaded
<1>3. ListInv(q)'
  <2>1. areas[q] # <<>> => areas[q][1] \in Seq(UserVA) /\ 0 <= Len(areas[q][1])
    BY <1>0
  <2>. QED BY <1>1, <2>1 DEF ListInv, Loaded, NoAreas, NoRoot, Freeing
<1>4. MappedInv(q)'
  <2>1. \A i \in 1 .. Len(vma[q]) : \A j \in 1 .. Len(vma[q][i]) : pte[q][vma[q][i][j]] \in Page
    BY DEF SlotInv, MappedInv, Gone, Pending, Loaded, Freeing
  <2>. QED BY <2>1 DEF SlotInv, MappedInv
<1>5. PartInv(q)'
  BY <1>1 DEF PartInv
<1>6. ContentInv(q)'
  <2> SUFFICES ASSUME NEW i \in 1 .. Len(vma[q]), NEW j \in 1 .. Len(vma[q][i])
               PROVE  mem'[pte[q][vma[q][i][j]]] = <<app[q], vma[q][i][j]>>
    BY DEF ContentInv
  <2>0. ~Pending(q, i)
    BY DEF Pending
  <2>1. vma[q][i][j] \in UserVA /\ pte[q][vma[q][i][j]] \in Page
    BY <1>0, <2>0, LoadedMapped DEF SlotInv
  <2>2. mem[pte[q][vma[q][i][j]]] = <<app[q], vma[q][i][j]>>
    BY <2>0 DEF SlotInv, ContentInv
  <2>. QED BY <2>1, <2>2 DEF MemStays
<1>. QED BY <1>2, <1>3, <1>4, <1>5, <1>6 DEF SlotInv

\* The object of the next area.
LEMMA Step_mm_create_vma ==
    ASSUME IInv, NEW p \in Slot, mm_create_vma(p)
    PROVE  IInv'
<1>0. ~panic /\ pc[p] = "vma" /\ SlotInv(p) /\ ByInv(p) /\ WorkTypes /\ ObjectTypes /\ areas[p] # <<>>
  BY TypeParts DEF IInv, mm_create_vma, kalloc_vma, At
<1>1. PageTypes' /\ PanicType' /\ HeldOnce' /\ \A q \in Slot : MemStays(q)
  BY SameTypes, NoPages DEF IInv, mm_create_vma, kalloc_vma, mmVars
<1>2. WorkTypes' /\ ObjectTypes'
  <2>1. WorkTypes'
    BY <1>0 DEF WorkTypes, mm_create_vma, kalloc_vma, mmVars, Goto, SlotPC
  <2>2. ObjectTypes'
    BY <1>0 DEF ObjectTypes, mm_create_vma, kalloc_vma
  <2>. QED BY <2>1, <2>2
<1>3. CASE vmas = MaxObjects
  BY <1>0, <1>1, <1>2, <1>3, TypePartsNext, WorkStep DEF mm_create_vma, kalloc_vma, Panic
<1>4. CASE vmas # MaxObjects
  <2>1. Move(p, "map") /\ app' = app
    BY <1>4 DEF mm_create_vma, kalloc_vma, Move, Goto
  <2>2. Work(p) /\ pc'[p] = "map"
    BY <1>0, <2>1, MoveWork DEF SlotPC
  <2>3. SlotInv(p)'
    BY <1>0, <1>1, <2>1, <2>2, MoveLoaded DEF IInv, Move, mmVars, Loaded
  <2>4. ByNext(p)
    BY <1>0, <2>1, <2>2 DEF ByNext, ByInv, Building, Move
  <2>. QED BY <1>0, <1>1, <1>2, <2>2, <2>3, <2>4, TypePartsNext, WorkStep
<1>. QED BY <1>3, <1>4
-----------------------------------------------------------------------------
\* mm_mappages.

\* It fails: panic in load_user_elf, and in mm_copy the areas that are mapped go.
LEMMA MappagesFailed ==
    ASSUME IInv, NEW p \in Slot, At(p, "map"), mappages_failed(p),
           UNCHANGED <<freelist, mem, mmVars, by, app, areas, leaked, mms, vmas>>
    PROVE  IInv'
<1>0. ~panic /\ pc[p] = "map" /\ SlotInv(p) /\ WorkTypes /\ ObjectTypes
  BY TypeParts DEF IInv, At
<1>1. PageTypes' /\ PanicType' /\ HeldOnce' /\ \A q \in Slot : MemStays(q)
  BY SameTypes, NoPages DEF IInv, mappages_failed, mmVars
<1>2. WorkTypes'
  BY <1>0 DEF WorkTypes, mappages_failed, mmVars, Goto, SlotPC
<1>3. ObjectTypes'
  BY <1>0 DEF ObjectTypes, mappages_failed
<1>4. CASE by[p] = NoSlot
  BY <1>0, <1>1, <1>2, <1>3, <1>4, TypePartsNext, WorkStep DEF mappages_failed, Panic
<1>5. CASE by[p] # NoSlot
  <2>1. /\ pc' = [pc EXCEPT ![p] = "err"] /\ k' = [k EXCEPT ![p] = 0]
        /\ UNCHANGED <<pgt, pte, vma, trapframe, by, app, areas>>
    BY <1>5 DEF mappages_failed, Goto, mmVars
  <2>2. /\ pc'[p] = "err" /\ k'[p] = 0
        /\ \A q \in Slot : q # p => pc'[q] = pc[q] /\ k'[q] = k[q]
    BY <1>0, <2>1 DEF WorkTypes
  <2>3. Work(p)
    BY <1>0, <1>1, <2>1, <2>2 DEF Work, SlotStays
  <2>4. SetupInv(p)' /\ ListInv(p)' /\ PartInv(p)' /\ ContentInv(p)'
    BY <1>0, <2>1, <2>2
       DEF SlotInv, SetupInv, ListInv, PartInv, ContentInv, NoRoot, NoTrapframe, NoAreas, Freeing, Loaded
  <2>5. MappedInv(p)'
    BY <1>0, <2>1, <2>2 DEF SlotInv, MappedInv, Gone, Pending, Freeing
  <2>6. ByNext(p)
    BY <1>0, <1>5, <2>1, <2>2 DEF ByNext
  <2>7. SlotInv(p)'
    BY <2>4, <2>5 DEF SlotInv
  <2>. QED BY <1>0, <1>1, <1>2, <1>3, <2>3, <2>6, <2>7, TypePartsNext, WorkStep
<1>. QED BY <1>4, <1>5

\* The entry of one more page of the area; the page may be NullPA.
LeafSet(p, va, g) ==
    /\ pte[p][va] = NoPage
    /\ g = kallocpage
    /\ Allocated(kallocpage)
    /\ pte' = [pte EXCEPT ![p][va] = g]
    /\ UNCHANGED <<pgt, table, trapframe, leaked>>

\* The entry holds the new page, or NullPA, and nothing else has changed.
LEMMA SetLeaf ==
    ASSUME IInv, NEW p \in Slot, NEW va \in UserVA, NEW g, LeafSet(p, va, g)
    PROVE  /\ g \in Page \cup {NullPA}
           /\ PageTypes' /\ HeldOnce' /\ \A q \in Slot : MemStays(q)
           /\ pte'[p][va] = g
           /\ \A q \in Slot, v \in VA : q # p \/ v # va => pte'[q][v] = pte[q][v]
           /\ \A q \in Slot : q # p => pte'[q] = pte[q]
<1>0. /\ PageTypes /\ va \in VA /\ va # TRAPFRAME
      /\ pte[p][va] = NoPage /\ g = kallocpage /\ Allocated(kallocpage)
      /\ pte' = [pte EXCEPT ![p][va] = g]
      /\ UNCHANGED <<pgt, table, trapframe, leaked>>
  BY TypeParts DEF IInv, UserVA, LeafSet
<1>1. g \in Page \cup {NullPA}
  BY <1>0, Kallocpage DEF PageTypes
<1>2. /\ mem' \in [Page -> {Junk} \cup (App \X VA)] /\ freelist' \subseteq Page
      /\ \A q \in Slot : MemStays(q)
  BY <1>0, AllocMem
<1>3. /\ pte' \in [Slot -> [VA -> Page \cup {NoPage, TrampolinePage, NullPA}]]
      /\ pte'[p][va] = g
      /\ \A q \in Slot, v \in VA : q # p \/ v # va => pte'[q][v] = pte[q][v]
      /\ \A q \in Slot : q # p => pte'[q] = pte[q]
  <2>1. pte \in [Slot -> [VA -> Page \cup {NoPage, TrampolinePage, NullPA}]]
    BY <1>0 DEF PageTypes
  <2>. QED BY <1>0, <1>1, <2>1
<1>4. PageTypes'
  BY <1>0, <1>2, <1>3 DEF PageTypes
<1>5. HeldOnce'
  <2>1. CASE g = NullPA
    <3>1. freelist' = freelist
      BY <1>0, <2>1, AllocNone
    <3>2. ASSUME NEW q \in Slot, NEW v \in VA \ {TRAPFRAME}
          PROVE  pte'[q][v] = pte[q][v] \/ (pte[q][v] \notin Page /\ pte'[q][v] \notin Page)
      BY <1>0, <1>3, <2>1, PageAssumption
    <3>. QED BY <1>0, <3>1, <3>2, Entries
  <2>2. CASE g # NullPA
    <3>1. PageAt(p, <<"leaf", va>>) \notin Page /\ PageAt(p, <<"leaf", va>>)' = kallocpage
      BY <1>0, <1>3, Values, ValuesNext, PageAssumption
    <3>2. OnlyAt(p, <<"leaf", va>>)
      BY <1>0, <1>3 DEF OnlyAt
    <3>3. <<"leaf", va>> \in Place
      BY Places
    <3>. QED BY <1>0, <2>2, <3>1, <3>2, <3>3, AllocOne
  <2>. QED BY <2>1, <2>2
<1>. QED BY <1>1, <1>2, <1>3, <1>4, <1>5

\* One more page of the area.
LEMMA MapPage ==
    ASSUME IInv, NEW p \in Slot, At(p, "map"), k[p] < Len(areas[p][1]),
           NEW va, va = areas[p][1][k[p] + 1], pte[p][va] = NoPage, Allocated(kallocpage),
           pte' = [pte EXCEPT ![p][va] = kallocpage], k' = [k EXCEPT ![p] = @ + 1],
           UNCHANGED <<pgt, table, vma, trapframe, pc, by, app, areas, leaked, objects, panic>>
    PROVE  IInv'
<1>0. ~panic /\ pc[p] = "map" /\ SlotInv(p) /\ ByInv(p) /\ WorkTypes
  BY TypeParts DEF IInv, At
<1>1. /\ vma[p] \in Seq(Seq(UserVA)) /\ areas[p] \in Seq(Seq(UserVA)) /\ areas[p] # <<>>
      /\ areas[p][1] \in Seq(UserVA) /\ k[p] \in Nat /\ Len(areas[p][1]) \in Nat
  <2>1. areas[p] \in Seq(Seq(UserVA)) /\ areas[p] # <<>> /\ vma[p] \in Seq(Seq(UserVA)) /\ k[p] \in Nat
    BY <1>0 DEF WorkTypes, SlotInv, ListInv
  <2>. QED BY <2>1, TailOf
<1>2. va \in UserVA
  BY <1>1
<1>3. PICK g \in Page \cup {NullPA} : g = kallocpage
  BY Kallocpage DEF IInv, TypeOK
<1>4. /\ PageTypes' /\ HeldOnce' /\ \A q \in Slot : MemStays(q)
      /\ pte'[p][va] = g
      /\ \A q \in Slot, v \in VA : q # p \/ v # va => pte'[q][v] = pte[q][v]
      /\ \A q \in Slot : q # p => pte'[q] = pte[q]
  <2>1. LeafSet(p, va, g)
    BY <1>3 DEF LeafSet
  <2>. QED BY <1>2, <2>1, SetLeaf
<1>5. k'[p] = k[p] + 1 /\ \A q \in Slot : q # p => k'[q] = k[q]
  BY <1>0 DEF WorkTypes
<1>6. WorkTypes' /\ ObjectTypes' /\ PanicType'
  BY <1>0, SameTypes DEF WorkTypes, IInv
<1>7. Work(p)
  BY <1>0, <1>4, <1>5 DEF Work, SlotStays
<1>8. ByNext(p)
  BY <1>0 DEF ByNext, ByInv, Building
<1>9. SetupInv(p)' /\ ListInv(p)'
  <2>1. TRAMPOLINE # va /\ TRAPFRAME # va /\ TRAMPOLINE \in VA /\ TRAPFRAME \in VA
    BY <1>2, LayoutAssumption DEF UserVA
  <2>2. SetupInv(p)'
    BY <1>0, <1>4, <2>1 DEF SlotInv, SetupInv
  <2>3. ListInv(p)'
    BY <1>0, <1>1, <1>5 DEF SlotInv, ListInv, NoAreas, NoRoot, Freeing
  <2>. QED BY <2>2, <2>3
<1>10. ASSUME NEW i \in 1 .. Len(vma[p]), NEW j \in 1 .. Len(vma[p][i])
       PROVE  /\ vma[p][i][j] \in UserVA /\ pte[p][vma[p][i][j]] \in Page /\ vma[p][i][j] # va
              /\ pte'[p][vma[p][i][j]] = pte[p][vma[p][i][j]]
  <2>1. ~Pending(p, i)
    BY <1>0 DEF Pending
  <2>2. vma[p][i][j] \in UserVA /\ pte[p][vma[p][i][j]] \in Page
    BY <1>0, <1>1, <2>1, LoadedMapped DEF SlotInv, Loaded
  <2>3. vma[p][i][j] # va
    BY <2>2, PageAssumption
  <2>. QED BY <1>4, <2>2, <2>3 DEF UserVA
<1>11. MappedInv(p)'
  BY <1>0, <1>10 DEF SlotInv, MappedInv
<1>12. ContentInv(p)'
  <2> SUFFICES ASSUME NEW i \in 1 .. Len(vma[p]), NEW j \in 1 .. Len(vma[p][i])
               PROVE  mem'[pte'[p][vma[p][i][j]]] = <<app[p], vma[p][i][j]>>
    BY DEF ContentInv
  <2>1. mem[pte[p][vma[p][i][j]]] = <<app[p], vma[p][i][j]>>
    BY <1>0 DEF SlotInv, ContentInv, Loaded, Pending
  <2>2. MemStays(p)
    BY <1>4
  <2>3. /\ vma[p][i][j] \in UserVA /\ pte[p][vma[p][i][j]] \in Page
        /\ pte'[p][vma[p][i][j]] = pte[p][vma[p][i][j]]
    BY <1>10
  <2>. QED BY ONLY <2>1, <2>2, <2>3 DEF MemStays
<1>13. PartInv(p)'
  <2>1. \A j \in 1 .. k[p] : /\ areas[p][1][j] \in UserVA /\ areas[p][1][j] # va
                             /\ pte'[p][areas[p][1][j]] = pte[p][areas[p][1][j]]
    BY <1>0, <1>1, <1>4, PageAssumption DEF SlotInv, PartInv, UserVA
  <2>2. ~Within(vma[p], va)
    BY <1>10 DEF Within
  <2>3. \A j \in 1 .. k[p] + 1 : j \in 1 .. k[p] \/ (j = k[p] + 1 /\ areas[p][1][j] = va)
    BY <1>1
  <2>4. ASSUME NEW j \in 1 .. k[p] + 1
        PROVE  /\ pte'[p][areas[p][1][j]] \in Page \cup {NullPA}
               /\ ~Within(vma[p], areas[p][1][j])
               /\ \A m \in 1 .. k[p] + 1 : areas[p][1][m] = areas[p][1][j] => m = j
    <3>1. CASE j \in 1 .. k[p]
      BY <1>0, <2>1, <2>3, <3>1 DEF SlotInv, PartInv
    <3>2. CASE j = k[p] + 1 /\ areas[p][1][j] = va
      BY <1>4, <2>1, <2>2, <2>3, <3>2
    <3>. QED BY <2>3, <3>1, <3>2
  <2>. QED BY <1>5, <2>4 DEF PartInv
<1>14. SlotInv(p)'
  BY <1>9, <1>11, <1>12, <1>13 DEF SlotInv
<1>. QED BY <1>0, <1>4, <1>6, <1>7, <1>8, <1>14, TypePartsNext, WorkStep

\* One step of mm_mappages: a table, a page, or failure.
LEMMA Step_mm_mappages ==
    ASSUME IInv, NEW p \in Slot, mm_mappages(p)
    PROVE  IInv'
<1>0. ~panic /\ pc[p] = "map" /\ SlotInv(p) /\ WorkTypes /\ At(p, "map")
  BY TypeParts DEF IInv, mm_mappages, At
<1>1. /\ areas[p] \in Seq(Seq(UserVA)) /\ areas[p] # <<>> /\ Head(areas[p]) = areas[p][1]
      /\ areas[p][1] \in Seq(UserVA) /\ k[p] \in Nat
  <2>1. areas[p] \in Seq(Seq(UserVA)) /\ areas[p] # <<>> /\ k[p] \in Nat
    BY <1>0 DEF WorkTypes, SlotInv, ListInv
  <2>. QED BY <2>1, TailOf
<1>2. k[p] < Len(areas[p][1])
  BY <1>1 DEF mm_mappages, Area
<1>3. PICK va : va = areas[p][1][k[p] + 1]
  OBVIOUS
<1>4. va \in VA
  BY <1>1, <1>2, <1>3 DEF UserVA
<1>5. \/ walk(p, va, mappages_failed(p))
      \/ /\ Missing(p, va) = {}
         /\ IF pte[p][va] # NoPage
            THEN mappages_failed(p) /\ UNCHANGED <<freelist, mem, pte>>
            ELSE /\ Allocated(kallocpage)
                 /\ pte' = [pte EXCEPT ![p][va] = kallocpage]
                 /\ k' = [k EXCEPT ![p] = @ + 1]
                 /\ UNCHANGED <<pc, dropped, panic>>
         /\ UNCHANGED <<pgt, table, vma, trapframe, by, app, areas, leaked, mms, vmas>>
  BY <1>1, <1>3 DEF mm_mappages, Area
<1>6. CASE walk(p, va, mappages_failed(p)) /\ kallocpage # NullPA
  BY <1>4, <1>6, WalkTable DEF walk, objects
<1>7. CASE walk(p, va, mappages_failed(p)) /\ kallocpage = NullPA
  <2>1. mappages_failed(p) /\ UNCHANGED <<freelist, mem, mmVars, by, app, areas, leaked, mms, vmas>>
    BY <1>7, AllocNone DEF walk, mmVars
  <2>. QED BY <1>0, <2>1, MappagesFailed
<1>8. CASE Missing(p, va) = {} /\ pte[p][va] # NoPage
  <2>1. mappages_failed(p) /\ UNCHANGED <<freelist, mem, mmVars, by, app, areas, leaked, mms, vmas>>
    BY <1>5, <1>8 DEF walk, mmVars
  <2>. QED BY <1>0, <2>1, MappagesFailed
<1>9. CASE Missing(p, va) = {} /\ pte[p][va] = NoPage
  <2>1. /\ Allocated(kallocpage) /\ pte' = [pte EXCEPT ![p][va] = kallocpage]
        /\ k' = [k EXCEPT ![p] = @ + 1]
        /\ UNCHANGED <<pgt, table, vma, trapframe, pc, by, app, areas, leaked, objects, panic>>
    BY <1>5, <1>9 DEF walk, objects
  <2>. QED BY <1>0, <1>2, <1>3, <1>9, <2>1, MapPage
<1>. QED BY <1>5, <1>6, <1>7, <1>8, <1>9 DEF walk
-----------------------------------------------------------------------------
\* The area is linked.

\* What Distinct says of two areas of the list.
LEMMA DistinctAt ==
    ASSUME NEW l, Distinct(l), NEW x \in 1 .. Len(l), NEW y \in 1 .. Len(l)
    PROVE  \A m \in 1 .. Len(l[x]), j \in 1 .. Len(l[y]) : l[x][m] = l[y][j] => x = y /\ m = j
BY Zenon DEF Distinct

\* A list with one more area in front, whose addresses are new.
LEMMA PrependDistinct ==
    ASSUME NEW l \in Seq(Seq(UserVA)), NEW a \in Seq(UserVA), Distinct(l),
           NEW m, m = <<a>> \o l,
           \A j \in 1 .. Len(a) : ~Within(l, a[j]),
           \A h, j \in 1 .. Len(a) : a[h] = a[j] => h = j
    PROVE  Distinct(m)
<1>1. /\ Len(m) = Len(l) + 1 /\ m[1] = a /\ \A i \in 2 .. Len(l) + 1 : m[i] = l[i - 1]
      /\ Len(l) \in Nat
  BY Prepend
<1>2. \A i \in 1 .. Len(m) : i = 1 \/ (i \in 2 .. Len(l) + 1 /\ i - 1 \in 1 .. Len(l) /\ m[i] = l[i - 1])
  BY <1>1
<1> SUFFICES ASSUME NEW h \in 1 .. Len(m), NEW i \in 1 .. Len(m),
                    NEW n \in 1 .. Len(m[h]), NEW j \in 1 .. Len(m[i]), m[h][n] = m[i][j]
             PROVE  h = i /\ n = j
  BY DEF Distinct
<1>3. CASE h = 1 /\ i = 1
  BY <1>1, <1>3
<1>4. CASE h = 1 /\ i # 1
  <2>1. Within(l, m[i][j])
    BY <1>2, <1>4 DEF Within
  <2>. QED BY <1>1, <1>4, <2>1
<1>5. CASE h # 1 /\ i = 1
  <2>1. Within(l, m[h][n])
    BY <1>2, <1>5 DEF Within
  <2>. QED BY <1>1, <1>5, <2>1
<1>6. CASE h # 1 /\ i # 1
  <2>1. /\ h - 1 \in 1 .. Len(l) /\ i - 1 \in 1 .. Len(l) /\ m[h] = l[h - 1] /\ m[i] = l[i - 1]
    BY <1>2, <1>6
  <2>2. PICK x \in 1 .. Len(l), y \in 1 .. Len(l) : x = h - 1 /\ y = i - 1
    BY <2>1
  <2>3. /\ x \in 1 .. Len(l) /\ y \in 1 .. Len(l) /\ Distinct(l)
        /\ n \in 1 .. Len(l[x]) /\ j \in 1 .. Len(l[y]) /\ l[x][n] = l[y][j]
    BY <2>1, <2>2
  <2>4. \A c \in 1 .. Len(l[x]), d \in 1 .. Len(l[y]) : l[x][c] = l[y][d] => x = y /\ c = d
    BY <2>3, DistinctAt
  <2>5. x = y /\ n = j
    BY ONLY <2>3, <2>4
  <2>. QED BY <2>2, <2>5
<1>. QED BY <1>3, <1>4, <1>5, <1>6

\* The mapped area joins the list, before it is filled.
LEMMA Step_link_area ==
    ASSUME IInv, NEW p \in Slot, link_area(p)
    PROVE  IInv'
<1>0. ~panic /\ pc[p] = "map" /\ SlotInv(p) /\ ByInv(p) /\ WorkTypes
  BY TypeParts DEF IInv, link_area, At
<1>1. /\ areas[p] \in Seq(Seq(UserVA)) /\ areas[p] # <<>> /\ k[p] \in Nat
      /\ vma[p] \in Seq(Seq(UserVA))
  BY <1>0 DEF WorkTypes, SlotInv, ListInv
<1>2. PICK a \in Seq(UserVA) : a = areas[p][1] /\ a = Area(p)
  BY <1>1, TailOf DEF Area
<1>3. PICK l \in Seq(Seq(UserVA)) : l = <<a>> \o vma[p]
  BY <1>1, Prepend
<1>4. /\ Len(l) = Len(vma[p]) + 1 /\ l[1] = a /\ Len(vma[p]) \in Nat /\ l # <<>>
      /\ \A i \in 2 .. Len(l) : l[i] = vma[p][i - 1] /\ i - 1 \in 1 .. Len(vma[p])
      /\ \A i \in 1 .. Len(l) : i = 1 \/ i \in 2 .. Len(l)
  BY <1>1, <1>3, Prepend
<1>5. /\ k[p] = Len(a) /\ vma' = [vma EXCEPT ![p] = l] /\ pc' = [pc EXCEPT ![p] = "fill"]
      /\ UNCHANGED <<freelist, mem, pgt, table, pte, trapframe, by, app, areas, k, leaked, objects, panic>>
  BY <1>2, <1>3 DEF link_area, Goto
<1>6. /\ vma'[p] = l /\ pc'[p] = "fill"
      /\ \A q \in Slot : q # p => vma'[q] = vma[q] /\ pc'[q] = pc[q]
  BY <1>0, <1>5 DEF WorkTypes
<1>7. WorkTypes'
  BY <1>0, <1>5 DEF WorkTypes, SlotPC
<1>8. PageTypes' /\ ObjectTypes' /\ PanicType' /\ HeldOnce' /\ \A q \in Slot : MemStays(q)
  BY <1>5, SameTypes, NoPages DEF IInv
<1>9. Work(p)
  BY <1>0, <1>5, <1>6, <1>8 DEF Work, SlotStays
<1>10. ByNext(p)
  BY <1>0, <1>5, <1>6 DEF ByNext, ByInv, Building
<1>11. SetupInv(p)' /\ ListInv(p)' /\ PartInv(p)'
  <2>1. SetupInv(p)'
    BY <1>0, <1>5, <1>6 DEF SlotInv, SetupInv, NoRoot, NoTrapframe
  <2>2. ListInv(p)'
    BY <1>1, <1>2, <1>4, <1>5, <1>6 DEF ListInv, NoAreas, NoRoot, Freeing
  <2>3. PartInv(p)'
    BY <1>6 DEF PartInv
  <2>. QED BY <2>1, <2>2, <2>3
<1>12. ASSUME NEW j \in 1 .. Len(a)
       PROVE  /\ pte[p][a[j]] \in Page \cup {NullPA} /\ ~Within(vma[p], a[j])
              /\ \A m \in 1 .. Len(a) : a[m] = a[j] => m = j
  BY <1>0, <1>2, <1>5 DEF SlotInv, PartInv
<1>13. Distinct(l)
  <2>1. Distinct(vma[p])
    BY <1>0 DEF SlotInv, MappedInv
  <2>2. PICK v \in Seq(Seq(UserVA)) : v = vma[p]
    BY <1>1
  <2>3. /\ Distinct(v) /\ l = <<a>> \o v
        /\ \A j \in 1 .. Len(a) : ~Within(v, a[j])
        /\ \A h, j \in 1 .. Len(a) : a[h] = a[j] => h = j
    BY <1>3, <1>12, <2>1, <2>2
  <2>. QED BY ONLY <2>3, PrependDistinct
<1>14. ASSUME NEW i \in 2 .. Len(l), NEW j \in 1 .. Len(l[i])
       PROVE  pte[p][l[i][j]] \in Page /\ mem[pte[p][l[i][j]]] = <<app[p], l[i][j]>>
  <2>1. i - 1 \in 1 .. Len(vma[p]) /\ l[i] = vma[p][i - 1] /\ ~Pending(p, i - 1)
    BY <1>0, <1>4 DEF Pending
  <2>2. pte[p][vma[p][i - 1][j]] \in Page
    BY <1>0, <1>1, <2>1, LoadedMapped DEF SlotInv, Loaded
  <2>3. mem[pte[p][vma[p][i - 1][j]]] = <<app[p], vma[p][i - 1][j]>>
    BY <1>0, <2>1 DEF SlotInv, ContentInv, Loaded
  <2>. QED BY <2>1, <2>2, <2>3
<1>15. MappedInv(p)'
  <2>1. ASSUME NEW i \in 1 .. Len(l), NEW j \in 1 .. Len(l[i])
        PROVE  pte[p][l[i][j]] \in Page \/ (i = 1 /\ pte[p][l[i][j]] = NullPA)
    <3>1. CASE i = 1
      BY <1>4, <1>12, <3>1
    <3>2. CASE i # 1
      BY <1>4, <1>14, <3>2
    <3>. QED BY <3>1, <3>2
  <2>2. vma'[p] = l /\ pc'[p] = "fill" /\ pte' = pte
    BY <1>5, <1>6
  <2>. QED BY ONLY <1>13, <2>1, <2>2 DEF MappedInv, Pending
<1>16. ContentInv(p)'
  <2>1. ASSUME NEW i \in 1 .. Len(l), NEW j \in 1 .. Len(l[i])
        PROVE  i = 1 \/ mem[pte[p][l[i][j]]] = <<app[p], l[i][j]>>
    BY <1>4, <1>14
  <2>2. vma'[p] = l /\ pc'[p] = "fill" /\ pte' = pte /\ mem' = mem /\ app' = app
    BY <1>5, <1>6
  <2>. QED BY ONLY <2>1, <2>2 DEF ContentInv, Pending
<1>17. SlotInv(p)'
  BY <1>11, <1>15, <1>16 DEF SlotInv
<1>. QED BY <1>0, <1>7, <1>8, <1>9, <1>10, <1>17, TypePartsNext, WorkStep
-----------------------------------------------------------------------------
\* The area is filled.

\* Two entries with the same page are one entry.
LEMMA LeafOnce ==
    ASSUME HeldOnce, NEW p \in Slot, NEW q \in Slot, NEW v \in UserVA, NEW w \in UserVA,
           pte[p][v] \in Page, pte[p][v] = pte[q][w]
    PROVE  p = q /\ v = w
<1>1. /\ <<"leaf", v>> \in Place /\ PageAt(p, <<"leaf", v>>) = pte[p][v]
      /\ <<"leaf", w>> \in Place /\ PageAt(q, <<"leaf", w>>) = pte[q][w]
  BY Leaf
<1>2. p = q /\ <<"leaf", v>> = <<"leaf", w>>
  BY <1>1 DEF HeldOnce
<1>. QED BY <1>2

\* What is copied into a page is the program's.
Source(p, va) == IF by[p] = NoSlot THEN <<app[p], va>> ELSE mem[pte[by[p]][va]]

\* In fork it comes from the parent, which is loaded.
LEMMA SourceIs ==
    ASSUME IInv, ~panic, NEW p \in Slot, pc[p] = "fill", NEW j \in 1 .. Len(areas[p][1])
    PROVE  Source(p, areas[p][1][j]) = <<app[p], areas[p][1][j]>>
<1>1. CASE by[p] = NoSlot
  BY <1>1 DEF Source
<1>2. CASE by[p] # NoSlot
  <2>1. PICK q \in Slot : q = by[p]
    BY <1>2 DEF IInv, TypeOK
  <2>2. /\ pc[q] = "fork" /\ app[p] = app[q] /\ SlotInv(q) /\ vma[q] \in Seq(Seq(UserVA))
        /\ areas[p] # <<>> /\ areas[p] \in Seq(Seq(UserVA))
        /\ \A i \in 1 .. Len(areas[p]) : \A m \in 1 .. Len(areas[p][i]) : Within(vma[q], areas[p][i][m])
    BY <1>2, <2>1 DEF IInv, TypeOK, ByInv, SlotInv, ListInv
  <2>3. 1 \in 1 .. Len(areas[p])
    BY <2>2, TailOf
  <2>4. PICK i \in 1 .. Len(vma[q]) : \E m \in 1 .. Len(vma[q][i]) : vma[q][i][m] = areas[p][1][j]
    BY <2>2, <2>3 DEF Within
  <2>5. PICK m \in 1 .. Len(vma[q][i]) : vma[q][i][m] = areas[p][1][j]
    BY <2>4
  <2>6. mem[pte[q][vma[q][i][m]]] = <<app[q], vma[q][i][m]>>
    BY <2>2 DEF SlotInv, ContentInv, Loaded, Pending
  <2>. QED BY <1>2, <2>1, <2>2, <2>5, <2>6 DEF Source
<1>. QED BY <1>1, <1>2

\* The contents after the area has been filled.
Filled(p, new) ==
    mem' = [g \in Page |-> IF \E va \in new : pte[p][va] = g
                           THEN Source(p, CHOOSE va \in new : pte[p][va] = g) ELSE mem[g]]

\* The pages of the area hold the program and no other page changes.
LEMMA FilledMem ==
    ASSUME IInv, NEW p \in Slot, NEW new \in SUBSET UserVA, Filled(p, new),
           \A va \in new : pte[p][va] \in Page,
           \A va \in new : Source(p, va) = <<app[p], va>>
    PROVE  /\ mem' \in [Page -> {Junk} \cup (App \X VA)]
           /\ \A va \in new : mem'[pte[p][va]] = <<app[p], va>>
           /\ \A q \in Slot, v \in UserVA :
                pte[q][v] \in Page /\ (q # p \/ v \notin new) => mem'[pte[q][v]] = mem[pte[q][v]]
<1>0. HeldOnce /\ app[p] \in App /\ mem \in [Page -> {Junk} \cup (App \X VA)]
  BY DEF IInv, TypeOK
<1>1. ASSUME NEW g \in Page, NEW va \in new, pte[p][va] = g
      PROVE  mem'[g] = <<app[p], va>>
  <2>1. (CHOOSE v \in new : pte[p][v] = g) \in new /\ pte[p][CHOOSE v \in new : pte[p][v] = g] = g
    BY <1>1
  <2>2. (CHOOSE v \in new : pte[p][v] = g) = va
    BY <1>0, <1>1, <2>1, LeafOnce
  <2>3. mem'[g] = Source(p, CHOOSE v \in new : pte[p][v] = g)
    BY <1>1 DEF Filled
  <2>. QED BY <2>2, <2>3
<1>2. ASSUME NEW g \in Page, \A va \in new : pte[p][va] # g
      PROVE  mem'[g] = mem[g]
  BY <1>2 DEF Filled
<1>3. DOMAIN mem' = Page
  BY DEF Filled
<1>4. ASSUME NEW g \in Page PROVE mem'[g] \in {Junk} \cup (App \X VA)
  <2>1. CASE \E va \in new : pte[p][va] = g
    BY <1>0, <1>1, <2>1 DEF UserVA
  <2>2. CASE \A va \in new : pte[p][va] # g
    BY <1>0, <1>2, <2>2
  <2>. QED BY <2>1, <2>2
<1>5. mem' \in [Page -> {Junk} \cup (App \X VA)]
  <2>1. mem' = [g \in Page |-> mem'[g]]
    BY DEF Filled
  <2>. QED BY <1>4, <2>1
<1>6. \A va \in new : mem'[pte[p][va]] = <<app[p], va>>
  BY <1>1
<1>7. ASSUME NEW q \in Slot, NEW v \in UserVA, pte[q][v] \in Page, q # p \/ v \notin new
      PROVE  mem'[pte[q][v]] = mem[pte[q][v]]
  <2>1. \A va \in new : pte[p][va] # pte[q][v]
    BY <1>0, <1>7, LeafOnce
  <2>. QED BY <1>2, <1>7, <2>1
<1>. QED BY <1>5, <1>6, <1>7

\* mm_copy and load_user_elf write the pages of the area.
LEMMA Step_fill ==
    ASSUME IInv, NEW p \in Slot, fill(p)
    PROVE  IInv'
<1>0. ~panic /\ pc[p] = "fill" /\ SlotInv(p) /\ ByInv(p) /\ WorkTypes
  BY TypeParts DEF IInv, fill, At
<1>1. /\ areas[p] \in Seq(Seq(UserVA)) /\ areas[p] # <<>> /\ k[p] \in Nat
      /\ vma[p] \in Seq(Seq(UserVA)) /\ vma[p] # <<>> /\ vma[p][1] = areas[p][1]
  BY <1>0 DEF WorkTypes, SlotInv, ListInv
<1>2. PICK a \in Seq(UserVA) : a = areas[p][1] /\ a = Area(p) /\ a = vma[p][1]
  BY <1>1, TailOf DEF Area
<1>3. PICK l \in Seq(Seq(UserVA)) : l = Tail(areas[p])
  BY <1>1, TailOf
<1> DEFINE new == {va \in VA : \E j \in 1 .. Len(Area(p)) : Area(p)[j] = va}
<1>4. (\A va \in new : pte[p][va] # NullPA) => Filled(p, new) /\ UNCHANGED panic
  BY DEF fill, Filled, Source
<1>5. (\E va \in new : pte[p][va] = NullPA) => panic' /\ mem' = mem
  BY DEF fill, Panic
<1>11. new \subseteq UserVA /\ \A va : va \in new <=> \E j \in 1 .. Len(a) : a[j] = va
  <2>1. \A j \in 1 .. Len(a) : a[j] \in UserVA /\ a[j] \in VA
    BY <1>2 DEF UserVA
  <2>2. new = {va \in VA : \E j \in 1 .. Len(a) : a[j] = va}
    BY <1>2
  <2>. QED BY <2>1, <2>2
<1> HIDE DEF new
<1>6. /\ areas' = [areas EXCEPT ![p] = l] /\ pc' = [pc EXCEPT ![p] = "vma"] /\ k' = [k EXCEPT ![p] = 0]
      /\ UNCHANGED <<freelist, pgt, table, pte, vma, trapframe, by, app, leaked, objects>>
  BY <1>0, <1>1, <1>3 DEF fill, Goto, mmVars, WorkTypes
<1>7. /\ areas'[p] = l /\ pc'[p] = "vma" /\ k'[p] = 0
      /\ \A q \in Slot : q # p => areas'[q] = areas[q] /\ pc'[q] = pc[q] /\ k'[q] = k[q]
  BY <1>0, <1>6 DEF WorkTypes
<1>8. WorkTypes' /\ ObjectTypes' /\ PanicType'
  <2>1. WorkTypes'
    BY <1>0, <1>6 DEF WorkTypes, SlotPC
  <2>2. ObjectTypes' /\ PanicType'
    BY <1>6, SameTypes DEF IInv, fill
  <2>. QED BY <2>1, <2>2
<1>9. CASE \E va \in new : pte[p][va] = NullPA
  <2>1. panic' /\ mem' = mem
    BY <1>5, <1>9
  <2>2. PageTypes' /\ HeldOnce'
    BY <1>6, <2>1, SameTypes, NoPages DEF IInv
  <2>. QED BY <1>0, <1>8, <2>1, <2>2, TypePartsNext, WorkStep
<1>10. CASE \A va \in new : pte[p][va] # NullPA
  <2>1. Filled(p, new)
    BY <1>4, <1>10
  <2>2. 1 \in 1 .. Len(vma[p]) /\ \A j \in 1 .. Len(a) : pte[p][a[j]] \in Page \cup {NullPA}
    <3>1. 1 \in 1 .. Len(vma[p])
      BY <1>1, TailOf
    <3>2. ASSUME NEW j \in 1 .. Len(a) PROVE pte[p][a[j]] \in Page \cup {NullPA}
      <4>1. ~Gone(p, 1, j) /\ j \in 1 .. Len(vma[p][1]) /\ vma[p][1][j] = a[j]
        BY <1>0, <1>2 DEF Gone, Freeing
      <4>. QED BY <1>0, <3>1, <4>1 DEF SlotInv, MappedInv
    <3>. QED BY <3>1, <3>2
  <2>3. \A va \in new : pte[p][va] \in Page
    BY <1>11, <1>10, <2>2
  <2>4. \A va \in new : Source(p, va) = <<app[p], va>>
    <3>1. \A j \in 1 .. Len(a) : Source(p, a[j]) = <<app[p], a[j]>>
      BY <1>0, <1>2, SourceIs
    <3>. QED BY <1>11, <3>1
  <2>5. /\ mem' \in [Page -> {Junk} \cup (App \X VA)]
        /\ \A va \in new : mem'[pte[p][va]] = <<app[p], va>>
        /\ \A q \in Slot, v \in UserVA :
             pte[q][v] \in Page /\ (q # p \/ v \notin new) => mem'[pte[q][v]] = mem[pte[q][v]]
    BY <1>11, <2>1, <2>3, <2>4, FilledMem
  <2>6. PageTypes'
    BY <1>6, <2>5, TypeParts DEF IInv, PageTypes
  <2>7. HeldOnce'
    <3>1. \A q \in Slot, y \in Place : Same(q, y)
      BY <1>6, SameProcess
    <3>. QED BY <1>6, <3>1, Keep DEF IInv, TypeOK
  <2>8. \A q \in Slot : q # p => MemStays(q)
    BY <2>5 DEF MemStays
  <2>9. Work(p)
    BY <1>0, <1>6, <1>7, <2>8 DEF Work, SlotStays
  <2>10. ByNext(p)
    <3>1. \A i \in 1 .. Len(l) : l[i] = areas[p][i + 1] /\ i + 1 \in 1 .. Len(areas[p])
      BY <1>1, <1>3, TailOf
    <3>2. by[p] # NoSlot => \A i \in 1 .. Len(l) : \A j \in 1 .. Len(l[i]) : Within(vma[by[p]], l[i][j])
      BY <1>0, <3>1 DEF ByInv
    <3>. QED BY <1>0, <1>6, <1>7, <3>2 DEF ByNext, Building
  <2>11. SetupInv(p)' /\ ListInv(p)' /\ PartInv(p)'
    <3>1. SetupInv(p)'
      BY <1>0, <1>6, <1>7 DEF SlotInv, SetupInv, NoRoot, NoTrapframe
    <3>2. ListInv(p)' /\ PartInv(p)'
      BY <1>7 DEF ListInv, PartInv, NoAreas, NoRoot, Freeing
    <3>. QED BY <3>1, <3>2
  <2>12. ASSUME NEW i \in 1 .. Len(vma[p]), NEW j \in 1 .. Len(vma[p][i])
         PROVE  pte[p][vma[p][i][j]] \in Page /\ mem'[pte[p][vma[p][i][j]]] = <<app[p], vma[p][i][j]>>
    <3>1. CASE i = 1
      <4>1. vma[p][i][j] \in new
        BY <1>2, <1>11, <3>1
      <4>. QED BY <2>3, <2>5, <4>1
    <3>2. CASE i # 1
      <4>1. ~Pending(p, i)
        BY <3>2 DEF Pending
      <4>2. vma[p][i][j] \in UserVA /\ pte[p][vma[p][i][j]] \in Page
        BY <1>0, <1>1, <4>1, LoadedMapped DEF SlotInv, Loaded
      <4>3. mem[pte[p][vma[p][i][j]]] = <<app[p], vma[p][i][j]>>
        BY <1>0, <4>1 DEF SlotInv, ContentInv, Loaded
      <4>4. \A m \in 1 .. Len(vma[p][1]) : vma[p][1][m] # vma[p][i][j]
        BY <1>0, <2>2, <3>2 DEF SlotInv, MappedInv, Distinct
      <4>5. vma[p][i][j] \notin new
        BY <1>2, <1>11, <4>4
      <4>. QED BY <2>5, <4>2, <4>3, <4>5
    <3>. QED BY <3>1, <3>2
  <2>13. MappedInv(p)' /\ ContentInv(p)'
    <3>1. pte' = pte /\ vma' = vma /\ app' = app /\ Distinct(vma[p])
      BY <1>0, <1>6 DEF SlotInv, MappedInv
    <3>. QED BY ONLY <2>12, <3>1 DEF MappedInv, ContentInv
  <2>14. SlotInv(p)'
    BY <2>11, <2>13 DEF SlotInv
  <2>. QED BY <1>0, <1>8, <2>6, <2>7, <2>9, <2>10, <2>14, TypePartsNext, WorkStep
<1>. QED BY <1>9, <1>10
-----------------------------------------------------------------------------
\* mm_free_pages.

\* The entry of a page that is given back.
LeafFree(p, va) ==
    /\ pte[p][va] \in Page
    /\ kfreepages({pte[p][va]})
    /\ pte' = [pte EXCEPT ![p][va] = NoPage]
    /\ UNCHANGED <<pgt, table, trapframe, leaked>>

\* It leaves everything else alone.
LEMMA FreeLeaf ==
    ASSUME IInv, NEW p \in Slot, NEW va \in UserVA, LeafFree(p, va)
    PROVE  /\ PageTypes' /\ HeldOnce' /\ \A q \in Slot : q # p => MemStays(q)
           /\ pte'[p][va] = NoPage
           /\ \A q \in Slot, v \in VA : q # p \/ v # va => pte'[q][v] = pte[q][v]
           /\ \A q \in Slot : q # p => pte'[q] = pte[q]
<1>0. /\ PageTypes /\ va \in VA /\ va # TRAPFRAME
      /\ pte[p][va] \in Page /\ kfreepages({pte[p][va]})
      /\ pte' = [pte EXCEPT ![p][va] = NoPage]
      /\ UNCHANGED <<pgt, table, trapframe, leaked>>
  BY TypeParts DEF IInv, UserVA, LeafFree
<1>1. /\ pte' \in [Slot -> [VA -> Page \cup {NoPage, TrampolinePage, NullPA}]]
      /\ pte'[p][va] = NoPage
      /\ \A q \in Slot, v \in VA : q # p \/ v # va => pte'[q][v] = pte[q][v]
      /\ \A q \in Slot : q # p => pte'[q] = pte[q]
  <2>1. pte \in [Slot -> [VA -> Page \cup {NoPage, TrampolinePage, NullPA}]]
    BY <1>0 DEF PageTypes
  <2>. QED BY <1>0, <2>1
<1>2. /\ <<"leaf", va>> \in Place /\ PageAt(p, <<"leaf", va>>) = pte[p][va]
      /\ PageAt(p, <<"leaf", va>>)' = NoPage
  BY <1>1, Leaf, ValuesNext
<1>3. /\ mem' \in [Page -> {Junk} \cup (App \X VA)] /\ freelist' \subseteq Page
      /\ \A q \in Slot, v \in UserVA :
           pte[q][v] \in Page /\ q # p => mem'[pte[q][v]] = mem[pte[q][v]]
  BY <1>0, <1>2, FreedMem DEF IInv
<1>4. \A q \in Slot : q # p => MemStays(q)
  BY <1>3 DEF MemStays
<1>5. PageTypes'
  BY <1>0, <1>1, <1>3 DEF PageTypes
<1>6. OnlyAt(p, <<"leaf", va>>)
  BY <1>0, <1>1 DEF OnlyAt
<1>7. HeldOnce'
  <2>1. \A q \in Slot, y \in Place : q # p \/ y # <<"leaf", va>> => Same(q, y)
    BY <1>6, SameBut
  <2>2. /\ HeldOnce /\ freelist \subseteq Page /\ leaked \subseteq Page /\ leaked' = leaked
        /\ freelist' = freelist \cup {PageAt(p, <<"leaf", va>>)}
        /\ PageAt(p, <<"leaf", va>>) \in Page /\ PageAt(p, <<"leaf", va>>)' \notin Page
    BY <1>0, <1>2, PageAssumption DEF IInv, PageTypes, kfreepages
  <2>. QED BY <1>2, <2>1, <2>2, Give
<1>. QED BY <1>1, <1>4, <1>5, <1>7

\* One page of the first area.
LEMMA Step_freevma ==
    ASSUME IInv, NEW p \in Slot, freevma(p)
    PROVE  IInv'
<1>0. ~panic /\ pc[p] \in Freeing /\ SlotInv(p) /\ ByInv(p) /\ WorkTypes /\ k[p] \in Nat
  BY TypeParts DEF IInv, freevma, Unmapping, At, Freeing, WorkTypes
<1>1. /\ vma[p] \in Seq(Seq(UserVA)) /\ vma[p] # <<>> /\ vma[p][1] \in Seq(UserVA)
      /\ Head(vma[p]) = vma[p][1] /\ k[p] < Len(vma[p][1]) /\ 1 \in 1 .. Len(vma[p])
  <2>1. vma[p] \in Seq(Seq(UserVA)) /\ vma[p] # <<>>
    BY <1>0 DEF WorkTypes, freevma
  <2>2. Head(vma[p]) = vma[p][1] /\ vma[p][1] \in Seq(UserVA) /\ 1 \in 1 .. Len(vma[p])
    BY <2>1, TailOf
  <2>. QED BY <2>1, <2>2 DEF freevma
<1>2. k[p] + 1 \in 1 .. Len(vma[p][1])
  BY <1>0, <1>1
<1>3. PICK va \in UserVA : va = vma[p][1][k[p] + 1]
  BY <1>1, <1>2
<1>4. pte[p][va] \in Page
  <2>1. ~Gone(p, 1, k[p] + 1) /\ ~Pending(p, 1)
    BY <1>0 DEF Gone, Pending, Freeing
  <2>. QED BY <1>0, <1>1, <1>2, <1>3, <2>1 DEF SlotInv, MappedInv
<1>5. /\ LeafFree(p, va) /\ k' = [k EXCEPT ![p] = @ + 1]
      /\ UNCHANGED <<pgt, vma, trapframe, pc, by, app, areas, objects, panic>>
  BY <1>1, <1>3, <1>4 DEF freevma, LeafFree
<1>6. /\ PageTypes' /\ HeldOnce' /\ \A q \in Slot : q # p => MemStays(q)
      /\ pte'[p][va] = NoPage
      /\ \A q \in Slot, v \in VA : q # p \/ v # va => pte'[q][v] = pte[q][v]
      /\ \A q \in Slot : q # p => pte'[q] = pte[q]
  BY <1>5, FreeLeaf
<1>7. k'[p] = k[p] + 1 /\ \A q \in Slot : q # p => k'[q] = k[q]
  BY <1>0, <1>5 DEF WorkTypes
<1>8. WorkTypes' /\ ObjectTypes' /\ PanicType'
  BY <1>0, <1>5, SameTypes DEF WorkTypes, IInv
<1>9. Work(p)
  BY <1>0, <1>5, <1>6, <1>7 DEF Work, SlotStays, Freeing
<1>10. ByNext(p)
  BY <1>0, <1>5 DEF ByNext, ByInv, Building, Freeing
<1>11. SetupInv(p)' /\ ListInv(p)' /\ PartInv(p)' /\ ContentInv(p)'
  <2>1. TRAMPOLINE # va /\ TRAPFRAME # va /\ TRAMPOLINE \in VA /\ TRAPFRAME \in VA
    BY <1>3, LayoutAssumption DEF UserVA
  <2>2. SetupInv(p)'
    BY <1>0, <1>5, <1>6, <2>1 DEF SlotInv, SetupInv
  <2>3. ListInv(p)'
    BY <1>0, <1>1, <1>2, <1>5, <1>7 DEF ListInv, NoAreas, NoRoot, Freeing
  <2>4. PartInv(p)' /\ ContentInv(p)'
    BY <1>0, <1>5 DEF PartInv, ContentInv, Loaded, Freeing
  <2>. QED BY <2>2, <2>3, <2>4
<1>12. MappedInv(p)'
  <2>1. ASSUME NEW i \in 1 .. Len(vma[p]), NEW j \in 1 .. Len(vma[p][i]), i # 1 \/ ~(j <= k[p] + 1)
        PROVE  pte'[p][vma[p][i][j]] \in Page
    <3>1. ~Gone(p, i, j) /\ ~Pending(p, i)
      BY <1>0, <2>1 DEF Gone, Pending, Freeing
    <3>2. pte[p][vma[p][i][j]] \in Page
      BY <1>0, <3>1 DEF SlotInv, MappedInv
    <3>3. vma[p][i][j] # va
      BY <1>0, <1>1, <1>2, <1>3, <2>1 DEF SlotInv, MappedInv, Distinct
    <3>4. vma[p][i][j] \in VA
      BY <1>1, ListedVA DEF UserVA
    <3>. QED BY <1>6, <3>2, <3>3, <3>4
  <2>2. Distinct(vma[p])
    BY <1>0 DEF SlotInv, MappedInv
  <2>3. pc'[p] \in Freeing /\ k'[p] = k[p] + 1 /\ vma' = vma
    BY <1>0, <1>5, <1>7
  <2>. QED BY ONLY <2>1, <2>2, <2>3 DEF MappedInv, Gone
<1>13. SlotInv(p)'
  BY <1>11, <1>12 DEF SlotInv
<1>. QED BY <1>0, <1>5, <1>6, <1>8, <1>9, <1>10, <1>13, TypePartsNext, WorkStep

\* The first area is unmapped and its object given back.
LEMMA Step_unlink_area ==
    ASSUME IInv, NEW p \in Slot, unlink_area(p)
    PROVE  IInv'
<1>0. ~panic /\ pc[p] \in Freeing /\ SlotInv(p) /\ ByInv(p) /\ WorkTypes /\ ObjectTypes
  BY TypeParts DEF IInv, unlink_area, Unmapping, At, Freeing
<1>1. vma[p] \in Seq(Seq(UserVA)) /\ vma[p] # <<>>
  BY <1>0 DEF WorkTypes, unlink_area
<1>2. PICK l \in Seq(Seq(UserVA)) : l = Tail(vma[p])
  BY <1>1, TailOf
<1>3. \A i \in 1 .. Len(l) : l[i] = vma[p][i + 1] /\ i + 1 \in 1 .. Len(vma[p]) /\ i + 1 # 1
  BY <1>1, <1>2, TailOf
<1>4. /\ vma' = [vma EXCEPT ![p] = l] /\ k' = [k EXCEPT ![p] = 0] /\ vmas' = vmas - 1
      /\ UNCHANGED <<freelist, mem, pgt, table, pte, trapframe, pc, by, app, areas, leaked, mms, dropped, panic>>
  BY <1>0, <1>2 DEF unlink_area, kfree_vma, WorkTypes
<1>5. vma'[p] = l /\ k'[p] = 0 /\ \A q \in Slot : q # p => vma'[q] = vma[q] /\ k'[q] = k[q]
  BY <1>0, <1>4 DEF WorkTypes
<1>6. PageTypes' /\ PanicType' /\ HeldOnce' /\ \A q \in Slot : MemStays(q)
  BY <1>4, SameTypes, NoPages DEF IInv
<1>7. WorkTypes' /\ ObjectTypes'
  <2>1. WorkTypes'
    BY <1>0, <1>4 DEF WorkTypes
  <2>2. ObjectTypes'
    BY <1>0, <1>4 DEF ObjectTypes
  <2>. QED BY <2>1, <2>2
<1>8. Work(p)
  BY <1>0, <1>4, <1>5, <1>6 DEF Work, SlotStays, Freeing
<1>9. ByNext(p)
  BY <1>0, <1>4 DEF ByNext, ByInv, Building, Freeing
<1>10. SetupInv(p)' /\ ListInv(p)' /\ PartInv(p)' /\ ContentInv(p)'
  BY <1>0, <1>4, <1>5
     DEF SlotInv, SetupInv, ListInv, PartInv, ContentInv, NoAreas, NoRoot, Freeing, Loaded
<1>11. MappedInv(p)'
  <2>1. ASSUME NEW i \in 1 .. Len(l), NEW j \in 1 .. Len(l[i]) PROVE pte[p][l[i][j]] \in Page
    <3>1. ~Gone(p, i + 1, j) /\ ~Pending(p, i + 1)
      BY <1>3 DEF Gone, Pending
    <3>. QED BY <1>0, <1>3, <3>1 DEF SlotInv, MappedInv
  <2>2. Distinct(l)
    <3> SUFFICES ASSUME NEW h \in 1 .. Len(l), NEW i \in 1 .. Len(l),
                        NEW m \in 1 .. Len(l[h]), NEW j \in 1 .. Len(l[i]), l[h][m] = l[i][j]
                 PROVE  h = i /\ m = j
      BY DEF Distinct
    <3>1. PICK x \in 1 .. Len(vma[p]), y \in 1 .. Len(vma[p]) : x = h + 1 /\ y = i + 1
      BY <1>3
    <3>2. Distinct(vma[p]) /\ l[h] = vma[p][x] /\ l[i] = vma[p][y]
      BY <1>0, <1>3, <3>1 DEF SlotInv, MappedInv
    <3>3. /\ x \in 1 .. Len(vma[p]) /\ y \in 1 .. Len(vma[p]) /\ Distinct(vma[p])
          /\ m \in 1 .. Len(vma[p][x]) /\ j \in 1 .. Len(vma[p][y]) /\ vma[p][x][m] = vma[p][y][j]
      BY <3>1, <3>2
    <3>4. \A c \in 1 .. Len(vma[p][x]), d \in 1 .. Len(vma[p][y]) :
            vma[p][x][c] = vma[p][y][d] => x = y /\ c = d
      BY <3>3, DistinctAt
    <3>5. x = y /\ m = j
      BY ONLY <3>3, <3>4
    <3>. QED BY <3>1, <3>5
  <2>3. vma'[p] = l /\ pte' = pte
    BY <1>4, <1>5
  <2>. QED BY ONLY <2>1, <2>2, <2>3 DEF MappedInv
<1>12. SlotInv(p)'
  BY <1>10, <1>11 DEF SlotInv
<1>. QED BY <1>0, <1>4, <1>6, <1>7, <1>8, <1>9, <1>12, TypePartsNext, WorkStep

\* mm_copy has failed: panic.
LEMMA Step_fork_failed ==
    ASSUME IInv, NEW p \in Slot, fork_failed(p)
    PROVE  IInv'
<1>1. TypeOK' /\ HeldOnce'
  BY SameTypes, NoPages, TypePartsNext DEF IInv, fork_failed, mmVars, workVars
<1>. QED BY <1>1, WorkStep DEF fork_failed, Panic, At

\* exec has unmapped the old program.
LEMMA Step_exec_load ==
    ASSUME IInv, NEW p \in Slot, exec_load(p)
    PROVE  IInv'
<1>0. ~panic /\ pc[p] = "exec" /\ SlotInv(p) /\ ByInv(p) /\ WorkTypes
  BY TypeParts DEF IInv, exec_load, At
<1>1. Move(p, "areas") /\ app' = app /\ UNCHANGED <<objects, panic>> /\ vma[p] = <<>>
  BY DEF exec_load, Move, Goto
<1>2. Work(p) /\ pc'[p] = "areas" /\ HeldOnce'
  BY <1>0, <1>1, MoveWork DEF SlotPC
<1>3. PageTypes' /\ ObjectTypes' /\ PanicType'
  BY <1>1, SameTypes DEF IInv, Move, mmVars
<1>4. WorkTypes'
  BY <1>0, <1>1 DEF WorkTypes, Move, mmVars, SlotPC
<1>5. SlotInv(p)'
  <2>1. SetupInv(p)'
    BY <1>0, <1>1, <1>2 DEF SlotInv, SetupInv, NoRoot, NoTrapframe, Move, mmVars
  <2>2. vma'[p] = <<>> /\ k'[p] = 0
    BY <1>0, <1>1 DEF SlotInv, ListInv, Freeing, Move, mmVars
  <2>. QED BY <1>2, <2>1, <2>2, EmptyList DEF SlotInv
<1>6. ByNext(p)
  BY <1>0, <1>2 DEF ByNext, ByInv, Building
<1>. QED BY <1>0, <1>2, <1>3, <1>4, <1>5, <1>6, TypePartsNext, WorkStep
-----------------------------------------------------------------------------
\* System calls.

\* A process that runs works for nobody, and its areas are complete.
LEMMA Running ==
    ASSUME IInv, NEW p \in Slot, ~panic, pc[p] \in {"run", "fork", "wait", "zombie"}
    PROVE  /\ by[p] = NoSlot /\ k[p] = 0 /\ SlotInv(p) /\ ByInv(p)
           /\ \A i \in 1 .. Len(vma[p]) : \A j \in 1 .. Len(vma[p][i]) : pte[p][vma[p][i][j]] \in Page
<1>1. SlotInv(p) /\ ByInv(p)
  BY DEF IInv
<1>2. by[p] = NoSlot
  BY <1>1 DEF ByInv, Building
<1>3. k[p] = 0
  BY <1>1 DEF SlotInv, ListInv, Freeing
<1>4. \A i \in 1 .. Len(vma[p]) : \A j \in 1 .. Len(vma[p][i]) : pte[p][vma[p][i][j]] \in Page
  BY <1>1 DEF SlotInv, MappedInv, Gone, Pending, Freeing
<1>. QED BY <1>1, <1>2, <1>3, <1>4

\* exit, and exec before it unmaps anything.
LEMMA LeaveUser ==
    ASSUME IInv, NEW p \in Slot, ~panic, pc[p] = "run", NEW l \in {"zombie", "exec"}, Move(p, l),
           TypeOK', \A q \in Slot : q # p => app'[q] = app[q],
           l = "zombie" => pte[p][TRAPFRAME] # NoPage
    PROVE  IInv'
<1>1. Work(p) /\ pc'[p] = l /\ HeldOnce'
  BY MoveWork DEF SlotPC
<1>2. /\ by[p] = NoSlot /\ k[p] = 0 /\ SlotInv(p) /\ ByInv(p)
      /\ \A i \in 1 .. Len(vma[p]) : \A j \in 1 .. Len(vma[p][i]) : pte[p][vma[p][i][j]] \in Page
  BY Running
<1>3. pgt' = pgt /\ pte' = pte /\ vma' = vma /\ trapframe' = trapframe /\ k' = k
  BY DEF Move, mmVars
<1>4. SetupInv(p)'
  BY <1>1, <1>2, <1>3 DEF SlotInv, SetupInv, NoRoot, NoTrapframe
<1>5. ListInv(p)' /\ PartInv(p)' /\ ContentInv(p)'
  BY <1>1, <1>2, <1>3 DEF ListInv, PartInv, ContentInv, NoAreas, NoRoot, Freeing, Loaded
<1>6. MappedInv(p)'
  BY <1>1, <1>2, <1>3 DEF SlotInv, MappedInv
<1>7. SlotInv(p)'
  BY <1>4, <1>5, <1>6 DEF SlotInv
<1>8. ByNext(p)
  BY <1>1, <1>2 DEF ByNext
<1>. QED BY <1>1, <1>7, <1>8, WorkStep

\* exit makes a zombie of a process that has its trapframe.
LEMMA Step_exit ==
    ASSUME IInv, NEW p \in Slot, exit(p)
    PROVE  IInv'
<1>0. ~panic /\ pc[p] = "run" /\ WorkTypes /\ pte[p][TRAPFRAME] # NoPage
  BY TypeParts DEF IInv, exit, User, At
<1>1. Move(p, "zombie") /\ app' = app /\ UNCHANGED <<objects, panic>>
  BY DEF exit, Move, Goto
<1>2. PageTypes' /\ ObjectTypes' /\ PanicType'
  BY <1>1, SameTypes DEF IInv, Move, mmVars
<1>3. WorkTypes'
  BY <1>0, <1>1 DEF WorkTypes, Move, mmVars, SlotPC
<1>. QED BY <1>0, <1>1, <1>2, <1>3, TypePartsNext, LeaveUser

\* exec names another program.
LEMMA Step_exec ==
    ASSUME IInv, NEW p \in Slot, NEW a \in App, exec(p, a)
    PROVE  IInv'
<1>0. ~panic /\ pc[p] = "run" /\ WorkTypes
  BY TypeParts DEF IInv, exec, User, At
<1>1. /\ Move(p, "exec") /\ app' = [app EXCEPT ![p] = a] /\ UNCHANGED <<objects, panic>>
  BY DEF exec, Move, Goto
<1>2. PageTypes' /\ ObjectTypes' /\ PanicType'
  BY <1>1, SameTypes DEF IInv, Move, mmVars
<1>3. WorkTypes' /\ \A q \in Slot : q # p => app'[q] = app[q]
  BY <1>0, <1>1 DEF WorkTypes, Move, mmVars, SlotPC
<1>. QED BY <1>0, <1>1, <1>2, <1>3, TypePartsNext, LeaveUser
-----------------------------------------------------------------------------
\* Steps that change two processes, p and n.

Untouched(p, n) ==
    \A q \in Slot : q # p /\ q # n => SlotStays(q) /\ MemStays(q) /\ by'[q] = by[q]

\* Nobody else works for one of them.
LEMMA OthersBy ==
    ASSUME TypeOK, \A q \in Slot : ByInv(q), NEW p \in Slot, NEW n \in Slot, Untouched(p, n),
           NEW q \in Slot, q # p, q # n, by[q] \notin {p, n},
           by[q] = NoSlot \/ (by'[p] # by[q] /\ by'[n] # by[q])
    PROVE  ByInv(q)'
<1>1. SlotStays(q) /\ by'[q] = by[q] /\ ByInv(q)
  BY DEF Untouched
<1>2. by[q] # NoSlot => by[q] \in Slot /\ SlotStays(by[q])
  BY StoppedBy DEF Untouched
<1>3. by[q] # NoSlot => /\ pc'[by'[q]] = pc[by[q]] /\ app'[by'[q]] = app[by[q]]
                        /\ vma'[by'[q]] = vma[by[q]]
  BY <1>1, <1>2 DEF SlotStays
<1>4. ASSUME NEW s \in Slot, by'[q] = by'[s], by'[q] # NoSlot PROVE q = s
  <2>1. s # p /\ s # n
    BY <1>1, <1>4
  <2>2. by'[s] = by[s]
    BY <2>1 DEF Untouched
  <2>. QED BY <1>1, <1>4, <2>2 DEF ByInv
<1>. QED BY <1>1, <1>3, <1>4 DEF ByInv, SlotStays

\* So the two have to be looked at.
LEMMA PairStep ==
    ASSUME IInv, ~panic, TypeOK', HeldOnce', NEW p \in Slot, NEW n \in Slot, Untouched(p, n),
           SlotInv(p)', SlotInv(n)', ByInv(p)', ByInv(n)',
           \A q \in Slot : q # p /\ q # n =>
               by[q] \notin {p, n} /\ (by[q] = NoSlot \/ (by'[p] # by[q] /\ by'[n] # by[q]))
    PROVE  IInv'
<1> SUFFICES ASSUME NEW q \in Slot PROVE SlotInv(q)' /\ ByInv(q)'
  BY DEF IInv
<1>1. CASE q = p \/ q = n
  BY <1>1
<1>2. CASE q # p /\ q # n
  <2>1. SlotInv(q)'
    BY <1>2, OtherSlot DEF IInv, Untouched
  <2>2. ByInv(q)'
    BY <1>2, OthersBy DEF IInv
  <2>. QED BY <2>1, <2>2
<1>. QED BY <1>1, <1>2

\* fork: the parent stops and the child is begun.
LEMMA Step_fork ==
    ASSUME IInv, NEW p \in Slot, NEW n \in Slot, fork(p, n)
    PROVE  IInv'
<1>0. /\ ~panic /\ pc[p] = "run" /\ pc[n] = "unused" /\ p # n /\ WorkTypes
      /\ SlotInv(p) /\ SlotInv(n) /\ by[p] = NoSlot /\ NoSlot \notin Slot
  BY TypeParts, Running, SlotAssumption DEF IInv, fork, User, At
<1>1. /\ pc' = [pc EXCEPT ![p] = "fork", ![n] = "mm"] /\ by' = [by EXCEPT ![n] = p]
      /\ app' = [app EXCEPT ![n] = app[p]]
      /\ UNCHANGED <<freelist, mem, pgt, table, pte, vma, trapframe, areas, k, leaked, objects, panic>>
  BY DEF fork, mmVars
<1>2. /\ pc'[p] = "fork" /\ pc'[n] = "mm" /\ by'[n] = p /\ by'[p] = NoSlot
      /\ app'[n] = app[p] /\ app'[p] = app[p]
      /\ \A q \in Slot : q # p /\ q # n => pc'[q] = pc[q] /\ by'[q] = by[q] /\ app'[q] = app[q]
  BY <1>0, <1>1 DEF WorkTypes
<1>3. WorkTypes'
  BY <1>0, <1>1 DEF WorkTypes, SlotPC
<1>4. PageTypes' /\ ObjectTypes' /\ PanicType' /\ HeldOnce' /\ \A q \in Slot : MemStays(q)
  BY <1>1, SameTypes, NoPages DEF IInv
<1>5. Untouched(p, n)
  BY <1>1, <1>2, <1>4 DEF Untouched, SlotStays
<1>6. \A q \in Slot : by[q] # p /\ by[q] # n
  BY <1>0, StoppedBy DEF IInv
<1>7. SlotInv(p)'
  BY <1>0, <1>1, <1>2, <1>4, MoveLoaded DEF IInv, Loaded
<1>8. SlotInv(n)'
  <2>1. SetupInv(n)'
    BY <1>0, <1>1, <1>2 DEF SlotInv, SetupInv, NoRoot, NoTrapframe
  <2>2. vma'[n] = <<>> /\ k'[n] = 0
    BY <1>0, <1>1 DEF SlotInv, ListInv, NoAreas, NoRoot, Freeing
  <2>. QED BY <1>2, <2>1, <2>2, EmptyList DEF SlotInv
<1>9. ByInv(p)'
  BY <1>2 DEF ByInv
<1>10. \A q \in Slot : by'[q] = p => q = n
  BY <1>0, <1>2, <1>6
<1>11. ByInv(n)'
  BY <1>2, <1>10 DEF ByInv, Building
<1>12. \A q \in Slot : q # p /\ q # n =>
         by[q] \notin {p, n} /\ (by[q] = NoSlot \/ (by'[p] # by[q] /\ by'[n] # by[q]))
  BY <1>2, <1>6
<1>. QED BY <1>0, <1>3, <1>4, <1>5, <1>7, <1>8, <1>9, <1>11, <1>12, TypePartsNext, PairStep

\* The image is complete: the process runs, and its parent goes on.
LEMMA Step_end_areas ==
    ASSUME IInv, NEW p \in Slot, end_areas(p)
    PROVE  IInv'
<1>0. /\ ~panic /\ pc[p] = "vma" /\ WorkTypes /\ SlotInv(p) /\ ByInv(p) /\ NoSlot \notin Slot
      /\ by[p] \in Slot \cup {NoSlot}
  BY TypeParts, SlotAssumption DEF IInv, end_areas, At, TypeOK
<1>1. UNCHANGED <<freelist, mem, pgt, table, pte, vma, trapframe, app, areas, k, leaked, objects, panic>>
  BY DEF end_areas, mmVars
<1>2. PageTypes' /\ ObjectTypes' /\ PanicType' /\ HeldOnce' /\ \A q \in Slot : MemStays(q)
  BY <1>1, SameTypes, NoPages DEF IInv
<1>3. WorkTypes'
  BY <1>0, <1>1 DEF WorkTypes, SlotPC, end_areas
<1>4. CASE by[p] = NoSlot
  <2>1. /\ pc'[p] = "run" /\ \A q \in Slot : q # p => pc'[q] = pc[q]
        /\ by' = by
    BY <1>0, <1>4 DEF WorkTypes, end_areas
  <2>2. Work(p) /\ ByNext(p)
    BY <1>0, <1>1, <1>2, <1>4, <2>1 DEF Work, ByNext, SlotStays
  <2>3. SlotInv(p)'
    BY <1>0, <1>1, <1>2, <2>1, MoveLoaded DEF IInv, Loaded
  <2>. QED BY <1>0, <1>2, <1>3, <2>2, <2>3, TypePartsNext, WorkStep
<1>5. CASE by[p] # NoSlot
  <2>1. PICK n \in Slot : n = by[p]
    BY <1>0, <1>5
  <2>2. pc[n] = "fork" /\ n # p /\ by[n] = NoSlot /\ SlotInv(n)
    <3>1. pc[n] = "fork" /\ n # p
      BY <1>0, <1>5, <2>1 DEF ByInv
    <3>. QED BY <1>0, <3>1, Running
  <2>3. /\ pc'[p] = "run" /\ pc'[n] = "run" /\ by'[p] = NoSlot /\ by'[n] = NoSlot
        /\ \A q \in Slot : q # p /\ q # n => pc'[q] = pc[q] /\ by'[q] = by[q]
    BY <1>0, <1>5, <2>1, <2>2 DEF WorkTypes, end_areas
  <2>4. Untouched(p, n)
    BY <1>1, <1>2, <2>3 DEF Untouched, SlotStays
  <2>5. SlotInv(p)' /\ SlotInv(n)'
    BY <1>0, <1>1, <1>2, <2>2, <2>3, MoveLoaded DEF IInv, Loaded
  <2>6. ByInv(p)' /\ ByInv(n)'
    BY <2>3 DEF ByInv
  <2>7. ASSUME NEW q \in Slot, q # p, q # n
        PROVE  by[q] \notin {p, n} /\ (by[q] = NoSlot \/ (by'[p] # by[q] /\ by'[n] # by[q]))
    <3>1. by[q] # p
      BY <1>0, StoppedBy DEF IInv
    <3>2. by[q] # n
      BY <1>5, <2>1, <2>7, <1>0 DEF ByInv
    <3>. QED BY <2>3, <3>1, <3>2
  <2>. QED BY <1>0, <1>2, <1>3, <2>4, <2>5, <2>6, <2>7, TypePartsNext, PairStep
<1>. QED BY <1>4, <1>5

\* freeproc: the trampoline is unmapped and the trapframe given back.
LEMMA Step_freeproc ==
    ASSUME IInv, NEW p \in Slot, NEW n \in Slot, freeproc(p, n)
    PROVE  IInv'
<1>0. /\ ~panic /\ pc[p] = "run" /\ pc[n] = "zombie" /\ p # n /\ WorkTypes /\ PageTypes /\ ObjectTypes
      /\ SlotInv(p) /\ SlotInv(n) /\ by[p] = NoSlot /\ NoSlot \notin Slot /\ by[n] = NoSlot /\ k[n] = 0
      /\ \A i \in 1 .. Len(vma[n]) : \A j \in 1 .. Len(vma[n][i]) : pte[n][vma[n][i][j]] \in Page
      /\ {TRAMPOLINE, TRAPFRAME} \subseteq VA /\ TRAMPOLINE # TRAPFRAME
  <2>1. ~panic /\ pc[p] = "run" /\ pc[n] = "zombie" /\ p # n
    BY DEF freeproc, User, At
  <2>2. by[p] = NoSlot /\ SlotInv(p)
    BY <2>1, Running
  <2>3. /\ by[n] = NoSlot /\ SlotInv(n) /\ k[n] = 0
        /\ \A i \in 1 .. Len(vma[n]) : \A j \in 1 .. Len(vma[n][i]) : pte[n][vma[n][i][j]] \in Page
    BY <2>1, Running
  <2>. QED BY <2>1, <2>2, <2>3, TypeParts, SlotAssumption, LayoutAssumption DEF IInv
<1>1. trapframe[n] \in Page /\ pte[n][TRAPFRAME] = trapframe[n]
  BY <1>0 DEF SlotInv, SetupInv, NoRoot, NoTrapframe
<1>2. /\ kfreepages({trapframe[n]})
      /\ pte' = [pte EXCEPT ![n][TRAMPOLINE] = NoPage, ![n][TRAPFRAME] = NoPage]
      /\ trapframe' = [trapframe EXCEPT ![n] = NoPage]
      /\ pc' = [pc EXCEPT ![p] = "wait", ![n] = "reap"] /\ by' = [by EXCEPT ![n] = p]
      /\ dropped' = dropped + 2
      /\ UNCHANGED <<pgt, table, vma, app, areas, k, leaked, mms, vmas, panic>>
  BY <1>1 DEF freeproc
<1>3. /\ pc'[p] = "wait" /\ pc'[n] = "reap" /\ by'[n] = p /\ by'[p] = NoSlot
      /\ \A q \in Slot : q # p /\ q # n => pc'[q] = pc[q] /\ by'[q] = by[q]
  BY <1>0, <1>2 DEF WorkTypes
<1>4. /\ trapframe'[n] = NoPage /\ \A q \in Slot : q # n => trapframe'[q] = trapframe[q]
      /\ trapframe' \in [Slot -> Page \cup {NoPage}]
  BY <1>0, <1>2 DEF PageTypes
<1>5. /\ pte' \in [Slot -> [VA -> Page \cup {NoPage, TrampolinePage, NullPA}]]
      /\ pte'[n][TRAMPOLINE] = NoPage /\ pte'[n][TRAPFRAME] = NoPage
      /\ \A q \in Slot : q # n => pte'[q] = pte[q]
      /\ \A v \in UserVA : pte'[n][v] = pte[n][v]
  <2>1. pte \in [Slot -> [VA -> Page \cup {NoPage, TrampolinePage, NullPA}]]
    BY <1>0 DEF PageTypes
  <2>. QED BY <1>0, <1>2, <2>1 DEF UserVA
<1>6. /\ <<"trapframe", 0>> \in Place /\ PageAt(n, <<"trapframe", 0>>) = trapframe[n]
      /\ PageAt(n, <<"trapframe", 0>>)' = NoPage
  BY <1>4, Places, Values, ValuesNext
<1>7. /\ mem' \in [Page -> {Junk} \cup (App \X VA)] /\ freelist' \subseteq Page
      /\ \A q \in Slot, va \in UserVA :
           pte[q][va] \in Page => mem'[pte[q][va]] = mem[pte[q][va]]
  BY <1>1, <1>2, <1>6, FreedMem DEF IInv
<1>8. \A q \in Slot : MemStays(q)
  BY <1>7 DEF MemStays
<1>9. PageTypes'
  BY <1>0, <1>2, <1>4, <1>5, <1>7 DEF PageTypes
<1>10. WorkTypes' /\ ObjectTypes' /\ PanicType'
  <2>1. WorkTypes'
    BY <1>0, <1>2 DEF WorkTypes, SlotPC
  <2>2. ObjectTypes'
    BY <1>0, <1>2 DEF ObjectTypes
  <2>3. PanicType'
    BY <1>2, SameTypes DEF IInv
  <2>. QED BY <2>1, <2>2, <2>3
<1>11. HeldOnce'
  <2>1. OnlyAt(n, <<"trapframe", 0>>)
    <3>1. ASSUME NEW q \in Slot, NEW v \in VA \ {TRAPFRAME}
          PROVE  pte'[q][v] = pte[q][v] \/ (pte[q][v] \notin Page /\ pte'[q][v] \notin Page)
      <4>1. pte[n][TRAMPOLINE] \notin Page
        BY <1>0, PageAssumption DEF SlotInv, SetupInv
      <4>2. v = TRAMPOLINE \/ v \in UserVA
        BY DEF UserVA
      <4>. QED BY <1>5, <4>1, <4>2, PageAssumption
    <3>. QED BY <1>2, <1>4, <3>1 DEF OnlyAt
  <2>2. \A q \in Slot, y \in Place : q # n \/ y # <<"trapframe", 0>> => Same(q, y)
    BY <2>1, SameBut
  <2>3. /\ HeldOnce /\ freelist \subseteq Page /\ leaked \subseteq Page /\ leaked' = leaked
        /\ freelist' = freelist \cup {PageAt(n, <<"trapframe", 0>>)}
        /\ PageAt(n, <<"trapframe", 0>>) \in Page /\ PageAt(n, <<"trapframe", 0>>)' \notin Page
    BY <1>0, <1>1, <1>2, <1>6, PageAssumption DEF IInv, PageTypes, kfreepages
  <2>. QED BY <1>6, <2>2, <2>3, Give
<1>12. Untouched(p, n)
  BY <1>2, <1>3, <1>4, <1>5, <1>8 DEF Untouched, SlotStays
<1>13. SlotInv(p)'
  BY <1>0, <1>2, <1>3, <1>4, <1>5, <1>8, MoveLoaded DEF IInv, Loaded
<1>14. SlotInv(n)'
  <2>1. SetupInv(n)'
    BY <1>0, <1>2, <1>3, <1>4, <1>5 DEF SlotInv, SetupInv, NoRoot, NoTrapframe
  <2>2. ListInv(n)' /\ PartInv(n)' /\ ContentInv(n)'
    BY <1>0, <1>2, <1>3 DEF ListInv, PartInv, ContentInv, NoAreas, NoRoot, Freeing, Loaded
  <2>3. ASSUME NEW i \in 1 .. Len(vma[n]), NEW j \in 1 .. Len(vma[n][i])
        PROVE  pte'[n][vma[n][i][j]] \in Page
    <3>1. vma[n][i][j] \in UserVA
      BY <1>0, ListedVA DEF WorkTypes
    <3>. QED BY <1>0, <1>5, <3>1
  <2>4. MappedInv(n)'
    <3>1. vma' = vma /\ Distinct(vma[n])
      BY <1>0, <1>2 DEF SlotInv, MappedInv
    <3>. QED BY ONLY <2>3, <3>1 DEF MappedInv
  <2>. QED BY <2>1, <2>2, <2>4 DEF SlotInv
<1>15. \A q \in Slot : by[q] # p /\ by[q] # n
  BY <1>0, StoppedBy DEF IInv
<1>16. ByInv(p)'
  BY <1>3 DEF ByInv
<1>17. \A q \in Slot : by'[q] = p => q = n
  BY <1>0, <1>3, <1>15
<1>18. ByInv(n)'
  BY <1>3, <1>17 DEF ByInv
<1>19. \A q \in Slot : q # p /\ q # n =>
         by[q] \notin {p, n} /\ (by[q] = NoSlot \/ (by'[p] # by[q] /\ by'[n] # by[q]))
  BY <1>3, <1>15
<1>. QED BY <1>0, <1>9, <1>10, <1>11, <1>12, <1>13, <1>14, <1>16, <1>18, <1>19, TypePartsNext, PairStep
-----------------------------------------------------------------------------
\* mm_free.

\* A step in which the pages of several places are given back (F) or forgotten (L).
LEMMA Discard ==
    ASSUME HeldOnce, freelist \subseteq Page, leaked \subseteq Page, NEW F \in SUBSET Page, NEW L \in SUBSET Page,
           F \cap L = {}, (F \cup L) \cap (freelist \cup leaked) = {},
           freelist' = freelist \cup F, leaked' = leaked \cup L,
           \A q \in Slot, y \in Place :
               \/ PageAt(q, y)' = PageAt(q, y) /\ PageAt(q, y) \notin F \cup L
               \/ PageAt(q, y)' \notin Page /\ (PageAt(q, y) \in Page => PageAt(q, y) \in F \cup L)
    PROVE  HeldOnce'
<1>1. freelist' \cap leaked' = {}
  BY DEF HeldOnce
<1>2. \A q \in Slot, y \in Place : PageAt(q, y)' \notin freelist' \cup leaked'
  BY DEF HeldOnce
<1>3. \A q, s \in Slot, y, z \in Place :
        PageAt(q, y)' \in Page /\ PageAt(q, y)' = PageAt(s, z)' => q = s /\ y = z
  BY DEF HeldOnce
<1>4. \A h \in Page : h \in freelist' \cup leaked' \/ \E q \in Slot, y \in Place : PageAt(q, y)' = h
  BY DEF HeldOnce
<1>. QED BY <1>1, <1>2, <1>3, <1>4 DEF HeldOnce

\* The tables of process p.
Tables(p) == {table[p][key] : key \in Key} \ {NoPage}

\* The root table goes back to the free list, the other tables nowhere.
LEMMA FreeTables ==
    ASSUME PageTypes, HeldOnce, NEW p \in Slot, pgt[p] \in Page,
           freelist' = freelist \cup {pgt[p]}, leaked' = leaked \cup Tables(p),
           pgt' = [pgt EXCEPT ![p] = NoPage],
           table' = [table EXCEPT ![p] = [key \in Key |-> NoPage]],
           UNCHANGED <<pte, trapframe>>
    PROVE  HeldOnce'
<1>0. /\ freelist \subseteq Page /\ leaked \subseteq Page /\ NoPage \notin Page
      /\ pgt \in [Slot -> Page \cup {NoPage}]
      /\ table \in [Slot -> [Key -> Page \cup {NoPage}]]
  BY PageAssumption DEF PageTypes
<1>1. Tables(p) \subseteq Page
  BY <1>0 DEF Tables
<1>2. \A g \in Tables(p) : \E key \in Key : g = PageAt(p, <<"table", key>>)
  BY Values DEF Tables
<1>3. ASSUME NEW q \in Slot, NEW y \in Place, PageAt(q, y) \in {pgt[p]} \cup Tables(p)
      PROVE  q = p /\ (y = <<"root", 0>> \/ \E key \in Key : y = <<"table", key>>)
  <2>1. CASE PageAt(q, y) = pgt[p]
    BY <2>1, Places, Values DEF HeldOnce
  <2>2. CASE PageAt(q, y) \in Tables(p)
    <3>1. PICK key \in Key : PageAt(q, y) = PageAt(p, <<"table", key>>)
      BY <1>2, <2>2
    <3>2. PageAt(q, y) \in Page /\ <<"table", key>> \in Place
      BY <1>1, <2>2, Places
    <3>. QED BY <3>1, <3>2 DEF HeldOnce
  <2>. QED BY <1>3, <2>1, <2>2
<1>4. pgt[p] \notin Tables(p)
  <2>1. SUFFICES ASSUME NEW key \in Key, pgt[p] = PageAt(p, <<"table", key>>) PROVE FALSE
    BY <1>2
  <2>2. <<"table", key>> \in Place /\ <<"root", 0>> \in Place /\ PageAt(p, <<"root", 0>>) = pgt[p]
    BY Places, Values
  <2>3. <<"table", key>> = <<"root", 0>>
    BY <2>1, <2>2 DEF HeldOnce
  <2>. QED BY <2>3
<1>5. ({pgt[p]} \cup Tables(p)) \cap (freelist \cup leaked) = {}
  <2>1. pgt[p] \notin freelist \cup leaked
    BY Places, Values DEF HeldOnce
  <2>2. ASSUME NEW g \in Tables(p) PROVE g \notin freelist \cup leaked
    <3>1. PICK key \in Key : g = PageAt(p, <<"table", key>>)
      BY <1>2
    <3>2. <<"table", key>> \in Place
      BY Places
    <3>. QED BY <3>1, <3>2 DEF HeldOnce
  <2>. QED BY <2>1, <2>2
<1>6. /\ pgt'[p] = NoPage /\ \A q \in Slot : q # p => pgt'[q] = pgt[q] /\ table'[q] = table[q]
      /\ \A key \in Key : table'[p][key] = NoPage
  BY <1>0
<1>7. ASSUME NEW q \in Slot, NEW y \in Place
      PROVE  \/ PageAt(q, y)' = PageAt(q, y) /\ PageAt(q, y) \notin {pgt[p]} \cup Tables(p)
             \/ /\ PageAt(q, y)' \notin Page
                /\ PageAt(q, y) \in Page => PageAt(q, y) \in {pgt[p]} \cup Tables(p)
  <2>1. CASE q # p
    <3>1. PageAt(q, y) \notin {pgt[p]} \cup Tables(p)
      BY <1>3, <2>1
    <3>2. PageAt(q, y)' = PageAt(q, y)
      BY <1>6, <2>1 DEF PageAt
    <3>. QED BY <3>1, <3>2
  <2>2. CASE q = p /\ y = <<"root", 0>>
    BY <1>0, <1>6, <2>2, Values, ValuesNext
  <2>3. ASSUME q = p, NEW key \in Key, y = <<"table", key>>
        PROVE  PageAt(q, y)' = NoPage /\ (PageAt(q, y) \in Page => PageAt(q, y) \in Tables(p))
    BY <1>0, <1>6, <2>3, Values, ValuesNext DEF Tables
  <2>4. CASE q = p /\ (y = <<"trapframe", 0>> \/ \E va \in VA \ {TRAPFRAME} : y = <<"leaf", va>>)
    <3>1. PageAt(q, y)' = PageAt(q, y)
      BY <2>4, Values, ValuesNext
    <3>2. y # <<"root", 0>> /\ \A key \in Key : y # <<"table", key>>
      BY <2>4
    <3>. QED BY <1>3, <3>1, <3>2
  <2>. QED BY <1>0, <2>1, <2>2, <2>3, <2>4, Places
<1>8. {pgt[p]} \in SUBSET Page /\ Tables(p) \in SUBSET Page /\ {pgt[p]} \cap Tables(p) = {}
  BY <1>1, <1>4
<1>9. PICK F \in SUBSET Page, L \in SUBSET Page : F = {pgt[p]} /\ L = Tables(p)
  BY <1>8
<1>10. \A q \in Slot, y \in Place :
          \/ PageAt(q, y)' = PageAt(q, y) /\ PageAt(q, y) \notin F \cup L
          \/ PageAt(q, y)' \notin Page /\ (PageAt(q, y) \in Page => PageAt(q, y) \in F \cup L)
  BY ONLY <1>7, <1>9
<1>11. F \cap L = {} /\ (F \cup L) \cap (freelist \cup leaked) = {}
       /\ freelist' = freelist \cup F /\ leaked' = leaked \cup L
  BY <1>5, <1>8, <1>9
<1>. QED BY <1>0, <1>10, <1>11, Discard

\* mm_free gives the slot back, and the process that waited goes on.
LEMMA Step_mm_free ==
    ASSUME IInv, NEW p \in Slot, mm_free(p)
    PROVE  IInv'
<1>0. /\ ~panic /\ pc[p] = "reap" /\ vma[p] = <<>> /\ WorkTypes /\ PageTypes /\ ObjectTypes
      /\ SlotInv(p) /\ ByInv(p) /\ NoSlot \notin Slot /\ by[p] \in Slot \cup {NoSlot}
  BY TypeParts, SlotAssumption DEF IInv, mm_free, At, TypeOK
<1>1. PICK n \in Slot : n = by[p]
  BY <1>0 DEF ByInv
<1>2. pc[n] = "wait" /\ n # p
  BY <1>0, <1>1 DEF ByInv, Building
<1>3. by[n] = NoSlot /\ SlotInv(n)
  BY <1>0, <1>2, Running
<1>4. /\ kfreepages({pgt[p]}) /\ leaked' = leaked \cup Tables(p)
      /\ pgt' = [pgt EXCEPT ![p] = NoPage]
      /\ table' = [table EXCEPT ![p] = [key \in Key |-> NoPage]]
      /\ pc' = [pc EXCEPT ![p] = "unused", ![n] = "run"]
      /\ by' = [by EXCEPT ![p] = NoSlot] /\ app' = [app EXCEPT ![p] = InitApp]
      /\ mms' = mms - 1
      /\ UNCHANGED <<pte, vma, trapframe, areas, k, vmas, dropped, panic>>
  BY <1>1 DEF mm_free, Tables
<1>5. pgt[p] \in Page /\ k[p] = 0 /\ trapframe[p] = NoPage
  BY <1>0 DEF SlotInv, SetupInv, ListInv, NoRoot, NoTrapframe, Freeing
<1>6. /\ pc'[p] = "unused" /\ pc'[n] = "run" /\ by'[p] = NoSlot /\ by'[n] = NoSlot
      /\ \A q \in Slot : q # p => app'[q] = app[q]
      /\ \A q \in Slot : q # p /\ q # n => pc'[q] = pc[q] /\ by'[q] = by[q]
  BY <1>0, <1>2, <1>3, <1>4 DEF WorkTypes
<1>7. /\ pgt'[p] = NoPage /\ \A q \in Slot : q # p => pgt'[q] = pgt[q]
      /\ pgt' \in [Slot -> Page \cup {NoPage}]
  BY <1>0, <1>4 DEF PageTypes
<1>8. <<"root", 0>> \in Place /\ PageAt(p, <<"root", 0>>) = pgt[p]
  BY Places, Values
<1>9. /\ mem' \in [Page -> {Junk} \cup (App \X VA)] /\ freelist' \subseteq Page
      /\ \A q \in Slot, va \in UserVA :
           pte[q][va] \in Page => mem'[pte[q][va]] = mem[pte[q][va]]
  BY <1>4, <1>5, <1>8, FreedMem DEF IInv
<1>10. \A q \in Slot : MemStays(q)
  BY <1>9 DEF MemStays
<1>11. PageTypes'
  <2>1. table' \in [Slot -> [Key -> Page \cup {NoPage}]]
    BY <1>0, <1>4 DEF PageTypes
  <2>2. leaked' \subseteq Page
    BY <1>0, <1>4 DEF PageTypes, Tables
  <2>. QED BY <1>0, <1>4, <1>7, <1>9, <2>1, <2>2 DEF PageTypes
<1>12. WorkTypes' /\ ObjectTypes' /\ PanicType'
  <2>1. WorkTypes'
    BY <1>0, <1>4, LayoutAssumption DEF WorkTypes, SlotPC
  <2>2. ObjectTypes'
    BY <1>0, <1>4 DEF ObjectTypes
  <2>3. PanicType'
    BY <1>4, SameTypes DEF IInv
  <2>. QED BY <2>1, <2>2, <2>3
<1>13. HeldOnce'
  BY <1>0, <1>4, <1>5, FreeTables DEF IInv, kfreepages
<1>14. Untouched(p, n)
  BY <1>4, <1>6, <1>7, <1>10 DEF Untouched, SlotStays
<1>15. SlotInv(n)'
  BY <1>2, <1>3, <1>4, <1>6, <1>7, <1>10, MoveLoaded DEF IInv, Loaded
<1>16. SlotInv(p)'
  <2>1. SetupInv(p)'
    BY <1>0, <1>4, <1>5, <1>6, <1>7 DEF SlotInv, SetupInv, NoRoot, NoTrapframe
  <2>. QED BY <1>0, <1>4, <1>5, <1>6, <2>1, EmptyList DEF SlotInv
<1>17. ByInv(p)' /\ ByInv(n)'
  BY <1>6 DEF ByInv
<1>18. ASSUME NEW q \in Slot, q # p, q # n
       PROVE  by[q] \notin {p, n} /\ (by[q] = NoSlot \/ (by'[p] # by[q] /\ by'[n] # by[q]))
  <2>1. by[q] # p
    BY <1>0, StoppedBy DEF IInv
  <2>2. by[q] # n
    BY <1>0, <1>1, <1>18 DEF ByInv
  <2>. QED BY <1>6, <2>1, <2>2
<1>. QED BY <1>0, <1>11, <1>12, <1>13, <1>14, <1>15, <1>16, <1>17, <1>18, TypePartsNext, PairStep
-----------------------------------------------------------------------------
\* The theorems.

\* kpgmgrinit leaves every page on the free list.
LEMMA InitIInv == Init => IInv
<1> SUFFICES ASSUME Init PROVE IInv
  OBVIOUS
<1>1. TypeOK
  <2>1. freelist \subseteq Page /\ leaked \subseteq Page /\ panic \in BOOLEAN
    BY DEF Init
  <2>2. /\ mem \in [Page -> {Junk} \cup (App \X VA)]
        /\ pgt \in [Slot -> Page \cup {NoPage}]
        /\ table \in [Slot -> [Key -> Page \cup {NoPage}]]
        /\ pte \in [Slot -> [VA -> Page \cup {NoPage, TrampolinePage, NullPA}]]
        /\ trapframe \in [Slot -> Page \cup {NoPage}]
    BY DEF Init
  <2>3. /\ pc \in [Slot -> SlotPC] /\ by \in [Slot -> Slot \cup {NoSlot}]
        /\ app \in [Slot -> App] /\ k \in [Slot -> Nat]
    BY LayoutAssumption DEF Init, SlotPC
  <2>4. vma \in [Slot -> Seq(Seq(UserVA))] /\ areas \in [Slot -> Seq(Seq(UserVA))]
    BY DEF Init
  <2>5. mms \in Int /\ vmas \in Int /\ dropped \in Int
    BY DEF Init
  <2>. QED BY <2>1, <2>2, <2>3, <2>4, <2>5 DEF TypeOK
<1>2. ASSUME NEW p \in Slot, NEW x \in Place PROVE PageAt(p, x) = NoPage
  <2>1. /\ pgt[p] = NoPage /\ trapframe[p] = NoPage
        /\ \A key \in Key : table[p][key] = NoPage
        /\ \A va \in VA : pte[p][va] = NoPage
    BY DEF Init
  <2>. QED BY <2>1, Places, Values
<1>3. HeldOnce
  BY <1>2, PageAssumption DEF HeldOnce, Init
<1>4. ASSUME NEW p \in Slot PROVE SlotInv(p) /\ ByInv(p)
  <2>1. /\ pc[p] \in {"mm", "unused"} /\ pgt[p] = NoPage /\ trapframe[p] = NoPage
        /\ vma[p] = <<>> /\ k[p] = 0 /\ by[p] = NoSlot
        /\ pte[p][TRAMPOLINE] = NoPage /\ pte[p][TRAPFRAME] = NoPage
    BY LayoutAssumption DEF Init
  <2>2. SetupInv(p)
    BY <2>1 DEF SetupInv, NoRoot, NoTrapframe
  <2>3. ListInv(p) /\ MappedInv(p) /\ PartInv(p) /\ ContentInv(p)
    BY <2>1 DEF ListInv, MappedInv, PartInv, ContentInv, Distinct, Freeing, Loaded
  <2>4. ByInv(p)
    BY <2>1 DEF ByInv
  <2>. QED BY <2>2, <2>3, <2>4 DEF SlotInv
<1>. QED BY <1>1, <1>3, <1>4 DEF IInv

\* Every step of every process preserves the invariant.
LEMMA NextIInv == IInv /\ [Next]_vars => IInv'
<1> SUFFICES ASSUME IInv, [Next]_vars PROVE IInv'
  OBVIOUS
<1>1. ASSUME NEW p \in Slot, Build(p) PROVE IInv'
  BY <1>1, Step_kalloc_mm, Step_mm_create, Step_kalloc_vma, Step_map_trampoline,
     Step_alloc_trapframe, Step_map_trapframe, Step_begin_areas, Step_mm_create_vma,
     Step_mm_mappages, Step_link_area, Step_fill, Step_end_areas, Step_freevma,
     Step_unlink_area, Step_fork_failed, Step_exec_load, Step_mm_free DEF Build
<1>2. ASSUME NEW p \in Slot, exit(p) PROVE IInv'
  BY <1>2, Step_exit
<1>3. ASSUME NEW p \in Slot, NEW n \in Slot, fork(p, n) PROVE IInv'
  BY <1>3, Step_fork
<1>4. ASSUME NEW p \in Slot, NEW n \in Slot, freeproc(p, n) PROVE IInv'
  BY <1>4, Step_freeproc
<1>5. ASSUME NEW p \in Slot, NEW a \in App, exec(p, a) PROVE IInv'
  BY <1>5, Step_exec
<1>6. CASE UNCHANGED vars
  <2>1. /\ UNCHANGED <<freelist, mem, pgt, table, pte, trapframe, leaked>>
        /\ UNCHANGED <<vma, workVars>> /\ UNCHANGED objects /\ UNCHANGED panic
    BY <1>6 DEF vars, mmVars
  <2>2. TypeOK'
    BY <2>1, SameTypes, TypePartsNext DEF IInv
  <2>3. HeldOnce' /\ \A q \in Slot : MemStays(q)
    BY <2>1, NoPages
  <2>4. \A q \in Slot : SlotStays(q)
    BY <2>1 DEF SlotStays, workVars
  <2>5. by' = by /\ panic' = panic
    BY <2>1 DEF workVars
  <2>. QED BY <2>2, <2>3, <2>4, <2>5, IdleStep
<1>. QED BY <1>1, <1>2, <1>3, <1>4, <1>5, <1>6 DEF Next

\* The inductive invariant holds of every behaviour: of every interleaving of processes that
\* fork, exec, exit and wait, and whenever the memory runs out.
THEOREM MemoryInvariant == Spec => []IInv
BY InitIInv, NextIInv, PTL DEF Spec

\* Every page is free, in one place of one address space, or a table that mm_free forgot:
\* kallocpage hands no page out twice and kfreepage gets none that is still mapped.
THEOREM EveryPageAccounted == Spec => []PagesAccounted
<1>1. IInv => PagesAccounted
  <2> SUFFICES ASSUME IInv, NEW g \in Page
               PROVE  (IF g \in freelist THEN 1 ELSE 0) + (IF g \in leaked THEN 1 ELSE 0)
                        + Cardinality(Owners(g)) = 1
    BY DEF IInv, PagesAccounted
  <2>1. CASE g \in freelist \cup leaked
    <3>1. Owners(g) = {}
      BY <2>1 DEF IInv, HeldOnce, Owners
    <3>2. Cardinality(Owners(g)) = 0
      BY <3>1, FS_EmptySet
    <3>3. ~(g \in freelist /\ g \in leaked)
      BY DEF IInv, HeldOnce
    <3>. QED BY <2>1, <3>2, <3>3
  <2>2. CASE g \notin freelist \cup leaked
    <3>1. PICK p \in Slot, x \in Place : PageAt(p, x) = g
      BY <2>2 DEF IInv, HeldOnce
    <3>2. \A o \in Slot \X Place : PageAt(o[1], o[2]) = g => o = <<p, x>>
      BY <3>1 DEF IInv, HeldOnce
    <3>3. Owners(g) = {<<p, x>>}
      BY <3>1, <3>2 DEF Owners
    <3>4. Cardinality(Owners(g)) = 1
      BY <3>3, FS_Singleton
    <3>. QED BY <2>2, <3>4
  <2>. QED BY <2>1, <2>2
<1>. QED BY <1>1, MemoryInvariant, PTL

\* A process that runs, or waits in fork or wait, finds its own program in every page of its
\* areas, whatever the other processes allocate and free meanwhile.
THEOREM EveryImageIntact == Spec => []ImageIntact
<1>1. IInv => ImageIntact
  <2> SUFFICES ASSUME IInv, NEW p \in Slot, pc[p] \in {"run", "fork", "wait"}, ~panic,
                      NEW i \in 1 .. Len(vma[p]), NEW j \in 1 .. Len(vma[p][i])
               PROVE  /\ pte[p][vma[p][i][j]] \in Page
                      /\ mem[pte[p][vma[p][i][j]]] = <<app[p], vma[p][i][j]>>
    BY DEF ImageIntact
  <2>1. pte[p][vma[p][i][j]] \in Page
    BY Running
  <2>2. mem[pte[p][vma[p][i][j]]] = <<app[p], vma[p][i][j]>>
    BY DEF IInv, SlotInv, ContentInv, Pending, Loaded
  <2>. QED BY <2>1, <2>2
<1>. QED BY <1>1, MemoryInvariant, PTL
-----------------------------------------------------------------------------
\* The objects of the allocators.  Counting them needs what IInv says of every address
\* space, so this is a second invariant on top of it.

\* What process p refers to, now and in the next state.
LEMMA ReferenceKinds ==
    ASSUME NEW p, NEW x
    PROVE  x \in References(p) <=>
             \/ \E i \in 1 .. Len(vma[p]) : x = <<"area", i>>
             \/ x = <<"map", 0>> /\ pc[p] = "map"
             \/ x = <<"trampoline", 0>> /\ (pc[p] = "trampoline" \/ pte[p][TRAMPOLINE] # NoPage)
             \/ x = <<"trapframe", 0>> /\ (pc[p] = "trapframe" \/ pte[p][TRAPFRAME] # NoPage)
BY DEF References

\* The same in the next state.
LEMMA ReferenceKindsNext ==
    ASSUME NEW p, NEW x
    PROVE  x \in References(p)' <=>
             \/ \E i \in 1 .. Len(vma'[p]) : x = <<"area", i>>
             \/ x = <<"map", 0>> /\ pc'[p] = "map"
             \/ x = <<"trampoline", 0>> /\ (pc'[p] = "trampoline" \/ pte'[p][TRAMPOLINE] # NoPage)
             \/ x = <<"trapframe", 0>> /\ (pc'[p] = "trapframe" \/ pte'[p][TRAPFRAME] # NoPage)
BY DEF References

\* Process q has the same areas, and the same entries outside of them.
SameVmas(q) ==
    /\ Len(vma'[q]) = Len(vma[q])
    /\ pte'[q][TRAMPOLINE] = pte[q][TRAMPOLINE] /\ pte'[q][TRAPFRAME] = pte[q][TRAPFRAME]

\* It begins or ends no mapping.
SamePhase(q) == \A l \in {"map", "trampoline", "trapframe"} : pc'[q] = l <=> pc[q] = l

\* Then it refers to the same objects.
LEMMA SameReferences ==
    ASSUME NEW q, SameVmas(q), SamePhase(q)
    PROVE  References(q)' = References(q)
<1> SUFFICES ASSUME NEW x PROVE x \in References(q)' <=> x \in References(q)
  BY Zenon
<1>. QED BY ReferenceKinds, ReferenceKindsNext DEF SameVmas, SamePhase

\* Only process p refers to other objects than before: no longer to those of lost, and now
\* to those of got.
LEMMA HeldChanges ==
    ASSUME NEW p \in Slot, NEW lost, NEW got,
           References(p)' = (References(p) \ lost) \cup got,
           \A q \in Slot : q # p => References(q)' = References(q)
    PROVE  Held' = (Held \ ({p} \X lost)) \cup ({p} \X got)
<1>1. Held' = UNION {{q} \X References(q)' : q \in Slot}
  BY DEF Held
<1>2. Held = UNION {{q} \X References(q) : q \in Slot}
  BY DEF Held
<1>3. ASSUME NEW x PROVE x \in Held' <=> x \in (Held \ ({p} \X lost)) \cup ({p} \X got)
  <2>1. x \in Held' <=> \E q \in Slot : x \in {q} \X References(q)'
    BY <1>1
  <2>2. x \in Held <=> \E q \in Slot : x \in {q} \X References(q)
    BY <1>2
  <2>. QED BY <2>1, <2>2
<1>. QED BY <1>3

\* One object more.
LEMMA HeldGains ==
    ASSUME IsFiniteSet(Held), NEW p \in Slot, NEW x, x \notin References(p),
           References(p)' = References(p) \cup {x},
           \A q \in Slot : q # p => References(q)' = References(q)
    PROVE  IsFiniteSet(Held') /\ Cardinality(Held') = Cardinality(Held) + 1
<1>1. Held' = Held \cup {<<p, x>>}
  <2>0. PICK none : none = {}
    OBVIOUS
  <2>1. References(p)' = (References(p) \ none) \cup {x}
    BY <2>0
  <2>2. Held' = (Held \ ({p} \X none)) \cup ({p} \X {x})
    BY <2>1, HeldChanges
  <2>. QED BY <2>0, <2>2
<1>2. <<p, x>> \notin Held
  BY DEF Held
<1>. QED BY <1>1, <1>2, FS_AddElement

\* One object less.
LEMMA HeldLoses ==
    ASSUME IsFiniteSet(Held), NEW p \in Slot, NEW x \in References(p),
           References(p)' = References(p) \ {x},
           \A q \in Slot : q # p => References(q)' = References(q)
    PROVE  IsFiniteSet(Held') /\ Cardinality(Held') = Cardinality(Held) - 1
<1>1. Held' = Held \ {<<p, x>>}
  <2>0. PICK none : none = {}
    OBVIOUS
  <2>1. References(p)' = (References(p) \ {x}) \cup none
    BY <2>0
  <2>2. Held' = (Held \ ({p} \X {x})) \cup ({p} \X none)
    BY <2>1, HeldChanges
  <2>. QED BY <2>0, <2>2
<1>2. <<p, x>> \in Held
  BY DEF Held
<1>. QED BY <1>1, <1>2, FS_RemoveElement

\* One object in the place of another.
LEMMA HeldSwaps ==
    ASSUME IsFiniteSet(Held), NEW p \in Slot, NEW x \in References(p), NEW y, y \notin References(p),
           References(p)' = (References(p) \ {x}) \cup {y},
           \A q \in Slot : q # p => References(q)' = References(q)
    PROVE  IsFiniteSet(Held') /\ Cardinality(Held') = Cardinality(Held)
<1>1. Held' = (Held \ {<<p, x>>}) \cup {<<p, y>>}
  <2>1. Held' = (Held \ ({p} \X {x})) \cup ({p} \X {y})
    BY HeldChanges
  <2>. QED BY <2>1
<1>2. <<p, x>> \in Held /\ <<p, y>> \notin Held
  BY DEF Held
<1>3. IsFiniteSet(Held \ {<<p, x>>}) /\ Cardinality(Held \ {<<p, x>>}) = Cardinality(Held) - 1
  BY <1>2, FS_RemoveElement
<1>4. Cardinality(Held) \in Nat
  BY FS_CardinalityType
<1>5. /\ IsFiniteSet((Held \ {<<p, x>>}) \cup {<<p, y>>})
      /\ Cardinality((Held \ {<<p, x>>}) \cup {<<p, y>>}) = Cardinality(Held \ {<<p, x>>}) + 1
  BY <1>2, <1>3, FS_AddElement
<1>. QED BY <1>1, <1>3, <1>4, <1>5

\* Two objects less.
LEMMA HeldLosesTwo ==
    ASSUME IsFiniteSet(Held), NEW p \in Slot, NEW x \in References(p), NEW y \in References(p), x # y,
           References(p)' = References(p) \ {x, y},
           \A q \in Slot : q # p => References(q)' = References(q)
    PROVE  IsFiniteSet(Held') /\ Cardinality(Held') = Cardinality(Held) - 2
<1>1. Held' = (Held \ {<<p, x>>}) \ {<<p, y>>}
  <2>0. PICK none, both : none = {} /\ both = {x, y}
    OBVIOUS
  <2>1. References(p)' = (References(p) \ both) \cup none
    BY <2>0
  <2>2. Held' = (Held \ ({p} \X both)) \cup ({p} \X none)
    BY <2>1, HeldChanges
  <2>. QED BY <2>0, <2>2
<1>2. <<p, x>> \in Held /\ <<p, y>> \in Held \ {<<p, x>>}
  BY DEF Held
<1>3. IsFiniteSet(Held \ {<<p, x>>}) /\ Cardinality(Held \ {<<p, x>>}) = Cardinality(Held) - 1
  BY <1>2, FS_RemoveElement
<1>4. Cardinality(Held) \in Nat
  BY FS_CardinalityType
<1>5. /\ IsFiniteSet((Held \ {<<p, x>>}) \ {<<p, y>>})
      /\ Cardinality((Held \ {<<p, x>>}) \ {<<p, y>>}) = Cardinality(Held \ {<<p, x>>}) - 1
  BY <1>2, <1>3, FS_RemoveElement
<1>. QED BY <1>1, <1>3, <1>4, <1>5

\* The counts are not negative.
LEMMA Counts ==
    ASSUME IInv, ObjectsInv
    PROVE  /\ Cardinality(Held) \in Nat
           /\ IsFiniteSet(HasMm) /\ Cardinality(HasMm) \in Nat
           /\ vmas \in Int /\ mms \in Int /\ dropped \in Int
<1>1. IsFiniteSet(HasMm)
  <2>1. HasMm \in SUBSET Slot
    BY DEF HasMm
  <2>. QED BY <2>1, SlotAssumption, FS_Subset
<1>. QED BY <1>1, FS_CardinalityType DEF ObjectsInv, IInv, TypeOK

\* A step that leaves the counts alone, changes nobody's references and creates or frees no
\* address space.
LEMMA CountsStay ==
    ASSUME ObjectsInv, ~panic, UNCHANGED objects,
           \A q \in Slot : References(q)' = References(q),
           ~panic' => HasMm' = HasMm /\ \A q \in Slot : ReferenceInv(q)'
    PROVE  ObjectsInv'
<1>1. Held' = Held
  BY DEF Held
<1>2. mms' = mms /\ vmas' = vmas /\ dropped' = dropped
  BY DEF objects
<1>3. /\ 0 <= dropped /\ dropped <= vmas /\ vmas <= MaxObjects
      /\ 0 <= mms /\ mms <= MaxObjects
      /\ vmas = dropped + Cardinality(Held)
      /\ mms = Cardinality(HasMm)
  BY DEF ObjectsInv, ObjectsAccounted
<1>4. ObjectsAccounted'
  BY <1>1, <1>2, <1>3 DEF ObjectsAccounted
<1>. QED BY <1>1, <1>4 DEF ObjectsInv

\* For process q the step changes nothing that the counts depend on.
Quiet(q) ==
    /\ pgt'[q] = pgt[q] /\ SameVmas(q) /\ SamePhase(q)
    /\ pc'[q] = "root" <=> pc[q] = "root"

\* Such a step of every process changes no count.
LEMMA QuietStep ==
    ASSUME ObjectsInv, ~panic, UNCHANGED objects, \A q \in Slot : Quiet(q),
           ~panic' => \A q \in Slot : ReferenceInv(q)'
    PROVE  ObjectsInv'
<1>1. \A q \in Slot : References(q)' = References(q)
  BY SameReferences DEF Quiet
<1>2. HasMm' = HasMm
  BY DEF Quiet, HasMm
<1>. QED BY <1>1, <1>2, CountsStay

\* Where a process may go on without setting up or undoing its trampoline and trapframe.
LEMMA StillReferenced ==
    ASSUME NEW q, ReferenceInv(q), SameVmas(q),
           pc'[q] = pc[q]
             \/ pc'[q] \notin NoTrapframe \cup {"fvma", "trapframe", "zombie"}
             \/ /\ pc'[q] \in NoRoot \cup {"tvma", "trampoline"}
                /\ pc[q] \in NoRoot \cup {"tvma", "trampoline", "reap"}
    PROVE  ReferenceInv(q)'
BY DEF ReferenceInv, SameVmas, NoTrapframe, NoRoot

\* A step that only moves on: of p to l, and of nobody else.
LEMMA QuietMove ==
    ASSUME IInv, ObjectsInv, ~panic, UNCHANGED objects, NEW p \in Slot, NEW l,
           \A q \in Slot : pgt'[q] = pgt[q] /\ SameVmas(q),
           \A q \in Slot : q # p => pc'[q] = pc[q],
           pc'[p] = l, pc[p] \notin {"map", "trampoline", "trapframe", "root"},
           l \notin {"map", "trampoline", "trapframe", "root"},
           ~panic' => ReferenceInv(p)'
    PROVE  ObjectsInv'
<1>1. \A q \in Slot : Quiet(q)
  BY DEF Quiet, SamePhase
<1>2. ASSUME ~panic', NEW q \in Slot PROVE ReferenceInv(q)'
  <2>1. ReferenceInv(q)
    BY DEF ObjectsInv
  <2>2. CASE q = p
    BY <1>2, <2>2
  <2>3. CASE q # p
    BY <2>1, <2>3, StillReferenced
  <2>. QED BY <2>2, <2>3
<1>. QED BY <1>1, <1>2, QuietStep

\* kalloc(&vma_allocator) for x, which process p did not have.
LEMMA VmaTaken ==
    ASSUME IInv, ObjectsInv, ~panic, vmas # MaxObjects, vmas' = vmas + 1, mms' = mms, dropped' = dropped,
           NEW p \in Slot, NEW x, x \notin References(p), References(p)' = References(p) \cup {x},
           \A q \in Slot : q # p => References(q)' = References(q),
           HasMm' = HasMm, \A q \in Slot : ReferenceInv(q)'
    PROVE  ObjectsInv'
<1>1. IsFiniteSet(Held') /\ Cardinality(Held') = Cardinality(Held) + 1
  BY HeldGains DEF ObjectsInv
<1>2. /\ 0 <= dropped /\ dropped <= vmas /\ vmas <= MaxObjects
      /\ 0 <= mms /\ mms <= MaxObjects
      /\ vmas = dropped + Cardinality(Held)
      /\ mms = Cardinality(HasMm)
  BY DEF ObjectsInv, ObjectsAccounted
<1>3. /\ dropped' <= vmas' /\ vmas' <= MaxObjects
      /\ vmas' = dropped' + Cardinality(Held')
  BY <1>1, <1>2, Counts, TAssumption
<1>4. ObjectsAccounted'
  BY <1>2, <1>3 DEF ObjectsAccounted
<1>. QED BY <1>1, <1>4 DEF ObjectsInv

\* kfree(&vma_allocator), or the loss of the last pointer: p no longer refers to x.
LEMMA VmaGone ==
    ASSUME IInv, ObjectsInv, ~panic, mms' = mms,
           \/ vmas' = vmas - 1 /\ dropped' = dropped
           \/ vmas' = vmas /\ dropped' = dropped + 1,
           NEW p \in Slot, NEW x \in References(p), References(p)' = References(p) \ {x},
           \A q \in Slot : q # p => References(q)' = References(q),
           HasMm' = HasMm, \A q \in Slot : ReferenceInv(q)'
    PROVE  ObjectsInv'
<1>1. IsFiniteSet(Held') /\ Cardinality(Held') = Cardinality(Held) - 1
  BY HeldLoses DEF ObjectsInv
<1>2. /\ 0 <= dropped /\ dropped <= vmas /\ vmas <= MaxObjects
      /\ 0 <= mms /\ mms <= MaxObjects
      /\ vmas = dropped + Cardinality(Held)
      /\ mms = Cardinality(HasMm)
  BY DEF ObjectsInv, ObjectsAccounted
<1>3. Cardinality(Held') \in Nat
  BY <1>1, FS_CardinalityType
<1>4. /\ 0 <= dropped' /\ dropped' <= vmas' /\ vmas' <= MaxObjects
      /\ vmas' = dropped' + Cardinality(Held')
  BY <1>1, <1>2, <1>3, Counts, TAssumption
<1>5. ObjectsAccounted'
  BY <1>2, <1>4 DEF ObjectsAccounted
<1>. QED BY <1>1, <1>5 DEF ObjectsInv

\* The types of what the references depend on.
LEMMA PhaseTypes ==
    ASSUME IInv
    PROVE  /\ pc \in [Slot -> SlotPC] /\ pgt \in [Slot -> Page \cup {NoPage}]
           /\ \A q \in Slot : vma[q] \in Seq(Seq(UserVA)) /\ Len(vma[q]) \in Nat
           /\ vma \in [Slot -> Seq(Seq(UserVA))]
           /\ pte \in [Slot -> [VA -> Page \cup {NoPage, TrampolinePage, NullPA}]]
BY DEF IInv, TypeOK

\* An allocation of p for the mapping l.
LEMMA Objects_kalloc_vma ==
    ASSUME IInv, ObjectsInv, NEW p \in Slot,
           \/ kalloc_vma(p, "tvma", "trampoline")
           \/ kalloc_vma(p, "fvma", "trapframe")
           \/ mm_create_vma(p)
    PROVE  ObjectsInv'
<1>1. PICK l \in {"tvma", "fvma", "vma"}, next \in {"map", "trampoline", "trapframe"} :
        /\ kalloc_vma(p, l, next)
        /\ l = "tvma" <=> next = "trampoline"
        /\ l = "fvma" <=> next = "trapframe"
  <2>1. CASE kalloc_vma(p, "tvma", "trampoline")
    BY <2>1
  <2>2. CASE kalloc_vma(p, "fvma", "trapframe")
    BY <2>2
  <2>3. CASE mm_create_vma(p)
    BY <2>3 DEF mm_create_vma
  <2>. QED BY <2>1, <2>2, <2>3
<1>2. ~panic /\ pc[p] = l /\ UNCHANGED <<mmVars, mms, dropped>>
  BY <1>1 DEF kalloc_vma, At
<1>3. \A q \in Slot : pgt'[q] = pgt[q] /\ SameVmas(q)
  BY <1>2 DEF SameVmas, mmVars
<1>4. CASE vmas = MaxObjects
  <2>1. panic' /\ pc' = pc /\ vmas' = vmas
    BY <1>1, <1>4, Zenon DEF kalloc_vma, Panic
  <2>2. UNCHANGED objects /\ \A q \in Slot : Quiet(q)
    BY <1>2, <1>3, <2>1 DEF objects, Quiet, SamePhase
  <2>. QED BY <1>2, <2>1, <2>2, QuietStep
<1>5. CASE vmas # MaxObjects
  <2>1. vmas' = vmas + 1 /\ pc' = [pc EXCEPT ![p] = next] /\ panic' = panic
    BY <1>1, <1>5 DEF kalloc_vma, Goto
  <2>2. pc'[p] = next /\ \A q \in Slot : q # p => pc'[q] = pc[q]
    BY <2>1, PhaseTypes
  <2>3. \A q \in Slot : q # p => References(q)' = References(q)
    BY <1>3, <2>2, SameReferences DEF SamePhase
  <2>4. ReferenceInv(p)
    BY <1>2 DEF ObjectsInv
  <2>5. /\ <<next, 0>> \notin References(p)
        /\ References(p)' = References(p) \cup {<<next, 0>>}
    <3>1. <<next, 0>> \notin References(p)
      BY <1>1, <1>2, <2>4, ReferenceKinds DEF ReferenceInv, NoRoot, NoTrapframe
    <3>2. ASSUME NEW y PROVE y \in References(p)' <=> y \in References(p) \cup {<<next, 0>>}
      BY <1>1, <1>2, <1>3, <2>2, ReferenceKinds, ReferenceKindsNext DEF SameVmas
    <3>. QED BY <3>1, <3>2
  <2>6. HasMm' = HasMm
    BY <1>2, <1>3, <2>2 DEF HasMm
  <2>7. ASSUME NEW q \in Slot PROVE ReferenceInv(q)'
    <3>1. ReferenceInv(q)
      BY <1>2 DEF ObjectsInv
    <3>2. CASE q # p
      BY <1>3, <2>2, <3>1, <3>2, StillReferenced
    <3>3. CASE q = p
      <4>1. pte'[p][TRAMPOLINE] = pte[p][TRAMPOLINE] /\ pte'[p][TRAPFRAME] = pte[p][TRAPFRAME]
        BY <1>3 DEF SameVmas
      <4>. QED BY <1>1, <1>2, <2>2, <2>4, <3>3, <4>1 DEF ReferenceInv, NoRoot, NoTrapframe
    <3>. QED BY <3>2, <3>3
  <2>. QED BY <1>2, <1>5, <2>1, <2>3, <2>5, <2>6, <2>7, VmaTaken
<1>. QED BY <1>4, <1>5

\* kalloc(&mm_allocator), and the process that it makes one with an mm object.
LEMMA Objects_kalloc_mm ==
    ASSUME IInv, ObjectsInv, NEW p \in Slot, kalloc_mm(p)
    PROVE  ObjectsInv'
<1>1. ~panic /\ pc[p] = "mm" /\ UNCHANGED <<mmVars, vmas, dropped>>
  BY DEF kalloc_mm, At
<1>2. \A q \in Slot : pgt'[q] = pgt[q] /\ SameVmas(q)
  BY <1>1 DEF SameVmas, mmVars
<1>3. CASE mms = MaxObjects
  <2>1. panic' /\ pc' = pc /\ mms' = mms
    BY <1>3, Zenon DEF kalloc_mm, Panic
  <2>2. UNCHANGED objects /\ \A q \in Slot : Quiet(q)
    BY <1>1, <1>2, <2>1 DEF objects, Quiet, SamePhase
  <2>. QED BY <1>1, <2>1, <2>2, QuietStep
<1>4. CASE mms # MaxObjects
  <2>1. mms' = mms + 1 /\ pc' = [pc EXCEPT ![p] = "root"] /\ panic' = panic
    BY <1>4 DEF kalloc_mm, Goto
  <2>2. pc'[p] = "root" /\ \A q \in Slot : q # p => pc'[q] = pc[q]
    BY <2>1, PhaseTypes
  <2>3. Held' = Held
    <3>1. \A q \in Slot : References(q)' = References(q)
      BY <1>1, <1>2, <2>2, SameReferences DEF SamePhase
    <3>. QED BY <3>1 DEF Held
  <2>4. HasMm' = HasMm \cup {p} /\ p \notin HasMm
    <3>1. pgt[p] = NoPage
      BY <1>1 DEF IInv, SlotInv, SetupInv, NoRoot
    <3>. QED BY <1>1, <1>2, <2>2, <3>1 DEF HasMm
  <2>5. Cardinality(HasMm') = Cardinality(HasMm) + 1
    BY <2>4, Counts, FS_AddElement
  <2>6. /\ 0 <= dropped /\ dropped <= vmas /\ vmas <= MaxObjects
        /\ 0 <= mms /\ mms <= MaxObjects
        /\ vmas = dropped + Cardinality(Held)
        /\ mms = Cardinality(HasMm)
    BY <1>1 DEF ObjectsInv, ObjectsAccounted
  <2>7. 0 <= mms' /\ mms' <= MaxObjects /\ mms' = Cardinality(HasMm')
    BY <1>4, <2>1, <2>5, <2>6, Counts, TAssumption
  <2>8. ObjectsAccounted'
    BY <1>1, <2>3, <2>6, <2>7 DEF ObjectsAccounted
  <2>9. ASSUME NEW q \in Slot PROVE ReferenceInv(q)'
    <3>1. ReferenceInv(q)
      BY <1>1 DEF ObjectsInv
    <3>. QED BY <1>1, <1>2, <2>2, <3>1, StillReferenced DEF NoRoot
  <2>. QED BY <2>3, <2>8, <2>9 DEF ObjectsInv
<1>. QED BY <1>3, <1>4

\* mm_create keeps the object, or gives it back and panics.
LEMMA Objects_mm_create ==
    ASSUME IInv, ObjectsInv, NEW p \in Slot, mm_create(p)
    PROVE  ObjectsInv'
<1>1. ~panic /\ pc[p] = "root" /\ UNCHANGED <<pte, vma, vmas, dropped>>
  BY DEF mm_create, At
<1>2. \A q \in Slot : SameVmas(q)
  BY <1>1 DEF SameVmas
<1>3. CASE kallocpage = NullPA
  <2>1. panic' /\ pc' = pc /\ mms' = mms - 1
    BY <1>3, Zenon DEF mm_create, Panic
  <2>2. Held' = Held
    <3>1. \A q \in Slot : References(q)' = References(q)
      BY <1>2, <2>1, SameReferences DEF SamePhase
    <3>. QED BY <3>1 DEF Held
  <2>3. Cardinality(HasMm) # 0
    <3>1. p \in HasMm
      BY <1>1 DEF HasMm
    <3>. QED BY <3>1, Counts, FS_EmptySet
  <2>4. /\ 0 <= dropped /\ dropped <= vmas /\ vmas <= MaxObjects
        /\ 0 <= mms /\ mms <= MaxObjects
        /\ vmas = dropped + Cardinality(Held)
        /\ mms = Cardinality(HasMm)
    BY <1>1 DEF ObjectsInv, ObjectsAccounted
  <2>5. 0 <= mms' /\ mms' <= MaxObjects
    BY <2>1, <2>3, <2>4, Counts, TAssumption
  <2>6. ObjectsAccounted'
    BY <1>1, <2>1, <2>2, <2>4, <2>5 DEF ObjectsAccounted
  <2>. QED BY <2>1, <2>2, <2>6 DEF ObjectsInv
<1>4. CASE kallocpage # NullPA
  <2>1. /\ pgt' = [pgt EXCEPT ![p] = kallocpage] /\ pc' = [pc EXCEPT ![p] = "tvma"]
        /\ mms' = mms /\ panic' = panic
    BY <1>4 DEF mm_create, Goto
  <2>2. pc'[p] = "tvma" /\ \A q \in Slot : q # p => pc'[q] = pc[q] /\ pgt'[q] = pgt[q]
    BY <2>1, PhaseTypes
  <2>3. pgt'[p] # NoPage
    <3>1. kallocpage \in Page
      BY <1>4, Kallocpage DEF IInv, TypeOK
    <3>2. pgt'[p] = kallocpage
      BY <2>1, PhaseTypes
    <3>. QED BY <3>1, <3>2, PageAssumption
  <2>4. HasMm' = HasMm
    BY <1>1, <2>2, <2>3 DEF HasMm
  <2>5. \A q \in Slot : References(q)' = References(q)
    BY <1>1, <1>2, <2>2, SameReferences DEF SamePhase
  <2>6. ASSUME NEW q \in Slot PROVE ReferenceInv(q)'
    <3>1. ReferenceInv(q)
      BY <1>1 DEF ObjectsInv
    <3>. QED BY <1>1, <1>2, <2>2, <3>1, StillReferenced DEF NoRoot
  <2>7. UNCHANGED objects
    BY <1>1, <2>1 DEF objects
  <2>. QED BY <1>1, <2>4, <2>5, <2>6, <2>7, CountsStay
<1>. QED BY <1>3, <1>4

\* One mapping less: the object of l is forgotten, and p goes on to next.
LEMMA ForgetVma ==
    ASSUME IInv, ObjectsInv, ~panic, NEW p \in Slot, NEW l \in {"map", "trampoline", "trapframe"},
           NEW next, next \notin {"map", "trampoline", "trapframe", "root"},
           pc[p] = l, pc' = [pc EXCEPT ![p] = next],
           UNCHANGED <<pgt, pte, vma, vmas, mms>>, dropped' = dropped + 1,
           l = "trampoline" => pte[p][TRAMPOLINE] = NoPage,
           l = "trapframe" => pte[p][TRAPFRAME] = NoPage,
           ReferenceInv(p)'
    PROVE  ObjectsInv'
<1>1. \A q \in Slot : pgt'[q] = pgt[q] /\ SameVmas(q)
  BY DEF SameVmas
<1>2. pc'[p] = next /\ \A q \in Slot : q # p => pc'[q] = pc[q]
  BY PhaseTypes
<1>3. \A q \in Slot : q # p => References(q)' = References(q)
  BY <1>1, <1>2, SameReferences DEF SamePhase
<1>4. <<l, 0>> \in References(p) /\ References(p)' = References(p) \ {<<l, 0>>}
  <2>1. <<l, 0>> \in References(p)
    BY ReferenceKinds
  <2>2. ASSUME NEW y PROVE y \in References(p)' <=> y \in References(p) \ {<<l, 0>>}
    BY <1>1, <1>2, ReferenceKinds, ReferenceKindsNext DEF SameVmas
  <2>. QED BY <2>1, <2>2
<1>5. HasMm' = HasMm
  BY <1>1, <1>2 DEF HasMm
<1>6. ASSUME NEW q \in Slot PROVE ReferenceInv(q)'
  <2>1. ReferenceInv(q)
    BY DEF ObjectsInv
  <2>. QED BY <1>1, <1>2, <2>1, StillReferenced
<1>. QED BY <1>3, <1>4, <1>5, <1>6, VmaGone

\* walk changes a table, or else only what its caller does when it fails.
LEMMA WalkQuiet ==
    ASSUME IInv, ObjectsInv, ~panic, NEW p, NEW va, NEW fail, walk(p, va, fail)
    PROVE  ObjectsInv' \/ (kallocpage = NullPA /\ fail /\ UNCHANGED <<pgt, pte, vma, vmas, mms>>)
<1>1. UNCHANGED <<pgt, pte, vma, vmas, mms>>
  BY DEF walk
<1>2. CASE kallocpage = NullPA
  <2>1. fail
    BY <1>2, Zenon DEF walk
  <2>. QED BY <1>1, <1>2, <2>1
<1>3. CASE kallocpage # NullPA
  <2>1. UNCHANGED <<pc, dropped, panic>>
    BY <1>3 DEF walk
  <2>2. UNCHANGED objects /\ \A q \in Slot : Quiet(q)
    BY <1>1, <2>1 DEF objects, Quiet, SameVmas, SamePhase
  <2>3. ASSUME NEW q \in Slot PROVE ReferenceInv(q)'
    <3>1. ReferenceInv(q)
      BY DEF ObjectsInv
    <3>. QED BY <1>1, <2>1, <3>1, StillReferenced DEF SameVmas
  <2>4. ObjectsInv'
    BY <2>2, <2>3, QuietStep
  <2>. QED BY <2>4
<1>. QED BY <1>2, <1>3

\* The entry of the trampoline, or of the trapframe, replaces the mapping in progress.
LEMMA EntrySet ==
    ASSUME IInv, ObjectsInv, ~panic, NEW p \in Slot, UNCHANGED <<pgt, vma, objects, panic>>,
           NEW l \in {"trampoline", "trapframe"}, pc[p] = l,
           NEW next \in {"tf", "areas"}, next = "tf" <=> l = "trampoline",
           pc' = [pc EXCEPT ![p] = next],
           NEW va \in {TRAMPOLINE, TRAPFRAME}, va = TRAMPOLINE <=> l = "trampoline",
           NEW g \in Page \cup {TrampolinePage}, pte' = [pte EXCEPT ![p][va] = g]
    PROVE  ObjectsInv'
<1>1. pc'[p] = next /\ \A q \in Slot : q # p => pc'[q] = pc[q]
  BY PhaseTypes
<1>2. /\ TRAMPOLINE \in VA /\ TRAPFRAME \in VA /\ TRAMPOLINE # TRAPFRAME
      /\ g # NoPage
  BY LayoutAssumption, PageAssumption
<1>3. /\ pte'[p][va] = g
      /\ \A a \in {TRAMPOLINE, TRAPFRAME} : a # va => pte'[p][a] = pte[p][a]
      /\ \A q \in Slot : q # p => pte'[q] = pte[q]
  BY <1>2, PhaseTypes
<1>4. ASSUME NEW q \in Slot PROVE References(q)' = References(q)
  <2>1. CASE q # p
    BY <1>1, <1>3, <2>1, SameReferences DEF SameVmas, SamePhase
  <2>2. CASE q = p
    <3>1. ASSUME NEW y PROVE y \in References(p)' <=> y \in References(p)
      BY <1>1, <1>2, <1>3, ReferenceKinds, ReferenceKindsNext
    <3>. QED BY <2>2, <3>1
  <2>. QED BY <2>1, <2>2
<1>5. HasMm' = HasMm
  BY <1>1 DEF HasMm
<1>6. ASSUME NEW q \in Slot PROVE ReferenceInv(q)'
  <2>1. ReferenceInv(q)
    BY DEF ObjectsInv
  <2>2. CASE q # p
    BY <1>1, <1>3, <2>1, <2>2, StillReferenced DEF SameVmas
  <2>3. CASE q = p /\ l = "trampoline"
    BY <1>1, <1>2, <1>3, <2>1, <2>3 DEF ReferenceInv, NoRoot, NoTrapframe
  <2>4. CASE q = p /\ l = "trapframe"
    BY <1>1, <1>2, <1>3, <2>1, <2>4 DEF ReferenceInv, NoRoot, NoTrapframe
  <2>. QED BY <2>2, <2>3, <2>4
<1>. QED BY <1>4, <1>5, <1>6, CountsStay

\* The trampoline's mapping is complete, or forgotten.
LEMMA Objects_map_trampoline ==
    ASSUME IInv, ObjectsInv, NEW p \in Slot, map_trampoline(p)
    PROVE  ObjectsInv'
<1>0. ~panic /\ pc[p] = "trampoline"
  BY DEF map_trampoline, At
<1>1. ReferenceInv(p)
  BY <1>0 DEF ObjectsInv
<1>2. CASE walk(p, TRAMPOLINE, Goto(p, "tf") /\ dropped' = dropped + 1 /\ UNCHANGED <<k, panic>>)
  <2>1. \/ ObjectsInv'
        \/ /\ Goto(p, "tf") /\ dropped' = dropped + 1
           /\ UNCHANGED <<pgt, pte, vma, vmas, mms>>
    BY <1>0, <1>2, WalkQuiet
  <2>2. ASSUME Goto(p, "tf"), dropped' = dropped + 1, UNCHANGED <<pgt, pte, vma, vmas, mms>>
        PROVE  ObjectsInv'
    <3>1. pc' = [pc EXCEPT ![p] = "tf"]
      BY <2>2 DEF Goto
    <3>2. ReferenceInv(p)'
      BY <1>0, <1>1, <2>2, <3>1, PhaseTypes DEF ReferenceInv, NoRoot, NoTrapframe
    <3>3. pte[p][TRAMPOLINE] = NoPage
      BY <1>0, <1>1 DEF ReferenceInv
    <3>. QED BY <1>0, <2>2, <3>1, <3>2, <3>3, ForgetVma
  <2>. QED BY <2>1, <2>2
<1>3. CASE /\ pte' = [pte EXCEPT ![p][TRAMPOLINE] = TrampolinePage] /\ Goto(p, "tf")
           /\ UNCHANGED <<pgt, vma, objects, panic>>
  BY <1>0, <1>3, EntrySet, LayoutAssumption DEF Goto
<1>. QED BY <1>2, <1>3 DEF map_trampoline

\* The same for the trapframe.
LEMMA Objects_map_trapframe ==
    ASSUME IInv, ObjectsInv, NEW p \in Slot, map_trapframe(p)
    PROVE  ObjectsInv'
<1>0. ~panic /\ pc[p] = "trapframe"
  BY DEF map_trapframe, At
<1>1. ReferenceInv(p)
  BY <1>0 DEF ObjectsInv
<1>2. CASE walk(p, TRAPFRAME, Goto(p, "areas") /\ dropped' = dropped + 1 /\ UNCHANGED <<k, panic>>)
  <2>1. \/ ObjectsInv'
        \/ /\ Goto(p, "areas") /\ dropped' = dropped + 1
           /\ UNCHANGED <<pgt, pte, vma, vmas, mms>>
    BY <1>0, <1>2, WalkQuiet
  <2>2. ASSUME Goto(p, "areas"), dropped' = dropped + 1, UNCHANGED <<pgt, pte, vma, vmas, mms>>
        PROVE  ObjectsInv'
    <3>1. pc' = [pc EXCEPT ![p] = "areas"]
      BY <2>2 DEF Goto
    <3>2. ReferenceInv(p)'
      BY <1>0, <1>1, <2>2, <3>1, PhaseTypes DEF ReferenceInv, NoRoot, NoTrapframe
    <3>3. pte[p][TRAPFRAME] = NoPage
      BY <1>0, <1>1 DEF ReferenceInv
    <3>. QED BY <1>0, <2>2, <3>1, <3>2, <3>3, ForgetVma
  <2>. QED BY <2>1, <2>2
<1>3. CASE /\ pte' = [pte EXCEPT ![p][TRAPFRAME] = trapframe[p]] /\ Goto(p, "areas")
           /\ UNCHANGED <<pgt, vma, objects, panic>>
  <2>1. trapframe[p] \in Page
    BY <1>0 DEF IInv, SlotInv, SetupInv, NoTrapframe, NoRoot
  <2>. QED BY <1>0, <1>3, <2>1, EntrySet, LayoutAssumption DEF Goto
<1>. QED BY <1>2, <1>3 DEF map_trapframe

\* Steps that set up no mapping and undo none.
LEMMA Objects_moves ==
    ASSUME IInv, ObjectsInv, NEW p \in Slot,
           alloc_trapframe(p) \/ begin_areas(p) \/ fill(p) \/ exec_load(p) \/ exit(p)
             \/ fork_failed(p) \/ \E a \in App : exec(p, a)
    PROVE  ObjectsInv'
<1>0. ~panic
  BY DEF alloc_trapframe, begin_areas, fill, exec_load, exit, fork_failed, exec, User, At
<1>1. ReferenceInv(p)
  BY <1>0 DEF ObjectsInv
<1>2. UNCHANGED <<pgt, pte, vma, objects>>
  BY DEF alloc_trapframe, begin_areas, fill, exec_load, exit, fork_failed, exec, mmVars
<1>3. \A q \in Slot : pgt'[q] = pgt[q] /\ SameVmas(q)
  BY <1>2 DEF SameVmas
<1>4. CASE pc' = pc
  <2>1. \A q \in Slot : Quiet(q)
    BY <1>3, <1>4 DEF Quiet, SamePhase
  <2>2. ASSUME NEW q \in Slot PROVE ReferenceInv(q)'
    <3>1. ReferenceInv(q)
      BY <1>0 DEF ObjectsInv
    <3>. QED BY <1>3, <1>4, <3>1, StillReferenced
  <2>. QED BY <1>0, <1>2, <2>1, <2>2, QuietStep
<1>5. CASE pc' # pc
  <2>1. PICK l \in {"fvma", "vma", "areas", "zombie", "exec"} : Goto(p, l) /\ (l = "fvma" <=> pc[p] = "tf")
          /\ pc[p] \in {"tf", "areas", "fill", "exec", "run"}
          /\ (l = "zombie" => User(p))
    <3>1. CASE alloc_trapframe(p)
      BY <1>5, <3>1 DEF alloc_trapframe, At, Panic
    <3>2. CASE begin_areas(p) \/ fill(p) \/ exec_load(p)
      BY <3>2 DEF begin_areas, fill, exec_load, At
    <3>3. CASE exit(p) \/ \E a \in App : exec(p, a)
      BY <3>3 DEF exit, exec, User, At
    <3>4. CASE fork_failed(p)
      BY <1>5, <3>4 DEF fork_failed, workVars
    <3>. QED BY <3>1, <3>2, <3>3, <3>4
  <2>2. pc'[p] = l /\ \A q \in Slot : q # p => pc'[q] = pc[q]
    BY <2>1, PhaseTypes DEF Goto
  <2>3. ReferenceInv(p)'
    <3>1. pte'[p][TRAMPOLINE] = pte[p][TRAMPOLINE] /\ pte'[p][TRAPFRAME] = pte[p][TRAPFRAME]
      BY <1>2
    <3>2. l = "zombie" => pte[p][TRAMPOLINE] # NoPage /\ pte[p][TRAPFRAME] # NoPage
      BY <2>1 DEF User
    <3>. QED BY <1>1, <2>1, <2>2, <3>1, <3>2 DEF ReferenceInv, NoRoot, NoTrapframe
  <2>. QED BY <1>0, <1>2, <1>3, <2>1, <2>2, <2>3, QuietMove
<1>. QED BY <1>4, <1>5

\* The page of an area is mapped, or the mapping is given up.
LEMMA Objects_mm_mappages ==
    ASSUME IInv, ObjectsInv, NEW p \in Slot, mm_mappages(p)
    PROVE  ObjectsInv'
<1>0. ~panic /\ pc[p] = "map" /\ k[p] < Len(Area(p))
  BY DEF mm_mappages, At
<1>1. ReferenceInv(p)
  BY <1>0 DEF ObjectsInv
<1>2. PICK va \in UserVA :
        \/ walk(p, va, mappages_failed(p))
        \/ mappages_failed(p) /\ UNCHANGED <<pgt, pte, vma, vmas, mms>>
        \/ pte' = [pte EXCEPT ![p][va] = kallocpage] /\ UNCHANGED <<pgt, vma, pc, objects, panic>>
  <2>1. Area(p)[k[p] + 1] \in UserVA
    <3>1. areas[p] \in Seq(Seq(UserVA)) /\ areas[p] # <<>> /\ k[p] \in Nat
      BY <1>0 DEF IInv, TypeOK, SlotInv, ListInv
    <3>2. Area(p) \in Seq(UserVA)
      BY <3>1 DEF Area
    <3>. QED BY <1>0, <3>1, <3>2
  <2>. QED BY <2>1 DEF mm_mappages, objects
<1>3. ASSUME mappages_failed(p), UNCHANGED <<pgt, pte, vma, vmas, mms>>
      PROVE  ObjectsInv'
  <2>1. CASE by[p] = NoSlot
    <3>1. panic' /\ UNCHANGED <<pc, dropped>>
      BY <1>3, <2>1, Zenon DEF mappages_failed, Panic
    <3>2. UNCHANGED objects /\ \A q \in Slot : Quiet(q)
      BY <1>3, <3>1 DEF objects, Quiet, SameVmas, SamePhase
    <3>. QED BY <1>0, <3>1, <3>2, QuietStep
  <2>2. CASE by[p] # NoSlot
    <3>1. pc' = [pc EXCEPT ![p] = "err"] /\ dropped' = dropped + 1
      BY <1>3, <2>2 DEF mappages_failed, Goto
    <3>2. ReferenceInv(p)'
      BY <3>1, PhaseTypes DEF ReferenceInv, NoRoot, NoTrapframe
    <3>. QED BY <1>0, <1>3, <3>1, <3>2, ForgetVma
  <2>. QED BY <2>1, <2>2
<1>4. CASE walk(p, va, mappages_failed(p))
  BY <1>0, <1>3, <1>4, WalkQuiet
<1>5. CASE pte' = [pte EXCEPT ![p][va] = kallocpage] /\ UNCHANGED <<pgt, vma, pc, objects, panic>>
  <2>1. \A q \in Slot : SameVmas(q)
    BY <1>5, PhaseTypes, LayoutAssumption DEF SameVmas, UserVA
  <2>2. \A q \in Slot : Quiet(q)
    BY <1>5, <2>1 DEF Quiet, SamePhase
  <2>3. ASSUME NEW q \in Slot PROVE ReferenceInv(q)'
    <3>1. ReferenceInv(q)
      BY <1>0 DEF ObjectsInv
    <3>. QED BY <1>5, <2>1, <3>1, StillReferenced
  <2>. QED BY <1>0, <1>5, <2>2, <2>3, QuietStep
<1>. QED BY <1>2, <1>3, <1>4, <1>5

\* The reference from the mapping in progress becomes one from the list.
LEMMA Objects_link_area ==
    ASSUME IInv, ObjectsInv, NEW p \in Slot, link_area(p)
    PROVE  ObjectsInv'
<1>0. ~panic /\ pc[p] = "map" /\ UNCHANGED <<pgt, pte, objects, panic>>
  BY DEF link_area, At
<1>1. vma' = [vma EXCEPT ![p] = <<Area(p)>> \o @] /\ pc' = [pc EXCEPT ![p] = "fill"]
  BY DEF link_area, Goto
<1>2. pc'[p] = "fill" /\ \A q \in Slot : q # p => pc'[q] = pc[q] /\ vma'[q] = vma[q]
  BY <1>1, PhaseTypes
<1>3. Len(vma'[p]) = Len(vma[p]) + 1
  <2>1. Area(p) \in Seq(UserVA)
    <3>1. areas[p] \in Seq(Seq(UserVA)) /\ areas[p] # <<>>
      BY <1>0 DEF IInv, TypeOK, SlotInv, ListInv
    <3>. QED BY <3>1 DEF Area
  <2>2. vma'[p] = <<Area(p)>> \o vma[p]
    BY <1>1, PhaseTypes
  <2>. QED BY <2>1, <2>2, PhaseTypes
<1>4. PICK m \in Nat : m = Len(vma[p])
  BY PhaseTypes
<1>5. /\ <<"map", 0>> \in References(p) /\ <<"area", m + 1>> \notin References(p)
      /\ References(p)' = (References(p) \ {<<"map", 0>>}) \cup {<<"area", m + 1>>}
  <2>1. <<"map", 0>> \in References(p)
    BY <1>0, ReferenceKinds
  <2>2. <<"area", m + 1>> \notin References(p)
    BY <1>4, ReferenceKinds
  <2>3. ASSUME NEW y
        PROVE  y \in References(p)' <=> y \in (References(p) \ {<<"map", 0>>}) \cup {<<"area", m + 1>>}
    <3>1. (\E i \in 1 .. Len(vma'[p]) : y = <<"area", i>>) <=>
            (\E i \in 1 .. Len(vma[p]) : y = <<"area", i>>) \/ y = <<"area", m + 1>>
      BY <1>3, <1>4
    <3>. QED BY <1>0, <1>2, <3>1, ReferenceKinds, ReferenceKindsNext
  <2>. QED BY <2>1, <2>2, <2>3
<1>6. \A q \in Slot : q # p => References(q)' = References(q)
  BY <1>0, <1>2, SameReferences DEF SameVmas, SamePhase
<1>7. IsFiniteSet(Held') /\ Cardinality(Held') = Cardinality(Held)
  BY <1>5, <1>6, HeldSwaps DEF ObjectsInv
<1>8. HasMm' = HasMm
  BY <1>0, <1>2 DEF HasMm
<1>9. ObjectsAccounted'
  <2>1. /\ 0 <= dropped /\ dropped <= vmas /\ vmas <= MaxObjects
        /\ 0 <= mms /\ mms <= MaxObjects
        /\ vmas = dropped + Cardinality(Held)
        /\ mms = Cardinality(HasMm)
    BY <1>0 DEF ObjectsInv, ObjectsAccounted
  <2>. QED BY <1>0, <1>7, <1>8, <2>1 DEF ObjectsAccounted, objects
<1>10. ASSUME NEW q \in Slot PROVE ReferenceInv(q)'
  <2>1. ReferenceInv(q)
    BY <1>0 DEF ObjectsInv
  <2>2. CASE q = p
    BY <1>2, <2>2 DEF ReferenceInv, NoRoot, NoTrapframe
  <2>3. CASE q # p
    BY <1>0, <1>2, <2>1, <2>3, StillReferenced DEF SameVmas
  <2>. QED BY <2>2, <2>3
<1>. QED BY <1>7, <1>9, <1>10 DEF ObjectsInv

\* Pages of an area are unmapped one by one.
LEMMA Objects_freevma ==
    ASSUME IInv, ObjectsInv, NEW p \in Slot, freevma(p)
    PROVE  ObjectsInv'
<1>0. ~panic /\ UNCHANGED <<pgt, vma, pc, objects, panic>>
  BY DEF freevma, Unmapping, At
<1>1. PICK va \in UserVA : pte' = [pte EXCEPT ![p][va] = NoPage]
  <2>1. Head(vma[p])[k[p] + 1] \in UserVA
    <3>1. vma[p] \in Seq(Seq(UserVA)) /\ vma[p] # <<>> /\ k[p] \in Nat /\ k[p] < Len(Head(vma[p]))
      BY DEF IInv, TypeOK, freevma
    <3>2. Head(vma[p]) \in Seq(UserVA)
      BY <3>1
    <3>. QED BY <3>1, <3>2
  <2>. QED BY <2>1 DEF freevma
<1>2. \A q \in Slot : SameVmas(q)
  BY <1>0, <1>1, PhaseTypes, LayoutAssumption DEF SameVmas, UserVA
<1>3. \A q \in Slot : Quiet(q)
  BY <1>0, <1>2 DEF Quiet, SamePhase
<1>4. ASSUME NEW q \in Slot PROVE ReferenceInv(q)'
  <2>1. ReferenceInv(q)
    BY <1>0 DEF ObjectsInv
  <2>. QED BY <1>0, <1>2, <2>1, StillReferenced
<1>. QED BY <1>0, <1>3, <1>4, QuietStep

\* Then its object goes back.
LEMMA Objects_unlink_area ==
    ASSUME IInv, ObjectsInv, NEW p \in Slot, unlink_area(p)
    PROVE  ObjectsInv'
<1>0. /\ ~panic /\ UNCHANGED <<pgt, pte, pc, mms, dropped, panic>>
      /\ vmas' = vmas - 1 /\ vma[p] # <<>> /\ vma' = [vma EXCEPT ![p] = Tail(vma[p])]
  BY DEF unlink_area, Unmapping, At, kfree_vma
<1>1. PICK m \in Nat : m = Len(vma[p]) /\ m # 0 /\ Len(vma'[p]) = m - 1
  <2>1. vma'[p] = Tail(vma[p])
    BY <1>0, PhaseTypes
  <2>. QED BY <1>0, <2>1, PhaseTypes, TailOf
<1>2. \A q \in Slot : q # p => vma'[q] = vma[q]
  BY <1>0, PhaseTypes
<1>3. <<"area", m>> \in References(p) /\ References(p)' = References(p) \ {<<"area", m>>}
  <2>1. <<"area", m>> \in References(p)
    BY <1>1, ReferenceKinds
  <2>2. ASSUME NEW y PROVE y \in References(p)' <=> y \in References(p) \ {<<"area", m>>}
    <3>1. (\E i \in 1 .. Len(vma'[p]) : y = <<"area", i>>) <=>
            (\E i \in 1 .. Len(vma[p]) : y = <<"area", i>>) /\ y # <<"area", m>>
      BY <1>1
    <3>. QED BY <1>0, <3>1, ReferenceKinds, ReferenceKindsNext
  <2>. QED BY <2>1, <2>2
<1>4. \A q \in Slot : q # p => References(q)' = References(q)
  BY <1>0, <1>2, SameReferences DEF SameVmas, SamePhase
<1>5. HasMm' = HasMm
  BY <1>0 DEF HasMm
<1>6. ASSUME NEW q \in Slot PROVE ReferenceInv(q)'
  <2>1. ReferenceInv(q)
    BY <1>0 DEF ObjectsInv
  <2>. QED BY <1>0, <2>1 DEF ReferenceInv
<1>. QED BY <1>0, <1>3, <1>4, <1>5, <1>6, VmaGone

\* mm_free: no vma object is left, and the mm object goes back.
LEMMA Objects_mm_free ==
    ASSUME IInv, ObjectsInv, NEW p \in Slot, mm_free(p)
    PROVE  ObjectsInv'
<1>0. /\ ~panic /\ pc[p] = "reap" /\ UNCHANGED <<pte, vma, vmas, dropped, panic>>
      /\ pgt' = [pgt EXCEPT ![p] = NoPage] /\ mms' = mms - 1
      /\ pc' = [pc EXCEPT ![p] = "unused", ![by[p]] = "run"]
  BY DEF mm_free, At
<1>1. by[p] \in Slot /\ pc[by[p]] = "wait"
  <2>1. by[p] \in Slot \cup {NoSlot} /\ ByInv(p)
    BY <1>0 DEF IInv, TypeOK
  <2>. QED BY <1>0, <2>1 DEF ByInv, Building
<1>2. /\ pc'[p] = "unused" /\ pc'[by[p]] = "run"
      /\ \A q \in Slot : q # p /\ q # by[p] => pc'[q] = pc[q]
      /\ pgt'[p] = NoPage /\ \A q \in Slot : q # p => pgt'[q] = pgt[q]
  BY <1>0, <1>1, PhaseTypes
<1>3. \A q \in Slot : SameVmas(q) /\ SamePhase(q)
  BY <1>0, <1>1, <1>2 DEF SameVmas, SamePhase
<1>4. Held' = Held
  <2>1. \A q \in Slot : References(q)' = References(q)
    BY <1>3, SameReferences
  <2>. QED BY <2>1 DEF Held
<1>5. p \in HasMm /\ HasMm' = HasMm \ {p}
  <2>1. pgt[p] # NoPage
    BY <1>0, PageAssumption DEF IInv, SlotInv, SetupInv, NoRoot
  <2>. QED BY <1>0, <1>1, <1>2, <2>1 DEF HasMm
<1>6. Cardinality(HasMm') = Cardinality(HasMm) - 1 /\ Cardinality(HasMm) # 0
  BY <1>5, Counts, FS_RemoveElement, FS_EmptySet
<1>7. /\ 0 <= dropped /\ dropped <= vmas /\ vmas <= MaxObjects
      /\ 0 <= mms /\ mms <= MaxObjects
      /\ vmas = dropped + Cardinality(Held)
      /\ mms = Cardinality(HasMm)
  BY <1>0 DEF ObjectsInv, ObjectsAccounted
<1>8. 0 <= mms' /\ mms' <= MaxObjects /\ mms' = Cardinality(HasMm')
  BY <1>0, <1>6, <1>7, Counts, TAssumption
<1>9. ObjectsAccounted'
  BY <1>0, <1>4, <1>7, <1>8 DEF ObjectsAccounted
<1>10. ASSUME NEW q \in Slot PROVE ReferenceInv(q)'
  <2>1. ReferenceInv(q)
    BY <1>0 DEF ObjectsInv
  <2>2. CASE q = p
    BY <1>0, <1>2, <1>3, <2>1, <2>2, StillReferenced DEF NoRoot, ReferenceInv, NoTrapframe
  <2>3. CASE q = by[p]
    BY <1>2, <2>3 DEF ReferenceInv, NoRoot, NoTrapframe
  <2>4. CASE q # p /\ q # by[p]
    BY <1>2, <1>3, <2>1, <2>4, StillReferenced
  <2>. QED BY <2>2, <2>3, <2>4
<1>. QED BY <1>4, <1>9, <1>10 DEF ObjectsInv

\* Two processes change their state and keep what they have: fork begins and ends.
LEMMA QuietPair ==
    ASSUME ObjectsInv, ~panic, UNCHANGED <<pgt, pte, vma, objects, panic>>,
           NEW p \in Slot, NEW q \in Slot,
           pc[p] \notin {"map", "trampoline", "trapframe", "root"},
           pc[q] \notin {"map", "trampoline", "trapframe", "root"},
           pc'[p] \notin {"map", "trampoline", "trapframe", "root"},
           pc'[q] \notin {"map", "trampoline", "trapframe", "root"},
           \A s \in Slot : s # p /\ s # q => pc'[s] = pc[s],
           ReferenceInv(p)', ReferenceInv(q)'
    PROVE  ObjectsInv'
<1>1. \A s \in Slot : SameVmas(s)
  BY DEF SameVmas
<1>2. \A s \in Slot : Quiet(s)
  BY <1>1 DEF Quiet, SamePhase
<1>3. ASSUME NEW s \in Slot PROVE ReferenceInv(s)'
  <2>1. ReferenceInv(s)
    BY DEF ObjectsInv
  <2>2. CASE s # p /\ s # q
    BY <1>1, <2>1, <2>2, StillReferenced
  <2>. QED BY <2>2
<1>. QED BY <1>2, <1>3, QuietStep

\* fork begins.
LEMMA Objects_fork ==
    ASSUME IInv, ObjectsInv, NEW p \in Slot, NEW n \in Slot, fork(p, n)
    PROVE  ObjectsInv'
<1>0. /\ ~panic /\ pc[p] = "run" /\ pc[n] = "unused" /\ UNCHANGED <<pgt, pte, vma, objects, panic>>
      /\ pc' = [pc EXCEPT ![p] = "fork", ![n] = "mm"]
  BY DEF fork, User, At, mmVars
<1>1. /\ pc'[p] = "fork" /\ pc'[n] = "mm" /\ p # n
      /\ \A q \in Slot : q # p /\ q # n => pc'[q] = pc[q]
  BY <1>0, PhaseTypes
<1>2. ReferenceInv(p)'
  BY <1>1 DEF ReferenceInv, NoRoot, NoTrapframe
<1>3. ReferenceInv(n)'
  <2>1. ReferenceInv(n)
    BY <1>0 DEF ObjectsInv
  <2>. QED BY <1>0, <1>1, <2>1 DEF ReferenceInv, NoRoot, NoTrapframe
<1>. QED BY <1>0, <1>1, <1>2, <1>3, QuietPair

\* fork, exec or load_init_app ends.
LEMMA Objects_end_areas ==
    ASSUME IInv, ObjectsInv, NEW p \in Slot, end_areas(p)
    PROVE  ObjectsInv'
<1>0. PICK n \in Slot : pc' = [pc EXCEPT ![p] = "run", ![n] = "run"]
                       /\ pc[n] \in {"vma", "fork"}
  <2>1. pc[p] = "vma" /\ by[p] \in Slot \cup {NoSlot} /\ ByInv(p)
    BY DEF end_areas, At, IInv, TypeOK
  <2>. QED BY <2>1 DEF end_areas, ByInv
<1>1. ~panic /\ pc[p] = "vma" /\ UNCHANGED <<pgt, pte, vma, objects, panic>>
  BY DEF end_areas, At, mmVars
<1>2. /\ pc'[p] = "run" /\ pc'[n] = "run"
      /\ \A q \in Slot : q # p /\ q # n => pc'[q] = pc[q]
  BY <1>0, PhaseTypes
<1>3. ReferenceInv(p)' /\ ReferenceInv(n)'
  BY <1>2 DEF ReferenceInv, NoRoot, NoTrapframe
<1>. QED BY <1>0, <1>1, <1>2, <1>3, QuietPair

\* freeproc forgets the objects of the trampoline and of the trapframe.
LEMMA Objects_freeproc ==
    ASSUME IInv, ObjectsInv, NEW p \in Slot, NEW n \in Slot, freeproc(p, n)
    PROVE  ObjectsInv'
<1>0. /\ ~panic /\ pc[p] = "run" /\ pc[n] = "zombie"
      /\ UNCHANGED <<pgt, vma, vmas, mms, panic>> /\ dropped' = dropped + 2
      /\ pte' = [pte EXCEPT ![n][TRAMPOLINE] = NoPage, ![n][TRAPFRAME] = NoPage]
      /\ pc' = [pc EXCEPT ![p] = "wait", ![n] = "reap"]
  BY DEF freeproc, User, At
<1>1. /\ pc'[p] = "wait" /\ pc'[n] = "reap" /\ p # n
      /\ \A q \in Slot : q # p /\ q # n => pc'[q] = pc[q]
  BY <1>0, PhaseTypes
<1>2. /\ pte'[n][TRAMPOLINE] = NoPage /\ pte'[n][TRAPFRAME] = NoPage
      /\ \A q \in Slot : q # n => pte'[q] = pte[q]
  BY <1>0, PhaseTypes, LayoutAssumption
<1>3. pte[n][TRAMPOLINE] # NoPage /\ pte[n][TRAPFRAME] # NoPage
  BY <1>0 DEF ObjectsInv, ReferenceInv
<1>4. \A q \in Slot : q # n => References(q)' = References(q)
  BY <1>0, <1>1, <1>2, SameReferences DEF SameVmas, SamePhase
<1>5. PICK x, y : x = <<"trampoline", 0>> /\ y = <<"trapframe", 0>>
  OBVIOUS
<1>6. x \in References(n) /\ y \in References(n) /\ x # y /\ References(n)' = References(n) \ {x, y}
  <2>1. x \in References(n) /\ y \in References(n) /\ x # y
    BY <1>3, <1>5, ReferenceKinds
  <2>2. ASSUME NEW z PROVE z \in References(n)' <=> z \in References(n) \ {x, y}
    <3>1. z \in References(n)' <=> \E i \in 1 .. Len(vma[n]) : z = <<"area", i>>
      BY <1>0, <1>1, <1>2, ReferenceKindsNext
    <3>2. z \in References(n) <=> z \in {x, y} \/ \E i \in 1 .. Len(vma[n]) : z = <<"area", i>>
      BY <1>0, <1>3, <1>5, ReferenceKinds
    <3>3. \A i : <<"area", i>> # x /\ <<"area", i>> # y
      BY <1>5
    <3>. QED BY <3>1, <3>2, <3>3
  <2>. QED BY <2>1, <2>2
<1>7. IsFiniteSet(Held') /\ Cardinality(Held') = Cardinality(Held) - 2
  BY <1>4, <1>6, HeldLosesTwo DEF ObjectsInv
<1>8. HasMm' = HasMm
  BY <1>0, <1>1 DEF HasMm
<1>9. ObjectsAccounted'
  <2>1. /\ 0 <= dropped /\ dropped <= vmas /\ vmas <= MaxObjects
        /\ 0 <= mms /\ mms <= MaxObjects
        /\ vmas = dropped + Cardinality(Held)
        /\ mms = Cardinality(HasMm)
    BY <1>0 DEF ObjectsInv, ObjectsAccounted
  <2>2. Cardinality(Held') \in Nat
    BY <1>7, FS_CardinalityType
  <2>3. 0 <= dropped' /\ dropped' <= vmas' /\ vmas' = dropped' + Cardinality(Held')
    BY <1>0, <1>7, <2>1, <2>2, Counts
  <2>. QED BY <1>0, <1>8, <2>1, <2>3 DEF ObjectsAccounted
<1>10. ASSUME NEW q \in Slot PROVE ReferenceInv(q)'
  <2>1. ReferenceInv(q)
    BY <1>0 DEF ObjectsInv
  <2>2. CASE q = p
    BY <1>1, <2>2 DEF ReferenceInv, NoRoot, NoTrapframe
  <2>3. CASE q = n
    BY <1>1, <1>2, <2>3 DEF ReferenceInv
  <2>4. CASE q # p /\ q # n
    BY <1>0, <1>1, <1>2, <2>1, <2>4, StillReferenced DEF SameVmas
  <2>. QED BY <2>2, <2>3, <2>4
<1>. QED BY <1>7, <1>9, <1>10 DEF ObjectsInv

\* No object has been allocated.
LEMMA InitObjectsInv == Init => ObjectsInv
<1> SUFFICES ASSUME Init PROVE ObjectsInv
  OBVIOUS
<1>1. ASSUME NEW q \in Slot
      PROVE  /\ pc[q] \in {"mm", "unused"} /\ pgt[q] = NoPage /\ vma[q] = <<>>
             /\ pte[q][TRAMPOLINE] = NoPage /\ pte[q][TRAPFRAME] = NoPage
  BY LayoutAssumption DEF Init
<1>2. Held = {}
  <2>1. \A q \in Slot : References(q) = {}
    BY <1>1, ReferenceKinds
  <2>. QED BY <2>1 DEF Held
<1>3. HasMm = {}
  BY <1>1 DEF HasMm
<1>4. mms = 0 /\ vmas = 0 /\ dropped = 0
  BY DEF Init
<1>5. ObjectsAccounted
  BY <1>2, <1>3, <1>4, FS_EmptySet, TAssumption DEF ObjectsAccounted
<1>6. \A q \in Slot : ReferenceInv(q)
  BY <1>1 DEF ReferenceInv
<1>. QED BY <1>2, <1>5, <1>6, FS_EmptySet DEF ObjectsInv

\* Every step of every process preserves the second invariant.
LEMMA NextObjectsInv == IInv /\ ObjectsInv /\ [Next]_vars => ObjectsInv'
<1> SUFFICES ASSUME IInv, ObjectsInv, [Next]_vars PROVE ObjectsInv'
  OBVIOUS
<1>1. ASSUME NEW p \in Slot, Build(p) PROVE ObjectsInv'
  BY <1>1, Objects_kalloc_mm, Objects_mm_create, Objects_kalloc_vma, Objects_map_trampoline,
     Objects_map_trapframe, Objects_moves, Objects_mm_mappages, Objects_link_area,
     Objects_end_areas, Objects_freevma, Objects_unlink_area, Objects_mm_free DEF Build
<1>2. ASSUME NEW p \in Slot, exit(p) \/ \E a \in App : exec(p, a) PROVE ObjectsInv'
  BY <1>2, Objects_moves
<1>3. ASSUME NEW p \in Slot, NEW n \in Slot, fork(p, n) \/ freeproc(p, n) PROVE ObjectsInv'
  BY <1>3, Objects_fork, Objects_freeproc
<1>4. CASE UNCHANGED vars
  <2>1. UNCHANGED <<pc, pgt, pte, vma, objects, panic, mms, vmas, dropped>>
    BY <1>4 DEF vars, mmVars, workVars, objects
  <2>2. Held' = Held
    BY <2>1 DEF Held, References
  <2>3. HasMm' = HasMm
    BY <2>1 DEF HasMm
  <2>4. ObjectsAccounted'
    BY <2>1, <2>2, <2>3 DEF ObjectsInv, ObjectsAccounted
  <2>5. \A q \in Slot : ReferenceInv(q)' <=> ReferenceInv(q)
    BY <2>1 DEF ReferenceInv
  <2>. QED BY <2>1, <2>2, <2>4, <2>5 DEF ObjectsInv
<1>. QED BY <1>1, <1>2, <1>3, <1>4 DEF Next

\* mm_allocator and vma_allocator hand out and get back every object once: their counts are
\* those of the objects in use, and of the vma objects that freeproc and failed mappings forget.
THEOREM EveryObjectAccounted == Spec => []ObjectsAccounted
<1>1. Spec => [](IInv /\ ObjectsInv)
  BY InitIInv, NextIInv, InitObjectsInv, NextObjectsInv, PTL DEF Spec
<1>2. ObjectsInv => ObjectsAccounted
  BY DEF ObjectsInv
<1>. QED BY <1>1, <1>2, PTL
====
