---- MODULE Memory ----
\* The memory of the kernel: the free list and the object allocators of os/kalloc.c, and the
\* address spaces that os/vm.c builds from them for fork, exec and wait (os/proc.c,
\* os/loader.c).
\*
\* Every kallocpage, kfreepage and kalloc is a critical section of its own, so processes that
\* build and tear down address spaces interleave page by page.  What one process does
\* to one address space is sequential: pc is where that work stands.
\*
\* Proc.tla has the locks and whose child a process is; here any running process may
\* wait for any zombie.  Of the objects that kalloc hands out (struct mm, struct vma) only
\* their number matters: an allocator is its allocated_count.
EXTENDS Integers, Sequences, FiniteSetsExt

CONSTANTS
    Page,           \* the physical pages given to kpgmgrinit
    Slot,           \* the process pool
    InitSlot,       \* pool[0]
    T,              \* entries of a page table (512 in the code)
    TRAMPOLINE, TRAPFRAME, UStack,      \* two addresses, and the pages of the stack
    App,            \* the programs
    InitApp,        \* INIT_PROC
    Segments,       \* their PT_LOAD segments: sequences of sequences of addresses
    MaxObjects,     \* objects of an allocator (16384 in the code)
    NoSlot, NoPage, \* NULL, and a page table entry without PTE_V
    TrampolinePage, \* the page of the kernel image with the trampoline
    NullPA,         \* KVA_TO_PA(NULL), which is not 0
    Junk            \* what kallocpage and kfreepage fill a page with

ASSUME TAssumption == T \in Nat \ {0} /\ MaxObjects \in Nat
VA == 0 .. T * T * T - 1
ASSUME PageAssumption ==
    {NoPage, TrampolinePage, NullPA} \cap Page = {} /\ NoPage \notin {TrampolinePage, NullPA}
ASSUME SlotAssumption == InitSlot \in Slot /\ NoSlot \notin Slot /\ IsFiniteSet(Slot)
\* Programs and their stack (USTACK_START) are below the trapframe and the trampoline.
UserVA == VA \ {TRAMPOLINE, TRAPFRAME}
ASSUME LayoutAssumption ==
    /\ {TRAMPOLINE, TRAPFRAME} \subseteq VA /\ TRAMPOLINE # TRAPFRAME
    /\ UStack \in Seq(UserVA)
    /\ InitApp \in App /\ Segments \in [App -> Seq(Seq(UserVA))]

\* What load_user_elf maps: the segments, the (empty) heap and the stack.
Image(a) == Segments[a] \o << <<>>, UStack >>

\* A table below the root: of level 1 or 0, named by the part of the address that
\* selects it.
Key == {<<2, va \div (T * T)>> : va \in VA} \cup {<<1, va \div T>> : va \in VA}
Path(va) == <<<<2, va \div (T * T)>>, <<1, va \div T>>>>

VARIABLES
    freelist,       \* kmem.freelist; the order of the list is left out
    mem,            \* what a page contains
    pgt, table,     \* the root table and the other tables of a process
    pte,            \* its leaf entries
    vma,            \* mm->vma: the mapped areas, newest first
    trapframe,      \* p->trapframe
    pc,             \* what is being done to the address space
    by,             \* the process that does it, if it is not its own
    app,            \* the program it holds
    areas, k,       \* the areas still to be mapped, and the pages of the first that are
    leaked,         \* tables of address spaces that are gone
    mms, vmas,      \* allocated_count of mm_allocator and vma_allocator
    dropped,        \* vma objects that no pointer leads to any more
    panic

mmVars == <<pgt, table, pte, vma, trapframe>>
workVars == <<pc, by, app, areas, k>>
objects == <<mms, vmas, dropped>>
vars == <<freelist, mem, mmVars, workVars, leaked, objects, panic>>

SlotPC == {"unused", "mm", "root", "tvma", "trampoline", "tf", "fvma", "trapframe",
           "areas", "vma", "map", "fill", "err", "run", "fork", "wait", "exec", "zombie", "reap"}

TypeOK ==
    /\ freelist \subseteq Page
    /\ mem \in [Page -> {Junk} \cup (App \X VA)]
    /\ pgt \in [Slot -> Page \cup {NoPage}]
    /\ table \in [Slot -> [Key -> Page \cup {NoPage}]]
    /\ pte \in [Slot -> [VA -> Page \cup {NoPage, TrampolinePage, NullPA}]]
    /\ vma \in [Slot -> Seq(Seq(UserVA))]
    /\ trapframe \in [Slot -> Page \cup {NoPage}]
    /\ pc \in [Slot -> SlotPC]
    /\ by \in [Slot -> Slot \cup {NoSlot}]
    /\ app \in [Slot -> App]
    /\ areas \in [Slot -> Seq(Seq(UserVA))]
    /\ k \in [Slot -> Nat]
    /\ leaked \subseteq Page
    /\ mms \in Int /\ vmas \in Int /\ dropped \in Int
    /\ panic \in BOOLEAN

\* kpgmgrinit has run; load_init_app has called allocproc.
Init ==
    /\ freelist = Page
    /\ mem = [g \in Page |-> Junk]
    /\ pgt = [p \in Slot |-> NoPage]
    /\ table = [p \in Slot |-> [key \in Key |-> NoPage]]
    /\ pte = [p \in Slot |-> [va \in VA |-> NoPage]]
    /\ vma = [p \in Slot |-> <<>>]
    /\ trapframe = [p \in Slot |-> NoPage]
    /\ pc = [p \in Slot |-> IF p = InitSlot THEN "mm" ELSE "unused"]
    /\ by = [p \in Slot |-> NoSlot]
    /\ app = [p \in Slot |-> InitApp]
    /\ areas = [p \in Slot |-> <<>>]
    /\ k = [p \in Slot |-> 0]
    /\ leaked = {}
    /\ mms = 0 /\ vmas = 0 /\ dropped = 0
    /\ panic = FALSE
-----------------------------------------------------------------------------
At(p, l) == ~panic /\ pc[p] = l
Goto(p, l) == pc' = [pc EXCEPT ![p] = l]
Panic == panic' = TRUE

\* The page that kallocpage returns.  Which one of the list makes no difference.  For
\* an empty list it is NullPA: a caller that converts it back to NULL notices, one that
\* compares it with 0 does not.
kallocpage == IF freelist = {} THEN NullPA ELSE CHOOSE g \in freelist : TRUE

\* The effect of kallocpage: the page leaves the list and is filled with junk.
Allocated(g) ==
    /\ freelist' = freelist \ {g}
    /\ mem' = IF g \in Page THEN [mem EXCEPT ![g] = Junk] ELSE mem

\* The effect of kfreepage on every page of a set.
kfreepages(S) ==
    /\ freelist' = freelist \cup S
    /\ mem' = [g \in Page |-> IF g \in S THEN Junk ELSE mem[g]]
-----------------------------------------------------------------------------
\* walk(mm, va, 1): the levels on the way to va, from the root down, whose table is missing.
Missing(p, va) == {i \in 1 .. 2 : table[p][Path(va)[i]] = NoPage}

\* One iteration of walk that has to allocate a table; without memory walk returns 0
\* and fail is what its caller does.
walk(p, va, fail) ==
    /\ Missing(p, va) # {}
    /\ Allocated(kallocpage)
    /\ IF kallocpage = NullPA
       THEN fail /\ UNCHANGED table
       ELSE /\ table' = [table EXCEPT ![p][Path(va)[Min(Missing(p, va))]] = kallocpage]
            /\ UNCHANGED <<pc, k, dropped, panic>>
    /\ UNCHANGED <<pgt, pte, vma, trapframe, by, app, areas, leaked, mms, vmas>>

\* kalloc(&vma_allocator), or panic("unavailable").
kalloc_vma(p, l, next) ==
    /\ At(p, l)
    /\ IF vmas = MaxObjects
       THEN Panic /\ UNCHANGED <<vmas, pc>>
       ELSE vmas' = vmas + 1 /\ Goto(p, next) /\ UNCHANGED panic
    /\ UNCHANGED <<freelist, mem, mmVars, by, app, areas, k, leaked, mms, dropped>>

\* kfree(&vma_allocator, vma).
kfree_vma == vmas' = vmas - 1

\* mm_create, in allocproc: the object, or panic("unavailable").
kalloc_mm(p) ==
    /\ At(p, "mm")
    /\ IF mms = MaxObjects
       THEN Panic /\ UNCHANGED <<mms, pc>>
       ELSE mms' = mms + 1 /\ Goto(p, "root") /\ UNCHANGED panic
    /\ UNCHANGED <<freelist, mem, mmVars, by, app, areas, k, leaked, vmas, dropped>>

\* Then the root table, or panic("mm") once the object has been given back.
mm_create(p) ==
    /\ At(p, "root")
    /\ Allocated(kallocpage)
    /\ IF kallocpage = NullPA
       THEN Panic /\ mms' = mms - 1 /\ UNCHANGED <<pgt, pc>>
       ELSE /\ pgt' = [pgt EXCEPT ![p] = kallocpage]
            /\ Goto(p, "tvma")
            /\ UNCHANGED <<mms, panic>>
    /\ UNCHANGED <<table, pte, vma, trapframe, by, app, areas, k, leaked, vmas, dropped>>

\* mm_mappagesat(TRAMPOLINE), with its object: the entry, once the tables are there.  Its
\* result, NULL when walk fails, is not looked at.
map_trampoline(p) ==
    /\ At(p, "trampoline")
    /\ \/ walk(p, TRAMPOLINE, Goto(p, "tf") /\ dropped' = dropped + 1 /\ UNCHANGED <<k, panic>>)
       \/ /\ Missing(p, TRAMPOLINE) = {}
          /\ pte' = [pte EXCEPT ![p][TRAMPOLINE] = TrampolinePage]
          /\ Goto(p, "tf")
          /\ UNCHANGED <<freelist, mem, pgt, table, vma, trapframe, by, app, areas, k, leaked, objects, panic>>

\* tf = kallocpage(), and the test that never fails; p->trapframe = NULL would be a
\* fault in the memset that follows.
alloc_trapframe(p) ==
    /\ At(p, "tf")
    /\ Allocated(kallocpage)
    /\ IF kallocpage = NullPA
       THEN Panic /\ UNCHANGED <<trapframe, pc>>
       ELSE /\ trapframe' = [trapframe EXCEPT ![p] = kallocpage]
            /\ Goto(p, "fvma")
            /\ UNCHANGED panic
    /\ UNCHANGED <<pgt, table, pte, vma, by, app, areas, k, leaked, objects>>

\* mm_mappagesat(TRAPFRAME); allocproc returns.
map_trapframe(p) ==
    /\ At(p, "trapframe")
    /\ \/ walk(p, TRAPFRAME, Goto(p, "areas") /\ dropped' = dropped + 1 /\ UNCHANGED <<k, panic>>)
       \/ /\ Missing(p, TRAPFRAME) = {}
          /\ pte' = [pte EXCEPT ![p][TRAPFRAME] = trapframe[p]]
          /\ Goto(p, "areas")
          /\ UNCHANGED <<freelist, mem, pgt, table, vma, trapframe, by, app, areas, k, leaked, objects, panic>>
-----------------------------------------------------------------------------
\* What is mapped next: the areas of the parent in fork, the image of the program in
\* exec and load_init_app.
begin_areas(p) ==
    /\ At(p, "areas")
    /\ areas' = [areas EXCEPT ![p] = IF by[p] = NoSlot THEN Image(app[p]) ELSE vma[by[p]]]
    /\ k' = [k EXCEPT ![p] = 0]
    /\ Goto(p, "vma")
    /\ UNCHANGED <<freelist, mem, mmVars, by, app, leaked, objects, panic>>

Area(p) == Head(areas[p])

\* mm_create_vma for the next area.
mm_create_vma(p) == areas[p] # <<>> /\ kalloc_vma(p, "vma", "map")

\* mm_mappages returns -1: mm_copy gives back what it has mapped before fork panics.
\* load_user_elf panics, or faults on the page of the stack that is missing.
mappages_failed(p) ==
    IF by[p] = NoSlot
    THEN Panic /\ UNCHANGED <<pc, k, dropped>>
    ELSE Goto(p, "err") /\ k' = [k EXCEPT ![p] = 0] /\ dropped' = dropped + 1 /\ UNCHANGED panic

\* mm_mappages, one page: the tables, then an entry with a new page.  "if (!pa)" does
\* not notice NullPA.
mm_mappages(p) ==
    /\ At(p, "map")
    /\ k[p] < Len(Area(p))
    /\ LET va == Area(p)[k[p] + 1] IN
       \/ walk(p, va, mappages_failed(p))
       \/ /\ Missing(p, va) = {}
          /\ IF pte[p][va] # NoPage
             THEN mappages_failed(p) /\ UNCHANGED <<freelist, mem, pte>>    \* "remap"
             ELSE /\ Allocated(kallocpage)
                  /\ pte' = [pte EXCEPT ![p][va] = kallocpage]
                  /\ k' = [k EXCEPT ![p] = @ + 1]
                  /\ UNCHANGED <<pc, dropped, panic>>
          /\ UNCHANGED <<pgt, table, vma, trapframe, by, app, areas, leaked, mms, vmas>>

\* The area is complete and joins the list.
link_area(p) ==
    /\ At(p, "map")
    /\ k[p] = Len(Area(p))
    /\ vma' = [vma EXCEPT ![p] = <<Area(p)>> \o @]
    /\ Goto(p, "fill")
    /\ UNCHANGED <<freelist, mem, pgt, table, pte, trapframe, by, app, areas, k, leaked, objects, panic>>

\* Mutant of fill: the child's pages are not written.
fill_nothing(p) ==
    /\ At(p, "fill")
    /\ UNCHANGED <<mem, panic>>
    /\ areas' = [areas EXCEPT ![p] = Tail(@)]
    /\ k' = [k EXCEPT ![p] = 0]
    /\ Goto(p, "vma")
    /\ UNCHANGED <<freelist, mmVars, by, app, leaked, objects>>

\* Its pages are written: copied from the parent (mm_copy), loaded or cleared
\* (load_user_elf).  Access to NullPA is a fault in the kernel.
fill(p) ==
    LET new == {va \in VA : \E j \in 1 .. Len(Area(p)) : Area(p)[j] = va}
        Source(va) == IF by[p] = NoSlot THEN <<app[p], va>> ELSE mem[pte[by[p]][va]]
    IN
    /\ At(p, "fill")
    /\ IF \E va \in new : pte[p][va] = NullPA
       THEN Panic /\ UNCHANGED mem
       ELSE /\ mem' = [g \in Page |->
                         IF \E va \in new : pte[p][va] = g
                         THEN Source(CHOOSE va \in new : pte[p][va] = g)
                         ELSE mem[g]]
            /\ UNCHANGED panic
    /\ areas' = [areas EXCEPT ![p] = Tail(@)]
    /\ k' = [k EXCEPT ![p] = 0]
    /\ Goto(p, "vma")
    /\ UNCHANGED <<freelist, mmVars, by, app, leaked, objects>>

\* Everything is mapped: the process runs, and so does the one that forked it.
end_areas(p) ==
    /\ At(p, "vma")
    /\ areas[p] = <<>>
    /\ pc' = [pc EXCEPT ![p] = "run", ![IF by[p] = NoSlot THEN p ELSE by[p]] = "run"]
    /\ by' = [by EXCEPT ![p] = NoSlot]
    /\ UNCHANGED <<freelist, mem, mmVars, app, areas, k, leaked, objects, panic>>
-----------------------------------------------------------------------------
\* System calls come from user code, which a process cannot enter or leave without its
\* trampoline and its trapframe: the hart would fault on them for ever.
User(p) == At(p, "run") /\ pte[p][TRAMPOLINE] # NoPage /\ pte[p][TRAPFRAME] # NoPage

fork(p, n) ==
    /\ User(p) /\ At(n, "unused")
    /\ pc' = [pc EXCEPT ![p] = "fork", ![n] = "mm"]
    /\ by' = [by EXCEPT ![n] = p]
    /\ app' = [app EXCEPT ![n] = app[p]]
    /\ UNCHANGED <<freelist, mem, mmVars, areas, k, leaked, objects, panic>>

\* exec of a name that get_elf finds; any other name leaves everything as it is.
exec(p, a) ==
    /\ User(p)
    /\ app' = [app EXCEPT ![p] = a]
    /\ Goto(p, "exec")
    /\ UNCHANGED <<freelist, mem, mmVars, by, areas, k, leaked, objects, panic>>

exit(p) ==
    /\ User(p)
    /\ Goto(p, "zombie")
    /\ UNCHANGED <<freelist, mem, mmVars, by, app, areas, k, leaked, objects, panic>>

\* wait() finds n: freeproc unmaps the trampoline and frees the trapframe, and forgets
\* their vma objects, which are in no list.
freeproc(p, n) ==
    /\ User(p) /\ At(n, "zombie")
    /\ kfreepages({pte[n][TRAPFRAME]})
    /\ pte' = [pte EXCEPT ![n][TRAMPOLINE] = NoPage, ![n][TRAPFRAME] = NoPage]
    /\ trapframe' = [trapframe EXCEPT ![n] = NoPage]
    /\ pc' = [pc EXCEPT ![p] = "wait", ![n] = "reap"]
    /\ by' = [by EXCEPT ![n] = p]
    /\ dropped' = dropped + 2
    /\ UNCHANGED <<pgt, table, vma, app, areas, k, leaked, mms, vmas, panic>>

\* mm_free_pages: in exec, in mm_free and when mm_copy has failed.
Unmapping(p) == At(p, "exec") \/ At(p, "reap") \/ At(p, "err")

\* Mutant of freevma: the entries keep pointing at the pages.
freevma_keeps_pte(p) ==
    /\ Unmapping(p)
    /\ vma[p] # <<>> /\ k[p] < Len(Head(vma[p]))
    /\ kfreepages({pte[p][Head(vma[p])[k[p] + 1]]})
    /\ k' = [k EXCEPT ![p] = @ + 1]
    /\ UNCHANGED <<pgt, pte, table, vma, trapframe, pc, by, app, areas, leaked, objects, panic>>

\* freevma, one page of the first area.  The entry is cleared after the page has been
\* given back; no code uses the address space in between.
freevma(p) ==
    /\ Unmapping(p)
    /\ vma[p] # <<>> /\ k[p] < Len(Head(vma[p]))
    /\ LET va == Head(vma[p])[k[p] + 1] IN
       /\ kfreepages({pte[p][va]})
       /\ pte' = [pte EXCEPT ![p][va] = NoPage]
    /\ k' = [k EXCEPT ![p] = @ + 1]
    /\ UNCHANGED <<pgt, table, vma, trapframe, pc, by, app, areas, leaked, objects, panic>>

\* Mutant of unlink_area: the object is not given back.
unlink_area_keeps_object(p) ==
    /\ Unmapping(p)
    /\ vma[p] # <<>> /\ k[p] = Len(Head(vma[p]))
    /\ vma' = [vma EXCEPT ![p] = Tail(@)]
    /\ k' = [k EXCEPT ![p] = 0]
    /\ UNCHANGED <<freelist, mem, pgt, table, pte, trapframe, pc, by, app, areas, leaked, objects, panic>>

\* The area is unmapped and leaves the list, and its object goes back: kfree.
unlink_area(p) ==
    /\ Unmapping(p)
    /\ vma[p] # <<>> /\ k[p] = Len(Head(vma[p]))
    /\ vma' = [vma EXCEPT ![p] = Tail(@)]
    /\ k' = [k EXCEPT ![p] = 0]
    /\ kfree_vma
    /\ UNCHANGED <<freelist, mem, pgt, table, pte, trapframe, pc, by, app, areas, leaked, mms, dropped, panic>>

\* mm_copy has given back what it had mapped and returns -1: panic("mm_copy").
fork_failed(p) ==
    /\ At(p, "err") /\ vma[p] = <<>>
    /\ Panic
    /\ UNCHANGED <<freelist, mem, mmVars, workVars, leaked, objects>>

\* exec goes on with load_user_elf.
exec_load(p) ==
    /\ At(p, "exec") /\ vma[p] = <<>>
    /\ Goto(p, "areas")
    /\ UNCHANGED <<freelist, mem, mmVars, by, app, areas, k, leaked, objects, panic>>

\* mm_free frees the root table and the mm object, and forgets the tables below the root.
mm_free(p) ==
    /\ At(p, "reap") /\ vma[p] = <<>>
    /\ kfreepages({pgt[p]})
    /\ leaked' = leaked \cup ({table[p][key] : key \in Key} \ {NoPage})
    /\ pgt' = [pgt EXCEPT ![p] = NoPage]
    /\ table' = [table EXCEPT ![p] = [key \in Key |-> NoPage]]
    /\ pc' = [pc EXCEPT ![p] = "unused", ![by[p]] = "run"]
    /\ by' = [by EXCEPT ![p] = NoSlot]
    /\ app' = [app EXCEPT ![p] = InitApp]
    /\ mms' = mms - 1
    /\ UNCHANGED <<pte, vma, trapframe, areas, k, vmas, dropped, panic>>

Build(p) ==
    \/ kalloc_mm(p) \/ mm_create(p)
    \/ kalloc_vma(p, "tvma", "trampoline") \/ map_trampoline(p)
    \/ alloc_trapframe(p) \/ kalloc_vma(p, "fvma", "trapframe") \/ map_trapframe(p)
    \/ begin_areas(p) \/ mm_create_vma(p) \/ mm_mappages(p) \/ link_area(p) \/ fill(p) \/ end_areas(p)
    \/ freevma(p) \/ unlink_area(p) \/ fork_failed(p) \/ exec_load(p) \/ mm_free(p)

Next ==
    \E p \in Slot :
        \/ Build(p)
        \/ exit(p)
        \/ \E n \in Slot : fork(p, n) \/ freeproc(p, n)
        \/ \E a \in App : exec(p, a)

Spec == Init /\ [][Next]_vars
-----------------------------------------------------------------------------
\* The places of an address space that hold a page of their own, and what is there.  The
\* entry of TRAPFRAME is not one: it repeats p->trapframe.
Place ==
    {<<"root", 0>>, <<"trapframe", 0>>} \cup {<<"table", key>> : key \in Key}
        \cup {<<"leaf", va>> : va \in VA \ {TRAPFRAME}}
PageAt(p, x) ==
    IF x[1] = "root" THEN pgt[p] ELSE
    IF x[1] = "trapframe" THEN trapframe[p] ELSE
    IF x[1] = "table" THEN table[p][x[2]] ELSE pte[p][x[2]]
Owners(g) == {o \in Slot \X Place : PageAt(o[1], o[2]) = g}

\* Every page is in one place: free, or held once by one address space, or a table left
\* behind by one that is gone.  No page is handed out twice, freed while it is mapped,
\* or lost in any other way, in whatever order processes allocate and free, and also
\* when the memory runs out.
PagesAccounted ==
    TypeOK /\ \A g \in Page :
        (IF g \in freelist THEN 1 ELSE 0) + (IF g \in leaked THEN 1 ELSE 0)
            + Cardinality(Owners(g)) = 1

\* The vma objects an address space refers to: those of its areas, the one being mapped,
\* and those of the trampoline and of the trapframe.
References(p) ==
    {<<"area", i>> : i \in 1 .. Len(vma[p])} \cup
    {<<l, 0>> : l \in {m \in {"map", "trampoline", "trapframe"} :
                        \/ pc[p] = m
                        \/ m = "trampoline" /\ pte[p][TRAMPOLINE] # NoPage
                        \/ m = "trapframe" /\ pte[p][TRAPFRAME] # NoPage}}
Held == UNION {{p} \X References(p) : p \in Slot}

\* The processes with an mm object, from mm_create to mm_free.
HasMm == {p \in Slot : pc[p] = "root" \/ pgt[p] # NoPage}

\* The allocators' counts agree with what is in use, whoever forks, execs, exits and waits:
\* no area loses its object in exec or wait and none is given back twice.  What freeproc
\* and a failed mapping forget (dropped) is the only loss; it stays allocated for ever.
ObjectsAccounted ==
    /\ 0 <= dropped /\ dropped <= vmas /\ vmas <= MaxObjects
    /\ 0 <= mms /\ mms <= MaxObjects
    /\ vmas = dropped + Cardinality(Held)
    /\ ~panic => mms = Cardinality(HasMm)

\* A process that runs finds its own program in every page of its areas: none is missing,
\* uninitialised, or has been given to somebody else.
ImageIntact ==
    \A p \in Slot : pc[p] \in {"run", "fork", "wait"} /\ ~panic =>
        \A i \in 1 .. Len(vma[p]) : \A j \in 1 .. Len(vma[p][i]) :
            LET va == vma[p][i][j] IN
            pte[p][va] \in Page /\ mem[pte[p][va]] = <<app[p], va>>

\* "If there are no free procs, or a memory allocation fails, return 0" (allocproc): an
\* address space that allocproc returns has its trampoline and its trapframe.
AllocprocComplete ==
    \A p \in Slot : pc[p] = "areas" =>
        pte[p][TRAMPOLINE] = TrampolinePage /\ pte[p][TRAPFRAME] = trapframe[p]
-----------------------------------------------------------------------------
\* The inductive invariant.

\* A page in a place is neither free nor leaked nor in another place, and no page is lost.
HeldOnce ==
    /\ freelist \cap leaked = {}
    /\ \A p \in Slot, x \in Place : PageAt(p, x) \notin freelist \cup leaked
    /\ \A p, q \in Slot, x, y \in Place :
         PageAt(p, x) \in Page /\ PageAt(p, x) = PageAt(q, y) => p = q /\ x = y
    /\ \A g \in Page : g \in freelist \cup leaked \/ \E p \in Slot, x \in Place : PageAt(p, x) = g

\* What allocproc has set up, by where it stands; freeproc undoes the trapframe's part.
NoRoot == {"unused", "mm", "root"}
NoTrapframe == NoRoot \cup {"tvma", "trampoline", "tf", "reap"}
SetupInv(p) ==
    /\ IF pc[p] \in NoRoot THEN pgt[p] = NoPage ELSE pgt[p] \in Page
    /\ IF pc[p] \in NoTrapframe THEN trapframe[p] = NoPage ELSE trapframe[p] \in Page
    /\ pte[p][TRAMPOLINE] \in {NoPage, TrampolinePage}
    /\ pte[p][TRAPFRAME] # NoPage => pte[p][TRAPFRAME] = trapframe[p]
    /\ pc[p] = "zombie" => pte[p][TRAPFRAME] # NoPage

\* Where the lists of areas and the counter k stand.
NoAreas == NoRoot \cup {"tvma", "trampoline", "tf", "fvma", "trapframe", "areas"}
Freeing == {"exec", "reap", "err"}
ListInv(p) ==
    /\ pc[p] \in NoAreas => vma[p] = <<>>
    /\ pc[p] \in {"map", "fill"} => areas[p] # <<>>
    /\ pc[p] = "fill" => vma[p] # <<>> /\ vma[p][1] = areas[p][1]
    /\ pc[p] = "map" => k[p] <= Len(areas[p][1])
    /\ pc[p] \in Freeing => k[p] = 0 \/ (vma[p] # <<>> /\ k[p] <= Len(vma[p][1]))
    /\ pc[p] \notin Freeing \cup {"map", "fill"} => k[p] = 0

\* No address is in two places of the list: a page that is given back was still there.
Distinct(l) ==
    \A h, i \in 1 .. Len(l) : \A m \in 1 .. Len(l[h]), j \in 1 .. Len(l[i]) :
        l[h][m] = l[i][j] => h = i /\ m = j

\* Area i awaits its contents; entry j of area i is unmapped already.
Pending(p, i) == pc[p] = "fill" /\ i = 1
Gone(p, i, j) == pc[p] \in Freeing /\ i = 1 /\ j <= k[p]

\* The areas in the list are mapped.
MappedInv(p) ==
    /\ Distinct(vma[p])
    /\ \A i \in 1 .. Len(vma[p]) : \A j \in 1 .. Len(vma[p][i]) :
         \/ Gone(p, i, j)
         \/ pte[p][vma[p][i][j]] \in Page
         \/ Pending(p, i) /\ pte[p][vma[p][i][j]] = NullPA

\* So are the first pages of the area that is being mapped.
Within(l, va) == \E i \in 1 .. Len(l) : \E j \in 1 .. Len(l[i]) : l[i][j] = va
PartInv(p) ==
    pc[p] = "map" => \A j \in 1 .. k[p] :
        /\ pte[p][areas[p][1][j]] \in Page \cup {NullPA}
        /\ ~Within(vma[p], areas[p][1][j])
        /\ \A m \in 1 .. k[p] : areas[p][1][m] = areas[p][1][j] => m = j

\* Mapped areas hold the program, as long as it is the current one.
Loaded == {"vma", "map", "fill", "run", "fork", "wait"}
ContentInv(p) ==
    pc[p] \in Loaded =>
        \A i \in 1 .. Len(vma[p]) : \A j \in 1 .. Len(vma[p][i]) :
            Pending(p, i) \/ mem[pte[p][vma[p][i][j]]] = <<app[p], vma[p][i][j]>>

\* A process that works for another has stopped that one; a child copies from its parent.
Building == {"mm", "root", "tvma", "trampoline", "tf", "fvma", "trapframe", "areas",
             "vma", "map", "fill"}
ByInv(p) ==
    /\ by[p] # NoSlot =>
         \/ pc[p] = "reap" /\ pc[by[p]] = "wait"
         \/ /\ pc[p] \in Building \cup {"err"}
            /\ pc[by[p]] = "fork"
            /\ app[p] = app[by[p]]
    /\ pc[p] \in {"reap", "err"} => by[p] # NoSlot
    /\ \A q \in Slot : by[p] = by[q] /\ by[p] # NoSlot => p = q
    /\ by[p] # NoSlot /\ pc[p] \in {"vma", "map", "fill"} =>
         \A i \in 1 .. Len(areas[p]) : \A j \in 1 .. Len(areas[p][i]) :
             Within(vma[by[p]], areas[p][i][j])

SlotInv(p) == SetupInv(p) /\ ListInv(p) /\ MappedInv(p) /\ PartInv(p) /\ ContentInv(p)

IInv == TypeOK /\ HeldOnce /\ (~panic => \A p \in Slot : SlotInv(p) /\ ByInv(p))

\* What an address space refers to, by where allocproc and freeproc stand.
ReferenceInv(p) ==
    /\ pc[p] \in NoRoot \cup {"tvma", "trampoline", "reap"} => pte[p][TRAMPOLINE] = NoPage
    /\ pc[p] \in NoTrapframe \cup {"fvma", "trapframe"} => pte[p][TRAPFRAME] = NoPage
    /\ pc[p] = "zombie" => pte[p][TRAMPOLINE] # NoPage /\ pte[p][TRAPFRAME] # NoPage

ObjectsInv ==
    /\ ObjectsAccounted
    /\ IsFiniteSet(Held)
    /\ ~panic => \A p \in Slot : ReferenceInv(p)
====
