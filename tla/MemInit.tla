------------------------------ MODULE MemInit ------------------------------
(***************************************************************************)
(* mem_init of kern/pmap.c: from the page directory that entry.S installs, *)
(* which maps only the first NPTE pages, to kern_pgdir and the free list   *)
(* that module Pmap starts with.  The kernel uses boot_alloc first and the *)
(* free list as soon as there is one, and a page it clears must be mapped  *)
(* at that moment.  A physical address is the number of its page, and a    *)
(* virtual one the number of its page above UENVS.                         *)
(***************************************************************************)
EXTENDS Integers, SequencesExt

CONSTANTS NPTE,                   \* NPTENTRIES
          IOPHYSMEM, EXTPHYSMEM,
          KernelEnds,             \* the page after the kernel image
          Base, Ext,              \* pages of memory that the NVRAM tells
          PagesPerPage,           \* struct PageInfos in a page
          EnvsSize,               \* pages of the array envs
          KSTKSIZE,               \* pages of the kernel stack
          PhysTables,             \* page tables from KERNBASE to 2^32
          NULL

ASSUME MemInitAssumption ==
  /\ NPTE \in Nat \ {0} /\ {IOPHYSMEM, EXTPHYSMEM} \subseteq Nat
  /\ 0 < IOPHYSMEM /\ IOPHYSMEM < EXTPHYSMEM
  /\ KernelEnds \subseteq Nat /\ \A k \in KernelEnds : k - KSTKSIZE > EXTPHYSMEM
  /\ Base \subseteq 1 .. IOPHYSMEM /\ Ext \subseteq Nat
  /\ \A x \in Ext : EXTPHYSMEM + x <= PhysTables * NPTE
  /\ {PagesPerPage, EnvsSize, KSTKSIZE, PhysTables} \subseteq Nat \ {0}
  /\ KSTKSIZE < NPTE /\ EnvsSize <= NPTE
  /\ NULL \notin Nat /\ NULL \notin [pa : Nat, perm : {"U", "W"}]

(* The regions above UTOP, of NPTE pages each (inc/memlayout.h).           *)
UENVS == 0
UPAGES == NPTE
UVPT == 2 * NPTE
KSTACKTOP == 6 * NPTE
KERNBASE == KSTACKTOP
VPage == 0 .. KERNBASE + PhysTables * NPTE - 1
PDX(v) == v \div NPTE
Pde == 0 .. PDX(KERNBASE) + PhysTables - 1

VARIABLES npages_basemem, npages,
          kernel_end,
          nextfree,           \* of boot_alloc
          kern_pgdir, pages, envs,  \* where boot_alloc put them, or NULL
          beyond,             \* whether the kernel has cleared what is not memory
          page_free_list, pp_ref,
          pgdir,              \* the page table of each entry, or NULL
          pte,                \* what the page tables hold
          cr3,
          region, page_offset,      \* the boot_map_region under way
          pc

memory == <<npages_basemem, npages, kernel_end>>
heap == <<nextfree, kern_pgdir, pages, envs, beyond>>
lists == <<page_free_list, pp_ref>>
tables == <<pgdir, pte>>
vars == <<memory, heap, lists, tables, cr3, region, page_offset, pc>>

PagesSize == (npages + PagesPerPage - 1) \div PagesPerPage
bootstack == kernel_end - KSTKSIZE

(* i386_detect_memory.                                                     *)
Init ==
  /\ npages_basemem \in Base
  /\ \E ext \in Ext :
       npages = IF ext > 0 THEN EXTPHYSMEM + ext ELSE npages_basemem
  /\ kernel_end \in KernelEnds /\ nextfree = kernel_end
  /\ kern_pgdir = NULL /\ pages = NULL /\ envs = NULL /\ beyond = FALSE
  /\ page_free_list = <<>> /\ pp_ref = <<>>
  /\ pgdir = [d \in Pde |-> NULL] /\ pte = [v \in VPage |-> NULL]
  /\ cr3 = "entry_pgdir" /\ region = 1 /\ page_offset = 0
  /\ pc = "kern_pgdir"

----------------------------------------------------------------------------
(* Base memory may end below the hole.  What is written to the rest is     *)
(* lost, and a kernel that reads it back counts as one that faults.        *)
IsMemory(p) == p \in 0 .. npages_basemem - 1 \cup EXTPHYSMEM .. npages - 1

(* What entry.S installs: one table, at KERNBASE and, read-only, at 0.     *)
entry_pgtable == [i \in 0 .. NPTE - 1 |-> [pa |-> i, perm |-> "W"]]

(* Whether the kernel can use a page at its address above KERNBASE.        *)
Reachable(p) ==
  IF cr3 = "entry_pgdir" THEN p \in DOMAIN entry_pgtable /\ entry_pgtable[p].pa = p
  ELSE pte[KERNBASE + p] # NULL /\ pte[KERNBASE + p].pa = p

Usable(p) == Reachable(p) /\ IsMemory(p)

Stops(how) == pc' = how /\ UNCHANGED <<memory, heap, lists, tables, cr3,
                                       region, page_offset>>

OutOfMemory == nextfree >= npages

(* boot_alloc of n pages, which are then cleared: it looks at the first    *)
(* only, and the others may lie beyond the end of memory.                  *)
boot_alloc(n, next) ==
  /\ ~ OutOfMemory /\ \A p \in nextfree .. nextfree + n - 1 : Reachable(p)
  /\ nextfree' = nextfree + n /\ pc' = next
  /\ beyond' = (beyond \/ nextfree + n > npages)
  /\ UNCHANGED <<memory, lists, pte, cr3, region, page_offset>>

boot_alloc_fails ==
  /\ pc \in {"kern_pgdir", "pages", "envs", "page_init",
             "check_low", "check_all"}
  /\ OutOfMemory /\ Stops("panic")

boot_memory_unmapped ==
  /\ ~ OutOfMemory
  /\ LET n == CASE pc = "kern_pgdir" -> 1
                [] pc = "pages" -> PagesSize
                [] pc = "envs" -> EnvsSize
                [] OTHER -> 0
     IN \E p \in nextfree .. nextfree + n - 1 : ~ Reachable(p)
  /\ Stops("fault")

create_pgdir ==
  /\ pc = "kern_pgdir" /\ boot_alloc(1, "pages")
  /\ kern_pgdir' = nextfree
  /\ pgdir' = [pgdir EXCEPT ![PDX(UVPT)] = nextfree]
  /\ UNCHANGED <<pages, envs>>

create_pages ==
  /\ pc = "pages" /\ boot_alloc(PagesSize, "envs")
  /\ pages' = nextfree /\ UNCHANGED <<kern_pgdir, envs, pgdir>>

create_envs ==
  /\ pc = "envs" /\ boot_alloc(EnvsSize, "page_init")
  /\ envs' = nextfree /\ UNCHANGED <<kern_pgdir, pages, pgdir>>

(* Mutant: the hole ends before EXTPHYSMEM.                                *)
InUseOpen(p) ==
  \/ p = 0
  \/ IOPHYSMEM <= p /\ p < EXTPHYSMEM
  \/ EXTPHYSMEM < p /\ p < nextfree
InUse(p) ==
  \/ p = 0
  \/ IOPHYSMEM <= p /\ p <= EXTPHYSMEM
  \/ EXTPHYSMEM < p /\ p < nextfree

(* The elements of a list that are in a set, in their order.               *)
Kept(list, S) ==
  LET kept[n \in 0 .. Len(list)] ==
        IF n = 0 THEN <<>>
        ELSE IF list[n] \in S THEN Append(kept[n - 1], list[n]) ELSE kept[n - 1]
  IN kept[Len(list)]

page_init ==
  /\ pc = "page_init" /\ ~ OutOfMemory
  /\ page_free_list' = Kept([n \in 1 .. npages |-> npages - n],
                            {p \in 0 .. npages - 1 : ~ InUse(p)})
  /\ pp_ref' = [p \in 0 .. npages - 1 |-> IF InUse(p) THEN 1 ELSE 0]
  /\ pc' = "check_low"
  /\ UNCHANGED <<memory, heap, tables, cr3, region, page_offset>>

(* What check_page_free_list asserts.                                      *)
ListPlausible ==
  LET list == ToSet(page_free_list) IN
  /\ \A p \in list : /\ p < npages
                     /\ p \notin {0, IOPHYSMEM, EXTPHYSMEM - 1, EXTPHYSMEM}
                     /\ p < EXTPHYSMEM \/ p >= nextfree
  /\ \E p \in list : p < EXTPHYSMEM
  /\ \E p \in list : p >= EXTPHYSMEM

(* Mutant: the list stays as page_init left it, highest page first.        *)
LowFirstNot(list) == list
(* The pages that entry_pgdir maps come to the front.                      *)
Low(list) == {p \in ToSet(list) : p < NPTE}
LowFirst(list) == Kept(list, Low(list)) \o Kept(list, ToSet(list) \ Low(list))

(* check_page_free_list(1): a self-test that changes what it tests.  It    *)
(* writes to the low pages only.                                           *)
check_page_free_list_low ==
  /\ pc = "check_low" /\ ~ OutOfMemory
  /\ IF ListPlausible
     THEN page_free_list' = LowFirst(page_free_list) /\ pc' = "check_page"
     ELSE pc' = "panic" /\ UNCHANGED page_free_list
  /\ UNCHANGED <<memory, heap, pp_ref, tables, cr3, region, page_offset>>

(* check_page_alloc and check_page borrow three pages, use the first as a  *)
(* page table and the third as data, and give them back in reverse.        *)
check_page ==
  /\ pc = "check_page"
  /\ IF Len(page_free_list) < 3 THEN pc' = "panic" /\ UNCHANGED page_free_list
     ELSE IF \E i \in {1, 3} : ~ Usable(page_free_list[i])
     THEN pc' = "fault" /\ UNCHANGED page_free_list
     ELSE /\ page_free_list' = Reverse(SubSeq(page_free_list, 1, 3)) \o
                               SubSeq(page_free_list, 4, Len(page_free_list))
          /\ pc' = "map"
  /\ UNCHANGED <<memory, heap, pp_ref, tables, cr3, region, page_offset>>

(* The calls of boot_map_region, in their order.                           *)
Region(va, size, pa, perm) == [va |-> va, size |-> size, pa |-> pa, perm |-> perm]
(* Mutant: the guard page is backed by memory.                             *)
StackWithGuard ==
  Region(KSTACKTOP - KSTKSIZE - 1, KSTKSIZE + 1, bootstack - 1, "W")
Stack == Region(KSTACKTOP - KSTKSIZE, KSTKSIZE, bootstack, "W")

Regions ==
  <<Region(UPAGES, PagesSize, pages, "U"),
    Region(KERNBASE + pages, PagesSize, pages, "W"),
    Region(UENVS, EnvsSize, envs, "U"),
    Region(KERNBASE + envs, EnvsSize, envs, "W"),
    Stack,
    Region(KERNBASE, PhysTables * NPTE, 0, "W")>>

Mapping == pc = "map" /\ region <= Len(Regions)
R == Regions[region]
va_local == R.va + page_offset

Enter(v) == pte' = [pte EXCEPT ![v] = [pa |-> R.pa + page_offset,
                                       perm |-> R.perm]]

(* A step of the loop of boot_map_region: there is a page table, ...       *)
map_page ==
  /\ Mapping /\ page_offset < R.size /\ pgdir[PDX(va_local)] # NULL
  /\ Enter(va_local) /\ page_offset' = page_offset + 1
  /\ UNCHANGED <<memory, heap, lists, pgdir, cr3, region, pc>>

NoTable == Mapping /\ page_offset < R.size /\ pgdir[PDX(va_local)] = NULL

(* ... or pgdir_walk takes a page for one and clears it, ...               *)
map_page_new_table ==
  /\ NoTable /\ page_free_list # <<>> /\ Usable(Head(page_free_list))
  /\ page_free_list' = Tail(page_free_list)
  /\ pp_ref' = [pp_ref EXCEPT ![Head(page_free_list)] = @ + 1]
  /\ pgdir' = [pgdir EXCEPT ![PDX(va_local)] = Head(page_free_list)]
  /\ Enter(va_local) /\ page_offset' = page_offset + 1
  /\ UNCHANGED <<memory, heap, cr3, region, pc>>

(* ... which fails.                                                        *)
map_page_fails ==
  /\ NoTable
  /\ \/ page_free_list = <<>> /\ Stops("panic")
     \/ /\ page_free_list # <<>> /\ ~ Usable(Head(page_free_list))
        /\ Stops("fault")

next_region ==
  /\ Mapping /\ page_offset >= R.size
  /\ region' = region + 1 /\ page_offset' = 0
  /\ UNCHANGED <<memory, heap, lists, tables, cr3, pc>>

Translates(v, p) == pgdir[PDX(v)] # NULL /\ pte[v] # NULL /\ pte[v].pa = p

(* What check_kern_pgdir asserts.                                          *)
PgdirPlausible ==
  /\ \A k \in 0 .. PagesSize - 1 : Translates(UPAGES + k, pages + k)
  /\ \A k \in 0 .. EnvsSize - 1 : Translates(UENVS + k, envs + k)
  /\ \A k \in 0 .. npages - 1 : Translates(KERNBASE + k, k)
  /\ \A k \in 0 .. KSTKSIZE - 1 :
       Translates(KSTACKTOP - KSTKSIZE + k, bootstack + k)
  /\ pte[KSTACKTOP - NPTE] = NULL
  /\ \A d \in Pde : pgdir[d] # NULL <=>
       d >= PDX(KERNBASE) \/ d \in {PDX(UVPT), PDX(KSTACKTOP - 1),
                                   PDX(UPAGES), PDX(UENVS)}

(* check_kern_pgdir, and lcr3: the kernel and its stack must stay where    *)
(* they are.                                                               *)
switch ==
  /\ pc = "map" /\ region > Len(Regions)
  /\ IF ~ PgdirPlausible THEN pc' = "panic" /\ UNCHANGED cr3
     ELSE /\ cr3' = "kern_pgdir"
          /\ pc' = IF \A p \in EXTPHYSMEM .. kernel_end - 1 :
                        Translates(KERNBASE + p, p)
                   THEN "check_all" ELSE "fault"
  /\ UNCHANGED <<memory, heap, lists, tables, region, page_offset>>

(* check_page_free_list(0), which writes to every free page, and           *)
(* check_page_installed_pgdir, which returns three pages in another order. *)
check_installed ==
  /\ pc = "check_all" /\ ~ OutOfMemory
  /\ IF ~ ListPlausible \/ Len(page_free_list) < 3
     THEN pc' = "panic" /\ UNCHANGED page_free_list
     ELSE IF \/ \E p \in ToSet(page_free_list) : ~ Reachable(p)
             \/ \E i \in 1 .. 3 : ~ IsMemory(page_free_list[i])
     THEN pc' = "fault" /\ UNCHANGED page_free_list
     ELSE /\ page_free_list' = <<page_free_list[1], page_free_list[3],
                                 page_free_list[2]>> \o
                               SubSeq(page_free_list, 4, Len(page_free_list))
          /\ pc' = "done"
  /\ UNCHANGED <<memory, heap, pp_ref, tables, cr3, region, page_offset>>

Next ==
  \/ create_pgdir \/ create_pages \/ create_envs
  \/ boot_alloc_fails \/ boot_memory_unmapped
  \/ page_init \/ check_page_free_list_low \/ check_page
  \/ map_page \/ map_page_new_table \/ map_page_fails \/ next_region
  \/ switch \/ check_installed

Spec == Init /\ [][Next]_vars

----------------------------------------------------------------------------
Listed == pc \in {"check_low", "check_page", "map", "check_all", "done"}

PageTables == {pgdir[d] : d \in Pde} \ {NULL, kern_pgdir}

(* What page_init also lists: the pages between the end of base memory and *)
(* the I/O hole, none on a machine with 640 KB of base memory.             *)
NoMemory == npages_basemem .. IOPHYSMEM - 1

(* From page_init on, the free list holds every page of memory once,       *)
(* except page 0, the kernel, what boot_alloc has given out and the page   *)
(* tables, and nothing else that is memory; none of them has a reference,  *)
(* as page_free and page_insert of module Pmap expect.  By then all that   *)
(* boot_alloc gave out, and the kernel cleared, was memory.                *)
FreeListExact ==
  Listed =>
    /\ ToSet(page_free_list) \ NoMemory =
         (1 .. npages_basemem - 1 \cup nextfree .. npages - 1) \ PageTables
    /\ \A m, n \in DOMAIN page_free_list :
         page_free_list[m] = page_free_list[n] => m = n
    /\ \A p \in 0 .. npages - 1 : pp_ref[p] = 0 <=> p \in ToSet(page_free_list)
    /\ envs + EnvsSize = nextfree /\ nextfree < npages /\ ~ beyond

Mapped(v, start, size, pa, perm) ==
  v \in start .. start + size - 1 /\ pte[v] = [pa |-> pa + v - start, perm |-> perm]

(* The kernel's address space: all physical memory above KERNBASE, the     *)
(* stack below it over a guard that is not mapped, pages and envs readable *)
(* by user programs, nothing else, and every table of its own.             *)
KernelMapExact ==
  pc = "done" =>
    /\ \A v \in VPage :
         \/ Mapped(v, UENVS, EnvsSize, envs, "U")
         \/ Mapped(v, UPAGES, PagesSize, pages, "U")
         \/ Mapped(v, KSTACKTOP - KSTKSIZE, KSTKSIZE, bootstack, "W")
         \/ Mapped(v, KERNBASE, PhysTables * NPTE, 0, "W")
         \/ /\ pte[v] = NULL
            /\ v \notin UENVS .. UENVS + EnvsSize - 1 /\ v < KERNBASE
            /\ v \notin UPAGES .. UPAGES + PagesSize - 1
            /\ v \notin KSTACKTOP - KSTKSIZE .. KSTACKTOP - 1
    /\ pgdir[PDX(UVPT)] = kern_pgdir
    /\ \A d, e \in Pde : pgdir[d] = pgdir[e] /\ pgdir[d] # NULL => d = e

HeapEnd == kernel_end + 1 + PagesSize + EnvsSize
TablesNeeded == 3 + PhysTables
LowPages == {p \in 1 .. NPTE - 1 : p < IOPHYSMEM \/ p >= HeapEnd}

(* Base memory up to the I/O hole, memory for the arrays and, in the part  *)
(* that entry_pgdir maps, for the page tables, with one base page and one  *)
(* extended page to spare.                                                 *)
Adequate ==
  /\ npages_basemem = IOPHYSMEM
  /\ HeapEnd + TablesNeeded < npages /\ HeapEnd <= NPTE /\ IOPHYSMEM > 1
  /\ Cardinality(LowPages) > TablesNeeded
============================================================================
