----------------------------- MODULE LoadIcode -----------------------------
(***************************************************************************)
(* load_icode of kern/env.c: an ELF image is loaded, segment by segment,   *)
(* into the address space of a new environment.  region_alloc takes a page *)
(* a step.  The contents of memory are followed byte by byte, because what *)
(* matters is which bytes are where when the program starts.               *)
(***************************************************************************)
EXTENDS Integers, Sequences, FiniteSets, String

CONSTANTS PGSIZE, NPTE,
          NPAGES,    \* user pages; the last one is the stack's
          Frames,    \* how many physical pages may be free at the start
          Images     \* the program headers of the images

Addr == 0 .. NPAGES * PGSIZE - 1
USTACKTOP == NPAGES * PGSIZE

ROUNDDOWN(a) == a - (a % PGSIZE)
ROUNDUP(a) == ROUNDDOWN(a + PGSIZE - 1)
Page(a) == a \div PGSIZE
PDX(a) == Page(a) \div NPTE

(* The pages that a segment touches.                                       *)
Touched(ph) == {Page(ph.p_va + k) : k \in 0 .. ph.p_memsz - 1}

Proghdr == [p_va : Nat, p_filesz : Nat, p_memsz : Nat, load : BOOLEAN]

(* "you can assume for this function that no two segments will touch the   *)
(* same virtual page"; nor do they touch the stack's.                      *)
WellFormed(image) ==
  /\ image \in Seq(Proghdr)
  /\ \A n \in DOMAIN image :
       /\ image[n].p_filesz <= image[n].p_memsz
       /\ image[n].p_va + image[n].p_memsz <= USTACKTOP - PGSIZE
  /\ \A n, k \in DOMAIN image :
       n # k => Touched(image[n]) \cap Touched(image[k]) = {}

ASSUME LoadAssumption ==
  /\ {PGSIZE, NPTE, NPAGES} \subseteq Nat \ {0} /\ Frames \subseteq Nat
  /\ \A image \in Images : WellFormed(image)

VARIABLES magic, image,  \* the ELF header is right; its program headers
          ph,            \* the number of the one being loaded
          va, end,       \* of region_alloc
          mem,           \* what the environment's addresses hold
          tables,        \* its page tables
          free,          \* the number of free physical pages
          pc

load_vars == <<magic, image, ph, va, end, mem, tables, free, pc>>

Unmapped == <<"unmapped">>
Old == <<"old">>     \* what a page held before
Zero == <<"zero">>
Byte(n, k) == <<"file", n, k>>

Mapped(a) == mem[a] # Unmapped
Segment == image[ph]

LoadInit ==
  /\ magic \in BOOLEAN /\ image \in Images
  /\ ph = 1 /\ va = 0 /\ end = 0
  /\ mem = [a \in Addr |-> Unmapped] /\ tables = {}
  /\ free \in Frames
  /\ pc = "magic"

----------------------------------------------------------------------------
check_magic ==
  /\ pc = "magic"
  /\ pc' = IF magic THEN "segment" ELSE "panic"
  /\ UNCHANGED <<magic, image, ph, va, end, mem, tables, free>>

(* Mutant: the length is rounded down.                                     *)
BeginShort(a, len) == va' = ROUNDDOWN(a) /\ end' = ROUNDDOWN(a) + ROUNDDOWN(len)
(* The entry of region_alloc.                                              *)
Begin(a, len) == va' = ROUNDDOWN(a) /\ end' = ROUNDDOWN(a) + ROUNDUP(len)

next_segment ==
  /\ pc = "segment" /\ ph \in DOMAIN image
  /\ IF Segment.load
     THEN Begin(Segment.p_va, Segment.p_memsz) /\ pc' = "alloc" /\ ph' = ph
     ELSE UNCHANGED <<va, end, pc>> /\ ph' = ph + 1
  /\ UNCHANGED <<magic, image, mem, tables, free>>

(* No segment is left: the stack comes next.                               *)
no_segment ==
  /\ pc = "segment" /\ ph \notin DOMAIN image
  /\ Begin(USTACKTOP - PGSIZE, PGSIZE) /\ pc' = "stack"
  /\ UNCHANGED <<magic, image, ph, mem, tables, free>>

Allocating == pc \in {"alloc", "stack"} /\ va < end

(* page_insert takes a page for a table if there is none, and gives back   *)
(* the page that va was mapped to.                                         *)
Needed(a) == IF PDX(a) \in tables THEN 1 ELSE 2
GivenBack(a) == IF Mapped(a) THEN 1 ELSE 0

(* Mutant: only page_alloc is checked.                                     *)
EnoughForPage(a) == free >= 1
Enough(a) == free >= Needed(a)

region_alloc_page ==
  /\ Allocating /\ Enough(va)
  /\ free' = free - Needed(va) + GivenBack(va)
  /\ tables' = tables \cup {PDX(va)}
  /\ mem' = [a \in Addr |-> IF Page(a) = Page(va) THEN Old ELSE mem[a]]
  /\ va' = va + PGSIZE
  /\ UNCHANGED <<magic, image, ph, end, pc>>

out_of_memory ==
  /\ Allocating /\ ~ Enough(va)
  /\ pc' = "panic"
  /\ UNCHANGED <<magic, image, ph, va, end, mem, tables, free>>

stack_done ==
  /\ pc = "stack" /\ va >= end /\ pc' = "done"
  /\ UNCHANGED <<magic, image, ph, va, end, mem, tables, free>>

(* The kernel writes where the program will read: at a page that is not    *)
(* mapped it faults, and page_fault_handler panics.                        *)
Faults(a, len) == \E k \in 0 .. len - 1 : ~ Mapped(a + k)
(* memcpy from the image.                                                  *)
memcpy(a, n, len) ==
  [b \in Addr |-> IF b - a \in 0 .. len - 1 THEN Byte(n, b - a) ELSE mem[b]]

BssStart == Segment.p_va + Segment.p_filesz
BssLen == Segment.p_memsz - Segment.p_filesz

copy ==
  /\ pc = "alloc" /\ va >= end
  /\ IF Faults(Segment.p_va, Segment.p_filesz)
     THEN pc' = "fault" /\ UNCHANGED mem
     ELSE /\ pc' = "zero"
          /\ mem' = memcpy(Segment.p_va, ph, Segment.p_filesz)
  /\ UNCHANGED <<magic, image, ph, va, end, tables, free>>

(* Mutant: the rest of the last page of the file's part is not cleared.    *)
zero_from_page ==
  /\ pc = "zero"
  /\ IF Faults(BssStart, BssLen)
     THEN pc' = "fault" /\ UNCHANGED <<mem, ph>>
     ELSE /\ pc' = "segment" /\ ph' = ph + 1
          /\ mem' = memset(mem, ROUNDUP(BssStart), Zero, BssStart + BssLen - ROUNDUP(BssStart))
  /\ UNCHANGED <<magic, image, va, end, tables, free>>
zero ==
  /\ pc = "zero"
  /\ IF Faults(BssStart, BssLen)
     THEN pc' = "fault" /\ UNCHANGED <<mem, ph>>
     ELSE /\ pc' = "segment" /\ ph' = ph + 1
          /\ mem' = memset(mem, BssStart, Zero, BssLen)
  /\ UNCHANGED <<magic, image, va, end, tables, free>>

LoadNext ==
  \/ check_magic \/ next_segment \/ no_segment
  \/ region_alloc_page \/ out_of_memory \/ stack_done
  \/ copy \/ zero

LoadSpec == LoadInit /\ [][LoadNext]_load_vars

----------------------------------------------------------------------------
Content == {Unmapped, Old, Zero} \cup
           {Byte(n, k) : n \in DOMAIN image, k \in Addr}

LoadTypeOK ==
  /\ ph \in 1 .. Len(image) + 1
  /\ va \in 0 .. USTACKTOP /\ end \in 0 .. USTACKTOP
  /\ mem \in [Addr -> Content]
  /\ tables \subseteq {PDX(a) : a \in Addr} /\ free \in Nat
  /\ pc \in {"magic", "segment", "alloc", "zero", "stack",
             "done", "panic", "fault"}

(* The program starts with every byte of its segments where the program    *)
(* headers say, its bss clear, and a stack: no segment has been spoilt by  *)
(* the pages, the copying or the clearing of a later one.                  *)
LoadedExactly ==
  /\ LoadTypeOK
  /\ pc = "done" =>
       /\ \A n \in DOMAIN image : image[n].load =>
            \A k \in 0 .. image[n].p_memsz - 1 :
              mem[image[n].p_va + k] =
                IF k < image[n].p_filesz THEN Byte(n, k) ELSE Zero
       /\ \A a \in USTACKTOP - PGSIZE .. USTACKTOP - 1 : Mapped(a)

(* Loading faults only for a segment whose bytes reach beyond as many      *)
(* pages as its length fills.                                              *)
FaultsOnlyWhenShort ==
  pc = "fault" =>
    ROUNDDOWN(Segment.p_va) + ROUNDUP(Segment.p_memsz)
      < Segment.p_va + Segment.p_memsz

(* "You should round va down, and round (va + len) up": every byte of a    *)
(* segment is mapped when it is written.                                   *)
NeverFaults == pc # "fault"
============================================================================
