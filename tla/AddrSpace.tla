---------------------------- MODULE AddrSpace ----------------------------
(***************************************************************************)
(* What the virtual-memory code of kern/pmap.c and kern/env.c promises to  *)
(* its callers, with page directories, page tables, reference counts and   *)
(* the free list left out.                                                 *)
(*                                                                         *)
(* An address space is a partial function from user virtual pages to       *)
(* physical pages with permissions.  Inserting or removing a page at one   *)
(* virtual page changes that virtual page of that address space only, and  *)
(* a physical page keeps its contents for as long as it is mapped          *)
(* somewhere: the kernel never recycles it under its users.                *)
(***************************************************************************)
CONSTANTS Page,     \* physical pages
          Space,    \* address spaces
          VPage,    \* virtual pages below UTOP
          Perm,     \* permissions of a mapping
          Image,    \* contents of a physical page
          NULL

VARIABLES live,     \* the address spaces that exist
          map,      \* map[s][v]: what virtual page v of space s maps to
          image     \* image[p]: contents of p while mapped, NULL otherwise

absvars == <<live, map, image>>

Unmapped == [pa |-> NULL, perm |-> NULL]

EmptyMap == [v \in VPage |-> Unmapped]

MappedPages(m) == {m[s][v].pa : s \in Space, v \in VPage} \ {NULL}

(* A page that stays mapped keeps its contents; one that becomes mapped    *)
(* brings whatever it held; one that is no longer mapped has none.         *)
ImageKept ==
  LET before == MappedPages(map)
      after  == MappedPages(map')
  IN \A p \in Page :
       IF p \in after THEN p \in before => image'[p] = image[p]
                      ELSE image'[p] = NULL

Init ==
  /\ live = {}
  /\ map = [s \in Space |-> EmptyMap]
  /\ image = [p \in Page |-> NULL]

Create(s) ==
  /\ s \notin live
  /\ live' = live \cup {s}
  /\ UNCHANGED <<map, image>>

(* One virtual page of one space gets a page, or loses the one it had.     *)
Entries == [pa : Page, perm : Perm] \cup {Unmapped}
Map(s) ==
  /\ s \in live /\ UNCHANGED live
  /\ \E v \in VPage :
       /\ map'[s][v] # map[s][v]
       /\ map'[s][v] \in Entries
       /\ \A u \in VPage \ {v} : map'[s][u] = map[s][u]
  /\ \A r \in Space \ {s} : map'[r] = map[r]
  /\ ImageKept

(* The owner of a mapping stores into the page: every other mapped page    *)
(* keeps its contents.                                                     *)
Store(s) ==
  /\ s \in live
  /\ \E v \in VPage :
       LET p == map[s][v].pa IN
       /\ p # NULL
       /\ image'[p] # image[p]
       /\ image'[p] \in Image
       /\ \A q \in Page \ {p} : image'[q] = image[q]
  /\ UNCHANGED <<live, map>>

(* An address space ends only when nothing is mapped in it any more.       *)
Destroy(s) ==
  /\ s \in live
  /\ map[s] = EmptyMap
  /\ live' = live \ {s}
  /\ UNCHANGED <<map, image>>

Next == \E s \in Space : Create(s) \/ Destroy(s) \/ Map(s) \/ Store(s)

Spec == Init /\ [][Next]_absvars
==========================================================================
