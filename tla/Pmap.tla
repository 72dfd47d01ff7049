------------------------------- MODULE Pmap -------------------------------
(***************************************************************************)
(* Physical pages and two-level page tables (kern/pmap.c), and the life of *)
(* an environment's address space (env_setup_vm, env_free of kern/env.c).  *)
(*                                                                         *)
(* A physical page is memory: mem[p] is an array of entries, and the same  *)
(* page can be user data, a page table or a page directory, one after the  *)
(* other.  What a page held in its former life is still there when it is   *)
(* allocated again without ALLOC_ZERO.                                     *)
(*                                                                         *)
(* The kernel runs with interrupts disabled, so an operation is one step;  *)
(* the long loop of env_free is one step per iteration.  The permission    *)
(* bits are an uninterpreted Perm.                                         *)
(***************************************************************************)
EXTENDS Integers, Sequences, FiniteSets

CONSTANTS Page,      \* the pages page_init put on page_free_list
          Space,     \* struct Envs: the owners of an env_pgdir
          NPDE,      \* page directory entries below UTOP: PDX(UTOP)
          NPTE,      \* entries of a page table: NPTENTRIES
          Perm,      \* permission bits of an entry
          PdePerm,   \* PTE_U | PTE_W, the permissions of a directory entry
          RefLimit,  \* 2^16: pp_ref is a uint16_t
          MaxShare,  \* the most mappings of one page that a caller makes
          Image,     \* contents a user program or load_icode may store
          NULL

PDX == 0 .. NPDE - 1
PTX == 0 .. NPTE - 1
Idx == PDX \cup PTX
VPage == PDX \X PTX

(* A page table or page directory entry; pa = NULL when PTE_P is clear.    *)
Entry == [pa : Page \cup {NULL}, perm : Perm \cup {NULL}]
Zero == [pa |-> NULL, perm |-> NULL]
LeftoverPage == CHOOSE c \in Image : TRUE   \* mutant: ALLOC_ZERO forgotten
ZeroPage == [k \in Idx |-> Zero]

ASSUME SizeAssumption ==
  /\ NPDE \in Nat \ {0}
  /\ NPTE \in Nat \ {0}
  /\ IsFiniteSet(Space)
  /\ IsFiniteSet(Page)
ASSUME NullAssumption == NULL \notin Page /\ NULL \notin Space /\ PdePerm \in Perm
ASSUME ImageAssumption == Image \subseteq [Idx -> Entry]

(* Callers never map one page MaxShare times over (region_alloc: once,     *)
(* check_page: twice), so the 16-bit counter does not wrap.                *)
ASSUME RefAssumption ==
  /\ RefLimit \in Nat
  /\ MaxShare \in Nat \ {0}
  /\ MaxShare < RefLimit

VARIABLES
  mem,             \* the contents of every physical page
  pp_ref,          \* PageInfo.pp_ref
  page_free_list,  \* the list of free pages, head first
  held,            \* pages a caller got from page_alloc and still owns
  pgdir,           \* env_pgdir, as a page; NULL when there is none
  freeing,         \* the space env_free is taking apart, or NULL
  pdeno,           \* the loop counters of env_free
  pteno,
  panicked

loop == <<pdeno, pteno>>
vars == <<mem, pp_ref, page_free_list, held, pgdir, freeing, loop, panicked>>

----------------------------------------------------------------------------
(* Reading the two-level structure. *)

Table(s, i) == IF pgdir[s] = NULL THEN NULL ELSE mem[pgdir[s]][i].pa

HasTable(s, i) == Table(s, i) # NULL

(* page_lookup: the entry for v, not present when there is no page table.  *)
Lookup(s, v) == IF HasTable(s, v[1]) THEN mem[Table(s, v[1])][v[2]] ELSE Zero

Mapped(p) == \E s \in Space, v \in VPage : Lookup(s, v).pa = p

(* The page is on the free list and not at its end: pp_link is not NULL.   *)
Linked(list, p) == \E n \in 1 .. Len(list) - 1 : list[n] = p

(* pp_ref wraps around.                                                    *)
Inc(n) == IF n + 1 = RefLimit THEN 0 ELSE n + 1
Dec(n) == IF n = 0 THEN RefLimit - 1 ELSE n - 1

----------------------------------------------------------------------------
(* page_decref on a mapped page, if there is one, and the page_free it     *)
(* calls when the last reference is gone.                                  *)
RefsKept(ref, p) == ref                     \* mutant: page_decref forgotten
RefsWithout(ref, p) == IF p = NULL THEN ref ELSE [ref EXCEPT ![p] = Dec(@)]

ListSame(list, ref, p) == list              \* mutant: the last user frees nothing
ListAlways(list, ref, p) ==                 \* mutant: any user frees the page
  IF p # NULL THEN <<p>> \o list ELSE list
ListWith(list, ref, p) ==
  IF p # NULL /\ ref[p] = 0 THEN <<p>> \o list ELSE list

(* page_remove panics on a page without references; page_free panics on a  *)
(* page that is still linked.                                              *)
DropPanics(list, ref, p) ==
  /\ p # NULL
  /\ \/ ref[p] = 0
     \/ Dec(ref[p]) = 0 /\ Linked(list, p)

(* pgdir_walk(pgdir, va, create = true): the table for directory entry i   *)
(* and the state after allocating it when it was missing.                  *)
pgdir_walk(s, i) ==
  IF HasTable(s, i)
  THEN [ok |-> TRUE, table |-> Table(s, i),
        mem |-> mem, ref |-> pp_ref, list |-> page_free_list]
  ELSE IF page_free_list = <<>>
  THEN [ok |-> FALSE, table |-> NULL,
        mem |-> mem, ref |-> pp_ref, list |-> page_free_list]
  ELSE LET t == Head(page_free_list) IN
       [ok |-> TRUE, table |-> t,
        mem |-> [mem EXCEPT ![t] = ZeroPage,
                            ![pgdir[s]][i] = [pa |-> t, perm |-> PdePerm]],
        ref |-> [pp_ref EXCEPT ![t] = Inc(@)],
        list |-> Tail(page_free_list)]

----------------------------------------------------------------------------
(* Free pages hold what was left in them: at boot, the 0x97 bytes that     *)
(* check_page_free_list fills them with, which read as present entries.    *)
Init ==
  /\ \E c \in Image : mem = [p \in Page |-> c]
  /\ pp_ref = [p \in Page |-> 0]
  /\ page_free_list \in [1 .. Cardinality(Page) -> Page]
  /\ \A m, n \in DOMAIN page_free_list :
       page_free_list[m] = page_free_list[n] => m = n
  /\ \A p \in Page : \E n \in DOMAIN page_free_list : page_free_list[n] = p
  /\ held = {}
  /\ pgdir = [s \in Space |-> NULL]
  /\ freeing = NULL
  /\ pdeno = 0
  /\ pteno = 0
  /\ panicked = FALSE

Running == ~panicked /\ freeing = NULL

Panic ==
  /\ panicked' = TRUE
  /\ UNCHANGED <<mem, pp_ref, page_free_list, held, pgdir, freeing>>

page_alloc(zero) ==
  /\ Running
  /\ page_free_list # <<>>
  /\ LET p == Head(page_free_list) IN
       /\ mem' = IF zero THEN [mem EXCEPT ![p] = ZeroPage] ELSE mem
       /\ held' = held \cup {p}
  /\ page_free_list' = Tail(page_free_list)
  /\ UNCHANGED <<pp_ref, pgdir, freeing, loop, panicked>>

page_free(p) ==
  /\ Running
  /\ p \in held
  /\ UNCHANGED loop
  /\ IF pp_ref[p] # 0 \/ Linked(page_free_list, p)
     THEN Panic
     ELSE /\ page_free_list' = <<p>> \o page_free_list
          /\ held' = held \ {p}
          /\ UNCHANGED <<mem, pp_ref, pgdir, freeing, panicked>>

(* A caller maps a page it holds or one that is mapped already.  The       *)
(* reference is counted before page_remove drops the old mapping.  When    *)
(* pgdir_walk finds no memory the call returns -E_NO_MEM and changes       *)
(* nothing.                                                                *)
page_insert(s, p, v, perm) ==
  LET walk == pgdir_walk(s, v[1])
      ref1 == [walk.ref EXCEPT ![p] = Inc(@)]
      old  == walk.mem[walk.table][v[2]].pa
  IN
  /\ Running
  /\ pgdir[s] # NULL
  /\ p \in held \/ Mapped(p)
  /\ pp_ref[p] < MaxShare
  /\ walk.ok
  /\ UNCHANGED loop
  /\ IF DropPanics(walk.list, ref1, old)
     THEN Panic
     ELSE /\ mem' = [walk.mem EXCEPT ![walk.table][v[2]] =
                       [pa |-> p, perm |-> perm]]
          /\ pp_ref' = RefsWithout(ref1, old)
          /\ page_free_list' = ListWith(walk.list, pp_ref', old)
          /\ held' = held \ {p}
          /\ UNCHANGED <<pgdir, freeing, panicked>>

(* page_remove, and each page_remove of env_free's inner loop.             *)
Unmap(s, v) ==
  LET old == Lookup(s, v).pa IN
  /\ old # NULL
  /\ IF DropPanics(page_free_list, pp_ref, old)
     THEN Panic
     ELSE /\ mem' = [mem EXCEPT ![Table(s, v[1])][v[2]] = Zero]
          /\ pp_ref' = RefsWithout(pp_ref, old)
          /\ page_free_list' = ListWith(page_free_list, pp_ref', old)
          /\ UNCHANGED <<held, pgdir, freeing, panicked>>

page_remove(s, v) == Running /\ Unmap(s, v) /\ UNCHANGED loop

(* The program, or load_icode's memcpy and memset, stores into a mapped    *)
(* page.                                                                   *)
store(s, v, c) ==
  /\ Running
  /\ Lookup(s, v).pa # NULL
  /\ mem' = [mem EXCEPT ![Lookup(s, v).pa] = c]
  /\ UNCHANGED <<pp_ref, page_free_list, held, pgdir, freeing, loop, panicked>>

env_setup_vm(s) ==
  /\ Running
  /\ pgdir[s] = NULL
  /\ page_free_list # <<>>
  /\ LET p == Head(page_free_list) IN
       /\ mem' = [mem EXCEPT ![p] = ZeroPage]
       /\ pp_ref' = [pp_ref EXCEPT ![p] = Inc(@)]
       /\ pgdir' = [pgdir EXCEPT ![s] = p]
  /\ page_free_list' = Tail(page_free_list)
  /\ UNCHANGED <<held, freeing, loop, panicked>>

----------------------------------------------------------------------------
(* env_free: for each present directory entry, page_remove every mapped    *)
(* page, clear the entry and drop the table; then drop the directory.      *)

env_free(s) ==
  /\ Running
  /\ pgdir[s] # NULL
  /\ freeing' = s
  /\ pdeno' = 0
  /\ pteno' = 0
  /\ UNCHANGED <<mem, pp_ref, page_free_list, held, pgdir, panicked>>

Freeing == ~panicked /\ freeing # NULL

(* No page table: continue.                                                *)
env_free_skip ==
  /\ Freeing
  /\ pdeno < NPDE
  /\ ~HasTable(freeing, pdeno)
  /\ pdeno' = pdeno + 1
  /\ UNCHANGED <<mem, pp_ref, page_free_list, held, pgdir, freeing, pteno, panicked>>

(* One round of the inner loop.                                            *)
env_free_page ==
  /\ Freeing
  /\ pdeno < NPDE
  /\ HasTable(freeing, pdeno)
  /\ pteno < NPTE
  /\ \/ Unmap(freeing, <<pdeno, pteno>>)
     \/ /\ Lookup(freeing, <<pdeno, pteno>>).pa = NULL
        /\ UNCHANGED <<mem, pp_ref, page_free_list, held, pgdir, freeing, panicked>>
  /\ pteno' = pteno + 1
  /\ UNCHANGED pdeno

(* page_decref of a page that holds a table or a directory.                *)
Decref(p) ==
  /\ pp_ref' = RefsWithout(pp_ref, p)
  /\ page_free_list' = ListWith(page_free_list, pp_ref', p)

env_free_table ==
  LET t == Table(freeing, pdeno) IN
  /\ Freeing
  /\ pdeno < NPDE
  /\ t # NULL
  /\ pteno = NPTE
  /\ IF Dec(pp_ref[t]) = 0 /\ Linked(page_free_list, t)
     THEN Panic
     ELSE /\ mem' = [mem EXCEPT ![pgdir[freeing]][pdeno] = Zero]
          /\ Decref(t)
          /\ UNCHANGED <<held, pgdir, freeing, panicked>>
  /\ pdeno' = pdeno + 1
  /\ pteno' = 0

env_free_pgdir ==
  LET d == pgdir[freeing] IN
  /\ Freeing
  /\ pdeno = NPDE
  /\ IF Dec(pp_ref[d]) = 0 /\ Linked(page_free_list, d)
     THEN Panic
     ELSE /\ pgdir' = [pgdir EXCEPT ![freeing] = NULL]
          /\ Decref(d)
          /\ freeing' = NULL
          /\ UNCHANGED <<mem, held, panicked>>
  /\ pdeno' = 0
  /\ pteno' = 0

EnvFreeStep == env_free_skip \/ env_free_page \/ env_free_table \/ env_free_pgdir

----------------------------------------------------------------------------
Next ==
  \/ \E zero \in BOOLEAN : page_alloc(zero)
  \/ \E p \in Page : page_free(p)
  \/ \E s \in Space, p \in Page, v \in VPage, perm \in Perm :
       page_insert(s, p, v, perm)
  \/ \E s \in Space, v \in VPage : page_remove(s, v)
  \/ \E s \in Space, v \in VPage, c \in Image : store(s, v, c)
  \/ \E s \in Space : env_setup_vm(s)
  \/ \E s \in Space : env_free(s)
  \/ EnvFreeStep

Spec == Init /\ [][Next]_vars

----------------------------------------------------------------------------
TypeOK ==
  /\ mem \in [Page -> [Idx -> Entry]]
  /\ pp_ref \in [Page -> 0 .. RefLimit - 1]
  /\ page_free_list \in Seq(Page)
  /\ held \subseteq Page
  /\ pgdir \in [Space -> Page \cup {NULL}]
  /\ freeing \in Space \cup {NULL}
  /\ pdeno \in 0 .. NPDE
  /\ pteno \in 0 .. NPTE
  /\ panicked \in BOOLEAN

IsDir(p) == \E s \in Space : pgdir[s] = p

IsTable(p) == \E s \in Space, i \in PDX : Table(s, i) = p

IsFree(p) == \E n \in 1 .. Len(page_free_list) : page_free_list[n] = p

Mappings(p) == {sv \in Space \X VPage : Lookup(sv[1], sv[2]).pa = p}

(* pp_ref counts exactly the pointers to the page: the env_pgdir that is   *)
(* it, the directory entries and the page table entries that refer to it   *)
(* (struct PageInfo in inc/memlayout.h).                                   *)
RefCountExact ==
  \A p \in Page :
    pp_ref[p] = Cardinality({s \in Space : pgdir[s] = p})
              + Cardinality({si \in Space \X PDX :
                               Table(si[1], si[2]) = p})
              + Cardinality(Mappings(p))

(* The free list has no duplicates, and a page on it is neither owned by a *)
(* caller nor reachable from any address space: no use after page_free.    *)
FreePagesUnused ==
  /\ \A m, n \in 1 .. Len(page_free_list) :
       page_free_list[m] = page_free_list[n] => m = n
  /\ \A p \in Page :
       IsFree(p) => p \notin held /\ ~IsDir(p) /\ ~IsTable(p) /\ ~Mapped(p)

(* Every page is free, owned by a caller or in use: none is ever lost.     *)
NoLeak ==
  \A p \in Page :
    IsFree(p) \/ p \in held \/ IsDir(p) \/ IsTable(p) \/ Mapped(p)

(* Page directories and page tables belong to one place in one address     *)
(* space and are never mapped below UTOP, where a program could change     *)
(* them.                                                                   *)
TablesPrivate ==
  /\ \A s, r \in Space : pgdir[s] = pgdir[r] /\ pgdir[s] # NULL => s = r
  /\ \A s, r \in Space, i, k \in PDX :
       HasTable(s, i) /\ Table(s, i) = Table(r, k) => s = r /\ i = k
  /\ \A p \in Page : ~(IsDir(p) /\ IsTable(p))
  /\ \A p \in Page : Mapped(p) => ~IsDir(p) /\ ~IsTable(p)

(* The sanity panics of page_free and page_remove (pmap.c:354-357, 558)    *)
(* never fire.                                                             *)
NoPanic == ~panicked

----------------------------------------------------------------------------
(* The address spaces as their users see them: AddrSpace is implemented.   *)
VM == INSTANCE AddrSpace WITH
        live  <- {s \in Space : pgdir[s] # NULL},
        map   <- [s \in Space |-> [v \in VPage |-> Lookup(s, v)]],
        image <- [p \in Page |-> IF Mapped(p) THEN mem[p] ELSE NULL]

(* Page tables implement independent address spaces whose mapped pages     *)
(* keep their contents (kern/pmap.c page_insert, page_remove, kern/env.c   *)
(* env_setup_vm, env_free).                                                *)
ImplementsAddrSpace == VM!Spec
==========================================================================
