----------------------------- MODULE PmapProofs -----------------------------
(***************************************************************************)
(* The theorems of Pmap, with the processor (Tlb) and without it: safety,  *)
(* the implementation of AddrSpace, exact translations.                    *)
(*                                                                         *)
(* First the types and the safety invariants, for every machine: any       *)
(* number of pages, address spaces and entries.  The invariants of         *)
(* Pmap are not inductive one by one: that a free page is in no address    *)
(* space needs exact reference counts, these need page tables to be        *)
(* private, and that needs free pages to be in no address space.  Good is  *)
(* their conjunction, as a predicate of memory, counters, free list, held  *)
(* pages and directories, so that it can be followed through the stages of *)
(* one operation (pgdir_walk, then the entry and the dropped page).        *)
(***************************************************************************)
EXTENDS Tlb, FiniteSetTheorems, TLAPS

----------------------------------------------------------------------------
(* The types.                                                              *)
(* The counter stays within its 16 bits.                                   *)
LEMMA CounterType ==
  ASSUME NEW n \in 0 .. RefLimit - 1
  PROVE  Inc(n) \in 0 .. RefLimit - 1 /\ Dec(n) \in 0 .. RefLimit - 1
BY RefAssumption DEF Inc, Dec

(* Entries read through a well-typed page directory are well typed.        *)
LEMMA LookupType ==
  ASSUME TypeOK, NEW s \in Space, NEW v \in VPage
  PROVE  /\ Lookup(s, v) \in Entry
         /\ HasTable(s, v[1]) => Table(s, v[1]) \in Page
         /\ Lookup(s, v).pa # NULL => HasTable(s, v[1])
<1>1. v[1] \in PDX /\ v[2] \in PTX /\ v[1] \in Idx /\ v[2] \in Idx
  BY DEF VPage, Idx
<1>2. HasTable(s, v[1]) => Table(s, v[1]) \in Page
  BY <1>1 DEF HasTable, Table, TypeOK, Entry
<1>3. HasTable(s, v[1]) => mem[Table(s, v[1])][v[2]] \in Entry
  BY <1>1, <1>2 DEF TypeOK
<1>4. Zero \in Entry /\ Zero.pa = NULL
  BY DEF Zero, Entry
<1> QED BY <1>2, <1>3, <1>4 DEF Lookup

(* What pgdir_walk returns when it succeeds.                               *)
LEMMA WalkType ==
  ASSUME TypeOK, NEW s \in Space, NEW i \in PDX, pgdir[s] # NULL,
         pgdir_walk(s, i).ok
  PROVE  /\ pgdir_walk(s, i).table \in Page
         /\ pgdir_walk(s, i).mem \in [Page -> [Idx -> Entry]]
         /\ pgdir_walk(s, i).ref \in [Page -> 0 .. RefLimit - 1]
         /\ pgdir_walk(s, i).list \in Seq(Page)
<1> USE SizeAssumption, NullAssumption, RefAssumption
<1>1. i \in Idx /\ pgdir[s] \in Page
  BY DEF Idx, TypeOK
<1>2. CASE HasTable(s, i)
  <2>1. Table(s, i) \in Page
    BY <1>1, <1>2 DEF HasTable, Table, TypeOK, Entry
  <2> QED BY <1>2, <2>1 DEF pgdir_walk, TypeOK
<1>3. CASE ~HasTable(s, i)
  <2>1. page_free_list # <<>>
    BY <1>3 DEF pgdir_walk
  <2> DEFINE t == Head(page_free_list)
             e == [pa |-> t, perm |-> PdePerm]
  <2>2. t \in Page /\ Tail(page_free_list) \in Seq(Page)
    BY <2>1 DEF TypeOK
  <2>3. ZeroPage \in [Idx -> Entry] /\ e \in Entry
    BY <2>2 DEF ZeroPage, Zero, Entry
  <2>4. [mem EXCEPT ![t] = ZeroPage, ![pgdir[s]][i] = e]
          \in [Page -> [Idx -> Entry]]
    BY <1>1, <2>2, <2>3 DEF TypeOK
  <2>5. [pp_ref EXCEPT ![t] = Inc(@)] \in [Page -> 0 .. RefLimit - 1]
    BY <2>2 DEF TypeOK, Inc
  <2> QED BY <1>3, <2>1, <2>2, <2>4, <2>5 DEF pgdir_walk
<1> QED BY <1>2, <1>3

(* Dropping a reference, and freeing the page with it, keeps the types.    *)
LEMMA DropType ==
  ASSUME NEW ref \in [Page -> 0 .. RefLimit - 1], NEW list \in Seq(Page),
         NEW p \in Page \cup {NULL}
  PROVE  /\ RefsWithout(ref, p) \in [Page -> 0 .. RefLimit - 1]
         /\ \A r : ListWith(list, r, p) \in Seq(Page)
<1>1. RefsWithout(ref, p) \in [Page -> 0 .. RefLimit - 1]
  BY RefAssumption DEF RefsWithout, Dec
<1>2. ASSUME p # NULL PROVE <<p>> \o list \in Seq(Page)
  BY <1>2
<1> QED BY <1>1, <1>2 DEF ListWith

LEMMA TypeInit == Init => TypeOK
<1> USE SizeAssumption, NullAssumption, RefAssumption
<1> SUFFICES ASSUME Init PROVE TypeOK
  OBVIOUS
<1>1. mem \in [Page -> [Idx -> Entry]]
  BY ImageAssumption DEF Init
<1>2. page_free_list \in Seq(Page)
  BY FS_CardinalityType DEF Init
<1>3. pp_ref \in [Page -> 0 .. RefLimit - 1]
  BY DEF Init
<1>4. pdeno \in 0 .. NPDE /\ pteno \in 0 .. NPTE
  BY DEF Init
<1>5. /\ held \subseteq Page /\ freeing \in Space \cup {NULL}
      /\ pgdir \in [Space -> Page \cup {NULL}] /\ panicked \in BOOLEAN
  BY DEF Init
<1> QED BY <1>1, <1>2, <1>3, <1>4, <1>5 DEF TypeOK

LEMMA TypeNext == TypeOK /\ [Next]_vars => TypeOK'
<1> USE SizeAssumption, NullAssumption, RefAssumption
<1> SUFFICES ASSUME TypeOK, [Next]_vars PROVE TypeOK'
  OBVIOUS
<1>0. ASSUME Panic, pdeno' \in 0 .. NPDE, pteno' \in 0 .. NPTE PROVE TypeOK'
  BY <1>0 DEF Panic, TypeOK
<1>13. UNCHANGED loop => pdeno' \in 0 .. NPDE /\ pteno' \in 0 .. NPTE
  BY DEF loop, TypeOK
<1>1. ASSUME NEW zero \in BOOLEAN, page_alloc(zero) PROVE TypeOK'
  <2>1. Head(page_free_list) \in Page /\ Tail(page_free_list) \in Seq(Page)
    BY <1>1 DEF page_alloc, TypeOK
  <2>2. ZeroPage \in [Idx -> Entry]
    BY DEF ZeroPage, Zero, Entry
  <2> QED BY <1>1, <1>13, <2>1, <2>2 DEF page_alloc, TypeOK
<1>2. ASSUME NEW p \in Page, page_free(p) PROVE TypeOK'
  <2>1. CASE pp_ref[p] # 0 \/ Linked(page_free_list, p)
    BY <1>0, <1>2, <1>13, <2>1 DEF page_free
  <2>2. CASE ~(pp_ref[p] # 0 \/ Linked(page_free_list, p))
    <3>1. /\ page_free_list' = <<p>> \o page_free_list
          /\ held' = held \ {p}
          /\ UNCHANGED <<mem, pp_ref, pgdir, freeing, loop, panicked>>
      BY <1>2, <2>2 DEF page_free
    <3>2. page_free_list' \in Seq(Page)
      BY <3>1 DEF TypeOK
    <3> QED BY <1>13, <3>1, <3>2 DEF TypeOK
  <2> QED BY <2>1, <2>2
<1>3. ASSUME NEW s \in Space, NEW p \in Page, NEW v \in VPage,
             NEW perm \in Perm, page_insert(s, p, v, perm)
      PROVE  TypeOK'
  <2> DEFINE walk == pgdir_walk(s, v[1])
             ref1 == [walk.ref EXCEPT ![p] = Inc(@)]
             old == walk.mem[walk.table][v[2]].pa
             e == [pa |-> p, perm |-> perm]
  <2>1. CASE DropPanics(walk.list, ref1, old)
    BY <1>0, <1>3, <1>13, <2>1 DEF page_insert
  <2>2. CASE ~DropPanics(walk.list, ref1, old)
    <3>1. v[1] \in PDX /\ v[2] \in Idx
      BY DEF VPage, Idx
    <3>2. /\ walk.table \in Page
          /\ walk.mem \in [Page -> [Idx -> Entry]]
          /\ walk.ref \in [Page -> 0 .. RefLimit - 1]
          /\ walk.list \in Seq(Page)
      BY <1>3, <3>1, WalkType DEF page_insert
    <3> HIDE DEF walk
    <3>3. old \in Page \cup {NULL} /\ e \in Entry
      BY <3>1, <3>2 DEF Entry
    <3>4. ref1 \in [Page -> 0 .. RefLimit - 1]
      BY <3>2, CounterType
    <3>5. [walk.mem EXCEPT ![walk.table][v[2]] = e]
            \in [Page -> [Idx -> Entry]]
      BY <3>1, <3>2, <3>3
    <3>6. /\ mem' = [walk.mem EXCEPT ![walk.table][v[2]] = e]
          /\ pp_ref' = RefsWithout(ref1, old)
          /\ page_free_list' = ListWith(walk.list, pp_ref', old)
          /\ held' = held \ {p}
          /\ UNCHANGED <<pgdir, freeing, loop, panicked>>
      BY <1>3, <2>2 DEF page_insert, walk
    <3> HIDE DEF ref1, old, e
    <3>7. /\ pp_ref' \in [Page -> 0 .. RefLimit - 1]
          /\ page_free_list' \in Seq(Page)
      BY <3>2, <3>3, <3>4, <3>6, DropType
    <3> QED BY <1>13, <3>5, <3>6, <3>7 DEF TypeOK
  <2> QED BY <2>1, <2>2
<1>4. ASSUME NEW s \in Space, NEW v \in VPage, Unmap(s, v),
             pdeno' \in 0 .. NPDE, pteno' \in 0 .. NPTE
      PROVE  TypeOK'
  <2> DEFINE old == Lookup(s, v).pa
  <2>1. CASE DropPanics(page_free_list, pp_ref, old)
    BY <1>0, <1>4, <2>1 DEF Unmap
  <2>2. CASE ~DropPanics(page_free_list, pp_ref, old)
    <3>1. old \in Page /\ Table(s, v[1]) \in Page /\ v[2] \in Idx
      BY <1>4, LookupType DEF Unmap, Entry, VPage, Idx
    <3>2. /\ mem' = [mem EXCEPT ![Table(s, v[1])][v[2]] = Zero]
          /\ pp_ref' = RefsWithout(pp_ref, old)
          /\ page_free_list' = ListWith(page_free_list, pp_ref', old)
          /\ UNCHANGED <<held, pgdir, freeing, panicked>>
      BY <1>4, <2>2 DEF Unmap
    <3>3. Zero \in Entry
      BY DEF Zero, Entry
    <3>4. mem' \in [Page -> [Idx -> Entry]]
      BY <3>1, <3>2, <3>3 DEF TypeOK
    <3> HIDE DEF old
    <3>5. /\ pp_ref' \in [Page -> 0 .. RefLimit - 1]
          /\ page_free_list' \in Seq(Page)
      BY <3>1, <3>2, DropType DEF TypeOK
    <3> QED BY <1>4, <3>2, <3>4, <3>5 DEF TypeOK
  <2> QED BY <2>1, <2>2
<1>5. ASSUME NEW s \in Space, NEW v \in VPage, NEW c \in Image, store(s, v, c)
      PROVE  TypeOK'
  <2>1. c \in [Idx -> Entry] /\ Lookup(s, v).pa \in Page
    BY <1>5, ImageAssumption, LookupType DEF store, Entry
  <2> QED BY <1>5, <1>13, <2>1 DEF store, TypeOK
<1>6. ASSUME NEW s \in Space, env_setup_vm(s) PROVE TypeOK'
  <2>1. Head(page_free_list) \in Page /\ Tail(page_free_list) \in Seq(Page)
    BY <1>6 DEF env_setup_vm, TypeOK
  <2>2. ZeroPage \in [Idx -> Entry]
    BY DEF ZeroPage, Zero, Entry
  <2>3. pp_ref' \in [Page -> 0 .. RefLimit - 1]
    BY <1>6, <2>1, CounterType DEF env_setup_vm, TypeOK
  <2>4. mem' \in [Page -> [Idx -> Entry]] /\ pgdir' \in [Space -> Page \cup {NULL}]
    BY <1>6, <2>1, <2>2 DEF env_setup_vm, TypeOK
  <2> QED BY <1>6, <1>13, <2>1, <2>3, <2>4 DEF env_setup_vm, TypeOK
<1>7. ASSUME NEW s \in Space, env_free(s) PROVE TypeOK'
  BY <1>7 DEF env_free, TypeOK
<1>8. ASSUME NEW p \in Page \cup {NULL}, Decref(p)
      PROVE  /\ pp_ref' \in [Page -> 0 .. RefLimit - 1]
             /\ page_free_list' \in Seq(Page)
  BY <1>8, DropType DEF Decref, TypeOK
<1>9. ASSUME env_free_table PROVE TypeOK'
  <2>1. freeing \in Space /\ pdeno \in PDX /\ pdeno \in Idx /\ Table(freeing, pdeno) # NULL
    BY <1>9 DEF env_free_table, Freeing, TypeOK, Idx, PDX
  <2>2. pgdir[freeing] \in Page /\ Table(freeing, pdeno) \in Page
    BY <2>1 DEF Table, TypeOK, Entry
  <2>3. Zero \in Entry
    BY DEF Zero, Entry
  <2>4. [mem EXCEPT ![pgdir[freeing]][pdeno] = Zero] \in [Page -> [Idx -> Entry]]
    BY <2>1, <2>2, <2>3 DEF TypeOK
  <2>5. pdeno' \in 0 .. NPDE /\ pteno' \in 0 .. NPTE
    BY <1>9 DEF env_free_table, TypeOK
  <2> QED BY <1>0, <1>8, <1>9, <2>2, <2>4, <2>5 DEF env_free_table, TypeOK
<1>10. ASSUME env_free_pgdir PROVE TypeOK'
  <2>1. freeing \in Space /\ pgdir[freeing] \in Page \cup {NULL}
    BY <1>10 DEF env_free_pgdir, Freeing, TypeOK
  <2>2. pdeno' \in 0 .. NPDE /\ pteno' \in 0 .. NPTE
    BY <1>10 DEF env_free_pgdir
  <2> QED BY <1>0, <1>8, <1>10, <2>1, <2>2 DEF env_free_pgdir, TypeOK
<1>11. CASE UNCHANGED vars
  BY <1>11 DEF vars, loop, TypeOK
<1>12. ASSUME env_free_page PROVE TypeOK'
  <2>1. /\ freeing \in Space /\ <<pdeno, pteno>> \in VPage
        /\ pdeno' \in 0 .. NPDE /\ pteno' \in 0 .. NPTE
    BY <1>12 DEF env_free_page, Freeing, TypeOK, VPage, PDX, PTX
  <2>2. CASE Unmap(freeing, <<pdeno, pteno>>)
    BY <1>4, <2>1, <2>2
  <2>3. CASE UNCHANGED <<mem, pp_ref, page_free_list, held, pgdir, freeing, panicked>>
    BY <2>1, <2>3 DEF TypeOK
  <2> QED BY <1>12, <2>2, <2>3 DEF env_free_page
<1>14. ASSUME env_free_skip PROVE TypeOK'
  BY <1>14 DEF env_free_skip, TypeOK
<1>15. ASSUME NEW s \in Space, NEW v \in VPage, page_remove(s, v) PROVE TypeOK'
  BY <1>4, <1>13, <1>15 DEF page_remove
<1> QED
  BY <1>1, <1>2, <1>3, <1>5, <1>6, <1>7, <1>9, <1>10, <1>11, <1>12, <1>14, <1>15
  DEF Next, EnvFreeStep

(* Every value of the state is of the declared kind; in particular pp_ref  *)
(* stays within its 16 bits and page_free_list is a list of pages of       *)
(* page_init (kern/pmap.c).                                                *)
THEOREM TypeCorrect == Spec => []TypeOK
BY TypeInit, TypeNext, PTL DEF Spec

----------------------------------------------------------------------------
(* The safety invariants.                                                  *)

TableIn(m, d, s, i) == IF d[s] = NULL THEN NULL ELSE m[d[s]][i].pa

PageIn(m, d, s, v) ==
  IF TableIn(m, d, s, v[1]) = NULL THEN NULL
  ELSE m[TableIn(m, d, s, v[1])][v[2]].pa

Users(m, d, p) == {sv \in Space \X VPage : PageIn(m, d, sv[1], sv[2]) = p}

DirIn(d, p) == \E s \in Space : d[s] = p

TabIn(m, d, p) == \E s \in Space, i \in PDX : TableIn(m, d, s, i) = p

InList(l, p) == \E n \in 1 .. Len(l) : l[n] = p

Unique(l) == \A n, k \in 1 .. Len(l) : l[n] = l[k] => n = k

Types(m, ref, l, h, d) ==
  /\ m \in [Page -> [Idx -> Entry]]
  /\ ref \in [Page -> 0 .. RefLimit - 1]
  /\ l \in Seq(Page)
  /\ h \subseteq Page
  /\ d \in [Space -> Page \cup {NULL}]

(* No directory and no table has two places.                               *)
Distinct(m, d) ==
  /\ \A s, r \in Space : d[s] = d[r] /\ d[s] # NULL => s = r
  /\ \A s, r \in Space, i, k \in PDX :
       TableIn(m, d, s, i) = TableIn(m, d, r, k) /\ TableIn(m, d, s, i) # NULL
         => s = r /\ i = k

(* A page has exactly one role, and its counter is right for it.           *)
OneRole(m, ref, l, h, d, p) ==
  /\ InList(l, p) => p \notin h
  /\ InList(l, p) \/ p \in h =>
       ~DirIn(d, p) /\ ~TabIn(m, d, p) /\ Users(m, d, p) = {}
  /\ DirIn(d, p) => ~TabIn(m, d, p) /\ Users(m, d, p) = {}
  /\ TabIn(m, d, p) => Users(m, d, p) = {}
  /\ \/ InList(l, p) \/ p \in h
     \/ DirIn(d, p) \/ TabIn(m, d, p) \/ Users(m, d, p) # {}

RefRight(m, ref, d, p) ==
  ref[p] = IF DirIn(d, p) \/ TabIn(m, d, p) THEN 1
           ELSE Cardinality(Users(m, d, p))

Good(m, ref, l, h, d) ==
  /\ Types(m, ref, l, h, d)
  /\ Unique(l)
  /\ Distinct(m, d)
  /\ \A p \in Page : OneRole(m, ref, l, h, d, p) /\ RefRight(m, ref, d, p)

(* What env_free has passed is empty.                                      *)
LoopOK ==
  freeing # NULL =>
    /\ pgdir[freeing] # NULL
    /\ \A i \in PDX : i < pdeno => TableIn(mem, pgdir, freeing, i) = NULL
    /\ pdeno < NPDE =>
         IF TableIn(mem, pgdir, freeing, pdeno) = NULL THEN pteno = 0
         ELSE \A j \in PTX : j < pteno =>
                mem[TableIn(mem, pgdir, freeing, pdeno)][j].pa = NULL

(* The inductive invariant.                                                *)
IInv ==
  /\ TypeOK
  /\ Good(mem, pp_ref, page_free_list, held, pgdir)
  /\ LoopOK
  /\ NoPanic

----------------------------------------------------------------------------
(* Taking the head off the free list, and putting a page in front of it.   *)
LEMMA ListTail ==
  ASSUME NEW l \in Seq(Page), l # <<>>, Unique(l)
  PROVE  /\ Head(l) \in Page
         /\ Tail(l) \in Seq(Page)
         /\ Unique(Tail(l))
         /\ ~InList(Tail(l), Head(l))
         /\ \A p : InList(l, p) <=> p = Head(l) \/ InList(Tail(l), p)
<1>1. /\ Len(l) \in Nat /\ Len(l) >= 1
      /\ Tail(l) \in Seq(Page) /\ Len(Tail(l)) = Len(l) - 1
      /\ \A n \in 1 .. Len(l) - 1 : Tail(l)[n] = l[n + 1]
      /\ Head(l) = l[1]
  OBVIOUS
<1>2. Head(l) \in Page
  BY <1>1
<1>3. Unique(Tail(l)) /\ ~InList(Tail(l), Head(l))
  BY <1>1 DEF Unique, InList
<1>4. ASSUME NEW p PROVE InList(l, p) <=> p = Head(l) \/ InList(Tail(l), p)
  <2>1. ASSUME NEW n \in 1 .. Len(l), l[n] = p, n # 1
        PROVE  InList(Tail(l), p)
    <3>1. n - 1 \in 1 .. Len(Tail(l)) /\ Tail(l)[n - 1] = p
      BY <1>1, <2>1
    <3> QED BY <3>1 DEF InList
  <2>2. ASSUME NEW n \in 1 .. Len(Tail(l)), Tail(l)[n] = p
        PROVE  InList(l, p)
    <3>1. n + 1 \in 1 .. Len(l) /\ l[n + 1] = p
      BY <1>1, <2>2
    <3> QED BY <3>1 DEF InList
  <2>3. 1 \in 1 .. Len(l)
    BY <1>1
  <2> QED BY <1>1, <2>1, <2>2, <2>3 DEF InList
<1> QED BY <1>1, <1>2, <1>3, <1>4

LEMMA ListCons ==
  ASSUME NEW l \in Seq(Page), Unique(l), NEW q \in Page, ~InList(l, q)
  PROVE  /\ <<q>> \o l \in Seq(Page)
         /\ Unique(<<q>> \o l)
         /\ \A p : InList(<<q>> \o l, p) <=> p = q \/ InList(l, p)
<1> DEFINE c == <<q>> \o l
<1>1. /\ Len(l) \in Nat
      /\ c \in Seq(Page) /\ Len(c) = Len(l) + 1
      /\ c[1] = q
      /\ \A n \in 2 .. Len(l) + 1 : c[n] = l[n - 1]
      /\ \A n \in 1 .. Len(l) : c[n + 1] = l[n]
  OBVIOUS
<1> HIDE DEF c
<1>2. Unique(c)
  <2>1. \A n \in 2 .. Len(l) + 1 : n - 1 \in 1 .. Len(l) /\ c[n] # q
    BY <1>1 DEF InList
  <2>2. \A n \in 1 .. Len(c) : n = 1 \/ n \in 2 .. Len(l) + 1
    BY <1>1
  <2> QED BY <1>1, <2>1, <2>2 DEF Unique
<1>3. ASSUME NEW p PROVE InList(c, p) <=> p = q \/ InList(l, p)
  <2>1. ASSUME NEW n \in 1 .. Len(l), l[n] = p PROVE InList(c, p)
    <3>1. n + 1 \in 1 .. Len(c) /\ c[n + 1] = p
      BY <1>1, <2>1
    <3> QED BY <3>1 DEF InList
  <2>2. ASSUME NEW n \in 1 .. Len(c), c[n] = p, n # 1
        PROVE  InList(l, p)
    <3>1. n - 1 \in 1 .. Len(l) /\ l[n - 1] = p
      BY <1>1, <2>2
    <3> QED BY <3>1 DEF InList
  <2>3. 1 \in 1 .. Len(c)
    BY <1>1
  <2> QED BY <1>1, <2>1, <2>2, <2>3 DEF InList
<1> QED BY <1>1, <1>2, <1>3 DEF c

(* The set of mappings of a page is finite.                                *)
LEMMA UsersFinite ==
  ASSUME NEW m, NEW d, NEW p
  PROVE  IsFiniteSet(Users(m, d, p)) /\ Cardinality(Users(m, d, p)) \in Nat
<1>1. IsFiniteSet(PDX) /\ IsFiniteSet(PTX)
  BY FS_Interval, SizeAssumption DEF PDX, PTX
<1>2. IsFiniteSet(VPage)
  BY <1>1, FS_Product DEF VPage
<1>3. IsFiniteSet(Space \X VPage)
  BY <1>2, FS_Product, SizeAssumption
<1>4. Users(m, d, p) \subseteq Space \X VPage
  BY DEF Users
<1> QED BY <1>3, <1>4, FS_Subset, FS_CardinalityType

----------------------------------------------------------------------------
(* Memory m2 maps page q at (s, v) and is like m otherwise.                *)
Moved(m, d, m2, s, v, q) ==
  /\ m2 \in [Page -> [Idx -> Entry]]
  /\ \A r \in Space, k \in PDX : TableIn(m2, d, r, k) = TableIn(m, d, r, k)
  /\ \A r \in Space, w \in VPage :
       PageIn(m2, d, r, w) = IF r = s /\ w = v THEN q ELSE PageIn(m, d, r, w)

(* Writing one entry of a page table moves one mapping.                    *)
LEMMA SetPteView ==
  ASSUME NEW m \in [Page -> [Idx -> Entry]], NEW d \in [Space -> Page \cup {NULL}],
         Distinct(m, d),
         \A p \in Page : DirIn(d, p) => ~TabIn(m, d, p),
         NEW s \in Space, NEW v \in VPage, NEW e \in Entry,
         TableIn(m, d, s, v[1]) # NULL
  PROVE  /\ TableIn(m, d, s, v[1]) \in Page
         /\ Moved(m, d, [m EXCEPT ![TableIn(m, d, s, v[1])][v[2]] = e], s, v, e.pa)
<1> USE NullAssumption
<1> DEFINE t == TableIn(m, d, s, v[1])
           m2 == [m EXCEPT ![t][v[2]] = e]
<1>1. /\ v[1] \in PDX /\ v[2] \in PTX /\ v[1] \in Idx /\ v[2] \in Idx
      /\ v = <<v[1], v[2]>>
  BY DEF VPage, Idx
<1>2. t \in Page
  BY <1>1 DEF TableIn, Entry
<1>3. m2 \in [Page -> [Idx -> Entry]]
  BY <1>1, <1>2
<1>4. TabIn(m, d, t)
  BY <1>1 DEF TabIn
<1>5. \A r \in Space : d[r] # t
  BY <1>2, <1>4 DEF DirIn
<1>6. \A p \in Page : p # t => m2[p] = m[p]
  BY <1>2
<1>7. m2[t] = [m[t] EXCEPT ![v[2]] = e]
  BY <1>2
<1> HIDE DEF t, m2
<1>8. ASSUME NEW r \in Space, NEW k \in PDX
      PROVE  TableIn(m2, d, r, k) = TableIn(m, d, r, k)
  <2>1. CASE d[r] = NULL
    BY <2>1 DEF TableIn
  <2>2. CASE d[r] # NULL
    <3>1. d[r] \in Page /\ d[r] # t
      BY <2>2, <1>5
    <3> QED BY <3>1, <1>6 DEF TableIn
  <2> QED BY <2>1, <2>2
<1>9. ASSUME NEW r \in Space, NEW w \in VPage
      PROVE  PageIn(m2, d, r, w) = IF r = s /\ w = v THEN e.pa
                                   ELSE PageIn(m, d, r, w)
  <2> DEFINE u == TableIn(m, d, r, w[1])
  <2>1. w[1] \in PDX /\ w[2] \in PTX /\ w[2] \in Idx /\ w[1] \in Idx
        /\ w = <<w[1], w[2]>>
    BY DEF VPage, Idx
  <2>2. TableIn(m2, d, r, w[1]) = u
    BY <1>8, <2>1
  <2>3. CASE u = NULL
    BY <2>2, <2>3, <1>2 DEF PageIn, t
  <2>4. CASE u # NULL /\ u # t
    <3>1. u \in Page
      BY <2>1, <2>4 DEF TableIn, Entry
    <3>2. ~(r = s /\ w = v)
      BY <2>4 DEF t
    <3> QED BY <2>2, <2>4, <3>1, <3>2, <1>6 DEF PageIn
  <2>5. CASE u = t
    <3>1. r = s /\ w[1] = v[1]
      BY <2>1, <2>5, <1>1, <1>2 DEF Distinct, t
    <3>2. PageIn(m2, d, r, w) = m2[t][w[2]].pa
      BY <2>2, <2>5, <1>2 DEF PageIn
    <3>3. PageIn(m, d, r, w) = m[t][w[2]].pa
      BY <2>5, <1>2 DEF PageIn
    <3>4. m[t] \in [Idx -> Entry]
      BY <1>2
    <3>5. w[2] = v[2] <=> w = v
      BY <3>1, <2>1, <1>1
    <3>6. m2[t][w[2]] = IF w[2] = v[2] THEN e ELSE m[t][w[2]]
      BY <1>7, <3>4, <2>1, <1>1
    <3> QED BY <3>1, <3>2, <3>3, <3>5, <3>6
  <2> QED BY <2>3, <2>4, <2>5
<1>10. Moved(m, d, m2, s, v, e.pa)
  BY <1>3, <1>8, <1>9 DEF Moved
<1> QED BY <1>2, <1>10 DEF t, m2

(* ... so one page gains a user and another loses it.                      *)
LEMMA SetPteUsers ==
  ASSUME NEW m, NEW d, NEW m2, NEW s \in Space, NEW v \in VPage, NEW q,
         Moved(m, d, m2, s, v, q), NEW p
  PROVE  LET old == PageIn(m, d, s, v) IN
         /\ p = q /\ p # old =>
              /\ Cardinality(Users(m2, d, p)) = Cardinality(Users(m, d, p)) + 1
              /\ Users(m2, d, p) # {}
         /\ p = old /\ p # q =>
              /\ Cardinality(Users(m2, d, p)) = Cardinality(Users(m, d, p)) - 1
              /\ Cardinality(Users(m, d, p)) >= 1
         /\ (p # q /\ p # old) \/ (p = q /\ p = old) =>
              Users(m2, d, p) = Users(m, d, p)
<1> DEFINE old == PageIn(m, d, s, v)
           sv == <<s, v>>
<1>2. ASSUME NEW x \in Space \X VPage
      PROVE  x \in Users(m2, d, p) <=>
               IF x = sv THEN p = q ELSE x \in Users(m, d, p)
  <2>1. x = <<x[1], x[2]>> /\ x[1] \in Space /\ x[2] \in VPage
    OBVIOUS
  <2>2. x = sv <=> x[1] = s /\ x[2] = v
    BY <2>1
  <2>3. PageIn(m2, d, x[1], x[2]) = IF x = sv THEN q ELSE PageIn(m, d, x[1], x[2])
    BY <2>1, <2>2 DEF Moved
  <2> QED BY <2>3 DEF Users
<1>3. sv \in Users(m, d, p) <=> p = old
  BY DEF Users
<1>4. Users(m, d, p) \subseteq Space \X VPage
      /\ Users(m2, d, p) \subseteq Space \X VPage /\ sv \in Space \X VPage
  BY DEF Users
<1> HIDE DEF sv, old
<1>5. CASE p = q /\ p # old
  <2>1. Users(m2, d, p) = Users(m, d, p) \cup {sv} /\ sv \notin Users(m, d, p)
    BY <1>2, <1>3, <1>4, <1>5
  <2> QED BY <2>1, <1>5, UsersFinite, FS_AddElement DEF old
<1>6. CASE p = old /\ p # q
  <2>1. Users(m2, d, p) = Users(m, d, p) \ {sv} /\ sv \in Users(m, d, p)
    BY <1>2, <1>3, <1>4, <1>6
  <2>2. Cardinality(Users(m2, d, p)) = Cardinality(Users(m, d, p)) - 1
    <3>1. IsFiniteSet(Users(m, d, p))
      BY UsersFinite
    <3>2. Cardinality(Users(m, d, p) \ {sv}) =
            IF sv \in Users(m, d, p) THEN Cardinality(Users(m, d, p)) - 1
            ELSE Cardinality(Users(m, d, p))
      BY <3>1, FS_RemoveElement, Zenon
    <3> QED BY <2>1, <3>2
  <2>3. Cardinality(Users(m2, d, p)) \in Nat /\ Cardinality(Users(m, d, p)) \in Nat
    BY UsersFinite
  <2> QED BY <2>2, <2>3, <1>6 DEF old
<1>7. CASE (p # q /\ p # old) \/ (p = q /\ p = old)
  <2>1. Users(m2, d, p) = Users(m, d, p)
    BY <1>2, <1>3, <1>4, <1>7
  <2> QED BY <2>1, <1>7 DEF old
<1> QED BY <1>5, <1>6, <1>7 DEF old

----------------------------------------------------------------------------
(* The roles of one page, once it is known which page it is.               *)
LEMMA UsedPage ==
  ASSUME NEW m, NEW ref, NEW l, NEW h, NEW d, Good(m, ref, l, h, d),
         NEW p \in Page, Users(m, d, p) # {}
  PROVE  /\ ~InList(l, p) /\ p \notin h /\ ~DirIn(d, p) /\ ~TabIn(m, d, p)
         /\ ref[p] = Cardinality(Users(m, d, p))
BY DEF Good, OneRole, RefRight

LEMMA HeldPage ==
  ASSUME NEW m, NEW ref, NEW l, NEW h, NEW d, Good(m, ref, l, h, d),
         NEW p \in Page, p \in h \/ InList(l, p)
  PROVE  /\ Users(m, d, p) = {} /\ ~DirIn(d, p) /\ ~TabIn(m, d, p)
         /\ ref[p] = 0 /\ ref[p] = Cardinality(Users(m, d, p))
         /\ p \in h => ~InList(l, p)
BY FS_EmptySet DEF Good, OneRole, RefRight

(* page_decref cannot panic on a page that is not free and has references. *)
LEMMA NoDropPanic ==
  ASSUME NEW l \in Seq(Page), NEW ref, NEW p \in Page,
         ~InList(l, p), ref[p] # 0
  PROVE  ~DropPanics(l, ref, p)
BY DEF DropPanics, Linked, InList

(* A dropped page joins the list when nothing refers to it any more.       *)
LEMMA DropList ==
  ASSUME NEW l \in Seq(Page), Unique(l), NEW ref, NEW q \in Page \cup {NULL},
         q \in Page => ~InList(l, q)
  PROVE  /\ ListWith(l, ref, q) \in Seq(Page)
         /\ Unique(ListWith(l, ref, q))
         /\ \A p \in Page : InList(ListWith(l, ref, q), p) <=>
                            InList(l, p) \/ (p = q /\ ref[q] = 0)
<1> USE NullAssumption
<1>1. CASE q # NULL /\ ref[q] = 0
  <2>1. ListWith(l, ref, q) = <<q>> \o l /\ q \in Page
    BY <1>1 DEF ListWith
  <2> QED BY <2>1, <1>1, ListCons
<1>2. CASE ~(q # NULL /\ ref[q] = 0)
  <2>1. ListWith(l, ref, q) = l
    BY <1>2 DEF ListWith
  <2> QED BY <2>1, <1>2
<1> QED BY <1>1, <1>2

(* Overwriting an entry, as page_insert (a page q) or page_remove (nothing)*)
(* do it, with the counting that goes with it.                             *)
LEMMA SetPte ==
  ASSUME NEW m, NEW ref, NEW l, NEW h, NEW d, Good(m, ref, l, h, d),
         NEW s \in Space, NEW v \in VPage, NEW e \in Entry,
         TableIn(m, d, s, v[1]) # NULL,
         e.pa # NULL => /\ e.pa \in h \/ Users(m, d, e.pa) # {}
                        /\ ref[e.pa] + 1 < RefLimit,
         e.pa = NULL => PageIn(m, d, s, v) # NULL
  PROVE  LET old  == PageIn(m, d, s, v)
             ref1 == IF e.pa = NULL THEN ref ELSE [ref EXCEPT ![e.pa] = Inc(@)]
             ref2 == RefsWithout(ref1, old)
         IN  /\ ~DropPanics(l, ref1, old)
             /\ Good([m EXCEPT ![TableIn(m, d, s, v[1])][v[2]] = e], ref2,
                     ListWith(l, ref2, old), h \ {e.pa}, d)
<1> USE NullAssumption, RefAssumption
<1> DEFINE old  == PageIn(m, d, s, v)
           q    == e.pa
           m2   == [m EXCEPT ![TableIn(m, d, s, v[1])][v[2]] = e]
           ref1 == IF e.pa = NULL THEN ref ELSE [ref EXCEPT ![e.pa] = Inc(@)]
           ref2 == RefsWithout(ref1, old)
           l2   == ListWith(l, ref2, old)
           h2   == h \ {e.pa}
<1>0. /\ Types(m, ref, l, h, d) /\ Unique(l) /\ Distinct(m, d)
      /\ \A p \in Page : OneRole(m, ref, l, h, d, p) /\ RefRight(m, ref, d, p)
  BY DEF Good
<1>1. TableIn(m, d, s, v[1]) \in Page /\ Moved(m, d, m2, s, v, q)
  <2>1. \A p \in Page : DirIn(d, p) => ~TabIn(m, d, p)
    BY <1>0 DEF OneRole
  <2>2. m \in [Page -> [Idx -> Entry]] /\ d \in [Space -> Page \cup {NULL}]
    BY <1>0 DEF Types
  <2> QED BY <1>0, <2>1, <2>2, SetPteView
<1>2. old \in Page \cup {NULL} /\ q \in Page \cup {NULL}
  BY <1>0, <1>1 DEF PageIn, Types, VPage, Idx, Entry
<1>3. old \in Page =>
        /\ Users(m, d, old) # {} /\ Cardinality(Users(m, d, old)) >= 1
        /\ ~InList(l, old) /\ old \notin h /\ ~DirIn(d, old) /\ ~TabIn(m, d, old)
        /\ ref[old] = Cardinality(Users(m, d, old)) /\ ref[old] >= 1
  <2> SUFFICES ASSUME old \in Page
               PROVE  /\ Users(m, d, old) # {}
                      /\ Cardinality(Users(m, d, old)) >= 1
    BY UsedPage
  <2>1. <<s, v>> \in Users(m, d, old)
    BY DEF Users
  <2>2. Cardinality(Users(m, d, old)) # 0
    BY <2>1, UsersFinite, FS_EmptySet
  <2> QED BY <2>1, <2>2, UsersFinite
<1>4. q \in Page =>
        /\ ~InList(l, q) /\ ~DirIn(d, q) /\ ~TabIn(m, d, q)
        /\ ref[q] = Cardinality(Users(m, d, q))
        /\ ref1[q] = ref[q] + 1 /\ ref1[q] \in Nat
  <2> SUFFICES ASSUME q \in Page
               PROVE  /\ ~InList(l, q) /\ ~DirIn(d, q) /\ ~TabIn(m, d, q)
                      /\ ref[q] = Cardinality(Users(m, d, q))
                      /\ ref1[q] = ref[q] + 1 /\ ref1[q] \in Nat
    OBVIOUS
  <2>1. /\ ~InList(l, q) /\ ~DirIn(d, q) /\ ~TabIn(m, d, q)
        /\ ref[q] = Cardinality(Users(m, d, q))
    <3>1. CASE q \in h
      BY <3>1, HeldPage
    <3>2. CASE Users(m, d, q) # {}
      BY <3>2, UsedPage
    <3> QED BY <3>1, <3>2
  <2>2. ref1[q] = ref[q] + 1 /\ ref1[q] \in Nat
    BY <1>0 DEF Types, Inc
  <2> QED BY <2>1, <2>2
<1> HIDE DEF m2, l2, h2
<1>5. /\ ref1 \in [Page -> 0 .. RefLimit - 1]
      /\ old \in Page => ref1[old] >= 1
  <2>1. ref1 \in [Page -> 0 .. RefLimit - 1]
    BY <1>0, <1>2, CounterType DEF Types
  <2>2. old \in Page /\ old # q => ref1[old] = ref[old]
    BY <1>0, <1>2 DEF Types
  <2>3. \A p \in Page : ref[p] \in 0 .. RefLimit - 1
    BY <1>0 DEF Types
  <2> QED BY <2>1, <2>2, <2>3, <1>3, <1>4
<1>6. ~DropPanics(l, ref1, old)
  <2>1. CASE old = NULL
    BY <2>1 DEF DropPanics
  <2>2. CASE old \in Page
    <3>1. l \in Seq(Page) /\ ~InList(l, old) /\ ref1[old] # 0
      BY <1>0, <1>3, <1>5, <2>2 DEF Types
    <3> QED BY <3>1, <2>2, NoDropPanic
  <2> QED BY <1>2, <2>1, <2>2
<1>7. ref2 \in [Page -> 0 .. RefLimit - 1]
  BY <1>2, <1>5, DropType, <1>0 DEF Types
<1>14. ASSUME NEW p \in Page
       PROVE  /\ ref[p] \in Nat /\ ref2[p] \in Nat
              /\ p = q /\ p # old => ref2[p] = ref[p] + 1
              /\ p = old /\ p # q => ref2[p] = ref[p] - 1
              /\ p = q /\ p = old => ref2[p] = ref[p]
              /\ p # q /\ p # old => ref2[p] = ref[p]
  <2>1. ref[p] \in Nat /\ ref1[p] \in Nat /\ ref2[p] \in Nat
    <3> HIDE DEF ref1, ref2
    <3> QED BY <1>0, <1>5, <1>7 DEF Types
  <2>2. p # q => ref1[p] = ref[p]
    BY <1>0, <1>2 DEF Types
  <2>3. p = q => ref1[p] = ref[p] + 1
    BY <1>4
  <2>4. p # old => ref2[p] = ref1[p]
    BY <1>5 DEF RefsWithout
  <2>5. p = old => ref2[p] = ref1[p] - 1
    BY <1>5 DEF RefsWithout, Dec
  <2> HIDE DEF q, old
  <2> QED BY <2>1, <2>2, <2>3, <2>4, <2>5
<1>8. \A p : TabIn(m2, d, p) <=> TabIn(m, d, p)
  BY <1>1 DEF TabIn, Moved
<1>9. /\ l2 \in Seq(Page) /\ Unique(l2)
      /\ \A p \in Page : InList(l2, p) <=>
                         InList(l, p) \/ (p = old /\ ref2[old] = 0)
  <2>1. l \in Seq(Page) /\ Unique(l) /\ (old \in Page => ~InList(l, old))
    BY <1>0, <1>3 DEF Types
  <2> HIDE DEF old, ref2
  <2> QED BY <1>2, <2>1, DropList DEF l2
<1>10. Types(m2, ref2, l2, h2, d)
  BY <1>0, <1>1, <1>7, <1>9 DEF Types, Moved, h2
<1>11. Distinct(m2, d)
  <2>1. ASSUME NEW x \in Space, NEW y \in Space, NEW i \in PDX, NEW k \in PDX
        PROVE  /\ TableIn(m2, d, x, i) = TableIn(m, d, x, i)
               /\ TableIn(m2, d, y, k) = TableIn(m, d, y, k)
    BY <1>1 DEF Moved
  <2> QED BY <2>1, <1>0 DEF Distinct
<1> HIDE DEF old, q, ref1, ref2
<1>12. ASSUME NEW p \in Page
       PROVE  OneRole(m2, ref2, l2, h2, d, p) /\ RefRight(m2, ref2, d, p)
  <2>1. OneRole(m, ref, l, h, d, p) /\ RefRight(m, ref, d, p)
    BY <1>0
  <2>2. h2 = h \ {q}
    BY DEF q, h2
  <2>3. CASE (p # q /\ p # old) \/ (p = q /\ p = old)
    <3>1. Users(m2, d, p) = Users(m, d, p)
      BY <1>1, <2>3, SetPteUsers DEF old
    <3>2. ref2[p] = ref[p] /\ (InList(l2, p) <=> InList(l, p))
      <4>1. ref2[p] = ref[p]
        BY <1>14, <2>3
      <4>2. p = old => ref[p] >= 1
        BY <1>3
      <4> QED BY <4>1, <4>2, <1>9, <2>3
    <3>3. p = old => p \notin h
      BY <1>3
    <3>4. p \in h2 <=> p \in h
      BY <2>2, <2>3, <3>3
    <3> QED BY <2>1, <3>1, <3>2, <3>4, <1>8 DEF OneRole, RefRight
  <2>4. CASE p = q /\ p # old
    <3>1. /\ Users(m2, d, p) # {}
          /\ Cardinality(Users(m2, d, p)) = Cardinality(Users(m, d, p)) + 1
      BY <1>1, <2>4, SetPteUsers DEF old
    <3>2. ref2[p] = ref[p] + 1
      BY <1>14, <2>4
    <3>3. ~InList(l2, p) /\ p \notin h2
      BY <1>9, <1>4, <2>2, <2>4
    <3>4. ~DirIn(d, p) /\ ~TabIn(m2, d, p) /\ ref[p] = Cardinality(Users(m, d, p))
      BY <1>4, <1>8, <2>4
    <3> QED BY <3>1, <3>2, <3>3, <3>4 DEF OneRole, RefRight
  <2>5. CASE p = old /\ p # q
    <3>1. Cardinality(Users(m2, d, p)) = Cardinality(Users(m, d, p)) - 1
      BY <1>1, <2>5, SetPteUsers DEF old
    <3>2. ref2[p] = ref[p] - 1
      BY <1>14, <2>5
    <3>3. /\ ~InList(l, p) /\ p \notin h2 /\ ~DirIn(d, p) /\ ~TabIn(m2, d, p)
          /\ ref2[p] = Cardinality(Users(m2, d, p))
      BY <1>3, <1>8, <2>2, <2>5, <3>1, <3>2
    <3>4. InList(l2, p) <=> ref2[p] = 0
      BY <1>9, <2>5, <3>3
    <3>5. ref2[p] = 0 <=> Users(m2, d, p) = {}
      BY <3>3, UsersFinite, FS_EmptySet
    <3> QED BY <3>3, <3>4, <3>5 DEF OneRole, RefRight
  <2> QED BY <2>3, <2>4, <2>5
<1>13. Good(m2, ref2, l2, h2, d)
  BY <1>9, <1>10, <1>11, <1>12 DEF Good
<1> QED BY <1>6, <1>13 DEF old, q, m2, ref1, ref2, l2, h2

----------------------------------------------------------------------------
(* Directories, tables and mappings are the same in both memories.         *)
SamePages(m, d, m2) ==
  \A r \in Space, w \in VPage : PageIn(m2, d, r, w) = PageIn(m, d, r, w)

SameView(m, d, m2, d2) ==
  /\ \A r \in Space, k \in PDX : TableIn(m2, d2, r, k) = TableIn(m, d, r, k)
  /\ \A r \in Space, w \in VPage : PageIn(m2, d2, r, w) = PageIn(m, d, r, w)

LEMMA SameUsers ==
  ASSUME NEW m, NEW d, NEW m2, NEW d2,
         \A r \in Space, w \in VPage : PageIn(m2, d2, r, w) = PageIn(m, d, r, w)
  PROVE  \A p : Users(m2, d2, p) = Users(m, d, p)
<1> SUFFICES ASSUME NEW p, NEW x \in Space \X VPage
             PROVE  PageIn(m2, d2, x[1], x[2]) = PageIn(m, d, x[1], x[2])
  BY DEF Users
<1> QED OBVIOUS

(* What a page in another role holds makes no difference.                  *)
LEMMA Frame ==
  ASSUME NEW m \in [Page -> [Idx -> Entry]], NEW m2,
         NEW d \in [Space -> Page \cup {NULL}],
         \A p \in Page : DirIn(d, p) \/ TabIn(m, d, p) => m2[p] = m[p]
  PROVE  SameView(m, d, m2, d)
<1>1. ASSUME NEW r \in Space, NEW k \in PDX
      PROVE  TableIn(m2, d, r, k) = TableIn(m, d, r, k)
  <2>1. d[r] # NULL => d[r] \in Page /\ DirIn(d, d[r])
    BY DEF DirIn
  <2> QED BY <2>1 DEF TableIn
<1>2. ASSUME NEW r \in Space, NEW w \in VPage
      PROVE  PageIn(m2, d, r, w) = PageIn(m, d, r, w)
  <2> DEFINE u == TableIn(m, d, r, w[1])
  <2>1. w[1] \in PDX /\ w[1] \in Idx
    BY DEF VPage, Idx
  <2>2. TableIn(m2, d, r, w[1]) = u
    BY <1>1, <2>1
  <2>3. u # NULL => u \in Page /\ TabIn(m, d, u)
    BY <2>1 DEF TableIn, Entry, TabIn
  <2>4. u # NULL => m2[u] = m[u]
    BY <2>3
  <2> QED BY <2>2, <2>4 DEF PageIn
<1> QED BY <1>1, <1>2 DEF SameView

(* Two states with the same view have the same roles.                      *)
LEMMA FrameGood ==
  ASSUME NEW m, NEW ref, NEW l, NEW h, NEW d, Good(m, ref, l, h, d),
         NEW m2 \in [Page -> [Idx -> Entry]], SameView(m, d, m2, d)
  PROVE  Good(m2, ref, l, h, d)
<1>1. \A p : Users(m2, d, p) = Users(m, d, p)
  BY SameUsers DEF SameView
<1>2. \A p : TabIn(m2, d, p) <=> TabIn(m, d, p)
  BY DEF SameView, TabIn
<1>3. \A p \in Page : OneRole(m2, ref, l, h, d, p) /\ RefRight(m2, ref, d, p)
  BY <1>1, <1>2 DEF Good, OneRole, RefRight
<1>4. Distinct(m2, d)
  <2>1. ASSUME NEW x \in Space, NEW y \in Space, NEW i \in PDX, NEW k \in PDX
        PROVE  /\ TableIn(m2, d, x, i) = TableIn(m, d, x, i)
               /\ TableIn(m2, d, y, k) = TableIn(m, d, y, k)
    BY DEF SameView
  <2>2. Distinct(m, d)
    BY DEF Good
  <2> QED BY <2>1, <2>2 DEF Distinct
<1> QED BY <1>3, <1>4 DEF Good, Types

(* The first free page, whatever it becomes next.                          *)
LEMMA FreeHead ==
  ASSUME NEW m, NEW ref, NEW l, NEW h, NEW d, Good(m, ref, l, h, d), l # <<>>
  PROVE  /\ Head(l) \in Page /\ InList(l, Head(l))
         /\ Tail(l) \in Seq(Page) /\ Unique(Tail(l))
         /\ ~InList(Tail(l), Head(l))
         /\ \A p : InList(l, p) <=> p = Head(l) \/ InList(Tail(l), p)
         /\ Users(m, d, Head(l)) = {} /\ ~DirIn(d, Head(l))
         /\ ~TabIn(m, d, Head(l)) /\ Head(l) \notin h
         /\ ref[Head(l)] = 0 /\ Inc(0) = 1
<1>1. l \in Seq(Page) /\ Unique(l)
  BY DEF Good, Types
<1>2. /\ Head(l) \in Page
      /\ Tail(l) \in Seq(Page)
      /\ Unique(Tail(l))
      /\ ~InList(Tail(l), Head(l))
      /\ \A p : InList(l, p) <=> p = Head(l) \/ InList(Tail(l), p)
  BY <1>1, ListTail
<1>3. InList(l, Head(l))
  BY <1>2
<1>4. Inc(0) = 1
  BY RefAssumption DEF Inc
<1> QED BY <1>2, <1>3, <1>4, HeldPage

(* page_alloc, with or without ALLOC_ZERO: c is what the page now holds.   *)
LEMMA TakeFree ==
  ASSUME NEW m, NEW ref, NEW l, NEW h, NEW d, Good(m, ref, l, h, d), l # <<>>,
         NEW c \in [Idx -> Entry]
  PROVE  Good([m EXCEPT ![Head(l)] = c], ref, Tail(l), h \cup {Head(l)}, d)
<1> DEFINE p == Head(l)
           m2 == [m EXCEPT ![p] = c]
<1>1. Types(m, ref, l, h, d)
  BY DEF Good
<1>2. /\ p \in Page /\ Tail(l) \in Seq(Page) /\ Unique(Tail(l))
      /\ ~InList(Tail(l), p)
      /\ \A q : InList(l, q) <=> q = p \/ InList(Tail(l), q)
      /\ Users(m, d, p) = {} /\ ~DirIn(d, p) /\ ~TabIn(m, d, p)
  BY FreeHead
<1>3. m2 \in [Page -> [Idx -> Entry]]
  BY <1>1, <1>2 DEF Types
<1> HIDE DEF p
<1>4. SameView(m, d, m2, d)
  <2>1. \A q \in Page : DirIn(d, q) \/ TabIn(m, d, q) => m2[q] = m[q]
    BY <1>1, <1>2 DEF Types
  <2> QED BY <2>1, <1>1, Frame DEF Types
<1> HIDE DEF m2
<1>5. Good(m2, ref, l, h, d)
  BY <1>3, <1>4, FrameGood
<1>6. \A q : Users(m2, d, q) = Users(m, d, q)
  BY <1>4, SameUsers DEF SameView
<1>7. \A q : TabIn(m2, d, q) <=> TabIn(m, d, q)
  BY <1>4 DEF SameView, TabIn
<1>8. ASSUME NEW q \in Page
      PROVE  OneRole(m2, ref, Tail(l), h \cup {p}, d, q) /\ RefRight(m2, ref, d, q)
  <2>1. OneRole(m2, ref, l, h, d, q) /\ RefRight(m2, ref, d, q)
    BY <1>5 DEF Good
  <2>2. InList(Tail(l), q) => InList(l, q) /\ q # p
    BY <1>2
  <2>3. InList(l, q) => q = p \/ InList(Tail(l), q)
    BY <1>2
  <2>4. q = p => ~DirIn(d, q) /\ ~TabIn(m2, d, q) /\ Users(m2, d, q) = {}
    BY <1>2, <1>6, <1>7
  <2> QED BY <2>1, <2>2, <2>3, <2>4 DEF OneRole
<1>9. Types(m2, ref, Tail(l), h \cup {p}, d)
  BY <1>1, <1>2, <1>3 DEF Types
<1> QED BY <1>2, <1>5, <1>8, <1>9 DEF Good, p, m2

(* page_free of a page a caller holds.                                     *)
LEMMA GiveBack ==
  ASSUME NEW m, NEW ref, NEW l, NEW h, NEW d, Good(m, ref, l, h, d),
         NEW p \in h
  PROVE  /\ ref[p] = 0 /\ ~Linked(l, p)
         /\ Good(m, ref, <<p>> \o l, h \ {p}, d)
<1>1. Types(m, ref, l, h, d) /\ Unique(l) /\ p \in Page
  BY DEF Good, Types
<1>2. /\ Users(m, d, p) = {} /\ ~DirIn(d, p) /\ ~TabIn(m, d, p)
      /\ ref[p] = 0 /\ ~InList(l, p)
  BY <1>1, HeldPage
<1>3. ~Linked(l, p)
  BY <1>1, <1>2 DEF Linked, InList, Types
<1>4. /\ <<p>> \o l \in Seq(Page) /\ Unique(<<p>> \o l)
      /\ \A q : InList(<<p>> \o l, q) <=> q = p \/ InList(l, q)
  BY <1>1, <1>2, ListCons DEF Types
<1>5. ASSUME NEW q \in Page
      PROVE  OneRole(m, ref, <<p>> \o l, h \ {p}, d, q) /\ RefRight(m, ref, d, q)
  BY <1>2, <1>4 DEF Good, OneRole
<1> QED BY <1>1, <1>2, <1>3, <1>4, <1>5 DEF Good, Types

----------------------------------------------------------------------------
(* Memory m2 has table t at entry i of s, and is like m otherwise.         *)
GotTable(m, d, m2, s, i, t) ==
  \A r \in Space, k \in PDX :
    TableIn(m2, d, r, k) = IF r = s /\ k = i THEN t ELSE TableIn(m, d, r, k)

(* pgdir_walk links a free page, cleared, as the table of entry i.         *)
LEMMA NewTable ==
  ASSUME NEW m, NEW ref, NEW l, NEW h, NEW d, Good(m, ref, l, h, d), l # <<>>,
         NEW s \in Space, NEW i \in PDX, d[s] # NULL, TableIn(m, d, s, i) = NULL
  PROVE  LET t  == Head(l)
             m2 == [m EXCEPT ![t] = ZeroPage, ![d[s]][i] = [pa |-> t, perm |-> PdePerm]]
         IN  /\ Good(m2, [ref EXCEPT ![t] = Inc(@)], Tail(l), h, d)
             /\ TableIn(m2, d, s, i) = t
             /\ SamePages(m, d, m2)
             /\ GotTable(m, d, m2, s, i, t)
<1> USE NullAssumption
<1> DEFINE t    == Head(l)
           g    == d[s]
           e    == [pa |-> t, perm |-> PdePerm]
           m2   == [m EXCEPT ![t] = ZeroPage, ![g][i] = e]
           ref2 == [ref EXCEPT ![t] = Inc(@)]
<1>1. Types(m, ref, l, h, d) /\ Distinct(m, d)
  BY DEF Good
<1>2. /\ t \in Page /\ Tail(l) \in Seq(Page) /\ Unique(Tail(l))
      /\ ~InList(Tail(l), t) /\ InList(l, t)
      /\ \A q : InList(l, q) <=> q = t \/ InList(Tail(l), q)
      /\ Users(m, d, t) = {} /\ ~DirIn(d, t) /\ ~TabIn(m, d, t) /\ t \notin h
      /\ ref[t] = 0 /\ Inc(0) = 1
  BY FreeHead
<1>3. /\ g \in Page /\ DirIn(d, g) /\ g # t /\ i \in Idx /\ ~TabIn(m, d, g)
      /\ \A r \in Space : d[r] = g => r = s
  <2>1. g \in Page /\ DirIn(d, g)
    BY <1>1 DEF Types, DirIn
  <2>2. ~TabIn(m, d, g)
    BY <2>1 DEF Good, OneRole
  <2> QED BY <2>1, <2>2, <1>1, <1>2 DEF Distinct, Idx
<1>4. ZeroPage \in [Idx -> Entry] /\ e \in Entry /\ \A k \in Idx : ZeroPage[k].pa = NULL
  BY <1>2 DEF ZeroPage, Zero, Entry
<1> HIDE DEF t, g, e
<1>5. /\ m2 \in [Page -> [Idx -> Entry]]
      /\ m2[t] = ZeroPage
      /\ m2[g] = [m[g] EXCEPT ![i] = e]
      /\ \A p \in Page : p # t /\ p # g => m2[p] = m[p]
  BY <1>1, <1>2, <1>3, <1>4 DEF Types
<1> HIDE DEF m2
<1>6. ASSUME NEW r \in Space, NEW k \in PDX
      PROVE  TableIn(m2, d, r, k) = IF r = s /\ k = i THEN t ELSE TableIn(m, d, r, k)
  <2>1. k \in Idx /\ m[g] \in [Idx -> Entry]
    BY <1>1, <1>3 DEF Types, Idx
  <2>2. CASE r = s
    <3>1. TableIn(m2, d, r, k) = m2[g][k].pa /\ TableIn(m, d, r, k) = m[g][k].pa
      BY <2>2, <1>3 DEF TableIn, g
    <3>2. m2[g][k] = IF k = i THEN e ELSE m[g][k]
      BY <1>3, <1>5, <2>1
    <3> QED BY <2>2, <3>1, <3>2 DEF e
  <2>3. CASE r # s
    <3>1. d[r] # g /\ d[r] # t
      BY <2>3, <1>2, <1>3 DEF DirIn
    <3>2. d[r] \in Page => m2[d[r]] = m[d[r]]
      BY <3>1, <1>5
    <3>3. d[r] # NULL => d[r] \in Page
      BY <1>1 DEF Types
    <3> QED BY <2>3, <3>2, <3>3 DEF TableIn
  <2> QED BY <2>2, <2>3
<1>7. TableIn(m, d, s, i) = NULL
  OBVIOUS
<1>8. ASSUME NEW r \in Space, NEW w \in VPage
      PROVE  PageIn(m2, d, r, w) = PageIn(m, d, r, w)
  <2> DEFINE u == TableIn(m, d, r, w[1])
  <2>1. w[1] \in PDX /\ w[1] \in Idx /\ w[2] \in Idx
    BY DEF VPage, Idx
  <2>2. CASE r = s /\ w[1] = i
    <3>1. TableIn(m2, d, r, w[1]) = t /\ u = NULL
      BY <1>6, <1>7, <2>1, <2>2
    <3> QED BY <3>1, <2>1, <1>2, <1>4, <1>5 DEF PageIn
  <2>3. CASE ~(r = s /\ w[1] = i)
    <3>1. TableIn(m2, d, r, w[1]) = u
      BY <1>6, <2>1, <2>3
    <3>2. u # NULL => u \in Page /\ TabIn(m, d, u)
      BY <2>1, <1>1 DEF TableIn, Entry, TabIn, Types
    <3>3. u # NULL => m2[u] = m[u]
      BY <3>2, <1>2, <1>3, <1>5
    <3> QED BY <3>1, <3>3 DEF PageIn
  <2> QED BY <2>2, <2>3
<1>9. \A p : Users(m2, d, p) = Users(m, d, p)
  BY <1>8, SameUsers
<1>10. ASSUME NEW p \in Page
       PROVE  TabIn(m2, d, p) <=> TabIn(m, d, p) \/ p = t
  <2>1. TabIn(m2, d, t)
    BY <1>6 DEF TabIn
  <2>2. ASSUME NEW r \in Space, NEW k \in PDX, TableIn(m, d, r, k) = p
        PROVE  TabIn(m2, d, p)
    BY <1>6, <1>7, <2>2 DEF TabIn
  <2>3. ASSUME NEW r \in Space, NEW k \in PDX, TableIn(m2, d, r, k) = p
        PROVE  TabIn(m, d, p) \/ p = t
    BY <1>6, <2>3 DEF TabIn
  <2> QED BY <2>1, <2>2, <2>3 DEF TabIn
<1>11. Distinct(m2, d)
  <2>1. ASSUME NEW x \in Space, NEW y \in Space, NEW j \in PDX, NEW k \in PDX,
               TableIn(m2, d, x, j) = TableIn(m2, d, y, k),
               TableIn(m2, d, x, j) # NULL
        PROVE  x = y /\ j = k
    <3>1. /\ TableIn(m2, d, x, j) = IF x = s /\ j = i THEN t ELSE TableIn(m, d, x, j)
          /\ TableIn(m2, d, y, k) = IF y = s /\ k = i THEN t ELSE TableIn(m, d, y, k)
      BY <1>6
    <3>2. TableIn(m, d, x, j) # t /\ TableIn(m, d, y, k) # t
      BY <1>2 DEF TabIn
    <3>3. CASE x = s /\ j = i
      BY <2>1, <3>1, <3>2, <3>3
    <3>4. CASE ~(x = s /\ j = i)
      <4>1. ~(y = s /\ k = i)
        BY <2>1, <3>1, <3>2, <3>4
      <4>2. TableIn(m, d, x, j) = TableIn(m, d, y, k) /\ TableIn(m, d, x, j) # NULL
        BY <2>1, <3>1, <3>4, <4>1
      <4> QED BY <4>2, <1>1 DEF Distinct
    <3> QED BY <3>3, <3>4
  <2> QED BY <2>1, <1>1 DEF Distinct
<1>12. ASSUME NEW p \in Page
       PROVE  OneRole(m2, ref2, Tail(l), h, d, p) /\ RefRight(m2, ref2, d, p)
  <2>1. OneRole(m, ref, l, h, d, p) /\ RefRight(m, ref, d, p)
    BY DEF Good
  <2>2. ref2[p] = IF p = t THEN 1 ELSE ref[p]
    BY <1>1, <1>2 DEF Types
  <2>3. CASE p = t
    BY <2>2, <2>3, <1>2, <1>9, <1>10 DEF OneRole, RefRight
  <2>4. CASE p # t
    BY <2>1, <2>2, <2>4, <1>2, <1>9, <1>10 DEF OneRole, RefRight
  <2> QED BY <2>3, <2>4
<1>13. Types(m2, ref2, Tail(l), h, d)
  <2>1. ref2 \in [Page -> 0 .. RefLimit - 1]
    BY <1>1, <1>2, CounterType DEF Types
  <2> QED BY <2>1, <1>1, <1>2, <1>5 DEF Types
<1>14. Good(m2, ref2, Tail(l), h, d)
  BY <1>2, <1>11, <1>12, <1>13 DEF Good
<1>15. SamePages(m, d, m2)
  BY <1>8 DEF SamePages
<1>16. GotTable(m, d, m2, s, i, t)
  BY <1>6 DEF GotTable
<1> QED BY <1>6, <1>14, <1>15, <1>16 DEF t, g, e, m2

(* env_setup_vm makes a free page, cleared, the directory of s.            *)
LEMMA NewDir ==
  ASSUME NEW m, NEW ref, NEW l, NEW h, NEW d, Good(m, ref, l, h, d), l # <<>>,
         NEW s \in Space, d[s] = NULL
  PROVE  LET p == Head(l) IN
         /\ Good([m EXCEPT ![p] = ZeroPage], [ref EXCEPT ![p] = Inc(@)],
                 Tail(l), h, [d EXCEPT ![s] = p])
         /\ SameView(m, d, [m EXCEPT ![p] = ZeroPage], [d EXCEPT ![s] = p])
<1> USE NullAssumption
<1> DEFINE p    == Head(l)
           m2   == [m EXCEPT ![p] = ZeroPage]
           ref2 == [ref EXCEPT ![p] = Inc(@)]
           d2   == [d EXCEPT ![s] = p]
<1>1. Types(m, ref, l, h, d) /\ Distinct(m, d)
  BY DEF Good
<1>2. /\ p \in Page /\ Tail(l) \in Seq(Page) /\ Unique(Tail(l))
      /\ ~InList(Tail(l), p) /\ InList(l, p)
      /\ \A q : InList(l, q) <=> q = p \/ InList(Tail(l), q)
      /\ Users(m, d, p) = {} /\ ~DirIn(d, p) /\ ~TabIn(m, d, p) /\ p \notin h
      /\ ref[p] = 0 /\ Inc(0) = 1
  BY FreeHead
<1>3. ZeroPage \in [Idx -> Entry] /\ \A k \in Idx : ZeroPage[k].pa = NULL
  BY DEF ZeroPage, Zero, Entry
<1> HIDE DEF p
<1>4. /\ m2 \in [Page -> [Idx -> Entry]] /\ m2[p] = ZeroPage
      /\ \A q \in Page : q # p => m2[q] = m[q]
  BY <1>1, <1>2, <1>3 DEF Types
<1>5. /\ d2 \in [Space -> Page \cup {NULL}] /\ d2[s] = p /\ p # NULL
      /\ \A r \in Space : r # s => d2[r] = d[r]
      /\ \A r \in Space : d[r] # p
  BY <1>1, <1>2 DEF Types, DirIn
<1> HIDE DEF m2, d2
<1>6. ASSUME NEW r \in Space, NEW k \in PDX
      PROVE  TableIn(m2, d2, r, k) = TableIn(m, d, r, k)
  <2>1. k \in Idx
    BY DEF Idx
  <2>2. CASE r = s
    BY <2>1, <2>2, <1>3, <1>4, <1>5 DEF TableIn
  <2>3. CASE r # s
    <3>1. d[r] # NULL => d[r] \in Page /\ d[r] # p
      BY <1>1, <1>5 DEF Types
    <3> QED BY <2>3, <3>1, <1>4, <1>5 DEF TableIn
  <2> QED BY <2>2, <2>3
<1>7. ASSUME NEW r \in Space, NEW w \in VPage
      PROVE  PageIn(m2, d2, r, w) = PageIn(m, d, r, w)
  <2> DEFINE u == TableIn(m, d, r, w[1])
  <2>1. w[1] \in PDX /\ w[1] \in Idx
    BY DEF VPage, Idx
  <2>2. TableIn(m2, d2, r, w[1]) = u
    BY <1>6, <2>1
  <2>3. u # NULL => u \in Page /\ TabIn(m, d, u)
    BY <2>1, <1>1 DEF TableIn, Entry, TabIn, Types
  <2>4. u # NULL => m2[u] = m[u]
    BY <2>3, <1>2, <1>4
  <2> QED BY <2>2, <2>4 DEF PageIn
<1>8. \A q : Users(m2, d2, q) = Users(m, d, q)
  BY <1>7, SameUsers
<1>9. \A q : TabIn(m2, d2, q) <=> TabIn(m, d, q)
  BY <1>6 DEF TabIn
<1>10. \A q \in Page : DirIn(d2, q) <=> DirIn(d, q) \/ q = p
  BY <1>1, <1>5 DEF DirIn
<1>11. Distinct(m2, d2)
  <2>1. ASSUME NEW x \in Space, NEW y \in Space, NEW j \in PDX, NEW k \in PDX
        PROVE  /\ TableIn(m2, d2, x, j) = TableIn(m, d, x, j)
               /\ TableIn(m2, d2, y, k) = TableIn(m, d, y, k)
    BY <1>6
  <2>2. ASSUME NEW x \in Space, NEW y \in Space, d2[x] = d2[y], d2[x] # NULL
        PROVE  x = y
    BY <2>2, <1>1, <1>5 DEF Distinct
  <2> QED BY <2>1, <2>2, <1>1 DEF Distinct
<1>12. ASSUME NEW q \in Page
       PROVE  OneRole(m2, ref2, Tail(l), h, d2, q) /\ RefRight(m2, ref2, d2, q)
  <2>1. OneRole(m, ref, l, h, d, q) /\ RefRight(m, ref, d, q)
    BY DEF Good
  <2>2. ref2[q] = IF q = p THEN 1 ELSE ref[q]
    BY <1>1, <1>2 DEF Types
  <2>3. CASE q = p
    BY <2>2, <2>3, <1>2, <1>8, <1>9, <1>10 DEF OneRole, RefRight
  <2>4. CASE q # p
    BY <2>1, <2>2, <2>4, <1>2, <1>8, <1>9, <1>10 DEF OneRole, RefRight
  <2> QED BY <2>3, <2>4
<1>13. Types(m2, ref2, Tail(l), h, d2)
  <2>1. ref2 \in [Page -> 0 .. RefLimit - 1]
    BY <1>1, <1>2, CounterType DEF Types
  <2> QED BY <2>1, <1>1, <1>2, <1>4, <1>5 DEF Types
<1>14. Good(m2, ref2, Tail(l), h, d2)
  BY <1>2, <1>11, <1>12, <1>13 DEF Good
<1>15. SameView(m, d, m2, d2)
  BY <1>6, <1>7 DEF SameView
<1> QED BY <1>14, <1>15 DEF p, m2, d2

----------------------------------------------------------------------------
(* page_decref of a page table or directory that is being taken out: its   *)
(* only reference goes, and it becomes free.                               *)
LEMMA DropKind ==
  ASSUME NEW m, NEW ref, NEW l, NEW h, NEW d, Good(m, ref, l, h, d),
         NEW p \in Page, DirIn(d, p) \/ TabIn(m, d, p)
  PROVE  /\ ref[p] = 1 /\ Dec(ref[p]) = 0 /\ ~Linked(l, p)
         /\ RefsWithout(ref, p) = [ref EXCEPT ![p] = 0]
         /\ RefsWithout(ref, p) \in [Page -> 0 .. RefLimit - 1]
         /\ ListWith(l, RefsWithout(ref, p), p) \in Seq(Page)
         /\ Unique(ListWith(l, RefsWithout(ref, p), p))
         /\ \A q \in Page : InList(ListWith(l, RefsWithout(ref, p), p), q) <=>
                            InList(l, q) \/ q = p
         /\ p \notin h /\ Users(m, d, p) = {} /\ ~InList(l, p)
<1> USE NullAssumption
<1>1. Types(m, ref, l, h, d) /\ Unique(l)
  BY DEF Good
<1>2. /\ ref[p] = 1 /\ ~InList(l, p) /\ p \notin h /\ Users(m, d, p) = {}
  BY DEF Good, OneRole, RefRight
<1>3. Dec(ref[p]) = 0
  BY <1>2 DEF Dec
<1>4. ~Linked(l, p)
  BY <1>1, <1>2 DEF Linked, InList, Types
<1>5. RefsWithout(ref, p) = [ref EXCEPT ![p] = 0]
  BY <1>3 DEF RefsWithout
<1>6. RefsWithout(ref, p) \in [Page -> 0 .. RefLimit - 1]
  BY <1>1, DropType DEF Types
<1>7. RefsWithout(ref, p)[p] = 0
  BY <1>1, <1>5 DEF Types
<1>8. l \in Seq(Page)
  BY <1>1 DEF Types
<1> DEFINE ref2 == RefsWithout(ref, p)
<1> HIDE DEF ref2
<1>9. /\ ListWith(l, ref2, p) \in Seq(Page) /\ Unique(ListWith(l, ref2, p))
      /\ \A q \in Page : InList(ListWith(l, ref2, p), q) <=>
                         InList(l, q) \/ (q = p /\ ref2[p] = 0)
  BY <1>1, <1>2, <1>8, DropList
<1> QED BY <1>2, <1>3, <1>4, <1>5, <1>6, <1>7, <1>9 DEF ref2

(* Memory m2 has no table at entry i of s, and is like m otherwise.        *)
LostTable(m, d, m2, s, i) ==
  \A r \in Space, k \in PDX :
    TableIn(m2, d, r, k) = IF r = s /\ k = i THEN NULL ELSE TableIn(m, d, r, k)

(* env_free takes an empty table out of its directory.                     *)
LEMMA DropTable ==
  ASSUME NEW m, NEW ref, NEW l, NEW h, NEW d, Good(m, ref, l, h, d),
         NEW s \in Space, NEW i \in PDX, TableIn(m, d, s, i) # NULL,
         \A j \in PTX : m[TableIn(m, d, s, i)][j].pa = NULL
  PROVE  LET t    == TableIn(m, d, s, i)
             m2   == [m EXCEPT ![d[s]][i] = Zero]
             ref2 == RefsWithout(ref, t)
         IN  /\ Dec(ref[t]) = 0 /\ ~Linked(l, t)
             /\ Good(m2, ref2, ListWith(l, ref2, t), h, d)
             /\ SamePages(m, d, m2)
             /\ LostTable(m, d, m2, s, i)
<1> USE NullAssumption
<1> DEFINE t    == TableIn(m, d, s, i)
           g    == d[s]
           m2   == [m EXCEPT ![g][i] = Zero]
           ref2 == RefsWithout(ref, t)
           l2   == ListWith(l, ref2, t)
<1>1. Types(m, ref, l, h, d) /\ Distinct(m, d)
  BY DEF Good
<1>2. /\ g \in Page /\ DirIn(d, g) /\ i \in Idx /\ t = m[g][i].pa
      /\ t \in Page /\ TabIn(m, d, t) /\ ~DirIn(d, t) /\ ~TabIn(m, d, g)
      /\ \A r \in Space : d[r] = g => r = s
  <2>1. g # NULL /\ t = m[g][i].pa
    BY DEF TableIn
  <2>2. g \in Page /\ DirIn(d, g) /\ i \in Idx
    BY <2>1, <1>1 DEF Types, DirIn, Idx
  <2>3. t \in Page /\ TabIn(m, d, t)
    BY <2>1, <2>2, <1>1 DEF Types, Entry, TabIn
  <2>4. ~DirIn(d, t) /\ ~TabIn(m, d, g)
    BY <2>2, <2>3 DEF Good, OneRole
  <2> QED BY <2>1, <2>2, <2>3, <2>4, <1>1 DEF Distinct
<1>3. Zero \in Entry /\ Zero.pa = NULL
  BY DEF Zero, Entry
<1> HIDE DEF t, g
<1>4. /\ m2 \in [Page -> [Idx -> Entry]]
      /\ m2[g] = [m[g] EXCEPT ![i] = Zero]
      /\ \A p \in Page : p # g => m2[p] = m[p]
  BY <1>1, <1>2, <1>3 DEF Types
<1> HIDE DEF m2
<1>5. /\ ref[t] = 1 /\ Dec(ref[t]) = 0 /\ ~Linked(l, t)
      /\ ref2 = [ref EXCEPT ![t] = 0] /\ ref2 \in [Page -> 0 .. RefLimit - 1]
      /\ l2 \in Seq(Page) /\ Unique(l2)
      /\ \A q \in Page : InList(l2, q) <=> InList(l, q) \/ q = t
      /\ t \notin h /\ Users(m, d, t) = {} /\ ~InList(l, t)
  <2>1. t \in Page /\ (DirIn(d, t) \/ TabIn(m, d, t))
    BY <1>2
  <2> QED BY <2>1, DropKind
<1> HIDE DEF ref2, l2
<1>6. ASSUME NEW r \in Space, NEW k \in PDX
      PROVE  TableIn(m2, d, r, k) = IF r = s /\ k = i THEN NULL ELSE TableIn(m, d, r, k)
  <2>1. k \in Idx /\ m[g] \in [Idx -> Entry]
    BY <1>1, <1>2 DEF Types, Idx
  <2>2. CASE r = s
    <3>1. TableIn(m2, d, r, k) = m2[g][k].pa /\ TableIn(m, d, r, k) = m[g][k].pa
      BY <2>2, <1>2 DEF TableIn, g
    <3>2. m2[g][k] = IF k = i THEN Zero ELSE m[g][k]
      BY <1>2, <1>4, <2>1
    <3> QED BY <2>2, <3>1, <3>2, <1>3
  <2>3. CASE r # s
    <3>1. d[r] # NULL => d[r] \in Page /\ d[r] # g
      BY <2>3, <1>1, <1>2 DEF Types
    <3>2. d[r] # NULL => m2[d[r]] = m[d[r]]
      BY <3>1, <1>4
    <3> QED BY <2>3, <3>2 DEF TableIn
  <2> QED BY <2>2, <2>3
<1>7. \A j \in PTX : m[t][j].pa = NULL
  BY DEF t
<1>8. ASSUME NEW r \in Space, NEW w \in VPage
      PROVE  PageIn(m2, d, r, w) = PageIn(m, d, r, w)
  <2> DEFINE u == TableIn(m, d, r, w[1])
  <2>1. w[1] \in PDX /\ w[1] \in Idx /\ w[2] \in PTX
    BY DEF VPage, Idx
  <2>2. CASE r = s /\ w[1] = i
    <3>1. TableIn(m2, d, r, w[1]) = NULL /\ u = t
      BY <1>6, <2>1, <2>2 DEF t
    <3> QED BY <3>1, <2>1, <1>7 DEF PageIn
  <2>3. CASE ~(r = s /\ w[1] = i)
    <3>1. TableIn(m2, d, r, w[1]) = u
      BY <1>6, <2>1, <2>3
    <3>2. u # NULL => u \in Page /\ TabIn(m, d, u)
      BY <2>1, <1>1 DEF TableIn, Entry, TabIn, Types
    <3>3. u # NULL => m2[u] = m[u]
      BY <3>2, <1>2, <1>4
    <3> QED BY <3>1, <3>3 DEF PageIn
  <2> QED BY <2>2, <2>3
<1>9. \A p : Users(m2, d, p) = Users(m, d, p)
  BY <1>8, SameUsers
<1>10. ASSUME NEW p \in Page
       PROVE  TabIn(m2, d, p) <=> TabIn(m, d, p) /\ p # t
  <2>1. ASSUME NEW r \in Space, NEW k \in PDX, TableIn(m2, d, r, k) = p
        PROVE  TabIn(m, d, p) /\ p # t
    <3>1. ~(r = s /\ k = i) /\ TableIn(m, d, r, k) = p
      BY <1>6, <2>1
    <3>2. p # t
      BY <3>1, <1>1 DEF Distinct, t
    <3> QED BY <3>1, <3>2 DEF TabIn
  <2>2. ASSUME NEW r \in Space, NEW k \in PDX, TableIn(m, d, r, k) = p, p # t
        PROVE  TabIn(m2, d, p)
    <3>1. TableIn(m2, d, r, k) = p
      BY <1>6, <2>2 DEF t
    <3> QED BY <3>1 DEF TabIn
  <2> QED BY <2>1, <2>2 DEF TabIn
<1>11. Distinct(m2, d)
  <2>1. ASSUME NEW x \in Space, NEW y \in Space, NEW j \in PDX, NEW k \in PDX,
               TableIn(m2, d, x, j) = TableIn(m2, d, y, k),
               TableIn(m2, d, x, j) # NULL
        PROVE  x = y /\ j = k
    <3>1. /\ TableIn(m, d, x, j) = TableIn(m, d, y, k)
          /\ TableIn(m, d, x, j) # NULL
      BY <1>6, <2>1
    <3> QED BY <3>1, <1>1 DEF Distinct
  <2> QED BY <2>1, <1>1 DEF Distinct
<1>12. ASSUME NEW p \in Page
       PROVE  OneRole(m2, ref2, l2, h, d, p) /\ RefRight(m2, ref2, d, p)
  <2>1. OneRole(m, ref, l, h, d, p) /\ RefRight(m, ref, d, p)
    BY DEF Good
  <2>2. ref2[p] = IF p = t THEN 0 ELSE ref[p]
    BY <1>1, <1>2, <1>5 DEF Types
  <2>3. CASE p = t
    BY <2>2, <2>3, <1>2, <1>5, <1>9, <1>10, FS_EmptySet DEF OneRole, RefRight
  <2>4. CASE p # t
    BY <2>1, <2>2, <2>4, <1>5, <1>9, <1>10 DEF OneRole, RefRight
  <2> QED BY <2>3, <2>4
<1>13. Types(m2, ref2, l2, h, d)
  BY <1>1, <1>4, <1>5 DEF Types
<1>14. Good(m2, ref2, l2, h, d)
  BY <1>5, <1>11, <1>12, <1>13 DEF Good
<1>15. SamePages(m, d, m2)
  BY <1>8 DEF SamePages
<1>16. LostTable(m, d, m2, s, i)
  BY <1>6 DEF LostTable
<1> QED BY <1>5, <1>14, <1>15, <1>16 DEF t, g, m2, ref2, l2

(* env_free drops a directory without tables.                              *)
LEMMA DropDir ==
  ASSUME NEW m, NEW ref, NEW l, NEW h, NEW d, Good(m, ref, l, h, d),
         NEW s \in Space, d[s] # NULL,
         \A i \in PDX : TableIn(m, d, s, i) = NULL
  PROVE  LET ref2 == RefsWithout(ref, d[s])
             d2   == [d EXCEPT ![s] = NULL]
         IN  /\ Dec(ref[d[s]]) = 0 /\ ~Linked(l, d[s])
             /\ Good(m, ref2, ListWith(l, ref2, d[s]), h, d2)
             /\ SameView(m, d, m, d2)
<1> USE NullAssumption
<1> DEFINE g    == d[s]
           d2   == [d EXCEPT ![s] = NULL]
           ref2 == RefsWithout(ref, g)
           l2   == ListWith(l, ref2, g)
<1>1. Types(m, ref, l, h, d) /\ Distinct(m, d)
  BY DEF Good
<1>2. /\ g \in Page /\ DirIn(d, g) /\ ~TabIn(m, d, g)
      /\ \A r \in Space : d[r] = g => r = s
  <2>1. g \in Page /\ DirIn(d, g)
    BY <1>1 DEF Types, DirIn
  <2> QED BY <2>1, <1>1 DEF Good, OneRole, Distinct
<1>3. /\ d2 \in [Space -> Page \cup {NULL}] /\ d2[s] = NULL
      /\ \A r \in Space : r # s => d2[r] = d[r]
  BY <1>1 DEF Types
<1> HIDE DEF g, d2
<1>4. /\ ref[g] = 1 /\ Dec(ref[g]) = 0 /\ ~Linked(l, g)
      /\ ref2 = [ref EXCEPT ![g] = 0] /\ ref2 \in [Page -> 0 .. RefLimit - 1]
      /\ l2 \in Seq(Page) /\ Unique(l2)
      /\ \A q \in Page : InList(l2, q) <=> InList(l, q) \/ q = g
      /\ g \notin h /\ Users(m, d, g) = {} /\ ~InList(l, g)
  BY <1>2, DropKind
<1> HIDE DEF ref2, l2
<1>5. ASSUME NEW r \in Space, NEW k \in PDX
      PROVE  TableIn(m, d2, r, k) = TableIn(m, d, r, k)
  <2>1. CASE r = s
    <3>1. TableIn(m, d2, r, k) = NULL
      BY <2>1, <1>3 DEF TableIn
    <3> QED BY <2>1, <3>1
  <2>2. CASE r # s
    BY <2>2, <1>3 DEF TableIn
  <2> QED BY <2>1, <2>2
<1>6. ASSUME NEW r \in Space, NEW w \in VPage
      PROVE  PageIn(m, d2, r, w) = PageIn(m, d, r, w)
  <2>1. TableIn(m, d2, r, w[1]) = TableIn(m, d, r, w[1])
    BY <1>5 DEF VPage
  <2> QED BY <2>1 DEF PageIn
<1>7. \A q : Users(m, d2, q) = Users(m, d, q)
  BY <1>6, SameUsers
<1>8. \A q : TabIn(m, d2, q) <=> TabIn(m, d, q)
  BY <1>5 DEF TabIn
<1>9. ASSUME NEW q \in Page
      PROVE  DirIn(d2, q) <=> DirIn(d, q) /\ q # g
  <2>1. ASSUME NEW r \in Space, d2[r] = q PROVE DirIn(d, q) /\ q # g
    <3>1. r # s /\ d[r] = q
      BY <2>1, <1>3
    <3> QED BY <3>1, <1>2 DEF DirIn
  <2>2. ASSUME NEW r \in Space, d[r] = q, q # g PROVE DirIn(d2, q)
    <3>1. r # s
      BY <2>2 DEF g
    <3> QED BY <2>2, <3>1, <1>3 DEF DirIn
  <2> QED BY <2>1, <2>2 DEF DirIn
<1>10. Distinct(m, d2)
  <2>1. ASSUME NEW x \in Space, NEW y \in Space, NEW j \in PDX, NEW k \in PDX
        PROVE  /\ TableIn(m, d2, x, j) = TableIn(m, d, x, j)
               /\ TableIn(m, d2, y, k) = TableIn(m, d, y, k)
    BY <1>5
  <2>2. ASSUME NEW x \in Space, NEW y \in Space, d2[x] = d2[y], d2[x] # NULL
        PROVE  x = y
    <3>1. x # s /\ y # s
      BY <2>2, <1>3
    <3> QED BY <2>2, <3>1, <1>1, <1>3 DEF Distinct
  <2> QED BY <2>1, <2>2, <1>1 DEF Distinct
<1>11. ASSUME NEW q \in Page
       PROVE  OneRole(m, ref2, l2, h, d2, q) /\ RefRight(m, ref2, d2, q)
  <2>1. OneRole(m, ref, l, h, d, q) /\ RefRight(m, ref, d, q)
    BY DEF Good
  <2>2. ref2[q] = IF q = g THEN 0 ELSE ref[q]
    BY <1>1, <1>2, <1>4 DEF Types
  <2>3. CASE q = g
    BY <2>2, <2>3, <1>2, <1>4, <1>7, <1>8, <1>9, FS_EmptySet DEF OneRole, RefRight
  <2>4. CASE q # g
    BY <2>1, <2>2, <2>4, <1>4, <1>7, <1>8, <1>9 DEF OneRole, RefRight
  <2> QED BY <2>3, <2>4
<1>12. Types(m, ref2, l2, h, d2)
  BY <1>1, <1>3, <1>4 DEF Types
<1>13. Good(m, ref2, l2, h, d2)
  BY <1>4, <1>10, <1>11, <1>12 DEF Good
<1>14. SameView(m, d, m, d2)
  BY <1>5, <1>6 DEF SameView
<1> QED BY <1>4, <1>13, <1>14 DEF g, d2, ref2, l2

----------------------------------------------------------------------------
(* The operators of Pmap are the ones above, for the current state.        *)
LEMMA Current ==
  ASSUME TypeOK
  PROVE  /\ \A s \in Space, i \in PDX : Table(s, i) = TableIn(mem, pgdir, s, i)
         /\ \A s \in Space, v \in VPage : Lookup(s, v).pa = PageIn(mem, pgdir, s, v)
         /\ \A p \in Page : Mapped(p) <=> Users(mem, pgdir, p) # {}
         /\ \A p \in Page : Mappings(p) = Users(mem, pgdir, p)
<1>1. \A s \in Space, i \in PDX : Table(s, i) = TableIn(mem, pgdir, s, i)
  BY DEF Table, TableIn
<1>2. ASSUME NEW s \in Space, NEW v \in VPage
      PROVE  Lookup(s, v).pa = PageIn(mem, pgdir, s, v)
  <2>1. v[1] \in PDX
    BY DEF VPage
  <2>2. Table(s, v[1]) = TableIn(mem, pgdir, s, v[1])
    BY <1>1, <2>1
  <2>3. Zero.pa = NULL
    BY DEF Zero
  <2> QED BY <2>2, <2>3 DEF Lookup, PageIn, HasTable
<1>3. ASSUME NEW p \in Page PROVE Mappings(p) = Users(mem, pgdir, p)
  BY <1>2 DEF Mappings, Users
<1>4. ASSUME NEW p \in Page PROVE Mapped(p) <=> Mappings(p) # {}
  <2>1. ASSUME NEW s \in Space, NEW v \in VPage, Lookup(s, v).pa = p
        PROVE  <<s, v>> \in Mappings(p)
    BY <2>1 DEF Mappings
  <2>2. ASSUME NEW x \in Mappings(p)
        PROVE  /\ x[1] \in Space /\ x[2] \in VPage
               /\ Lookup(x[1], x[2]).pa = p
    BY DEF Mappings
  <2>3. Mapped(p) => Mappings(p) # {}
    BY <2>1 DEF Mapped
  <2>4. Mappings(p) # {} => Mapped(p)
    BY <2>2 DEF Mapped
  <2> QED BY <2>3, <2>4
<1> QED BY <1>1, <1>2, <1>3, <1>4

(* Good is the state invariant of Pmap, part by part.                      *)
LEMMA GoodImplies ==
  ASSUME TypeOK, Good(mem, pp_ref, page_free_list, held, pgdir)
  PROVE  RefCountExact /\ FreePagesUnused /\ NoLeak /\ TablesPrivate
<1> USE NullAssumption
<1>1. \A p \in Page : /\ OneRole(mem, pp_ref, page_free_list, held, pgdir, p)
                      /\ RefRight(mem, pp_ref, pgdir, p)
  BY DEF Good
<1>2. Distinct(mem, pgdir) /\ Unique(page_free_list)
  BY DEF Good
<1>3. ASSUME NEW p \in Page
      PROVE  /\ IsDir(p) <=> DirIn(pgdir, p)
             /\ IsTable(p) <=> TabIn(mem, pgdir, p)
             /\ IsFree(p) <=> InList(page_free_list, p)
             /\ Mapped(p) <=> Users(mem, pgdir, p) # {}
  BY Current DEF IsDir, DirIn, IsTable, TabIn, IsFree, InList
<1>4. FreePagesUnused
  BY <1>1, <1>2, <1>3 DEF FreePagesUnused, OneRole, Unique
<1>5. NoLeak
  BY <1>1, <1>3 DEF NoLeak, OneRole
<1>6. TablesPrivate
  <2>1. \A s, r \in Space, i, k \in PDX :
          HasTable(s, i) /\ Table(s, i) = Table(r, k) => s = r /\ i = k
    BY <1>2, Current DEF Distinct, HasTable
  <2>2. \A p \in Page : ~(IsDir(p) /\ IsTable(p))
    BY <1>1, <1>3 DEF OneRole
  <2>4. \A p \in Page : Mapped(p) => ~IsDir(p) /\ ~IsTable(p)
    BY <1>1, <1>3 DEF OneRole
  <2>3. \A s, r \in Space : pgdir[s] = pgdir[r] /\ pgdir[s] # NULL => s = r
    BY <1>2 DEF Distinct
  <2> QED BY <2>1, <2>2, <2>3, <2>4 DEF TablesPrivate
<1>7. RefCountExact
  <2> SUFFICES ASSUME NEW p \in Page
               PROVE  pp_ref[p] = Cardinality({s \in Space : pgdir[s] = p})
                                + Cardinality({si \in Space \X PDX :
                                                 Table(si[1], si[2]) = p})
                                + Cardinality(Mappings(p))
    BY DEF RefCountExact
  <2> DEFINE D == {s \in Space : pgdir[s] = p}
             T == {si \in Space \X PDX : Table(si[1], si[2]) = p}
  <2>1. Cardinality(D) = IF DirIn(pgdir, p) THEN 1 ELSE 0
    <3>1. CASE DirIn(pgdir, p)
      <4>1. PICK s \in Space : pgdir[s] = p
        BY <3>1 DEF DirIn
      <4>2. D = {s}
        BY <4>1, <1>2 DEF Distinct
      <4> HIDE DEF D
      <4> QED BY <4>2, <3>1, FS_Singleton
    <3>2. CASE ~DirIn(pgdir, p)
      <4>1. D = {}
        BY <3>2 DEF DirIn
      <4> HIDE DEF D
      <4> QED BY <4>1, <3>2, FS_EmptySet
    <3> QED BY <3>1, <3>2
  <2>2. Cardinality(T) = IF TabIn(mem, pgdir, p) THEN 1 ELSE 0
    <3>1. CASE TabIn(mem, pgdir, p)
      <4>1. PICK s \in Space, i \in PDX : Table(s, i) = p
        BY <3>1, Current DEF TabIn
      <4>2. ASSUME NEW x \in Space \X PDX, Table(x[1], x[2]) = p
            PROVE  x = <<s, i>>
        <5>1. x[1] \in Space /\ x[2] \in PDX /\ x = <<x[1], x[2]>>
          OBVIOUS
        <5>2. x[1] = s /\ x[2] = i
          BY <4>1, <4>2, <5>1, <1>6 DEF TablesPrivate, HasTable
        <5> QED BY <5>1, <5>2
      <4>3. T = {<<s, i>>}
        BY <4>1, <4>2
      <4> HIDE DEF T
      <4> QED BY <4>3, <3>1, FS_Singleton
    <3>2. CASE ~TabIn(mem, pgdir, p)
      <4>1. T = {}
        BY <3>2, Current DEF TabIn
      <4> HIDE DEF T
      <4> QED BY <4>1, <3>2, FS_EmptySet
    <3> QED BY <3>1, <3>2
  <2>3. Mappings(p) = Users(mem, pgdir, p)
    BY Current
  <2> HIDE DEF D, T
  <2>4. /\ Cardinality(Users(mem, pgdir, p)) \in Nat
        /\ Users(mem, pgdir, p) = {} => Cardinality(Users(mem, pgdir, p)) = 0
    BY UsersFinite, FS_EmptySet
  <2>5. pp_ref[p] = Cardinality(D) + Cardinality(T) + Cardinality(Users(mem, pgdir, p))
    BY <1>1, <2>1, <2>2, <2>4 DEF OneRole, RefRight
  <2> QED BY <2>3, <2>5 DEF D, T
<1> QED BY <1>4, <1>5, <1>6, <1>7

LEMMA SafetyInit == Init => IInv
<1> SUFFICES ASSUME Init PROVE IInv
  OBVIOUS
<1> USE NullAssumption
<1>1. TypeOK
  BY TypeInit
<1>2. /\ \A s \in Space : pgdir[s] = NULL
      /\ \A s \in Space, i \in PDX : TableIn(mem, pgdir, s, i) = NULL
      /\ \A s \in Space, v \in VPage : PageIn(mem, pgdir, s, v) = NULL
  BY DEF Init, TableIn, PageIn
<1>3. page_free_list \in Seq(Page) /\ Len(page_free_list) = Cardinality(Page)
  BY SizeAssumption, FS_CardinalityType DEF Init
<1>4. Unique(page_free_list) /\ \A p \in Page : InList(page_free_list, p)
  BY <1>3, SizeAssumption, FS_CardinalityType DEF Init, Unique, InList
<1>5. ASSUME NEW p \in Page
      PROVE  /\ OneRole(mem, pp_ref, page_free_list, held, pgdir, p)
             /\ RefRight(mem, pp_ref, pgdir, p)
  <2>1. ~DirIn(pgdir, p) /\ ~TabIn(mem, pgdir, p) /\ Users(mem, pgdir, p) = {}
    <3>1. ~DirIn(pgdir, p) /\ ~TabIn(mem, pgdir, p)
      BY <1>2 DEF DirIn, TabIn
    <3>2. Users(mem, pgdir, p) = {}
      BY <1>2 DEF Users
    <3> QED BY <3>1, <3>2
  <2> QED BY <2>1, <1>4, FS_EmptySet DEF OneRole, RefRight, Init
<1>6. Types(mem, pp_ref, page_free_list, held, pgdir)
  BY <1>1 DEF TypeOK, Types
<1>7. Distinct(mem, pgdir)
  BY <1>2 DEF Distinct
<1> QED BY <1>1, <1>4, <1>5, <1>6, <1>7 DEF IInv, Good, LoopOK, NoPanic, Init

----------------------------------------------------------------------------
(* One lemma per operation: it keeps Good and does not panic.              *)
(* Operations run only when env_free does not.                             *)
LEMMA LoopIdle == ASSUME Running, freeing' = freeing PROVE LoopOK'
BY DEF Running, LoopOK

LEMMA GoodAlloc ==
  ASSUME IInv, NEW zero \in BOOLEAN, page_alloc(zero) PROVE IInv'
<1> DEFINE p == Head(page_free_list)
           c == IF zero THEN ZeroPage ELSE mem[p]
<1>1. p \in Page /\ page_free_list # <<>>
  BY FreeHead DEF IInv, page_alloc
<1>2. c \in [Idx -> Entry]
  BY <1>1, NullAssumption DEF IInv, TypeOK, ZeroPage, Zero, Entry
<1>3. Good([mem EXCEPT ![p] = c], pp_ref, Tail(page_free_list), held \cup {p}, pgdir)
  BY <1>1, <1>2, TakeFree DEF IInv
<1>4. mem' = [mem EXCEPT ![p] = c]
  BY <1>1 DEF page_alloc, IInv, TypeOK
<1>5. /\ held' = held \cup {p} /\ page_free_list' = Tail(page_free_list)
      /\ Running /\ UNCHANGED <<pp_ref, pgdir, freeing, panicked>>
  BY DEF page_alloc
<1>6. TypeOK'
  BY TypeNext DEF IInv, Next
<1> HIDE DEF p, c
<1> QED BY <1>3, <1>4, <1>5, <1>6, LoopIdle DEF IInv, NoPanic

LEMMA GoodFree ==
  ASSUME IInv, NEW p \in Page, page_free(p) PROVE IInv'
<1>1. p \in held
  BY DEF page_free
<1>2. /\ pp_ref[p] = 0 /\ ~Linked(page_free_list, p)
      /\ Good(mem, pp_ref, <<p>> \o page_free_list, held \ {p}, pgdir)
  BY <1>1, GiveBack DEF IInv
<1>3. /\ page_free_list' = <<p>> \o page_free_list
      /\ held' = held \ {p}
      /\ Running /\ UNCHANGED <<mem, pp_ref, pgdir, freeing, panicked>>
  BY <1>2 DEF page_free
<1>4. TypeOK'
  BY TypeNext DEF IInv, Next
<1> QED BY <1>2, <1>3, <1>4, LoopIdle DEF IInv, NoPanic

(* What pgdir_walk returns, whether it had to allocate or not.             *)
LEMMA WalkGood ==
  ASSUME IInv, NEW s \in Space, NEW i \in PDX, pgdir[s] # NULL,
         pgdir_walk(s, i).ok
  PROVE  LET w == pgdir_walk(s, i) IN
         /\ Good(w.mem, w.ref, w.list, held, pgdir)
         /\ w.table = TableIn(w.mem, pgdir, s, i) /\ w.table # NULL
         /\ SamePages(mem, pgdir, w.mem)
         /\ \A p \in Page : p \in held \/ Users(mem, pgdir, p) # {} => w.ref[p] = pp_ref[p]
<1> DEFINE w == pgdir_walk(s, i)
<1>1. TypeOK /\ Good(mem, pp_ref, page_free_list, held, pgdir)
  BY DEF IInv
<1>2. Table(s, i) = TableIn(mem, pgdir, s, i)
  BY <1>1, Current
<1>3. CASE HasTable(s, i)
  <2>1. /\ w.mem = mem /\ w.ref = pp_ref /\ w.list = page_free_list
        /\ w.table = Table(s, i)
    BY <1>3 DEF pgdir_walk
  <2>2. w.table # NULL
    BY <2>1, <1>3 DEF HasTable
  <2> HIDE DEF w
  <2>3. /\ Good(w.mem, w.ref, w.list, held, pgdir)
        /\ w.table = TableIn(w.mem, pgdir, s, i)
    BY <1>1, <1>2, <2>1
  <2>4. SamePages(mem, pgdir, w.mem) /\ w.ref = pp_ref
    BY <2>1 DEF SamePages
  <2> QED BY <2>2, <2>3, <2>4 DEF w
<1>4. CASE ~HasTable(s, i)
  <2> DEFINE l == page_free_list
             t == Head(l)
             m2 == [mem EXCEPT ![t] = ZeroPage, ![pgdir[s]][i] = [pa |-> t, perm |-> PdePerm]]
             ref2 == [pp_ref EXCEPT ![t] = Inc(@)]
  <2>1. l # <<>> /\ TableIn(mem, pgdir, s, i) = NULL
    BY <1>2, <1>4 DEF pgdir_walk, HasTable
  <2>2. w = [ok |-> TRUE, table |-> t, mem |-> m2, ref |-> ref2, list |-> Tail(l)]
    BY <1>4, <2>1 DEF pgdir_walk
  <2>3. /\ Good(m2, ref2, Tail(l), held, pgdir)
        /\ TableIn(m2, pgdir, s, i) = t
        /\ SamePages(mem, pgdir, m2)
        /\ GotTable(mem, pgdir, m2, s, i, t)
    BY <1>1, <2>1, NewTable
  <2>4. /\ t \in Page /\ t \notin held /\ Users(mem, pgdir, t) = {}
    BY <1>1, <2>1, FreeHead
  <2>5. \A p \in Page : p \in held \/ Users(mem, pgdir, p) # {} => ref2[p] = pp_ref[p]
    BY <2>4, <1>1 DEF TypeOK
  <2>6. t # NULL
    BY <2>4, NullAssumption
  <2> HIDE DEF m2, ref2, t, w
  <2>7. w.table = t /\ w.mem = m2 /\ w.ref = ref2 /\ w.list = Tail(l)
    BY <2>2
  <2> QED BY <2>3, <2>5, <2>6, <2>7 DEF w
<1> QED BY <1>3, <1>4

LEMMA GoodInsert ==
  ASSUME IInv, NEW s \in Space, NEW p \in Page, NEW v \in VPage, NEW perm \in Perm,
         page_insert(s, p, v, perm)
  PROVE  IInv'
<1> USE NullAssumption, RefAssumption
<1> DEFINE w    == pgdir_walk(s, v[1])
           e    == [pa |-> p, perm |-> perm]
           old  == PageIn(w.mem, pgdir, s, v)
           ref1 == [w.ref EXCEPT ![p] = Inc(@)]
           ref2 == RefsWithout(ref1, old)
           m2   == [w.mem EXCEPT ![w.table][v[2]] = e]
           l2   == ListWith(w.list, ref2, old)
<1>1. TypeOK /\ v[1] \in PDX /\ e \in Entry /\ e.pa = p /\ e.pa # NULL
  BY DEF IInv, VPage, Entry
<1>2. /\ pgdir[s] # NULL /\ w.ok
      /\ p \in held \/ Users(mem, pgdir, p) # {}
      /\ pp_ref[p] + 1 < RefLimit
  <2>1. /\ pgdir[s] # NULL /\ w.ok /\ (p \in held \/ Mapped(p))
        /\ pp_ref[p] < MaxShare
    BY DEF page_insert
  <2>2. pp_ref[p] \in Nat
    BY <1>1 DEF TypeOK
  <2> QED BY <2>1, <2>2, <1>1, Current
<1>3. /\ Good(w.mem, w.ref, w.list, held, pgdir)
      /\ w.table = TableIn(w.mem, pgdir, s, v[1]) /\ w.table # NULL
      /\ SamePages(mem, pgdir, w.mem)
      /\ w.ref[p] = pp_ref[p]
  BY <1>1, <1>2, WalkGood
<1>4. w.mem[w.table][v[2]].pa = old
  BY <1>3 DEF PageIn
<1>5. IF DropPanics(w.list, ref1, old)
      THEN Panic
      ELSE /\ mem' = m2
           /\ pp_ref' = RefsWithout(ref1, old)
           /\ page_free_list' = ListWith(w.list, pp_ref', old)
           /\ held' = held \ {p}
           /\ UNCHANGED <<pgdir, freeing, panicked>>
  BY <1>4 DEF page_insert
<1> HIDE DEF w
<1>6. Users(w.mem, pgdir, p) = Users(mem, pgdir, p)
  BY <1>3, SameUsers DEF SamePages
<1> HIDE DEF e
<1>7. /\ ~DropPanics(w.list, ref1, old)
      /\ Good(m2, ref2, l2, held \ {p}, pgdir)
  <2>1. p \in held \/ Users(w.mem, pgdir, p) # {}
    BY <1>2, <1>6
  <2>2. w.ref[p] + 1 < RefLimit
    BY <1>2, <1>3
  <2>3. TableIn(w.mem, pgdir, s, v[1]) # NULL
    BY <1>3
  <2>4. LET o  == PageIn(w.mem, pgdir, s, v)
            r1 == IF e.pa = NULL THEN w.ref ELSE [w.ref EXCEPT ![e.pa] = Inc(@)]
            r2 == RefsWithout(r1, o)
        IN  /\ ~DropPanics(w.list, r1, o)
            /\ Good([w.mem EXCEPT ![TableIn(w.mem, pgdir, s, v[1])][v[2]] = e], r2,
                    ListWith(w.list, r2, o), held \ {e.pa}, pgdir)
    BY <1>1, <1>3, <2>1, <2>2, <2>3, SetPte
  <2> QED BY <2>4, <1>1, <1>3
<1>8. TypeOK'
  BY TypeNext DEF IInv, Next
<1> HIDE DEF m2, ref1, ref2, old
<1>9. /\ mem' = m2 /\ pp_ref' = ref2 /\ page_free_list' = l2
      /\ held' = held \ {p} /\ UNCHANGED <<pgdir, freeing, panicked>>
  BY <1>5, <1>7 DEF ref2
<1>10. Running
  BY DEF page_insert
<1> HIDE DEF l2
<1> QED BY <1>7, <1>8, <1>9, <1>10, LoopIdle DEF IInv, NoPanic

LEMMA GoodUnmap ==
  ASSUME IInv, NEW s \in Space, NEW v \in VPage, Unmap(s, v), TypeOK'
  PROVE  /\ LoopOK' => IInv'
         /\ mem' = [mem EXCEPT ![TableIn(mem, pgdir, s, v[1])][v[2]] = Zero]
         /\ TableIn(mem, pgdir, s, v[1]) # NULL
         /\ UNCHANGED <<pgdir, freeing>>
<1> USE NullAssumption
<1> DEFINE old  == PageIn(mem, pgdir, s, v)
           ref2 == RefsWithout(pp_ref, old)
           m2   == [mem EXCEPT ![TableIn(mem, pgdir, s, v[1])][v[2]] = Zero]
           l2   == ListWith(page_free_list, ref2, old)
<1>1. TypeOK /\ v[1] \in PDX /\ Zero \in Entry /\ Zero.pa = NULL
  BY DEF IInv, VPage, Entry, Zero
<1>2. /\ Lookup(s, v).pa = old /\ Table(s, v[1]) = TableIn(mem, pgdir, s, v[1])
      /\ old # NULL
  BY <1>1, Current DEF Unmap
<1>3. TableIn(mem, pgdir, s, v[1]) # NULL
  BY <1>2 DEF PageIn
<1>4. /\ ~DropPanics(page_free_list, pp_ref, old)
      /\ Good(m2, ref2, l2, held, pgdir)
  <2>1. LET o  == PageIn(mem, pgdir, s, v)
            r1 == IF Zero.pa = NULL THEN pp_ref
                  ELSE [pp_ref EXCEPT ![Zero.pa] = Inc(@)]
            r2 == RefsWithout(r1, o)
        IN  /\ ~DropPanics(page_free_list, r1, o)
            /\ Good([mem EXCEPT ![TableIn(mem, pgdir, s, v[1])][v[2]] = Zero], r2,
                    ListWith(page_free_list, r2, o), held \ {Zero.pa}, pgdir)
    BY <1>1, <1>2, <1>3, SetPte DEF IInv
  <2>2. held \ {Zero.pa} = held
    BY <1>1 DEF TypeOK
  <2> QED BY <2>1, <2>2, <1>1
<1>5. IF DropPanics(page_free_list, pp_ref, old)
      THEN Panic
      ELSE /\ mem' = m2
           /\ pp_ref' = ref2
           /\ page_free_list' = ListWith(page_free_list, pp_ref', old)
           /\ UNCHANGED <<held, pgdir, freeing, panicked>>
  BY <1>2 DEF Unmap
<1> HIDE DEF m2, ref2, old
<1>6. /\ mem' = m2 /\ pp_ref' = ref2 /\ page_free_list' = l2
      /\ UNCHANGED <<held, pgdir, freeing, panicked>>
  BY <1>4, <1>5
<1> HIDE DEF l2
<1>7. LoopOK' => IInv'
  BY <1>4, <1>6 DEF IInv, NoPanic
<1> QED BY <1>3, <1>6, <1>7 DEF m2

LEMMA GoodStore ==
  ASSUME IInv, NEW s \in Space, NEW v \in VPage, NEW c \in Image, store(s, v, c)
  PROVE  IInv'
<1> DEFINE p == Lookup(s, v).pa
           m2 == [mem EXCEPT ![p] = c]
<1>1. TypeOK /\ c \in [Idx -> Entry]
  BY ImageAssumption DEF IInv
<1>2. p \in Page /\ Mapped(p)
  BY <1>1, LookupType DEF store, Entry, Mapped
<1>3. ~DirIn(pgdir, p) /\ ~TabIn(mem, pgdir, p)
  BY <1>1, <1>2, Current, UsedPage DEF IInv
<1> HIDE DEF p
<1>4. m2 \in [Page -> [Idx -> Entry]]
  BY <1>1, <1>2 DEF TypeOK
<1>5. SameView(mem, pgdir, m2, pgdir)
  <2>1. \A q \in Page : DirIn(pgdir, q) \/ TabIn(mem, pgdir, q) => m2[q] = mem[q]
    BY <1>1, <1>3 DEF TypeOK
  <2> QED BY <2>1, <1>1, Frame DEF TypeOK
<1> HIDE DEF m2
<1>6. Good(m2, pp_ref, page_free_list, held, pgdir)
  BY <1>4, <1>5, FrameGood DEF IInv
<1>7. /\ mem' = m2 /\ Running
      /\ UNCHANGED <<pp_ref, page_free_list, held, pgdir, freeing, panicked>>
  BY DEF store, p, m2
<1>8. TypeOK'
  BY TypeNext DEF IInv, Next
<1> QED BY <1>6, <1>7, <1>8, LoopIdle DEF IInv, NoPanic

LEMMA GoodSetup ==
  ASSUME IInv, NEW s \in Space, env_setup_vm(s) PROVE IInv'
<1> DEFINE p == Head(page_free_list)
<1>1. Good([mem EXCEPT ![p] = ZeroPage], [pp_ref EXCEPT ![p] = Inc(@)],
           Tail(page_free_list), held, [pgdir EXCEPT ![s] = p])
  BY NewDir DEF IInv, env_setup_vm
<1>2. /\ mem' = [mem EXCEPT ![p] = ZeroPage]
      /\ pp_ref' = [pp_ref EXCEPT ![p] = Inc(@)]
      /\ page_free_list' = Tail(page_free_list)
      /\ pgdir' = [pgdir EXCEPT ![s] = p]
      /\ Running /\ UNCHANGED <<held, freeing, panicked>>
  BY DEF env_setup_vm
<1>3. TypeOK'
  BY TypeNext DEF IInv, Next
<1> HIDE DEF p
<1> QED BY <1>1, <1>2, <1>3, LoopIdle DEF IInv, NoPanic

LEMMA GoodSkip ==
  ASSUME IInv, env_free_skip PROVE IInv'
<1>1. /\ freeing \in Space /\ pdeno \in PDX /\ pdeno \in Nat
      /\ TableIn(mem, pgdir, freeing, pdeno) = NULL
  <2>1. freeing \in Space /\ pdeno \in PDX /\ pdeno \in Nat
    BY SizeAssumption DEF env_free_skip, Freeing, IInv, TypeOK, PDX
  <2> QED BY <2>1, Current DEF env_free_skip, HasTable, IInv
<1>2. TypeOK'
  BY TypeNext DEF IInv, Next, EnvFreeStep
<1>3. /\ UNCHANGED <<mem, pp_ref, page_free_list, held, pgdir, freeing, pteno, panicked>>
      /\ pdeno < NPDE /\ freeing # NULL
      /\ pdeno' = pdeno + 1
  BY DEF env_free_skip, Freeing
<1>4. pteno = 0 /\ pgdir[freeing] # NULL
      /\ \A i \in PDX : i < pdeno => TableIn(mem, pgdir, freeing, i) = NULL
  BY <1>1, <1>3 DEF IInv, LoopOK
<1>5. \A i \in PDX : i < pdeno + 1 => TableIn(mem, pgdir, freeing, i) = NULL
  BY <1>1, <1>4 DEF PDX
<1>6. \A j \in PTX : ~(j < 0)
  BY DEF PTX
<1>7. LoopOK'
  BY <1>3, <1>4, <1>5, <1>6 DEF LoopOK
<1> QED BY <1>2, <1>3, <1>7 DEF IInv, NoPanic

LEMMA GoodFreePage ==
  ASSUME IInv, env_free_page PROVE IInv'
<1> USE NullAssumption
<1> DEFINE t == TableIn(mem, pgdir, freeing, pdeno)
           v == <<pdeno, pteno>>
<1>1. /\ freeing \in Space /\ freeing # NULL /\ pdeno \in PDX /\ pteno \in PTX
      /\ v \in VPage /\ v[1] = pdeno /\ v[2] = pteno /\ pteno \in Nat
      /\ pteno' = pteno + 1 /\ pdeno' = pdeno /\ pdeno < NPDE
  BY SizeAssumption DEF env_free_page, Freeing, IInv, TypeOK, PDX, PTX, VPage
<1>2. TypeOK' /\ TypeOK
  BY TypeNext DEF IInv, Next, EnvFreeStep
<1>3. Table(freeing, pdeno) = t /\ t # NULL
  BY <1>1, <1>2, Current DEF env_free_page, HasTable
<1>4. /\ pgdir[freeing] # NULL
      /\ \A i \in PDX : i < pdeno => TableIn(mem, pgdir, freeing, i) = NULL
      /\ \A j \in PTX : j < pteno => mem[t][j].pa = NULL
  BY <1>1, <1>3 DEF IInv, LoopOK
<1>5. CASE Unmap(freeing, v)
  <2>1. /\ LoopOK' => IInv'
        /\ mem' = [mem EXCEPT ![TableIn(mem, pgdir, freeing, v[1])][v[2]] = Zero]
        /\ UNCHANGED <<pgdir, freeing>>
    BY <1>1, <1>2, <1>5, GoodUnmap
  <2>2. mem' = [mem EXCEPT ![t][pteno] = Zero]
    BY <1>1, <2>1
  <2>3. t \in Page /\ Moved(mem, pgdir, mem', freeing, v, Zero.pa)
    <3>1. Distinct(mem, pgdir) /\ \A p \in Page : DirIn(pgdir, p) => ~TabIn(mem, pgdir, p)
      BY DEF IInv, Good, OneRole
    <3>2. Zero \in Entry
      BY DEF Zero, Entry
    <3>3. mem \in [Page -> [Idx -> Entry]] /\ pgdir \in [Space -> Page \cup {NULL}]
      BY <1>2 DEF TypeOK
    <3>4. TableIn(mem, pgdir, freeing, v[1]) # NULL
      BY <1>1, <1>3
    <3> HIDE DEF v
    <3>5. /\ TableIn(mem, pgdir, freeing, v[1]) \in Page
          /\ Moved(mem, pgdir,
                   [mem EXCEPT ![TableIn(mem, pgdir, freeing, v[1])][v[2]] = Zero],
                   freeing, v, Zero.pa)
      BY <1>1, <3>1, <3>2, <3>3, <3>4, SetPteView
    <3> QED BY <3>5, <2>1, <1>1
  <2>4. \A i \in PDX : TableIn(mem', pgdir, freeing, i) = TableIn(mem, pgdir, freeing, i)
    BY <1>1, <2>3 DEF Moved
  <2>5. \A j \in PTX : j < pteno + 1 => mem'[t][j].pa = NULL
    <3>1. mem[t] \in [Idx -> Entry] /\ pteno \in Idx /\ Zero.pa = NULL
      BY <1>1, <1>2, <2>3 DEF TypeOK, Idx, Zero
    <3>2. mem'[t] = [mem[t] EXCEPT ![pteno] = Zero]
      BY <2>2, <2>3, <1>2 DEF TypeOK
    <3> SUFFICES ASSUME NEW j \in PTX, j < pteno + 1
                 PROVE  mem'[t][j].pa = NULL
      OBVIOUS
    <3>3. j = pteno \/ j < pteno
      BY <1>1 DEF PTX
    <3>4. mem'[t][j] = IF j = pteno THEN Zero ELSE mem[t][j]
      BY <3>1, <3>2 DEF Idx
    <3> QED BY <3>1, <3>3, <3>4, <1>4
  <2>6. TableIn(mem', pgdir, freeing, pdeno) = t
    BY <2>4, <1>1
  <2> HIDE DEF t
  <2>7. LoopOK'
    BY <1>1, <1>3, <1>4, <2>1, <2>4, <2>5, <2>6 DEF LoopOK
  <2> QED BY <2>1, <2>7
<1>6. CASE /\ Lookup(freeing, v).pa = NULL
           /\ UNCHANGED <<mem, pp_ref, page_free_list, held, pgdir, freeing, panicked>>
  <2>1. mem[t][pteno].pa = NULL
    BY <1>1, <1>3, <1>6 DEF Lookup, HasTable
  <2>2. \A j \in PTX : j < pteno + 1 => mem[t][j].pa = NULL
    <3> SUFFICES ASSUME NEW j \in PTX, j < pteno + 1 PROVE mem[t][j].pa = NULL
      OBVIOUS
    <3>1. j = pteno \/ j < pteno
      BY <1>1 DEF PTX
    <3> QED BY <2>1, <3>1, <1>4
  <2>3. LoopOK'
    BY <1>1, <1>3, <1>4, <1>6, <2>2 DEF LoopOK
  <2> QED BY <1>2, <1>6, <2>3 DEF IInv, NoPanic
<1> QED BY <1>5, <1>6 DEF env_free_page

LEMMA GoodFreeTable ==
  ASSUME IInv, env_free_table PROVE IInv'
<1> DEFINE i    == pdeno
           t    == TableIn(mem, pgdir, freeing, i)
           m2   == [mem EXCEPT ![pgdir[freeing]][i] = Zero]
           ref2 == RefsWithout(pp_ref, t)
           l2   == ListWith(page_free_list, ref2, t)
<1>1. /\ freeing \in Space /\ freeing # NULL /\ i \in PDX /\ i \in Nat
      /\ i < NPDE /\ pteno = NPTE
  BY SizeAssumption DEF env_free_table, Freeing, IInv, TypeOK, PDX
<1>2. Table(freeing, i) = t /\ t # NULL
  BY <1>1, Current DEF IInv, env_free_table
<1>3. /\ pgdir[freeing] # NULL
      /\ \A k \in PDX : k < i => TableIn(mem, pgdir, freeing, k) = NULL
      /\ \A j \in PTX : mem[t][j].pa = NULL
  <2>1. /\ pgdir[freeing] # NULL
        /\ \A k \in PDX : k < i => TableIn(mem, pgdir, freeing, k) = NULL
        /\ \A j \in PTX : j < pteno => mem[t][j].pa = NULL
    BY <1>1, <1>2 DEF IInv, LoopOK
  <2>2. \A j \in PTX : j < NPTE
    BY SizeAssumption DEF PTX
  <2> QED BY <1>1, <2>1, <2>2
<1>4. /\ Dec(pp_ref[t]) = 0 /\ ~Linked(page_free_list, t)
      /\ Good(m2, ref2, l2, held, pgdir)
      /\ LostTable(mem, pgdir, m2, freeing, i)
  BY <1>1, <1>2, <1>3, DropTable DEF IInv
<1>5. /\ mem' = m2 /\ pp_ref' = ref2 /\ page_free_list' = l2
      /\ UNCHANGED <<held, pgdir, freeing, panicked>>
      /\ pdeno' = i + 1 /\ pteno' = 0
  BY <1>2, <1>4 DEF env_free_table, Decref
<1>6. TypeOK'
  BY TypeNext DEF IInv, Next, EnvFreeStep
<1> HIDE DEF t, m2, ref2, l2, i
<1>7. \A k \in PDX : k < i + 1 => TableIn(m2, pgdir, freeing, k) = NULL
  BY <1>1, <1>3, <1>4 DEF LostTable, PDX
<1>8. \A j \in PTX : ~(j < 0)
  BY DEF PTX
<1>9. LoopOK'
  BY <1>3, <1>5, <1>7, <1>8 DEF LoopOK
<1> QED BY <1>4, <1>5, <1>6, <1>9 DEF IInv, NoPanic

LEMMA GoodFreePgdir ==
  ASSUME IInv, env_free_pgdir PROVE IInv'
<1> DEFINE g    == pgdir[freeing]
           d2   == [pgdir EXCEPT ![freeing] = NULL]
           ref2 == RefsWithout(pp_ref, g)
           l2   == ListWith(page_free_list, ref2, g)
<1>1. freeing \in Space /\ freeing # NULL /\ pdeno = NPDE
  BY DEF IInv, TypeOK, env_free_pgdir, Freeing
<1>2. g # NULL /\ \A i \in PDX : TableIn(mem, pgdir, freeing, i) = NULL
  BY <1>1, SizeAssumption DEF IInv, LoopOK, PDX
<1>3. /\ Dec(pp_ref[g]) = 0 /\ ~Linked(page_free_list, g)
      /\ Good(mem, ref2, l2, held, d2)
  BY <1>1, <1>2, DropDir DEF IInv
<1>4. /\ pgdir' = d2 /\ pp_ref' = ref2 /\ page_free_list' = l2
      /\ freeing' = NULL /\ UNCHANGED <<mem, held, panicked>>
  BY <1>3 DEF env_free_pgdir, Decref
<1>5. TypeOK'
  BY TypeNext DEF IInv, Next, EnvFreeStep
<1> HIDE DEF g, d2, ref2, l2
<1> QED BY <1>3, <1>4, <1>5 DEF IInv, LoopOK, NoPanic

LEMMA SafetyNext == IInv /\ [Next]_vars => IInv'
<1> SUFFICES ASSUME IInv, [Next]_vars PROVE IInv'
  OBVIOUS
<1>0. TypeOK'
  BY TypeNext DEF IInv
<1>1. ASSUME NEW s \in Space, env_free(s) PROVE IInv'
  <2>1. \A n \in PDX \cup PTX : ~(n < 0)
    BY DEF PDX, PTX
  <2>2. /\ UNCHANGED <<mem, pp_ref, page_free_list, held, pgdir, panicked>>
        /\ freeing' = s /\ pdeno' = 0 /\ pteno' = 0 /\ pgdir[s] # NULL
    BY <1>1 DEF env_free
  <2>3. LoopOK'
    BY <2>1, <2>2 DEF LoopOK
  <2> QED BY <1>0, <2>2, <2>3 DEF IInv, NoPanic
<1>2. CASE UNCHANGED vars
  BY <1>0, <1>2 DEF vars, loop, IInv, LoopOK, NoPanic
<1>3. ASSUME NEW s \in Space, NEW v \in VPage, page_remove(s, v) PROVE IInv'
  <2>1. Unmap(s, v) /\ Running
    BY <1>3 DEF page_remove
  <2> QED BY <2>1, <1>0, GoodUnmap, LoopIdle
<1> QED
  BY <1>1, <1>2, <1>3, GoodAlloc, GoodFree, GoodInsert, GoodStore, GoodSetup,
     GoodSkip, GoodFreePage, GoodFreeTable, GoodFreePgdir
  DEF Next, EnvFreeStep

(* The state of kern/pmap.c is always in order: every pp_ref counts the    *)
(* pointers to its page, free pages are in no address space, no page is    *)
(* lost, and directories and tables are private to one place.              *)
THEOREM Safety == Spec => [](RefCountExact /\ FreePagesUnused /\ NoLeak /\ TablesPrivate)
<1>1. IInv => RefCountExact /\ FreePagesUnused /\ NoLeak /\ TablesPrivate
  BY GoodImplies DEF IInv
<1> QED BY SafetyInit, SafetyNext, <1>1, PTL DEF Spec

(* A page that page_free has put on the list is in no address space, has   *)
(* no owner and is on the list once.                                       *)
THEOREM FreeUnused == Spec => []FreePagesUnused
BY Safety, PTL

(* page_remove, page_decref and env_free lose no page.                     *)
THEOREM NeverLeaks == Spec => []NoLeak
BY Safety, PTL

(* No program can reach a page table or a page directory, and no two       *)
(* places share one (pgdir_walk, env_setup_vm).                            *)
THEOREM PrivateTables == Spec => []TablesPrivate
BY Safety, PTL

(* The panics of page_free and page_remove are never reached.              *)
THEOREM NeverPanics == Spec => []NoPanic
<1>1. IInv => NoPanic
  BY DEF IInv
<1> QED BY SafetyInit, SafetyNext, <1>1, PTL DEF Spec

----------------------------------------------------------------------------
(***************************************************************************)
(* What each operation of Pmap does to the address spaces as their users   *)
(* see them, and from it that Pmap implements AddrSpace on every machine.  *)
(*                                                                         *)
(* The safety invariant IInv is not enough: env_free drops a page table as *)
(* soon as no entry of it is present, so that an entry that is not present *)
(* must hold nothing else either (Clean).                                  *)
(***************************************************************************)

EntryIn(m, d, s, v) ==
  IF TableIn(m, d, s, v[1]) = NULL THEN Zero
  ELSE m[TableIn(m, d, s, v[1])][v[2]]

(* An entry that is not present is cleared.                                *)
CleanIn(m, d) ==
  \A s \in Space, v \in VPage :
    EntryIn(m, d, s, v).pa = NULL => EntryIn(m, d, s, v) = Zero

VInv == IInv /\ CleanIn(mem, pgdir)

(* From memory m and directories d to m2 and d2 nothing changes for users, *)
SameEntries(m, d, m2, d2) ==
  \A s \in Space, v \in VPage : EntryIn(m2, d2, s, v) = EntryIn(m, d, s, v)

(* ... or only the entry of one virtual page does,                         *)
OneEntry(m, d, m2, d2, s, v, e) ==
  \A r \in Space, w \in VPage :
    EntryIn(m2, d2, r, w) = IF r = s /\ w = v THEN e ELSE EntryIn(m, d, r, w)

(* ... and mapped pages hold what they held.                               *)
SameContents(m, d, m2) ==
  \A p \in Page : Users(m, d, p) # {} => m2[p] = m[p]

----------------------------------------------------------------------------
LEMMA EntryPage ==
  ASSUME NEW m, NEW d, NEW s, NEW v
  PROVE  EntryIn(m, d, s, v).pa = PageIn(m, d, s, v)
BY DEF EntryIn, PageIn, Zero

LEMMA IndexType ==
  ASSUME NEW v \in VPage
  PROVE  v[1] \in PDX /\ v[2] \in PTX /\ v[1] \in Idx /\ v[2] \in Idx
BY DEF VPage, Idx

LEMMA LookupEntry ==
  \A s \in Space, v \in VPage : Lookup(s, v) = EntryIn(mem, pgdir, s, v)
<1>1. \A s \in Space, i \in PDX : Table(s, i) = TableIn(mem, pgdir, s, i)
  BY DEF Table, TableIn
<1> QED BY <1>1, IndexType DEF Lookup, HasTable, EntryIn

(* The tables are where they were and hold what they held.                 *)
LEMMA EntryFrame ==
  ASSUME NEW m \in [Page -> [Idx -> Entry]], NEW m2,
         NEW d \in [Space -> Page \cup {NULL}], NEW d2,
         \A r \in Space, k \in PDX : TableIn(m2, d2, r, k) = TableIn(m, d, r, k),
         \A p \in Page : TabIn(m, d, p) => m2[p] = m[p]
  PROVE  SameEntries(m, d, m2, d2)
<1> SUFFICES ASSUME NEW s \in Space, NEW v \in VPage
             PROVE  EntryIn(m2, d2, s, v) = EntryIn(m, d, s, v)
  BY DEF SameEntries
<1> DEFINE t == TableIn(m, d, s, v[1])
<1>1. TableIn(m2, d2, s, v[1]) = t
  BY IndexType
<1>2. t # NULL => t \in Page /\ TabIn(m, d, t)
  BY IndexType DEF TableIn, Entry, TabIn
<1>3. t # NULL => m2[t] = m[t]
  BY <1>2
<1> QED BY <1>1, <1>3 DEF EntryIn

(* A page that becomes a table, a directory or somebody's was not mapped.  *)
LEMMA FreshPage ==
  ASSUME NEW m, NEW ref, NEW l, NEW h, NEW d, Good(m, ref, l, h, d), l # <<>>,
         NEW c \in [Idx -> Entry]
  PROVE  /\ Head(l) \in Page
         /\ SameContents(m, d, [m EXCEPT ![Head(l)] = c])
<1>1. Head(l) \in Page /\ Users(m, d, Head(l)) = {}
  BY FreeHead
<1>2. m \in [Page -> [Idx -> Entry]]
  BY DEF Good, Types
<1> QED BY <1>1, <1>2 DEF SameContents

(* page_alloc: whatever is written to a free page changes no entry.        *)
LEMMA AllocView ==
  ASSUME NEW m, NEW ref, NEW l, NEW h, NEW d, Good(m, ref, l, h, d), l # <<>>,
         NEW c \in [Idx -> Entry]
  PROVE  SameEntries(m, d, [m EXCEPT ![Head(l)] = c], d)
<1> DEFINE p == Head(l)
           m2 == [m EXCEPT ![p] = c]
<1>1. /\ m \in [Page -> [Idx -> Entry]] /\ d \in [Space -> Page \cup {NULL}]
  BY DEF Good, Types
<1>2. p \in Page /\ ~DirIn(d, p) /\ ~TabIn(m, d, p)
  BY FreeHead
<1>3. \A q \in Page : DirIn(d, q) \/ TabIn(m, d, q) => m2[q] = m[q]
  BY <1>1, <1>2
<1> HIDE DEF m2, p
<1>4. SameView(m, d, m2, d)
  BY <1>1, <1>3, Frame
<1>5. SameEntries(m, d, m2, d)
  BY <1>1, <1>3, <1>4, EntryFrame DEF SameView
<1> QED BY <1>5 DEF m2, p

(* pgdir_walk: the new table is clear, as if there were none.              *)
LEMMA TableView ==
  ASSUME NEW m, NEW ref, NEW l, NEW h, NEW d, Good(m, ref, l, h, d), l # <<>>,
         NEW s \in Space, NEW i \in PDX, d[s] # NULL, TableIn(m, d, s, i) = NULL
  PROVE  LET t  == Head(l)
             m2 == [m EXCEPT ![t] = ZeroPage, ![d[s]][i] = [pa |-> t, perm |-> PdePerm]]
         IN  /\ SameEntries(m, d, m2, d)
             /\ SameContents(m, d, m2)
<1> USE NullAssumption
<1> DEFINE t  == Head(l)
           g  == d[s]
           e  == [pa |-> t, perm |-> PdePerm]
           m2 == [m EXCEPT ![t] = ZeroPage, ![g][i] = e]
<1>1. Types(m, ref, l, h, d)
  BY DEF Good
<1>2. /\ t \in Page /\ ~DirIn(d, t) /\ ~TabIn(m, d, t)
      /\ Users(m, d, t) = {}
  BY FreeHead
<1>3. /\ g \in Page /\ DirIn(d, g) /\ g # t /\ i \in Idx
  BY <1>1, <1>2 DEF Types, DirIn, Idx
<1>4. ~TabIn(m, d, g) /\ Users(m, d, g) = {}
  BY <1>3 DEF Good, OneRole
<1>5. GotTable(m, d, m2, s, i, t)
  BY NewTable
<1>6. /\ m2[t] = ZeroPage
      /\ \A p \in Page : p # t /\ p # g => m2[p] = m[p]
  BY <1>1, <1>2, <1>3 DEF Types
<1> HIDE DEF m2, t, g
<1>7. ASSUME NEW r \in Space, NEW w \in VPage
      PROVE  EntryIn(m2, d, r, w) = EntryIn(m, d, r, w)
  <2> DEFINE u == TableIn(m, d, r, w[1])
  <2>1. w[1] \in PDX /\ w[2] \in Idx /\ w[1] \in Idx
    BY IndexType
  <2>2. CASE r = s /\ w[1] = i
    <3>1. TableIn(m2, d, r, w[1]) = t /\ u = NULL
      BY <1>5, <2>1, <2>2 DEF GotTable
    <3>2. ZeroPage[w[2]] = Zero
      BY <2>1 DEF ZeroPage
    <3> QED BY <3>1, <3>2, <1>2, <1>6 DEF EntryIn
  <2>3. CASE ~(r = s /\ w[1] = i)
    <3>1. TableIn(m2, d, r, w[1]) = u
      BY <1>5, <2>1, <2>3 DEF GotTable
    <3>2. u # NULL => u \in Page /\ TabIn(m, d, u)
      BY <2>1, <1>1 DEF TableIn, Entry, TabIn, Types
    <3>3. u # NULL => m2[u] = m[u]
      BY <3>2, <1>2, <1>4, <1>6
    <3> QED BY <3>1, <3>3 DEF EntryIn
  <2> QED BY <2>2, <2>3
<1>8. SameContents(m, d, m2)
  BY <1>2, <1>4, <1>6 DEF SameContents
<1>9. SameEntries(m, d, m2, d)
  BY <1>7 DEF SameEntries
<1> QED BY <1>8, <1>9 DEF m2, t, g

(* page_insert and page_remove write one entry of a table.                 *)
LEMMA PteView ==
  ASSUME NEW m, NEW ref, NEW l, NEW h, NEW d, Good(m, ref, l, h, d),
         NEW s \in Space, NEW v \in VPage, NEW e \in Entry,
         TableIn(m, d, s, v[1]) # NULL
  PROVE  LET m2 == [m EXCEPT ![TableIn(m, d, s, v[1])][v[2]] = e] IN
         /\ OneEntry(m, d, m2, d, s, v, e)
         /\ SameContents(m, d, m2)
<1> USE NullAssumption
<1> DEFINE t  == TableIn(m, d, s, v[1])
           m2 == [m EXCEPT ![t][v[2]] = e]
<1>1. /\ m \in [Page -> [Idx -> Entry]] /\ d \in [Space -> Page \cup {NULL}]
      /\ Distinct(m, d) /\ \A p \in Page : DirIn(d, p) => ~TabIn(m, d, p)
  BY DEF Good, Types, OneRole
<1>2. t \in Page /\ Moved(m, d, m2, s, v, e.pa)
  BY <1>1, SetPteView
<1>3. /\ v[1] \in PDX /\ v[2] \in Idx /\ v = <<v[1], v[2]>>
  BY IndexType DEF VPage
<1>4. TabIn(m, d, t)
  BY <1>3 DEF TabIn
<1>5. Users(m, d, t) = {}
  BY <1>2, <1>4 DEF Good, OneRole
<1>6. /\ \A p \in Page : p # t => m2[p] = m[p]
      /\ m2[t] = [m[t] EXCEPT ![v[2]] = e]
  BY <1>1, <1>2
<1> HIDE DEF t, m2
<1>7. ASSUME NEW r \in Space, NEW w \in VPage
      PROVE  EntryIn(m2, d, r, w) = IF r = s /\ w = v THEN e ELSE EntryIn(m, d, r, w)
  <2> DEFINE u == TableIn(m, d, r, w[1])
  <2>1. w[1] \in PDX /\ w[2] \in Idx /\ w[1] \in Idx /\ w = <<w[1], w[2]>>
    BY IndexType DEF VPage
  <2>2. TableIn(m2, d, r, w[1]) = u
    BY <1>2, <2>1 DEF Moved
  <2>3. CASE u = t
    <3>1. r = s /\ w[1] = v[1]
      BY <1>1, <1>2, <1>3, <2>1, <2>3 DEF Distinct, t
    <3>2. w[2] = v[2] <=> w = v
      BY <3>1, <2>1, <1>3
    <3>3. m2[t][w[2]] = IF w[2] = v[2] THEN e ELSE m[t][w[2]]
      BY <1>1, <1>2, <1>3, <1>6, <2>1
    <3>4. EntryIn(m2, d, r, w) = m2[t][w[2]] /\ EntryIn(m, d, r, w) = m[t][w[2]]
      BY <2>2, <2>3, <1>2 DEF EntryIn
    <3> QED BY <3>1, <3>2, <3>3, <3>4
  <2>4. CASE u # t
    <3>1. ~(r = s /\ w = v)
      BY <2>4 DEF t
    <3>2. u # NULL => u \in Page
      BY <2>1, <1>1 DEF TableIn, Entry
    <3> QED BY <2>2, <2>4, <3>1, <3>2, <1>6 DEF EntryIn
  <2> QED BY <2>3, <2>4
<1>8. OneEntry(m, d, m2, d, s, v, e)
  BY <1>7 DEF OneEntry
<1>9. SameContents(m, d, m2)
  BY <1>5, <1>6 DEF SameContents
<1> QED BY <1>8, <1>9 DEF t, m2

----------------------------------------------------------------------------
(* The operations: what a step changes for the users of address spaces.    *)
Quiet == SameEntries(mem, pgdir, mem', pgdir') /\ SameContents(mem, pgdir, mem')

Sets(s, v, e) ==
  OneEntry(mem, pgdir, mem', pgdir', s, v, e) /\ SameContents(mem, pgdir, mem')

LEMMA QuietSame ==
  ASSUME UNCHANGED <<mem, pgdir>> PROVE Quiet
BY DEF Quiet, SameEntries, SameContents

LEMMA QuietAlloc ==
  ASSUME IInv, NEW zero \in BOOLEAN, page_alloc(zero) PROVE Quiet
<1> DEFINE p == Head(page_free_list)
           c == IF zero THEN ZeroPage ELSE mem[p]
<1>1. page_free_list # <<>> /\ Good(mem, pp_ref, page_free_list, held, pgdir)
  BY DEF IInv, page_alloc
<1>2. p \in Page
  BY <1>1, FreeHead
<1>3. c \in [Idx -> Entry]
  BY <1>2, NullAssumption DEF IInv, TypeOK, ZeroPage, Zero, Entry
<1>4. mem' = [mem EXCEPT ![p] = c] /\ pgdir' = pgdir
  BY <1>2 DEF page_alloc, IInv, TypeOK
<1> HIDE DEF c
<1> QED BY <1>1, <1>3, <1>4, AllocView, FreshPage DEF Quiet

LEMMA QuietSetup ==
  ASSUME IInv, NEW s \in Space, env_setup_vm(s) PROVE Quiet
<1> DEFINE p  == Head(page_free_list)
           m2 == [mem EXCEPT ![p] = ZeroPage]
           d2 == [pgdir EXCEPT ![s] = p]
<1>1. /\ page_free_list # <<>> /\ Good(mem, pp_ref, page_free_list, held, pgdir)
      /\ pgdir[s] = NULL /\ mem' = m2 /\ pgdir' = d2
  BY DEF IInv, env_setup_vm
<1>2. ZeroPage \in [Idx -> Entry]
  BY NullAssumption DEF ZeroPage, Zero, Entry
<1>3. SameView(mem, pgdir, m2, d2)
  BY <1>1, NewDir
<1>4. SameContents(mem, pgdir, m2) /\ p \in Page /\ ~TabIn(mem, pgdir, p)
  BY <1>1, <1>2, FreshPage, FreeHead
<1>5. mem \in [Page -> [Idx -> Entry]] /\ pgdir \in [Space -> Page \cup {NULL}]
  BY DEF IInv, TypeOK
<1>6. \A q \in Page : TabIn(mem, pgdir, q) => m2[q] = mem[q]
  BY <1>4, <1>5
<1> HIDE DEF m2, d2
<1>7. SameEntries(mem, pgdir, m2, d2)
  BY <1>3, <1>5, <1>6, EntryFrame DEF SameView
<1> QED BY <1>1, <1>4, <1>7 DEF Quiet

(* env_free drops a table that holds nothing, not even permission bits.    *)
LEMMA QuietFreeTable ==
  ASSUME VInv, env_free_table PROVE Quiet
<1> USE NullAssumption
<1> DEFINE i  == pdeno
           g  == pgdir[freeing]
           t  == TableIn(mem, pgdir, freeing, i)
           m2 == [mem EXCEPT ![g][i] = Zero]
<1>1. /\ freeing \in Space /\ freeing # NULL /\ i \in PDX
      /\ i < NPDE /\ pteno = NPTE
  BY SizeAssumption DEF env_free_table, Freeing, VInv, IInv, TypeOK, PDX
<1>2. Table(freeing, i) = t /\ t # NULL
  BY <1>1, Current DEF VInv, IInv, env_free_table
<1>3. g # NULL /\ \A j \in PTX : mem[t][j].pa = NULL
  <2>1. g # NULL /\ \A j \in PTX : j < pteno => mem[t][j].pa = NULL
    BY <1>1, <1>2 DEF VInv, IInv, LoopOK
  <2>2. \A j \in PTX : j < NPTE
    BY SizeAssumption DEF PTX
  <2> QED BY <1>1, <2>1, <2>2
<1>4. /\ Dec(pp_ref[t]) = 0 /\ ~Linked(page_free_list, t)
      /\ LostTable(mem, pgdir, m2, freeing, i)
  BY <1>1, <1>2, <1>3, DropTable DEF VInv, IInv
<1>5. mem' = m2 /\ pgdir' = pgdir
  BY <1>2, <1>4 DEF env_free_table
<1>6. /\ mem \in [Page -> [Idx -> Entry]] /\ g \in Page
      /\ DirIn(pgdir, g)
  BY <1>1, <1>3 DEF VInv, IInv, TypeOK, DirIn
<1>7. ~TabIn(mem, pgdir, g) /\ Users(mem, pgdir, g) = {}
  BY <1>6 DEF VInv, IInv, Good, OneRole
<1>8. \A p \in Page : p # g => m2[p] = mem[p]
  BY <1>6
<1>9. \A j \in PTX : mem[t][j] = Zero
  <2> SUFFICES ASSUME NEW j \in PTX PROVE mem[t][j] = Zero
    OBVIOUS
  <2>1. <<i, j>> \in VPage /\ EntryIn(mem, pgdir, freeing, <<i, j>>) = mem[t][j]
    BY <1>1, <1>2 DEF VPage, EntryIn
  <2> QED BY <1>1, <1>3, <2>1 DEF VInv, CleanIn
<1> HIDE DEF m2, t, g, i
<1>10. ASSUME NEW r \in Space, NEW w \in VPage
       PROVE  EntryIn(m2, pgdir, r, w) = EntryIn(mem, pgdir, r, w)
  <2> DEFINE u == TableIn(mem, pgdir, r, w[1])
  <2>1. w[1] \in PDX /\ w[2] \in PTX /\ w[1] \in Idx
    BY IndexType
  <2>2. CASE r = freeing /\ w[1] = i
    <3>1. TableIn(m2, pgdir, r, w[1]) = NULL /\ u = t
      BY <1>4, <2>1, <2>2 DEF LostTable, t
    <3> QED BY <3>1, <2>1, <1>9 DEF EntryIn
  <2>3. CASE ~(r = freeing /\ w[1] = i)
    <3>1. TableIn(m2, pgdir, r, w[1]) = u
      BY <1>4, <2>1, <2>3 DEF LostTable
    <3>2. u # NULL => u \in Page /\ TabIn(mem, pgdir, u)
      BY <2>1 DEF TableIn, Entry, TabIn, VInv, IInv, TypeOK
    <3>3. u # NULL => m2[u] = mem[u]
      BY <3>2, <1>7, <1>8
    <3> QED BY <3>1, <3>3 DEF EntryIn
  <2> QED BY <2>2, <2>3
<1>11. SameContents(mem, pgdir, m2)
  BY <1>7, <1>8 DEF SameContents
<1> QED BY <1>5, <1>10, <1>11 DEF Quiet, SameEntries

LEMMA QuietFreePgdir ==
  ASSUME IInv, env_free_pgdir
  PROVE  Quiet /\ \A v \in VPage : EntryIn(mem, pgdir, freeing, v) = Zero
<1> DEFINE g  == pgdir[freeing]
           d2 == [pgdir EXCEPT ![freeing] = NULL]
<1>1. freeing \in Space /\ freeing # NULL /\ pdeno = NPDE
  BY DEF IInv, TypeOK, env_free_pgdir, Freeing
<1>2. g # NULL /\ \A i \in PDX : TableIn(mem, pgdir, freeing, i) = NULL
  BY <1>1, SizeAssumption DEF IInv, LoopOK, PDX
<1>3. Dec(pp_ref[g]) = 0 /\ ~Linked(page_free_list, g) /\ SameView(mem, pgdir, mem, d2)
  BY <1>1, <1>2, DropDir DEF IInv
<1>4. pgdir' = d2 /\ mem' = mem
  BY <1>3 DEF env_free_pgdir
<1>5. \A v \in VPage : EntryIn(mem, pgdir, freeing, v) = Zero
  BY <1>2, IndexType DEF EntryIn
<1>6. mem \in [Page -> [Idx -> Entry]] /\ pgdir \in [Space -> Page \cup {NULL}]
  BY DEF IInv, TypeOK
<1> HIDE DEF d2
<1>7. SameEntries(mem, pgdir, mem, d2)
  BY <1>3, <1>6, EntryFrame DEF SameView
<1> QED BY <1>4, <1>5, <1>7 DEF Quiet, SameContents

LEMMA UnmapSets ==
  ASSUME IInv, NEW s \in Space, NEW v \in VPage, Unmap(s, v), TypeOK'
  PROVE  Sets(s, v, Zero) /\ UNCHANGED <<pgdir, freeing>>
<1>1. /\ mem' = [mem EXCEPT ![TableIn(mem, pgdir, s, v[1])][v[2]] = Zero]
      /\ TableIn(mem, pgdir, s, v[1]) # NULL
      /\ UNCHANGED <<pgdir, freeing>>
  BY GoodUnmap
<1>2. Zero \in Entry /\ Good(mem, pp_ref, page_free_list, held, pgdir)
  BY DEF Zero, Entry, IInv
<1>3. LET m2 == [mem EXCEPT ![TableIn(mem, pgdir, s, v[1])][v[2]] = Zero] IN
         /\ OneEntry(mem, pgdir, m2, pgdir, s, v, Zero)
         /\ SameContents(mem, pgdir, m2)
  BY <1>1, <1>2, PteView
<1> QED BY <1>1, <1>3 DEF Sets

LEMMA InsertSets ==
  ASSUME IInv, NEW s \in Space, NEW p \in Page, NEW v \in VPage, NEW perm \in Perm,
         page_insert(s, p, v, perm)
  PROVE  /\ Sets(s, v, [pa |-> p, perm |-> perm])
         /\ UNCHANGED <<pgdir, freeing>> /\ pgdir[s] # NULL
<1> USE NullAssumption
<1> DEFINE w == pgdir_walk(s, v[1])
           e == [pa |-> p, perm |-> perm]
           m2 == [w.mem EXCEPT ![w.table][v[2]] = e]
<1>1. /\ TypeOK /\ v[1] \in PDX /\ e \in Entry
      /\ Good(mem, pp_ref, page_free_list, held, pgdir)
  BY IndexType DEF IInv, Entry
<1>2. pgdir[s] # NULL /\ w.ok
  BY DEF page_insert
<1>3. /\ Good(w.mem, w.ref, w.list, held, pgdir)
      /\ w.table = TableIn(w.mem, pgdir, s, v[1]) /\ w.table # NULL
      /\ SamePages(mem, pgdir, w.mem)
  BY <1>1, <1>2, WalkGood
<1>4. mem' = m2 /\ pgdir' = pgdir /\ freeing' = freeing
  <2>1. IInv' /\ IInv
    BY GoodInsert
  <2>2. ~panicked'
    BY <2>1 DEF IInv, NoPanic
  <2> QED BY <2>2 DEF page_insert, Panic
<1>5. /\ SameEntries(mem, pgdir, w.mem, pgdir)
      /\ SameContents(mem, pgdir, w.mem)
  <2>1. CASE HasTable(s, v[1])
    <3>1. w.mem = mem
      BY <2>1 DEF pgdir_walk
    <3> QED BY <3>1 DEF SameEntries, SameContents
  <2>2. CASE ~HasTable(s, v[1])
    <3> DEFINE t  == Head(page_free_list)
               m1 == [mem EXCEPT ![t] = ZeroPage,
                                 ![pgdir[s]][v[1]] = [pa |-> t, perm |-> PdePerm]]
    <3>1. /\ page_free_list # <<>> /\ TableIn(mem, pgdir, s, v[1]) = NULL
          /\ pgdir[s] # NULL /\ v[1] \in PDX
          /\ Good(mem, pp_ref, page_free_list, held, pgdir)
      BY <1>1, <1>2, <2>2, Current DEF pgdir_walk, HasTable
    <3>2. w.mem = m1
      BY <2>2, <3>1 DEF pgdir_walk
    <3>3. /\ SameEntries(mem, pgdir, m1, pgdir)
          /\ SameContents(mem, pgdir, m1)
      BY <3>1, TableView
    <3> HIDE DEF m1, w
    <3> QED BY <3>2, <3>3
  <2> QED BY <2>1, <2>2
<1> HIDE DEF w, e
<1>6. /\ OneEntry(w.mem, pgdir, m2, pgdir, s, v, e)
      /\ SameContents(w.mem, pgdir, m2)
  <2>1. LET m1 == [w.mem EXCEPT ![TableIn(w.mem, pgdir, s, v[1])][v[2]] = e] IN
         /\ OneEntry(w.mem, pgdir, m1, pgdir, s, v, e)
         /\ SameContents(w.mem, pgdir, m1)
    BY <1>1, <1>3, PteView
  <2> QED BY <2>1, <1>3
<1>7. \A q : Users(w.mem, pgdir, q) = Users(mem, pgdir, q)
  BY <1>3, SameUsers DEF SamePages
<1> HIDE DEF m2
<1>8. Sets(s, v, e)
  BY <1>4, <1>5, <1>6, <1>7 DEF Sets, OneEntry, SameEntries, SameContents
<1> QED BY <1>2, <1>4, <1>8 DEF e

(* A store changes one mapped page and no entry.                           *)
LEMMA StoreView ==
  ASSUME IInv, NEW p \in Page, Users(mem, pgdir, p) # {}, NEW c \in Image,
         mem' = [mem EXCEPT ![p] = c], pgdir' = pgdir
  PROVE  SameEntries(mem, pgdir, mem', pgdir')
<1> USE NullAssumption
<1>1. mem \in [Page -> [Idx -> Entry]] /\ pgdir \in [Space -> Page \cup {NULL}]
  BY DEF IInv, TypeOK
<1>2. ~DirIn(pgdir, p) /\ ~TabIn(mem, pgdir, p)
  BY UsedPage DEF IInv
<1>3. \A q \in Page : DirIn(pgdir, q) \/ TabIn(mem, pgdir, q) => mem'[q] = mem[q]
  BY <1>1, <1>2
<1>4. SameView(mem, pgdir, mem', pgdir')
  BY <1>1, <1>3, Frame
<1> QED BY <1>1, <1>3, <1>4, EntryFrame DEF SameView

----------------------------------------------------------------------------
(* The cases of a step of Pmap.                                            *)
Stores == \E s \in Space, v \in VPage, c \in Image : store(s, v, c)

LEMMA StepView ==
  ASSUME VInv, [Next]_vars
  PROVE  \/ Quiet /\ UNCHANGED pgdir
         \/ Quiet /\ \E s \in Space : env_setup_vm(s)
         \/ Quiet /\ env_free_pgdir
         \/ \E s \in Space, v \in VPage, e \in Entry :
              /\ Sets(s, v, e) /\ UNCHANGED pgdir /\ pgdir[s] # NULL
              /\ e.pa = NULL => e = Zero
              /\ e.pa # NULL => e.perm \in Perm
         \/ Stores
<1> USE NullAssumption
<1>1. IInv /\ TypeOK /\ TypeOK'
  BY TypeNext DEF VInv, IInv
<1>2. CASE UNCHANGED vars
  BY <1>2, QuietSame DEF vars
<1>3. ASSUME NEW zero \in BOOLEAN, page_alloc(zero) PROVE Quiet /\ UNCHANGED pgdir
  BY <1>1, <1>3, QuietAlloc DEF page_alloc
<1>4. ASSUME NEW p \in Page, page_free(p) PROVE Quiet /\ UNCHANGED pgdir
  BY <1>4, QuietSame DEF page_free, Panic
<1>5. ASSUME NEW s \in Space, NEW p \in Page, NEW v \in VPage, NEW perm \in Perm,
             page_insert(s, p, v, perm)
      PROVE  \E e \in Entry : /\ Sets(s, v, e) /\ UNCHANGED pgdir /\ pgdir[s] # NULL
                              /\ e.pa = NULL => e = Zero
                              /\ e.pa # NULL => e.perm \in Perm
  <2> DEFINE e == [pa |-> p, perm |-> perm]
  <2>1. e \in Entry /\ e.pa # NULL /\ e.perm \in Perm
    BY DEF Entry
  <2>2. Sets(s, v, e) /\ UNCHANGED pgdir /\ pgdir[s] # NULL
    BY <1>1, <1>5, InsertSets
  <2> QED BY <2>1, <2>2
<1>6. ASSUME NEW s \in Space, NEW v \in VPage, Unmap(s, v)
      PROVE  /\ Sets(s, v, Zero) /\ UNCHANGED pgdir /\ pgdir[s] # NULL
             /\ Zero \in Entry /\ Zero.pa = NULL
  <2>1. Sets(s, v, Zero) /\ UNCHANGED pgdir
    BY <1>1, <1>6, UnmapSets
  <2>2. pgdir[s] # NULL
    BY <1>1, <1>6, LookupType DEF Unmap, HasTable, Table
  <2> QED BY <2>1, <2>2 DEF Zero, Entry
<1>7. ASSUME NEW s \in Space, env_setup_vm(s) PROVE Quiet
  BY <1>1, <1>7, QuietSetup
<1>8. ASSUME NEW s \in Space, env_free(s) PROVE Quiet /\ UNCHANGED pgdir
  BY <1>8, QuietSame DEF env_free
<1>9. ASSUME env_free_skip PROVE Quiet /\ UNCHANGED pgdir
  BY <1>9, QuietSame DEF env_free_skip
<1>10. ASSUME env_free_page
       PROVE  \/ Quiet /\ UNCHANGED pgdir
              \/ \E s \in Space, v \in VPage : Unmap(s, v)
  <2>1. freeing \in Space /\ <<pdeno, pteno>> \in VPage
    BY <1>1, <1>10, SizeAssumption
       DEF env_free_page, Freeing, TypeOK, PDX, PTX, VPage
  <2> QED BY <1>10, <2>1, QuietSame DEF env_free_page
<1>11. ASSUME env_free_table PROVE Quiet /\ UNCHANGED pgdir
  <2>1. pgdir' = pgdir
    BY <1>11 DEF env_free_table, Panic
  <2> QED BY <1>11, <2>1, QuietFreeTable
<1>12. ASSUME env_free_pgdir PROVE Quiet
  BY <1>1, <1>12, QuietFreePgdir
<1>13. ASSUME Next
       PROVE  \/ Quiet /\ UNCHANGED pgdir
              \/ Quiet /\ \E s \in Space : env_setup_vm(s)
              \/ Quiet /\ env_free_pgdir
              \/ \E s \in Space, p \in Page, v \in VPage, perm \in Perm :
                   page_insert(s, p, v, perm)
              \/ \E s \in Space, v \in VPage : Unmap(s, v)
              \/ Stores
  BY <1>3, <1>4, <1>7, <1>8, <1>9, <1>10, <1>11, <1>12, <1>13
  DEF Next, EnvFreeStep, page_remove, Stores
<1> QED BY <1>2, <1>5, <1>6, <1>13

LEMMA StoreEffect ==
  ASSUME IInv, NEW s \in Space, NEW v \in VPage, NEW c \in Image, store(s, v, c)
  PROVE  LET p == EntryIn(mem, pgdir, s, v).pa IN
         /\ p \in Page /\ Users(mem, pgdir, p) # {}
         /\ mem' = [mem EXCEPT ![p] = c] /\ pgdir' = pgdir
         /\ SameEntries(mem, pgdir, mem', pgdir')
<1> DEFINE p == EntryIn(mem, pgdir, s, v).pa
<1>1. /\ Lookup(s, v) = EntryIn(mem, pgdir, s, v)
      /\ p # NULL /\ mem' = [mem EXCEPT ![p] = c] /\ pgdir' = pgdir
  BY LookupEntry DEF store
<1>2. p \in Page
  BY <1>1, LookupType DEF Entry, IInv
<1>3. <<s, v>> \in Users(mem, pgdir, p)
  BY EntryPage DEF Users
<1> QED BY <1>1, <1>2, <1>3, StoreView

LEMMA CleanNext == VInv /\ [Next]_vars => VInv'
<1> SUFFICES ASSUME VInv, [Next]_vars PROVE CleanIn(mem', pgdir')
  BY SafetyNext DEF VInv
<1>1. CASE Quiet
  BY <1>1 DEF Quiet, SameEntries, CleanIn, VInv
<1>2. ASSUME NEW s \in Space, NEW v \in VPage, NEW e \in Entry, Sets(s, v, e),
             e.pa = NULL => e = Zero
      PROVE  CleanIn(mem', pgdir')
  BY <1>2 DEF Sets, OneEntry, CleanIn, VInv
<1>3. CASE Stores
  <2>1. SameEntries(mem, pgdir, mem', pgdir')
    BY <1>3, StoreEffect DEF Stores, VInv
  <2> QED BY <2>1 DEF SameEntries, CleanIn, VInv
<1> QED BY <1>1, <1>2, <1>3, StepView

LEMMA CleanInit == Init => VInv
<1> SUFFICES ASSUME Init PROVE CleanIn(mem, pgdir)
  BY SafetyInit DEF VInv
<1> QED BY DEF Init, CleanIn, EntryIn, TableIn

----------------------------------------------------------------------------
(* The same, in the terms of AddrSpace: each step of Pmap is a step of the *)
(* abstract address spaces or invisible there.                             *)
LEMMA LookupNext ==
  \A s \in Space, v \in VPage : Lookup(s, v)' = EntryIn(mem', pgdir', s, v)
<1>1. \A s \in Space, i \in PDX : Table(s, i)' = TableIn(mem', pgdir', s, i)
  BY DEF Table, TableIn
<1> QED BY <1>1, IndexType DEF Lookup, HasTable, EntryIn

LEMMA MappedUsers ==
  /\ \A p \in Page : Mapped(p) <=> Users(mem, pgdir, p) # {}
  /\ \A p \in Page : Mapped(p)' <=> Users(mem', pgdir', p) # {}
<1>1. ASSUME NEW p \in Page PROVE Mapped(p) <=> Users(mem, pgdir, p) # {}
  <2>1. ASSUME NEW s \in Space, NEW v \in VPage, Lookup(s, v).pa = p
        PROVE  <<s, v>> \in Users(mem, pgdir, p)
    BY <2>1, LookupEntry, EntryPage DEF Users
  <2>2. ASSUME NEW x \in Users(mem, pgdir, p)
        PROVE  x[1] \in Space /\ x[2] \in VPage /\ Lookup(x[1], x[2]).pa = p
    BY LookupEntry, EntryPage DEF Users
  <2> QED BY <2>1, <2>2 DEF Mapped
<1>2. ASSUME NEW p \in Page PROVE Mapped(p)' <=> Users(mem', pgdir', p) # {}
  <2>1. ASSUME NEW s \in Space, NEW v \in VPage, Lookup(s, v)'.pa = p
        PROVE  <<s, v>> \in Users(mem', pgdir', p)
    BY <2>1, LookupNext, EntryPage DEF Users
  <2>2. ASSUME NEW x \in Users(mem', pgdir', p)
        PROVE  x[1] \in Space /\ x[2] \in VPage /\ Lookup(x[1], x[2])'.pa = p
    BY LookupNext, EntryPage DEF Users
  <2> QED BY <2>1, <2>2 DEF Mapped
<1> QED BY <1>1, <1>2

LEMMA QuietUsers ==
  ASSUME Quiet
  PROVE  /\ \A s \in Space, v \in VPage : Lookup(s, v)' = Lookup(s, v)
         /\ \A p \in Page : Mapped(p)' <=> Mapped(p)
         /\ \A p \in Page : Mapped(p) => mem'[p] = mem[p]
<1>1. \A s \in Space, v \in VPage : Lookup(s, v)' = Lookup(s, v)
  BY LookupEntry, LookupNext DEF Quiet, SameEntries
<1>2. \A p \in Page : Mapped(p)' <=> Mapped(p)
  BY <1>1 DEF Mapped
<1>3. \A p \in Page : Mapped(p) => mem'[p] = mem[p]
  BY MappedUsers DEF Quiet, SameContents
<1> QED BY <1>1, <1>2, <1>3

LEMMA QuietStutter ==
  ASSUME Quiet, UNCHANGED pgdir PROVE UNCHANGED VM!absvars
<1>1. /\ \A s \in Space, v \in VPage : Lookup(s, v)' = Lookup(s, v)
      /\ \A p \in Page : Mapped(p)' <=> Mapped(p)
      /\ \A p \in Page : Mapped(p) => mem'[p] = mem[p]
  BY QuietUsers
<1> QED BY <1>1 DEF VM!absvars

LEMMA QuietCreate ==
  ASSUME VInv, Quiet, NEW s \in Space, env_setup_vm(s) PROVE VM!Create(s)
<1>1. /\ \A r \in Space, v \in VPage : Lookup(r, v)' = Lookup(r, v)
      /\ \A p \in Page : Mapped(p)' <=> Mapped(p)
      /\ \A p \in Page : Mapped(p) => mem'[p] = mem[p]
  BY QuietUsers
<1>2. /\ pgdir[s] = NULL /\ pgdir' = [pgdir EXCEPT ![s] = Head(page_free_list)]
      /\ Head(page_free_list) \in Page /\ pgdir \in [Space -> Page \cup {NULL}]
  BY FreeHead DEF env_setup_vm, VInv, IInv, TypeOK
<1>3. \A r \in Space : pgdir'[r] # NULL <=> pgdir[r] # NULL \/ r = s
  BY <1>2, NullAssumption
<1> QED BY <1>1, <1>2, <1>3 DEF VM!Create

LEMMA QuietDestroy ==
  ASSUME VInv, Quiet, env_free_pgdir, NEW s \in Space, s = freeing
  PROVE  VM!Destroy(s)
<1>1. /\ \A r \in Space, v \in VPage : Lookup(r, v)' = Lookup(r, v)
      /\ \A p \in Page : Mapped(p)' <=> Mapped(p)
      /\ \A p \in Page : Mapped(p) => mem'[p] = mem[p]
  BY QuietUsers
<1>2. pgdir[s] # NULL /\ pgdir \in [Space -> Page \cup {NULL}]
  BY DEF env_free_pgdir, Freeing, VInv, IInv, TypeOK, LoopOK
<1>3. pgdir' = [pgdir EXCEPT ![s] = NULL]
  <2>1. IInv' /\ ~panicked'
    BY SafetyNext DEF Next, EnvFreeStep, VInv, IInv, NoPanic
  <2> QED BY <2>1 DEF env_free_pgdir, Panic
<1>4. \A v \in VPage : Lookup(s, v) = Zero
  BY <1>2, QuietFreePgdir, LookupEntry DEF VInv
<1>5. \A r \in Space : pgdir'[r] # NULL <=> pgdir[r] # NULL /\ r # s
  BY <1>2, <1>3
<1> QED BY <1>1, <1>2, <1>4, <1>5 DEF VM!Destroy, VM!EmptyMap, VM!Unmapped, Zero

LEMMA SetsMap ==
  ASSUME VInv, NEW s \in Space, NEW v \in VPage, NEW e \in Entry, Sets(s, v, e),
         UNCHANGED pgdir, pgdir[s] # NULL,
         e.pa = NULL => e = Zero, e.pa # NULL => e.perm \in Perm
  PROVE  VM!Map(s) \/ UNCHANGED VM!absvars
<1> USE NullAssumption
<1>1. \A r \in Space, w \in VPage :
        Lookup(r, w)' = IF r = s /\ w = v THEN e ELSE Lookup(r, w)
  BY LookupEntry, LookupNext DEF Sets, OneEntry
<1>2. \A p \in Page : Mapped(p) => mem'[p] = mem[p]
  BY MappedUsers DEF Sets, SameContents
<1>3. CASE e = Lookup(s, v)
  <2>1. \A r \in Space, w \in VPage : Lookup(r, w)' = Lookup(r, w)
    BY <1>1, <1>3
  <2>2. \A p \in Page : Mapped(p)' <=> Mapped(p)
    BY <2>1 DEF Mapped
  <2> QED BY <1>2, <2>1, <2>2 DEF VM!absvars
<1>4. CASE e # Lookup(s, v)
  <2>1. e \in [pa : Page, perm : Perm] \cup {Zero}
    BY DEF Entry
  <2>2. VM!ImageKept
    <3>1. \A p \in Page : p \in VM!MappedPages([r \in Space |-> [w \in VPage |-> Lookup(r, w)]])
                          <=> Mapped(p)
      BY DEF VM!MappedPages, Mapped
    <3>2. \A p \in Page : p \in VM!MappedPages([r \in Space |-> [w \in VPage |-> Lookup(r, w)']])
                          <=> Mapped(p)'
      BY DEF VM!MappedPages, Mapped
    <3> QED BY <1>2, <3>1, <3>2 DEF VM!ImageKept
  <2> QED BY <1>1, <1>4, <2>1, <2>2 DEF VM!Map, VM!Entries, VM!Unmapped, Zero
<1> QED BY <1>3, <1>4

LEMMA StoreStores ==
  ASSUME VInv, NEW s \in Space, NEW v \in VPage, NEW c \in Image, store(s, v, c)
  PROVE  VM!Store(s) \/ UNCHANGED VM!absvars
<1> DEFINE p == Lookup(s, v).pa
<1>1. /\ p \in Page /\ Mapped(p)
      /\ mem' = [mem EXCEPT ![p] = c] /\ pgdir' = pgdir
  BY StoreEffect, LookupEntry, MappedUsers DEF VInv
<1>2. \A r \in Space, w \in VPage : Lookup(r, w)' = Lookup(r, w)
  <2>1. SameEntries(mem, pgdir, mem', pgdir')
    BY StoreEffect DEF VInv
  <2> QED BY <2>1, LookupEntry, LookupNext DEF SameEntries
<1>3. \A q \in Page : Mapped(q)' <=> Mapped(q)
  BY <1>2 DEF Mapped
<1>4. /\ mem'[p] = c /\ \A q \in Page \ {p} : mem'[q] = mem[q]
      /\ p # NULL
  BY <1>1, NullAssumption DEF VInv, IInv, TypeOK
<1>5. s \in {r \in Space : pgdir[r] # NULL}
  <2>1. pgdir[s] # NULL
    BY <1>1, <1>4, LookupType DEF HasTable, Table, VInv, IInv
  <2> QED BY <2>1
<1> HIDE DEF p
<1>6. CASE mem'[p] = mem[p]
  BY <1>1, <1>2, <1>3, <1>4, <1>6 DEF VM!absvars
<1>7. CASE mem'[p] # mem[p]
  BY <1>1, <1>2, <1>3, <1>4, <1>5, <1>7 DEF VM!Store, p
<1> QED BY <1>6, <1>7

LEMMA RefinesInit == Init => VM!Init
<1> SUFFICES ASSUME Init PROVE VM!Init
  OBVIOUS
<1>1. \A s \in Space, v \in VPage : Lookup(s, v) = Zero
  BY DEF Init, Lookup, HasTable, Table
<1>2. \A p \in Page : ~Mapped(p)
  BY <1>1, NullAssumption DEF Mapped, Zero
<1>3. {s \in Space : pgdir[s] # NULL} = {}
  BY DEF Init
<1> QED BY <1>1, <1>2, <1>3 DEF VM!Init, VM!EmptyMap, VM!Unmapped, Zero

LEMMA RefinesNext == VInv /\ [Next]_vars => [VM!Next]_(VM!absvars)
<1> SUFFICES ASSUME VInv, [Next]_vars PROVE VM!Next \/ UNCHANGED VM!absvars
  OBVIOUS
<1>1. CASE Quiet /\ env_free_pgdir
  <2>1. PICK s \in Space : s = freeing
    BY <1>1 DEF env_free_pgdir, Freeing, VInv, IInv, TypeOK
  <2>2. VM!Destroy(s)
    BY <1>1, <2>1, QuietDestroy
  <2> QED BY <2>2 DEF VM!Next
<1>2. CASE Quiet /\ \E s \in Space : env_setup_vm(s)
  BY <1>2, QuietCreate DEF VM!Next
<1>3. CASE Quiet /\ UNCHANGED pgdir
  BY <1>3, QuietStutter
<1>4. ASSUME NEW s \in Space, NEW v \in VPage, NEW e \in Entry, Sets(s, v, e),
             UNCHANGED pgdir, pgdir[s] # NULL,
             e.pa = NULL => e = Zero, e.pa # NULL => e.perm \in Perm
      PROVE  VM!Next \/ UNCHANGED VM!absvars
  BY <1>4, SetsMap DEF VM!Next
<1>5. CASE Stores
  BY <1>5, StoreStores DEF Stores, VM!Next
<1> QED BY <1>1, <1>2, <1>3, <1>4, <1>5, StepView

(* The page tables implement independent address spaces whose mapped pages *)
(* keep their contents (page_insert, page_remove, env_setup_vm, env_free). *)
THEOREM Refinement == Spec => ImplementsAddrSpace
<1>1. VInv /\ [Next]_vars => VInv'
  BY CleanNext
<1> QED BY CleanInit, <1>1, RefinesInit, RefinesNext, PTL
        DEF Spec, ImplementsAddrSpace, VM!Spec

----------------------------------------------------------------------------
(***************************************************************************)
(* The processor never uses a translation that the page tables in force    *)
(* do not make.  It stores wherever its translations lead, so that Pmap's  *)
(* own invariants hold only as long as the translations are right, and the *)
(* translations are right only as long as nothing but the kernel writes    *)
(* page tables: both are one induction.  With it every behaviour with the  *)
(* processor is a behaviour of Pmap, and Pmap's theorems hold there too.   *)
(***************************************************************************)

(* curenv's directory is not in force while env_free takes it apart.       *)
NotInForce == freeing # NULL => pgdir[freeing] # cr3

TlbInv == VInv /\ TlbExact /\ NotInForce

----------------------------------------------------------------------------
(* The walk of the processor through the directory of s, after a step.     *)
LEMMA WalkNext ==
  ASSUME NEW s \in Space, cr3' = pgdir'[s], cr3' # NULL, NEW v \in VPage
  PROVE  Walk(v)' = Lookup(s, v)'
BY IndexType DEF Walk, Lookup, HasTable, Table

(* With kern_pgdir in force nothing is cached.                             *)
LEMMA FillNull ==
  ASSUME cr3' = NULL, NEW flushed, Fill(flushed),
         flushed = VPage \/ \A v \in VPage : tlb[v] = Zero
  PROVE  TlbExact'
<1>1. \A v \in VPage : Walk(v)' = Zero
  BY DEF Walk
<1> QED BY <1>1 DEF Fill, TlbExact, Zero

(* What the TLB holds after a step that leaves cr3 alone is right when     *)
(* every translation that has changed was invalidated or not there before. *)
LEMMA FillExact ==
  ASSUME TlbExact, NEW flushed, UNCHANGED cr3, Fill(flushed),
         \A s \in Space : cr3 = pgdir[s] /\ cr3 # NULL =>
           /\ pgdir'[s] = pgdir[s]
           /\ \A v \in VPage : \/ v \in flushed \/ Lookup(s, v).pa = NULL
                               \/ Lookup(s, v)' = Lookup(s, v)
  PROVE  TlbExact'
<1>1. CASE cr3 = NULL
  BY <1>1, FillNull DEF TlbExact
<1>2. CASE cr3 # NULL
  <2>1. PICK s \in Space : cr3 = pgdir[s] /\ \A v \in VPage : tlb[v] = Lookup(s, v)
    BY <1>2 DEF TlbExact
  <2>2. /\ cr3' = pgdir'[s] /\ cr3' # NULL
        /\ \A v \in VPage : \/ v \in flushed \/ Lookup(s, v).pa = NULL
                            \/ Lookup(s, v)' = Lookup(s, v)
    BY <1>2, <2>1
  <2>3. \A v \in VPage : Walk(v)' = Lookup(s, v)'
    BY <2>2, WalkNext
  <2>4. \A v \in VPage : tlb'[v] = Lookup(s, v)'
    BY <2>1, <2>2, <2>3 DEF Fill
  <2> QED BY <2>2, <2>4 DEF TlbExact
<1> QED BY <1>1, <1>2

(* Loading cr3 with the directory of an address space.                     *)
LEMMA SwitchExact ==
  ASSUME NEW s \in Space, cr3' = pgdir'[s], cr3' # NULL, Fill(VPage)
  PROVE  TlbExact'
<1>1. \A v \in VPage : tlb'[v] = Lookup(s, v)'
  BY WalkNext DEF Fill
<1> QED BY <1>1 DEF TlbExact

(* No entry has changed, and no directory in use.                          *)
LEMMA QuietExact ==
  ASSUME TlbExact, Quiet, NoFlush,
         \A s \in Space : cr3 = pgdir[s] /\ cr3 # NULL => pgdir'[s] = pgdir[s]
  PROVE  TlbExact'
<1>1. \A s \in Space, v \in VPage : Lookup(s, v)' = Lookup(s, v)
  BY QuietUsers
<1> QED BY <1>1, FillExact DEF NoFlush

(* One entry has changed; it was invalidated or not present.               *)
LEMMA SetsExact ==
  ASSUME TlbExact, NEW s \in Space, NEW v \in VPage, NEW e, Sets(s, v, e),
         UNCHANGED <<pgdir, cr3>>,
         IF Lookup(s, v).pa = NULL THEN \E f : Fill(f) ELSE Fill({v})
  PROVE  TlbExact'
<1>1. \A r \in Space, w \in VPage : (r = s /\ w = v) \/ Lookup(r, w)' = Lookup(r, w)
  BY LookupEntry, LookupNext DEF Sets, OneEntry
<1>2. CASE Lookup(s, v).pa = NULL
  <2>1. PICK f : Fill(f)
    BY <1>2
  <2> QED BY <1>1, <1>2, <2>1, FillExact
<1>3. CASE Lookup(s, v).pa # NULL
  BY <1>1, <1>3, FillExact
<1> QED BY <1>2, <1>3

(* The processor's store is a store through the address space in force.    *)
LEMMA WriteStores ==
  ASSUME TlbExact, NEW v \in VPage, NEW c \in Image, write(v, c)
  PROVE  Stores /\ NoFlush /\ UNCHANGED pgdir
<1>1. cr3 # NULL
  BY DEF TlbExact, write, Zero
<1>2. PICK s \in Space : tlb[v] = Lookup(s, v)
  BY <1>1 DEF TlbExact
<1>3. store(s, v, c)
  BY <1>2 DEF write, store
<1> QED BY <1>3 DEF Stores, write

----------------------------------------------------------------------------
(* The kernel's and the processor's steps are steps of Pmap.               *)
LEMMA TlbStep == TlbExact /\ [TlbNext]_<<vars, processor>> => [Next]_vars
<1> SUFFICES ASSUME TlbExact, [TlbNext]_<<vars, processor>> PROVE [Next]_vars
  OBVIOUS
<1>1. ASSUME NEW v \in VPage, NEW c \in Image, write(v, c) PROVE Next
  BY <1>1, WriteStores DEF Stores, Next
<1>2. ASSUME TlbNext PROVE Next \/ UNCHANGED vars
  BY <1>1, <1>2 DEF TlbNext, Next, EnvFreeStep, insert, remove, free, free_step,
     switch, switch_back
<1> QED BY <1>2

LEMMA TlbNextInv == TlbInv /\ [TlbNext]_<<vars, processor>> => TlbInv'
<1> SUFFICES ASSUME TlbInv, [TlbNext]_<<vars, processor>>
             PROVE  TlbExact' /\ NotInForce'
  BY TlbStep, CleanNext DEF TlbInv
<1> USE NullAssumption
<1>1. VInv /\ IInv /\ TypeOK /\ TlbExact /\ NotInForce
      /\ TypeOK' /\ ~panicked'
  BY TlbStep, CleanNext DEF TlbInv, VInv, IInv, NoPanic
<1>2. ASSUME NEW s \in Space, env_setup_vm(s), NoFlush PROVE TlbExact' /\ NotInForce'
  <2>1. Quiet
    BY <1>1, <1>2, QuietSetup
  <2>2. /\ pgdir[s] = NULL /\ pgdir' = [pgdir EXCEPT ![s] = Head(page_free_list)]
        /\ freeing' = NULL
    BY <1>2 DEF env_setup_vm, Running
  <2>3. \A r \in Space : cr3 = pgdir[r] /\ cr3 # NULL => pgdir'[r] = pgdir[r]
    BY <2>2, <1>1 DEF TypeOK
  <2> QED BY <1>1, <1>2, <2>1, <2>2, <2>3, QuietExact DEF NotInForce
<1>3. ASSUME Quiet, UNCHANGED <<pgdir, freeing>>, NoFlush
      PROVE  TlbExact' /\ NotInForce'
  BY <1>1, <1>3, QuietExact DEF NotInForce, NoFlush
<1>4. ASSUME NEW zero \in BOOLEAN, page_alloc(zero), NoFlush
      PROVE  TlbExact' /\ NotInForce'
  BY <1>1, <1>3, <1>4, QuietAlloc DEF page_alloc
<1>5. ASSUME NEW p \in Page, page_free(p), NoFlush PROVE TlbExact' /\ NotInForce'
  BY <1>1, <1>3, <1>5, QuietSame DEF page_free, Panic
<1>6. ASSUME NEW s \in Space, NEW p \in Page, NEW v \in VPage, NEW perm \in Perm,
             insert(s, p, v, perm)
      PROVE  TlbExact' /\ NotInForce'
  <2>1. Sets(s, v, [pa |-> p, perm |-> perm]) /\ UNCHANGED <<pgdir, freeing>>
    BY <1>1, <1>6, InsertSets DEF insert
  <2>2. /\ UNCHANGED cr3
        /\ IF Lookup(s, v).pa = NULL THEN \E f : Fill(f) ELSE Fill({v})
    BY <1>6 DEF insert, tlb_invalidate, NoFlush
  <2> QED BY <1>1, <2>1, <2>2, SetsExact DEF NotInForce
<1>7. ASSUME NEW s \in Space, NEW v \in VPage, Unmap(s, v), tlb_invalidate(v)
      PROVE  TlbExact' /\ NotInForce'
  <2>1. Sets(s, v, Zero) /\ UNCHANGED <<pgdir, freeing>>
    BY <1>1, <1>7, UnmapSets
  <2>2. UNCHANGED cr3 /\ Fill({v})
    BY <1>7 DEF tlb_invalidate
  <2> QED BY <1>1, <2>1, <2>2, SetsExact DEF NotInForce
<1>8. ASSUME NEW s \in Space, NEW v \in VPage, remove(s, v)
      PROVE  TlbExact' /\ NotInForce'
  BY <1>7, <1>8 DEF remove, page_remove
<1>9. ASSUME NEW v \in VPage, NEW c \in Image, write(v, c)
      PROVE  TlbExact' /\ NotInForce'
  <2>1. Stores /\ NoFlush /\ UNCHANGED <<pgdir, freeing>>
    BY <1>1, <1>9, WriteStores DEF write
  <2>2. SameEntries(mem, pgdir, mem', pgdir')
    BY <1>1, <2>1, StoreEffect DEF Stores
  <2>3. \A s \in Space, w \in VPage : Lookup(s, w)' = Lookup(s, w)
    BY <2>2, LookupEntry, LookupNext DEF SameEntries
  <2> QED BY <1>1, <2>1, <2>3, FillExact DEF NoFlush, NotInForce
<1>10. ASSUME NEW s \in Space, free(s) PROVE TlbExact' /\ NotInForce'
  <2>1. Quiet /\ UNCHANGED pgdir /\ freeing' = s /\ pgdir[s] # NULL
    BY <1>10, QuietSame DEF free, env_free
  <2>2. CASE pgdir[s] = cr3
    <3>1. cr3' = NULL /\ Fill(VPage)
      BY <1>10, <2>2 DEF free, lcr3
    <3> QED BY <2>1, <3>1, FillNull DEF NotInForce
  <2>3. CASE pgdir[s] # cr3
    <3>1. NoFlush
      BY <1>10, <2>3 DEF free
    <3> QED BY <1>1, <2>1, <2>3, <3>1, QuietExact DEF NotInForce, NoFlush
  <2> QED BY <2>2, <2>3
<1>11. ASSUME NEW s \in Space, switch(s) PROVE TlbExact' /\ NotInForce'
  <2>1. cr3' = pgdir'[s] /\ cr3' # NULL /\ Fill(VPage) /\ freeing' = NULL
    BY <1>11 DEF switch, lcr3, vars, Running
  <2> QED BY <2>1, SwitchExact DEF NotInForce
<1>12. ASSUME switch_back PROVE TlbExact' /\ NotInForce'
  <2>1. cr3' = NULL /\ Fill(VPage) /\ freeing' = NULL
    BY <1>12 DEF switch_back, lcr3, vars, Running
  <2> QED BY <2>1, FillNull DEF NotInForce
<1>13. ASSUME env_free_page,
              IF Lookup(freeing, <<pdeno, pteno>>).pa # NULL
              THEN tlb_invalidate(<<pdeno, pteno>>) ELSE NoFlush
       PROVE  TlbExact' /\ NotInForce'
  <2>1. PICK s \in Space, v \in VPage : s = freeing /\ v = <<pdeno, pteno>>
    <3>1. freeing \in Space /\ <<pdeno, pteno>> \in VPage
      BY <1>1, <1>13, SizeAssumption
         DEF env_free_page, Freeing, TypeOK, PDX, PTX, VPage
    <3> QED BY <3>1
  <2>2. CASE Lookup(s, v).pa # NULL
    <3>1. Unmap(s, v) /\ tlb_invalidate(v)
      BY <1>13, <2>1, <2>2 DEF env_free_page
    <3> QED BY <3>1, <1>7
  <2>3. CASE Lookup(s, v).pa = NULL
    <3>1. UNCHANGED <<mem, pgdir, freeing>> /\ NoFlush
      BY <1>13, <2>1, <2>3 DEF env_free_page, Unmap
    <3> QED BY <3>1, <1>3, QuietSame
  <2> QED BY <2>2, <2>3
<1>14. ASSUME env_free_skip, NoFlush PROVE TlbExact' /\ NotInForce'
  BY <1>3, <1>14, QuietSame DEF env_free_skip
<1>15. ASSUME env_free_table, NoFlush PROVE TlbExact' /\ NotInForce'
  BY <1>1, <1>3, <1>15, QuietFreeTable DEF env_free_table, Panic
<1>16. ASSUME env_free_pgdir, NoFlush PROVE TlbExact' /\ NotInForce'
  <2>1. Quiet
    BY <1>1, <1>16, QuietFreePgdir
  <2>2. freeing' = NULL /\ freeing \in Space /\ pgdir[freeing] # cr3
        /\ pgdir' = [pgdir EXCEPT ![freeing] = NULL]
    BY <1>1, <1>16 DEF env_free_pgdir, Panic, Freeing, TypeOK, NotInForce
  <2>3. \A r \in Space : cr3 = pgdir[r] /\ cr3 # NULL => pgdir'[r] = pgdir[r]
    BY <2>2, <1>1 DEF TypeOK
  <2> QED BY <1>1, <1>16, <2>1, <2>2, <2>3, QuietExact DEF NotInForce
<1>17. CASE UNCHANGED <<vars, processor>>
  <2>1. UNCHANGED <<mem, pgdir, freeing, cr3, tlb>>
    BY <1>17 DEF vars, processor
  <2>2. \A s \in Space, v \in VPage : Lookup(s, v)' = Lookup(s, v)
    BY <2>1, QuietSame, QuietUsers
  <2> QED BY <1>1, <2>1, <2>2 DEF TlbExact, NotInForce
<1> QED
  BY <1>2, <1>4, <1>5, <1>6, <1>8, <1>9, <1>10, <1>11, <1>12, <1>13, <1>14, <1>15,
     <1>16, <1>17
  DEF TlbNext, free_step

LEMMA TlbInitInv == TlbInit => TlbInv
BY CleanInit DEF TlbInit, TlbInv, TlbExact, NotInForce, Init

(* The processor translates every address as the page tables of the        *)
(* address space in force do (page_remove, tlb_invalidate, env_free, lcr3).*)
THEOREM TranslationsExact == TlbSpec => []TlbExact
<1>1. TlbInv => TlbExact
  BY DEF TlbInv
<1> QED BY TlbInitInv, TlbNextInv, <1>1, PTL DEF TlbSpec

(* Everything the processor does through its translations is a step of     *)
(* Pmap, so what holds there holds with the TLB too.                       *)
THEOREM ProcessorRefines == TlbSpec => Spec
<1>1. TlbInit => Init
  BY DEF TlbInit
<1> QED BY <1>1, TlbStep, TranslationsExact, PTL DEF TlbSpec, Spec

(* The invariants of kern/pmap.c and the independence of address spaces    *)
(* hold with programs that store wherever the TLB leads them, whatever     *)
(* they leave in the pages they own.                                       *)
THEOREM SafeWithProcessor ==
  TlbSpec => /\ [](RefCountExact /\ FreePagesUnused /\ NoLeak /\ TablesPrivate)
             /\ []NoPanic
             /\ ImplementsAddrSpace
BY ProcessorRefines, Safety, NeverPanics, Refinement, PTL
=============================================================================
