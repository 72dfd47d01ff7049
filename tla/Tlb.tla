-------------------------------- MODULE Tlb --------------------------------
(***************************************************************************)
(* What the processor makes of the page tables of module Pmap: cr3 points  *)
(* to a page directory, and the TLB keeps translations that it has read.   *)
(* It follows the pages that cr3 leads to whatever they hold by now.       *)
(*                                                                         *)
(* The processor may read a translation at any time and forget it at any   *)
(* time.  What it can do wrong with old translations it can also do when   *)
(* it reads every one as soon as it exists and forgets none by itself:     *)
(* this is the TLB here.  It does not keep entries that are not present.   *)
(***************************************************************************)
EXTENDS Pmap

VARIABLES cr3,   \* a page, or NULL for kern_pgdir, which maps nothing below UTOP
          tlb    \* the translation it has of each virtual page, or Zero

processor == <<cr3, tlb>>

(* The walk of the processor from cr3.                                     *)
Walk(v) ==
  IF cr3 = NULL THEN Zero
  ELSE IF mem[cr3][v[1]].pa = NULL THEN Zero
  ELSE mem[mem[cr3][v[1]].pa][v[2]]

(* After a step of the kernel that has executed invlpg for flushed.        *)
Fill(flushed) ==
  tlb' = [v \in VPage |-> IF v \in flushed \/ tlb[v].pa = NULL
                          THEN Walk(v)' ELSE tlb[v]]

NoFlush == UNCHANGED cr3 /\ Fill({})

(* Mutant: nothing is invalidated.                                         *)
tlb_invalidate_not(v) == UNCHANGED cr3 /\ Fill({})
(* The entry for v in the address space that is in force, whichever the    *)
(* page tables are that have changed.                                      *)
tlb_invalidate(v) == UNCHANGED cr3 /\ Fill({v})

(* Loading cr3 empties the TLB.                                            *)
lcr3(d) == cr3' = d /\ Fill(VPage)

TlbInit == Init /\ cr3 = NULL /\ tlb = [v \in VPage |-> Zero]

(* page_insert calls page_remove, which invalidates what was mapped.       *)
insert(s, p, v, perm) ==
  /\ page_insert(s, p, v, perm)
  /\ IF Lookup(s, v).pa # NULL THEN tlb_invalidate(v) ELSE NoFlush

remove(s, v) == page_remove(s, v) /\ tlb_invalidate(v)

(* The program, or load_icode, stores into the page that the processor     *)
(* finds at v.                                                             *)
write(v, c) ==
  /\ Running /\ tlb[v].pa # NULL
  /\ mem' = [mem EXCEPT ![tlb[v].pa] = c]
  /\ UNCHANGED <<pp_ref, page_free_list, held, pgdir, freeing, loop, panicked>>
  /\ NoFlush

(* env_run, and load_icode before it fills the new address space.          *)
switch(s) ==
  /\ Running /\ pgdir[s] # NULL
  /\ UNCHANGED vars /\ lcr3(pgdir[s])

(* load_icode when it has filled it.                                       *)
switch_back == Running /\ UNCHANGED vars /\ lcr3(NULL)

(* Mutant: the environment's own directory stays in force.                 *)
free_in_place(s) == env_free(s) /\ NoFlush
(* curenv's directory is not in force while it is taken apart.             *)
free(s) ==
  /\ env_free(s)
  /\ IF pgdir[s] = cr3 THEN lcr3(NULL) ELSE NoFlush

free_step ==
  \/ env_free_page /\ IF Lookup(freeing, <<pdeno, pteno>>).pa # NULL
                      THEN tlb_invalidate(<<pdeno, pteno>>) ELSE NoFlush
  \/ (env_free_skip \/ env_free_table \/ env_free_pgdir) /\ NoFlush

TlbNext ==
  \/ (\E zero \in BOOLEAN : page_alloc(zero)) /\ NoFlush
  \/ (\E p \in Page : page_free(p)) /\ NoFlush
  \/ \E s \in Space, p \in Page, v \in VPage, perm \in Perm : insert(s, p, v, perm)
  \/ \E s \in Space, v \in VPage : remove(s, v)
  \/ \E v \in VPage, c \in Image : write(v, c)
  \/ (\E s \in Space : env_setup_vm(s)) /\ NoFlush
  \/ \E s \in Space : free(s) \/ switch(s)
  \/ switch_back
  \/ free_step

TlbSpec == TlbInit /\ [][TlbNext]_<<vars, processor>>

----------------------------------------------------------------------------
(* The processor translates every address as the page tables of the        *)
(* address space in force do now: no translation outlives its mapping, its *)
(* table or its directory, and none reaches a page that has another owner. *)
(* (page_remove, tlb_invalidate, env_free's lcr3)                          *)
TlbExact ==
  /\ cr3 = NULL => \A v \in VPage : tlb[v] = Zero
  /\ cr3 # NULL => \E s \in Space : /\ cr3 = pgdir[s]
                                    /\ \A v \in VPage : tlb[v] = Lookup(s, v)
============================================================================
