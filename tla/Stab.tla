-------------------------------- MODULE Stab --------------------------------
(***************************************************************************)
(* stab_binsearch of kern/kdebug.c: the search, in a symbol table whose    *)
(* entries of one type are sorted by address, for the entry of that type   *)
(* that contains an address.  One action is one round of the outer loop.   *)
(* Callers start a search with Search and take over when pc = "found".     *)
(***************************************************************************)
EXTENDS Integers, FiniteSets

CONSTANT Tables        \* the symbol tables: functions from 0 .. n to entries
                       \* [type, value]; value is n_value

(* The first entry is the header, of a type that is never sought.          *)
ASSUME StabAssumption ==
  \A t \in Tables :
    /\ IsFiniteSet(DOMAIN t) /\ DOMAIN t = 0 .. Cardinality(DOMAIN t) - 1
    /\ 0 \in DOMAIN t /\ t[0].type = "UNDF"
    /\ \A i \in DOMAIN t : t[i].value \in Nat

VARIABLES stabs,         \* the table
          type, addr,    \* what is sought; the code increments addr
          region_left, region_right,
          l, r,
          any_matches,
          sought, first, last,  \* auxiliary: addr and the region at the call
          pc

svars == <<stabs, type, addr, region_left, region_right, l, r, any_matches,
           sought, first, last>>
args == <<stabs, type, sought, first, last>>

Empty == [i \in {0} |-> [type |-> "UNDF", value |-> 0]]
Match(i) == stabs[i].type = type

\* The locals outside of a search: no value of an earlier search is ever read.
Idle ==
  /\ stabs = Empty /\ type = "UNDF" /\ addr = 0 /\ sought = 0 /\ any_matches = FALSE
  /\ first = 0 /\ last = 0 /\ region_left = 0 /\ region_right = 0 /\ l = 0 /\ r = 0

Start(left, right, t, a) ==
  /\ type' = t /\ addr' = a /\ sought' = a
  /\ first' = left /\ last' = right
  /\ region_left' = left /\ region_right' = right
  /\ l' = left /\ r' = right
  /\ any_matches' = FALSE

\* A call of stab_binsearch(stabs, &left, &right, t, a), and the locals after it.
Search(left, right, t, a) == Start(left, right, t, a) /\ pc' = "search"
Forget == Start(0, 0, "UNDF", 0)

----------------------------------------------------------------------------
true_m == (l + r) \div 2

(* Where the inner loop stops: at the last entry of the type in l..true_m, *)
(* or at l - 1.                                                            *)
m == CHOOSE i \in l - 1 .. true_m :
       /\ i >= l => Match(i)
       /\ \A j \in i + 1 .. true_m : ~ Match(j)

Searching == pc = "search" /\ l <= r

(* The entries after true_m come next.                                     *)
Beyond == true_m + 1

no_match ==
  /\ Searching /\ m < l
  /\ l' = Beyond
  /\ UNCHANGED <<args, addr, region_left, region_right, r, any_matches, pc>>

below ==
  /\ Searching /\ m >= l /\ stabs[m].value < addr
  /\ any_matches' = TRUE
  /\ region_left' = m
  /\ l' = Beyond
  /\ UNCHANGED <<args, addr, region_right, r, pc>>

(* Mutant: the entry itself stays in the region.                           *)
above_closed ==
  /\ Searching /\ m >= l /\ stabs[m].value > addr
  /\ any_matches' = TRUE
  /\ region_right' = m
  /\ r' = m - 1
  /\ UNCHANGED <<args, addr, region_left, l, pc>>

above ==
  /\ Searching /\ m >= l /\ stabs[m].value > addr
  /\ any_matches' = TRUE
  /\ region_right' = m - 1
  /\ r' = m - 1
  /\ UNCHANGED <<args, addr, region_left, l, pc>>

(* Mutant: the address stays the same.                                     *)
exact_again ==
  /\ Searching /\ m >= l /\ stabs[m].value = addr
  /\ any_matches' = TRUE
  /\ region_left' = m
  /\ l' = m
  /\ UNCHANGED <<args, addr, region_right, r, pc>>

exact ==
  /\ Searching /\ m >= l /\ stabs[m].value = addr
  /\ any_matches' = TRUE
  /\ region_left' = m
  /\ l' = m
  /\ addr' = addr + 1
  /\ UNCHANGED <<args, region_right, r, pc>>

(* The last entry of the type in the region that is left, if there is one. *)
Rightmost ==
  CHOOSE i \in region_left .. region_right :
    /\ i > region_left => Match(i)
    /\ \A j \in i + 1 .. region_right : ~ Match(j)

finish ==
  /\ pc = "search" /\ l > r
  /\ pc' = "found"
  /\ IF ~ any_matches
     THEN region_right' = region_left - 1 /\ UNCHANGED region_left
     ELSE /\ region_left' = IF region_right > region_left THEN Rightmost
                            ELSE region_right
          /\ UNCHANGED region_right
  /\ UNCHANGED <<args, addr, l, r, any_matches>>

stab_binsearch == no_match \/ below \/ above \/ exact \/ finish

----------------------------------------------------------------------------
(* The entries of the type in the region that was searched.                *)
Candidates == {i \in first .. last : Match(i)}
Containing == {i \in Candidates : stabs[i].value <= sought}

(* What the search relies on: entries of the type sorted by address, and   *)
(* no two of them one byte apart.                                          *)
Sorted == \A i, j \in Candidates : i < j => stabs[i].value <= stabs[j].value
Spaced == \A i, j \in Candidates : stabs[j].value # stabs[i].value + 1

(* The bracket the comment promises: region_left is the last entry at or   *)
(* below the address, region_right is just before the next one.            *)
Bracket ==
  /\ region_left \in Containing
  /\ \A i \in Containing : i <= region_left
  /\ region_right \in region_left .. last
  /\ \A i \in Candidates : i > region_left => i > region_right
  /\ region_right = last \/ region_right + 1 \in Candidates

(* Every search brackets its address, whatever the region, if entries are  *)
(* at least two bytes apart and one of them is at or below the address;    *)
(* if the region has no entry of the type, the bracket is empty.           *)
FindsTheEntry ==
  pc = "found" /\ Sorted =>
    /\ Spaced /\ Containing # {} => Bracket
    /\ Candidates = {} => region_left > region_right
============================================================================
