--------------------------- MODULE MonitorProofs ---------------------------
(***************************************************************************)
(* The theorems of Monitor, for symbol tables, lines, stacks and kernel    *)
(* page directories of any size.  The binary search of the symbol tables   *)
(* comes first, then the three searches of a lookup, then the commands.    *)
(***************************************************************************)
EXTENDS Monitor, Arithmetic, FiniteSetTheorems, SequenceTheorems

----------------------------------------------------------------------------
(* One search, under way and done.                                         *)
End == Cardinality(DOMAIN stabs) - 1
TableOK == stabs \in Tables \cup {Empty}

Searched == pc \in {"search", "found"} =>
  /\ type # "UNDF" /\ sought \in Int
  /\ first \in 0 .. End /\ last \in Int /\ last <= End

Halving == pc = "search" =>
  /\ l \in Int /\ r \in Int /\ addr \in Int /\ any_matches \in BOOLEAN
  /\ region_left \in first .. l
  /\ region_right = r /\ r <= last /\ (r = last \/ r + 1 \in Candidates)
  /\ any_matches => Candidates # {}
  /\ ~ any_matches => region_left = first /\ r = last /\ \A i \in Candidates : i >= l
  /\ \A i \in Candidates : i <= region_left \/ i >= l

(* Between the entries that are known to lie at or below the address and   *)
(* those that are known to lie above it.  After an exact match the search  *)
(* goes on with the next address, at which no entry lies.                  *)
Closing == pc = "search" /\ Sorted /\ Spaced =>
  /\ \A i \in Candidates : i < l => stabs[i].value <= sought
  /\ \A i \in Candidates : i > r => stabs[i].value > sought
  /\ region_left = first \/ region_left \in Containing
  /\ addr = sought \/ (addr = sought + 1 /\ \E i \in Candidates : stabs[i].value = sought)

Closed == pc = "found" =>
  /\ region_left \in 0 .. End /\ region_right \in Int /\ region_right <= End
  /\ Sorted /\ Spaced /\ Containing = {} => region_left <= first
  /\ FindsTheEntry

StabInv == TableOK /\ Searched /\ Halving /\ Closing /\ Closed

LEMMA TableFacts ==
  ASSUME TableOK
  PROVE  /\ End \in Nat /\ DOMAIN stabs = 0 .. End /\ stabs[0].type = "UNDF"
         /\ \A i \in 0 .. End : stabs[i].value \in Nat
<1>1. CASE stabs \in Tables
  <2>1. IsFiniteSet(DOMAIN stabs) /\ DOMAIN stabs = 0 .. End /\ 0 \in DOMAIN stabs
        /\ stabs[0].type = "UNDF" /\ \A i \in DOMAIN stabs : stabs[i].value \in Nat
    BY <1>1, StabAssumption DEF End
  <2>2. End \in Int
    BY <2>1, FS_CardinalityType DEF End
  <2> QED BY <2>1, <2>2
<1>2. CASE stabs = Empty
  <2>1. DOMAIN stabs = {0}
    BY <1>2 DEF Empty
  <2>2. Cardinality({0}) = 1
    BY FS_Singleton
  <2>3. End = 0
    BY <2>1, <2>2 DEF End
  <2> QED BY <1>2, <2>1, <2>3 DEF Empty
<1> QED BY <1>1, <1>2 DEF TableOK

(* An entry of the type is never the header.                               *)
LEMMA CandidateFacts ==
  ASSUME TableOK, type # "UNDF", first \in Nat, last \in Int, last <= End
  PROVE  /\ Candidates \subseteq first .. last
         /\ \A i \in Candidates : i \in Nat \ {0} /\ stabs[i].value \in Nat
<1>1. End \in Nat /\ stabs[0].type = "UNDF" /\ \A i \in 0 .. End : stabs[i].value \in Nat
  BY TableFacts
<1>2. ASSUME NEW i \in Candidates
      PROVE  i \in first .. last /\ i \in 0 .. End /\ stabs[i].type = type
  BY <1>1 DEF Candidates, Match
<1>3. ASSUME NEW i \in Candidates PROVE i # 0
  BY <1>2, <1>1
<1> QED BY <1>1, <1>2, <1>3

(* The inner loop stops at the last entry of the type, or before l.        *)
LEMMA MIs ==
  ASSUME l \in Int, r \in Int, l <= r
  PROVE  /\ true_m \in l .. r /\ m \in l - 1 .. true_m
         /\ m >= l => Match(m)
         /\ \A j \in m + 1 .. true_m : ~ Match(j)
<1>1. true_m \in l .. r
  BY DEF true_m
<1> DEFINE T == {i \in l .. r : Match(i)}
           P(i) == /\ i >= l => Match(i)
                   /\ \A j \in i + 1 .. true_m : ~ Match(j)
<1>2. \E j \in l - 1 .. true_m : /\ j >= l => j \in T
                                 /\ \A k \in j + 1 .. true_m : k \notin T
  <2>1. l \in Int /\ true_m \in Int /\ l - 1 <= true_m
    BY <1>1
  <2> HIDE DEF T
  <2> QED BY <2>1, LastUpTo
<1>3. PICK j \in l - 1 .. true_m : /\ j >= l => j \in T
                                   /\ \A k \in j + 1 .. true_m : k \notin T
  BY <1>2
<1>4. P(j)
  BY <1>1, <1>3
<1>5. m = CHOOSE i \in l - 1 .. true_m : P(i)
  BY DEF m
<1>6. m \in l - 1 .. true_m /\ P(m)
  BY <1>4, <1>5
<1> QED BY <1>1, <1>6

LEMMA SameSearch ==
  ASSUME UNCHANGED args
  PROVE  /\ Candidates' = Candidates /\ Containing' = Containing
         /\ Sorted' = Sorted /\ Spaced' = Spaced /\ End' = End
         /\ TableOK' = TableOK /\ \A i : Match(i)' = Match(i)
BY DEF args, Candidates, Containing, Sorted, Spaced, End, TableOK, Match

(* What a round that goes on has to keep.                                  *)
Kept ==
  /\ l' \in Int /\ r' \in Int /\ addr' \in Int /\ any_matches' \in BOOLEAN
  /\ region_left' \in first .. l'
  /\ region_right' = r' /\ r' <= last /\ (r' = last \/ r' + 1 \in Candidates)
  /\ any_matches' => Candidates # {}
  /\ ~ any_matches' => region_left' = first /\ r' = last /\ \A i \in Candidates : i >= l'
  /\ \A i \in Candidates : i <= region_left' \/ i >= l'
KeptClosing == Sorted /\ Spaced =>
  /\ \A i \in Candidates : i < l' => stabs[i].value <= sought
  /\ \A i \in Candidates : i > r' => stabs[i].value > sought
  /\ region_left' = first \/ region_left' \in Containing
  /\ addr' = sought \/ (addr' = sought + 1 /\ \E i \in Candidates : stabs[i].value = sought)

LEMMA KeptIs ==
  ASSUME StabInv, UNCHANGED args, pc = "search", pc' = "search", Kept, KeptClosing
  PROVE  StabInv'
<1>1. /\ Candidates' = Candidates /\ Containing' = Containing
      /\ Sorted' = Sorted /\ Spaced' = Spaced /\ End' = End /\ TableOK' = TableOK
  BY SameSearch
<1>2. stabs' = stabs /\ type' = type /\ sought' = sought /\ first' = first /\ last' = last
  BY DEF args
<1>3. TableOK' /\ Searched'
  BY <1>1, <1>2 DEF StabInv, Searched
<1>4. Halving'
  BY <1>1, <1>2 DEF Halving, Kept
<1>5. Closing'
  BY <1>1, <1>2 DEF Closing, KeptClosing
<1>6. Closed'
  BY DEF Closed
<1> QED BY <1>3, <1>4, <1>5, <1>6 DEF StabInv

(* What is known when a round of the outer loop begins.                    *)
Round ==
  /\ l \in Int /\ r \in Int /\ addr \in Int /\ sought \in Int /\ l <= r
  /\ first \in Nat /\ last \in Int
  /\ region_left \in first .. l /\ region_right = r /\ r <= last
  /\ true_m \in l .. r /\ m \in l - 1 .. true_m
  /\ \A i \in Candidates : i <= m \/ i > true_m
  /\ m >= l => m \in Candidates
  /\ \A i \in Candidates : i \in first .. last /\ stabs[i].value \in Nat

LEMMA RoundFacts ==
  ASSUME StabInv, Searching
  PROVE  Round
<1>1. /\ l \in Int /\ r \in Int /\ addr \in Int /\ sought \in Int /\ l <= r
      /\ first \in Nat /\ last \in Int /\ last <= End /\ type # "UNDF" /\ TableOK
      /\ region_left \in first .. l /\ region_right = r /\ r <= last
  BY DEF StabInv, Searched, Halving, Searching
<1>2. Candidates \subseteq first .. last
      /\ \A i \in Candidates : i \in Nat \ {0} /\ stabs[i].value \in Nat
  BY <1>1, CandidateFacts
<1>3. /\ true_m \in l .. r /\ m \in l - 1 .. true_m
      /\ m >= l => Match(m)
      /\ \A j \in m + 1 .. true_m : ~ Match(j)
  BY <1>1, MIs
<1>4. ASSUME NEW i \in Candidates PROVE i <= m \/ i > true_m
  <2>1. Match(i) /\ i \in Int
    BY <1>2 DEF Candidates
  <2> QED BY <2>1, <1>1, <1>3
<1>5. m >= l => m \in Candidates
  BY <1>1, <1>3 DEF Candidates
<1> QED BY <1>1, <1>2, <1>3, <1>4, <1>5 DEF Round

LEMMA NoMatchStep ==
  ASSUME StabInv, no_match
  PROVE  StabInv'
<1>1. Round
  BY RoundFacts DEF no_match
<1>2. /\ m < l /\ l' = true_m + 1 /\ UNCHANGED args /\ pc = "search" /\ pc' = "search"
      /\ UNCHANGED <<addr, region_left, region_right, r, any_matches>>
  BY DEF no_match, Beyond, Searching
<1>3. \A i \in Candidates : i < l' => i < l
  BY <1>1, <1>2 DEF Round
<1>4. Kept
  BY <1>1, <1>2, <1>3 DEF Kept, Round, StabInv, Halving
<1>5. KeptClosing
  BY <1>1, <1>2, <1>3 DEF KeptClosing, Round, StabInv, Closing
<1> QED BY <1>2, <1>4, <1>5, KeptIs

LEMMA BelowStep ==
  ASSUME StabInv, below
  PROVE  StabInv'
<1>1. Round
  BY RoundFacts DEF below
<1>2. /\ m >= l /\ stabs[m].value < addr /\ any_matches' = TRUE /\ region_left' = m
      /\ l' = true_m + 1 /\ UNCHANGED args /\ pc = "search" /\ pc' = "search"
      /\ UNCHANGED <<addr, region_right, r>>
  BY DEF below, Beyond, Searching
<1>3. m \in Candidates /\ \A i \in Candidates : i < l' => i <= m
  BY <1>1, <1>2 DEF Round
<1>4. Kept
  BY <1>1, <1>2, <1>3 DEF Kept, Round, StabInv, Halving
<1>5. ASSUME Sorted, Spaced PROVE stabs[m].value <= sought
  <2>1. addr = sought \/ (addr = sought + 1 /\ \E i \in Candidates : stabs[i].value = sought)
    BY <1>2, <1>5 DEF StabInv, Closing
  <2> QED BY <2>1, <1>1, <1>2, <1>3 DEF Round
<1>6. ASSUME Sorted, Spaced, NEW i \in Candidates, i < l'
      PROVE  stabs[i].value <= sought
  <2>1. i < m \/ i = m
    BY <1>1, <1>3, <1>6 DEF Round
  <2>2. stabs[i].value <= stabs[m].value
    BY <2>1, <1>1, <1>3, <1>6 DEF Sorted, Round
  <2> QED BY <2>2, <1>1, <1>3, <1>5, <1>6 DEF Round
<1>7. Sorted /\ Spaced => m \in Containing
  BY <1>3, <1>5 DEF Containing
<1>8. KeptClosing
  BY <1>2, <1>6, <1>7 DEF KeptClosing, StabInv, Closing
<1> QED BY <1>2, <1>4, <1>8, KeptIs

LEMMA AboveStep ==
  ASSUME StabInv, above
  PROVE  StabInv'
<1>1. Round
  BY RoundFacts DEF above
<1>2. /\ m >= l /\ stabs[m].value > addr /\ any_matches' = TRUE /\ region_right' = m - 1
      /\ r' = m - 1 /\ UNCHANGED args /\ pc = "search" /\ pc' = "search"
      /\ UNCHANGED <<addr, region_left, l>>
  BY DEF above, Searching
<1>3. m \in Candidates
  BY <1>1, <1>2 DEF Round
<1>4. Kept
  BY <1>1, <1>2, <1>3 DEF Kept, Round, StabInv, Halving
<1>5. ASSUME Sorted, Spaced PROVE stabs[m].value > sought
  <2>1. addr = sought \/ (addr = sought + 1 /\ \E i \in Candidates : stabs[i].value = sought)
    BY <1>2, <1>5 DEF StabInv, Closing
  <2> QED BY <2>1, <1>1, <1>2, <1>3 DEF Round
<1>6. ASSUME Sorted, Spaced, NEW i \in Candidates, i > r'
      PROVE  stabs[i].value > sought
  <2>1. i > m \/ i = m
    BY <1>1, <1>2, <1>3, <1>6 DEF Round
  <2>2. stabs[i].value >= stabs[m].value
    BY <2>1, <1>1, <1>3, <1>6 DEF Sorted, Round
  <2> QED BY <2>2, <1>1, <1>3, <1>5, <1>6 DEF Round
<1>7. KeptClosing
  BY <1>2, <1>6 DEF KeptClosing, StabInv, Closing
<1> QED BY <1>2, <1>4, <1>7, KeptIs

LEMMA ExactStep ==
  ASSUME StabInv, exact
  PROVE  StabInv'
<1>1. Round
  BY RoundFacts DEF exact
<1>2. /\ m >= l /\ stabs[m].value = addr /\ any_matches' = TRUE /\ region_left' = m
      /\ l' = m /\ addr' = addr + 1 /\ UNCHANGED args /\ pc = "search" /\ pc' = "search"
      /\ UNCHANGED <<region_right, r>>
  BY DEF exact, Searching
<1>3. m \in Candidates
  BY <1>1, <1>2 DEF Round
<1>4. Kept
  BY <1>1, <1>2, <1>3 DEF Kept, Round, StabInv, Halving
<1>5. ASSUME Sorted, Spaced PROVE addr = sought
  <2>1. addr = sought \/ (addr = sought + 1 /\ \E i \in Candidates : stabs[i].value = sought)
    BY <1>2, <1>5 DEF StabInv, Closing
  <2> QED BY <2>1, <1>2, <1>3, <1>5 DEF Spaced
<1>6. ASSUME Sorted, Spaced, NEW i \in Candidates, i < l'
      PROVE  stabs[i].value <= sought
  <2>1. stabs[i].value <= stabs[m].value
    BY <1>2, <1>3, <1>6 DEF Sorted
  <2> QED BY <2>1, <1>2, <1>5, <1>6
<1>7. Sorted /\ Spaced => m \in Containing
  BY <1>1, <1>2, <1>3, <1>5 DEF Containing, Round
<1>8. KeptClosing
  BY <1>1, <1>2, <1>3, <1>5, <1>6, <1>7 DEF KeptClosing, StabInv, Closing, Round
<1> QED BY <1>2, <1>4, <1>8, KeptIs

(* The last loop finds the last entry of the type that is left, if any.    *)
LEMMA RightmostIs ==
  ASSUME region_left \in Int, region_right \in Int, region_left < region_right
  PROVE  /\ Rightmost \in region_left .. region_right
         /\ Rightmost > region_left => Match(Rightmost)
         /\ \A j \in Rightmost + 1 .. region_right : ~ Match(j)
<1> DEFINE T == {i \in region_left .. region_right : Match(i)}
           a == region_left + 1
           P(i) == /\ i > region_left => Match(i)
                   /\ \A j \in i + 1 .. region_right : ~ Match(j)
<1>1. \E j \in a - 1 .. region_right : /\ j >= a => j \in T
                                       /\ \A k \in j + 1 .. region_right : k \notin T
  <2>1. a \in Int /\ region_right \in Int /\ a - 1 <= region_right
    OBVIOUS
  <2> HIDE DEF T, a
  <2> QED BY <2>1, LastUpTo
<1>2. PICK j \in a - 1 .. region_right : /\ j >= a => j \in T
                                         /\ \A k \in j + 1 .. region_right : k \notin T
  BY <1>1
<1>3. j \in region_left .. region_right /\ P(j)
  BY <1>2
<1>4. Rightmost = CHOOSE i \in region_left .. region_right : P(i)
  BY DEF Rightmost
<1>5. Rightmost \in region_left .. region_right /\ P(Rightmost)
  BY <1>3, <1>4
<1> QED BY <1>5

(* Where the search ends: the address lies after every entry up to r.      *)
Over ==
  /\ l \in Int /\ r \in Int /\ sought \in Int /\ l > r
  /\ first \in Nat /\ last \in Int
  /\ region_left \in first .. l /\ region_right = r /\ r <= last
  /\ r = last \/ r + 1 \in Candidates
  /\ any_matches \in BOOLEAN /\ (any_matches => Candidates # {})
  /\ ~ any_matches => region_left = first /\ r = last /\ Candidates = {}
  /\ \A i \in Candidates : i <= region_left \/ i > r
  /\ \A i \in Candidates : i \in first .. last /\ i \in Nat \ {0} /\ stabs[i].value \in Nat
OverSorted == Sorted /\ Spaced =>
  /\ region_left = first \/ region_left \in Containing
  /\ Containing = {i \in Candidates : i <= r}

LEMMA OverFacts ==
  ASSUME StabInv, pc = "search", l > r
  PROVE  Over /\ OverSorted
<1>1. /\ l \in Int /\ r \in Int /\ sought \in Int
      /\ first \in Nat /\ last \in Int /\ last <= End /\ type # "UNDF" /\ TableOK
      /\ region_left \in first .. l /\ region_right = r /\ r <= last
  BY DEF StabInv, Searched, Halving
<1>2. Candidates \subseteq first .. last
      /\ \A i \in Candidates : i \in Nat \ {0} /\ stabs[i].value \in Nat
  BY <1>1, CandidateFacts
<1>3. \A i \in Candidates : i <= region_left \/ i > r
  BY <1>1, <1>2 DEF StabInv, Halving
<1>4. ~ any_matches => region_left = first /\ r = last /\ Candidates = {}
  <2> SUFFICES ASSUME ~ any_matches PROVE region_left = first /\ r = last /\ Candidates = {}
    OBVIOUS
  <2>1. region_left = first /\ r = last /\ \A i \in Candidates : i >= l
    BY DEF StabInv, Halving
  <2> QED BY <2>1, <1>1, <1>2
<1>5. Over
  BY <1>1, <1>2, <1>3, <1>4 DEF StabInv, Halving, Over
<1>6. ASSUME Sorted, Spaced PROVE Containing = {i \in Candidates : i <= r}
  <2>1. ASSUME NEW i \in Candidates PROVE stabs[i].value <= sought <=> i <= r
    <3>1. i < l => stabs[i].value <= sought
      BY <1>6, <2>1 DEF StabInv, Closing
    <3>2. i > r => stabs[i].value > sought
      BY <1>6, <2>1 DEF StabInv, Closing
    <3> QED BY <3>1, <3>2, <2>1, <1>1, <1>2
  <2> QED BY <2>1 DEF Containing
<1>7. OverSorted
  BY <1>6 DEF StabInv, Closing, OverSorted
<1> QED BY <1>5, <1>7

(* Where the search puts the left end of the region.                       *)
LEMMA LeftEnd ==
  ASSUME Over, OverSorted, finish
  PROVE  /\ region_left' \in Nat
         /\ Candidates = {} => region_left' = first /\ region_right' = first - 1
         /\ Candidates # {} => region_right' = r /\ region_left' <= r
         /\ Sorted /\ Spaced /\ Containing = {} => region_left' <= first
         /\ Sorted /\ Spaced /\ Containing # {} =>
              /\ region_left' \in Containing
              /\ \A i \in Containing : i <= region_left'
<1>1. CASE ~ any_matches
  <2>1. region_left' = region_left /\ region_right' = region_left - 1
    BY <1>1 DEF finish
  <2>2. region_left = first /\ r = last /\ Candidates = {} /\ first \in Nat
        /\ last \in Int /\ r \in Int /\ region_left <= l /\ l \in Int
    BY <1>1 DEF Over
  <2>3. Containing = {}
    BY <2>2 DEF Containing
  <2> QED BY <2>1, <2>2, <2>3
<1>2. CASE any_matches /\ region_right > region_left
  <2>1. region_left' = Rightmost /\ region_right' = r
    BY <1>2 DEF finish, Over
  <2>2. region_left \in Int /\ r \in Int /\ region_right = r
    BY DEF Over
  <2>3. /\ Rightmost \in region_left .. r
        /\ Rightmost > region_left => Match(Rightmost)
        /\ \A j \in Rightmost + 1 .. r : ~ Match(j)
    BY <1>2, <2>2, RightmostIs
  <2>4. Rightmost > region_left => Rightmost \in Candidates
    BY <2>3 DEF Candidates, Over
  <2>5. \A i \in Candidates : i <= Rightmost \/ i > r
    BY <2>3 DEF Candidates, Over
  <2>6. Rightmost \in Nat /\ Rightmost <= r
    BY <2>3 DEF Over
  <2>7. Rightmost > region_left => Rightmost <= region_left
    BY <2>4, <2>3 DEF Over
  <2>8. ASSUME Sorted, Spaced PROVE Containing = {i \in Candidates : i <= r}
                                    /\ (region_left = first \/ region_left \in Containing)
    BY <2>8 DEF OverSorted
  <2>9. ASSUME Sorted, Spaced, Containing = {} PROVE Rightmost <= first
    BY <2>8, <2>9, <2>7, <2>3 DEF Over
  <2>10. ASSUME Sorted, Spaced, Containing # {}
         PROVE  Rightmost \in Containing /\ \A i \in Containing : i <= Rightmost
    <3>1. PICK i \in Containing : TRUE
      BY <2>10
    <3>2. i \in Candidates /\ i <= r /\ i <= region_left
      BY <2>8, <2>10, <3>1, <2>5, <2>7 DEF Over
    <3>3. Rightmost = region_left
      BY <2>7, <2>3 DEF Over
    <3>4. region_left \in Containing
      BY <2>8, <2>10, <3>1, <3>2 DEF Over
    <3>5. \A k \in Containing : k <= Rightmost
      BY <2>8, <2>10, <2>5 DEF Over
    <3> QED BY <3>3, <3>4, <3>5
  <2> QED BY <1>2, <2>1, <2>3, <2>6, <2>9, <2>10 DEF Over
<1>3. CASE any_matches /\ ~ (region_right > region_left)
  <2>1. region_left' = r /\ region_right' = r
    BY <1>3 DEF finish, Over
  <2>2. r \in Nat /\ r <= last /\ r <= region_left
    BY <1>3 DEF Over
  <2>3. ASSUME Sorted, Spaced PROVE Containing = {i \in Candidates : i <= r}
                                    /\ (region_left = first \/ region_left \in Containing)
    BY <2>3 DEF OverSorted
  <2>4. ASSUME Sorted, Spaced, Containing = {} PROVE r <= first
    BY <2>2, <2>3, <2>4
  <2>5. ASSUME Sorted, Spaced, Containing # {}
        PROVE  r \in Containing /\ \A i \in Containing : i <= r
    <3>1. PICK i \in Containing : i \in Candidates /\ i <= r
      BY <2>3, <2>5
    <3>2. region_left \in Containing
      BY <2>2, <2>3, <2>5, <3>1 DEF Over
    <3>3. region_left = r
      BY <2>2, <2>3, <2>5, <3>2 DEF Over
    <3> QED BY <2>3, <2>5, <3>2, <3>3
  <2> QED BY <1>3, <2>1, <2>2, <2>4, <2>5 DEF Over
<1> QED BY <1>1, <1>2, <1>3 DEF Over

LEMMA FinishStep ==
  ASSUME StabInv, finish
  PROVE  StabInv'
<1>1. pc = "search" /\ l > r /\ pc' = "found" /\ UNCHANGED args /\ UNCHANGED r
  BY DEF finish
<1>2. Over /\ OverSorted
  BY <1>1, OverFacts
<1>3. /\ region_left' \in Nat
      /\ Candidates = {} => region_left' = first /\ region_right' = first - 1
      /\ Candidates # {} => region_right' = r /\ region_left' <= r
      /\ Sorted /\ Spaced /\ Containing = {} => region_left' <= first
      /\ Sorted /\ Spaced /\ Containing # {} =>
           /\ region_left' \in Containing
           /\ \A i \in Containing : i <= region_left'
  BY <1>2, LeftEnd
<1>4. /\ Candidates' = Candidates /\ Containing' = Containing
      /\ Sorted' = Sorted /\ Spaced' = Spaced /\ End' = End /\ TableOK' = TableOK
  BY <1>1, SameSearch
<1>5. stabs' = stabs /\ type' = type /\ sought' = sought /\ first' = first /\ last' = last
  BY <1>1 DEF args
<1>6. TableOK' /\ Searched'
  BY <1>1, <1>4, <1>5 DEF StabInv, Searched
<1>7. Halving' /\ Closing'
  BY <1>1 DEF Halving, Closing
<1>8. region_left' \in 0 .. End /\ region_right' \in Int /\ region_right' <= End
  <2>1. End \in Nat /\ first \in 0 .. End /\ last \in Int /\ last <= End
    BY <1>1, TableFacts DEF StabInv, Searched
  <2>2. CASE Candidates = {}
    BY <2>1, <2>2, <1>3
  <2>3. CASE Candidates # {}
    BY <2>1, <2>3, <1>2, <1>3 DEF Over
  <2> QED BY <2>2, <2>3
<1>9. ASSUME Sorted, Spaced, Containing # {}
      PROVE  /\ region_left' \in Containing
             /\ \A i \in Containing : i <= region_left'
             /\ region_right' \in region_left' .. last
             /\ \A i \in Candidates : i > region_left' => i > region_right'
             /\ region_right' = last \/ region_right' + 1 \in Candidates
  <2>1. Containing = {i \in Candidates : i <= r}
    BY <1>2, <1>9 DEF OverSorted
  <2>2. Candidates # {}
    BY <1>9, <2>1
  <2>3. region_right' = r /\ region_left' <= r
    BY <2>2, <1>3
  <2>4. \A i \in Candidates : i > region_left' => i > r
    BY <1>2, <1>3, <1>9, <2>1 DEF Over
  <2> QED BY <1>2, <1>3, <1>9, <2>3, <2>4 DEF Over
<1>10. FindsTheEntry'
  <2>1. Sorted /\ Spaced /\ Containing # {} => Bracket'
    BY <1>4, <1>5, <1>9 DEF Bracket
  <2>2. Candidates = {} => region_left' > region_right'
    BY <1>2, <1>3 DEF Over
  <2> QED BY <2>1, <2>2, <1>4 DEF FindsTheEntry
<1>11. Closed'
  BY <1>3, <1>4, <1>5, <1>8, <1>10 DEF Closed
<1> QED BY <1>6, <1>7, <1>11 DEF StabInv

LEMMA EndNext ==
  (TableOK => End \in Nat)'
<1>1. TableOK => End \in Nat
  BY TableFacts
<1> QED BY <1>1, PTL

(* A search begins.                                                        *)
LEMMA SearchStarts ==
  ASSUME NEW left, NEW right, NEW t, NEW a, Search(left, right, t, a), TableOK',
         t # "UNDF", left \in 0 .. End', right \in Int, right <= End', a \in Int
  PROVE  StabInv'
<1>1. /\ type' = t /\ addr' = a /\ sought' = a /\ first' = left /\ last' = right
      /\ region_left' = left /\ region_right' = right /\ l' = left /\ r' = right
      /\ any_matches' = FALSE /\ pc' = "search"
  BY DEF Search, Start
<1>2. Searched'
  BY <1>1 DEF Searched
<1>3. \A i \in Candidates' : i >= left /\ i <= right /\ i \in Int
  <2>1. End' \in Nat
    BY EndNext
  <2> QED BY <1>1, <2>1 DEF Candidates
<1>4. Halving'
  <2>1. left \in Int
    BY EndNext
  <2>2. l' \in Int /\ r' \in Int /\ addr' \in Int /\ region_left' \in first' .. l'
        /\ region_right' = r' /\ r' <= last' /\ r' = last' /\ region_left' = first'
        /\ \A i \in Candidates' : i >= l'
    BY <2>1, <1>1, <1>3
  <2>3. any_matches' \in BOOLEAN /\ ~ any_matches'
    BY <1>1
  <2> QED BY <2>2, <2>3 DEF Halving
<1>5. Closing'
  BY <1>1, <1>3 DEF Closing
<1>6. Closed'
  BY <1>1 DEF Closed
<1> QED BY <1>2, <1>4, <1>5, <1>6 DEF StabInv

LEMMA NoSearch ==
  ASSUME TableOK', pc' \notin {"search", "found"}
  PROVE  StabInv'
BY DEF StabInv, Searched, Halving, Closing, Closed

LEMMA StabStep ==
  ASSUME StabInv, stab_binsearch
  PROVE  StabInv' /\ pc' \in {"search", "found"} /\ UNCHANGED args
<1>1. StabInv'
  BY NoMatchStep, BelowStep, AboveStep, ExactStep, FinishStep DEF stab_binsearch
<1>2. pc' \in {"search", "found"} /\ UNCHANGED args
  BY DEF stab_binsearch, no_match, below, above, exact, finish, Searching
<1> QED BY <1>1, <1>2

----------------------------------------------------------------------------
(* The three searches of a lookup.                                         *)
Files == Entries("SO", 0, End)
Funs == Entries("FUN", lfile, rfile)

FileRight == Regular(Files) =>
  /\ UpTo(Files, eip) # {} /\ lfile = LastOf(UpTo(Files, eip))
  /\ rfile = PartEnd(Files, lfile, End)

InFile(i) ==
  /\ lfun = i /\ rfun = PartEnd(Funs, i, rfile)
  /\ first = i /\ last = rfun /\ sought = eip - stabs[i].value
  /\ info = [Unknown(eip) EXCEPT !.fn = i, !.addr = stabs[i].value]
InNone ==
  /\ lfun > rfun /\ first = lfile /\ last = rfile /\ sought = eip
  /\ info = Unknown(eip)
FunRight == Regular(Files) /\ Regular(Funs) /\ (Funs # {} => UpTo(Funs, eip) # {}) =>
  IF Funs = {} THEN InNone ELSE InFile(LastOf(UpTo(Funs, eip)))

FileStage == stage = "file" =>
  type = "SO" /\ first = 0 /\ last = End /\ sought = eip /\ info = Unknown(eip)
FunStage == stage = "fun" =>
  /\ type = "FUN" /\ first = lfile /\ last = rfile /\ sought = eip /\ info = Unknown(eip)
  /\ FileRight
LineStage == stage = "line" =>
  /\ type = "SLINE" /\ lfun \in Int /\ rfun \in Int
  /\ FileRight /\ FunRight

LookupInv == pc \in {"search", "found"} =>
  /\ stabs \notin Unterminated
  /\ stage \in {"file", "fun", "line"} /\ eip \in Nat
  /\ stage # "file" => lfile \in 0 .. End /\ rfile \in Int /\ rfile <= End
  /\ FileStage /\ FunStage /\ LineStage

(* The greatest element of a set and the end of a part are what they say.  *)
LEMMA LastOfIs ==
  ASSUME NEW S, NEW i \in S, S \subseteq Int, \A j \in S : j <= i
  PROVE  LastOf(S) = i
<1> DEFINE Is(k) == \A j \in S : j <= k
<1>1. LastOf(S) = CHOOSE k \in S : Is(k)
  BY DEF LastOf
<1>2. i \in S /\ Is(i)
  OBVIOUS
<1>3. LastOf(S) \in S /\ Is(LastOf(S))
  BY <1>1, <1>2
<1>4. LastOf(S) <= i /\ i <= LastOf(S) /\ i \in Int /\ LastOf(S) \in Int
  BY <1>3
<1> QED BY <1>4

LEMMA PartEndIs ==
  ASSUME NEW S, S \subseteq Int, NEW i \in Int, NEW end \in Int, NEW e \in Int,
         i <= e, e <= end, \A j \in S : j <= end,
         \A j \in S : j > i => j > e,
         e = end \/ e + 1 \in S
  PROVE  PartEnd(S, i, end) = e
<1> DEFINE later == {j \in S : j > i}
           next == CHOOSE j \in later : \A k \in later : j <= k
<1>1. PartEnd(S, i, end) = IF later = {} THEN end ELSE next - 1
  BY DEF PartEnd
<1>2. CASE e = end
  <2>1. ASSUME NEW j \in later PROVE FALSE
    <3>1. j \in S /\ j > i /\ j \in Int
      OBVIOUS
    <3> QED BY <3>1, <1>2
  <2>2. later = {}
    BY <2>1
  <2> QED BY <1>1, <1>2, <2>2
<1>3. CASE e # end
  <2>1. e + 1 \in later /\ later # {} /\ later \subseteq Int /\ \A k \in later : e + 1 <= k
    <3>1. e + 1 \in S /\ e + 1 > i
      BY <1>3
    <3>2. \A k \in later : k \in Int /\ k \in S /\ k > i /\ k > e
      OBVIOUS
    <3>3. e + 1 \in later
      BY <3>1
    <3> HIDE DEF later
    <3> QED BY <3>2, <3>3
  <2>2. next \in later /\ \A k \in later : next <= k
    BY <2>1
  <2>3. next \in Int /\ next <= e + 1 /\ e + 1 <= next
    BY <2>1, <2>2
  <2>4. PartEnd(S, i, end) = next - 1
    BY <1>1, <2>1
  <2> HIDE DEF next
  <2> QED BY <2>3, <2>4
<1> QED BY <1>2, <1>3

(* A search that is over, in terms of the entries that it was for.         *)
LEMMA SearchResult ==
  ASSUME StabInv, pc = "found", Regular(Candidates)
  PROVE  /\ Candidates = Entries(type, first, last)
         /\ Containing = UpTo(Candidates, sought)
         /\ Containing = {} => region_left <= first
         /\ Candidates = {} => region_left > region_right
         /\ Containing # {} =>
              /\ region_left = LastOf(Containing) /\ region_left \in Candidates
              /\ region_right = PartEnd(Candidates, region_left, last)
              /\ region_left <= region_right /\ region_left <= last
              /\ region_left \in first .. last
<1>1. /\ TableOK /\ type # "UNDF" /\ first \in Nat /\ last \in Int /\ last <= End
      /\ sought \in Int
  <2>1. End \in Nat
    BY TableFacts DEF StabInv
  <2> QED BY <2>1 DEF StabInv, Searched
<1>2. Candidates \subseteq first .. last
      /\ \A i \in Candidates : i \in Nat \ {0} /\ stabs[i].value \in Nat
  BY <1>1, CandidateFacts
<1>3. Sorted
  BY <1>2 DEF Sorted, Regular
<1>4. Spaced
  <2> SUFFICES ASSUME NEW i \in Candidates, NEW j \in Candidates
               PROVE  stabs[j].value # stabs[i].value + 1
    BY DEF Spaced
  <2>1. i \in Int /\ j \in Int /\ stabs[i].value \in Int /\ stabs[j].value \in Int
    BY <1>2
  <2>2. i < j => stabs[i].value = stabs[j].value \/ stabs[i].value + 1 < stabs[j].value
    BY DEF Regular
  <2>3. j < i => stabs[j].value = stabs[i].value \/ stabs[j].value + 1 < stabs[i].value
    BY DEF Regular
  <2>4. i < j \/ j < i \/ i = j
    BY <2>1
  <2> QED BY <2>1, <2>2, <2>3, <2>4
<1>5. Candidates = Entries(type, first, last) /\ Containing = UpTo(Candidates, sought)
  BY DEF Candidates, Entries, Match, Containing, UpTo
<1>6. /\ Containing = {} => region_left <= first
      /\ Candidates = {} => region_left > region_right
      /\ Containing # {} => Bracket
  BY <1>3, <1>4 DEF StabInv, Closed, FindsTheEntry
<1>7. ASSUME Containing # {}
      PROVE  /\ region_left = LastOf(Containing) /\ region_left \in Candidates
             /\ region_right = PartEnd(Candidates, region_left, last)
             /\ region_left <= region_right /\ region_left <= last
             /\ region_left \in first .. last
  <2>1. Bracket
    BY <1>6, <1>7
  <2>2. region_left \in Candidates /\ Containing \subseteq Int
    BY <2>1, <1>2 DEF Bracket, Containing
  <2>3. region_left = LastOf(Containing)
    BY <2>1, <2>2, LastOfIs DEF Bracket
  <2>4. /\ Candidates \subseteq Int /\ region_left \in Int /\ region_right \in Int
        /\ region_left <= region_right /\ region_right <= last
        /\ \A j \in Candidates : j <= last
        /\ \A j \in Candidates : j > region_left => j > region_right
        /\ region_right = last \/ region_right + 1 \in Candidates
    BY <1>1, <1>2, <2>1, <2>2 DEF Bracket
  <2>5. region_right = PartEnd(Candidates, region_left, last)
    BY <1>1, <2>4, PartEndIs
  <2> QED BY <1>1, <1>2, <2>2, <2>3, <2>4, <2>5
<1> QED BY <1>5, <1>6, <1>7

LEMMA PartEndFacts ==
  ASSUME NEW S, NEW a \in Int, NEW end \in Int, S \subseteq a .. end, NEW i \in Int
  PROVE  /\ PartEnd(S, i, end) \in Int /\ PartEnd(S, i, end) <= end
         /\ \A j \in S : j > i => j > PartEnd(S, i, end)
<1> DEFINE later == {j \in S : j > i}
           next == CHOOSE j \in later : \A k \in later : j <= k
<1>1. PartEnd(S, i, end) = IF later = {} THEN end ELSE next - 1
  BY DEF PartEnd
<1>2. CASE later = {}
  <2>1. PartEnd(S, i, end) = end
    BY <1>1, <1>2
  <2> QED BY <1>2, <2>1
<1>3. CASE later # {}
  <2>1. later \subseteq a .. end
    OBVIOUS
  <2>2. \E j \in later : \A k \in later : j <= k
    <3> HIDE DEF later
    <3> QED BY <1>3, <2>1, Least
  <2>3. next \in later /\ \A k \in later : next <= k
    BY <2>2
  <2>4. next \in Int /\ next <= end /\ \A j \in S : j > i => j >= next /\ j \in Int
    BY <2>1, <2>3
  <2>5. PartEnd(S, i, end) = next - 1
    BY <1>1, <1>3
  <2> HIDE DEF next
  <2> QED BY <2>4, <2>5
<1> QED BY <1>2, <1>3

(* What an answer is about, in the words of NamesTheLine.                  *)
File == LastOf(UpTo(Files, eip))
FileEnd == PartEnd(Files, File, End)
FileFuns == Entries("FUN", File, FileEnd)
Fun == LastOf(UpTo(FileFuns, eip))
From == IF FileFuns # {} THEN Fun ELSE File
To == IF FileFuns # {} THEN PartEnd(FileFuns, Fun, FileEnd) ELSE FileEnd
Base == IF FileFuns # {} THEN stabs[Fun].value ELSE 0
Lines == Entries("SLINE", From, To)
Params == Entries("PSYM", From, To)

Assumed ==
  /\ Regular(FileFuns) /\ (FileFuns # {} => UpTo(FileFuns, eip) # {})
  /\ Regular(Lines) /\ UpTo(Lines, eip - Base) # {}
  /\ stabs[File].value # 0
  /\ FileFuns # {} => \A i \in Params : From + 1 .. i \subseteq Params
FileAt(i) == LastOf(Entries("SO", From, i) \cup {File} \cup Entries("SOL", File, i))
Right ==
  /\ info.ret = 0
  /\ info.line = LastOf(UpTo(Lines, eip - Base))
  /\ info.fn = IF FileFuns # {} THEN Fun ELSE -1
  /\ info.addr = IF FileFuns # {} THEN Base ELSE eip
  /\ info.file = FileAt(info.line)
  /\ info.narg = IF FileFuns # {} THEN Cardinality(Params) ELSE 0

Answered ==
  pc = "answer" /\ Regular(Files) =>
    IF stabs \in Unterminated \/ UpTo(Files, eip) = {} THEN info.ret = -1 ELSE Assumed => Right

LEMMA AnswerIs ==
  NamesTheLine <=> Answered
BY DEF Answered, NamesTheLine, Assumed, Right, FileAt, Params, Lines, Base, To, From, Fun, FileFuns,
       FileEnd, File, Files, End

LEMMA AnswerNext ==
  NamesTheLine' <=> Answered'
<1>1. NamesTheLine <=> Answered
  BY AnswerIs
<1> QED BY <1>1, PTL

(* The table and the address of a lookup stay what they are.               *)
LEMMA SameLookup ==
  ASSUME UNCHANGED <<stabs, eip>>
  PROVE  /\ Files' = Files /\ File' = File /\ FileEnd' = FileEnd /\ End' = End
         /\ FileFuns' = FileFuns /\ Fun' = Fun /\ From' = From /\ To' = To /\ Base' = Base
         /\ Lines' = Lines /\ Params' = Params
         /\ Regular(Files)' = Regular(Files) /\ UpTo(Files, eip)' = UpTo(Files, eip)
         /\ Regular(FileFuns)' = Regular(FileFuns)
         /\ UpTo(FileFuns, eip)' = UpTo(FileFuns, eip)
         /\ Assumed' = Assumed /\ TableOK' = TableOK
<1>1. Files' = Files /\ End' = End /\ TableOK' = TableOK
  BY DEF Files, End, Entries, TableOK
<1>2. Regular(Files)' = Regular(Files) /\ UpTo(Files, eip)' = UpTo(Files, eip)
  BY <1>1 DEF Regular, UpTo
<1>3. File' = File
  BY <1>2 DEF File
<1>4. FileEnd' = FileEnd
  BY <1>1, <1>3 DEF FileEnd
<1>5. FileFuns' = FileFuns
  BY <1>3, <1>4 DEF FileFuns, Entries
<1>6. Regular(FileFuns)' = Regular(FileFuns) /\ UpTo(FileFuns, eip)' = UpTo(FileFuns, eip)
  BY <1>5 DEF Regular, UpTo
<1>7. Fun' = Fun
  BY <1>6 DEF Fun
<1>8. From' = From /\ To' = To /\ Base' = Base
  BY <1>3, <1>4, <1>5, <1>7 DEF From, To, Base
<1>9. Lines' = Lines /\ Params' = Params
  BY <1>8 DEF Lines, Params, Entries
<1>10. Regular(Lines)' = Regular(Lines) /\ UpTo(Lines, eip - Base)' = UpTo(Lines, eip - Base)
  BY <1>8, <1>9 DEF Regular, UpTo
<1>11. Assumed' = Assumed
  BY <1>3, <1>5, <1>6, <1>8, <1>9, <1>10 DEF Assumed
<1> QED BY <1>1, <1>2, <1>3, <1>4, <1>5, <1>6, <1>7, <1>8, <1>9, <1>11

LEMMA SameStages ==
  ASSUME UNCHANGED <<stabs, eip, lfile, rfile>>
  PROVE  FileRight' = FileRight /\ Funs' = Funs /\ Regular(Funs)' = Regular(Funs)
         /\ UpTo(Funs, eip)' = UpTo(Funs, eip)
<1>1. /\ Files' = Files /\ End' = End /\ Regular(Files)' = Regular(Files)
      /\ UpTo(Files, eip)' = UpTo(Files, eip)
  BY SameLookup
<1>2. FileRight' = FileRight
  BY <1>1 DEF FileRight
<1>3. Funs' = Funs
  BY DEF Funs, Entries
<1>4. Regular(Funs)' = Regular(Funs) /\ UpTo(Funs, eip)' = UpTo(Funs, eip)
  BY <1>3 DEF Regular, UpTo
<1> QED BY <1>2, <1>3, <1>4

LEMMA SearchStep ==
  ASSUME StabInv, LookupInv, stab_binsearch, UNCHANGED dvars
  PROVE  StabInv' /\ LookupInv' /\ NamesTheLine'
<1>1. StabInv' /\ pc' \in {"search", "found"} /\ UNCHANGED args
  BY StabStep
<1>2. pc \in {"search", "found"}
  BY DEF stab_binsearch, no_match, below, above, exact, finish, Searching
<1>3. /\ stabs' = stabs /\ type' = type /\ sought' = sought /\ first' = first /\ last' = last
      /\ stage' = stage /\ lfile' = lfile /\ rfile' = rfile /\ lfun' = lfun /\ rfun' = rfun
      /\ info' = info /\ eip' = eip
  BY <1>1 DEF args, dvars
<1>4. /\ FileRight' = FileRight /\ Funs' = Funs /\ Regular(Funs)' = Regular(Funs)
      /\ UpTo(Funs, eip)' = UpTo(Funs, eip)
      /\ End' = End /\ Regular(Files)' = Regular(Files)
  BY <1>3, SameStages, SameLookup
<1>5. FunRight' = FunRight
  BY <1>3, <1>4 DEF FunRight, InNone, InFile
<1>6. /\ stage \in {"file", "fun", "line"} /\ eip \in Nat /\ stabs \notin Unterminated
      /\ stage # "file" => lfile \in 0 .. End /\ rfile \in Int /\ rfile <= End
      /\ FileStage /\ FunStage /\ LineStage
  BY <1>2 DEF LookupInv
<1>7. FileStage' /\ FunStage' /\ LineStage'
  BY <1>3, <1>4, <1>5, <1>6 DEF FileStage, FunStage, LineStage
<1>8. LookupInv'
  BY <1>3, <1>4, <1>6, <1>7 DEF LookupInv
<1>9. NamesTheLine'
  BY <1>1 DEF NamesTheLine
<1> QED BY <1>1, <1>8, <1>9

(* The first search: among the files.                                      *)
LEMMA FileFacts ==
  ASSUME StabInv, LookupInv, Found("file")
  PROVE  /\ eip \in Nat /\ info = Unknown(eip) /\ End \in Nat
         /\ region_left \in 0 .. End /\ region_right \in Int /\ region_right <= End
         /\ Regular(Files) =>
              /\ UpTo(Files, eip) = {} <=> region_left = 0
              /\ UpTo(Files, eip) # {} =>
                   region_left = File /\ region_right = PartEnd(Files, region_left, End)
<1>1. /\ pc = "found" /\ eip \in Nat /\ info = Unknown(eip)
      /\ type = "SO" /\ first = 0 /\ last = End /\ sought = eip
  BY DEF Found, LookupInv, FileStage
<1>2. TableOK /\ End \in Nat
  BY TableFacts DEF StabInv
<1>3. region_left \in 0 .. End /\ region_right \in Int /\ region_right <= End
  BY <1>1 DEF StabInv, Closed
<1>4. Candidates = Files
  BY <1>1 DEF Candidates, Files, Entries, Match
<1>5. \A i \in Candidates : i # 0
  BY <1>1, <1>2, CandidateFacts
<1>6. ASSUME Regular(Files)
      PROVE  /\ UpTo(Files, eip) = {} <=> region_left = 0
             /\ UpTo(Files, eip) # {} =>
                  region_left = File /\ region_right = PartEnd(Files, region_left, End)
  <2>1. /\ Containing = UpTo(Files, eip)
        /\ Containing = {} => region_left <= first
        /\ Containing # {} =>
             /\ region_left = LastOf(Containing) /\ region_left \in Candidates
             /\ region_right = PartEnd(Candidates, region_left, last)
    BY <1>1, <1>4, <1>6, SearchResult
  <2> QED BY <2>1, <1>1, <1>3, <1>4, <1>5 DEF File
<1> QED BY <1>1, <1>2, <1>3, <1>6

LEMMA NoFileStep ==
  ASSUME StabInv, LookupInv, no_file
  PROVE  StabInv' /\ LookupInv' /\ NamesTheLine'
<1>1. /\ Found("file") /\ region_left = 0 /\ pc' = "answer"
      /\ info' = [info EXCEPT !.ret = -1] /\ UNCHANGED <<stabs, eip>>
  BY DEF no_file, Return, svars
<1>2. info = Unknown(eip) /\ (Regular(Files) => UpTo(Files, eip) = {})
  BY <1>1, FileFacts
<1>3. info'.ret = -1
  BY <1>1, <1>2 DEF Unknown
<1>4. Regular(Files)' = Regular(Files) /\ UpTo(Files, eip)' = UpTo(Files, eip)
      /\ TableOK' = TableOK
  BY <1>1, SameLookup
<1>5. NamesTheLine'
  BY <1>2, <1>3, <1>4, AnswerNext DEF Answered
<1>6. StabInv'
  BY <1>1, <1>4, NoSearch DEF StabInv
<1>7. LookupInv'
  BY <1>1 DEF LookupInv
<1> QED BY <1>5, <1>6, <1>7

LEMMA FileFoundStep ==
  ASSUME StabInv, LookupInv, file_found
  PROVE  StabInv' /\ LookupInv' /\ NamesTheLine'
<1>1. /\ Found("file") /\ region_left # 0 /\ pc' = "search"
      /\ lfile' = region_left /\ rfile' = region_right /\ stage' = "fun"
      /\ Search(region_left, region_right, "FUN", eip)
      /\ stabs' = stabs /\ info' = info /\ eip' = eip
  BY DEF file_found, Search
<1>0. stabs \notin Unterminated /\ stabs' = stabs
  BY <1>1 DEF LookupInv, Found
<1>2. /\ type' = "FUN" /\ sought' = eip /\ first' = region_left /\ last' = region_right
  BY <1>1 DEF Search, Start
<1>3. /\ eip \in Nat /\ info = Unknown(eip) /\ End \in Nat
      /\ region_left \in 0 .. End /\ region_right \in Int /\ region_right <= End
      /\ Regular(Files) => /\ UpTo(Files, eip) # {} /\ region_left = File
                           /\ region_right = PartEnd(Files, region_left, End)
  BY <1>1, FileFacts
<1>4. /\ Regular(Files)' = Regular(Files) /\ UpTo(Files, eip)' = UpTo(Files, eip)
      /\ TableOK' = TableOK /\ End' = End /\ Files' = Files
  BY <1>1, SameLookup
<1>5. StabInv'
  BY <1>1, <1>3, <1>4, SearchStarts DEF StabInv
<1>6. FileRight'
  BY <1>1, <1>3, <1>4 DEF FileRight, File
<1>7. LookupInv'
  BY <1>0, <1>1, <1>2, <1>3, <1>4, <1>6 DEF LookupInv, FileStage, FunStage, LineStage
<1>8. NamesTheLine'
  BY <1>1 DEF NamesTheLine
<1> QED BY <1>5, <1>7, <1>8

(* The second search: among the functions of the file.                     *)
LEMMA FunFacts ==
  ASSUME StabInv, LookupInv, Found("fun")
  PROVE  /\ eip \in Nat /\ info = Unknown(eip) /\ End \in Nat
         /\ lfile \in 0 .. End /\ rfile \in Int /\ rfile <= End /\ FileRight
         /\ region_left \in 0 .. End /\ region_right \in Int /\ region_right <= End
         /\ \A i \in 0 .. End : stabs[i].value \in Nat
         /\ Regular(Funs) =>
              /\ Funs = {} => region_left > region_right
              /\ UpTo(Funs, eip) # {} =>
                   /\ region_left = LastOf(UpTo(Funs, eip)) /\ region_left <= region_right
                   /\ region_right = PartEnd(Funs, region_left, rfile)
<1>1. /\ pc = "found" /\ eip \in Nat /\ info = Unknown(eip) /\ FileRight
      /\ type = "FUN" /\ first = lfile /\ last = rfile /\ sought = eip
      /\ lfile \in 0 .. End /\ rfile \in Int /\ rfile <= End
  BY DEF Found, LookupInv, FunStage
<1>2. TableOK /\ End \in Nat /\ \A i \in 0 .. End : stabs[i].value \in Nat
  BY TableFacts DEF StabInv
<1>3. region_left \in 0 .. End /\ region_right \in Int /\ region_right <= End
  BY <1>1 DEF StabInv, Closed
<1>4. Candidates = Funs
  BY <1>1 DEF Candidates, Funs, Entries, Match
<1>5. ASSUME Regular(Funs)
      PROVE  /\ Funs = {} => region_left > region_right
             /\ UpTo(Funs, eip) # {} =>
                  /\ region_left = LastOf(UpTo(Funs, eip)) /\ region_left <= region_right
                  /\ region_right = PartEnd(Funs, region_left, rfile)
  <2>1. /\ Containing = UpTo(Funs, eip)
        /\ Candidates = {} => region_left > region_right
        /\ Containing # {} =>
             /\ region_left = LastOf(Containing) /\ region_left <= region_right
             /\ region_right = PartEnd(Candidates, region_left, last)
    BY <1>1, <1>4, <1>5, SearchResult
  <2> QED BY <2>1, <1>1, <1>4
<1> QED BY <1>1, <1>2, <1>3, <1>5

LEMMA FunFoundStep ==
  ASSUME StabInv, LookupInv, fun_found
  PROVE  StabInv' /\ LookupInv' /\ NamesTheLine'
<1> DEFINE value == stabs[region_left].value
<1>1. /\ Found("fun") /\ region_left <= region_right /\ pc' = "search"
      /\ lfun' = region_left /\ rfun' = region_right /\ stage' = "line"
      /\ info' = [info EXCEPT !.fn = region_left, !.addr = value]
      /\ Search(region_left, region_right, "SLINE", Offset(eip))
      /\ stabs' = stabs /\ lfile' = lfile /\ rfile' = rfile /\ eip' = eip
  BY DEF fun_found, Search
<1>0. stabs \notin Unterminated /\ stabs' = stabs
  BY <1>1 DEF LookupInv, Found
<1>2. /\ type' = "SLINE" /\ sought' = eip - value /\ first' = region_left /\ last' = region_right
  BY <1>1 DEF Search, Start, Offset
<1>3. /\ eip \in Nat /\ info = Unknown(eip) /\ End \in Nat
      /\ lfile \in 0 .. End /\ rfile \in Int /\ rfile <= End /\ FileRight
      /\ region_left \in 0 .. End /\ region_right \in Int /\ region_right <= End
      /\ value \in Nat
      /\ Regular(Funs) =>
           /\ Funs # {}
           /\ UpTo(Funs, eip) # {} =>
                /\ region_left = LastOf(UpTo(Funs, eip))
                /\ region_right = PartEnd(Funs, region_left, rfile)
  BY <1>1, FunFacts
<1>4. /\ FileRight' = FileRight /\ Funs' = Funs /\ Regular(Funs)' = Regular(Funs)
      /\ UpTo(Funs, eip)' = UpTo(Funs, eip)
      /\ TableOK' = TableOK /\ End' = End
  BY <1>1, SameStages, SameLookup
<1>5. StabInv'
  <2>1. Offset(eip) \in Int
    BY <1>3 DEF Offset
  <2> QED BY <2>1, <1>1, <1>3, <1>4, SearchStarts DEF StabInv
<1>6. FunRight'
  <2> SUFFICES ASSUME Regular(Funs), Funs # {} => UpTo(Funs, eip) # {}
               PROVE  Funs # {} /\ InFile(LastOf(UpTo(Funs, eip)))'
    BY <1>4 DEF FunRight
  <2>1. /\ Funs # {} /\ region_left = LastOf(UpTo(Funs, eip))
        /\ region_right = PartEnd(Funs, region_left, rfile)
    BY <1>3
  <2>2. info' = [Unknown(eip) EXCEPT !.fn = region_left, !.addr = value]
    BY <1>1, <1>3
  <2>3. LastOf(UpTo(Funs, eip))' = region_left
    BY <1>4, <2>1
  <2> QED BY <2>1, <2>2, <2>3, <1>1, <1>2, <1>4 DEF InFile
<1>7. LookupInv'
  BY <1>0, <1>1, <1>2, <1>3, <1>4, <1>6 DEF LookupInv, FileStage, FunStage, LineStage
<1>8. NamesTheLine'
  BY <1>1 DEF NamesTheLine
<1> QED BY <1>5, <1>7, <1>8

LEMMA NoFunStep ==
  ASSUME StabInv, LookupInv, no_fun
  PROVE  StabInv' /\ LookupInv' /\ NamesTheLine'
<1>1. /\ Found("fun") /\ region_left > region_right /\ pc' = "search"
      /\ lfun' = region_left /\ rfun' = region_right /\ stage' = "line"
      /\ info' = info /\ Search(lfile, rfile, "SLINE", eip)
      /\ stabs' = stabs /\ lfile' = lfile /\ rfile' = rfile /\ eip' = eip
  BY DEF no_fun, Search
<1>0. stabs \notin Unterminated /\ stabs' = stabs
  BY <1>1 DEF LookupInv, Found
<1>2. /\ type' = "SLINE" /\ sought' = eip /\ first' = lfile /\ last' = rfile
  BY <1>1 DEF Search, Start
<1>3. /\ eip \in Nat /\ info = Unknown(eip) /\ End \in Nat
      /\ lfile \in 0 .. End /\ rfile \in Int /\ rfile <= End /\ FileRight
      /\ region_left \in 0 .. End /\ region_right \in Int
      /\ Regular(Funs) => UpTo(Funs, eip) = {}
  BY <1>1, FunFacts
<1>4. /\ FileRight' = FileRight /\ Funs' = Funs /\ Regular(Funs)' = Regular(Funs)
      /\ UpTo(Funs, eip)' = UpTo(Funs, eip)
      /\ TableOK' = TableOK /\ End' = End
  BY <1>1, SameStages, SameLookup
<1>5. StabInv'
  BY <1>1, <1>3, <1>4, SearchStarts DEF StabInv
<1>6. FunRight'
  <2>1. InNone'
    BY <1>1, <1>2, <1>3 DEF InNone
  <2> QED BY <2>1, <1>3, <1>4 DEF FunRight
<1>7. LookupInv'
  BY <1>0, <1>1, <1>2, <1>3, <1>4, <1>6 DEF LookupInv, FileStage, FunStage, LineStage
<1>8. NamesTheLine'
  BY <1>1 DEF NamesTheLine
<1> QED BY <1>5, <1>7, <1>8

(* The third search: among the lines of the function, or of the file.      *)
LEMMA LineFacts ==
  ASSUME StabInv, LookupInv, Found("line"), Regular(Files)
  PROVE  /\ UpTo(Files, eip) # {} /\ lfile = File /\ rfile = FileEnd /\ eip \in Nat
         /\ File \in 0 .. End /\ FileEnd \in Int /\ FileEnd <= End
         /\ lfun \in Int /\ rfun \in Int
         /\ Assumed =>
              /\ first = From /\ last = To /\ Candidates = Lines
              /\ region_left = LastOf(UpTo(Lines, eip - Base)) /\ region_left \in Lines
              /\ region_left <= region_right
              /\ IF FileFuns = {} THEN info = Unknown(eip) /\ lfun > rfun
                 ELSE /\ lfun = From /\ rfun = To /\ From \in FileFuns
                      /\ info = [Unknown(eip) EXCEPT !.fn = Fun, !.addr = Base]
<1>1. /\ pc = "found" /\ eip \in Nat /\ FileRight /\ FunRight /\ type = "SLINE"
      /\ lfile \in 0 .. End /\ rfile \in Int /\ rfile <= End /\ lfun \in Int /\ rfun \in Int
  BY DEF Found, LookupInv, LineStage
<1>2. UpTo(Files, eip) # {} /\ lfile = File /\ rfile = FileEnd
  BY <1>1 DEF FileRight, File, FileEnd
<1>3. Funs = FileFuns
  BY <1>2 DEF Funs, FileFuns
<1>4. End \in Nat /\ TableOK
  BY TableFacts DEF StabInv
<1>5. ASSUME Assumed
      PROVE  /\ first = From /\ last = To /\ sought = eip - Base
             /\ IF FileFuns = {} THEN info = Unknown(eip) /\ lfun > rfun
                ELSE /\ lfun = From /\ rfun = To
                     /\ info = [Unknown(eip) EXCEPT !.fn = Fun, !.addr = Base]
  <2>1. IF Funs = {} THEN InNone ELSE InFile(LastOf(UpTo(Funs, eip)))
    BY <1>1, <1>3, <1>5 DEF FunRight, Assumed
  <2>2. CASE FileFuns = {}
    <3>1. InNone /\ Base = 0 /\ From = File /\ To = FileEnd
      BY <2>1, <2>2, <1>3 DEF Base, From, To
    <3> QED BY <3>1, <2>2, <1>1, <1>2 DEF InNone
  <2>3. CASE FileFuns # {}
    <3>1. InFile(Fun) /\ Base = stabs[Fun].value /\ From = Fun
          /\ To = PartEnd(FileFuns, Fun, FileEnd)
      BY <2>1, <2>3, <1>3 DEF Base, From, To, Fun
    <3>2. /\ lfun = Fun /\ rfun = PartEnd(Funs, Fun, rfile)
          /\ first = Fun /\ last = rfun /\ sought = eip - stabs[Fun].value
          /\ info = [Unknown(eip) EXCEPT !.fn = Fun, !.addr = stabs[Fun].value]
      BY <3>1 DEF InFile
    <3>3. rfun = To
      BY <3>1, <3>2, <1>2, <1>3
    <3> QED BY <3>1, <3>2, <3>3, <2>3
  <2> QED BY <2>2, <2>3
<1>6. ASSUME Assumed
      PROVE  /\ Candidates = Lines
             /\ region_left = LastOf(UpTo(Lines, eip - Base)) /\ region_left \in Lines
             /\ region_left <= region_right
  <2>1. Candidates = Lines
    BY <1>1, <1>5, <1>6 DEF Candidates, Lines, Entries, Match
  <2>2. Regular(Candidates)
    BY <2>1, <1>6 DEF Assumed
  <2>3. /\ Containing = UpTo(Candidates, sought)
        /\ Containing # {} =>
             /\ region_left = LastOf(Containing) /\ region_left \in Candidates
             /\ region_left <= region_right
    BY <1>1, <2>2, SearchResult
  <2>4. Containing = UpTo(Lines, eip - Base) /\ Containing # {}
    BY <2>1, <2>3, <1>5, <1>6 DEF Assumed
  <2> QED BY <2>1, <2>3, <2>4
<1>7. ASSUME Assumed, FileFuns # {}
      PROVE  From \in FileFuns
  <2>1. FileFuns \subseteq File .. FileEnd
    BY DEF FileFuns, Entries
  <2> DEFINE U == UpTo(FileFuns, eip)
  <2>2. U # {} /\ U \subseteq File .. FileEnd /\ U \subseteq FileFuns
    BY <2>1, <1>7 DEF Assumed, UpTo
  <2>3. File \in Int /\ FileEnd \in Int
    BY <1>1, <1>2
  <2>4. \E k \in U : \A j \in U : j <= k
    <3> HIDE DEF U
    <3> QED BY <2>2, <2>3, Greatest
  <2>5. LastOf(U) \in U
    BY <2>4 DEF LastOf
  <2> QED BY <2>2, <2>5, <1>7 DEF From, Fun
<1> QED BY <1>1, <1>2, <1>5, <1>6, <1>7

LEMMA NoLineStep ==
  ASSUME StabInv, LookupInv, no_line
  PROVE  StabInv' /\ LookupInv' /\ NamesTheLine'
<1>1. /\ Found("line") /\ region_right < region_left /\ pc' = "answer"
      /\ UNCHANGED <<stabs, eip>>
  BY DEF no_line, Return, svars
<1>0. stabs \notin Unterminated /\ stabs' = stabs
  BY <1>1 DEF LookupInv, Found
<1>2. Regular(Files) => UpTo(Files, eip) # {} /\ ~ Assumed
  <2>1. region_left \in Int /\ region_right \in Int
    <3>1. End \in Nat
      BY TableFacts DEF StabInv
    <3> QED BY <3>1, <1>1 DEF StabInv, Closed, Found
  <2> QED BY <2>1, <1>1, LineFacts
<1>3. Regular(Files)' = Regular(Files) /\ UpTo(Files, eip)' = UpTo(Files, eip)
      /\ TableOK' = TableOK /\ Assumed' = Assumed
  BY <1>1, SameLookup
<1>4. NamesTheLine'
  BY <1>0, <1>2, <1>3, AnswerNext DEF Answered
<1>5. StabInv'
  BY <1>1, <1>3, NoSearch DEF StabInv
<1>6. LookupInv'
  BY <1>1 DEF LookupInv
<1> QED BY <1>4, <1>5, <1>6

(* The entries that can name the file of a line: in the part of a file, only
   its own SO entry, and the SOL entries.                                  *)
LEMMA FileNamed ==
  ASSUME TableOK, UpTo(Files, eip) # {}, File \in 0 .. End, Assumed, lfile = File,
         NEW i \in From .. To, From \in File .. FileEnd, To \in Int, To <= FileEnd
  PROVE  FileOf(i) = FileAt(i)
<1> DEFINE named == {k \in lfile .. i : NamesFile(k)}
           A == Entries("SO", From, i) \cup {File} \cup Entries("SOL", File, i)
<1>1. End \in Nat /\ Files \subseteq 0 .. End
  BY TableFacts DEF Files, Entries
<1>2. FileEnd \in Int /\ FileEnd <= End /\ \A j \in Files : j > File => j > FileEnd
  <2>1. 0 \in Int /\ End \in Int /\ File \in Int
    BY <1>1
  <2> QED BY <1>1, <2>1, PartEndFacts DEF FileEnd
<1>3. File \in Files
  <2> DEFINE U == UpTo(Files, eip)
  <2>1. U \subseteq 0 .. End /\ U \subseteq Files
    BY <1>1 DEF UpTo
  <2>2. \E k \in U : \A j \in U : j <= k
    <3>1. 0 \in Int /\ End \in Int /\ U # {}
      BY <1>1
    <3> HIDE DEF U
    <3> QED BY <3>1, <2>1, Greatest
  <2>3. LastOf(U) \in U
    BY <2>2 DEF LastOf
  <2> QED BY <2>1, <2>3 DEF File
<1>4. \A k \in File .. i : stabs[k].type = "SO" <=> k = File
  <2>1. ASSUME NEW k \in File .. i, stabs[k].type = "SO" PROVE k = File
    <3>1. k \in Int /\ k <= FileEnd /\ k \in 0 .. End /\ File \in Int /\ i \in Int
      BY <1>1, <1>2
    <3>2. k \in Files
      BY <3>1, <2>1 DEF Files, Entries
    <3> QED BY <3>1, <3>2, <1>2
  <2>2. stabs[File].type = "SO"
    BY <1>3 DEF Files, Entries
  <2> QED BY <2>1, <2>2
<1>5. File <= i /\ i \in Int /\ From \in Int /\ From >= File
  BY <1>2
<1>6. named = A
  <2>1. ASSUME NEW k \in named PROVE k \in A
    <3>1. k \in File .. i /\ (stabs[k].type = "SOL" \/ stabs[k].type = "SO")
      BY DEF NamesFile
    <3> QED BY <3>1, <1>4 DEF Entries
  <2>2. ASSUME NEW k \in A PROVE k \in named
    <3>1. k \in File .. i /\ (stabs[k].type = "SO" \/ stabs[k].type = "SOL")
      BY <1>4, <1>5 DEF Entries
    <3>2. stabs[k].type = "SO" => stabs[k].value # 0
      BY <3>1, <1>4 DEF Assumed
    <3> QED BY <3>1, <3>2 DEF NamesFile
  <2> QED BY <2>1, <2>2
<1>7. A # {}
  OBVIOUS
<1>8. FileOf(i) = IF named = {} THEN -1 ELSE CHOOSE k \in named : \A j \in named : j <= k
  BY DEF FileOf
<1> HIDE DEF named
<1>9. FileOf(i) = CHOOSE k \in A : \A j \in A : j <= k
  BY <1>6, <1>7, <1>8
<1> QED BY <1>9 DEF FileAt, LastOf

(* The parameters are counted as far as they follow the function.          *)
LEMMA ArgsCounted ==
  ASSUME Assumed, FileFuns # {}, From \in FileFuns, From \in Int, To \in Int,
         NEW i \in Lines, lfun = From, rfun = To
  PROVE  Args = Cardinality(Params)
<1>1. stabs[From].type = "FUN"
  BY DEF FileFuns, Entries
<1>2. i \in From .. To /\ stabs[i].type = "SLINE"
  BY DEF Lines, Entries
<1>3. From < i /\ i <= To /\ i \in Int
  BY <1>1, <1>2
<1>4. \A k \in Params : k \in From .. To /\ stabs[k].type = "PSYM" /\ From + 1 .. k \subseteq Params
  BY DEF Assumed, Params, Entries
<1>5. ASSUME NEW k \in Params PROVE k \in From + 1 .. To - 1
  <2>1. k \in Int /\ k # From
    BY <1>1, <1>4
  <2>2. k < i
    <3> SUFFICES ASSUME k >= i PROVE FALSE
      BY <1>3, <2>1
    <3>1. i \in From + 1 .. k
      BY <1>3, <2>1
    <3> QED BY <3>1, <1>2, <1>4
  <2> QED BY <2>1, <2>2, <1>3, <1>4
<1> DEFINE counted == {k \in From + 1 .. To - 1 :
                         \A j \in From + 1 .. k : stabs[j].type = "PSYM"}
<1>6. Args = Cardinality(counted)
  BY <1>3 DEF Args
<1>7. counted = Params
  <2>1. ASSUME NEW k \in counted PROVE k \in Params
    BY DEF Params, Entries
  <2>2. ASSUME NEW k \in Params PROVE k \in counted
    BY <1>4, <1>5
  <2> QED BY <2>1, <2>2
<1> QED BY <1>6, <1>7

LEMMA LineFoundStep ==
  ASSUME StabInv, LookupInv, line_found
  PROVE  StabInv' /\ LookupInv' /\ NamesTheLine'
<1> DEFINE i == region_left
<1>1. /\ Found("line") /\ i <= region_right /\ pc' = "answer"
      /\ info' = [info EXCEPT !.line = i, !.file = FileOf(i), !.narg = Args]
      /\ UNCHANGED <<stabs, eip>>
  BY DEF line_found, Return, svars
<1>0. stabs \notin Unterminated /\ stabs' = stabs
  BY <1>1 DEF LookupInv, Found
<1>2. /\ Regular(Files)' = Regular(Files) /\ UpTo(Files, eip)' = UpTo(Files, eip)
      /\ TableOK' = TableOK /\ Assumed' = Assumed /\ File' = File /\ From' = From
      /\ Lines' = Lines /\ Base' = Base /\ FileFuns' = FileFuns /\ Fun' = Fun
      /\ Params' = Params
  BY <1>1, SameLookup
<1>3. ASSUME Regular(Files), Assumed
      PROVE  Right'
  <2>1. /\ UpTo(Files, eip) # {} /\ lfile = File /\ rfile = FileEnd /\ eip \in Nat
        /\ File \in 0 .. End /\ FileEnd \in Int /\ FileEnd <= End
        /\ first = From /\ last = To /\ i = LastOf(UpTo(Lines, eip - Base)) /\ i \in Lines
        /\ IF FileFuns = {} THEN info = Unknown(eip) /\ lfun > rfun
           ELSE /\ lfun = From /\ rfun = To /\ From \in FileFuns
                /\ info = [Unknown(eip) EXCEPT !.fn = Fun, !.addr = Base]
        /\ lfun \in Int /\ rfun \in Int
    BY <1>1, <1>3, LineFacts
  <2>2. TableOK /\ End \in Nat /\ first \in Nat /\ last \in Int
    <3>1. TableOK /\ End \in Nat
      BY TableFacts DEF StabInv
    <3> QED BY <3>1, <1>1 DEF StabInv, Searched, Found
  <2>3. From \in Int /\ To \in Int /\ i \in From .. To
    BY <2>1, <2>2 DEF Lines, Entries
  <2>4. From \in File .. FileEnd /\ To <= FileEnd
    <3>1. CASE FileFuns = {}
      <4>1. From = File /\ To = FileEnd
        BY <3>1 DEF From, To
      <4> QED BY <4>1, <2>1, <2>3
    <3>2. CASE FileFuns # {}
      <4>1. From \in FileFuns /\ To = PartEnd(FileFuns, From, FileEnd)
        BY <3>2, <2>1 DEF From, To
      <4>2. FileFuns \subseteq File .. FileEnd
        BY DEF FileFuns, Entries
      <4>3. File \in Int /\ FileEnd \in Int
        BY <2>1
      <4>4. To <= FileEnd
        BY <4>1, <4>2, <4>3, <2>3, PartEndFacts
      <4> QED BY <4>1, <4>2, <4>4
    <3> QED BY <3>1, <3>2
  <2>5. FileOf(i) = FileAt(i)
    BY <1>3, <2>1, <2>2, <2>3, <2>4, FileNamed
  <2>6. Args = IF FileFuns # {} THEN Cardinality(Params) ELSE 0
    <3>1. CASE FileFuns = {}
      BY <3>1, <2>1 DEF Args
    <3>2. CASE FileFuns # {}
      BY <3>2, <1>3, <2>1, <2>3, ArgsCounted
    <3> QED BY <3>1, <3>2
  <2>7. /\ info.ret = 0 /\ info.fn = IF FileFuns # {} THEN Fun ELSE -1
        /\ info.addr = IF FileFuns # {} THEN Base ELSE eip
        /\ DOMAIN info = {"file", "line", "fn", "addr", "narg", "ret"}
    <3>1. CASE FileFuns = {}
      <4>1. info = Unknown(eip)
        BY <2>1, <3>1
      <4> QED BY <3>1, <4>1 DEF Unknown
    <3>2. CASE FileFuns # {}
      <4>1. info = [Unknown(eip) EXCEPT !.fn = Fun, !.addr = Base]
        BY <2>1, <3>2
      <4> QED BY <3>2, <4>1 DEF Unknown
    <3> QED BY <3>1, <3>2
  <2>8. /\ info'.ret = info.ret /\ info'.fn = info.fn /\ info'.addr = info.addr
        /\ info'.line = i /\ info'.file = FileAt(i)
        /\ info'.narg = IF FileFuns # {} THEN Cardinality(Params) ELSE 0
    BY <2>5, <2>6, <2>7, <1>1
  <2>9. FileAt(info.line)' = FileAt(i)
    BY <2>8, <1>1, <1>2 DEF FileAt, Entries
  <2> QED BY <2>1, <2>7, <2>8, <2>9, <1>1, <1>2 DEF Right, UpTo
<1>4. NamesTheLine'
  <2>1. Regular(Files) => UpTo(Files, eip) # {}
    BY <1>1, LineFacts
  <2> QED BY <1>0, <2>1, <1>2, <1>3, AnswerNext DEF Answered
<1>5. StabInv'
  BY <1>1, <1>2, NoSearch DEF StabInv
<1>6. LookupInv'
  BY <1>1 DEF LookupInv
<1> QED BY <1>4, <1>5, <1>6

LEMMA LookupStep ==
  ASSUME StabInv, LookupInv, lookup
  PROVE  StabInv' /\ LookupInv' /\ NamesTheLine'
BY SearchStep, NoFileStep, FileFoundStep, FunFoundStep, NoFunStep, NoLineStep, LineFoundStep
   DEF lookup

----------------------------------------------------------------------------
(* The commands.                                                           *)
Addr == 0 .. Top - 1
Cut(n) == \A k \in DOMAIN line :
  buf[k] = IF k < n /\ line[k] \in WHITESPACE THEN "NUL" ELSE line[k]
Words(n) ==
  /\ argv \in Seq(DOMAIN line)
  /\ {argv[i] : i \in 1 .. argc} = {k \in WordStarts : k < n}
  /\ \A i, j \in 1 .. argc : i < j => argv[i] < argv[j]

LineOK ==
  /\ session \in DOMAIN Sessions
  /\ line \in Seq(STRING) /\ \A k \in DOMAIN line : line[k] # "NUL"
  /\ buf \in Seq(STRING \cup {"NUL"}) /\ Len(buf) = Len(line)

(* The parser has cut the line up to at, where no word goes on.            *)
ParseInv == pc = "parse" =>
  /\ at \in 1 .. Len(line) + 1
  /\ at \in 2 .. Len(line) => line[at] \in WHITESPACE
  /\ Cut(at) /\ Words(at) /\ argc < MAXARGS

Invoked == pc = "invoke" =>
  Cut(Len(line) + 1) /\ Words(Len(line) + 1) /\ argc \in 1 .. MAXARGS - 1

PgdirOK == kern_pgdir \in [0 .. (Top \div (PGSIZE * NPTE)) - 1 -> PageTable \cup {NoTable}]

(* A backtrace is among the pointers of the stack in which it started.     *)
Tracing == {"frame", "search", "found", "answer"}
FramesOK ==
  /\ \A b \in DOMAIN stack : stack[b].eip \in Nat
  /\ pc \in Tracing =>
       /\ Word(1) = <<"backtrace">>
       /\ \E s \in Stacks : s.frame = stack /\ base_pointer \in Pointers(s)
  /\ pc \in {"search", "found", "answer"} => base_pointer \in DOMAIN stack

(* The loop has shown one row for each address before va, or it is beyond
   the top and does not end.                                               *)
Shown == \A i \in DOMAIN rows : RowTrue(rows[i], FirstOf + (i - 1) * StepOf)
Wrapped == ReachesTop /\ va <= va_hi /\ (va - FirstOf) % StepOf = 0
OnTheWay == Len(rows) <= Count /\ va = FirstOf + Len(rows) * StepOf /\ Shown

LoopOf ==
  /\ pc = "showmappings" => Word(1) \in {<<"showmappings">>, <<"sm">>}
  /\ pc = "memxv" => Word(1) = <<"memxv">>
  /\ pc = "memxp" => Word(1) = <<"memxp">>
RangeInv == pc \in Loops =>
  /\ va \in Addr /\ va_lo \in Addr /\ va_hi \in Addr /\ va_lo <= va_hi
  /\ LoopOf /\ rows \in Seq(Range(rows))
  /\ OnTheWay \/ Wrapped
RowsInv ==
  /\ pc \notin Loops \cup {"returned", "panic"} => rows = <<>>
  /\ RowsExact

LookupOK == StabInv /\ LookupInv /\ NamesTheLine
WordsOK == LineOK /\ ParseInv /\ Invoked
RowsOK == RangeInv /\ RowsInv /\ MonitorSurvives
Inv == LookupOK /\ WordsOK /\ RowsOK /\ PgdirOK /\ FramesOK

(* The tables and the stack of a backtrace.                                *)
LEMMA LookupKept ==
  ASSUME LookupOK, stabs' = stabs \/ stabs' \in Tables \cup {Empty},
         pc' \notin {"search", "found", "answer"}
  PROVE  LookupOK'
<1>1. TableOK'
  BY DEF LookupOK, StabInv, TableOK
<1>2. StabInv'
  BY <1>1, NoSearch
<1>3. LookupInv' /\ NamesTheLine'
  BY DEF LookupInv, NamesTheLine
<1> QED BY <1>2, <1>3 DEF LookupOK

LEMMA NextFrameStep ==
  ASSUME LookupOK, FramesOK, next_frame
  PROVE  LookupOK'
<1> DEFINE a == stack[base_pointer].eip
<1>1. a \in Nat
  BY DEF FramesOK, next_frame
<1> HIDE DEF a
<1>2. PICK t \in Tables : debuginfo_eip(a, t)
  BY DEF next_frame, a
<1>3. TableOK' /\ stabs' = t /\ eip' = a
  BY <1>2 DEF debuginfo_eip, TableOK
<1>4. CASE t \in Unterminated
  <2>1. info' = [Unknown(a) EXCEPT !.ret = -1] /\ pc' = "answer"
    BY <1>2, <1>4 DEF debuginfo_eip
  <2>2. info'.ret = -1
    BY <2>1 DEF Unknown
  <2>3. StabInv' /\ LookupInv'
    BY <1>3, <2>1, NoSearch DEF LookupInv
  <2>4. NamesTheLine'
    BY <1>3, <1>4, <2>2, AnswerNext DEF Answered
  <2> QED BY <2>3, <2>4 DEF LookupOK
<1>5. CASE t \notin Unterminated
  <2>1. /\ Search(0, End', "SO", a) /\ info' = Unknown(a) /\ stage' = "file" /\ pc' = "search"
    BY <1>2, <1>3, <1>5 DEF debuginfo_eip, Search, End
  <2>2. End' \in Nat
    BY <1>3, EndNext
  <2>3. StabInv'
    BY <1>1, <1>3, <2>1, <2>2, SearchStarts
  <2>4. type' = "SO" /\ first' = 0 /\ last' = End' /\ sought' = a
    BY <2>1 DEF Search, Start
  <2>5. LookupInv'
    BY <1>1, <1>3, <1>5, <2>1, <2>4 DEF LookupInv, FileStage, FunStage, LineStage
  <2>6. NamesTheLine'
    BY <2>1 DEF NamesTheLine
  <2> QED BY <2>3, <2>5, <2>6 DEF LookupOK
<1> QED BY <1>4, <1>5

LEMMA LookupsNext ==
  ASSUME Inv, [Next]_vars
  PROVE  LookupOK'
<1> USE DEF lookup_vars, svars
<1>1. CASE UNCHANGED vars
  <2>1. /\ UNCHANGED <<stabs, eip, lfile, rfile>> /\ UNCHANGED args /\ UNCHANGED dvars
        /\ UNCHANGED <<pc, addr, region_left, region_right, l, r, any_matches, info>>
    BY <1>1 DEF vars, args, dvars
  <2>2. /\ Candidates' = Candidates /\ Containing' = Containing /\ Sorted' = Sorted
        /\ Spaced' = Spaced /\ End' = End /\ TableOK' = TableOK
    BY <2>1, SameSearch
  <2>3. StabInv'
    BY <2>1, <2>2
       DEF Inv, LookupOK, StabInv, Searched, Halving, Closing, Closed, FindsTheEntry, Bracket, args
  <2>4. /\ FileRight' = FileRight /\ Funs' = Funs /\ Regular(Funs)' = Regular(Funs)
        /\ UpTo(Funs, eip)' = UpTo(Funs, eip) /\ Regular(Files)' = Regular(Files)
    BY <2>1, SameStages, SameLookup
  <2>5. LookupInv'
    BY <2>1, <2>2, <2>4
       DEF Inv, LookupOK, LookupInv, FileStage, FunStage, LineStage, FunRight, InNone, InFile,
           args, dvars
  <2>6. NamesTheLine'
    <3>1. /\ File' = File /\ FileFuns' = FileFuns /\ Fun' = Fun /\ From' = From
          /\ Base' = Base /\ Lines' = Lines /\ Params' = Params /\ Assumed' = Assumed
          /\ Regular(Files)' = Regular(Files) /\ UpTo(Files, eip)' = UpTo(Files, eip)
      BY <2>1, SameLookup
    <3>2. FileAt(info.line)' = FileAt(info.line)
      BY <2>1, <3>1 DEF FileAt, Entries
    <3>3. UpTo(Lines, eip - Base)' = UpTo(Lines, eip - Base)
      BY <2>1, <3>1 DEF UpTo
    <3>4. Right' = Right
      BY <2>1, <3>1, <3>2, <3>3 DEF Right
    <3>5. Answered
      BY AnswerIs DEF Inv, LookupOK
    <3>6. Answered'
      BY <2>1, <3>1, <3>4, <3>5 DEF Answered
    <3> QED BY <3>6, AnswerNext
  <2> QED BY <2>3, <2>5, <2>6 DEF LookupOK
<1>2. CASE readline \/ monitor
  BY <1>2, LookupKept DEF Inv, readline, monitor
<1>3. CASE Parse
  BY <1>3, LookupKept DEF Inv, Parse, next_arg, too_many, parsed, Return0
<1>4. CASE Row
  <2>1. CASE mon_showmappings_entry
    BY <2>1, LookupKept DEF Inv, mon_showmappings_entry, Show
  <2>2. CASE memxv_word
    BY <2>2, LookupKept DEF Inv, memxv_word, Show
  <2>3. CASE memxv_panic
    BY <2>3, LookupKept DEF Inv, memxv_panic
  <2>4. CASE memxp_word
    <3>1. stabs' = stabs /\ pc = "memxp" /\ (pc' = pc \/ pc' = "panic")
      BY <2>4 DEF memxp_word, Show
    <3> QED BY <3>1, LookupKept DEF Inv
  <2>5. CASE shown
    BY <2>5, LookupKept DEF Inv, shown, Return0
  <2> QED BY <1>4, <2>1, <2>2, <2>3, <2>4, <2>5 DEF Row
<1>5. CASE Invoke
  <2>1. CASE unknown \/ mon_help \/ mon_kerninfo \/ mon_meminfo \/ mon_exit \/ bad_range \/ bad_pgmod
    <3>1. stabs' = stabs /\ pc' \in {"returned", "left"}
      BY <2>1 DEF unknown, mon_help, mon_kerninfo, mon_meminfo, mon_exit, bad_range, bad_pgmod, Return0
    <3> QED BY <3>1, LookupKept DEF Inv
  <2>2. CASE mon_showmappings \/ mon_memxv \/ mon_memxp
    <3>1. stabs' = stabs /\ pc' \in Loops
      BY <2>2 DEF mon_showmappings, mon_memxv, mon_memxp, BeginRange, Loops
    <3> QED BY <3>1, LookupKept DEF Inv, Loops
  <2>3. CASE mon_pgmod
    BY <2>3, LookupKept DEF Inv, mon_pgmod, Return0
  <2>4. CASE mon_backtrace
    BY <2>4, LookupKept DEF Inv, mon_backtrace
  <2> QED BY <1>5, <2>1, <2>2, <2>3, <2>4 DEF Invoke
<1>6. CASE Backtrace
  <2>1. CASE next_frame
    BY <2>1, NextFrameStep DEF Inv
  <2>2. CASE frame_shown \/ last_frame \/ frame_fault
    BY <2>2, LookupKept DEF Inv, frame_shown, last_frame, frame_fault, Return0
  <2>3. CASE lookup
    BY <2>3, LookupStep DEF Inv, LookupOK
  <2> QED BY <1>6, <2>1, <2>2, <2>3 DEF Backtrace
<1> QED BY <1>1, <1>2, <1>3, <1>4, <1>5, <1>6 DEF Next, runcmd

(* SkipWhile, for each of the classes of characters.                       *)
LEMMA SkipSpace ==
  ASSUME NEW b, Len(b) \in Nat, NEW i \in 1 .. Len(b) + 1
  PROVE  \A j : j = SkipWhile(b, i, strchr) =>
           /\ j \in i .. Len(b) + 1 /\ \A k \in i .. j - 1 : strchr(b[k])
           /\ j <= Len(b) => ~ strchr(b[j])
<1> DEFINE T == {k \in i .. Len(b) : ~ strchr(b[k])}
           Is(p) == /\ \A k \in i .. p - 1 : strchr(b[k])
                    /\ p <= Len(b) => ~ strchr(b[p])
<1>1. \E p \in i .. Len(b) + 1 : /\ \A k \in i .. p - 1 : k \notin T
                                 /\ p <= Len(b) => p \in T
  <2> HIDE DEF T
  <2>1. i \in Int /\ Len(b) \in Int /\ i <= Len(b) + 1
    OBVIOUS
  <2>2. \A n \in Int : i <= n + 1 =>
          \E p \in i .. n + 1 : (\A k \in i .. p - 1 : k \notin T) /\ (p <= n => p \in T)
    BY <2>1, FirstFrom
  <2> QED BY <2>1, <2>2
<1>2. PICK p \in i .. Len(b) + 1 : /\ \A k \in i .. p - 1 : k \notin T
                                   /\ p <= Len(b) => p \in T
  BY <1>1
<1>3. Is(p)
  BY <1>2
<1> DEFINE found == CHOOSE q \in i .. Len(b) + 1 : Is(q)
<1>4. found \in i .. Len(b) + 1 /\ Is(found)
  BY <1>3
<1>5. SkipWhile(b, i, strchr) = found
  BY DEF SkipWhile
<1> HIDE DEF found
<1> QED BY <1>4, <1>5

LEMMA SkipWord ==
  ASSUME NEW b, Len(b) \in Nat, NEW i \in 1 .. Len(b) + 1
  PROVE  \A j : j = SkipWhile(b, i, InWord) =>
           /\ j \in i .. Len(b) + 1 /\ \A k \in i .. j - 1 : ~ strchr(b[k])
           /\ j <= Len(b) => strchr(b[j])
<1> DEFINE T == {k \in i .. Len(b) : strchr(b[k])}
           Is(p) == /\ \A k \in i .. p - 1 : InWord(b[k])
                    /\ p <= Len(b) => ~ InWord(b[p])
<1>1. \E p \in i .. Len(b) + 1 : /\ \A k \in i .. p - 1 : k \notin T
                                 /\ p <= Len(b) => p \in T
  <2> HIDE DEF T
  <2>1. i \in Int /\ Len(b) \in Int /\ i <= Len(b) + 1
    OBVIOUS
  <2>2. \A n \in Int : i <= n + 1 =>
          \E p \in i .. n + 1 : (\A k \in i .. p - 1 : k \notin T) /\ (p <= n => p \in T)
    BY <2>1, FirstFrom
  <2> QED BY <2>1, <2>2
<1>2. PICK p \in i .. Len(b) + 1 : /\ \A k \in i .. p - 1 : k \notin T
                                   /\ p <= Len(b) => p \in T
  BY <1>1
<1>3. Is(p)
  BY <1>2 DEF InWord
<1> DEFINE found == CHOOSE q \in i .. Len(b) + 1 : Is(q)
<1>4. found \in i .. Len(b) + 1 /\ Is(found)
  BY <1>3
<1>5. SkipWhile(b, i, InWord) = found
  BY DEF SkipWhile
<1> HIDE DEF found
<1> QED BY <1>4, <1>5 DEF InWord

LEMMA SkipToNul ==
  ASSUME NEW b, Len(b) \in Nat, NEW i \in 1 .. Len(b) + 1
  PROVE  \A j : j = SkipWhile(b, i, NotNul) =>
           /\ j \in i .. Len(b) + 1 /\ \A k \in i .. j - 1 : b[k] # "NUL"
           /\ j <= Len(b) => b[j] = "NUL"
<1> DEFINE T == {k \in i .. Len(b) : b[k] = "NUL"}
           Is(p) == /\ \A k \in i .. p - 1 : NotNul(b[k])
                    /\ p <= Len(b) => ~ NotNul(b[p])
<1>1. \E p \in i .. Len(b) + 1 : /\ \A k \in i .. p - 1 : k \notin T
                                 /\ p <= Len(b) => p \in T
  <2> HIDE DEF T
  <2>1. i \in Int /\ Len(b) \in Int /\ i <= Len(b) + 1
    OBVIOUS
  <2>2. \A n \in Int : i <= n + 1 =>
          \E p \in i .. n + 1 : (\A k \in i .. p - 1 : k \notin T) /\ (p <= n => p \in T)
    BY <2>1, FirstFrom
  <2> QED BY <2>1, <2>2
<1>2. PICK p \in i .. Len(b) + 1 : /\ \A k \in i .. p - 1 : k \notin T
                                   /\ p <= Len(b) => p \in T
  BY <1>1
<1>3. Is(p)
  BY <1>2 DEF NotNul
<1> DEFINE found == CHOOSE q \in i .. Len(b) + 1 : Is(q)
<1>4. found \in i .. Len(b) + 1 /\ Is(found)
  BY <1>3
<1>5. SkipWhile(b, i, NotNul) = found
  BY DEF SkipWhile
<1> HIDE DEF found
<1> QED BY <1>4, <1>5 DEF NotNul

LEMMA SkipDigits ==
  ASSUME NEW b, Len(b) \in Nat, NEW i \in 1 .. Len(b) + 1
  PROVE  \A j : j = SkipWhile(b, i, IsDigit) =>
         j \in i .. Len(b) + 1 /\ \A k \in i .. j - 1 : IsDigit(b[k])
<1> DEFINE T == {k \in i .. Len(b) : ~ IsDigit(b[k])}
           Is(p) == /\ \A k \in i .. p - 1 : IsDigit(b[k])
                    /\ p <= Len(b) => ~ IsDigit(b[p])
<1>1. \E p \in i .. Len(b) + 1 : /\ \A k \in i .. p - 1 : k \notin T
                                 /\ p <= Len(b) => p \in T
  <2> HIDE DEF T
  <2>1. i \in Int /\ Len(b) \in Int /\ i <= Len(b) + 1
    OBVIOUS
  <2>2. \A n \in Int : i <= n + 1 =>
          \E p \in i .. n + 1 : (\A k \in i .. p - 1 : k \notin T) /\ (p <= n => p \in T)
    BY <2>1, FirstFrom
  <2> QED BY <2>1, <2>2
<1>2. PICK p \in i .. Len(b) + 1 : /\ \A k \in i .. p - 1 : k \notin T
                                   /\ p <= Len(b) => p \in T
  BY <1>1
<1>3. Is(p)
  BY <1>2
<1> DEFINE found == CHOOSE q \in i .. Len(b) + 1 : Is(q)
<1>4. found \in i .. Len(b) + 1 /\ Is(found)
  BY <1>3
<1>5. SkipWhile(b, i, IsDigit) = found
  BY DEF SkipWhile
<1> HIDE DEF found
<1> QED BY <1>4, <1>5 DEF IsDigit

(* The line is cut up to n, where no word goes on.                         *)
Parsed == LineOK /\ at \in 1 .. Len(line) + 1 /\ Cut(at)
          /\ (at \in 2 .. Len(line) => line[at] \in WHITESPACE)

LEMMA LineFactsOf ==
  ASSUME LineOK
  PROVE  /\ Len(line) \in Nat /\ Len(buf) = Len(line)
         /\ DOMAIN line = 1 .. Len(line) /\ DOMAIN buf = 1 .. Len(line)
BY LenProperties DEF LineOK

(* Where the next word starts, if there is one.                            *)
LEMMA NextWordIs ==
  ASSUME Parsed
  PROVE  /\ NextWord \in at .. Len(line) + 1
         /\ \A k \in at .. NextWord - 1 : line[k] \in WHITESPACE
         /\ NextWord <= Len(line) => NextWord \in WordStarts
         /\ \A k \in WordStarts : k < NextWord => k < at
<1>1. /\ Len(line) \in Nat /\ Len(buf) = Len(line) /\ DOMAIN line = 1 .. Len(line)
      /\ at \in 1 .. Len(line) + 1
  BY LineFactsOf DEF Parsed
<1>2. /\ NextWord \in at .. Len(line) + 1
      /\ \A k \in at .. NextWord - 1 : strchr(buf[k])
      /\ NextWord <= Len(line) => ~ strchr(buf[NextWord])
  <2>1. \A j : j = SkipWhile(buf, at, strchr) =>
          /\ j \in at .. Len(buf) + 1 /\ \A k \in at .. j - 1 : strchr(buf[k])
          /\ j <= Len(buf) => ~ strchr(buf[j])
    <3>1. Len(buf) \in Nat /\ at \in 1 .. Len(buf) + 1
      BY <1>1
    <3> QED BY <3>1, SkipSpace
  <2>2. NextWord = SkipWhile(buf, at, strchr)
    BY DEF NextWord
  <2> HIDE DEF NextWord
  <2> QED BY <1>1, <2>1, <2>2
<1>3. \A k \in DOMAIN line : k >= at => buf[k] = line[k]
  BY <1>1 DEF Parsed, Cut
<1>4. /\ \A k \in at .. NextWord - 1 : line[k] \in WHITESPACE
      /\ NextWord <= Len(line) => line[NextWord] \notin WHITESPACE
  <2> HIDE DEF NextWord
  <2> QED BY <1>1, <1>2, <1>3 DEF strchr
<1>5. NextWord <= Len(line) => NextWord \in WordStarts
  <2> HIDE DEF NextWord
  <2> SUFFICES ASSUME NextWord <= Len(line), NextWord > 1 PROVE line[NextWord - 1] \in WHITESPACE
    BY <1>1, <1>2, <1>4 DEF WordStarts
  <2>1. CASE NextWord > at
    BY <2>1, <1>1, <1>2, <1>4
  <2>2. CASE NextWord = at
    <3>1. line[at] \in WHITESPACE
      BY <2>2, <1>1, <1>2 DEF Parsed
    <3> QED BY <3>1, <2>2, <1>4
  <2> QED BY <2>1, <2>2, <1>1, <1>2
<1>6. \A k \in WordStarts : k < NextWord => k < at
  <2> HIDE DEF NextWord
  <2> QED BY <1>1, <1>2, <1>4 DEF WordStarts
<1> QED BY <1>2, <1>4, <1>5, <1>6

(* Gobbling the white space cuts the line up to the next word.             *)
LEMMA GobbledIs ==
  ASSUME Parsed
  PROVE  /\ Gobbled \in Seq(STRING \cup {"NUL"}) /\ Len(Gobbled) = Len(line)
         /\ \A k \in DOMAIN line :
              Gobbled[k] = IF k < NextWord /\ line[k] \in WHITESPACE THEN "NUL" ELSE line[k]
<1> DEFINE S == STRING \cup {"NUL"}
           n == NextWord
           A == SubSeq(buf, 1, at - 1)
           B == [i \in 1 .. n - at |-> "NUL"]
           C == SubSeq(buf, n, Len(buf))
<1>1. /\ Len(line) \in Nat /\ Len(buf) = Len(line) /\ DOMAIN line = 1 .. Len(line)
      /\ at \in 1 .. Len(line) + 1
  BY LineFactsOf DEF Parsed
<1>2. /\ n \in at .. Len(line) + 1 /\ \A k \in at .. n - 1 : line[k] \in WHITESPACE
  BY NextWordIs
<1>3. n \in Int /\ at \in Int /\ \A i \in 1 .. Len(line) : buf[i] \in S
  <2>1. buf \in Seq(S)
    BY DEF Parsed, LineOK
  <2>2. \A i \in 1 .. Len(buf) : buf[i] \in S
    BY <2>1, ElementOfSeq
  <2> HIDE DEF n, S
  <2> QED BY <1>1, <1>2, <2>2
<1> HIDE DEF n, S
<1>4. A \in Seq(S) /\ Len(A) = at - 1 /\ \A i \in 1 .. at - 1 : A[i] = buf[i]
  <2>1. 1 \in Int /\ at - 1 \in Int /\ \A i \in 1 .. at - 1 : buf[i] \in S
    BY <1>1, <1>3
  <2>2. /\ A \in Seq(S) /\ Len(A) = IF 1 <= at - 1 THEN (at - 1) - 1 + 1 ELSE 0
        /\ \A i \in 1 .. (at - 1) - 1 + 1 : A[i] = buf[1 + i - 1]
    BY <2>1, SubSeqProperties
  <2> HIDE DEF A
  <2> QED BY <2>2, <1>1
<1>5. B \in Seq(S) /\ Len(B) = n - at /\ \A i \in 1 .. n - at : B[i] = "NUL"
  <2>1. "NUL" \in S /\ n - at \in Nat
    BY <1>1, <1>2 DEF S
  <2> QED BY <2>1
<1>6. C \in Seq(S) /\ Len(C) = Len(line) + 1 - n
      /\ \A i \in 1 .. Len(line) + 1 - n : C[i] = buf[n + i - 1]
  <2>1. Len(buf) \in Int /\ \A i \in n .. Len(buf) : buf[i] \in S
    BY <1>1, <1>2, <1>3
  <2>2. /\ C \in Seq(S) /\ Len(C) = IF n <= Len(buf) THEN Len(buf) - n + 1 ELSE 0
        /\ \A i \in 1 .. Len(buf) - n + 1 : C[i] = buf[n + i - 1]
    BY <1>3, <2>1, SubSeqProperties
  <2> HIDE DEF C
  <2> QED BY <2>2, <1>1, <1>2
<1>7. Gobbled = (A \o B) \o C
  BY DEF Gobbled, n
<1> HIDE DEF A, B, C
<1>8. /\ A \o B \in Seq(S) /\ Len(A \o B) = n - 1
      /\ \A i \in 1 .. n - 1 : (A \o B)[i] = IF i < at THEN buf[i] ELSE "NUL"
  <2>1. /\ A \o B \in Seq(S) /\ Len(A \o B) = Len(A) + Len(B)
        /\ \A i \in 1 .. Len(A) + Len(B) : (A \o B)[i] =
                     IF i <= Len(A) THEN A[i] ELSE B[i - Len(A)]
    BY <1>4, <1>5, ConcatProperties
  <2>2. Len(A) + Len(B) = n - 1
    BY <1>1, <1>2, <1>3, <1>4, <1>5
  <2>3. ASSUME NEW i \in 1 .. n - 1
        PROVE  (A \o B)[i] = IF i < at THEN buf[i] ELSE "NUL"
    <3>1. i < at => i <= Len(A) /\ A[i] = buf[i]
      BY <1>1, <1>3, <1>4
    <3>2. ~ (i < at) => ~ (i <= Len(A)) /\ i - Len(A) \in 1 .. n - at
      BY <1>1, <1>3, <1>4
    <3> QED BY <2>1, <2>2, <3>1, <3>2, <1>5
  <2> QED BY <2>1, <2>2, <2>3
<1> DEFINE D == A \o B
<1>9. /\ D \o C \in Seq(S) /\ Len(D \o C) = Len(line)
      /\ \A i \in 1 .. Len(line) : (D \o C)[i] =
           IF i < at THEN buf[i] ELSE IF i < n THEN "NUL" ELSE buf[i]
  <2>0. D \in Seq(S) /\ Len(D) = n - 1
        /\ \A i \in 1 .. n - 1 : D[i] = IF i < at THEN buf[i] ELSE "NUL"
    BY <1>8
  <2> HIDE DEF D
  <2>1. /\ D \o C \in Seq(S) /\ Len(D \o C) = Len(D) + Len(C)
        /\ \A i \in 1 .. Len(D) + Len(C) : (D \o C)[i] =
                     IF i <= Len(D) THEN D[i] ELSE C[i - Len(D)]
    BY <1>6, <2>0, ConcatProperties
  <2>2. Len(D) + Len(C) = Len(line)
    BY <1>1, <1>2, <1>3, <1>6, <2>0
  <2>3. ASSUME NEW i \in 1 .. Len(line)
        PROVE  (D \o C)[i] = IF i < at THEN buf[i] ELSE IF i < n THEN "NUL" ELSE buf[i]
    <3>1. i < n => i <= Len(D) /\ i \in 1 .. n - 1
      BY <1>3, <2>0
    <3>2. ~ (i < n) => /\ ~ (i <= Len(D)) /\ i - Len(D) \in 1 .. Len(line) + 1 - n
                       /\ n + (i - Len(D)) - 1 = i /\ ~ (i < at)
      BY <1>1, <1>2, <1>3, <2>0
    <3>3. i < n => (D \o C)[i] = IF i < at THEN buf[i] ELSE "NUL"
      BY <2>0, <2>1, <2>2, <3>1
    <3>4. ~ (i < n) => (D \o C)[i] = buf[i]
      BY <1>6, <2>1, <2>2, <3>2
    <3>5. i < at => i < n
      BY <1>1, <1>2, <1>3
    <3> QED BY <3>2, <3>3, <3>4, <3>5
  <2> QED BY <2>1, <2>2, <2>3
<1>10. ASSUME NEW k \in DOMAIN line
       PROVE  Gobbled[k] = IF k < n /\ line[k] \in WHITESPACE THEN "NUL" ELSE line[k]
  <2>1. buf[k] = IF k < at /\ line[k] \in WHITESPACE THEN "NUL" ELSE line[k]
    BY DEF Parsed, Cut
  <2>2. Gobbled[k] = IF k < at THEN buf[k] ELSE IF k < n THEN "NUL" ELSE buf[k]
    BY <1>1, <1>7, <1>9
  <2>3. k \in Int /\ (k < at => k < n) /\ (k >= at /\ k < n => line[k] \in WHITESPACE)
    BY <1>1, <1>2
  <2>4. k < at \/ k >= at
    BY <1>3, <2>3
  <2> QED BY <1>3, <2>1, <2>2, <2>3, <2>4
<1> QED BY <1>7, <1>9, <1>10 DEF S, n

LEMMA NextArgStep ==
  ASSUME LineOK, ParseInv, next_arg
  PROVE  LineOK' /\ ParseInv'
<1> DEFINE n == NextWord
           e == SkipWhile(buf, n, InWord)
<1>1. /\ pc = "parse" /\ n <= Len(buf) /\ Len(argv) < MAXARGS - 1
      /\ buf' = Gobbled /\ argv' = Append(argv, n) /\ at' = e
      /\ session' = session /\ line' = line /\ pc' = pc
  BY DEF next_arg
<1>2. Parsed /\ Words(at) /\ at \in 1 .. Len(line) + 1
  BY <1>1 DEF Parsed, ParseInv
<1>3. /\ Len(line) \in Nat /\ Len(buf) = Len(line) /\ DOMAIN line = 1 .. Len(line)
  BY LineFactsOf
<1>4. /\ n \in at .. Len(line) + 1
      /\ \A k \in at .. n - 1 : line[k] \in WHITESPACE
      /\ n <= Len(line) => n \in WordStarts
      /\ \A k \in WordStarts : k < n => k < at
  BY <1>2, NextWordIs
<1>5. /\ Gobbled \in Seq(STRING \cup {"NUL"}) /\ Len(Gobbled) = Len(line)
      /\ \A k \in DOMAIN line :
           Gobbled[k] = IF k < n /\ line[k] \in WHITESPACE THEN "NUL" ELSE line[k]
  BY <1>2, GobbledIs
<1> HIDE DEF n
<1>6. n \in 1 .. Len(line) /\ n \in Int /\ n \in WordStarts /\ at \in Int /\ at <= n
  BY <1>1, <1>2, <1>3, <1>4
<1>7. \A k \in 1 .. Len(line) : k >= n => buf[k] = line[k]
  BY <1>2, <1>3, <1>6 DEF Parsed, Cut
<1>8. /\ e \in n .. Len(buf) + 1 /\ \A k \in n .. e - 1 : ~ strchr(buf[k])
      /\ e <= Len(buf) => strchr(buf[e])
  <2>1. Len(buf) \in Nat /\ n \in 1 .. Len(buf) + 1
    BY <1>3, <1>6
  <2>2. \A j : j = SkipWhile(buf, n, InWord) =>
          /\ j \in n .. Len(buf) + 1 /\ \A k \in n .. j - 1 : ~ strchr(buf[k])
          /\ j <= Len(buf) => strchr(buf[j])
    BY <2>1, SkipWord
  <2>3. e = SkipWhile(buf, n, InWord)
    OBVIOUS
  <2> HIDE DEF e
  <2> QED BY <2>2, <2>3
<1> HIDE DEF e
<1>9. /\ e \in n .. Len(line) + 1 /\ \A k \in n .. e - 1 : line[k] \notin WHITESPACE
      /\ e <= Len(line) => line[e] \in WHITESPACE
  BY <1>3, <1>6, <1>7, <1>8 DEF strchr
<1>10. e > n /\ e \in 2 .. Len(line) + 1
  <2>1. line[n] \notin WHITESPACE
    BY <1>6 DEF WordStarts
  <2>2. e # n
    BY <2>1, <1>6, <1>9
  <2> QED BY <2>2, <1>3, <1>6, <1>9
<1>11. LineOK'
  BY <1>1, <1>5 DEF LineOK
<1>12. ASSUME NEW k \in DOMAIN line
       PROVE  buf'[k] = IF k < e /\ line[k] \in WHITESPACE THEN "NUL" ELSE line[k]
  <2>1. k \in Int /\ (k < n => k < e) /\ (k >= n /\ k < e => line[k] \notin WHITESPACE)
    BY <1>3, <1>6, <1>9, <1>10
  <2>2. k < n \/ k >= n
    BY <1>6, <2>1
  <2>3. buf'[k] = IF k < n /\ line[k] \in WHITESPACE THEN "NUL" ELSE line[k]
    BY <1>1, <1>5
  <2> QED BY <2>1, <2>2, <2>3
<1>13. /\ argv' \in Seq(DOMAIN line) /\ Len(argv') = Len(argv) + 1 /\ Len(argv) \in Nat
       /\ argv'[Len(argv) + 1] = n /\ \A i \in 1 .. Len(argv) : argv'[i] = argv[i]
  <2>1. argv \in Seq(DOMAIN line) /\ n \in DOMAIN line
    BY <1>2, <1>3, <1>6 DEF Words
  <2> QED BY <1>1, <2>1, AppendProperties, LenProperties
<1>14. {argv[i] : i \in 1 .. argc} = {k \in WordStarts : k < at}
       /\ \A i, j \in 1 .. argc : i < j => argv[i] < argv[j]
  BY <1>2 DEF Words
<1>15. {k \in WordStarts : k < e} = {k \in WordStarts : k < at} \cup {n}
  <2>1. ASSUME NEW k \in WordStarts, k < e, k # n PROVE k < at
    <3>1. k \in Int /\ k \in DOMAIN line
      BY <1>3 DEF WordStarts
    <3>2. ~ (k > n)
      <4> SUFFICES ASSUME k > n PROVE FALSE
        OBVIOUS
      <4>1. k - 1 \in n .. e - 1 /\ k > 1
        BY <3>1, <2>1, <1>6, <1>9
      <4>2. line[k - 1] \in WHITESPACE
        BY <4>1 DEF WordStarts
      <4> QED BY <4>1, <4>2, <1>9
    <3> QED BY <3>1, <3>2, <2>1, <1>4, <1>6
  <2>2. ASSUME NEW k \in WordStarts, k < at PROVE k < e
    <3>1. k \in Int
      BY <1>3 DEF WordStarts
    <3> QED BY <3>1, <2>2, <1>6, <1>9, <1>10
  <2> QED BY <2>1, <2>2, <1>6, <1>10
<1>16. {argv'[i] : i \in 1 .. Len(argv')} = {k \in WordStarts : k < e}
  <2>1. \A i \in 1 .. Len(argv') : i = Len(argv) + 1 \/ i \in 1 .. Len(argv)
    BY <1>13
  <2>2. {argv'[i] : i \in 1 .. Len(argv')} = {argv[i] : i \in 1 .. Len(argv)} \cup {n}
    BY <1>13, <2>1
  <2> QED BY <2>2, <1>14, <1>15 DEF argc
<1>17. ASSUME NEW i \in 1 .. Len(argv'), NEW j \in 1 .. Len(argv'), i < j
       PROVE  argv'[i] < argv'[j]
  <2>1. i \in 1 .. Len(argv) /\ (j = Len(argv) + 1 \/ j \in 1 .. Len(argv))
    BY <1>13, <1>17
  <2>2. argv[i] \in WordStarts /\ argv[i] < at
    <3>1. argv[i] \in {k \in WordStarts : k < at}
      BY <1>14, <2>1 DEF argc
    <3> QED BY <3>1
  <2>3. argv[i] \in Int
    BY <2>2, <1>3 DEF WordStarts
  <2>4. CASE j = Len(argv) + 1
    BY <2>1, <2>2, <2>3, <2>4, <1>6, <1>13
  <2>5. CASE j \in 1 .. Len(argv)
    BY <2>1, <2>5, <1>13, <1>14, <1>17 DEF argc
  <2> QED BY <2>1, <2>4, <2>5
<1>18. WordStarts' = WordStarts
  BY <1>1 DEF WordStarts
<1>19. Cut(at)' /\ Words(at)' /\ argc' < MAXARGS
  <2>1. Cut(at)'
    BY <1>1, <1>12 DEF Cut
  <2>2. Words(at)'
    BY <1>1, <1>13, <1>16, <1>17, <1>18 DEF Words, argc
  <2>3. MAXARGS \in Nat
    BY MonitorAssumption
  <2> QED BY <2>1, <2>2, <2>3, <1>1, <1>13 DEF argc
<1>20. ParseInv'
  <2>1. /\ at' \in 1 .. Len(line') + 1
        /\ at' \in 2 .. Len(line') => line'[at'] \in WHITESPACE
    BY <1>1, <1>3, <1>9, <1>10
  <2> QED BY <2>1, <1>19 DEF ParseInv
<1> QED BY <1>11, <1>20

LEMMA ParsedStep ==
  ASSUME LineOK, ParseInv, parsed \/ too_many
  PROVE  LineOK' /\ Invoked' /\ pc' \in {"returned", "invoke"}
<1>1. /\ pc = "parse" /\ buf' = Gobbled /\ session' = session /\ line' = line /\ argv' = argv
      /\ pc' \in {"returned", "invoke"}
      /\ pc' = "invoke" => NextWord > Len(buf) /\ argv # <<>>
  BY DEF parsed, too_many, Return0
<1>2. Parsed /\ Words(at) /\ at \in 1 .. Len(line) + 1 /\ argc < MAXARGS
  BY <1>1 DEF Parsed, ParseInv
<1>3. /\ Len(line) \in Nat /\ Len(buf) = Len(line) /\ DOMAIN line = 1 .. Len(line)
  BY LineFactsOf
<1>4. /\ NextWord \in at .. Len(line) + 1
      /\ \A k \in WordStarts : k < NextWord => k < at
  BY <1>2, NextWordIs
<1>5. /\ Gobbled \in Seq(STRING \cup {"NUL"}) /\ Len(Gobbled) = Len(line)
      /\ \A k \in DOMAIN line :
           Gobbled[k] = IF k < NextWord /\ line[k] \in WHITESPACE THEN "NUL" ELSE line[k]
  BY <1>2, GobbledIs
<1> HIDE DEF NextWord
<1>6. LineOK'
  BY <1>1, <1>5 DEF LineOK
<1>7. ASSUME pc' = "invoke"
      PROVE  Cut(Len(line) + 1)' /\ Words(Len(line) + 1)' /\ argc' \in 1 .. MAXARGS - 1
  <2>1. NextWord = Len(line) + 1 /\ argv # <<>>
    BY <1>1, <1>2, <1>3, <1>4, <1>7
  <2>2. Cut(Len(line) + 1)'
    BY <2>1, <1>1, <1>5 DEF Cut
  <2>3. {k \in WordStarts : k < Len(line) + 1} = {k \in WordStarts : k < at}
    <3>1. ASSUME NEW k \in WordStarts PROVE k < Len(line) + 1 /\ k < at
      <4>1. k \in 1 .. Len(line)
        BY <1>3 DEF WordStarts
      <4>2. k < NextWord
        BY <4>1, <2>1, <1>3
      <4> QED BY <4>1, <4>2, <1>3, <1>4
    <3> QED BY <3>1
  <2>4. Words(Len(line) + 1)'
    BY <2>3, <1>1, <1>2 DEF Words, argc, WordStarts
  <2>5. argv \in Seq(DOMAIN line) /\ Len(argv) \in Nat \ {0}
    <3>1. argv \in Seq(DOMAIN line)
      BY <1>2 DEF Words
    <3> QED BY <3>1, <2>1, EmptySeq
  <2>6. MAXARGS \in Nat
    BY MonitorAssumption
  <2> QED BY <2>2, <2>4, <2>5, <2>6, <1>1, <1>2 DEF argc
<1> QED BY <1>1, <1>6, <1>7 DEF Invoked

LEMMA ReadlineStep ==
  ASSUME LineOK, readline
  PROVE  LineOK' /\ ParseInv'
<1>1. /\ line' \in Sessions[session].lines /\ buf' = line' /\ at' = 1 /\ argv' = <<>>
      /\ session' = session /\ session \in DOMAIN Sessions
  BY DEF readline, LineOK
<1>2. line' \in Seq(STRING) /\ \A k \in DOMAIN line' : line'[k] # "NUL"
  BY <1>1, SessionAssumption
<1>3. Len(line') \in Nat /\ DOMAIN line' = 1 .. Len(line')
  BY <1>2, LenProperties
<1>4. buf' \in Seq(STRING \cup {"NUL"})
  <2>1. STRING \subseteq STRING \cup {"NUL"}
    OBVIOUS
  <2> QED BY <1>1, <1>2, <2>1, SeqMonotonic
<1>5. LineOK'
  BY <1>1, <1>2, <1>4 DEF LineOK
<1>6. Cut(at)'
  BY <1>1, <1>3 DEF Cut
<1>7. Words(at)' /\ argc' = 0
  <2>1. Len(<<>>) = 0 /\ <<>> \in Seq(DOMAIN line')
    BY EmptySeq
  <2>2. WordStarts' \subseteq 1 .. Len(line')
    BY <1>3 DEF WordStarts
  <2>3. argc' = 0 /\ 1 .. argc' = {}
    BY <1>1, <2>1 DEF argc
  <2>4. {k \in WordStarts' : k < 1} = {}
    <3>1. ASSUME NEW k \in WordStarts' PROVE ~ (k < 1)
      BY <2>2, <1>3
    <3> QED BY <3>1
  <2> QED BY <1>1, <2>1, <2>3, <2>4 DEF Words
<1>8. MAXARGS \in Nat \ {0, 1}
  BY MonitorAssumption
<1> QED BY <1>1, <1>3, <1>5, <1>6, <1>7, <1>8 DEF ParseInv

(* A word of the line that is cut is the word of the line that was typed.  *)
LEMMA WordEnd ==
  ASSUME LineOK, Cut(Len(line) + 1), NEW s \in WordStarts
  PROVE  \E e \in s + 1 .. Len(line) + 1 :
           /\ \A k \in s .. e - 1 : line[k] \notin WHITESPACE /\ buf[k] = line[k]
           /\ e <= Len(line) => line[e] \in WHITESPACE
           /\ e = SkipWhile(buf, s, NotNul)
<1> DEFINE e == SkipWhile(buf, s, NotNul)
<1>1. /\ Len(line) \in Nat /\ Len(buf) = Len(line) /\ DOMAIN line = 1 .. Len(line)
  BY LineFactsOf
<1>2. s \in 1 .. Len(line) /\ line[s] \notin WHITESPACE
  BY <1>1 DEF WordStarts
<1>3. \A k \in 1 .. Len(line) : buf[k] = IF line[k] \in WHITESPACE THEN "NUL" ELSE line[k]
  BY <1>1 DEF Cut
<1>4. \A k \in 1 .. Len(line) : line[k] # "NUL"
  BY <1>1 DEF LineOK
<1>5. /\ e \in s .. Len(buf) + 1 /\ \A k \in s .. e - 1 : buf[k] # "NUL"
      /\ e <= Len(buf) => buf[e] = "NUL"
  <2>1. Len(buf) \in Nat /\ s \in 1 .. Len(buf) + 1
    BY <1>1, <1>2
  <2>2. \A j : j = SkipWhile(buf, s, NotNul) =>
          /\ j \in s .. Len(buf) + 1 /\ \A k \in s .. j - 1 : buf[k] # "NUL"
          /\ j <= Len(buf) => buf[j] = "NUL"
    BY <2>1, SkipToNul
  <2>3. e = SkipWhile(buf, s, NotNul)
    OBVIOUS
  <2> HIDE DEF e
  <2> QED BY <2>2, <2>3
<1>6. e = SkipWhile(buf, s, NotNul)
  OBVIOUS
<1> HIDE DEF e
<1>7. e # s
  BY <1>1, <1>2, <1>3, <1>4, <1>5
<1>8. e \in s + 1 .. Len(line) + 1
  BY <1>1, <1>2, <1>5, <1>7
<1>9. ASSUME NEW k \in s .. e - 1 PROVE line[k] \notin WHITESPACE /\ buf[k] = line[k]
  <2>1. k \in 1 .. Len(line) /\ buf[k] # "NUL"
    BY <1>1, <1>2, <1>5, <1>8
  <2> QED BY <2>1, <1>3
<1>10. e <= Len(line) => line[e] \in WHITESPACE
  <2> SUFFICES ASSUME e <= Len(line) PROVE line[e] \in WHITESPACE
    OBVIOUS
  <2>1. e \in 1 .. Len(line) /\ buf[e] = "NUL"
    BY <1>1, <1>2, <1>5, <1>8
  <2> QED BY <2>1, <1>3, <1>4
<1> QED BY <1>6, <1>8, <1>9, <1>10

LEMMA WordAtIs ==
  ASSUME LineOK, NEW s \in WordStarts, NEW e \in s + 1 .. Len(line) + 1,
         \A k \in s .. e - 1 : line[k] \notin WHITESPACE,
         e <= Len(line) => line[e] \in WHITESPACE
  PROVE  WordAt(s) = SubSeq(line, s, e - 1)
<1>1. /\ Len(line) \in Nat /\ DOMAIN line = 1 .. Len(line) /\ s \in 1 .. Len(line)
      /\ \A i \in 1 .. Len(line) : line[i] \in STRING
  <2>1. line \in Seq(STRING)
    BY DEF LineOK
  <2>2. Len(line) \in Nat /\ DOMAIN line = 1 .. Len(line)
    BY LineFactsOf
  <2> QED BY <2>1, <2>2, ElementOfSeq DEF WordStarts
<1> DEFINE Cand == {SubSeq(line, s, j) : j \in s .. Len(line)}
           Is(w) == /\ \A k \in DOMAIN w : w[k] \notin WHITESPACE
                    /\ s + Len(w) <= Len(line) => line[s + Len(w)] \in WHITESPACE
<1>2. ASSUME NEW j \in s .. Len(line)
      PROVE  /\ DOMAIN SubSeq(line, s, j) = 1 .. j - s + 1
             /\ Len(SubSeq(line, s, j)) = j - s + 1
             /\ \A i \in 1 .. j - s + 1 : SubSeq(line, s, j)[i] = line[s + i - 1]
  <2>1. s \in Int /\ j \in Int /\ s <= j /\ \A i \in s .. j : line[i] \in STRING
    BY <1>1
  <2>2. /\ SubSeq(line, s, j) \in Seq(STRING)
        /\ Len(SubSeq(line, s, j)) = IF s <= j THEN j - s + 1 ELSE 0
        /\ \A i \in 1 .. j - s + 1 : SubSeq(line, s, j)[i] = line[s + i - 1]
    BY <2>1, SubSeqProperties
  <2>3. DOMAIN SubSeq(line, s, j) = 1 .. Len(SubSeq(line, s, j))
    BY <2>2, LenProperties
  <2> QED BY <2>1, <2>2, <2>3
<1>3. ASSUME NEW j \in s .. Len(line)
      PROVE  Is(SubSeq(line, s, j)) <=> j = e - 1
  <2> DEFINE w == SubSeq(line, s, j)
  <2>1. /\ DOMAIN w = 1 .. j - s + 1 /\ Len(w) = j - s + 1
        /\ \A i \in 1 .. j - s + 1 : w[i] = line[s + i - 1]
    BY <1>2
  <2>2. s + Len(w) = j + 1 /\ j \in Int /\ e \in Int /\ s \in Int
    BY <1>1, <2>1
  <2> HIDE DEF w
  <2>3. ASSUME Is(w) PROVE j = e - 1
    <3>1. \A k \in s .. j : line[k] \notin WHITESPACE
      <4> TAKE k \in s .. j
      <4>1. k - s + 1 \in 1 .. j - s + 1 /\ s + (k - s + 1) - 1 = k
        BY <2>2
      <4> QED BY <4>1, <2>1, <2>3
    <3>2. j + 1 <= Len(line) => line[j + 1] \in WHITESPACE
      BY <2>2, <2>3
    <3>3. ~ (j > e - 1)
      <4> SUFFICES ASSUME j > e - 1 PROVE FALSE
        OBVIOUS
      <4>1. e \in s .. j /\ e <= Len(line)
        BY <1>1, <2>2
      <4> QED BY <4>1, <3>1
    <3>4. ~ (j < e - 1)
      <4> SUFFICES ASSUME j < e - 1 PROVE FALSE
        OBVIOUS
      <4>1. j + 1 \in s .. e - 1 /\ j + 1 <= Len(line)
        BY <1>1, <2>2
      <4> QED BY <4>1, <3>2
    <3> QED BY <3>3, <3>4, <2>2
  <2>4. ASSUME j = e - 1 PROVE Is(w)
    <3>1. \A k \in DOMAIN w : w[k] \notin WHITESPACE
      <4> TAKE k \in DOMAIN w
      <4>1. s + k - 1 \in s .. e - 1 /\ w[k] = line[s + k - 1]
        BY <2>1, <2>2, <2>4
      <4> QED BY <4>1
    <3>2. s + Len(w) = e
      BY <2>2, <2>4
    <3> QED BY <3>1, <3>2
  <2> QED BY <2>3, <2>4 DEF w
<1>4. e - 1 \in s .. Len(line)
  BY <1>1
<1>5. SubSeq(line, s, e - 1) \in Cand /\ Is(SubSeq(line, s, e - 1))
  BY <1>3, <1>4
<1>6. \A w \in Cand : Is(w) => w = SubSeq(line, s, e - 1)
  BY <1>3
<1>7. WordAt(s) = CHOOSE w \in Cand : Is(w)
  BY DEF WordAt
<1> HIDE DEF Cand, Is
<1> QED BY <1>5, <1>6, <1>7

LEMMA WordsRight ==
  ASSUME LineOK, Invoked
  PROVE  ArgvExact
<1> SUFFICES ASSUME pc = "invoke"
             PROVE  /\ argc < MAXARGS
                    /\ {argv[i] : i \in 1 .. argc} = WordStarts
                    /\ \A i, j \in 1 .. argc : i < j => argv[i] < argv[j]
                    /\ \A i \in 1 .. argc : Word(i) = WordAt(argv[i])
  BY DEF ArgvExact
<1>1. Cut(Len(line) + 1) /\ Words(Len(line) + 1) /\ argc \in 1 .. MAXARGS - 1
  BY DEF Invoked
<1>2. argc < MAXARGS
  <2>1. MAXARGS \in Nat
    BY MonitorAssumption
  <2> QED BY <1>1, <2>1
<1>3. {argv[i] : i \in 1 .. argc} = WordStarts
  <2>1. /\ Len(line) \in Nat /\ Len(buf) = Len(line) /\ DOMAIN line = 1 .. Len(line)
    BY LineFactsOf
  <2>2. \A k \in WordStarts : k < Len(line) + 1
    BY <2>1 DEF WordStarts
  <2> QED BY <1>1, <2>2 DEF Words
<1>4. ASSUME NEW i \in 1 .. argc PROVE Word(i) = WordAt(argv[i])
  <2> DEFINE s == argv[i]
  <2>1. s \in WordStarts
    BY <1>3
  <2> HIDE DEF s
  <2>2. PICK e \in s + 1 .. Len(line) + 1 :
           /\ \A k \in s .. e - 1 : line[k] \notin WHITESPACE /\ buf[k] = line[k]
           /\ e <= Len(line) => line[e] \in WHITESPACE
           /\ e = SkipWhile(buf, s, NotNul)
    BY <1>1, <2>1, WordEnd
  <2>3. WordAt(s) = SubSeq(line, s, e - 1)
    BY <2>1, <2>2, WordAtIs
  <2>4. Word(i) = SubSeq(buf, s, e - 1)
    BY <2>2 DEF Word, s
  <2>5. SubSeq(buf, s, e - 1) = SubSeq(line, s, e - 1)
    <3> DEFINE T == {line[k] : k \in s .. e - 1}
               b == SubSeq(buf, s, e - 1)
               c == SubSeq(line, s, e - 1)
    <3>1. /\ s \in Int /\ e - 1 \in Int
          /\ \A k \in s .. e - 1 : line[k] \in T /\ buf[k] \in T /\ buf[k] = line[k]
      <4>1. Len(line) \in Nat /\ s \in 1 .. Len(line)
        BY <2>1, LineFactsOf DEF WordStarts
      <4> QED BY <4>1, <2>2
    <3> HIDE DEF T
    <3>2. /\ b \in Seq(T) /\ Len(b) = IF s <= e - 1 THEN (e - 1) - s + 1 ELSE 0
          /\ \A k \in 1 .. (e - 1) - s + 1 : b[k] = buf[s + k - 1]
      BY <3>1, SubSeqProperties
    <3>3. /\ c \in Seq(T) /\ Len(c) = IF s <= e - 1 THEN (e - 1) - s + 1 ELSE 0
          /\ \A k \in 1 .. (e - 1) - s + 1 : c[k] = line[s + k - 1]
      BY <3>1, SubSeqProperties
    <3> HIDE DEF b, c
    <3>4. Len(b) = Len(c) /\ \A k \in 1 .. Len(b) : b[k] = c[k]
      <4>1. \A k \in 1 .. Len(b) : s + k - 1 \in s .. e - 1 /\ k \in 1 .. (e - 1) - s + 1
        BY <3>1, <3>2
      <4> QED BY <4>1, <3>1, <3>2, <3>3
    <3>5. b = c
      BY <3>2, <3>3, <3>4, SeqEqual
    <3> QED BY <3>5 DEF b, c
  <2> QED BY <2>3, <2>4, <2>5 DEF s
<1> QED BY <1>1, <1>2, <1>3, <1>4 DEF Words

LEMMA WordsKept ==
  ASSUME LineOK, UNCHANGED <<session, line, buf>>, pc' \notin {"parse", "invoke"}
  PROVE  WordsOK'
BY DEF LineOK, WordsOK, ParseInv, Invoked

LEMMA WordsNext ==
  ASSUME Inv, [Next]_vars
  PROVE  WordsOK'
<1>0. LineOK /\ ParseInv /\ Invoked
  BY DEF Inv, WordsOK
<1>1. CASE UNCHANGED vars
  BY <1>0, <1>1 DEF vars, mvars, WordsOK, LineOK, ParseInv, Invoked, Cut, Words, WordStarts, argc
<1>2. CASE readline
  <2>1. pc' = "parse"
    BY <1>2 DEF readline
  <2> QED BY <2>1, <1>0, <1>2, ReadlineStep DEF WordsOK, Invoked
<1>3. CASE monitor
  <2>1. line' = <<>> /\ buf' = <<>> /\ session' = session /\ pc' = "prompt"
    BY <1>3 DEF monitor
  <2>2. Len(<<>>) = 0 /\ DOMAIN <<>> = {} /\ <<>> \in Seq(STRING)
        /\ <<>> \in Seq(STRING \cup {"NUL"})
    BY EmptySeq
  <2>3. LineOK'
    BY <2>1, <2>2, <1>0 DEF LineOK
  <2> QED BY <2>1, <2>3 DEF WordsOK, ParseInv, Invoked
<1>4. CASE next_arg
  <2>1. pc' = "parse"
    BY <1>4 DEF next_arg
  <2> QED BY <2>1, <1>0, <1>4, NextArgStep DEF WordsOK, Invoked
<1>5. CASE too_many \/ parsed
  <2>1. LineOK' /\ Invoked' /\ pc' \in {"returned", "invoke"}
    BY <1>0, <1>5, ParsedStep
  <2> QED BY <2>1 DEF WordsOK, ParseInv
<1>6. CASE Row
  <2>1. UNCHANGED <<session, line, buf>> /\ pc' \in Loops \cup {"panic", "returned"}
    BY <1>6 DEF Row, mon_showmappings_entry, memxv_word, memxv_panic, memxp_word, shown, Show,
                Return0, mvars, Loops
  <2> QED BY <2>1, <1>0, WordsKept DEF Loops
<1>7. CASE Invoke
  <2>1. CASE unknown \/ mon_help \/ mon_kerninfo \/ mon_meminfo \/ mon_exit \/ bad_range \/ bad_pgmod
    <3>1. UNCHANGED <<session, line, buf>> /\ pc' \in {"returned", "left"}
      BY <2>1 DEF unknown, mon_help, mon_kerninfo, mon_meminfo, mon_exit, bad_range, bad_pgmod,
                  Return0, mvars
    <3> QED BY <3>1, <1>0, WordsKept
  <2>2. CASE mon_showmappings \/ mon_memxv \/ mon_memxp
    <3>1. UNCHANGED <<session, line, buf>> /\ pc' \in Loops
      BY <2>2 DEF mon_showmappings, mon_memxv, mon_memxp, BeginRange, Loops
    <3> QED BY <3>1, <1>0, WordsKept DEF Loops
  <2>3. CASE mon_pgmod
    BY <2>3, <1>0, WordsKept DEF mon_pgmod, Return0
  <2>4. CASE mon_backtrace
    BY <2>4, <1>0, WordsKept DEF mon_backtrace
  <2> QED BY <1>7, <2>1, <2>2, <2>3, <2>4 DEF Invoke
<1>8. CASE Backtrace
  <2>1. CASE next_frame \/ frame_fault \/ frame_shown \/ last_frame
    <3>1. UNCHANGED <<session, line, buf>> /\ pc' \notin {"prompt", "parse", "invoke"}
      BY <2>1 DEF next_frame, frame_fault, frame_shown, last_frame, debuginfo_eip, Search, Return0, mvars
    <3> QED BY <3>1, <1>0, WordsKept
  <2>2. CASE lookup /\ UNCHANGED mvars
    <3>1. UNCHANGED <<session, line, buf>>
      BY <2>2 DEF mvars
    <3>2. pc' \in {"search", "found", "answer"}
      BY <2>2, StabStep DEF lookup, no_file, file_found, fun_found, no_fun, no_line, line_found,
                            Return, Search, Inv, LookupOK
    <3> QED BY <3>1, <3>2, <1>0, WordsKept
  <2> QED BY <1>8, <2>1, <2>2 DEF Backtrace
<1> QED BY <1>1, <1>2, <1>3, <1>4, <1>5, <1>6, <1>7, <1>8 DEF Next, runcmd, Parse

(* A number that strtol reads is an address, whatever it reads: the value  *)
(* of its digits is a function that exists, by induction on their number.  *)
LEMMA DigitsHaveAValue ==
  ASSUME NEW s, NEW from \in Int, NEW end \in Int, from <= end,
         \A i \in from .. end - 1 : Digit(s[i]) \in Int
  PROVE  \A f : f = (CHOOSE g : g = [i \in from - 1 .. end - 1 |->
                                       IF i < from THEN 0 ELSE g[i - 1] * 16 + Digit(s[i])])
                => f[end - 1] \in Int
<1> DEFINE Step(g, hi) == [i \in from - 1 .. hi |->
                             IF i < from THEN 0 ELSE g[i - 1] * 16 + Digit(s[i])]
           Some == {n \in Nat : \E g : g = Step(g, from - 1 + n)}
<1>1. 0 \in Some
  <2> DEFINE g == [i \in from - 1 .. from - 1 |-> 0]
  <2>1. g = Step(g, from - 1 + 0)
    OBVIOUS
  <2> QED BY <2>1
<1>2. ASSUME NEW n \in Nat, n \in Some PROVE n + 1 \in Some
  <2>1. PICK g : g = Step(g, from - 1 + n)
    BY <1>2
  <2> DEFINE h == [i \in from - 1 .. from - 1 + (n + 1) |->
                     IF i = from + n THEN g[from + n - 1] * 16 + Digit(s[from + n]) ELSE g[i]]
  <2>2. \A i \in from - 1 .. from - 1 + n : h[i] = g[i] /\ i # from + n
                                            /\ i \in from - 1 .. from - 1 + (n + 1)
    OBVIOUS
  <2>3. ASSUME NEW i \in from - 1 .. from - 1 + (n + 1)
        PROVE  h[i] = IF i < from THEN 0 ELSE h[i - 1] * 16 + Digit(s[i])
    <3>1. CASE i = from + n
      <4>1. h[i] = g[i - 1] * 16 + Digit(s[i]) /\ i - 1 \in from - 1 .. from - 1 + n /\ ~ (i < from)
        BY <3>1
      <4>2. h[i - 1] = g[i - 1]
        BY <2>2, <4>1
      <4> HIDE DEF h
      <4> QED BY <4>1, <4>2
    <3>2. CASE i # from + n
      <4>1. i \in from - 1 .. from - 1 + n
        BY <3>2
      <4>2. h[i] = g[i] /\ g[i] = IF i < from THEN 0 ELSE g[i - 1] * 16 + Digit(s[i])
        BY <2>1, <2>2, <4>1
      <4>3. ~ (i < from) => i - 1 \in from - 1 .. from - 1 + n
        BY <4>1
      <4>4. ~ (i < from) => h[i - 1] = g[i - 1]
        BY <2>2, <4>3
      <4> HIDE DEF h
      <4> QED BY <4>2, <4>4
    <3> QED BY <3>1, <3>2
  <2>4. h = Step(h, from - 1 + (n + 1))
    BY <2>3
  <2> HIDE DEF h
  <2>5. \E k : k = Step(k, from - 1 + (n + 1))
    BY <2>4
  <2>6. n + 1 \in Nat
    OBVIOUS
  <2> HIDE DEF Step
  <2> QED BY <2>5, <2>6
<1>3. end - from \in Some
  <2>1. Nat \subseteq Some
    <3> HIDE DEF Some
    <3> QED BY <1>1, <1>2, SetInduction
  <2>2. end - from \in Nat
    OBVIOUS
  <2> HIDE DEF Some
  <2> QED BY <2>1, <2>2
<1>4. \E g : g = Step(g, end - 1)
  <2>1. from - 1 + (end - from) = end - 1
    OBVIOUS
  <2> QED BY <1>3, <2>1
<1> SUFFICES ASSUME NEW f, f = CHOOSE g : g = Step(g, end - 1) PROVE f[end - 1] \in Int
  OBVIOUS
<1>5. f = Step(f, end - 1)
  <2> HIDE DEF Step
  <2> QED BY <1>4
<1>6. \A i \in from - 1 .. end - 1 :
         f[i] = IF i < from THEN 0 ELSE f[i - 1] * 16 + Digit(s[i])
  BY <1>5
<1> DEFINE Whole == {n \in Nat : from - 1 + n <= end - 1 => f[from - 1 + n] \in Int}
<1>7. 0 \in Whole
  <2>1. f[from - 1] = 0
    BY <1>6
  <2>2. from - 1 + 0 = from - 1
    OBVIOUS
  <2> QED BY <2>1, <2>2
<1>8. ASSUME NEW n \in Nat, n \in Whole PROVE n + 1 \in Whole
  <2> SUFFICES ASSUME from - 1 + (n + 1) <= end - 1 PROVE f[from + n] \in Int
    OBVIOUS
  <2>1. f[from + n] = f[from + n - 1] * 16 + Digit(s[from + n])
    <3>1. from + n \in from - 1 .. end - 1 /\ ~ (from + n < from)
      OBVIOUS
    <3> QED BY <3>1, <1>6
  <2>2. f[from + n - 1] \in Int
    BY <1>8
  <2>3. Digit(s[from + n]) \in Int
    OBVIOUS
  <2> QED BY <2>1, <2>2, <2>3
<1>9. Nat \subseteq Whole
  <2> HIDE DEF Whole
  <2> QED BY <1>7, <1>8, SetInduction
<1>10. end - from \in Whole
  <2>1. end - from \in Nat
    OBVIOUS
  <2> HIDE DEF Whole
  <2> QED BY <2>1, <1>9
<1> QED BY <1>10

LEMMA StrtolIsAddress ==
  ASSUME NEW s, Len(s) \in Nat
  PROVE  strtol(s).val \in Addr
<1> DEFINE neg == s # <<>> /\ s[1] = "-"
           sign == IF s # <<>> /\ s[1] \in {"+", "-"} THEN 1 ELSE 0
           prefix == IF Len(s) >= sign + 2 /\ s[sign + 1] = "0" /\ s[sign + 2] = "x" THEN 2 ELSE 0
           from == sign + prefix + 1
           end == SkipWhile(s, from, IsDigit)
           val == CHOOSE g : g = [i \in from - 1 .. end - 1 |->
                                    IF i < from THEN 0 ELSE g[i - 1] * 16 + Digit(s[i])]
<1>1. strtol(s).val = (IF neg THEN -val[end - 1] ELSE val[end - 1]) % Top
  BY DEF strtol
<1>2. from \in 1 .. Len(s) + 1
  OBVIOUS
<1> HIDE DEF from
<1>3. end \in from .. Len(s) + 1 /\ \A k \in from .. end - 1 : IsDigit(s[k])
  <2>1. \A j : j = SkipWhile(s, from, IsDigit) =>
          j \in from .. Len(s) + 1 /\ \A k \in from .. j - 1 : IsDigit(s[k])
    BY <1>2, SkipDigits
  <2> QED BY <2>1
<1> HIDE DEF end
<1>4. \A c : IsDigit(c) => Digit(c) \in Int
  <2> SUFFICES ASSUME NEW c, IsDigit(c) PROVE Digit(c) \in Int
    OBVIOUS
  <2>1. \A i \in DOMAIN Hex : i \in Int
    BY DEF Hex
  <2>2. \E i \in DOMAIN Hex : c \in Hex[i]
    BY DEF IsDigit
  <2> QED BY <2>1, <2>2 DEF Digit
<1>5. val[end - 1] \in Int
  <2>1. from \in Int /\ end \in Int /\ from <= end
        /\ \A i \in from .. end - 1 : Digit(s[i]) \in Int
    BY <1>2, <1>3, <1>4
  <2>2. \A f : f = val => f[end - 1] \in Int
    BY <2>1, DigitsHaveAValue
  <2> QED BY <2>2
<1>6. Top \in Nat \ {0}
  BY MonitorAssumption
<1> DEFINE v == IF neg THEN -val[end - 1] ELSE val[end - 1]
<1>7. v \in Int
  <2> HIDE DEF val
  <2> QED BY <1>5
<1>8. v % Top \in 0 .. Top - 1
  <2> HIDE DEF v
  <2> QED BY <1>6, <1>7, ModRange
<1> QED BY <1>1, <1>8 DEF Addr

LEMMA NumberIsAddress ==
  ASSUME LineOK, argv \in Seq(DOMAIN line), NEW i \in 1 .. argc
  PROVE  Number(i) \in Addr
<1>1. /\ Len(line) \in Nat /\ Len(buf) = Len(line) /\ DOMAIN line = 1 .. Len(line)
  BY LineFactsOf
<1>2. argv[i] \in 1 .. Len(line)
  BY <1>1, ElementOfSeq DEF argc
<1> DEFINE s == argv[i]
           e == SkipWhile(buf, s, NotNul)
<1>3. e \in s .. Len(buf) + 1
  <2>1. Len(buf) \in Nat /\ s \in 1 .. Len(buf) + 1
    BY <1>1, <1>2
  <2>2. \A j : j = SkipWhile(buf, s, NotNul) =>
          /\ j \in s .. Len(buf) + 1 /\ \A k \in s .. j - 1 : buf[k] # "NUL"
          /\ j <= Len(buf) => buf[j] = "NUL"
    <3> HIDE DEF s
    <3> QED BY <2>1, SkipToNul
  <2> QED BY <2>2
<1>4. Word(i) = SubSeq(buf, s, e - 1)
  BY DEF Word
<1> HIDE DEF e
<1>5. Len(Word(i)) \in Nat
  <2> DEFINE T == {buf[k] : k \in s .. e - 1}
  <2>1. s \in Int /\ e - 1 \in Int /\ \A k \in s .. e - 1 : buf[k] \in T
    <3>1. \A k \in s .. e - 1 : buf[k] \in T
      OBVIOUS
    <3>2. s \in Int /\ Len(buf) \in Int
      BY <1>1, <1>2
    <3> HIDE DEF s, T
    <3> QED BY <1>3, <3>1, <3>2
  <2> HIDE DEF s, T
  <2>2. Len(SubSeq(buf, s, e - 1)) = IF s <= e - 1 THEN (e - 1) - s + 1 ELSE 0
    BY <2>1, SubSeqProperties
  <2> QED BY <1>4, <2>1, <2>2
<1> QED BY <1>5, StrtolIsAddress DEF Number

----------------------------------------------------------------------------
(* Addresses, and the entries of kern_pgdir.                               *)
LEMMA Sizes ==
  /\ Top \in Nat \ {0} /\ PGSIZE \in Nat \ {0} /\ NPTE \in Nat \ {0} /\ WORD \in Nat \ {0}
  /\ npages \in Nat /\ MaxRows \in Nat /\ MaxRows * WORD >= Top
  /\ \E w \in Nat \ {0} : PGSIZE = w * WORD
  /\ \E n \in Nat \ {0} : Top = n * PGSIZE /\ n = (Top \div (PGSIZE * NPTE)) * NPTE
  /\ Top \div (PGSIZE * NPTE) \in Int
<1>1. /\ Top \in Nat \ {0} /\ PGSIZE \in Nat \ {0} /\ NPTE \in Nat \ {0} /\ WORD \in Nat \ {0}
      /\ npages \in Nat /\ MaxRows \in Nat /\ MaxRows * WORD >= Top
      /\ PGSIZE % WORD = 0 /\ Top % (PGSIZE * NPTE) = 0
  BY MonitorAssumption
<1>2. PGSIZE * NPTE \in Nat \ {0}
  <2>1. PGSIZE > 0
    BY <1>1
  <2>2. PGSIZE * NPTE >= NPTE
    BY <1>1, <2>1, MulRange
  <2> QED BY <1>1, <2>2
<1> DEFINE w == PGSIZE \div WORD
           d == Top \div (PGSIZE * NPTE)
<1>3. w \in Int /\ PGSIZE = w * WORD
  <2>1. w \in Int /\ PGSIZE = w * WORD + (PGSIZE % WORD)
    BY <1>1, ModRange
  <2> QED BY <1>1, <2>1
<1>4. w \in Nat \ {0}
  <2> HIDE DEF w
  <2>1. ~ (w < 0)
    <3>1. w < 0 => w * WORD + WORD <= 0 * WORD
      BY <1>1, <1>3, MulGap
    <3> QED BY <1>1, <1>3, <3>1
  <2> QED BY <1>1, <1>3, <2>1
<1>5. d \in Int /\ Top = d * (PGSIZE * NPTE)
  <2> DEFINE k == PGSIZE * NPTE
  <2>1. k \in Nat \ {0}
    BY <1>2
  <2> HIDE DEF k
  <2>2. Top \div k \in Int /\ Top = (Top \div k) * k + (Top % k)
    BY <1>1, <2>1, ModRange
  <2>3. Top % k = 0
    BY <1>1 DEF k
  <2> QED BY <2>1, <2>2, <2>3, <1>1 DEF k
<1> HIDE DEF d, w
<1>6. d * NPTE \in Int /\ Top = (d * NPTE) * PGSIZE
  BY <1>1, <1>5
<1>7. d * NPTE \in Nat \ {0}
  <2> DEFINE n == d * NPTE
  <2>1. n \in Int /\ Top = n * PGSIZE
    BY <1>6
  <2> HIDE DEF n
  <2>2. n < 0 => n * PGSIZE + PGSIZE <= 0 * PGSIZE
    BY <1>1, <2>1, MulGap
  <2>3. n \in Nat \ {0}
    BY <1>1, <2>1, <2>2
  <2> QED BY <2>3 DEF n
<1> QED BY <1>1, <1>3, <1>4, <1>5, <1>6, <1>7 DEF d

LEMMA PageOf ==
  ASSUME NEW a \in Addr
  PROVE  /\ a \in Nat /\ PGNUM(a) \in Nat /\ a = PGNUM(a) * PGSIZE + (a % PGSIZE)
         /\ a % PGSIZE \in 0 .. PGSIZE - 1
         /\ PDX(a) \in 0 .. (Top \div (PGSIZE * NPTE)) - 1 /\ PTX(a) \in 0 .. NPTE - 1
         /\ PGNUM(a) = PDX(a) * NPTE + PTX(a)
<1> DEFINE d == Top \div (PGSIZE * NPTE)
           p == a \div PGSIZE
<1>1. /\ Top \in Nat \ {0} /\ PGSIZE \in Nat \ {0} /\ NPTE \in Nat \ {0} /\ d \in Int
      /\ Top = (d * NPTE) * PGSIZE
  BY Sizes
<1>2. a \in Nat /\ a < Top
  BY <1>1 DEF Addr
<1> HIDE DEF d, p
<1>3. p \in 0 .. d * NPTE - 1
  <2> DEFINE c == d * NPTE
  <2>1. c \in Int /\ a < c * PGSIZE
    BY <1>1, <1>2
  <2> HIDE DEF c
  <2> QED BY <1>1, <1>2, <2>1, DivBelow DEF p, c
<1>4. p \in Nat /\ p < d * NPTE
  BY <1>1, <1>3
<1>5. p \div NPTE \in 0 .. d - 1
  BY <1>1, <1>4, DivBelow
<1>6. p % NPTE \in 0 .. NPTE - 1 /\ p = (p \div NPTE) * NPTE + (p % NPTE)
  BY <1>1, <1>4, ModRange
<1>7. a % PGSIZE \in 0 .. PGSIZE - 1 /\ a = (a \div PGSIZE) * PGSIZE + (a % PGSIZE)
  BY <1>1, <1>2, ModRange
<1> QED BY <1>2, <1>4, <1>5, <1>6, <1>7 DEF PGNUM, PDX, PTX, p, d

(* An address of a page is its number, times the size of a page.           *)
LEMMA PageAddress ==
  ASSUME NEW i \in 0 .. (Top \div PGSIZE) - 1
  PROVE  PGSIZE * i \in Addr /\ (PGSIZE * i) % PGSIZE = 0
<1> DEFINE n == Top \div PGSIZE
<1>1. /\ Top \in Nat \ {0} /\ PGSIZE \in Nat \ {0}
  BY Sizes
<1>2. n \in Int /\ n * PGSIZE <= Top
  BY <1>1, ModRange
<1> HIDE DEF n
<1>3. i \in Int /\ 0 <= i /\ i < n
  BY <1>2 DEF n
<1>4. i * PGSIZE + PGSIZE <= n * PGSIZE
  BY <1>1, <1>2, <1>3, MulGap
<1>5. i * PGSIZE \in Nat /\ PGSIZE * i = i * PGSIZE
  <2>1. i \in Nat
    BY <1>3
  <2> QED BY <1>1, <2>1, MulRange
<1>6. (i * PGSIZE + 0) % PGSIZE = 0
  <2>1. 0 \in 0 .. PGSIZE - 1
    BY <1>1
  <2> QED BY <1>1, <1>3, <2>1, ModUnique
<1>7. i * PGSIZE + 0 = i * PGSIZE
  BY <1>5
<1> QED BY <1>1, <1>2, <1>4, <1>5, <1>6, <1>7 DEF Addr

LEMMA EntryFacts ==
  ASSUME PgdirOK, NEW a \in Addr, HasTable(a)
  PROVE  /\ kern_pgdir[PDX(a)] \in PageTable
         /\ Entry(a) \in [P : BOOLEAN, page : Nat, U : BOOLEAN, W : BOOLEAN]
<1>1. kern_pgdir[PDX(a)] \in PageTable
  BY PageOf DEF PgdirOK, HasTable
<1>2. PTX(a) \in 0 .. NPTE - 1
  BY PageOf
<1> QED BY <1>1, <1>2 DEF Entry, PageTable

(* The only command that changes kern_pgdir.                               *)
LEMMA PgmodStep ==
  ASSUME LineOK, Invoked, PgdirOK, mon_pgmod
  PROVE  /\ PgdirOK' /\ Word(1) = <<"pgmod">> /\ argc = 4
         /\ \A a \in {PGSIZE * i : i \in 0 .. (Top \div PGSIZE) - 1} :
              /\ HasTable(a) <=> HasTable(a)'
              /\ HasTable(a) =>
                   /\ Entry(a)'.P = Entry(a).P /\ Entry(a)'.page = Entry(a).page
                   /\ Entry(a)' # Entry(a) => a = Low
<1> DEFINE d == PDX(Low)
           t == PTX(Low)
           u == Number(3) # 0
           w == Number(4) # 0
           edited == [kern_pgdir[d] EXCEPT ![t] = Edited(Entry(Low), u, w)]
<1>1. /\ Word(1) = <<"pgmod">> /\ argc = 4 /\ pc = "invoke" /\ HasTable(Low)
      /\ Low = ROUNDDOWN(Low, PGSIZE)
      /\ kern_pgdir' = [kern_pgdir EXCEPT ![d][t] = Edited(@, u, w)]
  BY DEF mon_pgmod, Command, ModGiven
<1>2. Low \in Addr
  <2>1. argv \in Seq(DOMAIN line)
    BY <1>1 DEF Invoked, Words
  <2>2. 2 \in 1 .. argc
    BY <1>1
  <2> QED BY <2>1, <2>2, NumberIsAddress DEF Low
<1>3. /\ Low \in Nat /\ Low = PGNUM(Low) * PGSIZE + (Low % PGSIZE) /\ Low % PGSIZE \in 0 .. PGSIZE - 1
      /\ PGNUM(Low) \in Nat
      /\ d \in 0 .. (Top \div (PGSIZE * NPTE)) - 1 /\ t \in 0 .. NPTE - 1
      /\ PGNUM(Low) = d * NPTE + t
  BY <1>2, PageOf
<1>4. Low = PGNUM(Low) * PGSIZE
  <2> DEFINE lo == Low
             m0 == lo % PGSIZE
  <2>1. lo = lo - m0 /\ m0 \in Int /\ lo \in Int
    BY <1>1, <1>3 DEF ROUNDDOWN
  <2>2. lo = PGNUM(lo) * PGSIZE + m0 /\ PGNUM(lo) * PGSIZE \in Int
    <3>1. PGNUM(lo) \in Nat /\ PGSIZE \in Nat
      BY <1>3, Sizes
    <3>2. PGNUM(lo) * PGSIZE \in Int
      BY <3>1
    <3> QED BY <1>3, <3>2
  <2> HIDE DEF lo, m0
  <2>3. m0 = 0
    BY <2>1
  <2>4. lo = PGNUM(lo) * PGSIZE
    BY <2>1, <2>2, <2>3
  <2> QED BY <2>4 DEF lo
<1>5. kern_pgdir[d] \in PageTable
      /\ Entry(Low) \in [P : BOOLEAN, page : Nat, U : BOOLEAN, W : BOOLEAN]
  BY <1>1, <1>2, EntryFacts
<1> DEFINE e == Edited(Entry(Low), u, w)
<1>6. /\ e \in [P : BOOLEAN, page : Nat, U : BOOLEAN, W : BOOLEAN]
      /\ e.P = Entry(Low).P /\ e.page = Entry(Low).page
  <2>1. u \in BOOLEAN /\ w \in BOOLEAN
    OBVIOUS
  <2> HIDE DEF u, w
  <2> QED BY <1>5, <2>1 DEF Edited
<1> HIDE DEF d, t, u, w
<1>7. kern_pgdir' = [kern_pgdir EXCEPT ![d] = edited]
  BY <1>1 DEF Entry, d, t
<1> HIDE DEF e
<1>8. edited \in PageTable /\ edited = [kern_pgdir[d] EXCEPT ![t] = e]
  BY <1>3, <1>5, <1>6 DEF PageTable, e
<1> HIDE DEF edited
<1>9. PgdirOK'
  BY <1>7, <1>8 DEF PgdirOK
<1>10. ASSUME NEW i \in 0 .. (Top \div PGSIZE) - 1, NEW a, a = PGSIZE * i
       PROVE  /\ HasTable(a) <=> HasTable(a)'
              /\ HasTable(a) =>
                   /\ Entry(a)'.P = Entry(a).P /\ Entry(a)'.page = Entry(a).page
                   /\ Entry(a)' # Entry(a) => a = Low
  <2>1. a \in Addr /\ a % PGSIZE = 0
    BY <1>10, PageAddress
  <2>2. /\ a = PGNUM(a) * PGSIZE + (a % PGSIZE) /\ PGNUM(a) \in Nat
        /\ PDX(a) \in 0 .. (Top \div (PGSIZE * NPTE)) - 1 /\ PTX(a) \in 0 .. NPTE - 1
        /\ PGNUM(a) = PDX(a) * NPTE + PTX(a)
    BY <2>1, PageOf
  <2>3. kern_pgdir'[PDX(a)] = IF PDX(a) = d THEN edited ELSE kern_pgdir[PDX(a)]
    BY <1>7, <2>2 DEF PgdirOK
  <2>4. HasTable(a) <=> HasTable(a)'
    <3>1. edited # NoTable
      BY <1>8, SessionAssumption
    <3>2. kern_pgdir[d] # NoTable
      BY <1>1 DEF HasTable, d
    <3> QED BY <2>3, <3>1, <3>2 DEF HasTable
  <2>5. CASE PDX(a) = d /\ PTX(a) = t
    <3>1. a = Low
      <4>1. PGNUM(a) = PGNUM(Low)
        BY <2>2, <2>5, <1>3
      <4>2. PGNUM(a) * PGSIZE + 0 = PGNUM(a) * PGSIZE
        <5>1. PGSIZE \in Nat
          BY Sizes
        <5> QED BY <2>2, <5>1
      <4> QED BY <4>1, <4>2, <2>1, <2>2, <1>4
    <3>2. Entry(a)' = e
      <4>1. kern_pgdir'[PDX(a)][PTX(a)] = e
        BY <2>3, <2>5, <1>3, <1>5, <1>8 DEF PageTable
      <4> QED BY <4>1 DEF Entry
    <3>3. Entry(a) = Entry(Low)
      BY <2>5 DEF Entry, d, t
    <3> QED BY <2>4, <3>1, <3>2, <3>3, <1>6
  <2>6. CASE ~ (PDX(a) = d /\ PTX(a) = t)
    <3>1. HasTable(a) => Entry(a)' = Entry(a)
      <4>1. HasTable(a) => kern_pgdir'[PDX(a)][PTX(a)] = kern_pgdir[PDX(a)][PTX(a)]
        BY <2>2, <2>3, <2>6, <1>5, <1>8 DEF PageTable
      <4> QED BY <4>1 DEF Entry
    <3> QED BY <2>4, <3>1
  <2> QED BY <2>5, <2>6
<1> QED BY <1>1, <1>9, <1>10

----------------------------------------------------------------------------
(* The loops of the range commands.                                        *)
LEMMA RangeFacts ==
  ASSUME va_lo \in Addr, va_hi \in Addr, va_lo <= va_hi
  PROVE  /\ FirstOf \in Nat /\ FirstOf <= va_lo /\ StepOf \in Nat \ {0} /\ Count \in Nat \ {0}
         /\ FirstOf + (Count - 1) * StepOf <= va_hi
         /\ va_hi < FirstOf + Count * StepOf
         /\ \E k \in Nat \ {0} : Top = k * StepOf
         /\ StepOf <= Top /\ MaxRows * StepOf >= Top
<1> DEFINE F == FirstOf
           St == StepOf
           q == (va_hi - F) \div St
<1>1. /\ Top \in Nat \ {0} /\ PGSIZE \in Nat \ {0} /\ WORD \in Nat \ {0}
      /\ MaxRows \in Nat /\ MaxRows * WORD >= Top
  BY Sizes
<1>2. PICK w \in Nat \ {0} : PGSIZE = w * WORD
  BY Sizes
<1>3. PICK n \in Nat \ {0} : Top = n * PGSIZE
  BY Sizes
<1>4. va_lo \in Nat /\ va_hi \in Nat
  BY <1>1 DEF Addr
<1>5. F \in Nat /\ F <= va_lo
  <2>1. va_lo % PGSIZE \in 0 .. PGSIZE - 1 /\ va_lo = (va_lo \div PGSIZE) * PGSIZE + (va_lo % PGSIZE)
    BY <1>1, <1>4, ModRange
  <2>2. va_lo \div PGSIZE \in Nat
    <3>1. PGNUM(va_lo) \in Nat
      BY PageOf
    <3> QED BY <3>1 DEF PGNUM
  <2>3. (va_lo \div PGSIZE) * PGSIZE \in Nat
    BY <1>1, <2>2, MulRange
  <2> DEFINE b == (va_lo \div PGSIZE) * PGSIZE
             m0 == va_lo % PGSIZE
  <2>4. b \in Nat /\ m0 \in Nat /\ va_lo = b + m0
    BY <1>1, <2>1, <2>3
  <2>5. F = va_lo - m0 \/ F = va_lo
    BY DEF FirstOf, ROUNDDOWN
  <2> HIDE DEF b, m0
  <2> QED BY <1>4, <2>4, <2>5
<1>6. St \in Nat \ {0} /\ St >= WORD
  <2>1. w * WORD >= WORD
    BY <1>1, MulRange
  <2> QED BY <1>1, <1>2, <2>1 DEF StepOf
<1>7. PICK k \in Nat \ {0} : Top = k * St
  <2>1. Top = n * PGSIZE /\ Top = (n * w) * WORD
    BY <1>1, <1>2, <1>3
  <2>2. n * w \in Nat \ {0}
    <3>1. n * w >= w
      BY MulRange
    <3> QED BY <3>1
  <2> QED BY <2>1, <2>2 DEF StepOf
<1> HIDE DEF F, St
<1>8. St <= Top
  <2>1. k * St >= St
    BY <1>6, <1>7, MulRange
  <2> QED BY <2>1, <1>7
<1>9. MaxRows * St >= Top
  <2>1. PICK d \in Nat : St = WORD + d
    <3>1. St - WORD \in Nat /\ St = WORD + (St - WORD)
      BY <1>1, <1>6
    <3> QED BY <3>1
  <2>2. MaxRows * St = MaxRows * WORD + MaxRows * d
    BY <1>1, <2>1
  <2>3. MaxRows * d \in Nat /\ MaxRows * WORD \in Nat
    BY <1>1
  <2> QED BY <1>1, <2>2, <2>3
<1>10. q \in Int /\ va_hi - F = q * St + ((va_hi - F) % St) /\ (va_hi - F) % St \in 0 .. St - 1
  <2> DEFINE x == va_hi - F
  <2>1. x \in Int
    BY <1>4, <1>5
  <2> HIDE DEF x
  <2>2. x \div St \in Int /\ x = (x \div St) * St + (x % St) /\ x % St \in 0 .. St - 1
    BY <1>6, <2>1, ModRange
  <2> QED BY <2>2 DEF x
<1>11. Count = q + 1
  BY DEF Count, F, St
<1> DEFINE s == (va_hi - F) % St
<1>12. s \in 0 .. St - 1 /\ va_hi - F = q * St + s
  BY <1>10
<1> HIDE DEF q, s
<1>13. q \in Nat
  <2>1. q < 0 => q * St + St <= 0 * St
    BY <1>6, <1>10, MulGap
  <2>2. q * St \in Int /\ 0 * St = 0
    BY <1>6, <1>10
  <2> QED BY <2>1, <2>2, <1>4, <1>5, <1>6, <1>10, <1>12
<1>14. (q + 1) * St = q * St + St /\ q * St \in Int
  BY <1>6, <1>13
<1>15. F + q * St <= va_hi /\ va_hi < F + (q + 1) * St
  BY <1>4, <1>5, <1>6, <1>12, <1>14
<1>16. Count \in Nat \ {0} /\ Count - 1 = q
  BY <1>11, <1>13
<1> QED BY <1>5, <1>6, <1>7, <1>8, <1>9, <1>11, <1>15, <1>16 DEF F, St

LEMMA SameRange ==
  ASSUME UNCHANGED <<buf, argv, va_lo, va_hi, kern_pgdir>>
  PROVE  /\ FirstOf' = FirstOf /\ StepOf' = StepOf /\ Count' = Count
         /\ ReachesTop' = ReachesTop /\ Word(1)' = Word(1)
         /\ \A row, a : RowTrue(row, a)' = RowTrue(row, a)
<1>1. Word(1)' = Word(1)
  BY DEF Word
<1>2. StepOf' = StepOf /\ FirstOf' = FirstOf
  BY <1>1 DEF StepOf, FirstOf, ByPage
<1>3. Count' = Count
  BY <1>2 DEF Count
<1>4. ReachesTop' = ReachesTop
  BY <1>2, <1>3 DEF ReachesTop
<1>5. \A row, a : RowTrue(row, a)' = RowTrue(row, a)
  <2>1. /\ ByPage' = ByPage /\ \A a : HasTable(a)' = HasTable(a) /\ Present(a)' = Present(a)
        /\ \A a : Entry(a)' = Entry(a) /\ VirtualWord(a)' = VirtualWord(a)
    BY <1>1 DEF ByPage, Present, HasTable, Entry, VirtualWord
  <2> QED BY <1>1, <2>1, Zenon DEF RowTrue
<1> QED BY <1>1, <1>2, <1>3, <1>4, <1>5

(* The next address, after the one at which a round is.                    *)
LEMMA NextVa ==
  ASSUME va \in Addr, va_lo \in Addr, va_hi \in Addr, va_lo <= va_hi,
         NEW n \in Int, va = FirstOf + n * StepOf, va' = (va + StepOf) % Top
  PROVE  /\ va' \in Addr
         /\ va + StepOf < Top => va' = FirstOf + (n + 1) * StepOf
         /\ va + StepOf >= Top =>
              va' <= va /\ (va' - FirstOf) % StepOf = 0 /\ FirstOf + (n + 1) * StepOf >= Top
<1> DEFINE F == FirstOf
           St == StepOf
<1>1. F \in Nat /\ St \in Nat \ {0} /\ \E k \in Nat \ {0} : Top = k * St
  BY RangeFacts
<1>2. Top \in Nat \ {0} /\ va \in Nat /\ va < Top
  BY Sizes DEF Addr
<1> SUFFICES /\ va' \in Addr
             /\ va + St < Top => va' = F + (n + 1) * St
             /\ va + St >= Top => va' <= va /\ (va' - F) % St = 0 /\ F + (n + 1) * St >= Top
  OBVIOUS
<1>3. va = F + n * St /\ va' = (va + St) % Top
  OBVIOUS
<1> HIDE DEF F, St
<1>4. PICK k \in Nat \ {0} : Top = k * St
  BY <1>1
<1>5. /\ F \in Nat /\ St \in Nat \ {0} /\ Top \in Nat \ {0} /\ va \in Nat /\ va < Top
      /\ va = F + n * St /\ va' = (va + St) % Top /\ Top = k * St /\ k \in Nat \ {0}
  BY <1>1, <1>2, <1>3, <1>4
<1>6. n * St \in Int /\ k * St \in Int /\ (n + 1) * St = n * St + St
  BY <1>5
<1>7. va' \in Addr
  <2>1. va + St \in Int
    BY <1>5
  <2> QED BY <1>5, <2>1, ModRange DEF Addr
<1>8. CASE va + St < Top
  <2>1. va + St \in 0 .. Top - 1
    BY <1>5, <1>8
  <2>2. va' = va + St
    BY <1>5, <2>1, ModSmall
  <2>3. va' = F + (n + 1) * St
    <3>1. va' = (F + n * St) + St /\ n * St \in Int /\ (n + 1) * St = n * St + St
      BY <1>5, <1>6, <2>2
    <3> QED BY <1>5, <3>1
  <2> QED BY <1>5, <1>7, <1>8, <2>3
<1>9. CASE va + St >= Top
  <2> DEFINE x == va + St - Top
  <2>1. x \in 0 .. Top - 1 /\ va + St = 1 * Top + x
    BY <1>5, <1>9
  <2>2. (1 * Top + x) % Top = x
    <3> HIDE DEF x
    <3> QED BY <1>5, <2>1, ModUnique
  <2>3. va' = x
    BY <1>5, <2>1, <2>2
  <2>4. x - F = (n + 1 - k) * St
    <3>1. (n + 1 - k) * St = (n + 1) * St - k * St
      BY <1>5
    <3> QED BY <1>5, <1>6, <3>1
  <2>5. ((n + 1 - k) * St + 0) % St = 0
    <3> DEFINE j == n + 1 - k
    <3>1. j \in Int /\ 0 \in 0 .. St - 1
      BY <1>5
    <3> HIDE DEF j
    <3>2. (j * St + 0) % St = 0
      BY <1>5, <3>1, ModUnique
    <3> QED BY <3>2 DEF j
  <2>6. (n + 1 - k) * St + 0 = (n + 1 - k) * St
    BY <1>5
  <2>7. (va' - F) % St = 0
    BY <2>3, <2>4, <2>5, <2>6
  <2>8. va' <= va
    BY <1>5, <2>1, <2>3
  <2>9. F + (n + 1) * St >= Top
    BY <1>5, <1>6, <1>9
  <2> QED BY <1>5, <1>7, <1>9, <2>7, <2>8, <2>9
<1> QED BY <1>5, <1>8, <1>9

(* The rows that are shown are a sequence, whatever they are.              *)
LEMMA RowAdded ==
  ASSUME rows \in Seq(Range(rows)), NEW row, rows' = Append(rows, row)
  PROVE  /\ rows' \in Seq(Range(rows')) /\ Len(rows) \in Nat /\ Len(rows') = Len(rows) + 1
         /\ DOMAIN rows' = 1 .. Len(rows) + 1 /\ DOMAIN rows = 1 .. Len(rows)
         /\ \A i \in 1 .. Len(rows) : rows'[i] = rows[i]
         /\ rows'[Len(rows) + 1] = row
<1> DEFINE S == Range(rows) \cup {row}
<1>1. rows \in Seq(S)
  <2>1. Range(rows) \subseteq S
    OBVIOUS
  <2> HIDE DEF S
  <2> QED BY <2>1, SeqMonotonic
<1>2. row \in S
  OBVIOUS
<1> HIDE DEF S
<1>3. /\ rows' \in Seq(S) /\ Len(rows') = Len(rows) + 1
      /\ \A i \in 1 .. Len(rows) : rows'[i] = rows[i]
      /\ rows'[Len(rows) + 1] = row
  BY <1>1, <1>2, AppendProperties
<1>4. rows' \in Seq(Range(rows'))
  BY <1>3, SeqOfRange
<1>5. Len(rows) \in Nat /\ DOMAIN rows' = 1 .. Len(rows') /\ DOMAIN rows = 1 .. Len(rows)
  BY <1>1, <1>3, LenProperties
<1> QED BY <1>3, <1>4, <1>5

(* A round of a loop.                                                      *)
LEMMA RoundStep ==
  ASSUME RangeInv, pc \in Loops, va <= va_hi, NEW row, RowTrue(row, va),
         rows' = IF Len(rows) < MaxRows THEN Append(rows, row) ELSE rows,
         va' = (va + StepOf) % Top, UNCHANGED <<buf, argv, va_lo, va_hi, kern_pgdir, pc>>
  PROVE  RowsOK'
<1> DEFINE F == FirstOf
           St == StepOf
           c == Count
           n == Len(rows)
<1>1. /\ va \in Addr /\ va_lo \in Addr /\ va_hi \in Addr /\ va_lo <= va_hi
      /\ LoopOf /\ rows \in Seq(Range(rows)) /\ (OnTheWay \/ Wrapped)
  BY DEF RangeInv
<1>2. /\ F \in Nat /\ F <= va_lo /\ St \in Nat \ {0} /\ c \in Nat \ {0}
      /\ F + (c - 1) * St <= va_hi /\ va_hi < F + c * St
      /\ \E k \in Nat \ {0} : Top = k * St
      /\ St <= Top /\ MaxRows * St >= Top
  BY <1>1, RangeFacts
<1>3. PICK k \in Nat \ {0} : Top = k * St
  BY <1>2
<1>4. /\ F' = F /\ St' = St /\ c' = c /\ ReachesTop' = ReachesTop /\ Word(1)' = Word(1)
      /\ \A x, a : RowTrue(x, a)' = RowTrue(x, a)
  BY SameRange
<1>5. n \in Nat
  BY <1>1, LenProperties
<1>6. Top \in Nat /\ MaxRows \in Nat /\ va \in Nat /\ va < Top /\ va_hi \in Nat /\ va_lo \in Nat
  BY <1>1, Sizes DEF Addr
<1>7. ReachesTop <=> F + c * St >= Top
  BY DEF ReachesTop
<1>8. LoopOf'
  BY <1>1, <1>4 DEF LoopOf
<1>9. CASE OnTheWay
  <2>1. n <= c /\ va = F + n * St /\ Shown
    BY <1>9 DEF OnTheWay
  <2>2. n * St \in Int /\ c * St \in Int /\ MaxRows * St \in Int
    BY <1>2, <1>5, <1>6
  <2>3. n < c
    <3>1. n = c => n * St = c * St
      OBVIOUS
    <3> HIDE DEF F, St, c, n
    <3> QED BY <2>1, <2>2, <3>1, <1>2, <1>5, <1>6
  <2>4. n < MaxRows
    <3> SUFFICES ASSUME MaxRows <= n PROVE FALSE
      BY <1>5, <1>6
    <3>1. MaxRows * St <= n * St
      <4>1. MaxRows < n => MaxRows * St + St <= n * St
        BY <1>2, <1>5, <1>6, MulGap
      <4>2. MaxRows = n => MaxRows * St = n * St
        OBVIOUS
      <4> HIDE DEF St, n
      <4> QED BY <4>1, <4>2, <2>2, <1>2, <1>5, <1>6
    <3> HIDE DEF F, St, n
    <3> QED BY <3>1, <2>1, <2>2, <1>2, <1>6
  <2>5. rows' = Append(rows, row)
    BY <2>4
  <2>6. /\ rows' \in Seq(Range(rows')) /\ Len(rows') = n + 1
        /\ DOMAIN rows' = 1 .. n + 1 /\ DOMAIN rows = 1 .. n
        /\ \A i \in 1 .. n : rows'[i] = rows[i]
        /\ rows'[n + 1] = row
    BY <1>1, <2>5, RowAdded
  <2>7. /\ va' \in Addr
        /\ va + St < Top => va' = F + (n + 1) * St
        /\ va + St >= Top => va' <= va /\ (va' - F) % St = 0 /\ F + (n + 1) * St >= Top
    <3>1. n \in Int
      BY <1>5
    <3>2. va = FirstOf + n * StepOf
      BY <2>1
    <3> HIDE DEF n
    <3> QED BY <1>1, <3>1, <3>2, NextVa
  <2>8. ASSUME NEW i \in 1 .. n + 1 PROVE RowTrue(rows'[i], F + (i - 1) * St)
    <3>1. CASE i = n + 1
      <4>1. rows'[i] = row /\ F + (i - 1) * St = va
        BY <3>1, <2>1, <2>6, <1>5
      <4> QED BY <4>1
    <3>2. CASE i # n + 1
      <4>1. i \in 1 .. n
        BY <3>2, <1>5
      <4> QED BY <4>1, <2>1, <2>6 DEF Shown
    <3> QED BY <3>1, <3>2
  <2>9. Shown'
    <3>1. \A i \in DOMAIN rows' : RowTrue(rows'[i], F + (i - 1) * St)
      BY <2>6, <2>8
    <3>2. \A i \in DOMAIN rows' : RowTrue(rows[i], FirstOf + (i - 1) * StepOf)'
      BY <3>1, <1>4
    <3> QED BY <3>2 DEF Shown
  <2>10. CASE va + St < Top
    <3>1. OnTheWay'
      <4>1. n + 1 <= c /\ va' = F + (n + 1) * St
        BY <2>3, <2>7, <2>10, <1>2, <1>5
      <4> QED BY <4>1, <2>6, <2>9, <1>4 DEF OnTheWay
    <3> QED BY <3>1, <2>6, <2>7, <1>1, <1>8 DEF RowsOK, RangeInv, RowsInv, RowsExact, MonitorSurvives, Loops
  <2>11. CASE va + St >= Top
    <3>1. F + (n + 1) * St <= F + c * St
      <4>1. n + 1 < c => (n + 1) * St + St <= c * St
        BY <1>2, <1>5, MulGap
      <4>2. n + 1 = c => (n + 1) * St = c * St
        OBVIOUS
      <4>3. n + 1 \in Int /\ (n + 1) * St \in Int
        BY <1>2, <1>5
      <4> HIDE DEF F, St, c, n
      <4> QED BY <4>1, <4>2, <4>3, <2>2, <2>3, <1>2, <1>5
    <3>2. ReachesTop
      <4>1. (n + 1) * St \in Int
        BY <1>2, <1>5
      <4> HIDE DEF F, St, c, n
      <4> QED BY <3>1, <4>1, <2>2, <2>7, <2>11, <1>2, <1>6, <1>7
    <3>3. va' <= va_hi
      BY <2>7, <2>11, <1>1, <1>6 DEF Addr
    <3>4. Wrapped'
      BY <3>2, <3>3, <2>7, <2>11, <1>4 DEF Wrapped
    <3> QED BY <3>4, <2>6, <2>7, <1>1, <1>8 DEF RowsOK, RangeInv, RowsInv, RowsExact, MonitorSurvives, Loops
  <2>12. va + St \in Int
    BY <1>2, <1>6
  <2> QED BY <2>10, <2>11, <2>12, <1>2, <1>6
<1>10. CASE Wrapped
  <2> DEFINE j == (va - F) \div St
  <2>1. j \in Int /\ va = F + j * St
    <3> DEFINE x == va - F
    <3>1. x \in Int /\ x % St = 0
      BY <1>2, <1>6, <1>10 DEF Wrapped
    <3> HIDE DEF x
    <3>2. x \div St \in Int /\ x = (x \div St) * St + (x % St)
      BY <1>2, <3>1, ModRange
    <3>3. x = j * St /\ j \in Int
      <4>1. (x \div St) * St \in Int
        BY <1>2, <3>2
      <4>2. x = (x \div St) * St
        BY <3>1, <3>2, <4>1
      <4> QED BY <3>2, <4>2 DEF x
    <3>4. j * St \in Int
      BY <1>2, <3>3
    <3> HIDE DEF j
    <3> QED BY <1>2, <1>6, <3>3, <3>4 DEF x
  <2> HIDE DEF j
  <2>2. /\ va' \in Addr
        /\ va + St < Top => va' = F + (j + 1) * St
        /\ va + St >= Top => va' <= va /\ (va' - F) % St = 0 /\ F + (j + 1) * St >= Top
    <3>1. j \in Int /\ va = FirstOf + j * StepOf
      BY <2>1
    <3> QED BY <1>1, <3>1, NextVa
  <2>3. rows' \in Seq(Range(rows'))
    <3>1. CASE Len(rows) < MaxRows
      BY <1>1, <3>1, RowAdded
    <3>2. CASE ~ (Len(rows) < MaxRows)
      BY <1>1, <3>2
    <3> QED BY <3>1, <3>2
  <2>4. Wrapped'
    <3>1. CASE va + St >= Top
      <4>1. va' <= va_hi
        BY <2>2, <3>1, <1>1, <1>6 DEF Addr
      <4> QED BY <4>1, <2>2, <3>1, <1>4, <1>10 DEF Wrapped
    <3>2. CASE va + St < Top
      <4>1. /\ j * St \in Int /\ c * St \in Int /\ (c - 1) * St \in Int
            /\ (j + 1) * St \in Int /\ (j + 1) * St = j * St + St
        BY <2>1, <1>2
      <4>2. j + 1 < c
        <5>1. c < j + 1 => c * St + St <= (j + 1) * St
          BY <2>1, <1>2, MulGap
        <5>2. c = j + 1 => c * St = (j + 1) * St
          OBVIOUS
        <5>3. F + c * St >= Top
          BY <1>7, <1>10 DEF Wrapped
        <5> HIDE DEF F, St, c
        <5> QED BY <5>1, <5>2, <5>3, <4>1, <2>1, <3>2, <1>2, <1>6
      <4>3. (j + 1) * St <= (c - 1) * St
        <5>1. j + 1 < c - 1 => (j + 1) * St + St <= (c - 1) * St
          BY <2>1, <1>2, MulGap
        <5>2. j + 1 = c - 1 => (j + 1) * St = (c - 1) * St
          OBVIOUS
        <5> HIDE DEF F, St, c
        <5> QED BY <5>1, <5>2, <4>1, <4>2, <2>1, <1>2
      <4>4. va' = F + (j + 1) * St
        BY <2>2, <3>2
      <4>5. va' <= va_hi
        <5> HIDE DEF F, St, c
        <5> QED BY <4>1, <4>3, <4>4, <1>2, <1>6
      <4>6. (va' - F) % St = 0
        <5> DEFINE i == j + 1
        <5>1. i \in Int /\ 0 \in 0 .. St - 1
          BY <2>1, <1>2
        <5> HIDE DEF i
        <5>2. (i * St + 0) % St = 0
          BY <5>1, <1>2, ModUnique
        <5>3. va' - F = i * St + 0
          BY <4>1, <4>4, <1>2 DEF i
        <5> QED BY <5>2, <5>3
      <4> QED BY <4>5, <4>6, <1>4, <1>10 DEF Wrapped
    <3>3. va + St \in Int
      BY <1>2, <1>6
    <3> QED BY <3>1, <3>2, <3>3, <1>6
  <2> QED BY <2>2, <2>3, <2>4, <1>1, <1>8 DEF RowsOK, RangeInv, RowsInv, RowsExact, MonitorSurvives, Loops
<1> QED BY <1>1, <1>9, <1>10

LEMMA RangeFactsNext ==
  (/\ va_lo \in Addr /\ va_hi \in Addr /\ va_lo <= va_hi
   => /\ FirstOf \in Nat /\ FirstOf <= va_lo /\ StepOf \in Nat \ {0} /\ Count \in Nat \ {0})'
<1>1. /\ va_lo \in Addr /\ va_hi \in Addr /\ va_lo <= va_hi
      => /\ FirstOf \in Nat /\ FirstOf <= va_lo /\ StepOf \in Nat \ {0} /\ Count \in Nat \ {0}
  BY RangeFacts
<1> QED BY <1>1, PTL

(* The other commands show nothing.                                        *)
LEMMA NoRows ==
  ASSUME rows' = <<>>, pc' \notin Loops \cup {"panic"}
  PROVE  RowsOK'
BY DEF RowsOK, RangeInv, RowsInv, RowsExact, MonitorSurvives

LEMMA RangeStarts ==
  ASSUME LineOK, Invoked, RowsOK, pc = "invoke", NEW x, NEW loop \in Loops, BeginRange(x, loop),
         x = IF ByPage THEN ROUNDDOWN(Low, PGSIZE) ELSE Low,
         loop = "showmappings" => Word(1) \in {<<"showmappings">>, <<"sm">>},
         loop = "memxv" => Word(1) = <<"memxv">>,
         loop = "memxp" => Word(1) = <<"memxp">>
  PROVE  RowsOK'
<1>1. /\ RangeGiven /\ va' = x /\ va_lo' = Low /\ va_hi' = High /\ pc' = loop
      /\ UNCHANGED <<buf, argv, rows>>
  BY DEF BeginRange
<1>2. argc \in 2 .. 3 /\ High >= Low
  BY <1>1 DEF RangeGiven
<1>3. Low \in Addr /\ High \in Addr
  <2>1. argv \in Seq(DOMAIN line)
    BY DEF Invoked, Words
  <2>2. Number(2) \in Addr
    <3>1. 2 \in 1 .. argc
      BY <1>2
    <3> QED BY <2>1, <3>1, NumberIsAddress
  <2>3. argc > 2 => Number(3) \in Addr
    <3> SUFFICES ASSUME argc > 2 PROVE Number(3) \in Addr
      OBVIOUS
    <3>1. 3 \in 1 .. argc
      BY <1>2
    <3> QED BY <2>1, <3>1, NumberIsAddress
  <2> QED BY <2>2, <2>3 DEF Low, High
<1>4. Word(1)' = Word(1) /\ ByPage' = ByPage
  <2>1. Word(1)' = Word(1)
    BY <1>1 DEF Word
  <2> QED BY <2>1 DEF ByPage
<1>5. FirstOf' = va'
  BY <1>1, <1>4 DEF FirstOf, ROUNDDOWN
<1>6. va_lo' \in Addr /\ va_hi' \in Addr /\ va_lo' <= va_hi'
  <2>1. Low \in Int /\ High \in Int
    BY <1>3, Sizes DEF Addr
  <2> QED BY <1>1, <1>2, <1>3, <2>1
<1>7. FirstOf' \in Nat /\ FirstOf' <= va_lo' /\ StepOf' \in Nat \ {0} /\ Count' \in Nat \ {0}
  BY <1>6, RangeFactsNext
<1>8. va' \in Addr
  <2>1. va_lo' \in Int /\ va_lo' < Top /\ Top \in Int
    BY <1>6, Sizes DEF Addr
  <2> QED BY <1>5, <1>7, <2>1 DEF Addr
<1>9. rows = <<>>
  BY DEF RowsOK, RowsInv, Loops
<1>10. rows' = <<>> /\ Len(rows') = 0 /\ DOMAIN rows' = {} /\ rows' \in Seq(Range(rows'))
  <2>1. Len(<<>>) = 0 /\ DOMAIN <<>> = {} /\ \A S : <<>> \in Seq(S)
    BY EmptySeq
  <2>2. rows' = <<>>
    BY <1>1, <1>9
  <2> QED BY <2>1, <2>2
<1>11. OnTheWay'
  <2> DEFINE F == FirstOf'
             St == StepOf'
             c == Count'
  <2>1. 0 <= c /\ F + 0 * St = F
    <3>1. St \in Nat /\ c \in Nat /\ F \in Nat
      BY <1>7
    <3> HIDE DEF F, St, c
    <3>2. 0 * St = 0
      BY <3>1
    <3> QED BY <3>1, <3>2
  <2> QED BY <1>5, <1>10, <2>1 DEF OnTheWay, Shown
<1>12. LoopOf'
  BY <1>1, <1>4 DEF LoopOf
<1>13. RangeInv'
  BY <1>6, <1>8, <1>10, <1>11, <1>12 DEF RangeInv
<1> QED BY <1>1, <1>10, <1>13 DEF RowsOK, RowsInv, RowsExact, MonitorSurvives, Loops

(* A row of each command is true: it is a pair of the address and what is
   there.                                                                  *)
LEMMA PairIs == \A x, y : <<x, y>>[1] = x /\ <<x, y>>[2] = y
OBVIOUS

LEMMA MappingTrue ==
  ASSUME NEW a, Word(1) \in {<<"showmappings">>, <<"sm">>}
  PROVE  RowTrue(<<a, Mapping(a)>>, a)
<1> DEFINE row == <<a, Mapping(a)>>
<1>1. row[1] = a /\ row[2] = Mapping(a)
  BY PairIs
<1> HIDE DEF row
<1>2. Word(1) # <<"memxv">> /\ Word(1) # <<"memxp">>
  OBVIOUS
<1>3. Present(a) => Mapping(a) = <<"page", Entry(a).page, Entry(a).U, Entry(a).W>>
  BY Zenon DEF Mapping, Present
<1>4. HasTable(a) /\ ~ Present(a) => Mapping(a) = <<"no page">>
  BY Zenon DEF Mapping, Present
<1>5. ~ HasTable(a) => Mapping(a) = <<"no table">>
  BY Zenon DEF Mapping
<1>6. RowTrue(row, a)
  BY <1>1, <1>2, <1>3, <1>4, <1>5, Zenon DEF RowTrue
<1> QED BY <1>6 DEF row

LEMMA WordTrue ==
  ASSUME NEW a, Word(1) = <<"memxv">>
  PROVE  RowTrue(<<a, IF Present(a) THEN <<"value", VirtualWord(a)>> ELSE <<"unmapped">> >>, a)
<1> DEFINE what == IF Present(a) THEN <<"value", VirtualWord(a)>> ELSE <<"unmapped">>
           row == <<a, what>>
<1>1. row[1] = a /\ row[2] = what
  BY PairIs
<1>2. ~ ByPage /\ Word(1) # <<"memxp">>
  BY DEF ByPage
<1>3. (Present(a) => what = <<"value", VirtualWord(a)>>) /\ (~ Present(a) => what = <<"unmapped">>)
  BY Zenon
<1> HIDE DEF row, what
<1>4. RowTrue(row, a)
  BY <1>1, <1>2, <1>3, Zenon DEF RowTrue
<1> QED BY <1>4 DEF row, what

LEMMA PhysicalTrue ==
  ASSUME NEW a, Word(1) = <<"memxp">>, PGNUM(a) \in Int, npages \in Int
  PROVE  /\ PGNUM(a) < npages => RowTrue(<<a, <<"value", PhysicalWord(a)>> >>, a)
         /\ ~ (PGNUM(a) < npages) => RowTrue(<<a, <<"out of range">> >>, a)
<1>1. ~ ByPage /\ Word(1) # <<"memxv">>
  BY DEF ByPage
<1>2. PGNUM(a) < npages <=> ~ (PGNUM(a) >= npages)
  OBVIOUS
<1>3. ASSUME PGNUM(a) < npages PROVE RowTrue(<<a, <<"value", PhysicalWord(a)>> >>, a)
  BY <1>1, <1>2, <1>3, PairIs, Zenon DEF RowTrue
<1>4. ASSUME ~ (PGNUM(a) < npages) PROVE RowTrue(<<a, <<"out of range">> >>, a)
  BY <1>1, <1>2, <1>4, PairIs, Zenon DEF RowTrue
<1> QED BY <1>3, <1>4

LEMMA EntryShown ==
  ASSUME RowsOK, mon_showmappings_entry
  PROVE  RowsOK'
<1> DEFINE row == <<va, Mapping(va)>>
<1>1. /\ pc = "showmappings" /\ va <= va_hi /\ va' = (va + PGSIZE) % Top
      /\ rows' = IF Len(rows) < MaxRows THEN Append(rows, row) ELSE rows
      /\ UNCHANGED <<buf, argv, va_lo, va_hi, kern_pgdir, pc>>
  BY DEF mon_showmappings_entry, More, Show
<1>2. pc \in Loops
  BY <1>1 DEF Loops
<1>3. Word(1) \in {<<"showmappings">>, <<"sm">>}
  BY <1>1, <1>2 DEF RowsOK, RangeInv, LoopOf
<1>4. StepOf = PGSIZE
  BY <1>3 DEF StepOf, ByPage
<1>5. RowTrue(row, va)
  BY <1>3, MappingTrue
<1> HIDE DEF row
<1> QED BY <1>1, <1>2, <1>4, <1>5, RoundStep DEF RowsOK

LEMMA WordShown ==
  ASSUME RowsOK, memxv_word
  PROVE  RowsOK'
<1> DEFINE row == <<va, IF Present(va) THEN <<"value", VirtualWord(va)>> ELSE <<"unmapped">> >>
<1>1. /\ pc = "memxv" /\ va <= va_hi /\ va' = (va + WORD) % Top
      /\ rows' = IF Len(rows) < MaxRows THEN Append(rows, row) ELSE rows
      /\ UNCHANGED <<buf, argv, va_lo, va_hi, kern_pgdir, pc>>
  BY DEF memxv_word, More, Show
<1>2. pc \in Loops
  BY <1>1 DEF Loops
<1>3. Word(1) = <<"memxv">>
  BY <1>1, <1>2 DEF RowsOK, RangeInv, LoopOf
<1>4. StepOf = WORD
  BY <1>3 DEF StepOf, ByPage
<1>5. RowTrue(row, va)
  BY <1>3, WordTrue
<1> HIDE DEF row
<1> QED BY <1>1, <1>2, <1>4, <1>5, RoundStep DEF RowsOK

LEMMA PhysicalShown ==
  ASSUME RowsOK, memxp_word
  PROVE  RowsOK'
<1>1. pc = "memxp" /\ va <= va_hi
  BY DEF memxp_word, More
<1>2. pc \in Loops
  BY <1>1 DEF Loops
<1>3. Word(1) = <<"memxp">> /\ va \in Addr
  BY <1>1, <1>2 DEF RowsOK, RangeInv, LoopOf
<1>4. StepOf = WORD
  BY <1>3 DEF StepOf, ByPage
<1>0. PGNUM(va) \in Int /\ npages \in Int
  BY <1>3, PageOf, Sizes
<1>5. CASE Readable(PGNUM(va))
  <2> DEFINE row == <<va, <<"value", PhysicalWord(va)>> >>
  <2>1. PGNUM(va) < npages
    BY <1>5 DEF Readable
  <2>2. /\ va' = (va + WORD) % Top
        /\ rows' = IF Len(rows) < MaxRows THEN Append(rows, row) ELSE rows
        /\ UNCHANGED <<buf, argv, va_lo, va_hi, kern_pgdir, pc>>
    BY <1>5, <2>1, Zenon DEF memxp_word, Show
  <2>3. RowTrue(row, va)
    BY <1>0, <1>3, <2>1, PhysicalTrue
  <2> HIDE DEF row
  <2> QED BY <1>1, <1>2, <1>4, <2>2, <2>3, RoundStep DEF RowsOK
<1>6. CASE ~ Readable(PGNUM(va))
  <2> DEFINE row == <<va, <<"out of range">> >>
  <2>2. /\ va' = (va + WORD) % Top
        /\ rows' = IF Len(rows) < MaxRows THEN Append(rows, row) ELSE rows
        /\ UNCHANGED <<buf, argv, va_lo, va_hi, kern_pgdir, pc>>
    BY <1>6, Zenon DEF memxp_word, Show
  <2>3. RowTrue(row, va)
    BY <1>0, <1>3, <1>6, PhysicalTrue DEF Readable
  <2> HIDE DEF row
  <2> QED BY <1>1, <1>2, <1>4, <2>2, <2>3, RoundStep DEF RowsOK
<1> QED BY <1>5, <1>6

(* The last byte of a word is in the page of the first.                    *)
LEMMA SameWord ==
  ASSUME NEW a \in Addr, a % WORD = 0, NEW i \in 0 .. WORD - 1
  PROVE  (a + i) % Top = a + i /\ PGNUM(a + i) = PGNUM(a)
<1>1. /\ Top \in Nat \ {0} /\ PGSIZE \in Nat \ {0} /\ WORD \in Nat \ {0}
      /\ a \in Nat /\ a < Top
  BY Sizes DEF Addr
<1>2. PICK w \in Nat \ {0} : PGSIZE = w * WORD
  BY Sizes
<1>3. PICK n \in Nat \ {0} : Top = n * PGSIZE
  BY Sizes
<1> DEFINE p == a \div PGSIZE
           rest == a % PGSIZE
           q == a \div WORD
<1>4. p \in Int /\ rest \in 0 .. PGSIZE - 1 /\ a = p * PGSIZE + rest
  BY <1>1, ModRange
<1>5. q \in Int /\ a = q * WORD
  <2>1. q \in Int /\ a = q * WORD + (a % WORD) /\ a % WORD = 0
    BY <1>1, ModRange
  <2> HIDE DEF q
  <2>2. a = q * WORD + 0 /\ q * WORD \in Int
    BY <1>1, <2>1
  <2> QED BY <2>1, <2>2
<1> HIDE DEF p, rest, q
<1> DEFINE u == q - p * w
<1>6. u \in Int /\ rest = u * WORD
  <2>1. p * w \in Int /\ p * PGSIZE = (p * w) * WORD /\ u \in Int
    BY <1>1, <1>2, <1>4, <1>5
  <2>2. u * WORD = q * WORD - (p * w) * WORD
    BY <1>1, <1>5, <2>1
  <2>3. (p * w) * WORD \in Int /\ q * WORD \in Int
    BY <1>1, <1>5, <2>1
  <2> QED BY <1>4, <1>5, <2>1, <2>2, <2>3
<1> HIDE DEF u
<1>7. u * WORD + WORD <= PGSIZE
  <2>1. ~ (w <= u)
    <3>1. w < u => w * WORD + WORD <= u * WORD
      BY <1>1, <1>2, <1>6, MulGap
    <3>2. w = u => w * WORD = u * WORD
      OBVIOUS
    <3>3. u * WORD < PGSIZE /\ w * WORD \in Int /\ u * WORD \in Int
      BY <1>1, <1>2, <1>4, <1>6
    <3> QED BY <3>1, <3>2, <3>3, <1>1, <1>2, <1>6
  <2>2. u < w
    BY <2>1, <1>2, <1>6
  <2>3. u * WORD + WORD <= w * WORD
    BY <1>1, <1>2, <1>6, <2>2, MulGap
  <2> QED BY <1>2, <2>3
<1>8. rest + i \in 0 .. PGSIZE - 1
  <2>1. i \in Int /\ 0 <= i /\ i < WORD
    BY <1>1
  <2> QED BY <1>1, <1>4, <1>6, <1>7, <2>1
<1>9. a + i = p * PGSIZE + (rest + i)
  <2>1. p * PGSIZE \in Int /\ i \in Int /\ rest \in Int
    BY <1>1, <1>4
  <2> QED BY <1>4, <2>1
<1>10. (a + i) \div PGSIZE = p
  <2> DEFINE b == a + i
             c == b \div PGSIZE
             s == b % PGSIZE
  <2>1. b \in Int
    BY <1>1
  <2>2. b = p * PGSIZE + (rest + i)
    BY <1>9
  <2> HIDE DEF b
  <2>3. c \in Int /\ s \in 0 .. PGSIZE - 1 /\ b = c * PGSIZE + s
    BY <1>1, <2>1, ModRange
  <2> HIDE DEF c, s
  <2> DEFINE t == rest + i
  <2>4. t \in 0 .. PGSIZE - 1 /\ b = p * PGSIZE + t
    BY <1>8, <2>2
  <2> HIDE DEF t
  <2>5. /\ PGSIZE \in Nat \ {0} /\ p \in Int /\ c \in Int /\ p * PGSIZE + t = c * PGSIZE + s
        /\ t \in 0 .. PGSIZE - 1 /\ s \in 0 .. PGSIZE - 1
    BY <1>1, <1>4, <2>3, <2>4
  <2>6. p = c
    BY <2>5, DivUnique
  <2> QED BY <2>6 DEF b, c
<1>11. a + i \in 0 .. Top - 1
  <2>1. p < n
    <3>1. n < p => n * PGSIZE + PGSIZE <= p * PGSIZE
      BY <1>1, <1>3, <1>4, MulGap
    <3>2. n = p => n * PGSIZE = p * PGSIZE
      OBVIOUS
    <3>3. p * PGSIZE \in Int /\ p * PGSIZE <= a
      BY <1>1, <1>4
    <3> QED BY <3>1, <3>2, <3>3, <1>1, <1>3, <1>4
  <2>2. p * PGSIZE + PGSIZE <= n * PGSIZE
    BY <1>1, <1>3, <1>4, <2>1, MulGap
  <2>3. p * PGSIZE \in Int
    BY <1>1, <1>4
  <2> QED BY <1>1, <1>3, <1>8, <1>9, <2>2, <2>3
<1>12. (a + i) % Top = a + i
  BY <1>1, <1>11, ModSmall
<1> QED BY <1>10, <1>12 DEF PGNUM, p

LEMMA WordPanics ==
  ASSUME RowsOK, PgdirOK, memxv_panic
  PROVE  RowsOK'
<1>1. /\ pc = "memxv" /\ pc' = "panic" /\ Present(va) /\ ~ (Entry(va).page < npages /\ WordMapped(va))
      /\ UNCHANGED <<buf, argv, va, kern_pgdir>>
  BY DEF memxv_panic, mvars
<1>2. va \in Addr /\ Word(1) = <<"memxv">>
  BY <1>1 DEF RowsOK, RangeInv, LoopOf, Loops
<1>3. Entry(va).page >= npages \/ va % WORD # 0
  <2> SUFFICES ASSUME Entry(va).page < npages, va % WORD = 0 PROVE FALSE
    <3>1. Entry(va).page \in Nat /\ npages \in Nat
      BY <1>1, <1>2, EntryFacts, Sizes DEF Present
    <3> QED BY <3>1
  <2>1. PICK i \in 0 .. WORD - 1 : ~ Present((va + i) % Top)
    BY <1>1 DEF WordMapped
  <2>2. (va + i) % Top = va + i /\ PGNUM(va + i) = PGNUM(va)
    BY <1>2, SameWord
  <2>3. Present(va + i) = Present(va)
    BY <2>2 DEF Present, HasTable, Entry, PDX, PTX
  <2> QED BY <1>1, <2>1, <2>2, <2>3
<1>4. Word(1)' = Word(1) /\ Present(va)' = Present(va) /\ Entry(va)' = Entry(va)
  BY <1>1 DEF Word, Present, HasTable, Entry
<1>5. MonitorSurvives'
  BY <1>1, <1>2, <1>3, <1>4 DEF MonitorSurvives
<1> QED BY <1>1, <1>5 DEF RowsOK, RangeInv, RowsInv, RowsExact, Loops

LEMMA RangeShown ==
  ASSUME RowsOK, shown
  PROVE  RowsOK'
<1> DEFINE F == FirstOf
           St == StepOf
           c == Count
           n == Len(rows)
<1>1. /\ pc \in Loops /\ ~ (va <= va_hi) /\ pc' = "returned"
      /\ UNCHANGED <<buf, argv, va, va_lo, va_hi, rows, kern_pgdir>>
  BY DEF shown, More, Return0, mvars
<1>2. /\ va \in Addr /\ va_lo \in Addr /\ va_hi \in Addr /\ va_lo <= va_hi
      /\ rows \in Seq(Range(rows)) /\ OnTheWay
  BY <1>1 DEF RowsOK, RangeInv, Wrapped
<1>3. n <= c /\ va = F + n * St /\ Shown
  BY <1>2 DEF OnTheWay
<1>4. /\ F \in Nat /\ St \in Nat \ {0} /\ c \in Nat \ {0}
      /\ F + (c - 1) * St <= va_hi
  BY <1>2, RangeFacts
<1>5. n \in Nat /\ va \in Int /\ va_hi \in Int
  BY <1>2, LenProperties, Sizes DEF Addr
<1>6. n = c
  <2>1. n < c - 1 => n * St + St <= (c - 1) * St
    BY <1>4, <1>5, MulGap
  <2>2. n = c - 1 => n * St = (c - 1) * St
    OBVIOUS
  <2>3. n * St \in Int /\ (c - 1) * St \in Int
    BY <1>4, <1>5
  <2> HIDE DEF F, St, c, n
  <2> QED BY <2>1, <2>2, <2>3, <1>1, <1>3, <1>4, <1>5
<1>7. /\ F' = F /\ St' = St /\ c' = c /\ Word(1)' = Word(1)
      /\ \A x, a : RowTrue(x, a)' = RowTrue(x, a)
  BY <1>1, SameRange
<1>8. \A i \in DOMAIN rows' : RowTrue(rows[i], FirstOf + (i - 1) * StepOf)'
  <2>1. \A i \in DOMAIN rows' : RowTrue(rows'[i], F + (i - 1) * St)
    BY <1>1, <1>3 DEF Shown
  <2> QED BY <2>1, <1>7
<1>9. RowsExact'
  <2>1. Len(rows') = Count'
    BY <1>1, <1>6, <1>7
  <2> QED BY <1>8, <2>1 DEF RowsExact
<1> QED BY <1>1, <1>9 DEF RowsOK, RangeInv, RowsInv, MonitorSurvives, Loops

LEMMA FrameFaults ==
  ASSUME RowsOK, FramesOK, frame_fault
  PROVE  RowsOK'
<1>1. /\ pc = "frame" /\ pc' = "panic" /\ base_pointer \notin DOMAIN stack \cup {0}
      /\ UNCHANGED <<buf, argv, stack>>
  BY DEF frame_fault, mvars, trace
<1>2. PICK s \in Stacks : s.frame = stack /\ base_pointer \in Pointers(s)
  BY <1>1 DEF FramesOK, Tracing
<1>3. Word(1) = <<"backtrace">> /\ Word(1)' = Word(1)
  BY <1>1 DEF FramesOK, Tracing, Word
<1>4. s.frame = stack' /\ ~ (Pointers(s) \subseteq DOMAIN s.frame \cup {0})
  BY <1>1, <1>2
<1>5. MonitorSurvives'
  BY <1>3, <1>4, Zenon DEF MonitorSurvives
<1> QED BY <1>1, <1>5 DEF RowsOK, RangeInv, RowsInv, RowsExact, Loops

LEMMA RowsNext ==
  ASSUME Inv, [Next]_vars
  PROVE  RowsOK'
<1>0. RowsOK /\ LineOK /\ Invoked /\ PgdirOK
      /\ (pc \notin Loops \cup {"returned", "panic"} => rows = <<>>)
  BY DEF Inv, WordsOK, RowsOK, RowsInv
<1>1. CASE UNCHANGED vars
  <2>1. UNCHANGED <<buf, argv, va, va_lo, va_hi, rows, kern_pgdir, pc>>
    BY <1>1 DEF vars, mvars
  <2>2. /\ FirstOf' = FirstOf /\ StepOf' = StepOf /\ Count' = Count
        /\ ReachesTop' = ReachesTop /\ Word(1)' = Word(1)
        /\ \A row, a : RowTrue(row, a)' = RowTrue(row, a)
    BY <2>1, SameRange
  <2>3. Shown' = Shown
    BY <2>1, <2>2 DEF Shown
  <2>4. RangeInv'
    BY <1>0, <2>1, <2>2, <2>3 DEF RowsOK, RangeInv, LoopOf, OnTheWay, Wrapped
  <2>5. RowsExact'
    BY <1>0, <2>1, <2>2 DEF RowsOK, RowsInv, RowsExact
  <2>6. MonitorSurvives'
    <3>1. Present(va)' = Present(va) /\ Entry(va)' = Entry(va) /\ stack' = stack
      BY <1>1, <2>1 DEF Present, HasTable, Entry, vars, mvars, trace
    <3> QED BY <1>0, <2>1, <2>2, <3>1 DEF RowsOK, MonitorSurvives
  <2> QED BY <1>0, <2>1, <2>4, <2>5, <2>6 DEF RowsOK, RowsInv
<1>2. CASE monitor
  BY <1>2, NoRows DEF monitor, Loops
<1>3. CASE readline \/ Parse
  <2>1. rows' = rows /\ pc \in {"prompt", "parse"} /\ pc' \in {"parse", "invoke", "returned"}
    BY <1>3 DEF readline, Parse, next_arg, too_many, parsed, Return0, range
  <2> QED BY <2>1, <1>0, NoRows DEF Loops
<1>4. CASE Row
  BY <1>0, <1>4, EntryShown, WordShown, PhysicalShown, WordPanics, RangeShown DEF Row
<1>5. CASE Invoke
  <2>1. CASE unknown \/ mon_help \/ mon_kerninfo \/ mon_meminfo \/ mon_exit \/ bad_range \/ bad_pgmod
    <3>1. rows' = rows /\ pc = "invoke" /\ pc' \in {"returned", "left"}
      BY <2>1 DEF unknown, mon_help, mon_kerninfo, mon_meminfo, mon_exit, bad_range, bad_pgmod,
                  Return0, mvars, Command
    <3> QED BY <3>1, <1>0, NoRows DEF Loops
  <2>2. CASE mon_showmappings
    <3> DEFINE x == ROUNDDOWN(Low, PGSIZE)
    <3>1. /\ Word(1) \in {<<"showmappings">>, <<"sm">>} /\ pc = "invoke"
          /\ BeginRange(x, "showmappings") /\ "showmappings" \in Loops
      BY <2>2 DEF mon_showmappings, Command, Loops
    <3>2. x = IF ByPage THEN ROUNDDOWN(Low, PGSIZE) ELSE Low
      BY <3>1 DEF ByPage
    <3> HIDE DEF x
    <3> QED BY <3>1, <3>2, <1>0, RangeStarts
  <2>3. CASE mon_memxv
    <3>1. Word(1) = <<"memxv">> /\ pc = "invoke" /\ BeginRange(Low, "memxv") /\ "memxv" \in Loops
      BY <2>3 DEF mon_memxv, Command, Loops
    <3>2. Low = IF ByPage THEN ROUNDDOWN(Low, PGSIZE) ELSE Low
      BY <3>1 DEF ByPage
    <3> QED BY <3>1, <3>2, <1>0, RangeStarts
  <2>4. CASE mon_memxp
    <3>1. Word(1) = <<"memxp">> /\ pc = "invoke" /\ BeginRange(Low, "memxp") /\ "memxp" \in Loops
      BY <2>4 DEF mon_memxp, Command, Loops
    <3>2. Low = IF ByPage THEN ROUNDDOWN(Low, PGSIZE) ELSE Low
      BY <3>1 DEF ByPage
    <3> QED BY <3>1, <3>2, <1>0, RangeStarts
  <2>5. CASE mon_pgmod \/ mon_backtrace
    <3>1. rows' = rows /\ pc = "invoke" /\ pc' \in {"returned", "frame"}
      BY <2>5 DEF mon_pgmod, mon_backtrace, Return0, range, Command
    <3> QED BY <3>1, <1>0, NoRows DEF Loops
  <2> QED BY <1>5, <2>1, <2>2, <2>3, <2>4, <2>5 DEF Invoke
<1>6. CASE Backtrace
  <2>1. CASE next_frame \/ frame_shown \/ last_frame
    <3>1. rows' = rows /\ pc \in {"frame", "answer"}
          /\ pc' \in {"search", "answer", "frame", "returned"}
      BY <2>1 DEF next_frame, frame_shown, last_frame, debuginfo_eip, Search, Return0, mvars, range
    <3> QED BY <3>1, <1>0, NoRows DEF Loops
  <2>3. CASE frame_fault
    BY <2>3, FrameFaults DEF Inv
  <2>2. CASE lookup /\ UNCHANGED mvars
    <3>1. rows' = rows
      BY <2>2 DEF mvars
    <3>2. pc' \in {"search", "found", "answer"}
      BY <2>2, StabStep DEF lookup, no_file, file_found, fun_found, no_fun, no_line, line_found,
                            Return, Search, Inv, LookupOK
    <3>3. pc \in {"search", "found"}
      BY <2>2 DEF lookup, no_file, file_found, fun_found, no_fun, no_line, line_found, Found,
                  stab_binsearch, no_match, below, above, exact, finish, Searching
    <3> QED BY <3>1, <3>2, <3>3, <1>0, NoRows DEF Loops
  <2> QED BY <1>6, <2>1, <2>2, <2>3 DEF Backtrace
<1> QED BY <1>1, <1>2, <1>3, <1>4, <1>5, <1>6 DEF Next, runcmd

(* Only pgmod changes kern_pgdir, in the way that PgmodKeepsPages allows.  *)
LEMMA PgdirNext ==
  ASSUME Inv, [Next]_vars
  PROVE  /\ PgdirOK'
         /\ kern_pgdir' # kern_pgdir =>
              /\ Word(1) = <<"pgmod">> /\ argc = 4
              /\ \A a \in {PGSIZE * i : i \in 0 .. (Top \div PGSIZE) - 1} :
                   /\ HasTable(a) <=> HasTable(a)'
                   /\ HasTable(a) =>
                        /\ Entry(a)'.P = Entry(a).P /\ Entry(a)'.page = Entry(a).page
                        /\ Entry(a)' # Entry(a) => a = Low
<1>0. LineOK /\ Invoked /\ PgdirOK
  BY DEF Inv, WordsOK
<1>1. CASE mon_pgmod
  BY <1>0, <1>1, PgmodStep
<1>2. CASE ~ mon_pgmod
  <2>1. kern_pgdir' = kern_pgdir
    <3>1. CASE UNCHANGED vars
      BY <3>1 DEF vars, mvars
    <3>2. CASE readline \/ monitor \/ Parse
      BY <3>2 DEF readline, monitor, Parse, next_arg, too_many, parsed
    <3>3. CASE Row
      BY <3>3 DEF Row, mon_showmappings_entry, memxv_word, memxv_panic, memxp_word, shown, Show, mvars
    <3>4. CASE Invoke
      BY <1>2, <3>4 DEF Invoke, unknown, mon_help, mon_kerninfo, mon_meminfo, mon_exit, bad_range,
                        mon_showmappings, mon_memxv, mon_memxp, BeginRange, bad_pgmod, mon_backtrace,
                        mvars
    <3>5. CASE Backtrace
      BY <3>5 DEF Backtrace, next_frame, frame_fault, frame_shown, last_frame, mvars
    <3> QED BY <3>1, <3>2, <3>3, <3>4, <3>5 DEF Next, runcmd
  <2> QED BY <1>0, <2>1 DEF PgdirOK
<1> QED BY <1>1, <1>2

LEMMA FramesNext ==
  ASSUME Inv, [Next]_vars
  PROVE  FramesOK'
<1> USE DEF trace
<1>0. FramesOK
  BY DEF Inv
<1>1. CASE UNCHANGED vars
  <2>1. UNCHANGED <<stack, base_pointer, buf, argv, pc>>
    BY <1>1 DEF vars, mvars
  <2>2. Word(1)' = Word(1)
    BY <2>1 DEF Word
  <2> QED BY <1>0, <2>1, <2>2 DEF FramesOK
<1>2. CASE readline \/ Parse
  <2>1. stack' = stack /\ pc' \in {"parse", "invoke", "returned"}
    BY <1>2 DEF readline, Parse, next_arg, too_many, parsed, Return0
  <2> QED BY <1>0, <2>1 DEF FramesOK, Tracing
<1>3. CASE monitor
  <2>1. DOMAIN <<>> = {}
    BY EmptySeq
  <2>2. stack' = <<>> /\ pc' = "prompt"
    BY <1>3 DEF monitor
  <2> QED BY <2>1, <2>2 DEF FramesOK, Tracing
<1>4. CASE Row
  <2>1. stack' = stack /\ pc' \in Loops \cup {"panic", "returned"}
    BY <1>4 DEF Row, mon_showmappings_entry, memxv_word, memxv_panic, memxp_word, shown, Show,
                Return0, mvars, Loops
  <2> QED BY <1>0, <2>1 DEF FramesOK, Loops, Tracing
<1>5. CASE mon_backtrace
  <2>1. PICK s \in Stacks : stack' = s.frame /\ base_pointer' = s.ebp
    BY <1>5 DEF mon_backtrace
  <2>2. pc' = "frame" /\ Word(1) = <<"backtrace">> /\ UNCHANGED <<buf, argv>>
    BY <1>5 DEF mon_backtrace, Command
  <2>3. Word(1)' = Word(1)
    BY <2>2 DEF Word
  <2>4. \A b \in DOMAIN stack' : stack'[b].eip \in Nat
    BY <2>1, MonitorAssumption
  <2> QED BY <2>1, <2>2, <2>3, <2>4 DEF FramesOK, Pointers
<1>6. CASE Invoke /\ ~ mon_backtrace
  <2>1. stack' = stack /\ pc' \in Loops \cup {"left", "returned"}
    BY <1>6 DEF Invoke, unknown, mon_help, mon_kerninfo, mon_meminfo, mon_exit, bad_range,
                mon_showmappings, mon_memxv, mon_memxp, BeginRange, bad_pgmod, mon_pgmod,
                mvars, Return0, Loops
  <2> QED BY <1>0, <2>1 DEF FramesOK, Loops, Tracing
<1>7. CASE next_frame
  <2>1. UNCHANGED <<stack, base_pointer, buf, argv>> /\ pc = "frame" /\ base_pointer \in DOMAIN stack
    BY <1>7 DEF next_frame, mvars
  <2>2. Word(1)' = Word(1)
    BY <2>1 DEF Word
  <2> QED BY <1>0, <2>1, <2>2 DEF FramesOK, Tracing
<1>8. CASE frame_fault \/ last_frame
  <2>1. stack' = stack /\ pc' \in {"panic", "returned"}
    BY <1>8 DEF frame_fault, last_frame, mvars, Return0
  <2> QED BY <1>0, <2>1 DEF FramesOK, Tracing
<1>9. CASE frame_shown
  <2>1. /\ UNCHANGED <<stack, buf, argv>> /\ pc = "answer" /\ pc' = "frame"
        /\ base_pointer' = stack[base_pointer].saved_ebp
    BY <1>9 DEF frame_shown
  <2>2. Word(1)' = Word(1)
    BY <2>1 DEF Word
  <2>3. PICK s \in Stacks : s.frame = stack
    BY <1>0, <2>1 DEF FramesOK, Tracing
  <2>4. base_pointer \in DOMAIN stack
    BY <1>0, <2>1 DEF FramesOK
  <2>5. base_pointer' \in Pointers(s)
    BY <2>1, <2>3, <2>4 DEF Pointers
  <2> QED BY <1>0, <2>1, <2>2, <2>3, <2>5 DEF FramesOK, Tracing
<1>10. CASE lookup /\ UNCHANGED mvars
  <2>1. UNCHANGED <<stack, base_pointer, buf, argv>>
    BY <1>10 DEF mvars
  <2>2. pc \in {"search", "found"}
    BY <1>10 DEF lookup, no_file, file_found, fun_found, no_fun, no_line, line_found, Found,
                 stab_binsearch, no_match, below, above, exact, finish, Searching
  <2>3. Word(1)' = Word(1)
    BY <2>1 DEF Word
  <2> QED BY <1>0, <2>1, <2>2, <2>3 DEF FramesOK, Tracing
<1> QED BY <1>1, <1>2, <1>3, <1>4, <1>5, <1>6, <1>7, <1>8, <1>9, <1>10 DEF Next, runcmd, Backtrace

----------------------------------------------------------------------------
(* The theorems.                                                           *)
LEMMA InvInit == Init => Inv
<1> SUFFICES ASSUME Init PROVE Inv
  OBVIOUS
<1>1. LookupOK
  BY DEF Init, Idle, NoLookup, LookupOK, StabInv, TableOK, Searched, Halving, Closing, Closed,
         LookupInv, NamesTheLine
<1>2. Len(<<>>) = 0 /\ DOMAIN <<>> = {} /\ \A S : <<>> \in Seq(S)
  BY EmptySeq
<1>3. WordsOK
  BY <1>2 DEF Init, WordsOK, LineOK, ParseInv, Invoked
<1>4. RowsOK
  BY DEF Init, RowsOK, RangeInv, RowsInv, RowsExact, MonitorSurvives, Loops
<1>5. PgdirOK
  BY SessionAssumption DEF Init, PgdirOK
<1>6. FramesOK
  BY <1>2 DEF Init, FramesOK, Tracing
<1> QED BY <1>1, <1>3, <1>4, <1>5, <1>6 DEF Inv

LEMMA InvNext == Inv /\ [Next]_vars => Inv'
<1> SUFFICES ASSUME Inv, [Next]_vars PROVE Inv'
  OBVIOUS
<1> QED BY LookupsNext, WordsNext, RowsNext, PgdirNext, FramesNext DEF Inv

(* Where a search ends and it is of a sorted part of the table, it has the *)
(* entry of the address (stab_binsearch).                                  *)
THEOREM EntriesFound == Spec => []FindsTheEntry
<1>1. Inv => FindsTheEntry
  BY DEF Inv, LookupOK, StabInv, Closed, FindsTheEntry
<1> QED BY InvInit, InvNext, <1>1, PTL DEF Spec

(* The answer for an address is its file, its function, its line and the   *)
(* number of the function's parameters (debuginfo_eip).                    *)
THEOREM LinesNamed == Spec => []NamesTheLine
<1>1. Inv => NamesTheLine
  BY DEF Inv, LookupOK
<1> QED BY InvInit, InvNext, <1>1, PTL DEF Spec

(* A command gets the words of the line as they were typed (runcmd).       *)
THEOREM WordsExact == Spec => []ArgvExact
<1>1. Inv => ArgvExact
  BY WordsRight DEF Inv, WordsOK
<1> QED BY InvInit, InvNext, <1>1, PTL DEF Spec

(* A range command that ends has shown the whole range, and nothing else;  *)
(* every row has the page, the flags or the word that is there             *)
(* (mon_showmappings, mon_memxv, mon_memxp).                               *)
THEOREM RangesExact == Spec => []RowsExact
<1>1. Inv => RowsExact
  BY DEF Inv, RowsOK, RowsInv
<1> QED BY InvInit, InvNext, <1>1, PTL DEF Spec

(* Only memxv brings the kernel down, of a page that does not exist or a   *)
(* word that leaves its page, and backtrace in a stack with a pointer to   *)
(* nothing (mon_memxv, mon_memxp, mon_backtrace).                          *)
THEOREM Survives == Spec => []MonitorSurvives
<1>1. Inv => MonitorSurvives
  BY DEF Inv, RowsOK
<1> QED BY InvInit, InvNext, <1>1, PTL DEF Spec

(* No command loses or moves a page of kern_pgdir (mon_pgmod).             *)
THEOREM PagesKept == Spec => PgmodKeepsPages
<1>1. Inv /\ [Next]_vars =>
        [kern_pgdir' # kern_pgdir =>
           /\ Word(1) = <<"pgmod">> /\ argc = 4
           /\ \A a \in {PGSIZE * i : i \in 0 .. (Top \div PGSIZE) - 1} :
                /\ HasTable(a) <=> HasTable(a)'
                /\ HasTable(a) =>
                     /\ Entry(a)'.P = Entry(a).P /\ Entry(a)'.page = Entry(a).page
                     /\ Entry(a)' # Entry(a) => a = Low]_vars
  BY PgdirNext
<1> QED BY InvInit, InvNext, <1>1, PTL DEF Spec, PgmodKeepsPages

=============================================================================
