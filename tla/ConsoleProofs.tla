---------------------------- MODULE ConsoleProofs ----------------------------
(***************************************************************************)
(* Console input delivers every character once and in order, and its ring  *)
(* is the queue of module Fifo, for every size of the ring and any number  *)
(* of key strokes, as long as fewer characters are under way than the ring *)
(* has bytes (cons_intr does not look for a full ring).                    *)
(*                                                                         *)
(* DeliveredInOrder is not inductive: it says nothing of what is still in  *)
(* the ring or in a device.  The invariant CInv is about Passed, the       *)
(* characters that have left a device, returned or in the ring.  cons_intr *)
(* appends to Passed and cons_getc leaves it as it is.                     *)
(*                                                                         *)
(* The second part is about the terminal.  The display refines the endless *)
(* roll of module Paper; EchoShowsLine needs in its invariant that the     *)
(* line lies between the first cell of the display and the cursor, which   *)
(* a scroll keeps since the line is shorter than the display.              *)
(* NoStuckModifier needs what the flags are between two bytes of one key.  *)
(***************************************************************************)
EXTENDS Console, Terminal, Arithmetic, FiniteSetTheorems, SequenceTheorems

(* How many bytes of the ring are in use.                                  *)
InUse == (wpos - rpos) % CONSBUFSIZE

Passed == [n \in 1 .. Len(got) + InUse |->
             IF n <= Len(got) THEN got[n] ELSE InRing[n - Len(got)]]

(* c is one of the characters that d has received.                         *)
From(d, c) == \E a \in 1 .. Len(typed[d]) : typed[d][a] = c

(* Characters are numbered in the order of the key strokes.                *)
Numbered ==
  \A d \in Device :
    /\ \A a \in 1 .. Len(typed[d]) : typed[d][a] \in 1 .. count
    /\ \A a, b \in 1 .. Len(typed[d]) : a < b => typed[d][a] < typed[d][b]

OneDevice == \A c \in Char : ~ (From("serial", c) /\ From("kbd", c))

(* What has passed came from a device, in the order of that device.        *)
PassedInOrder ==
  /\ \A n \in 1 .. Len(Passed) : \E d \in Device : From(d, Passed[n])
  /\ \A d \in Device : \A m, n \in 1 .. Len(Passed) :
       m < n /\ From(d, Passed[m]) /\ From(d, Passed[n]) => Passed[m] < Passed[n]

(* So did what a device holds, and it comes after what has passed.         *)
PendingInOrder ==
  \A d \in Device : \A k \in 1 .. Len(pending[d]) : pending[d][k] # NoChar =>
    /\ From(d, pending[d][k])
    /\ \A n \in 1 .. Len(Passed) :
         From(d, Passed[n]) => Passed[n] < pending[d][k]
    /\ \A j \in 1 .. k - 1 : pending[d][j] < pending[d][k]

NothingLost ==
  \A d \in Device : \A a \in 1 .. Len(typed[d]) :
    \/ \E n \in 1 .. Len(Passed) : Passed[n] = typed[d][a]
    \/ \E k \in 1 .. Len(pending[d]) : pending[d][k] = typed[d][a]

UnderWay == AllTyped - Len(got) <= Ahead

CInv ==
  /\ TypeOK /\ Passed \in Seq(Char)
  /\ Numbered /\ OneDevice /\ PassedInOrder /\ PendingInOrder
  /\ NothingLost /\ UnderWay

----------------------------------------------------------------------------
(* Sequences given by their elements.                                      *)
LEMMA AppendIs ==
  ASSUME NEW S, NEW s \in Seq(S), NEW e \in S, NEW t,
         t = [k \in 1 .. Len(s) + 1 |-> t[k]],
         \A k \in 1 .. Len(s) : t[k] = s[k], t[Len(s) + 1] = e
  PROVE  t = Append(s, e)
<1>1. Len(s) \in Nat /\ \A k \in 1 .. Len(s) : s[k] \in S
  BY LenProperties, ElementOfSeq
<1>2. \A k \in 1 .. Len(s) + 1 : t[k] \in S
  <2>1. \A k \in 1 .. Len(s) + 1 : k \in 1 .. Len(s) \/ k = Len(s) + 1
    BY <1>1
  <2> QED BY <1>1, <2>1
<1>3. t \in [1 .. Len(s) + 1 -> S]
  BY <1>2
<1>4. t \in Seq(S) /\ Len(t) = Len(s) + 1
  BY <1>1, <1>3
<1> DEFINE u == Append(s, e)
<1>5. /\ u \in Seq(S) /\ Len(u) = Len(s) + 1
      /\ \A k \in 1 .. Len(s) : u[k] = s[k]
      /\ u[Len(s) + 1] = e
  BY AppendProperties
<1> HIDE DEF u
<1>6. \A k \in 1 .. Len(t) : t[k] = u[k]
  <2>1. \A k \in 1 .. Len(t) : k \in 1 .. Len(s) \/ k = Len(s) + 1
    BY <1>1, <1>4
  <2> QED BY <1>5, <2>1
<1>7. t = u
  BY <1>4, <1>5, <1>6, SeqEqual
<1> QED BY <1>7 DEF u

LEMMA AppendAt ==
  ASSUME NEW S, NEW s \in Seq(S), NEW e \in S, NEW t, t = Append(s, e)
  PROVE  /\ Len(s) \in Nat /\ t \in Seq(S) /\ Len(t) = Len(s) + 1
         /\ \A k \in 1 .. Len(s) : t[k] = s[k]
         /\ t[Len(s) + 1] = e
BY AppendProperties, LenProperties

LEMMA TailIs ==
  ASSUME NEW S, NEW s \in Seq(S), s # <<>>, NEW t,
         t = [k \in 1 .. Len(s) - 1 |-> t[k]],
         \A k \in 1 .. Len(s) - 1 : t[k] = s[k + 1]
  PROVE  t = Tail(s)
<1>1. Len(s) \in Nat \ {0} /\ \A k \in 1 .. Len(s) : s[k] \in S
  BY LenProperties, ElementOfSeq, EmptySeq
<1>2. t \in [1 .. Len(s) - 1 -> S]
  BY <1>1
<1>3. t \in Seq(S) /\ Len(t) = Len(s) - 1
  BY <1>1, <1>2
<1>4. \A k \in 1 .. Len(t) : t[k] = Tail(s)[k]
  BY <1>1, <1>3, HeadTailProperties
<1> QED BY <1>3, <1>4, HeadTailProperties, SeqEqual

LEMMA TailAt ==
  ASSUME NEW S, NEW s \in Seq(S), s # <<>>, NEW t, t = Tail(s)
  PROVE  /\ Len(s) \in Nat \ {0} /\ t \in Seq(S) /\ Len(t) = Len(s) - 1
         /\ Head(s) = s[1]
         /\ \A k \in 1 .. Len(s) - 1 : t[k] = s[k + 1]
BY HeadTailProperties, EmptySeq

(* A sequence that repeats nothing has as many elements as places.         *)
LEMMA InjectiveSize ==
  ASSUME NEW S, NEW s \in Seq(S),
         \A m, n \in 1 .. Len(s) : s[m] = s[n] => m = n
  PROVE  /\ IsFiniteSet({s[n] : n \in 1 .. Len(s)})
         /\ Cardinality({s[n] : n \in 1 .. Len(s)}) = Len(s)
<1> DEFINE R == {s[n] : n \in 1 .. Len(s)}
<1>1. Len(s) \in Nat /\ s \in [1 .. Len(s) -> R]
  BY LenProperties
<1>2. s \in Bijection(1 .. Len(s), R)
  BY <1>1 DEF Bijection, Injection, Surjection, IsInjective
<1>3. ExistsBijection(1 .. Len(s), R)
  BY <1>2 DEF ExistsBijection
<1>4. IsFiniteSet(1 .. Len(s)) /\ Cardinality(1 .. Len(s)) = Len(s)
  <2>1. 1 \in Int /\ Len(s) \in Int
    BY <1>1
  <2>2. /\ IsFiniteSet(1 .. Len(s))
        /\ Cardinality(1 .. Len(s)) = IF 1 > Len(s) THEN 0 ELSE Len(s) - 1 + 1
    BY <2>1, FS_Interval
  <2> QED BY <1>1, <2>2
<1> QED BY <1>3, <1>4, FS_Bijection

----------------------------------------------------------------------------
(* The ring without %.                                                     *)
LEMMA Sizes == /\ CONSBUFSIZE \in Nat \ {0} /\ CONSBUFSIZE > 1
               /\ CONSBUFSIZE \in Int
BY ConsoleAssumption

LEMMA UsedIs ==
  ASSUME NEW r \in 0 .. CONSBUFSIZE - 1, NEW w \in 0 .. CONSBUFSIZE - 1
  PROVE  (w - r) % CONSBUFSIZE =
           IF r <= w THEN w - r ELSE w - r + CONSBUFSIZE
<1> USE Sizes
<1>1. CASE r <= w
  <2>1. w - r \in 0 .. CONSBUFSIZE - 1
    BY <1>1
  <2> QED BY <1>1, <2>1, ModSmall
<1>2. CASE ~(r <= w)
  <2>1. w - r + CONSBUFSIZE \in 0 .. CONSBUFSIZE - 1 /\ -1 \in Int
    BY <1>2
  <2>2. ((-1) * CONSBUFSIZE + (w - r + CONSBUFSIZE)) % CONSBUFSIZE
          = w - r + CONSBUFSIZE
    BY <2>1, ModUnique
  <2>3. (-1) * CONSBUFSIZE + (w - r + CONSBUFSIZE) = w - r
    OBVIOUS
  <2> QED BY <1>2, <2>2, <2>3
<1> QED BY <1>1, <1>2

LEMMA PlaceIs ==
  ASSUME NEW r \in 0 .. CONSBUFSIZE - 1, NEW k \in 1 .. CONSBUFSIZE
  PROVE  (r + k - 1) % CONSBUFSIZE =
           IF r + k - 1 < CONSBUFSIZE THEN r + k - 1
           ELSE r + k - 1 - CONSBUFSIZE
<1> USE Sizes
<1>1. CASE r + k - 1 < CONSBUFSIZE
  <2>1. r + k - 1 \in 0 .. CONSBUFSIZE - 1
    BY <1>1
  <2> QED BY <1>1, <2>1, ModSmall
<1>2. CASE ~(r + k - 1 < CONSBUFSIZE)
  <2>1. r + k - 1 - CONSBUFSIZE \in 0 .. CONSBUFSIZE - 1 /\ 1 \in Int
    BY <1>2
  <2>2. (1 * CONSBUFSIZE + (r + k - 1 - CONSBUFSIZE)) % CONSBUFSIZE
          = r + k - 1 - CONSBUFSIZE
    BY <2>1, ModUnique
  <2>3. 1 * CONSBUFSIZE + (r + k - 1 - CONSBUFSIZE) = r + k - 1
    OBVIOUS
  <2> QED BY <1>2, <2>2, <2>3
<1> QED BY <1>1, <1>2

(* What the ring holds, in a state and in the next one.                    *)
RingSize ==
  /\ rpos \in 0 .. CONSBUFSIZE - 1 /\ wpos \in 0 .. CONSBUFSIZE - 1
  /\ InUse \in Nat
  /\ InUse = IF rpos <= wpos THEN wpos - rpos ELSE wpos - rpos + CONSBUFSIZE

RingFacts ==
  /\ InRing = [k \in 1 .. InUse |-> InRing[k]]
  /\ \A k \in 1 .. InUse :
       InRing[k] = buf[IF rpos + k - 1 < CONSBUFSIZE THEN rpos + k - 1
                       ELSE rpos + k - 1 - CONSBUFSIZE]
  /\ InRing \in Seq({NoChar} \cup Char) /\ Len(InRing) = InUse

LEMMA RingIs == TypeOK => RingSize /\ RingFacts
<1> SUFFICES ASSUME TypeOK PROVE RingSize /\ RingFacts
  OBVIOUS
<1> USE Sizes
<1>1. rpos \in 0 .. CONSBUFSIZE - 1 /\ wpos \in 0 .. CONSBUFSIZE - 1
  BY DEF TypeOK
<1>2. InUse = IF rpos <= wpos THEN wpos - rpos ELSE wpos - rpos + CONSBUFSIZE
  BY <1>1, UsedIs DEF InUse
<1>3. InUse \in 0 .. CONSBUFSIZE - 1
  BY <1>1, <1>2
<1>4. InRing = [k \in 1 .. InUse |-> InRing[k]]
  BY DEF InRing, InUse
<1>5. ASSUME NEW k \in 1 .. InUse
      PROVE  InRing[k] = buf[IF rpos + k - 1 < CONSBUFSIZE THEN rpos + k - 1
                             ELSE rpos + k - 1 - CONSBUFSIZE]
  <2>1. k \in 1 .. CONSBUFSIZE
    BY <1>3, <1>5
  <2>2. InRing[k] = buf[(rpos + k - 1) % CONSBUFSIZE]
    BY <1>5 DEF InRing, InUse
  <2> QED BY <1>1, <2>1, <2>2, PlaceIs
<1>6. \A k \in 1 .. InUse : InRing[k] \in {NoChar} \cup Char
  <2>1. buf \in [0 .. CONSBUFSIZE - 1 -> {NoChar} \cup Char]
    BY DEF TypeOK
  <2> QED BY <1>1, <1>3, <1>5, <2>1
<1>7. InRing \in [1 .. InUse -> {NoChar} \cup Char]
  BY <1>4, <1>6
<1>8. InRing \in Seq({NoChar} \cup Char) /\ Len(InRing) = InUse
  BY <1>3, <1>7
<1>9. InUse \in Nat
  BY <1>3
<1> QED BY <1>1, <1>2, <1>4, <1>5, <1>8, <1>9 DEF RingSize, RingFacts

LEMMA RingIsNext == (TypeOK => RingSize /\ RingFacts)'
BY RingIs, PTL

(* cons_intr adds a character to a ring that has room for it.              *)
LEMMA StashRing ==
  ASSUME TypeOK, TypeOK', NEW c \in Char, InUse + 1 < CONSBUFSIZE,
         rpos' = rpos, buf' = [buf EXCEPT ![wpos] = c], wpos' = After(wpos)
  PROVE  InUse' = InUse + 1 /\ InRing' = Append(InRing, c)
<1> USE Sizes
<1>1. RingSize /\ RingSize' /\ RingFacts /\ RingFacts'
  BY RingIs, RingIsNext
<1>2. InUse' = InUse + 1
  BY <1>1 DEF RingSize, After
<1>0. Len(InRing) = InUse /\ Len(InRing) \in Nat
  BY <1>1 DEF RingSize, RingFacts
<1>3. InRing' = [k \in 1 .. Len(InRing) + 1 |-> InRing'[k]]
  BY <1>1, <1>2 DEF RingFacts
<1>4. ASSUME NEW k \in 1 .. Len(InRing) PROVE InRing'[k] = InRing[k]
  <2>1. /\ k \in 1 .. InUse /\ k \in 1 .. InUse'
    BY <1>0, <1>2
  <2> DEFINE i == IF rpos + k - 1 < CONSBUFSIZE THEN rpos + k - 1
                  ELSE rpos + k - 1 - CONSBUFSIZE
  <2>2. i # wpos /\ i \in 0 .. CONSBUFSIZE - 1
    BY <1>1, <2>1 DEF RingSize
  <2>3. InRing'[k] = buf'[i] /\ InRing[k] = buf[i]
    BY <1>1, <2>1 DEF RingFacts
  <2> HIDE DEF i
  <2>4. buf'[i] = buf[i]
    BY <2>2 DEF TypeOK
  <2> QED BY <2>3, <2>4
<1>5. InRing'[Len(InRing) + 1] = c
  <2>1. InUse + 1 \in 1 .. InUse' /\ Len(InRing) + 1 = InUse + 1
    BY <1>0, <1>2
  <2> DEFINE k == InUse + 1
             i == IF rpos + k - 1 < CONSBUFSIZE THEN rpos + k - 1
                  ELSE rpos + k - 1 - CONSBUFSIZE
  <2>2. i = wpos /\ wpos \in 0 .. CONSBUFSIZE - 1
    BY <1>1 DEF RingSize
  <2>3. InRing'[k] = buf'[i]
    BY <1>1, <2>1 DEF RingFacts
  <2>4. buf'[wpos] = c
    BY <2>2 DEF TypeOK
  <2> QED BY <2>1, <2>2, <2>3, <2>4
<1>6. InRing \in Seq({NoChar} \cup Char) /\ c \in {NoChar} \cup Char
  BY <1>1 DEF RingFacts
<1>7. InRing' = Append(InRing, c)
  BY <1>3, <1>4, <1>5, <1>6, AppendIs
<1> QED BY <1>2, <1>7

(* cons_getc takes the oldest.                                             *)
LEMMA TakeRing ==
  ASSUME TypeOK, TypeOK', rpos # wpos, rpos' = After(rpos),
         UNCHANGED <<buf, wpos>>
  PROVE  /\ InUse' = InUse - 1 /\ InRing # <<>> /\ InUse > 0
         /\ Head(InRing) = buf[rpos] /\ InRing' = Tail(InRing)
<1> USE Sizes
<1>1. RingSize /\ RingSize' /\ RingFacts /\ RingFacts'
  BY RingIs, RingIsNext
<1>2. InUse' = InUse - 1 /\ InUse > 0 /\ InUse \in Nat
  BY <1>1 DEF RingSize, After
<1>0. Len(InRing) = InUse /\ Len(InRing) \in Nat
  BY <1>1 DEF RingSize, RingFacts
<1>3. InRing # <<>>
  BY <1>1, <1>2 DEF RingFacts
<1>4. InRing[1] = buf[rpos]
  <2>1. 1 \in 1 .. InUse
    BY <1>2
  <2> DEFINE i == IF rpos + 1 - 1 < CONSBUFSIZE THEN rpos + 1 - 1
                  ELSE rpos + 1 - 1 - CONSBUFSIZE
  <2>2. InRing[1] = buf[i]
    BY <1>1, <2>1 DEF RingFacts
  <2>3. i = rpos
    BY <1>1 DEF RingSize
  <2> QED BY <2>2, <2>3
<1>5. Head(InRing) = InRing[1]
  BY <1>1, <1>3 DEF RingFacts
<1>6. InRing' = [k \in 1 .. Len(InRing) - 1 |-> InRing'[k]]
  BY <1>1, <1>2 DEF RingFacts
<1>7. ASSUME NEW k \in 1 .. Len(InRing) - 1 PROVE InRing'[k] = InRing[k + 1]
  <2>1. k + 1 \in 1 .. InUse /\ k \in 1 .. InUse' /\ k \in Nat
    BY <1>0, <1>2
  <2> DEFINE i == IF rpos + (k + 1) - 1 < CONSBUFSIZE THEN rpos + (k + 1) - 1
                  ELSE rpos + (k + 1) - 1 - CONSBUFSIZE
             j == IF rpos' + k - 1 < CONSBUFSIZE THEN rpos' + k - 1
                  ELSE rpos' + k - 1 - CONSBUFSIZE
  <2>2. InRing[k + 1] = buf[i]
    BY <1>1, <2>1 DEF RingFacts
  <2>3. InRing'[k] = buf[j]
    BY <1>1, <2>1 DEF RingFacts
  <2>4. i = j
    BY <1>1, <2>1 DEF RingSize, After
  <2> QED BY <2>2, <2>3, <2>4
<1>8. InRing' = Tail(InRing)
  BY <1>1, <1>3, <1>6, <1>7, TailIs DEF RingFacts
<1> QED BY <1>2, <1>3, <1>4, <1>5, <1>8

----------------------------------------------------------------------------
(* What has left the devices, in a state and in the next one.              *)
PassedFacts ==
  /\ InUse \in Nat /\ Len(got) \in Nat
  /\ Passed = [n \in 1 .. Len(got) + InUse |-> Passed[n]]
  /\ Passed \in Seq({NoChar} \cup Char) /\ Len(Passed) = Len(got) + InUse
  /\ \A n \in 1 .. Len(got) : Passed[n] = got[n]
  /\ \A k \in 1 .. InUse : Passed[Len(got) + k] = InRing[k]

LEMMA PassedIs == TypeOK => PassedFacts
<1> SUFFICES ASSUME TypeOK PROVE PassedFacts
  OBVIOUS
<1>1. RingSize /\ RingFacts
  BY RingIs
<1>2. InUse \in Nat /\ Len(got) \in Nat
  BY <1>1 DEF RingSize, TypeOK
<1>3. Passed = [n \in 1 .. Len(got) + InUse |-> Passed[n]]
  BY DEF Passed
<1>4. \A n \in 1 .. Len(got) : Passed[n] = got[n]
  BY <1>2 DEF Passed
<1>5. \A k \in 1 .. InUse : Passed[Len(got) + k] = InRing[k]
  BY <1>2 DEF Passed
<1>6. \A n \in 1 .. Len(got) + InUse : Passed[n] \in {NoChar} \cup Char
  <2>1. \A n \in 1 .. Len(got) : got[n] \in Char
    BY DEF TypeOK
  <2>2. \A k \in 1 .. InUse : InRing[k] \in {NoChar} \cup Char
    <3>1. InRing \in Seq({NoChar} \cup Char) /\ Len(InRing) = InUse
      BY <1>1 DEF RingFacts
    <3> QED BY <3>1, ElementOfSeq
  <2> TAKE n \in 1 .. Len(got) + InUse
  <2>3. Passed[n] = IF n <= Len(got) THEN got[n] ELSE InRing[n - Len(got)]
    BY DEF Passed
  <2>4. CASE n <= Len(got)
    <3>1. n \in 1 .. Len(got)
      BY <1>2, <2>4
    <3> QED BY <2>1, <2>3, <2>4, <3>1
  <2>5. CASE ~(n <= Len(got))
    <3>1. n - Len(got) \in 1 .. InUse
      BY <1>2, <2>5
    <3> QED BY <2>2, <2>3, <2>5, <3>1
  <2> QED BY <2>4, <2>5
<1>7. Passed \in [1 .. Len(got) + InUse -> {NoChar} \cup Char]
  BY <1>3, <1>6
<1>8. Passed \in Seq({NoChar} \cup Char) /\ Len(Passed) = Len(got) + InUse
  BY <1>2, <1>7
<1> QED BY <1>2, <1>3, <1>4, <1>5, <1>8 DEF PassedFacts

LEMMA PassedIsNext == (TypeOK => PassedFacts)'
BY PassedIs, PTL

LEMMA StashPassed ==
  ASSUME TypeOK, TypeOK', NEW c \in Char, InUse + 1 < CONSBUFSIZE,
         rpos' = rpos, buf' = [buf EXCEPT ![wpos] = c], wpos' = After(wpos),
         got' = got
  PROVE  Passed' = Append(Passed, c)
<1>1. PassedFacts /\ PassedFacts' /\ RingFacts
  BY PassedIs, PassedIsNext, RingIs
<1>2. InUse' = InUse + 1 /\ InRing' = Append(InRing, c)
  BY StashRing
<1>3. /\ Len(InRing) = InUse
      /\ \A k \in 1 .. InUse : InRing'[k] = InRing[k]
      /\ InRing'[InUse + 1] = c
  <2>1. /\ InRing \in Seq({NoChar} \cup Char) /\ Len(InRing) = InUse
        /\ c \in {NoChar} \cup Char
    BY <1>1 DEF RingFacts
  <2> QED BY <1>2, <2>1, AppendAt
<1>4. Passed' = [n \in 1 .. Len(Passed) + 1 |-> Passed'[n]]
  BY <1>1, <1>2 DEF PassedFacts
<1>5. ASSUME NEW n \in 1 .. Len(Passed) PROVE Passed'[n] = Passed[n]
  <2>1. CASE n \in 1 .. Len(got)
    BY <1>1, <2>1 DEF PassedFacts
  <2>2. CASE n \notin 1 .. Len(got)
    <3>1. PICK k \in 1 .. InUse : n = Len(got) + k
      <4>1. n - Len(got) \in 1 .. InUse /\ n = Len(got) + (n - Len(got))
        BY <1>1, <2>2 DEF PassedFacts
      <4> QED BY <4>1
    <3>2. k \in 1 .. InUse'
      BY <1>1, <1>2 DEF PassedFacts
    <3> QED BY <1>1, <1>3, <3>1, <3>2 DEF PassedFacts
  <2> QED BY <2>1, <2>2
<1>6. Passed'[Len(Passed) + 1] = c
  <2>1. InUse + 1 \in 1 .. InUse' /\ Len(Passed) + 1 = Len(got) + (InUse + 1)
    BY <1>1, <1>2 DEF PassedFacts
  <2> QED BY <1>1, <1>3, <2>1 DEF PassedFacts
<1>7. Passed \in Seq({NoChar} \cup Char) /\ c \in {NoChar} \cup Char
  BY <1>1 DEF PassedFacts
<1> QED BY <1>4, <1>5, <1>6, <1>7, AppendIs

LEMMA TakePassed ==
  ASSUME TypeOK, TypeOK', rpos # wpos, rpos' = After(rpos),
         UNCHANGED <<buf, wpos>>, got' = Append(got, buf[rpos])
  PROVE  Passed' = Passed
<1>1. PassedFacts /\ PassedFacts' /\ RingFacts
  BY PassedIs, PassedIsNext, RingIs
<1>2. /\ InUse' = InUse - 1 /\ InUse > 0 /\ InRing # <<>>
      /\ Head(InRing) = buf[rpos] /\ InRing' = Tail(InRing)
  BY TakeRing
<1>3. /\ InRing[1] = buf[rpos]
      /\ \A k \in 1 .. InUse - 1 : InRing'[k] = InRing[k + 1]
  <2>1. InRing \in Seq({NoChar} \cup Char) /\ Len(InRing) = InUse
    BY <1>1 DEF RingFacts
  <2> QED BY <1>2, <2>1, TailAt
<1>4. /\ Len(got') = Len(got) + 1 /\ got'[Len(got) + 1] = buf[rpos]
      /\ \A n \in 1 .. Len(got) : got'[n] = got[n]
  <2>1. buf[rpos] \in {NoChar} \cup Char /\ got \in Seq({NoChar} \cup Char)
    BY DEF TypeOK
  <2> QED BY <2>1, AppendAt
<1>5. Len(Passed') = Len(Passed)
  BY <1>1, <1>2, <1>4 DEF PassedFacts
<1>6. ASSUME NEW n \in 1 .. Len(Passed) PROVE Passed'[n] = Passed[n]
  <2>1. CASE n \in 1 .. Len(got)
    <3>1. n \in 1 .. Len(got')
      BY <1>1, <1>4, <2>1 DEF PassedFacts
    <3> QED BY <1>1, <1>4, <2>1, <3>1 DEF PassedFacts
  <2>2. CASE n = Len(got) + 1
    <3>1. 1 \in 1 .. InUse /\ n \in 1 .. Len(got')
      BY <1>1, <1>2, <1>4, <2>2 DEF PassedFacts
    <3> QED BY <1>1, <1>3, <1>4, <2>2, <3>1 DEF PassedFacts
  <2>3. CASE n \notin 1 .. Len(got) /\ n # Len(got) + 1
    <3>1. PICK k \in 1 .. InUse - 1 : n = Len(got) + 1 + k
      <4>1. /\ Len(got) \in Nat /\ InUse \in Nat
            /\ Len(Passed) = Len(got) + InUse
        BY <1>1 DEF PassedFacts
      <4>2. /\ n - Len(got) - 1 \in 1 .. InUse - 1
            /\ n = Len(got) + 1 + (n - Len(got) - 1)
        BY <2>3, <4>1
      <4> QED BY <4>2
    <3>2. /\ k \in 1 .. InUse' /\ k + 1 \in 1 .. InUse
          /\ n = Len(got') + k /\ n = Len(got) + (k + 1)
      BY <1>1, <1>2, <1>4, <3>1 DEF PassedFacts
    <3>3. Passed'[n] = InRing'[k] /\ Passed[n] = InRing[k + 1]
      BY <1>1, <3>2 DEF PassedFacts
    <3> QED BY <1>3, <3>3
  <2> QED BY <2>1, <2>2, <2>3
<1> QED BY <1>1, <1>5, <1>6, SeqEqual DEF PassedFacts

----------------------------------------------------------------------------
(* Sizes and elements of what the invariant speaks of.                     *)
LEMMA Elements ==
  ASSUME CInv
  PROVE  /\ Len(got) \in Nat /\ Len(Passed) = Len(got) + InUse /\ InUse \in Nat
         /\ \A n \in 1 .. Len(Passed) : Passed[n] \in Char
         /\ \A d \in Device :
              /\ Len(pending[d]) \in Nat /\ Len(typed[d]) \in Nat
              /\ \A a \in 1 .. Len(typed[d]) : typed[d][a] \in Char
              /\ \A k \in 1 .. Len(pending[d]) :
                   pending[d][k] \in {NoChar} \cup Char
         /\ Char \subseteq Nat /\ NoChar \notin Char /\ NoChar \in Nat
<1>1. PassedFacts
  BY PassedIs DEF CInv
<1>2. \A n \in 1 .. Len(Passed) : Passed[n] \in Char
  BY ElementOfSeq DEF CInv
<1>3. ASSUME NEW d \in Device
      PROVE  /\ Len(pending[d]) \in Nat /\ Len(typed[d]) \in Nat
             /\ \A a \in 1 .. Len(typed[d]) : typed[d][a] \in Char
             /\ \A k \in 1 .. Len(pending[d]) : pending[d][k] \in {NoChar} \cup Char
  <2>1. pending[d] \in Seq({NoChar} \cup Char) /\ typed[d] \in Seq(Char)
    BY DEF CInv, TypeOK
  <2> QED BY <2>1, ElementOfSeq, LenProperties
<1>4. Char \subseteq Nat /\ NoChar \notin Char /\ NoChar \in Nat
  BY ConsoleAssumption DEF Char, NoChar
<1> QED BY <1>1, <1>2, <1>3, <1>4 DEF PassedFacts

(* A character that is still in a device, and all that have passed, are    *)
(* different characters that were typed: the ring has room for it.         *)
LEMMA RoomInRing ==
  ASSUME CInv, Ahead < CONSBUFSIZE, NEW d \in Device, NEW c \in Char,
         pending[d] # <<>>, Head(pending[d]) = c
  PROVE  InUse + 1 < CONSBUFSIZE
<1> DEFINE W == Append(Passed, c)
           R == {W[n] : n \in 1 .. Len(W)}
           T(e) == {typed[e][a] : a \in 1 .. Len(typed[e])}
<1>1. /\ W \in Seq(Char) /\ Len(W) = Len(Passed) + 1 /\ Len(Passed) \in Nat
      /\ \A n \in 1 .. Len(Passed) : W[n] = Passed[n]
      /\ W[Len(Passed) + 1] = c
  BY AppendAt DEF CInv
<1>2. /\ From(d, c)
      /\ \A n \in 1 .. Len(Passed) : From(d, Passed[n]) => Passed[n] < c
  <2>1. pending[d] \in Seq({NoChar} \cup Char)
    BY DEF CInv, TypeOK
  <2>2. Head(pending[d]) = pending[d][1] /\ Len(pending[d]) \in Nat \ {0}
    BY <2>1, TailAt
  <2>3. 1 \in 1 .. Len(pending[d]) /\ pending[d][1] # NoChar
    BY <2>2, Elements
  <2> QED BY <2>2, <2>3 DEF CInv, PendingInOrder
<1> HIDE DEF W
<1>3. ASSUME NEW n \in 1 .. Len(W)
      PROVE  (n \in 1 .. Len(Passed) /\ W[n] = Passed[n])
             \/ (n = Len(Passed) + 1 /\ W[n] = c)
  BY <1>1
<1>4. ASSUME NEW n \in 1 .. Len(W) PROVE \E e \in Device : From(e, W[n])
  BY <1>2, <1>3 DEF CInv, PassedInOrder
<1>5. ASSUME NEW m \in 1 .. Len(W), NEW n \in 1 .. Len(W), m < n, W[m] = W[n]
      PROVE  FALSE
  <2>1. m \in 1 .. Len(Passed) /\ W[m] = Passed[m] /\ Passed[m] \in Nat
    BY <1>1, <1>5, Elements
  <2>2. CASE n \in 1 .. Len(Passed) /\ W[n] = Passed[n]
    <3>1. PICK e \in Device : From(e, Passed[n])
      BY <2>2 DEF CInv, PassedInOrder
    <3>2. Passed[m] < Passed[n]
      BY <1>5, <2>1, <2>2, <3>1 DEF CInv, PassedInOrder
    <3>3. Passed[m] = Passed[n]
      BY <1>5, <2>1, <2>2
    <3> QED BY <2>1, <3>2, <3>3
  <2>3. CASE n = Len(Passed) + 1 /\ W[n] = c
    <3>1. Passed[m] = c
      BY <1>5, <2>1, <2>3
    <3>2. Passed[m] < c
      BY <1>2, <2>1, <3>1
    <3> QED BY <2>1, <3>1, <3>2
  <2> QED BY <1>3, <2>2, <2>3
<1>6. \A m, n \in 1 .. Len(W) : W[m] = W[n] => m = n
  BY <1>1, <1>5
<1>7. IsFiniteSet(R) /\ Cardinality(R) = Len(W)
  BY <1>1, <1>6, InjectiveSize
<1>8. ASSUME NEW e \in Device
      PROVE  /\ IsFiniteSet(T(e)) /\ Cardinality(T(e)) = Len(typed[e])
             /\ Len(typed[e]) \in Nat /\ T(e) \subseteq Char
             /\ \A x : From(e, x) <=> x \in T(e)
  <2>1. typed[e] \in Seq(Char) /\ Len(typed[e]) \in Nat
    BY LenProperties DEF CInv, TypeOK
  <2>2. ASSUME NEW a \in 1 .. Len(typed[e]), NEW b \in 1 .. Len(typed[e]),
               typed[e][a] = typed[e][b]
        PROVE  a = b
    <3>1. typed[e][a] \in Nat
      BY Elements
    <3>2. ~ (a < b) /\ ~ (b < a)
      BY <2>2, <3>1 DEF CInv, Numbered
    <3> QED BY <2>1, <3>2
  <2>3. T(e) \subseteq Char
    BY Elements
  <2>4. \A x : From(e, x) <=> x \in T(e)
    BY DEF From
  <2> HIDE DEF CInv
  <2> QED BY <2>1, <2>2, <2>3, <2>4, InjectiveSize
<1> DEFINE s == T("serial")
           k == T("kbd")
<1>9. /\ IsFiniteSet(s) /\ Cardinality(s) = Len(typed["serial"])
      /\ IsFiniteSet(k) /\ Cardinality(k) = Len(typed["kbd"])
      /\ Len(typed["serial"]) \in Nat /\ Len(typed["kbd"]) \in Nat
      /\ s \cap k = {}
  <2>1. "serial" \in Device /\ "kbd" \in Device
    BY DEF Device
  <2>2. s \cap k = {}
    BY <1>8, <2>1 DEF CInv, OneDevice
  <2> QED BY <1>8, <2>1, <2>2
<1>10. R \subseteq s \cup k
  <2>1. ASSUME NEW n \in 1 .. Len(W) PROVE W[n] \in s \cup k
    <3>1. PICK e \in Device : From(e, W[n])
      BY <1>4
    <3>2. W[n] \in T(e) /\ (e = "serial" \/ e = "kbd")
      BY <1>8, <3>1 DEF Device
    <3> QED BY <3>2
  <2> QED BY <2>1
<1> HIDE DEF R, s, k
<1>11. Cardinality(s \cap k) = 0
  BY <1>9, FS_EmptySet
<1>12. PICK m \in Nat, n \in Nat :
         /\ Cardinality(s) = m /\ Cardinality(k) = n /\ AllTyped = m + n
  BY <1>9, Zenon DEF AllTyped
<1>13. IsFiniteSet(s \cup k) /\ Cardinality(s \cup k) = AllTyped
  <2>1. /\ IsFiniteSet(s \cup k)
        /\ Cardinality(s \cup k)
             = Cardinality(s) + Cardinality(k) - Cardinality(s \cap k)
    BY <1>9, FS_Union
  <2>2. m + n - 0 = m + n
    OBVIOUS
  <2> QED BY <1>11, <1>12, <2>1, <2>2
<1>14. Cardinality(R) <= Cardinality(s \cup k) /\ AllTyped \in Nat
  BY <1>10, <1>12, <1>13, FS_Subset
<1>15. /\ Len(got) \in Nat /\ InUse \in Nat /\ Len(Passed) = Len(got) + InUse
       /\ AllTyped - Len(got) <= Ahead
  BY Elements DEF CInv, UnderWay
<1>16. Ahead \in Nat /\ CONSBUFSIZE \in Nat
  BY ConsoleAssumption
<1> QED BY <1>1, <1>7, <1>13, <1>14, <1>15, <1>16

----------------------------------------------------------------------------
(* The invariant holds at first and is preserved by every step.            *)
LEMMA InitHolds == Init => CInv
<1> SUFFICES ASSUME Init PROVE CInv
  OBVIOUS
<1>1. TypeOK
  <2>1. \A d \in Device : pending[d] = <<>> /\ typed[d] = <<>>
    BY DEF Init
  <2>2. Len(<<>>) = 0 /\ \A d \in Device : Holds[d] \in Nat
    BY ConsoleAssumption
  <2>3. \A d \in Device : Len(pending[d]) <= Holds[d]
    BY <2>1, <2>2
  <2> QED BY <2>3, ConsoleAssumption DEF Init, TypeOK, Device
<1>2. got = <<>> /\ Len(got) = 0
  BY DEF Init
<1>3. InUse = 0 /\ PassedFacts
  BY <1>1, RingIs, PassedIs DEF Init, RingSize
<1>4. Len(Passed) = 0 /\ Passed \in Seq({NoChar} \cup Char)
  BY <1>2, <1>3 DEF PassedFacts
<1>5. Passed = <<>>
  BY <1>4, EmptySeq
<1>6. Passed \in Seq(Char)
  BY <1>5
<1>7. \A d \in Device : pending[d] = <<>> /\ typed[d] = <<>>
                        /\ Len(pending[d]) = 0 /\ Len(typed[d]) = 0
  BY DEF Init
<1>8. \A d \in Device : \A c : ~ From(d, c)
  BY <1>7 DEF From
<1>9. Numbered /\ OneDevice /\ PassedInOrder /\ PendingInOrder /\ NothingLost
  BY <1>4, <1>7, <1>8
  DEF Numbered, OneDevice, PassedInOrder, PendingInOrder, NothingLost, Device
<1>10. UnderWay
  <2>1. Len(typed["serial"]) = 0 /\ Len(typed["kbd"]) = 0
    BY <1>7 DEF Device
  <2>2. AllTyped = 0 + 0
    BY <2>1 DEF AllTyped
  <2> QED BY <1>2, <2>2, ConsoleAssumption DEF UnderWay
<1> QED BY <1>1, <1>6, <1>9, <1>10 DEF CInv

(* A step that leaves the characters where they are.                       *)
LEMMA SamePlaces ==
  ASSUME CInv, TypeOK', UNCHANGED <<pending, typed, count>>, Passed' = Passed,
         Len(got) <= Len(got')
  PROVE  CInv'
<1>1. \A d \in Device : \A c : From(d, c)' <=> From(d, c)
  BY DEF From
<1>2. Numbered' /\ OneDevice'
  BY <1>1 DEF CInv, Numbered, OneDevice, Device
<1>3. PassedInOrder' /\ PendingInOrder' /\ NothingLost'
  BY <1>1 DEF CInv, PassedInOrder, PendingInOrder, NothingLost
<1>4. UnderWay'
  <2>1. AllTyped' = AllTyped
    BY DEF AllTyped
  <2>2. PICK t \in Nat : AllTyped = t
    <3>1. Len(typed["serial"]) \in Nat /\ Len(typed["kbd"]) \in Nat
      BY Elements DEF Device
    <3>2. PICK m \in Nat, n \in Nat : AllTyped = m + n
      BY <3>1, Zenon DEF AllTyped
    <3> QED BY <3>2
  <2>3. t - Len(got) <= Ahead /\ Len(got) \in Nat /\ Len(got') \in Nat
    BY <2>2, Elements, LenProperties DEF CInv, UnderWay, TypeOK
  <2>4. t - Len(got') <= Ahead
    BY <2>3, ConsoleAssumption
  <2> QED BY <2>1, <2>2, <2>4 DEF UnderWay
<1> QED BY <1>2, <1>3, <1>4 DEF CInv

LEMMA ReturnHolds == CInv /\ cons_getc_return => CInv'
<1> SUFFICES ASSUME CInv, cons_getc_return PROVE CInv'
  OBVIOUS
<1> USE Sizes
<1>1. /\ pc' = "serial"
      /\ UNCHANGED <<serial_exists, pending, buf, wpos, count, typed>>
      /\ taken \/ (rpos = wpos /\ UNCHANGED <<got, rpos>>)
      /\ TypeOK
  BY DEF cons_getc_return, CInv
<1>2. CASE rpos = wpos /\ UNCHANGED <<got, rpos>>
  <2>1. TypeOK'
    BY <1>1, <1>2 DEF TypeOK, Device
  <2>2. Passed' = Passed
    BY <1>1, <1>2 DEF Passed, InUse, InRing
  <2>3. Len(got') = Len(got) /\ Len(got) \in Nat
    BY <1>2, Elements
  <2> QED BY <1>1, <2>1, <2>2, <2>3, SamePlaces
<1>3. CASE taken
  <2>1. rpos # wpos /\ got' = Append(got, buf[rpos]) /\ rpos' = After(rpos)
    BY <1>3 DEF taken
  <2>2. buf[rpos] \in Char
    <3>1. RingSize /\ RingFacts /\ PassedFacts
      BY <1>1, RingIs, PassedIs
    <3>2. 1 \in 1 .. InUse
      BY <2>1, <3>1 DEF RingSize
    <3>3. /\ InRing[1] = buf[IF rpos + 1 - 1 < CONSBUFSIZE THEN rpos + 1 - 1
                             ELSE rpos + 1 - 1 - CONSBUFSIZE]
          /\ Passed[Len(got) + 1] = InRing[1]
      BY <3>1, <3>2 DEF RingFacts, PassedFacts
    <3>4. (IF rpos + 1 - 1 < CONSBUFSIZE THEN rpos + 1 - 1
           ELSE rpos + 1 - 1 - CONSBUFSIZE) = rpos
      BY <3>1 DEF RingSize
    <3>5. Len(got) + 1 \in 1 .. Len(Passed)
      BY <3>1, <3>2 DEF PassedFacts
    <3>6. Passed[Len(got) + 1] \in Char
      BY <3>5, Elements
    <3> QED BY <3>3, <3>4, <3>6
  <2>3. got' \in Seq(Char) /\ Len(got') = Len(got) + 1 /\ Len(got) \in Nat
    <3>1. got \in Seq(Char)
      BY <1>1 DEF TypeOK
    <3> QED BY <2>1, <2>2, <3>1, AppendAt
  <2>4. rpos' \in DOMAIN buf'
    BY <1>1, <2>1 DEF TypeOK, After
  <2>5. TypeOK'
    BY <1>1, <2>3, <2>4 DEF TypeOK, Device
  <2>6. Passed' = Passed
    BY <1>1, <2>1, <2>5, TakePassed
  <2>7. Len(got) <= Len(got')
    BY <2>3
  <2> QED BY <1>1, <2>5, <2>6, <2>7, SamePlaces
<1> QED BY <1>1, <1>2, <1>3

LEMMA DoneHolds ==
  ASSUME CInv, NEW d \in Device, cons_intr_done(d)
  PROVE  CInv' /\ UNCHANGED <<got, ring>>
<1>1. /\ pc' \in Device \cup {"take"}
      /\ UNCHANGED <<serial_exists, pending, ring, got, count, typed>>
  BY DEF cons_intr_done, AfterSerial, Device
<1>2. TypeOK'
  BY <1>1 DEF CInv, TypeOK, ring
<1>3. Passed' = Passed /\ Len(got) <= Len(got')
  BY <1>1, Elements DEF Passed, InUse, InRing, ring
<1> QED BY <1>1, <1>2, <1>3, SamePlaces

LEMMA OneSource ==
  ASSUME CInv, NEW d \in Device, NEW e \in Device, NEW c,
         From(d, c), From(e, c)
  PROVE  d = e
<1>1. c \in Char
  <2>1. PICK a \in 1 .. Len(typed[d]) : typed[d][a] = c
    BY DEF From
  <2> QED BY <2>1, Elements
<1> QED BY <1>1 DEF CInv, OneDevice, Device

(* A round of cons_intr, with the ring's step that it makes.               *)
LEMMA IntrHolds ==
  ASSUME CInv, Ahead < CONSBUFSIZE, NEW d \in Device, cons_intr_char(d)
  PROVE  /\ CInv' /\ got' = got
         /\ \/ InRing' = InRing
            \/ \E c \in Char : /\ InUse + 1 < CONSBUFSIZE
                               /\ InRing' = Append(InRing, c)
<1> USE Sizes
<1> DEFINE q == pending[d]
           z == Head(q)
<1>1. /\ q # <<>> /\ Stash(z) /\ pending' = [pending EXCEPT ![d] = Tail(q)]
      /\ UNCHANGED <<serial_exists, rpos, pc, got, count, typed>>
      /\ TypeOK
  BY DEF cons_intr_char, CInv
<1>2. /\ q \in Seq({NoChar} \cup Char) /\ Len(q) \in Nat \ {0} /\ z = q[1]
      /\ Tail(q) \in Seq({NoChar} \cup Char) /\ Len(Tail(q)) = Len(q) - 1
      /\ \A k \in 1 .. Len(q) - 1 : Tail(q)[k] = q[k + 1]
  <2>1. q \in Seq({NoChar} \cup Char)
    BY <1>1 DEF TypeOK
  <2> QED BY <1>1, <2>1, TailAt
<1>3. pending'[d] = Tail(q) /\ \A e \in Device \ {d} : pending'[e] = pending[e]
  BY <1>1 DEF TypeOK
<1>4. \A e \in Device : \A c : From(e, c)' <=> From(e, c)
  BY <1>1 DEF From
<1>5. 1 \in 1 .. Len(q) /\ z \in {NoChar} \cup Char
  BY <1>2, Elements
<1>6. /\ pending' \in [Device -> Seq({NoChar} \cup Char)]
      /\ \A e \in Device : Len(pending'[e]) <= Holds[e]
  <2>1. pending' \in [Device -> Seq({NoChar} \cup Char)]
    BY <1>1, <1>2 DEF TypeOK
  <2>2. Len(pending'[d]) <= Holds[d]
    <3>1. Len(q) <= Holds[d] /\ Holds[d] \in Nat
      BY <1>1, ConsoleAssumption DEF TypeOK
    <3> QED BY <1>2, <1>3, <3>1
  <2> QED BY <1>1, <1>3, <2>1, <2>2 DEF TypeOK
<1>7. Numbered' /\ OneDevice'
  BY <1>1, <1>4 DEF CInv, Numbered, OneDevice, Device
<1>8. UnderWay'
  BY <1>1 DEF CInv, UnderWay, AllTyped
<1>9. Len(Passed) \in Nat
  BY Elements
<1> HIDE DEF q, z
<1>10. CASE z = NoChar
  <2>1. UNCHANGED <<buf, wpos>>
    BY <1>1, <1>10 DEF Stash
  <2>2. Passed' = Passed /\ InRing' = InRing
    BY <1>1, <2>1 DEF Passed, InUse, InRing
  <2>3. TypeOK'
    BY <1>1, <1>6, <2>1 DEF TypeOK
  <2>4. PassedInOrder'
    BY <1>4, <2>2 DEF CInv, PassedInOrder
  <2>5. PendingInOrder'
    <3> SUFFICES ASSUME NEW e \in Device, NEW k \in 1 .. Len(pending'[e]),
                        pending'[e][k] # NoChar
                 PROVE  /\ From(e, pending'[e][k])
                        /\ \A n \in 1 .. Len(Passed) :
                             From(e, Passed[n]) => Passed[n] < pending'[e][k]
                        /\ \A j \in 1 .. k - 1 : pending'[e][j] < pending'[e][k]
      BY <1>4, <2>2 DEF PendingInOrder
    <3>1. CASE e # d
      BY <1>3, <3>1 DEF CInv, PendingInOrder
    <3>2. CASE e = d
      <4>1. k + 1 \in 1 .. Len(q) /\ k \in 1 .. Len(q) - 1
        BY <1>2, <1>3, <3>2
      <4>2. pending'[e][k] = q[k + 1] /\ q[k + 1] # NoChar
        BY <1>2, <1>3, <3>2, <4>1
      <4>3. /\ From(e, q[k + 1])
            /\ \A n \in 1 .. Len(Passed) :
                 From(e, Passed[n]) => Passed[n] < q[k + 1]
            /\ \A j \in 1 .. (k + 1) - 1 : q[j] < q[k + 1]
        BY <3>2, <4>1, <4>2 DEF CInv, PendingInOrder, q
      <4>4. ASSUME NEW j \in 1 .. k - 1
            PROVE  j + 1 \in 1 .. (k + 1) - 1 /\ pending'[e][j] = q[j + 1]
        <5>1. j \in 1 .. Len(q) - 1 /\ j + 1 \in 1 .. (k + 1) - 1
          BY <1>2, <4>1
        <5>2. Tail(q)[j] = q[j + 1]
          BY <1>2, <5>1
        <5>3. pending'[e] = Tail(q)
          BY <1>3, <3>2
        <5> QED BY <5>1, <5>2, <5>3
      <4> QED BY <4>2, <4>3, <4>4
    <3> QED BY <3>1, <3>2
  <2>6. NothingLost'
    <3>0. typed' = typed
      BY <1>1
    <3> SUFFICES ASSUME NEW e \in Device, NEW a \in 1 .. Len(typed[e])
                 PROVE  \/ \E n \in 1 .. Len(Passed) : Passed[n] = typed[e][a]
                        \/ \E k \in 1 .. Len(pending'[e]) :
                             pending'[e][k] = typed[e][a]
      BY <2>2, <3>0 DEF NothingLost
    <3>1. CASE e # d
      BY <1>3, <3>1 DEF CInv, NothingLost
    <3>2. CASE \E n \in 1 .. Len(Passed) : Passed[n] = typed[e][a]
      BY <3>2
    <3>3. CASE e = d /\ \E k \in 1 .. Len(q) : q[k] = typed[e][a]
      <4>1. PICK k \in 1 .. Len(q) : q[k] = typed[e][a]
        BY <3>3
      <4>2. typed[e][a] \in Char /\ NoChar \notin Char
        BY Elements
      <4>3. k # 1
        BY <1>2, <1>10, <4>1, <4>2
      <4>4. k - 1 \in 1 .. Len(q) - 1 /\ (k - 1) + 1 = k
        BY <1>2, <4>3
      <4>5. Tail(q)[k - 1] = q[k]
        BY <1>2, <4>4
      <4> QED BY <1>2, <1>3, <3>3, <4>1, <4>4, <4>5
    <3> QED BY <3>1, <3>2, <3>3 DEF CInv, NothingLost, q
  <2>7. Passed' \in Seq(Char)
    BY <2>2 DEF CInv
  <2> QED BY <1>1, <1>7, <1>8, <2>2, <2>3, <2>4, <2>5, <2>6, <2>7 DEF CInv
<1>11. CASE z # NoChar
  <2>1. /\ buf' = [buf EXCEPT ![wpos] = z] /\ wpos' = After(wpos)
        /\ z \in Char
    BY <1>1, <1>5, <1>11 DEF Stash
  <2>2. InUse + 1 < CONSBUFSIZE
    BY <1>1, <2>1, RoomInRing DEF q, z
  <2>3. TypeOK'
    <3>1. /\ buf \in [0 .. CONSBUFSIZE - 1 -> {NoChar} \cup Char]
          /\ wpos \in 0 .. CONSBUFSIZE - 1 /\ rpos \in 0 .. CONSBUFSIZE - 1
      BY <1>1 DEF TypeOK
    <3>2. /\ buf' \in [0 .. CONSBUFSIZE - 1 -> {NoChar} \cup Char]
          /\ rpos' \in DOMAIN buf' /\ wpos' \in DOMAIN buf'
      BY <1>1, <2>1, <3>1 DEF After
    <3> QED BY <1>1, <1>6, <3>2 DEF TypeOK
  <2>4. Passed' = Append(Passed, z)
    BY <1>1, <2>1, <2>2, <2>3, StashPassed
  <2>5. InRing' = Append(InRing, z)
    BY <1>1, <2>1, <2>2, <2>3, StashRing
  <2>6. /\ Passed' \in Seq(Char) /\ Len(Passed') = Len(Passed) + 1
        /\ \A n \in 1 .. Len(Passed) : Passed'[n] = Passed[n]
        /\ Passed'[Len(Passed) + 1] = z
    BY <2>1, <2>4, AppendAt DEF CInv
  <2>7. \A n \in 1 .. Len(Passed') :
          n \in 1 .. Len(Passed) \/ n = Len(Passed) + 1
    BY <1>9, <2>6
  <2>8. /\ From(d, z)
        /\ \A n \in 1 .. Len(Passed) : From(d, Passed[n]) => Passed[n] < z
    BY <1>2, <1>5, <1>11 DEF CInv, PendingInOrder, q
  <2>9. \A e \in Device : From(e, z) => e = d
    BY <2>8, OneSource
  <2>10. PassedInOrder'
    <3>1. ASSUME NEW n \in 1 .. Len(Passed')
          PROVE  \E e \in Device : From(e, Passed'[n])
      BY <2>6, <2>7, <2>8 DEF CInv, PassedInOrder
    <3>2. ASSUME NEW e \in Device, NEW m \in 1 .. Len(Passed'),
                 NEW n \in 1 .. Len(Passed'), m < n,
                 From(e, Passed'[m]), From(e, Passed'[n])
          PROVE  Passed'[m] < Passed'[n]
      <4>1. m \in 1 .. Len(Passed)
        BY <1>9, <2>6, <3>2
      <4>2. CASE n \in 1 .. Len(Passed)
        BY <2>6, <3>2, <4>1, <4>2 DEF CInv, PassedInOrder
      <4>3. CASE n = Len(Passed) + 1
        BY <2>6, <2>8, <2>9, <3>2, <4>1, <4>3
      <4> QED BY <2>7, <4>2, <4>3
    <3> QED BY <1>4, <3>1, <3>2 DEF PassedInOrder
  <2>11. PendingInOrder'
    <3> SUFFICES ASSUME NEW e \in Device, NEW k \in 1 .. Len(pending'[e]),
                        pending'[e][k] # NoChar
                 PROVE  /\ From(e, pending'[e][k])
                        /\ \A n \in 1 .. Len(Passed') :
                             From(e, Passed'[n]) => Passed'[n] < pending'[e][k]
                        /\ \A j \in 1 .. k - 1 : pending'[e][j] < pending'[e][k]
      BY <1>4 DEF PendingInOrder
    <3>1. CASE e # d
      <4>1. /\ From(e, pending'[e][k])
            /\ \A n \in 1 .. Len(Passed) :
                 From(e, Passed[n]) => Passed[n] < pending'[e][k]
            /\ \A j \in 1 .. k - 1 : pending'[e][j] < pending'[e][k]
        BY <1>3, <3>1 DEF CInv, PendingInOrder
      <4>2. ~ From(e, z)
        BY <2>9, <3>1
      <4> QED BY <2>6, <2>7, <4>1, <4>2
    <3>2. CASE e = d
      <4>1. k + 1 \in 1 .. Len(q) /\ k \in 1 .. Len(q) - 1
        BY <1>2, <1>3, <3>2
      <4>2. pending'[e][k] = q[k + 1] /\ q[k + 1] # NoChar
        BY <1>2, <1>3, <3>2, <4>1
      <4>3. /\ From(e, q[k + 1])
            /\ \A n \in 1 .. Len(Passed) :
                 From(e, Passed[n]) => Passed[n] < q[k + 1]
            /\ \A j \in 1 .. (k + 1) - 1 : q[j] < q[k + 1]
        BY <3>2, <4>1, <4>2 DEF CInv, PendingInOrder, q
      <4>4. ASSUME NEW j \in 1 .. k - 1
            PROVE  j + 1 \in 1 .. (k + 1) - 1 /\ pending'[e][j] = q[j + 1]
        <5>1. j \in 1 .. Len(q) - 1 /\ j + 1 \in 1 .. (k + 1) - 1
          BY <1>2, <4>1
        <5>2. Tail(q)[j] = q[j + 1]
          BY <1>2, <5>1
        <5>3. pending'[e] = Tail(q)
          BY <1>3, <3>2
        <5> QED BY <5>1, <5>2, <5>3
      <4>5. z < q[k + 1]
        <5>1. 1 \in 1 .. (k + 1) - 1
          BY <4>1, <1>2
        <5> QED BY <1>2, <4>3, <5>1
      <4> QED BY <2>6, <2>7, <4>2, <4>3, <4>4, <4>5
    <3> QED BY <3>1, <3>2
  <2>12. NothingLost'
    <3>0. typed' = typed
      BY <1>1
    <3> SUFFICES ASSUME NEW e \in Device, NEW a \in 1 .. Len(typed[e])
                 PROVE  \/ \E n \in 1 .. Len(Passed') : Passed'[n] = typed[e][a]
                        \/ \E k \in 1 .. Len(pending'[e]) :
                             pending'[e][k] = typed[e][a]
      BY <3>0 DEF NothingLost
    <3>1. /\ Len(Passed) + 1 \in 1 .. Len(Passed')
          /\ \A n \in 1 .. Len(Passed) : n \in 1 .. Len(Passed')
      BY <1>9, <2>6
    <3>2. CASE \E n \in 1 .. Len(Passed) : Passed[n] = typed[e][a]
      BY <2>6, <3>1, <3>2
    <3>3. CASE e # d /\ \E k \in 1 .. Len(pending[e]) :
                           pending[e][k] = typed[e][a]
      BY <1>3, <3>3
    <3>4. CASE e = d /\ \E k \in 1 .. Len(q) : q[k] = typed[e][a]
      <4>1. PICK k \in 1 .. Len(q) : q[k] = typed[e][a]
        BY <3>4
      <4>2. CASE k = 1
        BY <1>2, <2>6, <3>1, <4>1, <4>2
      <4>3. CASE k # 1
        <5>1. k - 1 \in 1 .. Len(q) - 1 /\ (k - 1) + 1 = k
          BY <1>2, <4>3
        <5>2. Tail(q)[k - 1] = q[k]
          BY <1>2, <5>1
        <5> QED BY <1>2, <1>3, <3>4, <4>1, <5>1, <5>2
      <4> QED BY <4>2, <4>3
    <3> QED BY <3>2, <3>3, <3>4 DEF CInv, NothingLost, q
  <2> QED
    BY <1>1, <1>7, <1>8, <2>1, <2>2, <2>3, <2>5, <2>6, <2>10, <2>11, <2>12
    DEF CInv
<1> QED BY <1>10, <1>11

LEMMA ArriveHolds ==
  ASSUME CInv, NEW d \in Device, Arrive(d)
  PROVE  CInv' /\ UNCHANGED <<got, ring>>
<1>1. /\ count < MaxTyped /\ Len(pending[d]) < Holds[d] /\ count' = count + 1
      /\ UNCHANGED <<serial_exists, ring, pc, got>> /\ TypeOK
  BY DEF Arrive, CInv
<1>2. PICK c \in {count', NoChar} :
        /\ c # NoChar => AllTyped - Len(got) < Ahead
        /\ pending' = [pending EXCEPT ![d] = Append(@, c)]
        /\ typed' = [typed EXCEPT ![d] = IF c = NoChar THEN @ ELSE Append(@, c)]
  BY DEF Arrive
<1>3. /\ count \in Nat /\ MaxTyped \in Nat /\ count' \in 0 .. MaxTyped
      /\ count' \in Char
  BY <1>1, ConsoleAssumption DEF TypeOK, Char
<1>4. c \in {NoChar} \cup Char
  BY <1>3
<1> DEFINE q == pending[d]
           z == Append(q, c)
<1>5. /\ z \in Seq({NoChar} \cup Char) /\ Len(z) = Len(q) + 1 /\ Len(q) \in Nat
      /\ \A k \in 1 .. Len(q) : z[k] = q[k]
      /\ z[Len(q) + 1] = c
  <2>1. q \in Seq({NoChar} \cup Char)
    BY <1>1 DEF TypeOK
  <2> QED BY <1>4, <2>1, AppendAt
<1>6. pending'[d] = z /\ \A e \in Device \ {d} : pending'[e] = pending[e]
  BY <1>1, <1>2 DEF TypeOK
<1> HIDE DEF z
<1>7. /\ pending' \in [Device -> Seq({NoChar} \cup Char)]
      /\ \A e \in Device : Len(pending'[e]) <= Holds[e]
  <2>1. pending' \in [Device -> Seq({NoChar} \cup Char)]
    BY <1>1, <1>2, <1>5 DEF TypeOK, z
  <2>2. Len(pending'[d]) <= Holds[d]
    <3>1. Holds[d] \in Nat
      BY ConsoleAssumption
    <3> QED BY <1>1, <1>5, <1>6, <3>1
  <2> QED BY <1>1, <1>6, <2>1, <2>2 DEF TypeOK
<1>8. \A k \in 1 .. Len(z) : k \in 1 .. Len(q) \/ k = Len(q) + 1
  BY <1>5
<1>9. Passed' = Passed
  BY <1>1 DEF Passed, InUse, InRing, ring
<1>10. ASSUME NEW e \in Device, NEW x, From(e, x)
       PROVE  x \in Nat /\ x <= count
  <2>1. PICK a \in 1 .. Len(typed[e]) : typed[e][a] = x
    BY <1>10 DEF From
  <2>2. x \in 1 .. count
    BY <2>1 DEF CInv, Numbered
  <2> QED BY <1>3, <2>2
<1> HIDE DEF q
<1>11. CASE c = NoChar
  <2>1. typed' = typed
    BY <1>1, <1>2, <1>11 DEF TypeOK
  <2>2. \A e \in Device : \A x : From(e, x)' <=> From(e, x)
    BY <2>1 DEF From
  <2>3. TypeOK'
    BY <1>1, <1>3, <1>7, <2>1 DEF TypeOK, ring
  <2>4. Numbered'
    <3>1. \A x \in 1 .. count : x \in 1 .. count'
      BY <1>1, <1>3
    <3> QED BY <2>1, <3>1 DEF CInv, Numbered
  <2>5. OneDevice' /\ PassedInOrder'
    BY <1>9, <2>2 DEF CInv, OneDevice, PassedInOrder, Device
  <2>6. PendingInOrder'
    <3> SUFFICES ASSUME NEW e \in Device, NEW k \in 1 .. Len(pending'[e]),
                        pending'[e][k] # NoChar
                 PROVE  /\ From(e, pending'[e][k])
                        /\ \A n \in 1 .. Len(Passed) :
                             From(e, Passed[n]) => Passed[n] < pending'[e][k]
                        /\ \A j \in 1 .. k - 1 : pending'[e][j] < pending'[e][k]
      BY <1>9, <2>2 DEF PendingInOrder
    <3>1. CASE e # d
      BY <1>6, <3>1 DEF CInv, PendingInOrder
    <3>2. CASE e = d
      <4>1. k \in 1 .. Len(q) /\ pending'[e][k] = q[k]
        BY <1>5, <1>6, <1>8, <1>11, <3>2
      <4>2. \A j \in 1 .. k - 1 : pending'[e][j] = q[j]
        BY <1>5, <1>6, <3>2, <4>1
      <4> QED BY <3>2, <4>1, <4>2 DEF CInv, PendingInOrder, q
    <3> QED BY <3>1, <3>2
  <2>7. NothingLost'
    <3>1. \A e \in Device : \A x : (\E k \in 1 .. Len(pending[e]) : pending[e][k] = x)
                           => \E k \in 1 .. Len(pending'[e]) : pending'[e][k] = x
      BY <1>5, <1>6 DEF q
    <3>2. ASSUME NEW e \in Device, NEW a \in 1 .. Len(typed[e])
          PROVE  \/ \E n \in 1 .. Len(Passed) : Passed[n] = typed[e][a]
                 \/ \E k \in 1 .. Len(pending'[e]) : pending'[e][k] = typed[e][a]
      BY <3>1 DEF CInv, NothingLost
    <3> QED BY <1>9, <2>1, <3>2 DEF NothingLost
  <2>8. UnderWay'
    BY <1>1, <2>1 DEF CInv, UnderWay, AllTyped
  <2> QED BY <1>1, <1>9, <2>3, <2>4, <2>5, <2>6, <2>7, <2>8 DEF CInv
<1>12. CASE c # NoChar
  <2>0. c = count + 1 /\ c \in Char /\ c \in Nat
    BY <1>1, <1>2, <1>3, <1>12 DEF Char
  <2> DEFINE t == Append(typed[d], c)
  <2>1. /\ t \in Seq(Char) /\ Len(t) = Len(typed[d]) + 1 /\ Len(typed[d]) \in Nat
        /\ \A a \in 1 .. Len(typed[d]) : t[a] = typed[d][a]
        /\ t[Len(typed[d]) + 1] = c
    <3>1. typed[d] \in Seq(Char)
      BY <1>1 DEF TypeOK
    <3> QED BY <2>0, <3>1, AppendAt
  <2>2. /\ typed' \in [Device -> Seq(Char)] /\ typed'[d] = t
        /\ \A e \in Device \ {d} : typed'[e] = typed[e]
    BY <1>1, <1>2, <1>12, <2>1 DEF TypeOK
  <2> HIDE DEF t
  <2>3. \A a \in 1 .. Len(t) : a \in 1 .. Len(typed[d]) \/ a = Len(typed[d]) + 1
    BY <2>1
  <2>4. ASSUME NEW e \in Device, NEW x
        PROVE  (\E a \in 1 .. Len(typed'[e]) : typed'[e][a] = x)
               <=> (From(e, x) \/ (e = d /\ x = c))
    <3>1. CASE e # d
      BY <2>2, <3>1 DEF From
    <3>2. CASE e = d
      <4>1. Len(typed[d]) + 1 \in 1 .. Len(t)
        BY <2>1
      <4>2. \A a \in 1 .. Len(typed[d]) : a \in 1 .. Len(t)
        BY <2>1
      <4> QED BY <2>1, <2>2, <2>3, <3>2, <4>1, <4>2 DEF From
    <3> QED BY <3>1, <3>2
  <2>5. \A e \in Device : \A x : From(e, x)' <=> (From(e, x) \/ (e = d /\ x = c))
    BY <2>4 DEF From
  <2>6. TypeOK'
    BY <1>1, <1>3, <1>7, <2>2 DEF TypeOK, ring
  <2>7. Numbered'
    <3>1. ASSUME NEW e \in Device, NEW a \in 1 .. Len(typed'[e])
          PROVE  typed'[e][a] \in 1 .. count'
      <4>1. From(e, typed'[e][a]) \/ typed'[e][a] = c
        BY <2>4
      <4>2. CASE typed'[e][a] = c
        BY <1>1, <1>3, <2>0, <4>2
      <4>3. CASE From(e, typed'[e][a])
        <5>1. PICK b \in 1 .. Len(typed[e]) : typed[e][b] = typed'[e][a]
          BY <4>3 DEF From
        <5>2. typed'[e][a] \in 1 .. count
          BY <5>1 DEF CInv, Numbered
        <5> QED BY <1>1, <1>3, <5>2
      <4> QED BY <4>1, <4>2, <4>3
    <3>2. ASSUME NEW e \in Device, NEW a \in 1 .. Len(typed'[e]),
                 NEW b \in 1 .. Len(typed'[e]), a < b
          PROVE  typed'[e][a] < typed'[e][b]
      <4>1. CASE e # d
        BY <2>2, <3>2, <4>1 DEF CInv, Numbered
      <4>2. CASE e = d
        <5>1. a \in 1 .. Len(typed[d]) /\ typed'[e][a] = typed[d][a]
          BY <2>1, <2>2, <3>2, <4>2
        <5>2. CASE b \in 1 .. Len(typed[d])
          BY <2>1, <2>2, <3>2, <4>2, <5>1, <5>2 DEF CInv, Numbered
        <5>3. CASE b = Len(typed[d]) + 1
          <6>1. typed'[e][b] = c
            BY <2>1, <2>2, <4>2, <5>3
          <6>2. typed[d][a] \in Nat /\ typed[d][a] <= count
            BY <1>10, <5>1 DEF From
          <6> QED BY <1>3, <2>0, <5>1, <6>1, <6>2
        <5> QED BY <2>2, <2>3, <4>2, <5>2, <5>3
      <4> QED BY <4>1, <4>2
    <3> QED BY <3>1, <3>2 DEF Numbered
  <2>8. \A e \in Device : ~ From(e, c)
    BY <1>3, <1>10, <2>0
  <2>9. OneDevice'
    BY <2>5, <2>8 DEF CInv, OneDevice, Device
  <2>10. ASSUME NEW n \in 1 .. Len(Passed)
         PROVE  /\ Passed[n] \in Nat /\ Passed[n] <= count /\ Passed[n] # c
                /\ \A e \in Device : From(e, Passed[n])' <=> From(e, Passed[n])
    <3>1. PICK e \in Device : From(e, Passed[n])
      BY DEF CInv, PassedInOrder
    <3>2. Passed[n] \in Nat /\ Passed[n] <= count
      BY <1>10, <3>1
    <3>3. Passed[n] # c
      BY <2>8, <3>1
    <3>4. ASSUME NEW f \in Device
          PROVE  (\E a \in 1 .. Len(typed'[f]) : typed'[f][a] = Passed[n])
                 <=> From(f, Passed[n])
      BY <2>4, <3>3
    <3>5. \A f \in Device : From(f, Passed[n])' <=> From(f, Passed[n])
      BY <1>9, <3>4 DEF From
    <3> QED BY <3>2, <3>3, <3>5
  <2>11. PassedInOrder'
    BY <1>9, <2>5, <2>10 DEF CInv, PassedInOrder
  <2>12. PendingInOrder'
    <3> SUFFICES ASSUME NEW e \in Device, NEW k \in 1 .. Len(pending'[e]),
                        pending'[e][k] # NoChar
                 PROVE  /\ From(e, pending'[e][k]) \/ (e = d /\ pending'[e][k] = c)
                        /\ \A n \in 1 .. Len(Passed) :
                             From(e, Passed[n]) => Passed[n] < pending'[e][k]
                        /\ \A j \in 1 .. k - 1 : pending'[e][j] < pending'[e][k]
      BY <1>9, <2>5, <2>10 DEF PendingInOrder
    <3>1. CASE e # d
      BY <1>6, <3>1 DEF CInv, PendingInOrder
    <3>2. CASE e = d /\ k \in 1 .. Len(q)
      <4>1. pending'[e][k] = q[k]
        BY <1>5, <1>6, <3>2
      <4>2. \A j \in 1 .. k - 1 : pending'[e][j] = q[j]
        BY <1>5, <1>6, <3>2
      <4> QED BY <3>2, <4>1, <4>2 DEF CInv, PendingInOrder, q
    <3>3. CASE e = d /\ k = Len(q) + 1
      <4>1. pending'[e][k] = c
        BY <1>5, <1>6, <3>3
      <4>2. \A n \in 1 .. Len(Passed) : Passed[n] < c
        BY <1>3, <2>0, <2>10
      <4>3. ASSUME NEW j \in 1 .. k - 1 PROVE pending'[e][j] < c
        <5>1. j \in 1 .. Len(q)
          BY <1>5, <3>3
        <5>2. pending'[e][j] = q[j]
          BY <1>5, <1>6, <3>3, <5>1
        <5>3. CASE q[j] = NoChar
          BY <1>3, <2>0, <5>2, <5>3 DEF NoChar
        <5>4. CASE q[j] # NoChar
          <6>1. From(d, q[j])
            BY <5>1, <5>4 DEF CInv, PendingInOrder, q
          <6>2. q[j] \in Nat /\ q[j] <= count
            BY <1>10, <6>1
          <6> QED BY <1>3, <2>0, <5>2, <6>2
        <5> QED BY <5>3, <5>4
      <4> QED BY <3>3, <4>1, <4>2, <4>3
    <3> QED BY <1>6, <1>8, <3>1, <3>2, <3>3
  <2>13. NothingLost'
    <3> SUFFICES ASSUME NEW e \in Device, NEW a \in 1 .. Len(typed'[e])
                 PROVE  \/ \E n \in 1 .. Len(Passed) : Passed[n] = typed'[e][a]
                        \/ \E k \in 1 .. Len(pending'[e]) :
                             pending'[e][k] = typed'[e][a]
      BY <1>9 DEF NothingLost
    <3>1. \A f \in Device : \A x : (\E k \in 1 .. Len(pending[f]) : pending[f][k] = x)
                           => \E k \in 1 .. Len(pending'[f]) : pending'[f][k] = x
      BY <1>5, <1>6 DEF q
    <3>2. From(e, typed'[e][a]) \/ (e = d /\ typed'[e][a] = c)
      BY <2>4
    <3>3. CASE e = d /\ typed'[e][a] = c
      <4>1. Len(q) + 1 \in 1 .. Len(z)
        BY <1>5
      <4> QED BY <1>5, <1>6, <3>3, <4>1
    <3>4. CASE From(e, typed'[e][a])
      <4>1. PICK b \in 1 .. Len(typed[e]) : typed[e][b] = typed'[e][a]
        BY <3>4 DEF From
      <4>2. \/ \E n \in 1 .. Len(Passed) : Passed[n] = typed[e][b]
            \/ \E k \in 1 .. Len(pending[e]) : pending[e][k] = typed[e][b]
        BY DEF CInv, NothingLost
      <4> QED BY <3>1, <4>1, <4>2
    <3> QED BY <3>2, <3>3, <3>4
  <2>14. UnderWay'
    <3>1. PICK m \in Nat, n \in Nat :
            /\ Len(typed["serial"]) = m /\ Len(typed["kbd"]) = n
            /\ AllTyped = m + n
      <4>1. Len(typed["serial"]) \in Nat /\ Len(typed["kbd"]) \in Nat
        BY Elements DEF Device
      <4> QED BY <4>1, Zenon DEF AllTyped
    <3>2. AllTyped' = (m + 1) + n \/ AllTyped' = m + (n + 1)
      <4>1. CASE d = "serial"
        <5>1. Len(typed'["serial"]) = m + 1 /\ Len(typed'["kbd"]) = n
          BY <2>1, <2>2, <3>1, <4>1 DEF Device
        <5> QED BY <5>1, Zenon DEF AllTyped
      <4>2. CASE d = "kbd"
        <5>1. Len(typed'["kbd"]) = n + 1 /\ Len(typed'["serial"]) = m
          BY <2>1, <2>2, <3>1, <4>2 DEF Device
        <5> QED BY <5>1, Zenon DEF AllTyped
      <4> QED BY <4>1, <4>2 DEF Device
    <3>3. /\ (m + n) - Len(got) < Ahead /\ Len(got) \in Nat /\ Ahead \in Nat
          /\ got' = got
      BY <1>1, <1>2, <1>12, <3>1, Elements, ConsoleAssumption
    <3>4. PICK u : AllTyped' = u /\ (u = (m + 1) + n \/ u = m + (n + 1))
      BY <3>2
    <3>5. u - Len(got) <= Ahead
      BY <3>3, <3>4
    <3> QED BY <3>3, <3>4, <3>5 DEF UnderWay
  <2> QED BY <1>1, <1>9, <2>6, <2>7, <2>9, <2>11, <2>12, <2>13, <2>14 DEF CInv
<1> QED BY <1>11, <1>12

LEMMA NextHolds ==
  ASSUME CInv, [Next]_vars, Ahead < CONSBUFSIZE
  PROVE  CInv'
<1>1. ASSUME NEW d \in Device, Arrive(d) PROVE CInv'
  BY <1>1, ArriveHolds
<1>2. ASSUME NEW d \in Device, cons_intr_char(d) PROVE CInv'
  BY <1>2, IntrHolds
<1>3. ASSUME NEW d \in Device, cons_intr_done(d) PROVE CInv'
  BY <1>3, DoneHolds
<1>4. CASE cons_getc_return
  BY <1>4, ReturnHolds
<1>5. CASE UNCHANGED vars
  <2>1. TypeOK' /\ Passed' = Passed /\ Len(got) <= Len(got')
    BY <1>5, Elements DEF vars, CInv, TypeOK, Passed, InUse, InRing
  <2> QED BY <1>5, <2>1, SamePlaces DEF vars
<1> QED BY <1>1, <1>2, <1>3, <1>4, <1>5 DEF Next, Step

----------------------------------------------------------------------------
(* What the invariant says of the characters that cons_getc has returned.  *)
LEMMA InvDelivers == CInv => DeliveredInOrder
<1> SUFFICES ASSUME CInv PROVE DeliveredInOrder
  OBVIOUS
<1>1. /\ \A n \in 1 .. Len(got) : n \in 1 .. Len(Passed) /\ Passed[n] = got[n]
      /\ Len(got) \in Nat /\ Len(Passed) \in Nat
  <2>1. PassedFacts
    BY PassedIs DEF CInv
  <2>2. Len(got) \in Nat /\ InUse \in Nat /\ Len(Passed) = Len(got) + InUse
        /\ \A n \in 1 .. Len(got) : Passed[n] = got[n]
    BY <2>1 DEF PassedFacts
  <2> QED BY <2>2
<1>2. ASSUME NEW m \in 1 .. Len(got), NEW n \in 1 .. Len(got),
             got[m] = got[n], m < n
      PROVE  FALSE
  <2>1. PICK d \in Device : From(d, Passed[n])
    BY <1>1 DEF CInv, PassedInOrder
  <2>2. Passed[m] = Passed[n] /\ Passed[n] \in Nat
    BY <1>1, <1>2, Elements
  <2>3. Passed[m] < Passed[n]
    BY <1>1, <1>2, <2>1, <2>2 DEF CInv, PassedInOrder
  <2> QED BY <2>2, <2>3
<1>3. \A m, n \in 1 .. Len(got) : got[m] = got[n] => m = n
  BY <1>1, <1>2
<1>4. ASSUME NEW n \in 1 .. Len(got)
      PROVE  \E d \in Device : \E b \in 1 .. Len(typed[d]) :
               /\ got[n] = typed[d][b]
               /\ \A a \in 1 .. b - 1 :
                    \E m \in 1 .. n - 1 : got[m] = typed[d][a]
  <2>1. PICK d \in Device : From(d, Passed[n])
    BY <1>1 DEF CInv, PassedInOrder
  <2>2. PICK b \in 1 .. Len(typed[d]) : typed[d][b] = Passed[n]
    BY <2>1 DEF From
  <2>3. ASSUME NEW a \in 1 .. b - 1
        PROVE  \E m \in 1 .. n - 1 : got[m] = typed[d][a]
    <3> DEFINE x == typed[d][a]
               y == typed[d][b]
    <3>0. a \in 1 .. Len(typed[d]) /\ a < b
      BY <2>2, Elements
    <3>1. x < y /\ x \in Char /\ y \in Char /\ x \in Nat /\ y \in Nat
      BY <3>0, Elements DEF CInv, Numbered
    <3>2. From(d, x) /\ From(d, y) /\ Passed[n] = y
      BY <2>2, <3>0 DEF From
    <3>3. ~ \E k \in 1 .. Len(pending[d]) : pending[d][k] = x
      <4>1. SUFFICES ASSUME NEW k \in 1 .. Len(pending[d]), pending[d][k] = x
                     PROVE  FALSE
        OBVIOUS
      <4>2. pending[d][k] # NoChar
        BY <3>1, <4>1, Elements
      <4>3. Passed[n] < pending[d][k]
        BY <1>1, <3>2, <4>2 DEF CInv, PendingInOrder
      <4> QED BY <3>1, <3>2, <4>1, <4>3
    <3>4. PICK m \in 1 .. Len(Passed) : Passed[m] = x
      BY <3>0, <3>3 DEF CInv, NothingLost
    <3> HIDE DEF x, y
    <3>5. ~ (n < m)
      BY <1>1, <3>1, <3>2, <3>4 DEF CInv, PassedInOrder
    <3>6. m # n
      BY <3>1, <3>2, <3>4
    <3>7. m \in 1 .. n - 1 /\ m \in 1 .. Len(got)
      BY <1>1, <3>5, <3>6
    <3>8. got[m] = x
      BY <1>1, <3>4, <3>7
    <3> QED BY <3>7, <3>8 DEF x
  <2>4. got[n] = typed[d][b]
    BY <1>1, <2>2
  <2> QED BY <2>3, <2>4
<1>5. TypeOK
  BY DEF CInv
<1> QED BY <1>3, <1>4, <1>5 DEF DeliveredInOrder

(* Every step of Next is a step of the queue, or none.                     *)
LEMMA StepRefines ==
  ASSUME CInv, CInv', [Next]_vars, Ahead < CONSBUFSIZE
  PROVE  [Queue!Next]_<<InRing, got>>
<1> USE Sizes
<1>1. ASSUME NEW d \in Device, Arrive(d) \/ cons_intr_done(d)
      PROVE  UNCHANGED <<InRing, got>>
  <2>1. UNCHANGED <<got, ring>>
    BY <1>1, ArriveHolds, DoneHolds
  <2> QED BY <2>1 DEF InRing, ring
<1>2. ASSUME NEW d \in Device, cons_intr_char(d)
      PROVE  [Queue!Next]_<<InRing, got>>
  <2>1. got' = got
    BY <1>2, IntrHolds
  <2>2. CASE InRing' = InRing
    BY <2>1, <2>2
  <2>3. ASSUME NEW c \in Char, InUse + 1 < CONSBUFSIZE,
               InRing' = Append(InRing, c)
        PROVE  Queue!Next
    <3>1. Len(InRing) = InUse /\ InUse \in Nat
      BY RingIs DEF CInv, RingSize, RingFacts
    <3>2. Len(InRing) < CONSBUFSIZE - 1
      BY <2>3, <3>1
    <3>3. Queue!Put(c)
      BY <2>1, <2>3, <3>2 DEF Queue!Put
    <3> QED BY <3>3 DEF Queue!Next
  <2> QED BY <1>2, <2>2, <2>3, IntrHolds
<1>3. CASE cons_getc_return
  <2>1. /\ UNCHANGED <<buf, wpos>>
        /\ taken \/ (rpos = wpos /\ UNCHANGED <<got, rpos>>)
    BY <1>3 DEF cons_getc_return
  <2>2. CASE rpos = wpos /\ UNCHANGED <<got, rpos>>
    BY <2>1, <2>2 DEF InRing
  <2>3. CASE taken
    <3>1. rpos # wpos /\ got' = Append(got, buf[rpos]) /\ rpos' = After(rpos)
      BY <2>3 DEF taken
    <3>2. InRing # <<>> /\ Head(InRing) = buf[rpos] /\ InRing' = Tail(InRing)
      BY <2>1, <3>1, TakeRing DEF CInv
    <3>3. Queue!Take
      BY <3>1, <3>2 DEF Queue!Take
    <3> QED BY <3>3 DEF Queue!Next
  <2> QED BY <2>1, <2>2, <2>3
<1>4. CASE UNCHANGED vars
  BY <1>4 DEF vars, InRing
<1> QED BY <1>1, <1>2, <1>3, <1>4 DEF Next, Step

LEMMA InitRefines == Init => Queue!Init
<1> SUFFICES ASSUME Init PROVE Queue!Init
  OBVIOUS
<1>1. CInv
  BY InitHolds
<1>2. InRing \in Seq({NoChar} \cup Char) /\ Len(InRing) = InUse /\ InUse = 0
  BY <1>1, RingIs DEF CInv, RingSize, RingFacts, Init
<1>3. InRing = <<>>
  BY <1>2, EmptySeq
<1> QED BY <1>3 DEF Queue!Init, Init

(* Ahead bounds what may be under way when one more key is struck.         *)
LEMMA InvAlways == ASSUME Ahead < CONSBUFSIZE PROVE Spec => []CInv
<1>1. Init => CInv
  BY InitHolds
<1>2. CInv /\ [Next]_vars => CInv'
  BY NextHolds
<1> QED BY <1>1, <1>2, PTL DEF Spec

(* cons_getc returns what was typed: nothing twice, nothing that was not   *)
(* typed, and nothing before an earlier character of the same device       *)
(* (kern/console.c, cons_intr and cons_getc).                              *)
THEOREM InputDelivered ==
  ASSUME Ahead < CONSBUFSIZE
  PROVE  Spec => []DeliveredInOrder
<1>1. Spec => []CInv
  BY InvAlways
<1>2. CInv => DeliveredInOrder
  BY InvDelivers
<1> QED BY <1>1, <1>2, PTL

(* The ring with its two positions is a queue of CONSBUFSIZE - 1           *)
(* characters (kern/console.c, cons).                                      *)
THEOREM RingIsQueue ==
  ASSUME Ahead < CONSBUFSIZE
  PROVE  Spec => ImplementsFifo
<1>1. Spec => []CInv
  BY InvAlways
<1>2. Init => Queue!Init
  BY InitRefines
<1>3. CInv /\ CInv' /\ [Next]_vars => [Queue!Next]_<<InRing, got>>
  BY StepRefines
<1> QED BY <1>1, <1>2, <1>3, PTL DEF Spec, ImplementsFifo, Queue!Spec

----------------------------------------------------------------------------
(* The terminal: module Terminal.                                          *)

(* Screens, and what they can be before they scroll.                       *)
Wide == [crt_buf : [Cell -> Glyph], crt_pos : 0 .. CRT_SIZE, gone : Seq(Glyph)]
Screens == {s \in Wide : /\ s.crt_pos < CRT_SIZE
                         /\ \E r \in Nat : Len(s.gone) = r * CRT_COLS}

(* The roll of a screen: where it ends, the cursor's place, a cell.        *)
RollEnd(s) == Len(s.gone) + CRT_SIZE
RollAt(s, k) == IF k <= Len(s.gone) THEN s.gone[k] ELSE s.crt_buf[k - 1 - Len(s.gone)]
Cursor(s) == Len(s.gone) + s.crt_pos

----------------------------------------------------------------------------
LEMMA ScreenSizes ==
  /\ CRT_COLS \in Nat \ {0} /\ CRT_ROWS \in Nat \ {0} /\ CRT_SIZE \in Nat
  /\ CRT_SIZE - CRT_COLS \in Nat \ {0} /\ CRT_SIZE = CRT_ROWS * CRT_COLS
<1>1. CRT_COLS \in Nat \ {0} /\ CRT_ROWS \in 2 .. 25
  BY CgaAssumption
<1>2. 1 * CRT_COLS + CRT_COLS <= CRT_ROWS * CRT_COLS
  BY <1>1, MulGap
<1>3. 1 * CRT_COLS = CRT_COLS /\ CRT_ROWS * CRT_COLS \in Nat
  BY <1>1, MulRange
<1> QED BY <1>1, <1>2, <1>3 DEF CRT_SIZE

(* memmove towards lower addresses reads nothing that it has written.      *)
LEMMA MovedIs ==
  ASSUME NEW b \in [Cell -> Glyph]
  PROVE  moved(b) = [a \in Cell |-> IF a < CRT_SIZE - CRT_COLS THEN b[a + CRT_COLS] ELSE Blank]
<1>1. CRT_COLS \in Nat \ {0} /\ CRT_SIZE \in Nat /\ CRT_SIZE - CRT_COLS \in Nat \ {0}
  BY ScreenSizes
<1> DEFINE n == CRT_SIZE - CRT_COLS
           T == 0 .. n - 1
           Eq(f) == f = [k \in T |-> IF CRT_COLS + k - 0 \in T /\ CRT_COLS + k - 0 < k
                                     THEN f[CRT_COLS + k - 0] ELSE b[CRT_COLS + k]]
           byte == CHOOSE f : Eq(f)
           m == memmove(b, 0, CRT_COLS, n)
<1>2. n \in Nat
  BY <1>1
<1>3. ~ Backwards(0, CRT_COLS, n)
  BY <1>1 DEF Backwards
<1>4. m = [a \in DOMAIN b |-> IF a - 0 \in T THEN byte[a - 0] ELSE b[a]]
  BY <1>3 DEF memmove
<1>5. \A k \in T : ~ (CRT_COLS + k - 0 < k)
  <2> HIDE DEF n
  <2> QED BY <1>1, <1>2
<1>6. byte = [k \in T |-> b[CRT_COLS + k]]
  <2> HIDE DEF T, n
  <2>1. Eq([k \in T |-> b[CRT_COLS + k]])
    BY <1>5
  <2>2. Eq(byte)
    <3> HIDE DEF Eq
    <3> QED BY <2>1
  <2> QED BY <1>5, <2>2
<1>7. m = [a \in Cell |-> IF a < n THEN b[a + CRT_COLS] ELSE b[a]]
  <2> HIDE DEF byte, m
  <2>1. DOMAIN b = Cell /\ \A a \in Cell : a \in Nat
    BY <1>1 DEF Cell
  <2>2. \A a \in Cell : (a - 0 \in T) <=> a < n
    <3> HIDE DEF n
    <3> QED BY <1>2, <2>1
  <2>3. \A a \in Cell : a < n => byte[a - 0] = b[a + CRT_COLS]
    <3> SUFFICES ASSUME NEW a \in Cell, a < n PROVE byte[a - 0] = b[a + CRT_COLS]
      OBVIOUS
    <3>1. a - 0 \in T /\ CRT_COLS + (a - 0) = a + CRT_COLS
      BY <1>1, <2>1, <2>2
    <3> HIDE DEF T, n
    <3> QED BY <1>6, <3>1
  <2> HIDE DEF T, n
  <2> QED BY <1>4, <2>1, <2>2, <2>3
<1>8. moved(b) = [a \in DOMAIN m |-> IF a - n \in 0 .. CRT_COLS - 1 THEN Blank ELSE m[a]]
  BY DEF moved, memset
<1>9. \A a \in Cell : (a - n \in 0 .. CRT_COLS - 1) <=> ~ (a < n)
  BY <1>1 DEF Cell
<1> HIDE DEF m, n
<1>10. moved(b) = [a \in Cell |-> IF a < n THEN b[a + CRT_COLS] ELSE Blank]
  BY <1>7, <1>8, <1>9
<1> QED BY <1>10 DEF n

(* What the cells of the roll are after a scroll.                          *)
LEMMA ScrolledIs ==
  ASSUME NEW s \in Wide, NEW r \in Nat, Len(s.gone) = r * CRT_COLS
  PROVE  LET t == Scrolled(s) IN
         /\ t \in Screens /\ Cursor(t) = Cursor(s)
         /\ RollEnd(t) = IF Cursor(s) < RollEnd(s) THEN RollEnd(s) ELSE RollEnd(s) + CRT_COLS
         /\ \A k \in 1 .. RollEnd(t) : RollAt(t, k) = IF k <= RollEnd(s) THEN RollAt(s, k) ELSE Blank
<1> DEFINE b == s.crt_buf
           p == s.crt_pos
           g == s.gone
           t == Scrolled(s)
<1>1. /\ s = [crt_buf |-> b, crt_pos |-> p, gone |-> g]
      /\ b \in [Cell -> Glyph] /\ p \in 0 .. CRT_SIZE /\ g \in Seq(Glyph)
  BY DEF Wide
<1>2. CRT_COLS \in Nat \ {0} /\ CRT_SIZE \in Nat /\ CRT_SIZE - CRT_COLS \in Nat \ {0} /\ Blank \in Glyph
  BY ScreenSizes, CgaAssumption
<1>3. Len(g) \in Nat /\ Len(g) = r * CRT_COLS
  BY <1>1, LenProperties
<1>4. /\ Cursor(s) = Len(g) + p /\ RollEnd(s) = Len(g) + CRT_SIZE
      /\ \A k : RollAt(s, k) = IF k <= Len(g) THEN g[k] ELSE b[k - 1 - Len(g)]
  BY DEF Cursor, RollEnd, RollAt
<1>5. CASE p < CRT_SIZE
  <2>1. t = s
    BY <1>1, <1>2, <1>5 DEF Scrolled, Out
  <2>2. s \in Screens
    BY <1>5 DEF Screens
  <2>3. Cursor(s) < RollEnd(s)
    <3> HIDE DEF p, g
    <3> QED BY <1>1, <1>2, <1>3, <1>4, <1>5
  <2> HIDE DEF t
  <2> QED BY <2>1, <2>2, <2>3 DEF t
<1>6. CASE ~ (p < CRT_SIZE)
  <2> DEFINE h1 == [k \in 1 .. CRT_COLS |-> b[k - 1]]
             g1 == g \o h1
             b1 == moved(b)
             p1 == p - CRT_COLS
  <2>1. t = [crt_buf |-> b1, crt_pos |-> p1, gone |-> g1]
    BY <1>1, <1>2, <1>6 DEF Scrolled, Out
  <2>2. p = CRT_SIZE
    BY <1>1, <1>2, <1>6
  <2> HIDE DEF b, p, g, t
  <2>3. b1 = [a \in Cell |-> IF a < CRT_SIZE - CRT_COLS THEN b[a + CRT_COLS] ELSE Blank]
    BY <1>1, MovedIs
  <2>4. b1 \in [Cell -> Glyph]
    <3>1. \A a \in Cell : a < CRT_SIZE - CRT_COLS => a + CRT_COLS \in Cell
      BY <1>2 DEF Cell
    <3> HIDE DEF b1
    <3> QED BY <1>1, <1>2, <2>3, <3>1
  <2>5. h1 \in Seq(Glyph) /\ Len(h1) = CRT_COLS
    <3>1. \A k \in 1 .. CRT_COLS : k - 1 \in Cell
      BY <1>2 DEF Cell
    <3>2. h1 \in [1 .. CRT_COLS -> Glyph]
      BY <1>1, <3>1
    <3> HIDE DEF h1
    <3> QED BY <1>2, <3>2
  <2>6. /\ g1 \in Seq(Glyph) /\ Len(g1) = Len(g) + CRT_COLS
        /\ \A k \in 1 .. Len(g) + CRT_COLS : g1[k] = IF k <= Len(g) THEN g[k] ELSE h1[k - Len(g)]
    <3> HIDE DEF h1
    <3> QED BY <1>1, <2>5, ConcatProperties
  <2>7. p1 \in 0 .. CRT_SIZE /\ p1 < CRT_SIZE
    BY <1>2, <2>2
  <2>8. (r + 1) * CRT_COLS = Len(g1) /\ r + 1 \in Nat
    <3>1. (r + 1) * CRT_COLS = r * CRT_COLS + CRT_COLS
      BY <1>2
    <3> HIDE DEF g1
    <3> QED BY <1>2, <1>3, <2>6, <3>1
  <2>9. h1 = [k \in 1 .. CRT_COLS |-> b[k - 1]]
    OBVIOUS
  <2>10. p1 = p - CRT_COLS
    OBVIOUS
  <2> HIDE DEF h1, g1, b1, p1
  <2>11. t \in Screens
    BY <2>1, <2>4, <2>6, <2>7, <2>8 DEF Screens, Wide
  <2>12. /\ Cursor(t) = Len(g1) + p1 /\ RollEnd(t) = Len(g1) + CRT_SIZE
         /\ \A k : RollAt(t, k) = IF k <= Len(g1) THEN g1[k] ELSE b1[k - 1 - Len(g1)]
    BY <2>1 DEF Cursor, RollEnd, RollAt
  <2>13. Cursor(t) = Cursor(s) /\ ~ (Cursor(s) < RollEnd(s)) /\ RollEnd(t) = RollEnd(s) + CRT_COLS
    BY <1>2, <1>3, <1>4, <2>2, <2>6, <2>10, <2>12
  <2>14. ASSUME NEW k \in 1 .. RollEnd(t)
         PROVE  RollAt(t, k) = IF k <= RollEnd(s) THEN RollAt(s, k) ELSE Blank
    <3>1. k \in Nat \ {0} /\ k <= Len(g) + CRT_COLS + CRT_SIZE
      BY <1>2, <1>3, <2>6, <2>12
    <3>2. CASE k <= Len(g)
      <4>1. k \in 1 .. Len(g) + CRT_COLS /\ k <= Len(g1) /\ k <= RollEnd(s)
        BY <1>2, <1>3, <1>4, <2>6, <3>1, <3>2
      <4> QED BY <1>4, <2>6, <2>12, <3>2, <4>1
    <3>3. CASE k > Len(g) /\ k <= Len(g) + CRT_COLS
      <4>1. /\ k \in 1 .. Len(g) + CRT_COLS /\ k <= Len(g1) /\ k <= RollEnd(s) /\ ~ (k <= Len(g))
            /\ k - Len(g) \in 1 .. CRT_COLS /\ (k - Len(g)) - 1 = k - 1 - Len(g)
        BY <1>2, <1>3, <1>4, <2>6, <3>1, <3>3
      <4>2. RollAt(t, k) = h1[k - Len(g)] /\ RollAt(s, k) = b[k - 1 - Len(g)]
        BY <1>4, <2>6, <2>12, <4>1
      <4> QED BY <2>9, <4>1, <4>2
    <3>4. CASE k > Len(g) + CRT_COLS
      <4> DEFINE a == k - 1 - Len(g1)
      <4>1. /\ ~ (k <= Len(g1)) /\ ~ (k <= Len(g)) /\ a \in Cell /\ a + CRT_COLS = k - 1 - Len(g)
            /\ (a < CRT_SIZE - CRT_COLS) <=> (k <= RollEnd(s))
        BY <1>2, <1>3, <1>4, <2>6, <3>1, <3>4 DEF Cell
      <4>2. RollAt(t, k) = b1[a]
        BY <2>12, <4>1
      <4> HIDE DEF a
      <4> QED BY <1>4, <2>3, <4>1, <4>2
    <3> QED BY <1>2, <1>3, <3>1, <3>2, <3>3, <3>4
  <2> QED BY <2>11, <2>13, <2>14 DEF t
<1> QED BY <1>5, <1>6

(* The length of a roll that has room for position n.                      *)
Extended(e, n) == IF n < e THEN e ELSE CRT_COLS * (n \div CRT_COLS + 1)

LEMMA Quotient ==
  ASSUME NEW q \in Int, NEW w \in 0 .. CRT_COLS - 1
  PROVE  (q * CRT_COLS + w) \div CRT_COLS = q /\ (q * CRT_COLS + w) % CRT_COLS = w
<1>1. CRT_COLS \in Nat \ {0}
  BY ScreenSizes
<1> DEFINE a == q * CRT_COLS + w
           d == a \div CRT_COLS
           x == a % CRT_COLS
<1>2. a \in Int
  BY <1>1
<1>3. d \in Int /\ x \in 0 .. CRT_COLS - 1 /\ a = d * CRT_COLS + x
  <2> HIDE DEF a
  <2> QED BY <1>1, <1>2, ModRange
<1>4. d * CRT_COLS + x = q * CRT_COLS + w
  BY <1>3
<1> HIDE DEF d, x
<1>5. d = q /\ x = w
  BY <1>1, <1>3, <1>4, DivUnique
<1> QED BY <1>5 DEF d, x

(* A position, the line it is on and where that line begins.               *)
LEMMA LineOf ==
  ASSUME NEW n \in Nat
  PROVE  LET q == n \div CRT_COLS IN
         /\ q \in Nat /\ LineStart(n) \in Nat /\ LineStart(n) = q * CRT_COLS
         /\ LineStart(n) <= n /\ n < LineStart(n) + CRT_COLS
<1>1. CRT_COLS \in Nat \ {0}
  BY ScreenSizes
<1> DEFINE q == n \div CRT_COLS
           x == n % CRT_COLS
<1>2. q \in Int /\ x \in 0 .. CRT_COLS - 1 /\ n = q * CRT_COLS + x
  BY <1>1, ModRange
<1>3. LineStart(n) = n - x
  BY DEF LineStart
<1> HIDE DEF q, x
<1>4. q \in Nat
  <2> SUFFICES ASSUME q < 0 PROVE FALSE
    BY <1>2
  <2>1. q * CRT_COLS + CRT_COLS <= 0 * CRT_COLS
    BY <1>1, <1>2, MulGap
  <2>2. q * CRT_COLS \in Int /\ 0 * CRT_COLS = 0
    BY <1>1, <1>2
  <2> QED BY <1>1, <1>2, <2>1, <2>2
<1>5. q * CRT_COLS \in Nat
  BY <1>1, <1>4, MulRange
<1>6. LineStart(n) \in Nat /\ LineStart(n) = q * CRT_COLS /\ LineStart(n) <= n /\ n < LineStart(n) + CRT_COLS
  BY <1>1, <1>2, <1>3, <1>5
<1> QED BY <1>4, <1>6 DEF q

(* Room for the next position is added a line at a time.                   *)
LEMMA ExtendedIs ==
  ASSUME NEW r \in Nat, NEW e \in Nat, e = r * CRT_COLS, NEW n \in Nat
  PROVE  /\ Extended(e, n) \in Nat /\ n < Extended(e, n) /\ e <= Extended(e, n)
         /\ \E q \in Nat : Extended(e, n) = q * CRT_COLS
         /\ n <= e => Extended(e, n) = IF n < e THEN e ELSE e + CRT_COLS
         /\ Extended(Extended(e, n), n + 1) = Extended(e, n + 1)
<1>1. CRT_COLS \in Nat \ {0}
  BY ScreenSizes
<1> DEFINE q == n \div CRT_COLS
           q1 == (n + 1) \div CRT_COLS
           b == LineStart(n)
           b1 == LineStart(n + 1)
<1>2. q \in Nat /\ b \in Nat /\ b = q * CRT_COLS /\ b <= n /\ n < b + CRT_COLS
  BY LineOf
<1>3. q1 \in Nat /\ b1 \in Nat /\ b1 = q1 * CRT_COLS /\ b1 <= n + 1 /\ n + 1 < b1 + CRT_COLS
  <2> DEFINE n1 == n + 1
  <2>1. n1 \in Nat
    OBVIOUS
  <2> HIDE DEF n1
  <2>2. LET p == n1 \div CRT_COLS IN
        /\ p \in Nat /\ LineStart(n1) \in Nat /\ LineStart(n1) = p * CRT_COLS
        /\ LineStart(n1) <= n1 /\ n1 < LineStart(n1) + CRT_COLS
    BY <2>1, LineOf
  <2> QED BY <2>2 DEF n1
<1>4. \A f : Extended(f, n) = IF n < f THEN f ELSE CRT_COLS * (q + 1)
  BY DEF Extended
<1>5. \A f : Extended(f, n + 1) = IF n + 1 < f THEN f ELSE CRT_COLS * (q1 + 1)
  BY DEF Extended
<1> HIDE DEF q, q1, b, b1
<1>6. CRT_COLS * (q + 1) = b + CRT_COLS /\ CRT_COLS * (q1 + 1) = b1 + CRT_COLS
      /\ (q + 1) * CRT_COLS = b + CRT_COLS
  BY <1>1, <1>2, <1>3
<1>7. n = e => b = e
  <2> SUFFICES ASSUME n = e PROVE b = e
    OBVIOUS
  <2>1. q = r
    <3>1. ~ (q < r)
      <4> SUFFICES ASSUME q < r PROVE FALSE
        OBVIOUS
      <4>1. q * CRT_COLS + CRT_COLS <= r * CRT_COLS
        BY <1>1, <1>2, MulGap
      <4> QED BY <1>1, <1>2, <4>1
    <3>2. ~ (r < q)
      <4> SUFFICES ASSUME r < q PROVE FALSE
        OBVIOUS
      <4>1. r * CRT_COLS + CRT_COLS <= q * CRT_COLS
        BY <1>1, <1>2, MulGap
      <4> QED BY <1>1, <1>2, <4>1
    <3> QED BY <1>2, <3>1, <3>2
  <2> QED BY <1>2, <2>1
<1>8. n + 1 < b + CRT_COLS => b1 = b
  <2> SUFFICES ASSUME n + 1 < b + CRT_COLS PROVE b1 = b
    OBVIOUS
  <2>1. ~ (q < q1)
    <3> SUFFICES ASSUME q < q1 PROVE FALSE
      OBVIOUS
    <3>1. q * CRT_COLS + CRT_COLS <= q1 * CRT_COLS
      BY <1>1, <1>2, <1>3, MulGap
    <3> QED BY <1>1, <1>2, <1>3, <3>1
  <2>2. ~ (q1 < q)
    <3> SUFFICES ASSUME q1 < q PROVE FALSE
      OBVIOUS
    <3>1. q1 * CRT_COLS + CRT_COLS <= q * CRT_COLS
      BY <1>1, <1>2, <1>3, MulGap
    <3> QED BY <1>1, <1>2, <1>3, <3>1
  <2>3. q = q1
    BY <1>2, <1>3, <2>1, <2>2
  <2> QED BY <1>2, <1>3, <2>3
<1> DEFINE x == Extended(e, n)
<1>9. x = IF n < e THEN e ELSE b + CRT_COLS
  BY <1>4, <1>6
<1>10. /\ Extended(x, n + 1) = IF n + 1 < x THEN x ELSE b1 + CRT_COLS
       /\ Extended(e, n + 1) = IF n + 1 < e THEN e ELSE b1 + CRT_COLS
  BY <1>5, <1>6
<1> HIDE DEF x
<1>11. x \in Nat /\ n < x /\ e <= x /\ (n <= e => x = IF n < e THEN e ELSE e + CRT_COLS)
  BY <1>1, <1>2, <1>7, <1>9
<1>12. \E p \in Nat : x = p * CRT_COLS
  <2>1. q + 1 \in Nat
    BY <1>2
  <2> QED BY <1>6, <1>9, <2>1
<1>13. Extended(x, n + 1) = Extended(e, n + 1)
  BY <1>1, <1>2, <1>3, <1>8, <1>9, <1>10, <1>11
<1> QED BY <1>11, <1>12, <1>13 DEF x

(* From s to t the cursor has gone to n; what is new on the roll is blank. *)
Moves(t, s, n) ==
  /\ t \in Screens /\ Cursor(t) = n /\ RollEnd(t) = Extended(RollEnd(s), n)
  /\ \A k \in 1 .. RollEnd(t) : RollAt(t, k) = IF k <= RollEnd(s) THEN RollAt(s, k) ELSE Blank

(* c has been printed j times.                                             *)
Prints(t, s, c, j) ==
  /\ t \in Screens /\ Cursor(t) = Cursor(s) + j
  /\ RollEnd(t) = Extended(RollEnd(s), Cursor(s) + j)
  /\ \A k \in 1 .. RollEnd(t) :
       RollAt(t, k) = IF k - Cursor(s) \in 1 .. j THEN c
                      ELSE IF k <= RollEnd(s) THEN RollAt(s, k) ELSE Blank

LEMMA RollSizes ==
  ASSUME NEW s \in Screens
  PROVE  /\ s \in Wide /\ Len(s.gone) \in Nat /\ Cursor(s) \in Nat /\ RollEnd(s) \in Nat
         /\ Cursor(s) < RollEnd(s) /\ s.crt_pos \in 0 .. CRT_SIZE - 1 /\ CRT_SIZE \in Nat
         /\ Cursor(s) = Len(s.gone) + s.crt_pos /\ RollEnd(s) = Len(s.gone) + CRT_SIZE
         /\ \E r \in Nat : Len(s.gone) = r * CRT_COLS /\ RollEnd(s) = (r + CRT_ROWS) * CRT_COLS
<1> DEFINE p == s.crt_pos
           g == s.gone
<1>1. p \in 0 .. CRT_SIZE /\ g \in Seq(Glyph) /\ p < CRT_SIZE /\ s \in Wide
  BY DEF Screens, Wide
<1>2. Len(g) \in Nat
  BY <1>1, LenProperties
<1>3. Cursor(s) = Len(g) + p /\ RollEnd(s) = Len(g) + CRT_SIZE
  BY DEF Cursor, RollEnd
<1>4. PICK r \in Nat : Len(g) = r * CRT_COLS
  BY DEF Screens
<1> HIDE DEF p, g
<1>5. /\ Cursor(s) \in Nat /\ RollEnd(s) \in Nat /\ Cursor(s) < RollEnd(s)
      /\ p \in 0 .. CRT_SIZE - 1 /\ CRT_SIZE \in Nat
  BY <1>1, <1>2, <1>3, ScreenSizes
<1>6. (r + CRT_ROWS) * CRT_COLS = r * CRT_COLS + CRT_ROWS * CRT_COLS
  BY ScreenSizes
<1>7. RollEnd(s) = (r + CRT_ROWS) * CRT_COLS
  BY <1>3, <1>4, <1>6, ScreenSizes
<1> QED BY <1>1, <1>2, <1>3, <1>4, <1>5, <1>7 DEF p, g

LEMMA PutPrints ==
  ASSUME NEW s \in Screens, NEW c \in Glyph
  PROVE  Prints(Put(s, c), s, c, 1)
<1> DEFINE b == s.crt_buf
           p == s.crt_pos
           g == s.gone
           u == Shown(s, c, p, p + 1)
           t == Put(s, c)
<1>1. /\ s = [crt_buf |-> b, crt_pos |-> p, gone |-> g]
      /\ b \in [Cell -> Glyph] /\ p \in 0 .. CRT_SIZE /\ g \in Seq(Glyph)
  BY DEF Screens, Wide
<1>2. /\ Len(g) \in Nat /\ Cursor(s) \in Nat /\ RollEnd(s) \in Nat
      /\ Cursor(s) < RollEnd(s) /\ p \in 0 .. CRT_SIZE - 1 /\ CRT_SIZE \in Nat
      /\ Cursor(s) = Len(g) + p /\ RollEnd(s) = Len(g) + CRT_SIZE
      /\ \E r \in Nat : Len(g) = r * CRT_COLS /\ RollEnd(s) = (r + CRT_ROWS) * CRT_COLS
  BY RollSizes
<1>3. PICK r \in Nat : Len(g) = r * CRT_COLS /\ RollEnd(s) = (r + CRT_ROWS) * CRT_COLS
  BY <1>2
<1>4. t = Scrolled(u)
  BY DEF Put
<1>5. u = [crt_buf |-> [b EXCEPT ![p] = c], crt_pos |-> p + 1, gone |-> g]
  BY DEF Shown
<1> DEFINE b1 == [b EXCEPT ![p] = c]
<1>6. b1 = [a \in Cell |-> IF a = p THEN c ELSE b[a]] /\ p \in Cell /\ b1 \in [Cell -> Glyph]
  BY <1>1, <1>2 DEF Cell
<1> HIDE DEF u, t, b1
<1>7. /\ RollEnd(s) = Len(g) + CRT_SIZE
      /\ \A k : RollAt(s, k) = IF k <= Len(g) THEN g[k] ELSE b[k - 1 - Len(g)]
  BY DEF RollEnd, RollAt
<1> HIDE DEF b, p, g
<1>8. u \in Wide /\ u.gone = g /\ u.crt_pos = p + 1
  BY <1>1, <1>2, <1>5, <1>6 DEF Wide, b1
<1>9. /\ Cursor(u) = Cursor(s) + 1 /\ RollEnd(u) = RollEnd(s)
      /\ \A k : RollAt(u, k) = IF k <= Len(g) THEN g[k] ELSE b1[k - 1 - Len(g)]
  <2>1. u.crt_buf = b1
    BY <1>5 DEF b1
  <2>2. Cursor(u) = Len(g) + (p + 1)
    BY <1>8 DEF Cursor
  <2>3. RollEnd(u) = Len(g) + CRT_SIZE
    BY <1>8 DEF RollEnd
  <2>4. \A k : RollAt(u, k) = IF k <= Len(g) THEN g[k] ELSE b1[k - 1 - Len(g)]
    BY <1>8, <2>1 DEF RollAt
  <2> QED BY <1>2, <2>2, <2>3, <2>4
<1>10. ASSUME NEW k \in 1 .. RollEnd(s)
       PROVE  RollAt(u, k) = IF k = Cursor(s) + 1 THEN c ELSE RollAt(s, k)
  <2>1. CASE k <= Len(g)
    <3>1. k # Cursor(s) + 1
      BY <1>2, <2>1
    <3> QED BY <1>7, <1>9, <2>1, <3>1
  <2>2. CASE ~ (k <= Len(g))
    <3> DEFINE a == k - 1 - Len(g)
    <3>1. a \in Cell /\ (a = p <=> k = Cursor(s) + 1)
      BY <1>2, <2>2 DEF Cell
    <3>2. RollAt(u, k) = b1[a] /\ RollAt(s, k) = b[a]
      BY <1>7, <1>9, <2>2
    <3> HIDE DEF a
    <3> QED BY <1>6, <3>1, <3>2
  <2> QED BY <2>1, <2>2
<1>11. /\ t \in Screens /\ Cursor(t) = Cursor(u)
       /\ RollEnd(t) = IF Cursor(u) < RollEnd(u) THEN RollEnd(u) ELSE RollEnd(u) + CRT_COLS
       /\ \A k \in 1 .. RollEnd(t) : RollAt(t, k) = IF k <= RollEnd(u) THEN RollAt(u, k) ELSE Blank
  BY <1>3, <1>4, <1>8, ScrolledIs
<1>12. RollEnd(t) = Extended(RollEnd(s), Cursor(s) + 1)
  <2>1. r + CRT_ROWS \in Nat /\ Cursor(s) + 1 \in Nat /\ Cursor(s) + 1 <= RollEnd(s)
    BY <1>2, ScreenSizes
  <2>2. \A n \in Nat : n <= RollEnd(s) =>
          Extended(RollEnd(s), n) = IF n < RollEnd(s) THEN RollEnd(s) ELSE RollEnd(s) + CRT_COLS
    BY <1>2, <1>3, <2>1, ExtendedIs
  <2> QED BY <1>9, <1>11, <2>1, <2>2
<1>13. ASSUME NEW k \in 1 .. RollEnd(t)
       PROVE  RollAt(t, k) = IF k - Cursor(s) \in 1 .. 1 THEN c
                             ELSE IF k <= RollEnd(s) THEN RollAt(s, k) ELSE Blank
  <2>1. RollEnd(t) \in Nat
    BY <1>11, RollSizes
  <2>2. (k - Cursor(s) \in 1 .. 1) <=> k = Cursor(s) + 1
    BY <1>2, <2>1
  <2>3. k <= RollEnd(s) => k \in 1 .. RollEnd(s)
    BY <1>2, <2>1
  <2>4. k = Cursor(s) + 1 => k <= RollEnd(s)
    BY <1>2, <2>1
  <2> QED BY <1>9, <1>10, <1>11, <2>2, <2>3, <2>4
<1> QED BY <1>9, <1>11, <1>12, <1>13 DEF Prints, t

(* One more of the same.                                                   *)
LEMMA PrintsOn ==
  ASSUME NEW s \in Screens, NEW c \in Glyph, NEW j \in Nat, NEW t, Prints(t, s, c, j)
  PROVE  Prints(Put(t, c), s, c, j + 1)
<1> DEFINE v == Put(t, c)
<1>1. t \in Screens /\ Cursor(t) = Cursor(s) + j /\ RollEnd(t) = Extended(RollEnd(s), Cursor(s) + j)
  BY DEF Prints
<1>2. Prints(v, t, c, 1)
  BY <1>1, PutPrints
<1>3. v \in Screens /\ Cursor(v) = Cursor(t) + 1 /\ RollEnd(v) = Extended(RollEnd(t), Cursor(t) + 1)
  BY <1>2 DEF Prints
<1>4. /\ Cursor(s) \in Nat /\ RollEnd(s) \in Nat /\ RollEnd(t) \in Nat /\ RollEnd(v) \in Nat
      /\ Cursor(t) < RollEnd(t)
  BY <1>1, <1>3, RollSizes
<1>5. PICK r \in Nat : RollEnd(s) = (r + CRT_ROWS) * CRT_COLS
  BY RollSizes
<1>6. /\ RollEnd(s) <= RollEnd(t)
      /\ Extended(RollEnd(t), Cursor(s) + j + 1) = Extended(RollEnd(s), Cursor(s) + j + 1)
  <2> DEFINE n == Cursor(s) + j
             e == RollEnd(s)
             q == r + CRT_ROWS
  <2>1. q \in Nat /\ n \in Nat /\ e \in Nat /\ e = q * CRT_COLS
    BY <1>4, <1>5, ScreenSizes
  <2>2. RollEnd(t) = Extended(e, n)
    BY <1>1
  <2> HIDE DEF n, e, q
  <2>3. e <= Extended(e, n) /\ Extended(Extended(e, n), n + 1) = Extended(e, n + 1)
    BY <2>1, ExtendedIs
  <2> QED BY <2>2, <2>3 DEF n, e
<1>7. Cursor(v) = Cursor(s) + (j + 1) /\ RollEnd(v) = Extended(RollEnd(s), Cursor(s) + (j + 1))
  <2>1. Cursor(s) + j + 1 = Cursor(s) + (j + 1)
    BY <1>4
  <2> QED BY <1>1, <1>3, <1>6, <2>1
<1>8. ASSUME NEW k \in 1 .. RollEnd(v)
      PROVE  RollAt(v, k) = IF k - Cursor(s) \in 1 .. j + 1 THEN c
                            ELSE IF k <= RollEnd(s) THEN RollAt(s, k) ELSE Blank
  <2>1. RollAt(v, k) = IF k - Cursor(t) \in 1 .. 1 THEN c
                       ELSE IF k <= RollEnd(t) THEN RollAt(t, k) ELSE Blank
    BY <1>2 DEF Prints
  <2>2. k \in 1 .. RollEnd(t) =>
          RollAt(t, k) = IF k - Cursor(s) \in 1 .. j THEN c
                         ELSE IF k <= RollEnd(s) THEN RollAt(s, k) ELSE Blank
    BY DEF Prints
  <2>3. /\ (k - Cursor(t) \in 1 .. 1) <=> k = Cursor(s) + j + 1
        /\ (k - Cursor(s) \in 1 .. j + 1) <=> (k = Cursor(s) + j + 1 \/ k - Cursor(s) \in 1 .. j)
        /\ k <= RollEnd(t) => k \in 1 .. RollEnd(t)
        /\ ~ (k <= RollEnd(t)) => ~ (k - Cursor(s) \in 1 .. j) /\ ~ (k <= RollEnd(s))
    BY <1>1, <1>4, <1>6
  <2> QED BY <2>1, <2>2, <2>3
<1> QED BY <1>3, <1>7, <1>8 DEF Prints

LEMMA SpacesPrint ==
  ASSUME NEW s \in Screens
  PROVE  Prints(Spaces(s), s, Blank, 5)
<1> DEFINE Eq(f) == f = [n \in 0 .. 5 |-> IF n = 0 THEN s ELSE Put(f[n - 1], Blank)]
           sp == CHOOSE f : Eq(f)
           s1 == Put(s, Blank)
           s2 == Put(s1, Blank)
           s3 == Put(s2, Blank)
           s4 == Put(s3, Blank)
           s5 == Put(s4, Blank)
<1>1. Spaces(s) = sp[5]
  BY DEF Spaces
<1>2. sp[5] = s5
  <2> HIDE DEF s1, s2, s3, s4, s5
  <2> DEFINE w == [n \in 0 .. 5 |-> CASE n = 0 -> s [] n = 1 -> s1 [] n = 2 -> s2
                                      [] n = 3 -> s3 [] n = 4 -> s4 [] OTHER -> s5]
  <2>1. w[0] = s /\ w[1] = s1 /\ w[2] = s2 /\ w[3] = s3 /\ w[4] = s4 /\ w[5] = s5
    OBVIOUS
  <2>2. DOMAIN w = 0 .. 5 /\ w = [n \in 0 .. 5 |-> w[n]]
    OBVIOUS
  <2> HIDE DEF w
  <2>3. Eq(w)
    <3>1. ASSUME NEW n \in 0 .. 5 PROVE w[n] = IF n = 0 THEN s ELSE Put(w[n - 1], Blank)
      <4>1. n = 0 \/ n = 1 \/ n = 2 \/ n = 3 \/ n = 4 \/ n = 5
        OBVIOUS
      <4>2. 1 - 1 = 0 /\ 2 - 1 = 1 /\ 3 - 1 = 2 /\ 4 - 1 = 3 /\ 5 - 1 = 4
        OBVIOUS
      <4> QED BY <2>1, <4>1, <4>2 DEF s1, s2, s3, s4, s5
    <3> QED BY <2>2, <3>1
  <2>4. Eq(sp)
    <3> HIDE DEF Eq
    <3> QED BY <2>3
  <2> HIDE DEF sp
  <2>5. sp[0] = s /\ \A n \in 1 .. 5 : sp[n] = Put(sp[n - 1], Blank)
    BY <2>4
  <2>6. sp[1] = Put(sp[0], Blank) /\ sp[2] = Put(sp[1], Blank) /\ sp[3] = Put(sp[2], Blank)
        /\ sp[4] = Put(sp[3], Blank) /\ sp[5] = Put(sp[4], Blank)
    <3>1. 1 - 1 = 0 /\ 2 - 1 = 1 /\ 3 - 1 = 2 /\ 4 - 1 = 3 /\ 5 - 1 = 4
          /\ 1 \in 1 .. 5 /\ 2 \in 1 .. 5 /\ 3 \in 1 .. 5 /\ 4 \in 1 .. 5 /\ 5 \in 1 .. 5
      OBVIOUS
    <3> QED BY <2>5, <3>1
  <2> QED BY <2>5, <2>6 DEF s1, s2, s3, s4, s5
<1>3. Blank \in Glyph
  BY CgaAssumption
<1>4. Prints(s1, s, Blank, 1)
  BY <1>3, PutPrints
<1> HIDE DEF sp
<1>5. Prints(s2, s, Blank, 2)
  <2> HIDE DEF s1
  <2>1. Prints(s2, s, Blank, 1 + 1)
    BY <1>3, <1>4, PrintsOn DEF s2
  <2> QED BY <2>1
<1>6. Prints(s3, s, Blank, 3)
  <2> HIDE DEF s2
  <2>1. Prints(s3, s, Blank, 2 + 1)
    BY <1>3, <1>5, PrintsOn DEF s3
  <2> QED BY <2>1
<1>7. Prints(s4, s, Blank, 4)
  <2> HIDE DEF s3
  <2>1. Prints(s4, s, Blank, 3 + 1)
    BY <1>3, <1>6, PrintsOn DEF s4
  <2> QED BY <2>1
<1>8. Prints(s5, s, Blank, 5)
  <2> HIDE DEF s4
  <2>1. Prints(s5, s, Blank, 4 + 1)
    BY <1>3, <1>7, PrintsOn DEF s5
  <2> QED BY <2>1
<1> QED BY <1>1, <1>2, <1>8

(* The cursor alone goes to n, and the screen may scroll.                  *)
LEMMA CursorMoves ==
  ASSUME NEW s \in Screens, NEW n \in 0 .. CRT_SIZE
  PROVE  LET u == [s EXCEPT !.crt_pos = n] IN
         /\ u \in Wide
         /\ Moves(Scrolled(u), s, Len(s.gone) + n)
<1> DEFINE u == [s EXCEPT !.crt_pos = n]
           t == Scrolled(u)
           m == Len(s.gone) + n
<1>1. u \in Wide /\ u.crt_pos = n /\ u.gone = s.gone /\ u.crt_buf = s.crt_buf
  BY DEF Screens, Wide
<1>2. /\ Len(s.gone) \in Nat /\ RollEnd(s) \in Nat /\ CRT_SIZE \in Nat /\ RollEnd(s) = Len(s.gone) + CRT_SIZE
      /\ \E r \in Nat : Len(s.gone) = r * CRT_COLS /\ RollEnd(s) = (r + CRT_ROWS) * CRT_COLS
  BY RollSizes
<1>3. PICK r \in Nat : Len(s.gone) = r * CRT_COLS /\ RollEnd(s) = (r + CRT_ROWS) * CRT_COLS
  BY <1>2
<1>4. Cursor(u) = m /\ RollEnd(u) = RollEnd(s) /\ \A k : RollAt(u, k) = RollAt(s, k)
  BY <1>1 DEF Cursor, RollEnd, RollAt
<1> HIDE DEF u, t, m
<1>5. /\ t \in Screens /\ Cursor(t) = Cursor(u)
      /\ RollEnd(t) = IF Cursor(u) < RollEnd(u) THEN RollEnd(u) ELSE RollEnd(u) + CRT_COLS
      /\ \A k \in 1 .. RollEnd(t) : RollAt(t, k) = IF k <= RollEnd(u) THEN RollAt(u, k) ELSE Blank
  BY <1>1, <1>3, ScrolledIs DEF t
<1>6. RollEnd(t) = Extended(RollEnd(s), m)
  <2> DEFINE e == RollEnd(s)
             q == r + CRT_ROWS
  <2>1. q \in Nat /\ e \in Nat /\ e = q * CRT_COLS /\ m \in Nat /\ m <= e
    BY <1>2, <1>3, ScreenSizes DEF m
  <2>2. RollEnd(t) = IF m < e THEN e ELSE e + CRT_COLS
    BY <1>4, <1>5
  <2> HIDE DEF e, q
  <2>3. Extended(e, m) = IF m < e THEN e ELSE e + CRT_COLS
    BY <2>1, ExtendedIs
  <2> QED BY <2>2, <2>3 DEF e
<1>7. Moves(t, s, m)
  BY <1>4, <1>5, <1>6 DEF Moves
<1> QED BY <1>1, <1>7 DEF u, t, m

(* A new line goes to the beginning of the next line, a carriage return to *)
(* that of the same.                                                       *)
LEMMA LinesMove ==
  ASSUME NEW s \in Screens
  PROVE  LET q == Cursor(s) \div CRT_COLS IN
         /\ q \in Nat
         /\ Moves(cga_putc(s, "NL"), s, CRT_COLS * (q + 1))
         /\ Moves(cga_putc(s, "CR"), s, CRT_COLS * q)
         /\ RollEnd(cga_putc(s, "CR")) = RollEnd(s)
<1> DEFINE p == s.crt_pos
           l == p \div CRT_COLS
           b == LineStart(p)
           g == Len(s.gone)
<1>1. /\ g \in Nat /\ p \in 0 .. CRT_SIZE - 1 /\ CRT_SIZE \in Nat /\ Cursor(s) = g + p
      /\ RollEnd(s) \in Nat /\ Cursor(s) < RollEnd(s)
      /\ \E r \in Nat : g = r * CRT_COLS /\ RollEnd(s) = (r + CRT_ROWS) * CRT_COLS
  BY RollSizes
<1>2. PICK r \in Nat : g = r * CRT_COLS
  BY <1>1
<1>3. /\ CRT_COLS \in Nat \ {0} /\ CRT_ROWS \in Nat \ {0} /\ CRT_SIZE = CRT_ROWS * CRT_COLS
  BY ScreenSizes
<1>4. l \in Nat /\ b \in Nat /\ b = l * CRT_COLS /\ b <= p /\ p < b + CRT_COLS
  <2>1. p \in Nat
    BY <1>1
  <2> HIDE DEF p
  <2> QED BY <2>1, LineOf
<1>5. cga_putc(s, "CR") = [s EXCEPT !.crt_pos = b]
  BY DEF cga_putc
<1>6. cga_putc(s, "NL") = Scrolled([s EXCEPT !.crt_pos = LineStart(p + CRT_COLS)])
  BY DEF cga_putc
<1> HIDE DEF p, l, b, g
<1>7. LineStart(p + CRT_COLS) = b + CRT_COLS
  <2> DEFINE w == p - b
             l1 == l + 1
  <2>1. w \in 0 .. CRT_COLS - 1 /\ l1 \in Int
    BY <1>1, <1>3, <1>4
  <2>2. l1 * CRT_COLS = b + CRT_COLS
    BY <1>3, <1>4
  <2>3. p + CRT_COLS = l1 * CRT_COLS + w
    BY <1>1, <1>3, <1>4, <2>2
  <2> HIDE DEF w, l1
  <2>4. (l1 * CRT_COLS + w) % CRT_COLS = w
    BY <2>1, Quotient
  <2>5. LineStart(p + CRT_COLS) = (p + CRT_COLS) - w
    BY <2>3, <2>4 DEF LineStart
  <2> QED BY <1>1, <1>3, <1>4, <2>5 DEF w
<1>8. b + CRT_COLS <= CRT_SIZE
  <2>1. l < CRT_ROWS
    <3> SUFFICES ASSUME CRT_ROWS <= l PROVE FALSE
      BY <1>3, <1>4
    <3>1. CRT_ROWS = l => CRT_ROWS * CRT_COLS = b
      BY <1>4
    <3>2. CRT_ROWS < l => CRT_ROWS * CRT_COLS + CRT_COLS <= b
      BY <1>3, <1>4, MulGap
    <3> QED BY <1>1, <1>3, <1>4, <3>1, <3>2
  <2> QED BY <1>3, <1>4, <2>1, MulGap
<1>9. (g + p) \div CRT_COLS = r + l
  <2> DEFINE w == p - b
             q == r + l
  <2>1. w \in 0 .. CRT_COLS - 1 /\ q \in Int
    BY <1>1, <1>3, <1>4
  <2>2. q * CRT_COLS = g + b
    BY <1>2, <1>3, <1>4
  <2>3. g + p = q * CRT_COLS + w
    BY <1>1, <1>4, <2>2
  <2> HIDE DEF w, q
  <2>4. (q * CRT_COLS + w) \div CRT_COLS = q
    BY <2>1, Quotient
  <2> QED BY <2>3, <2>4 DEF q
<1>10. CRT_COLS * ((r + l) + 1) = g + (b + CRT_COLS) /\ CRT_COLS * (r + l) = g + b /\ r + l \in Nat
  BY <1>2, <1>3, <1>4
<1>11. Moves(cga_putc(s, "NL"), s, g + (b + CRT_COLS))
  <2>1. b + CRT_COLS \in 0 .. CRT_SIZE
    BY <1>1, <1>3, <1>4, <1>8
  <2> DEFINE n == b + CRT_COLS
  <2> HIDE DEF n
  <2>2. Moves(Scrolled([s EXCEPT !.crt_pos = n]), s, Len(s.gone) + n)
    BY <2>1, CursorMoves DEF n
  <2> QED BY <1>6, <1>7, <2>2 DEF n, g
<1>12. Moves(cga_putc(s, "CR"), s, g + b) /\ RollEnd(cga_putc(s, "CR")) = RollEnd(s)
  <2> DEFINE u == [s EXCEPT !.crt_pos = b]
  <2>1. b \in 0 .. CRT_SIZE /\ b < CRT_SIZE
    BY <1>1, <1>4
  <2>2. Moves(Scrolled(u), s, Len(s.gone) + b)
    BY <2>1, CursorMoves
  <2>3. u.crt_pos = b /\ u.gone = s.gone
    BY DEF Screens, Wide
  <2>4. ~ Out(u.crt_pos)
    BY <1>1, <2>1, <2>3 DEF Out
  <2>5. Scrolled(u) = u
    BY <2>4 DEF Scrolled
  <2>6. RollEnd(u) = RollEnd(s)
    BY <2>3 DEF RollEnd
  <2> QED BY <1>5, <2>2, <2>5, <2>6 DEF g
<1> QED BY <1>1, <1>9, <1>10, <1>11, <1>12 DEF g, p

(* Backspace.                                                              *)
LEMMA Erases ==
  ASSUME NEW s \in Screens, s.crt_pos > 0
  PROVE  LET t == cga_putc(s, "BS") IN
         /\ t \in Screens /\ Cursor(t) = Cursor(s) - 1 /\ RollEnd(t) = RollEnd(s)
         /\ \A k \in 1 .. RollEnd(s) : RollAt(t, k) = IF k = Cursor(s) THEN Blank ELSE RollAt(s, k)
<1> DEFINE b == s.crt_buf
           p == s.crt_pos
           g == s.gone
           t == cga_putc(s, "BS")
           b1 == [b EXCEPT ![p - 1] = Blank]
<1>1. /\ b \in [Cell -> Glyph] /\ g \in Seq(Glyph) /\ p > 0 /\ \E r \in Nat : Len(g) = r * CRT_COLS
  BY DEF Screens, Wide
<1>2. /\ Len(g) \in Nat /\ Cursor(s) \in Nat /\ RollEnd(s) \in Nat /\ p \in 0 .. CRT_SIZE - 1
      /\ CRT_SIZE \in Nat /\ Cursor(s) = Len(g) + p /\ RollEnd(s) = Len(g) + CRT_SIZE
  BY RollSizes
<1>3. t = [crt_buf |-> b1, crt_pos |-> p - 1, gone |-> g]
  BY <1>1 DEF cga_putc, Shown
<1>4. \A k : RollAt(s, k) = IF k <= Len(g) THEN g[k] ELSE b[k - 1 - Len(g)]
  BY DEF RollAt
<1> HIDE DEF b, p, g, t
<1>5. b1 = [a \in Cell |-> IF a = p - 1 THEN Blank ELSE b[a]] /\ b1 \in [Cell -> Glyph]
  BY <1>1, <1>2, CgaAssumption DEF Cell
<1> HIDE DEF b1
<1>6. t \in Screens
  <2>1. p - 1 \in 0 .. CRT_SIZE /\ p - 1 < CRT_SIZE
    BY <1>1, <1>2
  <2> QED BY <1>1, <1>3, <1>5, <2>1 DEF Screens, Wide
<1>7. /\ Cursor(t) = Len(g) + (p - 1) /\ RollEnd(t) = Len(g) + CRT_SIZE
      /\ \A k : RollAt(t, k) = IF k <= Len(g) THEN g[k] ELSE b1[k - 1 - Len(g)]
  BY <1>3 DEF Cursor, RollEnd, RollAt
<1>8. ASSUME NEW k \in 1 .. RollEnd(s)
      PROVE  RollAt(t, k) = IF k = Cursor(s) THEN Blank ELSE RollAt(s, k)
  <2>1. CASE k <= Len(g)
    <3>1. k # Cursor(s)
      BY <1>1, <1>2, <2>1
    <3> QED BY <1>4, <1>7, <2>1, <3>1
  <2>2. CASE ~ (k <= Len(g))
    <3> DEFINE a == k - 1 - Len(g)
    <3>1. a \in Cell /\ (a = p - 1 <=> k = Cursor(s))
      BY <1>2, <2>2 DEF Cell
    <3>2. RollAt(t, k) = b1[a] /\ RollAt(s, k) = b[a]
      BY <1>4, <1>7, <2>2
    <3> HIDE DEF a
    <3> QED BY <1>5, <3>1, <3>2
  <2> QED BY <2>1, <2>2
<1>9. Cursor(t) = Cursor(s) - 1 /\ RollEnd(t) = RollEnd(s)
  BY <1>2, <1>7
<1> QED BY <1>6, <1>8, <1>9 DEF t

----------------------------------------------------------------------------
(* The roll of the display.                                                *)
RollFacts ==
  /\ Roll \in Seq(Glyph) /\ Len(Roll) = RollEnd(screen) /\ RollPos = Cursor(screen)
  /\ Roll = [k \in 1 .. RollEnd(screen) |-> RollAt(screen, k)]

LEMMA RollIs == screen \in Screens => RollFacts
<1> SUFFICES ASSUME screen \in Screens PROVE RollFacts
  OBVIOUS
<1> DEFINE b == screen.crt_buf
           g == screen.gone
           h1 == [k \in 1 .. CRT_SIZE |-> b[k - 1]]
<1>1. b \in [Cell -> Glyph] /\ g \in Seq(Glyph)
  BY DEF Screens, Wide
<1>2. Len(g) \in Nat /\ RollEnd(screen) \in Nat /\ CRT_SIZE \in Nat /\ RollEnd(screen) = Len(g) + CRT_SIZE
  BY RollSizes
<1>3. Roll = g \o h1
  BY DEF Roll
<1>4. RollPos = Cursor(screen)
  BY DEF RollPos, Cursor
<1>5. \A k : RollAt(screen, k) = IF k <= Len(g) THEN g[k] ELSE b[k - 1 - Len(g)]
  BY DEF RollAt
<1> HIDE DEF b, g
<1>6. h1 \in Seq(Glyph) /\ Len(h1) = CRT_SIZE
  <2>1. \A k \in 1 .. CRT_SIZE : k - 1 \in Cell
    BY <1>2 DEF Cell
  <2>2. h1 \in [1 .. CRT_SIZE -> Glyph]
    BY <1>1, <2>1
  <2> HIDE DEF h1
  <2> QED BY <1>2, <2>2
<1> DEFINE x == g \o h1
<1>7. h1 = [k \in 1 .. CRT_SIZE |-> b[k - 1]]
  OBVIOUS
<1> HIDE DEF h1
<1>8. /\ x \in Seq(Glyph) /\ Len(x) = Len(g) + CRT_SIZE
      /\ \A i \in 1 .. Len(g) + CRT_SIZE : x[i] = IF i <= Len(g) THEN g[i] ELSE h1[i - Len(g)]
  BY <1>1, <1>6, ConcatProperties
<1> HIDE DEF x
<1>9. ASSUME NEW k \in 1 .. RollEnd(screen) PROVE x[k] = RollAt(screen, k)
  <2>1. ~ (k <= Len(g)) => k - Len(g) \in 1 .. CRT_SIZE /\ (k - Len(g)) - 1 = k - 1 - Len(g)
    BY <1>2
  <2> QED BY <1>2, <1>5, <1>7, <1>8, <2>1
<1>10. x = [k \in 1 .. RollEnd(screen) |-> RollAt(screen, k)]
  <2>1. DOMAIN x = 1 .. RollEnd(screen) /\ x = [k \in DOMAIN x |-> x[k]]
    BY <1>2, <1>8, LenProperties
  <2> QED BY <1>9, <2>1
<1> QED BY <1>2, <1>3, <1>4, <1>8, <1>10 DEF RollFacts, x

LEMMA RollIsNext == (screen \in Screens => RollFacts)'
BY RollIs, PTL

LEMMA RollAfter ==
  ASSUME screen' \in Screens
  PROVE  RollPos' = Cursor(screen') /\ Roll' = [k \in 1 .. RollEnd(screen') |-> RollAt(screen', k)]
BY RollIsNext DEF RollFacts, RollEnd, RollAt, Cursor, CRT_SIZE

LEMMA UnrolledIs ==
  ASSUME screen \in Screens, NEW n \in Nat
  PROVE  P!Unrolled(n) = [k \in 1 .. Extended(RollEnd(screen), n) |->
                            IF k <= RollEnd(screen) THEN RollAt(screen, k) ELSE Blank]
<1> DEFINE e == RollEnd(screen)
           x == Extended(e, n)
           y == [k \in 1 .. x - e |-> Blank]
<1>1. /\ Roll \in Seq(Glyph) /\ Len(Roll) = e
      /\ Roll = [k \in 1 .. e |-> RollAt(screen, k)]
  BY RollIs DEF RollFacts
<1>2. PICK r \in Nat : e = (r + CRT_ROWS) * CRT_COLS
  BY RollSizes
<1>3. e \in Nat
  BY RollSizes
<1>4. x = IF n < e THEN e ELSE CRT_COLS * (n \div CRT_COLS + 1)
  BY DEF Extended
<1>5. P!Unrolled(n) = IF n < e THEN Roll ELSE Roll \o [k \in 1 .. CRT_COLS * (n \div CRT_COLS + 1) - e |-> Blank]
  BY <1>1 DEF P!Unrolled, P!Line
<1>6. x \in Nat /\ e <= x
  <2> DEFINE q == r + CRT_ROWS
  <2>1. q \in Nat /\ e = q * CRT_COLS
    BY <1>2, ScreenSizes
  <2> HIDE DEF q, e
  <2> QED BY <1>3, <2>1, ExtendedIs
<1>7. \A k \in 1 .. e : Roll[k] = RollAt(screen, k)
  <2> HIDE DEF e
  <2> QED BY <1>1
<1>8. CASE n < e
  <2> HIDE DEF e, x
  <2>1. P!Unrolled(n) = Roll /\ x = e
    BY <1>4, <1>5, <1>8
  <2>2. Roll = [k \in 1 .. e |-> IF k <= e THEN RollAt(screen, k) ELSE Blank]
    BY <1>1, <1>3
  <2> QED BY <2>1, <2>2 DEF x, e
<1>9. CASE ~ (n < e)
  <2>1. P!Unrolled(n) = Roll \o y
    <3> HIDE DEF e, x
    <3> QED BY <1>4, <1>5, <1>9
  <2>2. y \in Seq(Glyph) /\ Len(y) = x - e /\ \A k \in 1 .. x - e : y[k] = Blank
    <3>1. Blank \in Glyph
      BY CgaAssumption
    <3> HIDE DEF e, x
    <3>2. x - e \in Nat /\ y \in [1 .. x - e -> Glyph]
      BY <1>3, <1>6, <3>1
    <3>3. \A k \in 1 .. x - e : y[k] = Blank
      OBVIOUS
    <3> HIDE DEF y
    <3> QED BY <3>2, <3>3
  <2> DEFINE z == Roll \o y
  <2> HIDE DEF y, e, x
  <2>3. /\ z \in Seq(Glyph) /\ Len(z) = e + (x - e)
        /\ \A i \in 1 .. e + (x - e) : z[i] = IF i <= e THEN Roll[i] ELSE y[i - e]
    <3>1. /\ z \in Seq(Glyph) /\ Len(z) = Len(Roll) + Len(y)
          /\ \A i \in 1 .. Len(Roll) + Len(y) : z[i] = IF i <= Len(Roll) THEN Roll[i] ELSE y[i - Len(Roll)]
      BY <1>1, <2>2, ConcatProperties
    <3> HIDE DEF z
    <3> QED BY <1>1, <2>2, <3>1
  <2> HIDE DEF z
  <2>4. e + (x - e) = x /\ \A k \in 1 .. x : ~ (k <= e) => k - e \in 1 .. x - e
    BY <1>3, <1>6
  <2>5. \A k \in 1 .. x : k <= e => k \in 1 .. e
    BY <1>3, <1>6
  <2>6. DOMAIN z = 1 .. x /\ z = [k \in DOMAIN z |-> z[k]]
    BY <2>3, <2>4, LenProperties
  <2>7. z = [k \in 1 .. x |-> IF k <= e THEN RollAt(screen, k) ELSE Blank]
    BY <1>7, <2>2, <2>3, <2>4, <2>5, <2>6
  <2> QED BY <2>1, <2>7 DEF z, x, e
<1> QED BY <1>8, <1>9

(* Printing, new lines, returns and erasing are those of the roll.         *)
LEMMA PrintsWrite ==
  ASSUME screen \in Screens, NEW c \in Glyph, NEW j \in Nat, Prints(screen', screen, c, j)
  PROVE  P!Write([k \in 1 .. j |-> c])
<1> DEFINE w == [k \in 1 .. j |-> c]
           p == Cursor(screen)
           e == RollEnd(screen)
           x == Extended(e, p + j)
           u == [k \in 1 .. x |-> IF k <= e THEN RollAt(screen, k) ELSE Blank]
<1>1. /\ RollPos' = p + j
      /\ Roll' = [k \in 1 .. x |-> IF k - p \in 1 .. j THEN c ELSE IF k <= e THEN RollAt(screen, k) ELSE Blank]
  <2>1. screen' \in Screens /\ Cursor(screen') = p + j /\ RollEnd(screen') = x
        /\ \A k \in 1 .. x : RollAt(screen', k) = IF k - p \in 1 .. j THEN c
                                ELSE IF k <= e THEN RollAt(screen, k) ELSE Blank
    BY DEF Prints
  <2>2. RollPos' = Cursor(screen') /\ Roll' = [k \in 1 .. RollEnd(screen') |-> RollAt(screen', k)]
    BY <2>1, RollAfter
  <2> HIDE DEF p, e, x
  <2> QED BY <2>1, <2>2
<1>2. RollPos = p
  BY RollIs DEF RollFacts
<1>3. p \in Nat
  BY RollSizes
<1>4. Len(w) = j /\ DOMAIN w = 1 .. j /\ \A k \in 1 .. j : w[k] = c
  OBVIOUS
<1>5. P!Unrolled(p + j) = u
  <2> DEFINE n == p + j
  <2>1. n \in Nat
    BY <1>3
  <2> HIDE DEF n
  <2> QED BY <2>1, UnrolledIs DEF n
<1>6. DOMAIN u = 1 .. x /\ \A k \in 1 .. x : u[k] = IF k <= e THEN RollAt(screen, k) ELSE Blank
  OBVIOUS
<1> HIDE DEF w, p, e, x, u
<1>7. Roll' = [k \in DOMAIN u |-> IF k - p \in DOMAIN w THEN w[k - p] ELSE u[k]]
  BY <1>1, <1>4, <1>6
<1>8. P!Write(w)
  BY <1>1, <1>2, <1>4, <1>5, <1>7 DEF P!Write
<1> QED BY <1>8 DEF w

LEMMA MovesUnroll ==
  ASSUME screen \in Screens, NEW n \in Nat, Moves(screen', screen, n)
  PROVE  RollPos' = n /\ Roll' = P!Unrolled(n)
<1>1. screen' \in Screens /\ Cursor(screen') = n /\ RollEnd(screen') = Extended(RollEnd(screen), n)
      /\ \A k \in 1 .. RollEnd(screen') :
           RollAt(screen', k) = IF k <= RollEnd(screen) THEN RollAt(screen, k) ELSE Blank
  BY DEF Moves
<1>2. RollPos' = Cursor(screen') /\ Roll' = [k \in 1 .. RollEnd(screen') |-> RollAt(screen', k)]
  BY <1>1, RollAfter
<1> QED BY <1>1, <1>2, UnrolledIs

LEMMA PutcRefines ==
  ASSUME screen \in Screens, NEW c \in Glyph \cup Control, screen' = cga_putc(screen, c)
  PROVE  screen' \in Screens /\ [P!Next]_(P!papervars)
<1>1. P!papervars = <<Roll, RollPos>>
  BY DEF P!papervars
<1>2. RollFacts /\ Cursor(screen) \in Nat /\ RollEnd(screen) \in Nat /\ CRT_COLS \in Nat \ {0}
  BY RollIs, RollSizes, ScreenSizes
<1> DEFINE q == Cursor(screen) \div CRT_COLS
<1>3. /\ q \in Nat
      /\ Moves(cga_putc(screen, "NL"), screen, CRT_COLS * (q + 1))
      /\ Moves(cga_putc(screen, "CR"), screen, CRT_COLS * q)
      /\ RollEnd(cga_putc(screen, "CR")) = RollEnd(screen)
  BY LinesMove
<1>4. P!Line(RollPos) = q
  BY <1>2 DEF RollFacts, P!Line
<1> HIDE DEF q
<1>5. CASE c = "BS"
  <2>1. CASE screen.crt_pos > 0
    <3> DEFINE p == Cursor(screen)
    <3>1. /\ screen' \in Screens /\ Cursor(screen') = p - 1 /\ RollEnd(screen') = RollEnd(screen)
          /\ \A k \in 1 .. RollEnd(screen) :
               RollAt(screen', k) = IF k = p THEN Blank ELSE RollAt(screen, k)
      BY <1>5, <2>1, Erases
    <3>2. RollPos' = Cursor(screen') /\ Roll' = [k \in 1 .. RollEnd(screen') |-> RollAt(screen', k)]
      BY <3>1, RollAfter
    <3>3. p > 0 /\ RollPos = p /\ p \in 1 .. RollEnd(screen)
      BY <1>2, <2>1, RollSizes DEF RollFacts
    <3>4. Roll = [k \in 1 .. RollEnd(screen) |-> RollAt(screen, k)]
      BY <1>2 DEF RollFacts
    <3> HIDE DEF p
    <3>5. Roll' = [Roll EXCEPT ![p] = Blank]
      BY <3>1, <3>2, <3>3, <3>4
    <3>6. P!Erase
      BY <3>1, <3>2, <3>3, <3>5 DEF P!Erase
    <3> QED BY <3>1, <3>6 DEF P!Next
  <2>2. CASE ~ (screen.crt_pos > 0)
    <3>1. screen' = screen
      BY <1>5, <2>2 DEF cga_putc
    <3> QED BY <3>1 DEF P!papervars, Roll, RollPos
  <2> QED BY <2>1, <2>2
<1>6. CASE c = "NL"
  <2> DEFINE n == CRT_COLS * (q + 1)
  <2>1. n \in Nat
    BY <1>2, <1>3
  <2>2. Moves(screen', screen, n)
    BY <1>3, <1>6
  <2>3. RollPos' = n /\ Roll' = P!Unrolled(n)
    <3> HIDE DEF n
    <3> QED BY <2>1, <2>2, MovesUnroll
  <2>4. P!NewLine
    BY <1>4, <2>3 DEF P!NewLine
  <2> QED BY <2>2, <2>4 DEF Moves, P!Next
<1>7. CASE c = "CR"
  <2> DEFINE n == CRT_COLS * q
  <2>1. n \in Nat
    BY <1>2, <1>3
  <2>2. Moves(screen', screen, n) /\ RollEnd(screen') = RollEnd(screen)
    BY <1>3, <1>7
  <2> HIDE DEF n
  <2>3. RollPos' = n /\ screen' \in Screens
    BY <2>1, <2>2, MovesUnroll DEF Moves
  <2>4. Roll' = Roll
    <3>1. Roll' = [k \in 1 .. RollEnd(screen') |-> RollAt(screen', k)]
      BY <2>3, RollAfter
    <3>2. \A k \in 1 .. RollEnd(screen) : k <= RollEnd(screen)
      BY <1>2
    <3> QED BY <1>2, <2>2, <3>1, <3>2 DEF Moves, RollFacts
  <2>5. P!Return
    BY <1>1, <1>4, <2>3, <2>4 DEF P!Return, n
  <2> QED BY <2>3, <2>5 DEF P!Next
<1>8. CASE c = "TAB"
  <2>1. Prints(screen', screen, Blank, 5)
    BY <1>8, SpacesPrint DEF cga_putc
  <2>2. Blank \in Glyph /\ 5 \in Nat
    BY CgaAssumption
  <2>3. P!Tab
    BY <2>1, <2>2, PrintsWrite DEF P!Tab
  <2> QED BY <2>1, <2>3 DEF Prints, P!Next
<1>9. CASE c \notin Control
  <2>1. c \in Glyph
    BY <1>9
  <2>2. screen' = Put(screen, c)
    BY <1>9 DEF cga_putc, Control
  <2>3. Prints(screen', screen, c, 1)
    BY <2>1, <2>2, PutPrints
  <2>4. P!Write([k \in 1 .. 1 |-> c])
    BY <2>1, <2>3, PrintsWrite
  <2>5. [k \in 1 .. 1 |-> c] = <<c>>
    OBVIOUS
  <2> QED BY <2>1, <2>3, <2>4, <2>5 DEF Prints, P!Next
<1> QED BY <1>5, <1>6, <1>7, <1>8, <1>9 DEF Control

LEMMA CgaStarts == cga_init => screen \in Screens /\ P!Init
<1> SUFFICES ASSUME cga_init PROVE screen \in Screens /\ P!Init
  OBVIOUS
<1>1. PICK n \in Cell : screen = [crt_buf |-> [k \in Cell |-> Blank], crt_pos |-> n, gone |-> <<>>]
  BY DEF cga_init
<1>2. CRT_SIZE \in Nat /\ Blank \in Glyph /\ CRT_ROWS \in 1 .. 25 /\ CRT_COLS \in Nat \ {0}
  BY ScreenSizes, CgaAssumption
<1>3. <<>> \in Seq(Glyph) /\ Len(<<>>) = 0 /\ 0 = 0 * CRT_COLS
  BY <1>2, EmptySeq
<1>4. screen \in Screens
  <2>1. n \in 0 .. CRT_SIZE /\ n < CRT_SIZE
    BY <1>2 DEF Cell
  <2>2. [k \in Cell |-> Blank] \in [Cell -> Glyph]
    BY <1>2
  <2> QED BY <1>1, <1>3, <2>1, <2>2 DEF Screens, Wide
<1>5. /\ Roll = [k \in 1 .. RollEnd(screen) |-> RollAt(screen, k)]
      /\ Len(Roll) = RollEnd(screen) /\ RollPos = Cursor(screen)
  BY <1>4, RollIs DEF RollFacts
<1>6. RollEnd(screen) = CRT_SIZE /\ Cursor(screen) = n
  BY <1>1, <1>2, <1>3 DEF RollEnd, Cursor, Cell
<1>7. \A k \in 1 .. CRT_SIZE : RollAt(screen, k) = Blank
  <2> SUFFICES ASSUME NEW k \in 1 .. CRT_SIZE PROVE RollAt(screen, k) = Blank
    OBVIOUS
  <2>1. ~ (k <= 0) /\ k - 1 - 0 \in Cell
    BY <1>2 DEF Cell
  <2> QED BY <1>1, <1>3, <2>1 DEF RollAt
<1>8. CRT_SIZE = CRT_COLS * CRT_ROWS
  BY <1>2 DEF CRT_SIZE
<1>9. Roll = [k \in 1 .. CRT_COLS * CRT_ROWS |-> Blank]
  BY <1>5, <1>6, <1>7, <1>8
<1>10. RollPos \in 0 .. Len(Roll) - 1
  BY <1>5, <1>6 DEF Cell
<1> QED BY <1>2, <1>4, <1>9, <1>10 DEF P!Init

----------------------------------------------------------------------------
(* The keyboard.  A key that sets a flag is down.                          *)
Explained(flags, keys) ==
  \A flag \in flags \cap {"SHIFT", "CTL", "ALT"} : \E k \in keys : flag \in shiftcode(k)

(* Of these bytes, all are still to come, or all after the E0.             *)
Coming(codes) ==
  \/ scan = codes /\ "E0ESC" \notin shift
  \/ Len(codes) = 2 /\ scan = <<codes[2]>> /\ "E0ESC" \in shift

KeysInv ==
  /\ held \subseteq Key
  /\ shift \subseteq {"SHIFT", "CTL", "ALT", "CAPSLOCK", "NUMLOCK", "E0ESC"}
  /\ \/ scan = <<>> /\ "E0ESC" \notin shift /\ Explained(shift, held)
     \/ \E k \in held : Coming(MakeCode(k)) /\ Explained(shift, held)
     \/ \E k \in Key : Coming(BreakCode(k)) /\ Explained(shift, held \cup {k})

LEMMA KeyCodes ==
  ASSUME NEW k \in Key
  PROVE  \/ /\ k \in 0 .. 127 /\ MakeCode(k) = <<k>> /\ BreakCode(k) = <<k + 128>>
            /\ k # E0 /\ k + 128 # E0
         \/ /\ k \in 128 .. 255 /\ MakeCode(k) = <<E0, k - 128>> /\ BreakCode(k) = <<E0, k>>
            /\ k # E0 /\ k - 128 # E0
<1>1. k \in Known
  BY KeyboardAssumption
<1> QED BY <1>1 DEF Known, h, Enter, Del, FakeShift, E0, MakeCode, BreakCode

LEMMA TwoBytes ==
  ASSUME NEW k \in 0 .. 255, k >= 128
  PROVE  MakeCode(k) = <<E0, k - 128>> /\ BreakCode(k) = <<E0, k>>
<1>1. k >= \h80 /\ k - \h80 = k - 128
  OBVIOUS
<1>2. MakeCode(k) = <<E0, k - \h80>> /\ BreakCode(k) = <<E0, k>>
  BY <1>1, Zenon DEF MakeCode, BreakCode
<1>3. <<E0, k - \h80>> = <<E0, k - 128>>
  BY <1>1, Zenon
<1> QED BY <1>2, <1>3, Zenon

LEMMA Sent == ASSUME NEW k PROVE MakeCode(k) # <<>> /\ BreakCode(k) # <<>>
<1>1. CASE k >= 128
  <2>1. <<E0, k - 128>> # <<>> /\ <<E0, k>> # <<>>
    OBVIOUS
  <2> QED BY <1>1, <2>1 DEF MakeCode, BreakCode
<1>2. CASE ~ (k >= 128)
  <2>1. <<k>> # <<>> /\ <<k + 128>> # <<>>
    OBVIOUS
  <2> QED BY <1>2, <2>1 DEF MakeCode, BreakCode
<1> QED BY <1>1, <1>2

LEMMA Shiftcodes ==
  ASSUME NEW k
  PROVE  shiftcode(k) \subseteq {"SHIFT", "CTL", "ALT"} /\ togglecode(k) \subseteq {"CAPSLOCK", "NUMLOCK"}
BY DEF shiftcode, togglecode

(* What a byte does to the flags.                                          *)
LEMMA Prefixed == ASSUME NEW s PROVE kbd_proc_data(s, E0).shift = s \cup {"E0ESC"}
BY DEF kbd_proc_data, Result

LEMMA Made ==
  ASSUME NEW s, NEW k \in 0 .. 255, NEW data,
         \/ "E0ESC" \notin s /\ k < 128 /\ data = k
         \/ "E0ESC" \in s /\ k >= 128 /\ data = k - 128,
         data # E0
  PROVE  kbd_proc_data(s, data).shift = Toggled((s \ {"E0ESC"}) \cup shiftcode(k), togglecode(k))
<1>1. ~ Released(data)
  BY DEF Released
<1>2. Index(s, data) = k
  BY <1>1 DEF Index
<1> QED BY <1>1, <1>2 DEF kbd_proc_data, Result

LEMMA Broken ==
  ASSUME NEW s, NEW k \in 0 .. 255, NEW data,
         \/ "E0ESC" \notin s /\ k < 128 /\ data = k + 128
         \/ "E0ESC" \in s /\ k >= 128 /\ data = k,
         data # E0
  PROVE  kbd_proc_data(s, data).shift = s \ (shiftcode(k) \cup {"E0ESC"})
<1>1. Released(data)
  BY DEF Released
<1>2. Index(s, data) = k
  BY <1>1 DEF Index
<1> QED BY <1>1, <1>2 DEF kbd_proc_data, Result

LEMMA ByteTaken ==
  ASSUME KeysInv, scan # <<>>, UNCHANGED held, scan' = Tail(scan),
         shift' = kbd_proc_data(shift, Head(scan)).shift
  PROVE  KeysInv'
<1> DEFINE Flags == {"SHIFT", "CTL", "ALT", "CAPSLOCK", "NUMLOCK", "E0ESC"}
<1>1. held \subseteq Key /\ shift \subseteq Flags
  BY DEF KeysInv
<1>2. CASE \E k \in held : Coming(MakeCode(k)) /\ Explained(shift, held)
  <2>1. PICK k \in held : Coming(MakeCode(k)) /\ Explained(shift, held)
    BY <1>2
  <2>2. k \in Key /\ k \in 0 .. 255
    BY <1>1, <2>1, KeyCodes
  <2>3. CASE k >= 128 /\ scan = MakeCode(k) /\ "E0ESC" \notin shift
    <3>1. MakeCode(k) = <<E0, k - 128>>
      BY <2>2, <2>3, TwoBytes
    <3>2. Head(scan) = E0 /\ scan' = <<k - 128>>
      BY <2>3, <3>1
    <3>3. shift' = shift \cup {"E0ESC"}
      BY <3>2, Prefixed
    <3>4. Coming(MakeCode(k))'
      BY <3>1, <3>2, <3>3 DEF Coming, MakeCode
    <3>5. Explained(shift', held) /\ shift' \subseteq Flags
      BY <1>1, <2>1, <3>3 DEF Explained
    <3> QED BY <1>1, <2>1, <3>4, <3>5 DEF KeysInv, Explained
  <2>4. CASE ~ (k >= 128 /\ scan = MakeCode(k) /\ "E0ESC" \notin shift)
    <3>1. \/ "E0ESC" \notin shift /\ k < 128 /\ scan = <<k>> /\ k # E0
          \/ "E0ESC" \in shift /\ k >= 128 /\ scan = <<k - 128>> /\ k - 128 # E0
      <4>1. CASE k \in 0 .. 127 /\ MakeCode(k) = <<k>> /\ k # E0
        <5>1. Len(MakeCode(k)) # 2
          BY <4>1
        <5>2. scan = <<k>> /\ "E0ESC" \notin shift
          BY <2>1, <4>1, <5>1 DEF Coming
        <5>3. k < 128
          BY <4>1
        <5> QED BY <4>1, <5>2, <5>3
      <4>2. CASE k \in 128 .. 255 /\ MakeCode(k) = <<E0, k - 128>> /\ k - 128 # E0
        <5>1. k >= 128 /\ MakeCode(k)[2] = k - 128
          <6> DEFINE data == k - 128
          <6>1. k >= 128 /\ MakeCode(k) = <<E0, data>>
            BY <4>2
          <6>2. MakeCode(k)[2] = data
            <7> HIDE DEF data
            <7> QED BY <6>1
          <6> QED BY <6>1, <6>2
        <5>2. scan = <<MakeCode(k)[2]>> /\ "E0ESC" \in shift
          BY <2>1, <2>4, <5>1, Zenon DEF Coming
        <5> QED BY <4>2, <5>1, <5>2
      <4> QED BY <2>2, <4>1, <4>2, KeyCodes
    <3>2. scan' = <<>> /\ shift' = Toggled((shift \ {"E0ESC"}) \cup shiftcode(k), togglecode(k))
      <4>1. CASE "E0ESC" \notin shift /\ k < 128 /\ scan = <<k>> /\ k # E0
        <5>1. Head(scan) = k /\ Tail(scan) = <<>>
          BY <4>1
        <5> QED BY <2>2, <4>1, <5>1, Made
      <4>2. CASE "E0ESC" \in shift /\ k >= 128 /\ scan = <<k - 128>> /\ k - 128 # E0
        <5>1. Head(scan) = k - 128 /\ Tail(scan) = <<>>
          BY <4>2
        <5> QED BY <2>2, <4>2, <5>1, Made
      <4> QED BY <3>1, <4>1, <4>2
    <3>3. /\ "E0ESC" \notin shift' /\ shift' \subseteq Flags
          /\ shift' \cap {"SHIFT", "CTL", "ALT"} \subseteq (shift \cap {"SHIFT", "CTL", "ALT"}) \cup shiftcode(k)
      BY <1>1, <3>2, Shiftcodes DEF Toggled
    <3>4. Explained(shift', held)
      BY <2>1, <3>3 DEF Explained
    <3> QED BY <1>1, <3>2, <3>3, <3>4 DEF KeysInv, Explained
  <2> QED BY <2>3, <2>4
<1>3. CASE \E k \in Key : Coming(BreakCode(k)) /\ Explained(shift, held \cup {k})
  <2>1. PICK k \in Key : Coming(BreakCode(k)) /\ Explained(shift, held \cup {k})
    BY <1>3
  <2>2. k \in 0 .. 255
    BY KeyCodes
  <2>3. CASE k >= 128 /\ scan = BreakCode(k) /\ "E0ESC" \notin shift
    <3>1. BreakCode(k) = <<E0, k>>
      BY <2>2, <2>3, TwoBytes
    <3>2. Head(scan) = E0 /\ scan' = <<k>>
      BY <2>3, <3>1
    <3>3. shift' = shift \cup {"E0ESC"}
      BY <3>2, Prefixed
    <3>4. Coming(BreakCode(k))'
      BY <3>1, <3>2, <3>3 DEF Coming, BreakCode
    <3>5. Explained(shift', held \cup {k}) /\ shift' \subseteq Flags
      BY <1>1, <2>1, <3>3 DEF Explained
    <3> QED BY <1>1, <2>1, <3>4, <3>5 DEF KeysInv, Explained
  <2>4. CASE ~ (k >= 128 /\ scan = BreakCode(k) /\ "E0ESC" \notin shift)
    <3>1. \/ "E0ESC" \notin shift /\ k < 128 /\ scan = <<k + 128>> /\ k + 128 # E0
          \/ "E0ESC" \in shift /\ k >= 128 /\ scan = <<k>> /\ k # E0
      <4>1. CASE k \in 0 .. 127 /\ BreakCode(k) = <<k + 128>> /\ k + 128 # E0
        <5>1. Len(BreakCode(k)) # 2
          BY <4>1
        <5>2. scan = <<k + 128>> /\ "E0ESC" \notin shift
          BY <2>1, <4>1, <5>1 DEF Coming
        <5>3. k < 128
          BY <4>1
        <5> QED BY <4>1, <5>2, <5>3
      <4>2. CASE k \in 128 .. 255 /\ BreakCode(k) = <<E0, k>> /\ k # E0
        <5>1. k >= 128 /\ BreakCode(k)[2] = k
          BY <4>2
        <5>2. scan = <<BreakCode(k)[2]>> /\ "E0ESC" \in shift
          BY <2>1, <2>4, <5>1, Zenon DEF Coming
        <5> QED BY <4>2, <5>1, <5>2
      <4> QED BY <4>1, <4>2, KeyCodes
    <3>2. scan' = <<>> /\ shift' = shift \ (shiftcode(k) \cup {"E0ESC"})
      <4>1. CASE "E0ESC" \notin shift /\ k < 128 /\ scan = <<k + 128>> /\ k + 128 # E0
        <5>1. Head(scan) = k + 128 /\ Tail(scan) = <<>>
          BY <4>1
        <5> QED BY <2>2, <4>1, <5>1, Broken
      <4>2. CASE "E0ESC" \in shift /\ k >= 128 /\ scan = <<k>> /\ k # E0
        <5>1. Head(scan) = k /\ Tail(scan) = <<>>
          BY <4>2
        <5> QED BY <2>2, <4>2, <5>1, Broken
      <4> QED BY <3>1, <4>1, <4>2
    <3>3. Explained(shift', held) /\ "E0ESC" \notin shift' /\ shift' \subseteq Flags
      BY <1>1, <2>1, <3>2 DEF Explained
    <3> QED BY <1>1, <3>2, <3>3 DEF KeysInv, Explained
  <2> QED BY <2>3, <2>4
<1> QED BY <1>2, <1>3 DEF KeysInv

LEMMA KeyMoved ==
  ASSUME KeysInv, KeyMoves
  PROVE  KeysInv'
<1>1. PICK k \in Key : Press(k) \/ Release(k)
  BY DEF KeyMoves
<1>2. scan = <<>> /\ shift' = shift
  BY <1>1 DEF Press, Release
<1>3. held \subseteq Key /\ Explained(shift, held) /\ "E0ESC" \notin shift
  <2>1. ASSUME NEW j \in Key PROVE ~ Coming(MakeCode(j)) /\ ~ Coming(BreakCode(j))
    <3>1. MakeCode(j) # <<>> /\ BreakCode(j) # <<>>
      BY Sent
    <3> QED BY <1>2, <3>1 DEF Coming
  <2> QED BY <2>1 DEF KeysInv
<1>4. CASE Press(k)
  <2>1. scan' = MakeCode(k) /\ held' = held \cup {k}
    BY <1>4 DEF Press
  <2>2. Coming(MakeCode(k))' /\ Explained(shift, held') /\ k \in held'
    BY <1>2, <1>3, <2>1 DEF Coming, Explained, MakeCode
  <2> QED BY <1>1, <1>2, <1>3, <2>1, <2>2 DEF KeysInv, Explained
<1>5. CASE Release(k)
  <2>1. scan' = BreakCode(k) /\ held' = held \ {k} /\ k \in held
    BY <1>5 DEF Release
  <2>2. Coming(BreakCode(k))' /\ Explained(shift, held' \cup {k})
    BY <1>2, <1>3, <2>1 DEF Coming, Explained, BreakCode
  <2> QED BY <1>1, <1>2, <1>3, <2>1, <2>2 DEF KeysInv, Explained
<1> QED BY <1>1, <1>4, <1>5

----------------------------------------------------------------------------
(* What readline has typed so far, on the roll of a screen from b on.      *)
Showing(s, l, b) ==
  /\ Cursor(s) = b + Len(l) /\ Len(l) <= s.crt_pos
  /\ \A n \in 1 .. Len(l) : RollAt(s, b + n) = l[n]

(* Where a scroll leaves the cursor, there is still room for a line.       *)
LEMMA PutMoves ==
  ASSUME NEW s \in Screens, NEW c
  PROVE  Put(s, c).crt_pos = IF s.crt_pos + 1 < CRT_SIZE THEN s.crt_pos + 1 ELSE CRT_SIZE - CRT_COLS
<1> DEFINE u == Shown(s, c, s.crt_pos, s.crt_pos + 1)
           p == s.crt_pos
<1>1. u.crt_pos = p + 1
  BY DEF Shown
<1>2. p \in 0 .. CRT_SIZE - 1 /\ CRT_SIZE \in Nat /\ CRT_COLS \in Nat
  BY RollSizes, ScreenSizes
<1> HIDE DEF u, p
<1>3. Put(s, c) = Scrolled(u)
  BY DEF Put, u, p
<1>4. CASE p + 1 < CRT_SIZE
  BY <1>1, <1>2, <1>3, <1>4 DEF Scrolled, Out, p
<1>5. CASE ~ (p + 1 < CRT_SIZE)
  <2>1. p + 1 = CRT_SIZE
    BY <1>2, <1>5
  <2>2. Scrolled(u).crt_pos = u.crt_pos - CRT_COLS
    BY <1>1, <1>2, <2>1 DEF Scrolled, Out
  <2> QED BY <1>1, <1>3, <1>5, <2>1, <2>2 DEF p
<1> QED BY <1>4, <1>5

LEMMA TypedShows ==
  ASSUME NEW s \in Screens, NEW l \in Seq(Glyph), NEW b \in Nat, NEW c \in Glyph,
         Showing(s, l, b), Len(l) < BUFLEN - 1
  PROVE  cga_putc(s, c) \in Screens /\ Showing(cga_putc(s, c), Append(l, c), b)
<1> DEFINE t == Put(s, c)
           e == Len(l)
<1>1. cga_putc(s, c) = t
  BY CgaAssumption DEF cga_putc, Control
<1>2. Prints(t, s, c, 1)
  BY PutPrints
<1>3. /\ e \in Nat /\ Append(l, c) \in Seq(Glyph) /\ Len(Append(l, c)) = e + 1
      /\ \A n \in 1 .. e : Append(l, c)[n] = l[n]
      /\ Append(l, c)[e + 1] = c
  BY AppendProperties, LenProperties
<1>4. /\ Cursor(s) \in Nat /\ RollEnd(s) \in Nat /\ Cursor(s) < RollEnd(s)
      /\ s.crt_pos \in Nat /\ Cursor(s) = b + e /\ e <= s.crt_pos
  BY RollSizes DEF Showing
<1>5. t \in Screens /\ Cursor(t) = Cursor(s) + 1 /\ RollEnd(t) \in Nat /\ Cursor(t) < RollEnd(t)
  BY <1>2, RollSizes DEF Prints
<1> HIDE DEF t, e
<1>6. e + 1 <= t.crt_pos
  <2>1. t.crt_pos = IF s.crt_pos + 1 < CRT_SIZE THEN s.crt_pos + 1 ELSE CRT_SIZE - CRT_COLS
    BY PutMoves DEF t
  <2>2. e + 1 <= CRT_SIZE - CRT_COLS
    BY <1>3, TerminalAssumption, ScreenSizes DEF e
  <2> QED BY <1>3, <1>4, <2>1, <2>2
<1>7. ASSUME NEW n \in 1 .. e + 1 PROVE RollAt(t, b + n) = Append(l, c)[n]
  <2>1. b + n \in 1 .. RollEnd(t)
    BY <1>3, <1>4, <1>5
  <2>2. RollAt(t, b + n) = IF (b + n) - Cursor(s) \in 1 .. 1 THEN c
                           ELSE IF b + n <= RollEnd(s) THEN RollAt(s, b + n) ELSE Blank
    <3> DEFINE k == b + n
    <3>1. k \in 1 .. RollEnd(t)
      BY <2>1
    <3> HIDE DEF k
    <3>2. RollAt(t, k) = IF k - Cursor(s) \in 1 .. 1 THEN c
                         ELSE IF k <= RollEnd(s) THEN RollAt(s, k) ELSE Blank
      BY <1>2, <3>1 DEF Prints
    <3> QED BY <3>2 DEF k
  <2>3. CASE n = e + 1
    BY <1>3, <1>4, <2>2, <2>3
  <2>4. CASE n \in 1 .. e
    <3>1. RollAt(s, b + n) = l[n]
      BY <2>4 DEF Showing, e
    <3>2. ~ ((b + n) - Cursor(s) \in 1 .. 1) /\ b + n <= RollEnd(s)
      BY <1>3, <1>4, <2>4
    <3> QED BY <1>3, <2>2, <2>4, <3>1, <3>2
  <2> QED BY <1>3, <2>3, <2>4
<1>8. Cursor(t) = b + (e + 1)
  BY <1>3, <1>4, <1>5
<1> QED BY <1>1, <1>3, <1>5, <1>6, <1>7, <1>8 DEF Showing

LEMMA ErasedShows ==
  ASSUME NEW s \in Screens, NEW l \in Seq(Glyph), NEW b \in Nat,
         Showing(s, l, b), l # <<>>
  PROVE  LET m == SubSeq(l, 1, Len(l) - 1) IN
         /\ cga_putc(s, "BS") \in Screens /\ Showing(cga_putc(s, "BS"), m, b)
         /\ m \in Seq(Glyph) /\ Len(m) = Len(l) - 1
<1> DEFINE t == cga_putc(s, "BS")
           e == Len(l)
           m == SubSeq(l, 1, e - 1)
<1>1. e \in Nat \ {0}
  BY LenProperties, EmptySeq
<1>2. /\ m \in Seq(Glyph) /\ Len(m) = e - 1
      /\ \A n \in 1 .. e - 1 : m[n] = l[n]
  <2>1. 1 \in 1 .. Len(l) + 1 /\ e - 1 \in 1 - 1 .. Len(l)
    BY <1>1
  <2> DEFINE i == e - 1
  <2>2. i \in 1 - 1 .. Len(l) /\ i - 1 + 1 = i /\ m = SubSeq(l, 1, i) /\ i \in Nat
    BY <1>1, <2>1
  <2> HIDE DEF i, m, e
  <2>3. m \in Seq(Glyph)
    BY <2>1, <2>2, SubSeqProperties
  <2>4. Len(m) = i /\ \A n \in 1 .. i : m[n] = l[1 + n - 1]
    BY <2>1, <2>2, SubSeqProperties
  <2>5. \A n \in 1 .. i : 1 + n - 1 = n
    BY <2>2
  <2> QED BY <2>3, <2>4, <2>5 DEF i
<1>3. /\ Cursor(s) \in Nat /\ RollEnd(s) \in Nat /\ Cursor(s) < RollEnd(s)
      /\ s.crt_pos \in Nat /\ Cursor(s) = b + e /\ e <= s.crt_pos
  BY RollSizes DEF Showing
<1>4. s.crt_pos > 0
  BY <1>1, <1>3
<1>5. /\ t \in Screens /\ Cursor(t) = Cursor(s) - 1 /\ RollEnd(t) = RollEnd(s)
      /\ \A k \in 1 .. RollEnd(s) : RollAt(t, k) = IF k = Cursor(s) THEN Blank ELSE RollAt(s, k)
  BY <1>4, Erases
<1>6. t.crt_pos = s.crt_pos - 1
  BY <1>4 DEF cga_putc, Shown
<1> HIDE DEF t, e, m
<1>7. e - 1 <= t.crt_pos /\ Cursor(t) = b + (e - 1)
  BY <1>1, <1>3, <1>5, <1>6
<1>8. ASSUME NEW n \in 1 .. e - 1 PROVE RollAt(t, b + n) = m[n]
  <2>1. b + n \in 1 .. RollEnd(s) /\ b + n # Cursor(s) /\ n \in 1 .. e
    BY <1>1, <1>3
  <2>2. RollAt(s, b + n) = l[n]
    BY <2>1 DEF Showing, e
  <2> QED BY <1>2, <1>5, <2>1, <2>2
<1> QED BY <1>2, <1>5, <1>7, <1>8 DEF Showing, t, e, m

----------------------------------------------------------------------------
(* The invariant of the terminal.                                          *)
LineOK(s, m, l, b) ==
  /\ s \in Screens /\ m \in {"print", "read", "rebooted"}
  /\ l \in Seq(Glyph) /\ Len(l) < BUFLEN /\ b \in Nat
  /\ m = "read" => Showing(s, l, b)

TerminalInv == KeysInv /\ LineOK(screen, mode, line, start)

LEMMA CharTaken ==
  ASSUME LineOK(screen, mode, line, start), mode = "read", UNCHANGED start,
         NEW c, readline_char(c)
  PROVE  LineOK(screen', mode', line', start') /\ [P!Next]_(P!papervars)
<1>1. screen \in Screens /\ line \in Seq(Glyph) /\ start \in Nat /\ Showing(screen, line, start)
  BY DEF LineOK
<1>2. Len(line) < BUFLEN /\ Len(line) \in Nat /\ BUFLEN \in Nat
  BY TerminalAssumption, LenProperties DEF LineOK
<1>3. CASE Erase(c) /\ Echo("BS") /\ line' = SubSeq(line, 1, Len(line) - 1) /\ UNCHANGED mode
  <2>1. line # <<>> /\ screen' = cga_putc(screen, "BS")
    BY <1>3 DEF Erase, Echo
  <2>2. /\ screen' \in Screens /\ Showing(screen', line', start)
        /\ line' \in Seq(Glyph) /\ Len(line') = Len(line) - 1
    BY <1>1, <1>3, <2>1, ErasedShows
  <2>3. [P!Next]_(P!papervars)
    BY <1>1, <2>1, PutcRefines DEF Control
  <2> QED BY <1>1, <1>2, <1>3, <2>2, <2>3 DEF LineOK
<1>4. CASE Insert(c) /\ Echo(c) /\ line' = Append(line, c) /\ UNCHANGED mode
  <2>1. c \in Glyph /\ Len(line) < BUFLEN - 1 /\ screen' = cga_putc(screen, c)
    BY <1>4 DEF Insert, Echo
  <2>2. screen' \in Screens /\ Showing(screen', line', start)
    BY <1>1, <1>4, <2>1, TypedShows
  <2>3. line' \in Seq(Glyph) /\ Len(line') = Len(line) + 1
    BY <1>1, <1>4, <2>1, AppendProperties
  <2>4. [P!Next]_(P!papervars)
    BY <1>1, <2>1, PutcRefines
  <2> QED BY <1>1, <1>2, <1>4, <2>1, <2>2, <2>3, <2>4 DEF LineOK
<1>5. CASE Ends(c) /\ Echo("NL") /\ mode' = "print" /\ UNCHANGED line
  <2>1. screen' = cga_putc(screen, "NL")
    BY <1>5 DEF Echo
  <2>2. screen' \in Screens /\ [P!Next]_(P!papervars)
    BY <1>1, <2>1, PutcRefines DEF Control
  <2> QED BY <1>1, <1>2, <1>5, <2>2 DEF LineOK
<1>6. CASE Ignored(c) /\ UNCHANGED <<mode, line>>
  <2>1. screen' = screen
    BY <1>6 DEF Ignored
  <2> QED BY <1>6, <2>1 DEF P!papervars, Roll, RollPos
<1> QED BY <1>3, <1>4, <1>5, <1>6 DEF readline_char

LEMMA TerminalStarts == TerminalInit => TerminalInv /\ P!Init
<1> SUFFICES ASSUME TerminalInit PROVE TerminalInv /\ P!Init
  OBVIOUS
<1>1. screen \in Screens /\ P!Init
  BY CgaStarts DEF TerminalInit
<1>2. KeysInv
  BY DEF TerminalInit, kbd_init, KeysInv, Explained
<1>3. line \in Seq(Glyph) /\ Len(line) = 0
  BY EmptySeq DEF TerminalInit
<1> QED BY <1>1, <1>2, <1>3, TerminalAssumption DEF TerminalInit, TerminalInv, LineOK

LEMMA TerminalSteps ==
  ASSUME TerminalInv, [TerminalNext]_terminal_vars
  PROVE  KeysInv' /\ LineOK(screen', mode', line', start') /\ [P!Next]_(P!papervars)
<1>1. screen \in Screens /\ KeysInv /\ LineOK(screen, mode, line, start)
  BY DEF TerminalInv, LineOK
<1>2. UNCHANGED keyboard => KeysInv'
  BY <1>1 DEF keyboard, KeysInv, Explained, Coming
<1>3. UNCHANGED screen => [P!Next]_(P!papervars)
  BY DEF P!papervars, Roll, RollPos
<1>4. ASSUME NEW c \in Printed, cputchar(c)
      PROVE  KeysInv' /\ LineOK(screen', mode', line', start') /\ [P!Next]_(P!papervars)
  <2>1. c \in Glyph \cup Control /\ screen' = cga_putc(screen, c) /\ mode' # "read"
    BY <1>4, TerminalAssumption DEF cputchar, Echo
  <2>2. screen' \in Screens /\ [P!Next]_(P!papervars)
    BY <1>1, <2>1, PutcRefines
  <2> QED BY <1>1, <1>2, <1>4, <2>1, <2>2 DEF cputchar, LineOK
<1>5. CASE readline_call
  <2>1. line' = <<>> /\ mode' = "read" /\ start' = Cursor(screen) /\ screen' = screen
    BY <1>1, <1>5, RollIs DEF readline_call, RollFacts
  <2>2. line' \in Seq(Glyph) /\ Len(line') = 0 /\ Cursor(screen) \in Nat /\ screen.crt_pos \in Nat
    BY <1>1, <2>1, EmptySeq, RollSizes
  <2>3. Showing(screen', line', start')
    BY <2>1, <2>2 DEF Showing
  <2>4. LineOK(screen', mode', line', start')
    BY <1>1, <2>1, <2>2, <2>3, TerminalAssumption DEF LineOK
  <2> QED BY <1>2, <1>3, <1>5, <2>4 DEF readline_call
<1>6. CASE kbd_byte
  <2> DEFINE r == kbd_proc_data(shift, Head(scan))
  <2>1. /\ mode = "read" /\ scan # <<>> /\ shift' = r.shift /\ scan' = Tail(scan)
        /\ UNCHANGED held /\ UNCHANGED start
        /\ \/ mode' = "rebooted" /\ UNCHANGED <<screen, line>>
           \/ UNCHANGED <<screen, mode, line>>
           \/ readline_char(r.c)
    BY <1>6 DEF kbd_byte
  <2>2. KeysInv'
    BY <1>1, <2>1, ByteTaken
  <2> HIDE DEF r
  <2>3. CASE mode' = "rebooted" /\ UNCHANGED <<screen, line>>
    BY <1>1, <1>3, <2>1, <2>2, <2>3 DEF LineOK
  <2>4. CASE UNCHANGED <<screen, mode, line>>
    BY <1>1, <1>3, <2>1, <2>2, <2>4
  <2>5. CASE readline_char(r.c)
    BY <1>1, <2>1, <2>2, <2>5, CharTaken
  <2> QED BY <2>1, <2>3, <2>4, <2>5
<1>7. CASE serial_char
  <2>1. PICK c \in Serial : readline_char(c)
    BY <1>7 DEF serial_char
  <2> QED BY <1>1, <1>2, <1>7, <2>1, CharTaken DEF serial_char
<1>8. CASE mode = "read" /\ KeyMoves /\ UNCHANGED <<screen, mode, line, start>>
  BY <1>1, <1>3, <1>8, KeyMoved
<1>9. CASE UNCHANGED terminal_vars
  BY <1>1, <1>2, <1>3, <1>9 DEF terminal_vars
<1> QED BY <1>4, <1>5, <1>6, <1>7, <1>8, <1>9 DEF TerminalNext

LEMMA TerminalAlways == TerminalSpec => []TerminalInv
<1>1. TerminalInv /\ [TerminalNext]_terminal_vars => TerminalInv'
  <2> SUFFICES ASSUME TerminalInv, [TerminalNext]_terminal_vars PROVE TerminalInv'
    OBVIOUS
  <2>1. KeysInv' /\ LineOK(screen', mode', line', start')
    BY TerminalSteps
  <2> QED BY <2>1 DEF TerminalInv, LineOK, Showing, Screens, Wide, Cursor, RollAt, CRT_SIZE, Cell
<1> QED BY <1>1, TerminalStarts, PTL DEF TerminalSpec

(* No flag of kbd_proc_data stays set after the last key that sets it has  *)
(* come up, for every set of keys and every order in which they move.      *)
THEOREM ModifiersReleased == TerminalSpec => []NoStuckModifier
<1>1. TerminalInv => NoStuckModifier
  <2> SUFFICES ASSUME TerminalInv, scan = <<>>
               PROVE  "E0ESC" \notin shift /\ Explained(shift, held)
    BY DEF NoStuckModifier, Explained
  <2>1. ASSUME NEW k PROVE ~ Coming(MakeCode(k)) /\ ~ Coming(BreakCode(k))
    BY Sent DEF Coming
  <2> QED BY <2>1 DEF TerminalInv, KeysInv
<1> QED BY <1>1, TerminalAlways, PTL

(* While readline runs, the display of any size shows the line it will     *)
(* return, from where it began up to the cursor, whatever was typed,       *)
(* erased and scrolled.                                                    *)
THEOREM LineShown == TerminalSpec => []EchoShowsLine
<1>1. TerminalInv => EchoShowsLine
  <2> SUFFICES ASSUME TerminalInv PROVE EchoShowsLine
    OBVIOUS
  <2>1. screen \in Screens /\ KeysInv /\ LineOK(screen, mode, line, start)
    BY DEF TerminalInv, LineOK
  <2>2. scan \in Seq(0 .. 255)
    <3>1. ASSUME NEW k \in Key PROVE MakeCode(k) \in Seq(0 .. 255) /\ BreakCode(k) \in Seq(0 .. 255)
      <4>1. E0 \in 0 .. 255
        BY DEF E0
      <4>2. CASE k \in 0 .. 127 /\ MakeCode(k) = <<k>> /\ BreakCode(k) = <<k + 128>>
        <5>1. k \in 0 .. 255 /\ k + 128 \in 0 .. 255
          BY <4>2
        <5> QED BY <4>2, <5>1
      <4>3. CASE k \in 128 .. 255 /\ MakeCode(k) = <<E0, k - 128>> /\ BreakCode(k) = <<E0, k>>
        <5>1. k \in 0 .. 255 /\ k - 128 \in 0 .. 255
          BY <4>3
        <5> QED BY <4>1, <4>3, <5>1
      <4> QED BY <4>2, <4>3, KeyCodes
    <3>2. ASSUME NEW codes \in Seq(0 .. 255), Coming(codes) PROVE scan \in Seq(0 .. 255)
      <4>1. CASE scan = codes
        BY <4>1
      <4>2. CASE Len(codes) = 2 /\ scan = <<codes[2]>>
        <5>1. codes[2] \in 0 .. 255
          <6>1. 2 \in 1 .. Len(codes)
            BY <4>2
          <6> QED BY <6>1, ElementOfSeq
        <5> QED BY <4>2, <5>1
      <4> QED BY <3>2, <4>1, <4>2 DEF Coming
    <3>3. <<>> \in Seq(0 .. 255)
      BY EmptySeq
    <3> QED BY <2>1, <3>1, <3>2, <3>3 DEF KeysInv
  <2>3. CgaTypeOK
    BY <2>1, RollSizes DEF CgaTypeOK, Screens, Wide, Cell
  <2>4. TerminalTypeOK
    BY <2>1, <2>2, <2>3 DEF TerminalTypeOK, LineOK, KeysInv
  <2>5. ASSUME mode = "read"
        PROVE  RollPos = start + Len(line) /\ \A n \in DOMAIN line : Roll[start + n] = line[n]
    <3>1. Showing(screen, line, start) /\ line \in Seq(Glyph) /\ start \in Nat
      BY <2>1, <2>5 DEF LineOK
    <3>2. RollPos = Cursor(screen) /\ Roll = [k \in 1 .. RollEnd(screen) |-> RollAt(screen, k)]
      BY <2>1, RollIs DEF RollFacts
    <3>3. /\ Cursor(screen) = start + Len(line) /\ Cursor(screen) < RollEnd(screen)
          /\ RollEnd(screen) \in Nat /\ Len(line) \in Nat /\ DOMAIN line = 1 .. Len(line)
      BY <2>1, <3>1, RollSizes, LenProperties DEF Showing
    <3>4. ASSUME NEW n \in 1 .. Len(line) PROVE Roll[start + n] = line[n]
      <4>1. start + n \in 1 .. RollEnd(screen)
        BY <3>1, <3>3
      <4>2. RollAt(screen, start + n) = line[n]
        BY <3>1 DEF Showing
      <4> DEFINE k == start + n
      <4>3. k \in 1 .. RollEnd(screen) /\ RollAt(screen, k) = line[n]
        BY <4>1, <4>2
      <4> HIDE DEF k
      <4>4. Roll[k] = line[n]
        BY <3>2, <4>3
      <4> QED BY <4>4 DEF k
    <3> QED BY <3>2, <3>3, <3>4
  <2> QED BY <2>4, <2>5 DEF EchoShowsLine
<1> QED BY <1>1, TerminalAlways, PTL

(* The display of kern/console.c shows the last lines of an endless roll:  *)
(* no character is lost, shown twice or shown elsewhere by cga_putc.       *)
THEOREM DisplayIsPaper == TerminalSpec => ImplementsPaper
<1>1. TerminalInit => P!Init
  BY TerminalStarts
<1>2. TerminalInv /\ [TerminalNext]_terminal_vars => [P!Next]_(P!papervars)
  BY TerminalSteps
<1> QED BY <1>1, <1>2, TerminalAlways, PTL DEF TerminalSpec, ImplementsPaper, P!Spec

=============================================================================
