---------------------------- MODULE StartupProofs ----------------------------
(***************************************************************************)
(* Proofs about BootLoader and MemInit, for every size of memory, every    *)
(* kernel and every answer of the devices.  The invariant of mem_init says *)
(* how far boot_alloc has come, which pages the free list holds while page *)
(* tables are taken from it, and which virtual pages boot_map_region has   *)
(* come by.                                                                *)
(***************************************************************************)
EXTENDS BootLoader, Arithmetic, SequenceTheorems

Distinct(s) == \A i, j \in 1 .. Len(s) : s[i] = s[j] => i = j

(* What Kept has after n elements of the list.                             *)
KeptSoFar(t, s, S, n) ==
  /\ t \in Seq(Nat)
  /\ \A i \in 1 .. Len(t) : t[i] \in S /\ \E k \in 1 .. n : t[i] = s[k]
  /\ \A k \in 1 .. n : s[k] \in S => \E i \in 1 .. Len(t) : t[i] = s[k]
  /\ Distinct(t)

LEMMA KeptIs ==
  ASSUME NEW s \in Seq(Nat), Distinct(s), NEW S
  PROVE  LET t == Kept(s, S) IN
         t \in Seq(Nat) /\ Distinct(t) /\ ToSet(t) = ToSet(s) \cap S
<1> DEFINE N == Len(s)
           Body(f, n) == IF n = 0 THEN <<>>
                         ELSE IF s[n] \in S THEN Append(f[n - 1], s[n]) ELSE f[n - 1]
           Eq(f) == f = [n \in 0 .. N |-> Body(f, n)]
           kept == CHOOSE f : Eq(f)
<1>1. Kept(s, S) = kept[N]
  BY DEF Kept
<1>2. N \in Nat /\ DOMAIN s = 1 .. N /\ \A k \in 1 .. N : s[k] \in Nat
  BY LenProperties, ElementOfSeq
<1> HIDE DEF N
<1>3. \E f : Eq(f)
  <2> DEFINE Upto(n) == \E f : f = [k \in 0 .. n |-> Body(f, k)]
             I == {n \in Nat : n <= N => Upto(n)}
  <2>1. 0 \in I
    <3> DEFINE f == [k \in 0 .. 0 |-> <<>>]
    <3>1. f = [k \in 0 .. 0 |-> Body(f, k)]
      <4>1. \A k \in 0 .. 0 : Body(f, k) = <<>>
        OBVIOUS
      <4> HIDE DEF Body
      <4> QED BY <4>1
    <3> HIDE DEF f, Body
    <3> QED BY <3>1
  <2>2. ASSUME NEW n \in Nat, n \in I PROVE n + 1 \in I
    <3> SUFFICES ASSUME n + 1 <= N PROVE Upto(n + 1)
      <4> HIDE DEF Upto
      <4> QED BY <2>2
    <3>0. Upto(n)
      <4> HIDE DEF Upto
      <4> QED BY <1>2, <2>2
    <3>1. PICK f : f = [k \in 0 .. n |-> Body(f, k)]
      <4> HIDE DEF Body
      <4> QED BY <3>0
    <3> DEFINE g == [k \in 0 .. n + 1 |-> IF k = n + 1 THEN Body(f, k) ELSE f[k]]
    <3>2. ASSUME NEW k \in 0 .. n + 1 PROVE g[k] = Body(g, k)
      <4>1. k = 0 => Body(g, k) = Body(f, k)
        OBVIOUS
      <4>2. k # 0 => g[k - 1] = f[k - 1]
        OBVIOUS
      <4>3. Body(g, k) = Body(f, k)
        <5> HIDE DEF g
        <5> QED BY <4>1, <4>2
      <4>4. k # n + 1 => f[k] = Body(f, k)
        <5> HIDE DEF Body
        <5> QED BY <3>1
      <4> HIDE DEF Body
      <4> QED BY <4>3, <4>4
    <3>3. g = [k \in 0 .. n + 1 |-> g[k]]
      OBVIOUS
    <3> HIDE DEF g, Body
    <3>4. g = [k \in 0 .. n + 1 |-> Body(g, k)]
      BY <3>2, <3>3
    <3> QED BY <3>4
  <2> HIDE DEF I
  <2>3. N \in I
    BY <1>2, <2>1, <2>2, SetInduction
  <2>4. Upto(N)
    <3> HIDE DEF Upto
    <3> QED BY <1>2, <2>3 DEF I
  <2> HIDE DEF Body
  <2> QED BY <2>4
<1>4. Eq(kept)
  <2> HIDE DEF Eq
  <2> QED BY <1>3
<1>5. \A n \in 0 .. N : kept[n] = Body(kept, n)
  <2> HIDE DEF kept, Body
  <2> QED BY <1>4
<1> HIDE DEF kept
<1> DEFINE K == {n \in Nat : n <= N => KeptSoFar(kept[n], s, S, n)}
<1>6. 0 \in K
  <2>1. kept[0] = <<>>
    BY <1>2, <1>5
  <2>2. <<>> \in Seq(Nat) /\ Len(<<>>) = 0
    BY EmptySeq
  <2>3. KeptSoFar(<<>>, s, S, 0)
    <3>1. \A i \in 1 .. 0 : FALSE
      OBVIOUS
    <3> QED BY <2>2, <3>1 DEF KeptSoFar, Distinct
  <2> HIDE DEF kept
  <2> QED BY <2>1, <2>3
<1>7. ASSUME NEW n \in Nat, n \in K PROVE n + 1 \in K
  <2> SUFFICES ASSUME n + 1 <= N PROVE KeptSoFar(kept[n + 1], s, S, n + 1)
    OBVIOUS
  <2> DEFINE t == kept[n]
             u == kept[n + 1]
  <2>1. KeptSoFar(t, s, S, n) /\ n \in 0 .. N /\ n + 1 \in 1 .. N /\ s[n + 1] \in Nat
    BY <1>2, <1>7
  <2>2. u = IF s[n + 1] \in S THEN Append(t, s[n + 1]) ELSE t
    <3>1. u = Body(kept, n + 1)
      BY <1>2, <1>5, <2>1
    <3>2. ~ (n + 1 = 0) /\ n + 1 - 1 = n
      BY <1>7
    <3> QED BY <3>1, <3>2
  <2>3. \A k \in 1 .. n : s[k] # s[n + 1]
    <3>1. \A k \in 1 .. n : k \in 1 .. N /\ k # n + 1
      BY <1>2, <2>1
    <3> QED BY <2>1, <3>1 DEF Distinct, N
  <2> HIDE DEF t, u
  <2>4. CASE s[n + 1] \in S
    <3> DEFINE e == Len(t)
    <3>1. /\ u \in Seq(Nat) /\ e \in Nat /\ Len(u) = e + 1 /\ u[e + 1] = s[n + 1]
          /\ \A i \in 1 .. e : u[i] = t[i]
      BY <2>1, <2>2, <2>4, AppendProperties, LenProperties DEF KeptSoFar
    <3>2. \A i \in 1 .. e : t[i] \in S /\ \E k \in 1 .. n : t[i] = s[k]
      BY <2>1 DEF KeptSoFar
    <3>3. \A k \in 1 .. n : s[k] \in S => \E i \in 1 .. e : t[i] = s[k]
      BY <2>1 DEF KeptSoFar
    <3>4. \A i, j \in 1 .. e : t[i] = t[j] => i = j
      BY <2>1 DEF KeptSoFar, Distinct
    <3> HIDE DEF e
    <3>5. \A i \in 1 .. e + 1 : i \in 1 .. e \/ i = e + 1
      BY <3>1
    <3>6. \A k \in 1 .. n + 1 : k \in 1 .. n \/ k = n + 1
      BY <2>1
    <3>7. (\A i \in 1 .. e : i \in 1 .. e + 1) /\ (\A k \in 1 .. n : k \in 1 .. n + 1)
          /\ e + 1 \in 1 .. e + 1 /\ n + 1 \in 1 .. n + 1
      BY <2>1, <3>1
    <3>8. \A i \in 1 .. e + 1 : u[i] \in S /\ \E k \in 1 .. n + 1 : u[i] = s[k]
      BY <2>4, <3>1, <3>2, <3>5, <3>7
    <3>9. \A k \in 1 .. n + 1 : s[k] \in S => \E i \in 1 .. e + 1 : u[i] = s[k]
      BY <3>1, <3>3, <3>6, <3>7
    <3>10. \A i, j \in 1 .. e + 1 : u[i] = u[j] => i = j
      <4>1. \A i \in 1 .. e : u[i] # u[e + 1]
        BY <2>3, <3>1, <3>2
      <4> QED BY <3>1, <3>4, <3>5, <4>1
    <3> QED BY <3>1, <3>8, <3>9, <3>10 DEF KeptSoFar, Distinct, u
  <2>5. CASE s[n + 1] \notin S
    <3>1. u = t
      BY <2>2, <2>5
    <3>2. \A k \in 1 .. n + 1 : k \in 1 .. n \/ k = n + 1
      BY <2>1
    <3>3. \A k \in 1 .. n : k \in 1 .. n + 1
      BY <2>1
    <3> QED BY <2>1, <2>5, <3>1, <3>2, <3>3 DEF KeptSoFar, u
  <2> QED BY <2>4, <2>5
<1>8. N \in K
  <2> HIDE DEF K
  <2> QED BY <1>2, <1>6, <1>7, SetInduction
<1> DEFINE t == Kept(s, S)
<1>9. KeptSoFar(t, s, S, N)
  BY <1>1, <1>2, <1>8
<1>10. t \in Seq(Nat) /\ Distinct(t) /\ DOMAIN t = 1 .. Len(t)
  BY <1>9, LenProperties DEF KeptSoFar
<1> HIDE DEF t
<1>11. ToSet(t) = ToSet(s) \cap S
  <2>1. ToSet(t) = {t[i] : i \in 1 .. Len(t)} /\ ToSet(s) = {s[k] : k \in 1 .. N}
    BY <1>2, <1>10 DEF ToSet
  <2>2. /\ \A i \in 1 .. Len(t) : t[i] \in S /\ \E k \in 1 .. N : t[i] = s[k]
        /\ \A k \in 1 .. N : s[k] \in S => \E i \in 1 .. Len(t) : t[i] = s[k]
    BY <1>9 DEF KeptSoFar
  <2> QED BY <2>1, <2>2
<1> QED BY <1>10, <1>11 DEF t

(* Lists without repetition: one after the other, in another order,        *)
(* without the first.                                                      *)
Once(s, S) == s \in Seq(Nat) /\ Distinct(s) /\ ToSet(s) = S

LEMMA ElementsAre ==
  ASSUME NEW s \in Seq(Nat)
  PROVE  /\ Len(s) \in Nat /\ DOMAIN s = 1 .. Len(s) /\ ToSet(s) = {s[i] : i \in 1 .. Len(s)}
         /\ \A i \in 1 .. Len(s) : s[i] \in Nat /\ s[i] \in ToSet(s)
<1>1. Len(s) \in Nat /\ DOMAIN s = 1 .. Len(s) /\ \A i \in 1 .. Len(s) : s[i] \in Nat
  BY LenProperties, ElementOfSeq
<1> QED BY <1>1 DEF ToSet

LEMMA Joined ==
  ASSUME NEW a, NEW b, NEW A, NEW B, Once(a, A), Once(b, B), A \cap B = {}
  PROVE  Once(a \o b, A \cup B)
<1> DEFINE m == Len(a)
           n == Len(b)
           c == a \o b
<1>1. /\ m \in Nat /\ n \in Nat /\ c \in Seq(Nat) /\ Len(c) = m + n
      /\ \A i \in 1 .. m : c[i] = a[i]
      /\ \A i \in m + 1 .. m + n : c[i] = b[i - m]
  <2>1. a \in Seq(Nat) /\ b \in Seq(Nat)
    BY DEF Once
  <2>2. m \in Nat /\ n \in Nat
    BY <2>1, LenProperties
  <2>3. \A i \in 1 .. m + n : c[i] = IF i <= m THEN a[i] ELSE b[i - m]
    BY <2>1, ConcatProperties
  <2>4. c \in Seq(Nat) /\ Len(c) = m + n
    BY <2>1, ConcatProperties
  <2> HIDE DEF m, n, c
  <2>5. (\A i \in 1 .. m : i \in 1 .. m + n /\ i <= m)
        /\ \A i \in m + 1 .. m + n : i \in 1 .. m + n /\ ~ (i <= m)
    BY <2>2
  <2> QED BY <2>2, <2>3, <2>4, <2>5
<1>2. /\ A = {a[i] : i \in 1 .. m} /\ B = {b[i] : i \in 1 .. n}
      /\ \A i, j \in 1 .. m : a[i] = a[j] => i = j
      /\ \A i, j \in 1 .. n : b[i] = b[j] => i = j
  BY ElementsAre DEF Once, Distinct
<1> HIDE DEF m, n, c
<1>3. \A i \in 1 .. m + n : i \in 1 .. m \/ i \in m + 1 .. m + n
  BY <1>1
<1>4. \A i \in m + 1 .. m + n : i - m \in 1 .. n
  BY <1>1
<1>5. ASSUME NEW i \in 1 .. m + n, NEW j \in 1 .. m + n, c[i] = c[j] PROVE i = j
  <2>1. CASE i \in 1 .. m /\ j \in 1 .. m
    BY <1>1, <1>2, <1>5, <2>1
  <2>2. CASE i \in m + 1 .. m + n /\ j \in m + 1 .. m + n
    <3>1. b[i - m] = b[j - m] /\ i - m \in 1 .. n /\ j - m \in 1 .. n
      BY <1>1, <1>4, <1>5, <2>2
    <3>2. i - m = j - m
      BY <1>2, <3>1
    <3> QED BY <1>1, <2>2, <3>2
  <2>3. ASSUME NEW k \in 1 .. m, NEW l \in m + 1 .. m + n PROVE c[k] # c[l]
    <3>1. c[k] \in A /\ c[l] \in B
      BY <1>1, <1>2, <1>4
    <3> QED BY <3>1
  <2> QED BY <1>3, <1>5, <2>1, <2>2, <2>3
<1>6. ToSet(c) = {c[i] : i \in 1 .. m + n}
  BY <1>1, ElementsAre
<1>7. ToSet(c) \subseteq A \cup B
  <2>1. ASSUME NEW i \in 1 .. m + n PROVE c[i] \in A \cup B
    <3>1. CASE i \in 1 .. m
      BY <1>1, <1>2, <3>1
    <3>2. CASE i \in m + 1 .. m + n
      BY <1>1, <1>2, <1>4, <3>2
    <3> QED BY <1>3, <3>1, <3>2
  <2> QED BY <1>6, <2>1
<1>8. A \subseteq ToSet(c)
  <2>1. \A i \in 1 .. m : i \in 1 .. m + n
    BY <1>1
  <2> QED BY <1>1, <1>2, <1>6, <2>1
<1>9. B \subseteq ToSet(c)
  <2>1. ASSUME NEW i \in 1 .. n PROVE b[i] \in ToSet(c)
    <3> DEFINE k == i + m
    <3>1. k \in m + 1 .. m + n /\ k \in 1 .. m + n /\ k - m = i
      BY <1>1
    <3> HIDE DEF k
    <3>2. c[k] = b[i]
      BY <1>1, <3>1
    <3> QED BY <1>6, <3>1, <3>2
  <2> QED BY <1>2, <2>1
<1> QED BY <1>1, <1>5, <1>7, <1>8, <1>9 DEF Once, Distinct, c

LEMMA Exchanged ==
  ASSUME NEW s, NEW S, Once(s, S), NEW t \in Seq(Nat), Len(t) = Len(s), NEW f,
         \A i \in 1 .. Len(s) : f[i] \in 1 .. Len(s) /\ f[f[i]] = i /\ t[i] = s[f[i]]
  PROVE  Once(t, S)
<1>1. /\ S = {s[i] : i \in 1 .. Len(s)} /\ ToSet(t) = {t[i] : i \in 1 .. Len(s)}
      /\ \A i, j \in 1 .. Len(s) : s[i] = s[j] => i = j
  BY ElementsAre DEF Once, Distinct
<1>2. ToSet(t) \subseteq S
  BY <1>1
<1>3. S \subseteq ToSet(t)
  <2>1. ASSUME NEW i \in 1 .. Len(s) PROVE s[i] \in ToSet(t)
    <3>1. t[f[i]] = s[i] /\ f[i] \in 1 .. Len(s)
      OBVIOUS
    <3> QED BY <1>1, <3>1
  <2>2. \A i \in 1 .. Len(s) : s[i] \in ToSet(t)
    BY <2>1
  <2>3. \A x \in S : \E i \in 1 .. Len(s) : x = s[i]
    BY <1>1
  <2> QED BY <2>2, <2>3
<1>4. \A i, j \in 1 .. Len(s) : t[i] = t[j] => i = j
  <2> SUFFICES ASSUME NEW i \in 1 .. Len(s), NEW j \in 1 .. Len(s), t[i] = t[j] PROVE i = j
    OBVIOUS
  <2>1. f[i] = f[j]
    <3>1. f[i] \in 1 .. Len(s) /\ f[j] \in 1 .. Len(s) /\ s[f[i]] = s[f[j]]
      OBVIOUS
    <3> QED BY <1>1, <3>1
  <2>2. f[f[i]] = i /\ f[f[j]] = j
    OBVIOUS
  <2> QED BY <2>1, <2>2
<1> QED BY <1>2, <1>3, <1>4 DEF Once, Distinct

LEMMA WithoutFirst ==
  ASSUME NEW s, NEW S, Once(s, S), s # <<>>
  PROVE  Once(Tail(s), S \ {Head(s)}) /\ Head(s) \in S /\ Head(s) \in Nat
<1> DEFINE t == Tail(s)
           n == Len(s)
<1>1. /\ n \in Nat \ {0} /\ t \in Seq(Nat) /\ Len(t) = n - 1 /\ Head(s) = s[1]
      /\ \A k \in 1 .. n - 1 : t[k] = s[k + 1]
  BY HeadTailProperties, EmptySeq, LenProperties DEF Once
<1>2. /\ S = {s[i] : i \in 1 .. n} /\ ToSet(t) = {t[i] : i \in 1 .. n - 1}
      /\ \A i, j \in 1 .. n : s[i] = s[j] => i = j
      /\ \A i \in 1 .. n : s[i] \in Nat
  BY <1>1, ElementsAre DEF Once, Distinct
<1> HIDE DEF t, n
<1>3. 1 \in 1 .. n /\ \A k \in 1 .. n - 1 : k + 1 \in 1 .. n /\ k + 1 # 1
  BY <1>1
<1>4. ToSet(t) \subseteq S \ {Head(s)}
  <2>1. ASSUME NEW k \in 1 .. n - 1 PROVE t[k] \in S /\ t[k] # s[1]
    <3>1. t[k] = s[k + 1] /\ k + 1 \in 1 .. n /\ k + 1 # 1 /\ 1 \in 1 .. n
      BY <1>1, <1>3
    <3> QED BY <1>2, <3>1
  <2>2. \A k \in 1 .. n - 1 : t[k] \in S \ {Head(s)}
    BY <1>1, <2>1
  <2>3. ToSet(t) = {t[i] : i \in 1 .. n - 1}
    BY <1>2
  <2> QED BY <2>2, <2>3
<1>5. S \ {Head(s)} \subseteq ToSet(t)
  <2>1. ASSUME NEW i \in 1 .. n, i # 1 PROVE s[i] \in ToSet(t)
    <3>1. i - 1 \in 1 .. n - 1 /\ (i - 1) + 1 = i
      BY <1>1, <2>1
    <3>2. t[i - 1] = s[(i - 1) + 1]
      BY <1>1, <3>1
    <3> QED BY <1>2, <3>1, <3>2
  <2>2. ASSUME NEW x \in S, x # Head(s) PROVE x \in ToSet(t)
    <3>1. PICK i \in 1 .. n : x = s[i]
      BY <1>2
    <3> QED BY <1>1, <2>1, <2>2, <3>1
  <2> QED BY <2>2
<1>6. \A i, j \in 1 .. n - 1 : t[i] = t[j] => i = j
  <2> SUFFICES ASSUME NEW i \in 1 .. n - 1, NEW j \in 1 .. n - 1, t[i] = t[j] PROVE i = j
    OBVIOUS
  <2>1. i + 1 = j + 1
    BY <1>1, <1>2, <1>3
  <2> QED BY <2>1
<1>7. Once(t, S \ {Head(s)})
  BY <1>1, <1>4, <1>5, <1>6 DEF Once, Distinct
<1>8. Head(s) \in S /\ Head(s) \in Nat
  BY <1>1, <1>2, <1>3
<1> QED BY <1>7, <1>8 DEF t

LEMMA CountDown ==
  ASSUME NEW m \in Nat
  PROVE  Once([n \in 1 .. m |-> m - n], 0 .. m - 1)
<1> DEFINE s == [n \in 1 .. m |-> m - n]
<1>1. s \in Seq(Nat) /\ Len(s) = m /\ DOMAIN s = 1 .. m /\ \A n \in 1 .. m : s[n] = m - n
  OBVIOUS
<1> HIDE DEF s
<1>2. Distinct(s)
  BY <1>1 DEF Distinct
<1>3. ToSet(s) \subseteq 0 .. m - 1
  BY <1>1 DEF ToSet
<1>4. ASSUME NEW p \in 0 .. m - 1 PROVE p \in ToSet(s)
  <2>1. m - p \in 1 .. m /\ m - (m - p) = p
    OBVIOUS
  <2>2. s[m - p] = p
    BY <1>1, <2>1
  <2> QED BY <1>1, <2>1, <2>2 DEF ToSet
<1> QED BY <1>1, <1>2, <1>3, <1>4 DEF Once, s

----------------------------------------------------------------------------
(* The invariant of mem_init.                                              *)
Early == pc \in {"kern_pgdir", "pages", "envs", "page_init", "check_low", "check_page"}
Tabled == pc \in {"map", "check_all", "done"}

Empty == [d \in Pde |-> NULL]
SelfOnly == [d \in Pde |-> IF d = PDX(UVPT) THEN kern_pgdir ELSE NULL]

(* What boot_alloc has given out once page_init runs: entry_pgdir maps it. *)
Heap ==
  /\ kern_pgdir = kernel_end /\ pages = kernel_end + 1
  /\ envs = pages + PagesSize /\ nextfree = envs + EnvsSize /\ nextfree <= NPTE

Allotted ==
  /\ pc = "kern_pgdir" => nextfree = kernel_end
  /\ pc = "pages" => nextfree = kernel_end + 1 /\ kern_pgdir = kernel_end
  /\ pc = "envs" => /\ kern_pgdir = kernel_end /\ pages = kernel_end + 1
                    /\ nextfree = pages + PagesSize
  /\ pc = "page_init" \/ Listed => Heap

FreePages == (1 .. IOPHYSMEM - 1 \cup nextfree .. npages - 1) \ PageTables

ListInv ==
  /\ nextfree < npages /\ Once(page_free_list, FreePages)
  /\ pp_ref \in [0 .. npages - 1 -> Nat]
  /\ \A p \in 0 .. npages - 1 : pp_ref[p] = 0 <=> p \in FreePages

(* What a virtual page will be mapped to.                                  *)
Entry(frame, perm) == [pa |-> frame, perm |-> perm]
Wanted(v) ==
  IF v >= KERNBASE THEN Entry(0 + (v - KERNBASE), "W")
  ELSE IF v \in KSTACKTOP - KSTKSIZE .. KSTACKTOP - 1
  THEN Entry(bootstack + (v - (KSTACKTOP - KSTKSIZE)), "W")
  ELSE IF v \in UPAGES .. UPAGES + PagesSize - 1 THEN Entry(pages + (v - UPAGES), "U")
  ELSE IF v \in UENVS .. UENVS + EnvsSize - 1 THEN Entry(envs + (v - UENVS), "U")
  ELSE NULL

DirInv ==
  /\ pgdir \in [Pde -> Nat \cup {NULL}] /\ pgdir[PDX(UVPT)] = kern_pgdir
  /\ \A d, e \in Pde : pgdir[d] = pgdir[e] /\ pgdir[d] # NULL => d = e

(* The boot_map_region calls have come by v.                               *)
Covered(v) ==
  \E r \in 1 .. 6 : \E k \in 0 .. Regions[r].size - 1 :
    /\ v = Regions[r].va + k
    /\ r < region \/ (r = region /\ k < page_offset)

PteInv ==
  /\ pte = [v \in VPage |-> pte[v]]
  /\ \A v \in VPage : pte[v] = NULL \/ pte[v] = Wanted(v)
  /\ \A v \in VPage : Covered(v) => pte[v] = Wanted(v)
  /\ region \in 1 .. 7 /\ page_offset \in Nat
  /\ pc # "map" => region = 7

MemInv ==
  /\ npages \in Nat \ {0} /\ kernel_end \in KernelEnds
  /\ pc \in {"kern_pgdir", "pages", "envs", "page_init", "check_low", "check_page",
             "map", "check_all", "done", "panic", "fault"}
  /\ Allotted
  /\ Early => /\ region = 1 /\ page_offset = 0 /\ cr3 = "entry_pgdir"
              /\ pte = [v \in VPage |-> NULL]
              /\ pgdir = IF pc = "kern_pgdir" THEN Empty ELSE SelfOnly
  /\ Listed => ListInv
  /\ Tabled => DirInv /\ PteInv

----------------------------------------------------------------------------
LEMMA Layout ==
  /\ NPTE \in Nat \ {0} /\ IOPHYSMEM \in Nat \ {0} /\ EXTPHYSMEM \in Nat /\ IOPHYSMEM < EXTPHYSMEM
  /\ EnvsSize \in 1 .. NPTE /\ KSTKSIZE \in 1 .. NPTE - 1
  /\ PhysTables * NPTE \in Nat /\ PhysTables * NPTE >= NPTE
  /\ UENVS = 0 /\ UPAGES = NPTE /\ KSTACKTOP = 6 * NPTE /\ KERNBASE = 6 * NPTE
  /\ VPage = 0 .. 6 * NPTE + PhysTables * NPTE - 1
  /\ \A v \in VPage : PDX(v) \in Pde
  /\ PDX(UVPT) \in Pde
<1>1. /\ NPTE \in Nat \ {0} /\ PhysTables \in Nat \ {0} /\ IOPHYSMEM \in Nat \ {0}
      /\ EXTPHYSMEM \in Nat /\ EnvsSize \in 1 .. NPTE /\ KSTKSIZE \in 1 .. NPTE - 1
      /\ IOPHYSMEM < EXTPHYSMEM
  BY MemInitAssumption
<1> DEFINE N == PhysTables * NPTE
<1>2. N \in Nat /\ N >= NPTE
  BY <1>1, MulRange
<1>3. KERNBASE = 6 * NPTE /\ KSTACKTOP = 6 * NPTE /\ UVPT = 2 * NPTE
  BY DEF KERNBASE, KSTACKTOP, UVPT
<1>4. PDX(6 * NPTE) = 6
  <2>1. 6 * NPTE \in Int /\ 6 * NPTE + 0 = 6 * NPTE /\ 0 \in 0 .. NPTE - 1
    BY <1>1
  <2> QED BY <1>1, <2>1, DivUnique, ModRange DEF PDX
<1>5. VPage = 0 .. 6 * NPTE + N - 1 /\ Pde = 0 .. 6 + PhysTables - 1
  BY <1>3, <1>4 DEF VPage, Pde
<1>6. (6 + PhysTables) * NPTE = 6 * NPTE + N
  BY <1>1
<1> HIDE DEF N
<1>7. ASSUME NEW v \in VPage PROVE PDX(v) \in Pde
  <2>1. v \in Nat /\ v < (6 + PhysTables) * NPTE
    BY <1>1, <1>2, <1>5, <1>6
  <2>2. 6 + PhysTables \in Int
    BY <1>1
  <2>3. v \div NPTE \in 0 .. (6 + PhysTables) - 1
    BY <1>1, <2>1, <2>2, DivBelow
  <2> QED BY <1>1, <1>5, <2>3 DEF PDX
<1>8. UVPT \in VPage
  BY <1>1, <1>2, <1>3, <1>5
<1> QED BY <1>1, <1>2, <1>3, <1>5, <1>7, <1>8 DEF UENVS, UPAGES, N

LEMMA RegionsAre ==
  /\ Len(Regions) = 6
  /\ Regions[1] = Region(UPAGES, PagesSize, pages, "U")
  /\ Regions[2] = Region(KERNBASE + pages, PagesSize, pages, "W")
  /\ Regions[3] = Region(UENVS, EnvsSize, envs, "U")
  /\ Regions[4] = Region(KERNBASE + envs, EnvsSize, envs, "W")
  /\ Regions[5] = Region(KSTACKTOP - KSTKSIZE, KSTKSIZE, bootstack, "W")
  /\ Regions[6] = Region(KERNBASE, PhysTables * NPTE, 0, "W")
BY DEF Regions, Stack

LEMMA PagesSizeIs ==
  ASSUME npages \in Nat \ {0}
  PROVE  PagesSize \in Nat \ {0}
<1>1. PagesPerPage \in Nat \ {0}
  BY MemInitAssumption
<1> DEFINE x == npages + PagesPerPage - 1
<1>2. x \in Nat /\ x >= PagesPerPage /\ x \in Int
  BY <1>1
<1> HIDE DEF x
<1>3. x = (x \div PagesPerPage) * PagesPerPage + (x % PagesPerPage) /\ x % PagesPerPage \in 0 .. PagesPerPage - 1
      /\ x \div PagesPerPage \in Int
  BY <1>1, <1>2, ModRange
<1>4. x \div PagesPerPage > 0
  <2> SUFFICES ASSUME x \div PagesPerPage <= 0 PROVE FALSE
    BY <1>3
  <2>1. (x \div PagesPerPage) * PagesPerPage + PagesPerPage <= 1 * PagesPerPage
    BY <1>1, <1>3, MulGap
  <2> DEFINE y == (x \div PagesPerPage) * PagesPerPage
  <2>2. y \in Int
    BY <1>1, <1>3
  <2>3. y + PagesPerPage <= PagesPerPage
    BY <1>1, <2>1
  <2>4. x = y + (x % PagesPerPage)
    BY <1>3
  <2> HIDE DEF y
  <2> QED BY <1>1, <1>2, <1>3, <2>2, <2>3, <2>4
<1> QED BY <1>3, <1>4 DEF PagesSize, x

(* Each call of boot_map_region enters what is wanted, where it is wanted. *)
LEMMA EntryWanted ==
  ASSUME npages \in Nat \ {0}, kernel_end \in KernelEnds, Heap,
         NEW r \in 1 .. 6, NEW k \in 0 .. Regions[r].size - 1
  PROVE  /\ Regions[r].va + k \in VPage
         /\ [pa |-> Regions[r].pa + k, perm |-> Regions[r].perm] = Wanted(Regions[r].va + k)
<1> DEFINE N == PhysTables * NPTE
           E == Regions[r]
           v == E.va + k
<1>1. /\ NPTE \in Nat \ {0} /\ N \in Nat /\ N >= NPTE /\ EnvsSize \in 1 .. NPTE
      /\ KSTKSIZE \in 1 .. NPTE - 1 /\ UENVS = 0 /\ UPAGES = NPTE /\ KSTACKTOP = 6 * NPTE
      /\ KERNBASE = 6 * NPTE /\ VPage = 0 .. 6 * NPTE + N - 1
  BY Layout
<1>2. PagesSize \in Nat \ {0} /\ kernel_end \in Nat /\ bootstack \in Nat
  BY PagesSizeIs, MemInitAssumption DEF bootstack
<1>3. pages \in Nat /\ envs \in Nat /\ pages + PagesSize + EnvsSize <= NPTE /\ envs = pages + PagesSize
  BY <1>1, <1>2 DEF Heap
<1> HIDE DEF N
<1>4. r = 1 \/ r = 2 \/ r = 3 \/ r = 4 \/ r = 5 \/ r = 6
  OBVIOUS
<1>5. CASE r = 1
  <2>1. E.va = UPAGES /\ E.size = PagesSize /\ E.pa = pages /\ E.perm = "U"
    BY <1>5, RegionsAre DEF Region
  <2> HIDE DEF E
  <2>2. k \in Nat /\ k < PagesSize
    BY <1>2, <2>1 DEF E
  <2>3. /\ v \in VPage /\ ~ (v >= KERNBASE) /\ v \notin KSTACKTOP - KSTKSIZE .. KSTACKTOP - 1
        /\ v \in UPAGES .. UPAGES + PagesSize - 1 /\ v - UPAGES = k
    <3>1. v = NPTE + k /\ k < NPTE
      BY <1>1, <1>2, <1>3, <2>1, <2>2
    <3> HIDE DEF v
    <3>2. v \in VPage /\ ~ (v >= KERNBASE) /\ v - UPAGES = k
      BY <1>1, <2>2, <3>1
    <3>3. v \notin KSTACKTOP - KSTKSIZE .. KSTACKTOP - 1
      BY <1>1, <2>2, <3>1
    <3>4. v \in UPAGES .. UPAGES + PagesSize - 1
      BY <1>1, <1>2, <2>2, <3>1
    <3> QED BY <3>2, <3>3, <3>4
  <2> HIDE DEF v
  <2> QED BY <2>1, <2>3 DEF Wanted, Entry, E, v
<1>6. CASE r = 2
  <2>1. E.va = KERNBASE + pages /\ E.size = PagesSize /\ E.pa = pages /\ E.perm = "W"
    BY <1>6, RegionsAre DEF Region
  <2> HIDE DEF E
  <2>2. k \in Nat /\ k < PagesSize
    BY <1>2, <2>1 DEF E
  <2> DEFINE x == pages + k
  <2>3. x \in Nat /\ x < NPTE /\ v = KERNBASE + x
    <3>1. x \in Nat /\ x < NPTE
      BY <1>1, <1>2, <1>3, <2>2
    <3>2. KERNBASE \in Nat /\ v = KERNBASE + pages + k
      BY <1>1, <2>1
    <3>3. KERNBASE + pages + k = KERNBASE + x
      BY <1>3, <2>2, <3>2
    <3> QED BY <3>1, <3>2, <3>3
  <2> HIDE DEF x, v
  <2>4. v \in VPage /\ v >= KERNBASE /\ 0 + (v - KERNBASE) = x
    BY <1>1, <2>3
  <2>5. v \in VPage /\ v >= KERNBASE /\ 0 + (v - KERNBASE) = pages + k
    BY <2>4 DEF x
  <2> HIDE DEF v
  <2> QED BY <2>1, <2>5 DEF Wanted, Entry, E, v
<1>7. CASE r = 3
  <2>1. E.va = UENVS /\ E.size = EnvsSize /\ E.pa = envs /\ E.perm = "U"
    BY <1>7, RegionsAre DEF Region
  <2> HIDE DEF E
  <2>2. k \in Nat /\ k < EnvsSize
    BY <1>1, <2>1 DEF E
  <2>3. /\ v \in VPage /\ ~ (v >= KERNBASE) /\ v \notin KSTACKTOP - KSTKSIZE .. KSTACKTOP - 1
        /\ v \notin UPAGES .. UPAGES + PagesSize - 1
        /\ v \in UENVS .. UENVS + EnvsSize - 1 /\ v - UENVS = k
    <3>1. v = k /\ k < NPTE
      BY <1>1, <1>2, <1>3, <2>1, <2>2
    <3> HIDE DEF v
    <3>2. v \in VPage /\ ~ (v >= KERNBASE) /\ v - UENVS = k
      BY <1>1, <2>2, <3>1
    <3>3. v \notin KSTACKTOP - KSTKSIZE .. KSTACKTOP - 1
      BY <1>1, <2>2, <3>1
    <3>4. v \in UENVS .. UENVS + EnvsSize - 1 /\ v \notin UPAGES .. UPAGES + PagesSize - 1
      BY <1>1, <1>2, <2>2, <3>1
    <3> QED BY <3>2, <3>3, <3>4
  <2> HIDE DEF v
  <2> QED BY <2>1, <2>3 DEF Wanted, Entry, E, v
<1>8. CASE r = 4
  <2>1. E.va = KERNBASE + envs /\ E.size = EnvsSize /\ E.pa = envs /\ E.perm = "W"
    BY <1>8, RegionsAre DEF Region
  <2> HIDE DEF E
  <2>2. k \in Nat /\ k < EnvsSize
    BY <1>1, <2>1 DEF E
  <2>3. v \in VPage /\ v >= KERNBASE /\ 0 + (v - KERNBASE) = envs + k
    BY <1>1, <1>2, <1>3, <2>1, <2>2
  <2> HIDE DEF v
  <2> QED BY <2>1, <2>3 DEF Wanted, Entry, E, v
<1>9. CASE r = 5
  <2>1. E.va = KSTACKTOP - KSTKSIZE /\ E.size = KSTKSIZE /\ E.pa = bootstack /\ E.perm = "W"
    BY <1>9, RegionsAre DEF Region
  <2> HIDE DEF E
  <2>2. k \in Nat /\ k < KSTKSIZE
    BY <1>1, <2>1 DEF E
  <2>3. /\ v \in VPage /\ ~ (v >= KERNBASE) /\ v \in KSTACKTOP - KSTKSIZE .. KSTACKTOP - 1
        /\ v - (KSTACKTOP - KSTKSIZE) = k
    <3>1. v = 6 * NPTE - KSTKSIZE + k
      BY <1>1, <2>1, <2>2
    <3> HIDE DEF v
    <3>2. v \in VPage /\ ~ (v >= KERNBASE)
      BY <1>1, <2>2, <3>1
    <3> QED BY <1>1, <2>2, <3>1, <3>2
  <2> HIDE DEF v
  <2> QED BY <2>1, <2>3 DEF Wanted, Entry, E, v
<1>10. CASE r = 6
  <2>1. E.va = KERNBASE /\ E.size = N /\ E.pa = 0 /\ E.perm = "W"
    BY <1>10, RegionsAre DEF Region, N
  <2> HIDE DEF E
  <2>2. k \in Nat /\ k < N
    BY <1>1, <2>1 DEF E
  <2>3. v \in VPage /\ v >= KERNBASE /\ 0 + (v - KERNBASE) = 0 + k
    BY <1>1, <1>2, <1>3, <2>1, <2>2
  <2> HIDE DEF v
  <2> QED BY <2>1, <2>3 DEF Wanted, Entry, E, v
<1> QED BY <1>4, <1>5, <1>6, <1>7, <1>8, <1>9, <1>10

(* What is wanted can be told from no mapping.                             *)
LEMMA WantedIs ==
  ASSUME NEW a, NEW perm
  PROVE  /\ [pa |-> a, perm |-> perm].pa = a
         /\ a \in Nat /\ perm \in {"U", "W"} => [pa |-> a, perm |-> perm] # NULL
BY MemInitAssumption

----------------------------------------------------------------------------
(* The steps of mem_init.                                                  *)
LEMMA HeapNext ==
  ASSUME UNCHANGED <<memory, heap>>
  PROVE  /\ Heap' <=> Heap
         /\ npages' = npages /\ kernel_end' = kernel_end /\ nextfree' = nextfree
         /\ kern_pgdir' = kern_pgdir /\ envs' = envs
         /\ Regions' = Regions /\ \A v : Wanted(v)' = Wanted(v)
BY DEF memory, heap, Heap, PagesSize, Regions, Stack, Region, bootstack, Wanted, Entry

LEMMA FreePagesNext ==
  ASSUME UNCHANGED <<memory, heap, pgdir>>
  PROVE  FreePages' = FreePages
BY DEF memory, heap, FreePages, PageTables

(* A list that holds the same pages is as good.                            *)
LEMMA ListNext ==
  ASSUME ListInv, UNCHANGED <<memory, heap, pgdir, pp_ref>>, Once(page_free_list', FreePages)
  PROVE  ListInv'
<1>1. FreePages' = FreePages /\ npages' = npages /\ nextfree' = nextfree /\ pp_ref' = pp_ref
  BY HeapNext, FreePagesNext
<1>2. Once(page_free_list', FreePages')
  BY <1>1
<1> QED BY <1>1, <1>2 DEF ListInv, Once, Distinct, ToSet, FreePages, PageTables

(* A list of at least three pages, the three first in another order.       *)
LEMMA FirstThree ==
  ASSUME NEW s, NEW S, Once(s, S), 3 <= Len(s)
  PROVE  /\ Once(Reverse(SubSeq(s, 1, 3)) \o SubSeq(s, 4, Len(s)), S)
         /\ Once(<<s[1], s[3], s[2]>> \o SubSeq(s, 4, Len(s)), S)
<1> DEFINE n == Len(s)
           b == SubSeq(s, 4, n)
<1>1. s \in Seq(Nat) /\ n \in Nat /\ 3 <= n /\ \A i \in 1 .. n : s[i] \in Nat
  BY ElementsAre DEF Once
<1>2. b \in Seq(Nat) /\ Len(b) = n - 3 /\ \A i \in 1 .. n - 3 : b[i] = s[i + 3]
  <2>1. \A i \in 4 .. n : s[i] \in Nat
    BY <1>1
  <2>2. b \in Seq(Nat) /\ Len(b) = IF 4 <= n THEN n - 4 + 1 ELSE 0
    BY <1>1, <2>1, SubSeqProperties
  <2>3. \A i \in 1 .. n - 4 + 1 : b[i] = s[4 + i - 1]
    BY <1>1, <2>1, SubSeqProperties
  <2> HIDE DEF b
  <2>4. Len(b) = n - 3
    <3>1. n \in Nat /\ 3 <= n
      BY <1>1
    <3> HIDE DEF n
    <3>2. (IF 4 <= n THEN n - 4 + 1 ELSE 0) = n - 3
      <4>1. ~ (4 <= n) => n = 3
        BY <3>1
      <4>2. 4 <= n => n - 4 + 1 = n - 3
        BY <3>1
      <4>3. n = 3 => n - 3 = 0
        BY <3>1
      <4> QED BY <4>1, <4>2, <4>3
    <3> QED BY <2>2, <3>2
  <2>5. ASSUME NEW i \in 1 .. n - 3 PROVE b[i] = s[i + 3]
    <3>1. i \in 1 .. n - 4 + 1 /\ 4 + i - 1 = i + 3
      BY <1>1
    <3>2. b[i] = s[4 + i - 1]
      BY <2>3, <3>1
    <3> QED BY <3>1, <3>2
  <2> QED BY <2>2, <2>4, <2>5
<1> HIDE DEF b, n
<1>3. ASSUME NEW a \in Seq(Nat), Len(a) = 3
      PROVE  /\ a \o b \in Seq(Nat) /\ Len(a \o b) = n
             /\ \A i \in 1 .. n : (a \o b)[i] = IF i <= 3 THEN a[i] ELSE s[i]
  <2>0. /\ a \o b \in Seq(Nat) /\ Len(a \o b) = Len(a) + Len(b)
        /\ \A i \in 1 .. Len(a) + Len(b) : (a \o b)[i] = IF i <= Len(a) THEN a[i] ELSE b[i - Len(a)]
    BY <1>2, ConcatProperties
  <2>1. a \o b \in Seq(Nat) /\ Len(a \o b) = 3 + (n - 3)
    BY <1>2, <1>3, <2>0
  <2>2. \A i \in 1 .. 3 + (n - 3) : (a \o b)[i] = IF i <= 3 THEN a[i] ELSE b[i - 3]
    BY <1>2, <1>3, <2>0
  <2>3. 3 + (n - 3) = n /\ \A i \in 1 .. n : ~ (i <= 3) => i - 3 \in 1 .. n - 3 /\ (i - 3) + 3 = i
    BY <1>1
  <2>4. ASSUME NEW i \in 1 .. n, ~ (i <= 3) PROVE b[i - 3] = s[i]
    <3>1. b[i - 3] = s[(i - 3) + 3]
      BY <1>2, <2>3, <2>4
    <3> QED BY <2>3, <2>4, <3>1
  <2> QED BY <2>1, <2>2, <2>3, <2>4
<1>4. ASSUME NEW f, \A i \in 1 .. n : f[i] \in 1 .. n /\ f[f[i]] = i,
             NEW a \in Seq(Nat), Len(a) = 3,
             \A i \in 1 .. n : IF i <= 3 THEN a[i] = s[f[i]] ELSE f[i] = i
      PROVE  Once(a \o b, S)
  <2> DEFINE t == a \o b
  <2>1. t \in Seq(Nat) /\ Len(t) = n /\ \A i \in 1 .. n : t[i] = IF i <= 3 THEN a[i] ELSE s[i]
    BY <1>3, <1>4
  <2> HIDE DEF t
  <2>2. \A i \in 1 .. n : t[i] = s[f[i]]
    BY <1>4, <2>1
  <2>3. t \in Seq(Nat) /\ Len(t) = Len(s)
    BY <2>1 DEF n
  <2>4. \A i \in 1 .. Len(s) : f[i] \in 1 .. Len(s) /\ f[f[i]] = i /\ t[i] = s[f[i]]
    BY <1>4, <2>2 DEF n
  <2>5. Once(t, S)
    BY <2>3, <2>4, Exchanged
  <2> QED BY <2>5 DEF t
<1>5. Once(Reverse(SubSeq(s, 1, 3)) \o b, S)
  <2> DEFINE c == SubSeq(s, 1, 3)
             a == Reverse(c)
             f == [i \in 1 .. n |-> IF i <= 3 THEN 4 - i ELSE i]
  <2>1. Len(c) = 3 /\ c[1] = s[1] /\ c[2] = s[2] /\ c[3] = s[3]
    <3>1. \A i \in 1 .. 3 : s[i] \in Nat
      BY <1>1
    <3>2. Len(c) = 3
      BY <3>1, SubSeqProperties
    <3>3. \A i \in 1 .. 3 : c[i] = s[1 + i - 1]
      BY <3>1, SubSeqProperties
    <3> HIDE DEF c
    <3> QED BY <3>2, <3>3
  <2>2. a = [i \in 1 .. 3 |-> c[(3 - i) + 1]]
    <3> HIDE DEF c
    <3> QED BY <2>1 DEF Reverse
  <2>3. a \in Seq(Nat) /\ Len(a) = 3 /\ a[1] = s[3] /\ a[2] = s[2] /\ a[3] = s[1]
    <3>1. s[1] \in Nat /\ s[2] \in Nat /\ s[3] \in Nat
      BY <1>1
    <3> HIDE DEF a, c
    <3>2. DOMAIN a = 1 .. 3 /\ a[1] = c[3] /\ a[2] = c[2] /\ a[3] = c[1]
      BY <2>2
    <3>3. a \in [1 .. 3 -> Nat]
      BY <2>1, <2>2, <3>1, <3>2
    <3>4. a \in Seq(Nat) /\ Len(a) = 3
      <4> DEFINE m == 3
      <4>1. m \in Nat /\ a \in [1 .. m -> Nat]
        BY <3>3
      <4> HIDE DEF m
      <4>2. a \in Seq(Nat) /\ Len(a) = m
        BY <4>1
      <4> QED BY <4>2 DEF m
    <3> QED BY <2>1, <3>2, <3>4
  <2>4. \A i \in 1 .. n : f[i] \in 1 .. n /\ f[f[i]] = i
    BY <1>1
  <2>5. \A i \in 1 .. n : IF i <= 3 THEN a[i] = s[f[i]] ELSE f[i] = i
    <3> HIDE DEF a
    <3>1. f[1] = 3 /\ f[2] = 2 /\ f[3] = 1
      BY <1>1
    <3>2. \A i \in 1 .. n : i = 1 \/ i = 2 \/ i = 3 \/ (~ (i <= 3) /\ f[i] = i)
      BY <1>1
    <3> HIDE DEF f
    <3> QED BY <2>3, <3>1, <3>2
  <2> HIDE DEF a, f
  <2>6. Once(a \o b, S)
    BY <1>4, <2>3, <2>4, <2>5
  <2> QED BY <2>6 DEF a
<1>6. Once(<<s[1], s[3], s[2]>> \o b, S)
  <2> DEFINE a == <<s[1], s[3], s[2]>>
             f == [i \in 1 .. n |-> CASE i = 2 -> 3 [] i = 3 -> 2 [] OTHER -> i]
  <2>1. a \in Seq(Nat) /\ Len(a) = 3 /\ a[1] = s[1] /\ a[2] = s[3] /\ a[3] = s[2]
    <3>1. s[1] \in Nat /\ s[2] \in Nat /\ s[3] \in Nat
      BY <1>1
    <3> QED BY <3>1
  <2>2. f[1] = 1 /\ f[2] = 3 /\ f[3] = 2 /\ \A i \in 1 .. n : i # 2 /\ i # 3 => f[i] = i
    BY <1>1
  <2> HIDE DEF a, f
  <2>3. 1 \in 1 .. n /\ 2 \in 1 .. n /\ 3 \in 1 .. n
    BY <1>1
  <2>4. \A i \in 1 .. n : f[i] \in 1 .. n /\ f[f[i]] = i
    BY <2>2, <2>3
  <2>5. \A i \in 1 .. n : IF i <= 3 THEN a[i] = s[f[i]] ELSE f[i] = i
    <3>1. \A i \in 1 .. n : i = 1 \/ i = 2 \/ i = 3 \/ (~ (i <= 3) /\ i # 2 /\ i # 3)
      BY <1>1
    <3> QED BY <2>1, <2>2, <3>1
  <2>6. Once(a \o b, S)
    BY <1>4, <2>1, <2>4, <2>5
  <2> QED BY <2>6 DEF a
<1> QED BY <1>5, <1>6 DEF b, n

LEMMA MemStarts == Init => MemInv
<1> SUFFICES ASSUME Init PROVE MemInv
  OBVIOUS
<1>1. npages \in Nat \ {0}
  <2>1. PICK ext \in Ext : npages = IF ext > 0 THEN EXTPHYSMEM + ext ELSE npages_basemem
    BY DEF Init
  <2>2. ext \in Nat /\ EXTPHYSMEM \in Nat /\ npages_basemem \in Nat \ {0}
    <3>1. Base \subseteq 1 .. IOPHYSMEM /\ IOPHYSMEM \in Nat /\ Ext \subseteq Nat
      BY MemInitAssumption
    <3> QED BY <3>1, Layout DEF Init
  <2>3. CASE ext > 0
    BY <2>1, <2>2, <2>3
  <2>4. CASE ~ (ext > 0)
    BY <2>1, <2>2, <2>4
  <2> QED BY <2>3, <2>4
<1>2. Allotted
  BY DEF Init, Allotted, Listed
<1> QED BY <1>1, <1>2 DEF Init, MemInv, Early, Listed, Tabled, Empty

(* boot_alloc.                                                             *)
LEMMA BootAllocSteps ==
  ASSUME MemInv, create_pgdir \/ create_pages \/ create_envs
  PROVE  MemInv'
<1>1. /\ npages \in Nat \ {0} /\ kernel_end \in KernelEnds /\ kernel_end \in Nat
      /\ PagesSize \in Nat \ {0} /\ PDX(UVPT) \in Pde /\ EnvsSize \in 1 .. NPTE /\ NPTE \in Nat
  BY PagesSizeIs, Layout, MemInitAssumption DEF MemInv
<1>2. CASE create_pgdir
  <2>1. /\ nextfree = kernel_end /\ region = 1 /\ page_offset = 0 /\ cr3 = "entry_pgdir"
        /\ pte = [v \in VPage |-> NULL] /\ pgdir = Empty
    BY <1>2 DEF create_pgdir, MemInv, Allotted, Early
  <2>2. /\ UNCHANGED <<npages, kernel_end, pte, cr3, region, page_offset>> /\ pc' = "pages"
        /\ nextfree' = nextfree + 1 /\ kern_pgdir' = nextfree
        /\ pgdir' = [pgdir EXCEPT ![PDX(UVPT)] = nextfree]
    BY <1>2 DEF create_pgdir, boot_alloc, memory
  <2>3. SelfOnly' = [d \in Pde |-> IF d = PDX(UVPT) THEN nextfree ELSE NULL]
    BY <2>2 DEF SelfOnly
  <2>4. pgdir' = SelfOnly'
    BY <2>1, <2>2, <2>3 DEF Empty
  <2> QED BY <1>1, <2>1, <2>2, <2>4 DEF MemInv, Allotted, Early, Listed, Tabled
<1>3. CASE create_pages
  <2>1. /\ nextfree = kernel_end + 1 /\ kern_pgdir = kernel_end
        /\ region = 1 /\ page_offset = 0 /\ cr3 = "entry_pgdir"
        /\ pte = [v \in VPage |-> NULL] /\ pgdir = SelfOnly
    BY <1>3 DEF create_pages, MemInv, Allotted, Early
  <2>2. /\ UNCHANGED <<npages, kernel_end, pte, cr3, region, page_offset, kern_pgdir, pgdir>>
        /\ pc' = "envs" /\ nextfree' = nextfree + PagesSize /\ pages' = nextfree
    BY <1>3 DEF create_pages, boot_alloc, memory
  <2>3. SelfOnly' = SelfOnly /\ PagesSize' = PagesSize
    BY <2>2 DEF SelfOnly, PagesSize
  <2> QED BY <1>1, <2>1, <2>2, <2>3 DEF MemInv, Allotted, Early, Listed, Tabled
<1>4. CASE create_envs
  <2>1. /\ kern_pgdir = kernel_end /\ pages = kernel_end + 1 /\ nextfree = pages + PagesSize
        /\ region = 1 /\ page_offset = 0 /\ cr3 = "entry_pgdir"
        /\ pte = [v \in VPage |-> NULL] /\ pgdir = SelfOnly
    BY <1>4 DEF create_envs, MemInv, Allotted, Early
  <2>2. /\ UNCHANGED <<npages, kernel_end, pte, cr3, region, page_offset, kern_pgdir, pages, pgdir>>
        /\ pc' = "page_init" /\ nextfree' = nextfree + EnvsSize /\ envs' = nextfree
        /\ \A p \in nextfree .. nextfree + EnvsSize - 1 : Reachable(p)
    BY <1>4 DEF create_envs, boot_alloc, memory
  <2>3. SelfOnly' = SelfOnly /\ PagesSize' = PagesSize
    BY <2>2 DEF SelfOnly, PagesSize
  <2>4. nextfree + EnvsSize <= NPTE
    <3> DEFINE p == nextfree + EnvsSize - 1
    <3>1. nextfree \in Nat /\ p \in nextfree .. nextfree + EnvsSize - 1
      BY <1>1, <2>1
    <3>2. p \in 0 .. NPTE - 1
      <4>1. Reachable(p)
        <5> HIDE DEF p
        <5> QED BY <2>2, <3>1
      <4> HIDE DEF p
      <4> QED BY <2>1, <4>1 DEF Reachable, entry_pgtable
    <3> QED BY <1>1, <3>1, <3>2
  <2>5. Heap'
    BY <2>1, <2>2, <2>3, <2>4 DEF Heap
  <2> QED BY <1>1, <2>1, <2>2, <2>3, <2>5 DEF MemInv, Allotted, Early, Listed, Tabled
<1> QED BY <1>2, <1>3, <1>4

LEMMA StopSteps ==
  ASSUME MemInv, boot_alloc_fails \/ boot_memory_unmapped \/ map_page_fails
  PROVE  MemInv'
<1>1. UNCHANGED <<npages, kernel_end>> /\ pc' \in {"panic", "fault"}
  BY DEF boot_alloc_fails, boot_memory_unmapped, map_page_fails, Stops, memory
<1> QED BY <1>1 DEF MemInv, Allotted, Early, Listed, Tabled

(* page_init: what is not in use is on the list, with no reference.        *)
LEMMA PageInitStep ==
  ASSUME MemInv, page_init
  PROVE  MemInv'
<1>1. /\ npages \in Nat \ {0} /\ kernel_end \in KernelEnds /\ Heap
      /\ region = 1 /\ page_offset = 0 /\ cr3 = "entry_pgdir"
      /\ pte = [v \in VPage |-> NULL] /\ pgdir = SelfOnly
  BY DEF page_init, MemInv, Allotted, Early
<1>2. /\ UNCHANGED <<memory, heap, tables, cr3, region, page_offset>> /\ pc' = "check_low"
      /\ ~ OutOfMemory
  BY DEF page_init
<1>3. /\ kernel_end \in Nat /\ kernel_end > EXTPHYSMEM /\ PagesSize \in Nat \ {0}
      /\ EnvsSize \in 1 .. NPTE /\ NPTE \in Nat /\ IOPHYSMEM \in Nat \ {0} /\ EXTPHYSMEM \in Nat
      /\ IOPHYSMEM < EXTPHYSMEM
  <2>1. kernel_end \in Nat /\ kernel_end - KSTKSIZE > EXTPHYSMEM /\ KSTKSIZE \in Nat
    BY <1>1, MemInitAssumption
  <2> QED BY <1>1, <2>1, PagesSizeIs, Layout
<1>4. nextfree \in Nat /\ nextfree > EXTPHYSMEM /\ nextfree < npages
  BY <1>1, <1>2, <1>3 DEF Heap, OutOfMemory
<1>5. PageTables = {}
  BY <1>1 DEF PageTables, SelfOnly
<1> DEFINE Free == {p \in 0 .. npages - 1 : ~ InUse(p)}
<1>6. FreePages = Free
  <2>1. FreePages = 1 .. IOPHYSMEM - 1 \cup nextfree .. npages - 1
    BY <1>5 DEF FreePages
  <2>2. ASSUME NEW p PROVE p \in 1 .. IOPHYSMEM - 1 \cup nextfree .. npages - 1 <=> p \in Free
    <3>1. p \in 1 .. IOPHYSMEM - 1 \cup nextfree .. npages - 1 => p \in 0 .. npages - 1 /\ ~ InUse(p)
      BY <1>1, <1>3, <1>4 DEF InUse
    <3>2. ASSUME p \in 0 .. npages - 1, ~ InUse(p)
          PROVE  p \in 1 .. IOPHYSMEM - 1 \cup nextfree .. npages - 1
      BY <1>1, <1>3, <1>4, <3>2 DEF InUse
    <3> QED BY <3>1, <3>2
  <2> QED BY <2>1, <2>2
<1> DEFINE all == [n \in 1 .. npages |-> npages - n]
<1>7. page_free_list' = Kept(all, Free)
      /\ pp_ref' = [p \in 0 .. npages - 1 |-> IF InUse(p) THEN 1 ELSE 0]
  BY DEF page_init
<1>8. Once(all, 0 .. npages - 1)
  BY <1>1, CountDown
<1> HIDE DEF all
<1>9. Once(page_free_list', Free)
  <2> DEFINE F == Free
  <2>1. page_free_list' = Kept(all, F) /\ F \subseteq 0 .. npages - 1
    BY <1>7
  <2> HIDE DEF F
  <2>2. all \in Seq(Nat) /\ Distinct(all) /\ ToSet(all) = 0 .. npages - 1
    BY <1>8 DEF Once
  <2>3. LET u == Kept(all, F) IN u \in Seq(Nat) /\ Distinct(u) /\ ToSet(u) = ToSet(all) \cap F
    BY <2>2, KeptIs
  <2>4. Once(page_free_list', F)
    BY <2>1, <2>2, <2>3 DEF Once
  <2> QED BY <2>4 DEF F
<1>10. FreePages' = FreePages /\ npages' = npages /\ nextfree' = nextfree /\ kernel_end' = kernel_end
  BY <1>2, HeapNext, FreePagesNext DEF tables
<1>11. ListInv'
  <2>1. Once(page_free_list', FreePages')
    BY <1>6, <1>9, <1>10
  <2>2. pp_ref' \in [0 .. npages' - 1 -> Nat]
    BY <1>7, <1>10
  <2>3. \A p \in 0 .. npages' - 1 : pp_ref'[p] = 0 <=> p \in FreePages'
    BY <1>6, <1>7, <1>10
  <2>4. nextfree' < npages'
    BY <1>4, <1>10
  <2> QED BY <2>1, <2>2, <2>3, <2>4 DEF ListInv, Once, Distinct, ToSet, FreePages, PageTables
<1>12. Heap' /\ SelfOnly' = SelfOnly
  BY <1>1, <1>2, HeapNext DEF SelfOnly
<1> QED BY <1>1, <1>2, <1>10, <1>11, <1>12 DEF MemInv, Allotted, Early, Listed, Tabled, tables

LEMMA LowFirstIs ==
  ASSUME NEW s, NEW S, Once(s, S)
  PROVE  Once(LowFirst(s), S)
<1> DEFINE A == Low(s)
           B == ToSet(s) \ Low(s)
<1>1. s \in Seq(Nat) /\ Distinct(s) /\ ToSet(s) = S /\ A \subseteq S
  BY DEF Once, Low
<1> HIDE DEF A
<1>2. Once(Kept(s, A), A)
  <2>1. LET u == Kept(s, A) IN u \in Seq(Nat) /\ Distinct(u) /\ ToSet(u) = ToSet(s) \cap A
    BY <1>1, KeptIs
  <2> QED BY <1>1, <2>1 DEF Once
<1>3. B = S \ A
  BY <1>1 DEF A
<1> HIDE DEF B
<1>4. Once(Kept(s, B), B)
  <2>1. LET u == Kept(s, B) IN u \in Seq(Nat) /\ Distinct(u) /\ ToSet(u) = ToSet(s) \cap B
    BY <1>1, KeptIs
  <2> QED BY <1>1, <1>3, <2>1 DEF Once
<1>5. A \cap B = {} /\ A \cup B = S
  BY <1>1, <1>3
<1>6. Once(Kept(s, A) \o Kept(s, B), A \cup B)
  BY <1>2, <1>4, <1>5, Joined
<1> QED BY <1>5, <1>6 DEF LowFirst, A, B

(* The self-tests leave the list as it is or in another order.             *)
LEMMA CheckLowStep ==
  ASSUME MemInv, check_page_free_list_low
  PROVE  MemInv'
<1>1. /\ npages \in Nat \ {0} /\ kernel_end \in KernelEnds /\ Heap /\ ListInv
      /\ region = 1 /\ page_offset = 0 /\ cr3 = "entry_pgdir"
      /\ pte = [v \in VPage |-> NULL] /\ pgdir = SelfOnly
  BY DEF check_page_free_list_low, MemInv, Allotted, Early, Listed
<1>2. /\ UNCHANGED <<memory, heap, pp_ref, tables, cr3, region, page_offset>>
      /\ \/ page_free_list' = LowFirst(page_free_list) /\ pc' = "check_page"
         \/ pc' = "panic"
  BY DEF check_page_free_list_low
<1>3. npages' = npages /\ kernel_end' = kernel_end /\ Heap' /\ SelfOnly' = SelfOnly
  BY <1>1, <1>2, HeapNext DEF SelfOnly
<1>4. CASE pc' = "panic"
  BY <1>1, <1>3, <1>4 DEF MemInv, Allotted, Early, Listed, Tabled
<1>5. CASE page_free_list' = LowFirst(page_free_list) /\ pc' = "check_page"
  <2>1. Once(page_free_list', FreePages)
    BY <1>1, <1>5, LowFirstIs DEF ListInv
  <2>2. ListInv'
    BY <1>1, <1>2, <2>1, ListNext DEF tables
  <2> QED BY <1>1, <1>2, <1>3, <1>5, <2>2 DEF MemInv, Allotted, Early, Listed, Tabled, tables
<1> QED BY <1>2, <1>4, <1>5

LEMMA CheckPageStep ==
  ASSUME MemInv, check_page
  PROVE  MemInv'
<1>1. /\ npages \in Nat \ {0} /\ kernel_end \in KernelEnds /\ Heap /\ ListInv
      /\ region = 1 /\ page_offset = 0
      /\ pte = [v \in VPage |-> NULL] /\ pgdir = SelfOnly
  BY DEF check_page, MemInv, Allotted, Early, Listed
<1>2. /\ UNCHANGED <<memory, heap, pp_ref, tables, region, page_offset>>
      /\ \/ pc' \in {"panic", "fault"}
         \/ /\ ~ (Len(page_free_list) < 3) /\ pc' = "map"
            /\ page_free_list' = Reverse(SubSeq(page_free_list, 1, 3)) \o
                                 SubSeq(page_free_list, 4, Len(page_free_list))
  BY DEF check_page
<1>3. npages' = npages /\ kernel_end' = kernel_end /\ Heap'
  BY <1>1, <1>2, HeapNext
<1>4. CASE pc' \in {"panic", "fault"}
  BY <1>1, <1>3, <1>4 DEF MemInv, Allotted, Early, Listed, Tabled
<1>5. CASE pc' \notin {"panic", "fault"}
  <2>1. Len(page_free_list) \in Nat
    BY <1>1, ElementsAre DEF ListInv, Once
  <2>2. 3 <= Len(page_free_list)
    <3>1. ~ (Len(page_free_list) < 3)
      BY <1>2, <1>5
    <3> QED BY <2>1, <3>1
  <2>3. Once(page_free_list', FreePages)
    BY <1>1, <1>2, <1>5, <2>2, FirstThree DEF ListInv
  <2>4. ListInv'
    BY <1>1, <1>2, <2>3, ListNext DEF tables
  <2>5. kern_pgdir \in Nat /\ PDX(UVPT) \in Pde
    BY <1>1, MemInitAssumption, Layout DEF Heap
  <2>6. /\ pgdir \in [Pde -> Nat \cup {NULL}] /\ pgdir[PDX(UVPT)] = kern_pgdir
        /\ \A d, e \in Pde : pgdir[d] = pgdir[e] /\ pgdir[d] # NULL => d = e
    BY <1>1, <2>5 DEF SelfOnly
  <2>7. pte = [v \in VPage |-> pte[v]] /\ \A v \in VPage : pte[v] = NULL
    BY <1>1
  <2>8. /\ pgdir' = pgdir /\ pte' = pte /\ kern_pgdir' = kern_pgdir
        /\ region' = 1 /\ page_offset' = 0 /\ pc' = "map"
    BY <1>1, <1>2, <1>5 DEF tables, heap
  <2>9. DirInv' /\ PteInv'
    <3>1. \A r \in 1 .. 6 : ~ (r < 1) /\ \A k \in 0 .. Regions'[r].size - 1 : ~ (k < 0)
      OBVIOUS
    <3>2. ~ \E v : Covered(v)'
      BY <2>8, <3>1 DEF Covered
    <3>3. DirInv'
      BY <2>6, <2>8 DEF DirInv
    <3>4. PteInv'
      BY <2>7, <2>8, <3>2 DEF PteInv
    <3> QED BY <3>3, <3>4
  <2> QED BY <1>1, <1>3, <2>4, <2>8, <2>9 DEF MemInv, Allotted, Early, Listed, Tabled
<1> QED BY <1>4, <1>5

LEMMA RegionSizes ==
  ASSUME npages \in Nat \ {0}, NEW r \in 1 .. 6
  PROVE  Regions[r].size \in Nat
<1>1. PagesSize \in Nat /\ EnvsSize \in Nat /\ KSTKSIZE \in Nat /\ PhysTables * NPTE \in Nat
  BY PagesSizeIs, Layout
<1>2. r = 1 \/ r = 2 \/ r = 3 \/ r = 4 \/ r = 5 \/ r = 6
  OBVIOUS
<1> QED BY <1>1, <1>2, RegionsAre DEF Region

LEMMA CoveredNext ==
  ASSUME UNCHANGED <<memory, heap>>, NEW v
  PROVE  Covered(v)' <=> \E r \in 1 .. 6 : \E k \in 0 .. Regions[r].size - 1 :
                           /\ v = Regions[r].va + k
                           /\ r < region' \/ (r = region' /\ k < page_offset')
<1>1. Regions' = Regions
  BY HeapNext
<1> QED BY <1>1 DEF Covered

LEMMA CoveredSame ==
  ASSUME UNCHANGED <<memory, heap, region, page_offset>>, NEW v
  PROVE  Covered(v)' <=> Covered(v)
<1>1. Regions' = Regions /\ region' = region /\ page_offset' = page_offset
  BY HeapNext
<1> QED BY <1>1 DEF Covered

LEMMA EnterStep ==
  ASSUME MemInv, Mapping, page_offset < R.size, Enter(va_local),
         page_offset' = page_offset + 1, UNCHANGED <<memory, heap, region, pc>>
  PROVE  PteInv'
<1> DEFINE o == page_offset
           v == va_local
<1>1. /\ npages \in Nat \ {0} /\ kernel_end \in KernelEnds /\ Heap /\ PteInv /\ pc = "map"
  BY DEF Mapping, MemInv, Allotted, Listed, Tabled
<1>2. region \in 1 .. 6 /\ o \in Nat
  BY <1>1, RegionsAre DEF Mapping, PteInv
<1>3. R = Regions[region] /\ Regions[region].size \in Nat
  BY <1>1, <1>2, RegionSizes DEF R
<1>4. o \in 0 .. Regions[region].size - 1
  BY <1>2, <1>3
<1>5. v = Regions[region].va + o
  BY <1>3 DEF va_local
<1>6. v \in VPage /\ [pa |-> R.pa + o, perm |-> R.perm] = Wanted(v)
  <2>1. /\ Regions[region].va + o \in VPage
        /\ [pa |-> Regions[region].pa + o, perm |-> Regions[region].perm] = Wanted(Regions[region].va + o)
    BY <1>1, <1>2, <1>4, EntryWanted
  <2> QED BY <1>3, <1>5, <2>1
<1>7. pte' = [pte EXCEPT ![v] = Wanted(v)]
  BY <1>6 DEF Enter
<1> HIDE DEF o, v
<1>8. ASSUME NEW w \in VPage, Covered(w)' PROVE Covered(w) \/ w = v
  <2>0. PICK r \in 1 .. 6 : \E k \in 0 .. Regions[r].size - 1 :
          /\ w = Regions[r].va + k
          /\ r < region' \/ (r = region' /\ k < page_offset')
    BY <1>8, CoveredNext
  <2>1. PICK k \in 0 .. Regions[r].size - 1 :
          /\ w = Regions[r].va + k
          /\ r < region' \/ (r = region' /\ k < page_offset')
    BY <2>0
  <2>2. region' = region /\ page_offset' = o + 1
    BY DEF o
  <2>3. CASE r < region \/ (r = region /\ k < o)
    BY <2>1, <2>3 DEF Covered, o
  <2>4. CASE r = region /\ ~ (k < o)
    <3>1. k = o
      BY <1>2, <1>3, <2>1, <2>2, <2>4
    <3> QED BY <1>5, <2>1, <2>4, <3>1
  <2> QED BY <2>1, <2>2, <2>3, <2>4
<1>9. ASSUME NEW w \in VPage
      PROVE  /\ pte'[w] = NULL \/ pte'[w] = Wanted(w)
             /\ Covered(w)' => pte'[w] = Wanted(w)
  <2>1. pte'[w] = IF w = v THEN Wanted(v) ELSE pte[w]
    BY <1>1, <1>7 DEF PteInv
  <2> QED BY <1>1, <1>8, <2>1 DEF PteInv
<1>10. /\ pte' = [w \in VPage |-> pte'[w]] /\ region' = region /\ pc' = pc
       /\ page_offset' \in Nat
  BY <1>1, <1>2, <1>7 DEF PteInv, o
<1>11. \A w : Wanted(w)' = Wanted(w)
  BY HeapNext
<1> QED BY <1>1, <1>2, <1>9, <1>10, <1>11 DEF PteInv

LEMMA MapPageStep ==
  ASSUME MemInv, map_page
  PROVE  MemInv'
<1>1. /\ npages \in Nat \ {0} /\ kernel_end \in KernelEnds /\ Heap /\ ListInv /\ DirInv
      /\ pc = "map"
  BY DEF map_page, Mapping, MemInv, Allotted, Listed, Tabled
<1>2. UNCHANGED <<memory, heap, lists, pgdir, cr3, region, pc>>
  BY DEF map_page
<1>3. PteInv'
  BY <1>2, EnterStep DEF map_page
<1>4. npages' = npages /\ kernel_end' = kernel_end /\ Heap'
  BY <1>1, <1>2, HeapNext
<1>5. ListInv'
  <2>1. Once(page_free_list', FreePages)
    BY <1>1, <1>2 DEF ListInv, lists
  <2> QED BY <1>1, <1>2, <2>1, ListNext DEF lists
<1>6. DirInv'
  BY <1>1, <1>2 DEF DirInv, heap
<1> QED BY <1>1, <1>2, <1>3, <1>4, <1>5, <1>6 DEF MemInv, Allotted, Early, Listed, Tabled

(* A page that becomes a table leaves the list and gets a reference.       *)
LEMMA NewTableStep ==
  ASSUME MemInv, map_page_new_table
  PROVE  MemInv'
<1> DEFINE h == Head(page_free_list)
           d == PDX(va_local)
<1>1. /\ npages \in Nat \ {0} /\ kernel_end \in KernelEnds /\ Heap /\ ListInv /\ DirInv /\ PteInv
      /\ pc = "map"
  BY DEF map_page_new_table, NoTable, Mapping, MemInv, Allotted, Listed, Tabled
<1>2. /\ UNCHANGED <<memory, heap, cr3, region, pc>> /\ page_free_list # <<>>
      /\ page_free_list' = Tail(page_free_list)
      /\ pp_ref' = [pp_ref EXCEPT ![h] = @ + 1] /\ pgdir' = [pgdir EXCEPT ![d] = h]
      /\ Mapping /\ page_offset < R.size /\ pgdir[d] = NULL
  BY DEF map_page_new_table, NoTable
<1>3. PteInv'
  BY <1>2, EnterStep DEF map_page_new_table
<1>4. npages' = npages /\ kernel_end' = kernel_end /\ Heap' /\ nextfree' = nextfree /\ kern_pgdir' = kern_pgdir
  BY <1>1, <1>2, HeapNext
<1>5. d \in Pde
  <2>1. region \in 1 .. 6 /\ page_offset \in Nat
    BY <1>1, <1>2, RegionsAre DEF Mapping, PteInv
  <2>2. R = Regions[region] /\ Regions[region].size \in Nat
    BY <1>1, <2>1, RegionSizes DEF R
  <2>3. page_offset \in 0 .. Regions[region].size - 1
    BY <1>2, <2>1, <2>2
  <2>4. Regions[region].va + page_offset \in VPage
    BY <1>1, <2>1, <2>3, EntryWanted
  <2>5. va_local \in VPage
    BY <2>2, <2>4 DEF va_local
  <2> QED BY <2>5, Layout
<1> HIDE DEF h, d
<1>6. /\ Once(page_free_list', FreePages \ {h}) /\ h \in FreePages /\ h \in Nat
  BY <1>1, <1>2, WithoutFirst DEF ListInv, h
<1>7. /\ h # NULL /\ h # kern_pgdir /\ h \notin PageTables /\ h \in 0 .. npages - 1
  <2>1. kern_pgdir = kernel_end /\ kernel_end \in Nat /\ kernel_end > EXTPHYSMEM /\ nextfree > kernel_end
        /\ nextfree \in Nat
    <3>1. kernel_end \in Nat /\ kernel_end - KSTKSIZE > EXTPHYSMEM /\ KSTKSIZE \in Nat
      BY <1>1, MemInitAssumption
    <3> QED BY <1>1, <3>1, PagesSizeIs, Layout DEF Heap
  <2>2. h \in 1 .. IOPHYSMEM - 1 \cup nextfree .. npages - 1 /\ h \notin PageTables
    BY <1>6 DEF FreePages
  <2>3. NULL \notin Nat
    BY MemInitAssumption
  <2>4. nextfree < npages
    BY <1>1 DEF ListInv
  <2> QED BY <1>1, <1>6, <2>1, <2>2, <2>3, <2>4, Layout
<1>8. \A e \in Pde : pgdir[e] # h
  BY <1>7 DEF PageTables
<1>9. DirInv'
  <2>1. pgdir' \in [Pde -> Nat \cup {NULL}]
    BY <1>1, <1>2, <1>6 DEF DirInv
  <2>2. d # PDX(UVPT)
    <3>1. kern_pgdir \in Nat /\ NULL \notin Nat
      BY <1>1, MemInitAssumption DEF Heap
    <3> QED BY <1>1, <1>2, <3>1 DEF DirInv
  <2>3. pgdir'[PDX(UVPT)] = kern_pgdir'
    BY <1>1, <1>2, <1>4, <2>2, Layout DEF DirInv
  <2>4. \A c, e \in Pde : pgdir'[c] = pgdir'[e] /\ pgdir'[c] # NULL => c = e
    <3> SUFFICES ASSUME NEW c \in Pde, NEW e \in Pde, pgdir'[c] = pgdir'[e], pgdir'[c] # NULL
                 PROVE  c = e
      OBVIOUS
    <3>1. \A i \in Pde : pgdir'[i] = IF i = d THEN h ELSE pgdir[i]
      BY <1>1, <1>2 DEF DirInv
    <3> QED BY <1>1, <1>8, <3>1 DEF DirInv
  <2> QED BY <2>1, <2>3, <2>4 DEF DirInv
<1>10. PageTables' = PageTables \cup {h}
  <2>1. \A i \in Pde : pgdir'[i] = IF i = d THEN h ELSE pgdir[i]
    BY <1>1, <1>2 DEF DirInv
  <2>2. PageTables' = {pgdir'[i] : i \in Pde} \ {NULL, kern_pgdir}
    BY <1>4 DEF PageTables
  <2>3. {pgdir'[i] : i \in Pde} \subseteq {pgdir[i] : i \in Pde} \cup {h}
    BY <2>1
  <2>4. {pgdir[i] : i \in Pde} \subseteq {pgdir'[i] : i \in Pde} \cup {NULL}
    BY <1>2, <2>1
  <2>5. h \in {pgdir'[i] : i \in Pde}
    BY <1>5, <2>1
  <2> QED BY <1>7, <2>2, <2>3, <2>4, <2>5 DEF PageTables
<1>11. FreePages' = FreePages \ {h}
  BY <1>4, <1>10 DEF FreePages
<1>12. ListInv'
  <2>1. pp_ref' \in [0 .. npages - 1 -> Nat] /\ \A p \in 0 .. npages - 1 : pp_ref'[p] = IF p = h THEN pp_ref[p] + 1 ELSE pp_ref[p]
    BY <1>1, <1>2, <1>7 DEF ListInv
  <2>2. \A p \in 0 .. npages - 1 : pp_ref[p] \in Nat /\ (pp_ref[p] = 0 <=> p \in FreePages)
    BY <1>1 DEF ListInv
  <2>3. \A p \in 0 .. npages - 1 : pp_ref'[p] = 0 <=> p \in FreePages \ {h}
    BY <2>1, <2>2
  <2>4. Once(page_free_list', FreePages')
    BY <1>6, <1>11
  <2>5. nextfree' < npages'
    BY <1>1, <1>4 DEF ListInv
  <2>6. pp_ref' \in [0 .. npages' - 1 -> Nat] /\ \A p \in 0 .. npages' - 1 : pp_ref'[p] = 0 <=> p \in FreePages'
    BY <1>4, <1>11, <2>1, <2>3
  <2> QED BY <2>4, <2>5, <2>6 DEF ListInv, Once, Distinct, ToSet, FreePages, PageTables
<1> QED BY <1>1, <1>2, <1>3, <1>4, <1>9, <1>12 DEF MemInv, Allotted, Early, Listed, Tabled
(* A region is done: what is covered was covered.                          *)
LEMMA NextRegionStep ==
  ASSUME MemInv, next_region
  PROVE  MemInv'
<1>1. /\ npages \in Nat \ {0} /\ kernel_end \in KernelEnds /\ Heap /\ ListInv /\ DirInv /\ PteInv
      /\ pc = "map"
  BY DEF next_region, Mapping, MemInv, Allotted, Listed, Tabled
<1>2. /\ UNCHANGED <<memory, heap, lists, tables, cr3, pc>> /\ page_offset >= R.size
      /\ region' = region + 1 /\ page_offset' = 0 /\ region \in 1 .. 6 /\ page_offset \in Nat
  BY <1>1, RegionsAre DEF next_region, Mapping, PteInv
<1>3. npages' = npages /\ kernel_end' = kernel_end /\ Heap' /\ kern_pgdir' = kern_pgdir
  BY <1>1, <1>2, HeapNext
<1>4. ListInv'
  <2>1. Once(page_free_list', FreePages)
    BY <1>1, <1>2 DEF ListInv, lists
  <2> QED BY <1>1, <1>2, <2>1, ListNext DEF lists, tables
<1>5. DirInv'
  BY <1>1, <1>2, <1>3 DEF DirInv, tables
<1>6. ASSUME NEW w, Covered(w)' PROVE Covered(w)
  <2>1. PICK r \in 1 .. 6 : \E k \in 0 .. Regions[r].size - 1 :
          /\ w = Regions[r].va + k
          /\ r < region' \/ (r = region' /\ k < page_offset')
    BY <1>2, <1>6, CoveredNext
  <2>2. PICK k \in 0 .. Regions[r].size - 1 :
          /\ w = Regions[r].va + k
          /\ r < region' \/ (r = region' /\ k < page_offset')
    BY <2>1
  <2>3. Regions[r].size \in Nat
    BY <1>1, RegionSizes
  <2>4. r < region + 1
    BY <1>2, <2>2
  <2>5. CASE r = region
    <3>1. k < page_offset
      BY <1>2, <2>2, <2>3, <2>5 DEF R
    <3> QED BY <2>2, <2>5, <3>1 DEF Covered
  <2>6. CASE r # region
    <3>1. r < region
      BY <1>2, <2>4, <2>6
    <3> QED BY <2>2, <3>1 DEF Covered
  <2> QED BY <2>5, <2>6
<1>7. PteInv'
  <2>1. pte' = pte /\ pc' = pc /\ region' \in 1 .. 7 /\ page_offset' \in Nat
    BY <1>2 DEF tables
  <2>2. \A w : Wanted(w)' = Wanted(w)
    BY <1>2, HeapNext
  <2> QED BY <1>1, <1>6, <2>1, <2>2 DEF PteInv
<1> QED BY <1>1, <1>2, <1>3, <1>4, <1>5, <1>7 DEF MemInv, Allotted, Early, Listed, Tabled

LEMMA SwitchStep ==
  ASSUME MemInv, switch
  PROVE  MemInv'
<1>1. /\ npages \in Nat \ {0} /\ kernel_end \in KernelEnds /\ Heap /\ ListInv /\ DirInv /\ PteInv
  BY DEF switch, MemInv, Allotted, Listed, Tabled
<1>2. /\ UNCHANGED <<memory, heap, lists, tables, region, page_offset>>
      /\ region > 6 /\ pc' \in {"check_all", "panic", "fault"}
  BY RegionsAre DEF switch
<1>3. npages' = npages /\ kernel_end' = kernel_end /\ Heap' /\ kern_pgdir' = kern_pgdir
  BY <1>1, <1>2, HeapNext
<1>4. ListInv'
  <2>1. Once(page_free_list', FreePages)
    BY <1>1, <1>2 DEF ListInv, lists
  <2> QED BY <1>1, <1>2, <2>1, ListNext DEF lists, tables
<1>5. DirInv'
  BY <1>1, <1>2, <1>3 DEF DirInv, tables
<1>6. PteInv'
  <2>1. pte' = pte /\ region' = region /\ page_offset' = page_offset /\ region = 7
    BY <1>1, <1>2 DEF tables, PteInv
  <2>2. \A w : Wanted(w)' = Wanted(w)
    BY <1>2, HeapNext
  <2>3. \A w : Covered(w)' <=> Covered(w)
    BY <1>2, <2>1, CoveredSame
  <2> QED BY <1>1, <2>1, <2>2, <2>3 DEF PteInv
<1> QED BY <1>2, <1>3, <1>1, <1>4, <1>5, <1>6 DEF MemInv, Allotted, Early, Listed, Tabled

LEMMA CheckInstalledStep ==
  ASSUME MemInv, check_installed
  PROVE  MemInv'
<1>1. /\ npages \in Nat \ {0} /\ kernel_end \in KernelEnds /\ Heap /\ ListInv /\ DirInv /\ PteInv
      /\ region = 7
  BY DEF check_installed, MemInv, Allotted, Listed, Tabled, PteInv
<1>2. /\ UNCHANGED <<memory, heap, pp_ref, tables, cr3, region, page_offset>>
      /\ \/ pc' \in {"panic", "fault"}
         \/ /\ ~ (Len(page_free_list) < 3) /\ pc' = "done"
            /\ page_free_list' = <<page_free_list[1], page_free_list[3],
                                   page_free_list[2]>> \o
                                 SubSeq(page_free_list, 4, Len(page_free_list))
  BY DEF check_installed
<1>3. npages' = npages /\ kernel_end' = kernel_end /\ Heap' /\ kern_pgdir' = kern_pgdir
  BY <1>1, <1>2, HeapNext
<1>4. CASE pc' \in {"panic", "fault"}
  BY <1>1, <1>3, <1>4 DEF MemInv, Allotted, Early, Listed, Tabled
<1>5. CASE pc' \notin {"panic", "fault"}
  <2>1. Len(page_free_list) \in Nat
    BY <1>1, ElementsAre DEF ListInv, Once
  <2>2. 3 <= Len(page_free_list)
    <3>1. ~ (Len(page_free_list) < 3)
      BY <1>2, <1>5
    <3> QED BY <2>1, <3>1
  <2>3. Once(page_free_list', FreePages)
    BY <1>1, <1>2, <1>5, <2>2, FirstThree DEF ListInv
  <2>4. ListInv'
    BY <1>1, <1>2, <2>3, ListNext DEF tables
  <2>5. DirInv'
    BY <1>1, <1>2, <1>3 DEF DirInv, tables
  <2>6. PteInv'
    <3>1. pte' = pte /\ region' = region /\ page_offset' = page_offset
      BY <1>2 DEF tables
    <3>2. \A w : Wanted(w)' = Wanted(w)
      BY <1>2, HeapNext
    <3>3. \A w : Covered(w)' <=> Covered(w)
      BY <1>2, <3>1, CoveredSame
    <3> QED BY <1>1, <3>1, <3>2, <3>3 DEF PteInv
  <2>7. pc' = "done"
    BY <1>2, <1>5
  <2> QED BY <1>1, <1>3, <2>4, <2>5, <2>6, <2>7 DEF MemInv, Allotted, Early, Listed, Tabled
<1> QED BY <1>4, <1>5

LEMMA NextHolds ==
  ASSUME MemInv, [Next]_vars
  PROVE  MemInv'
<1>1. CASE create_pgdir \/ create_pages \/ create_envs
  BY <1>1, BootAllocSteps
<1>2. CASE boot_alloc_fails \/ boot_memory_unmapped \/ map_page_fails
  BY <1>2, StopSteps
<1>3. CASE page_init
  BY <1>3, PageInitStep
<1>4. CASE check_page_free_list_low
  BY <1>4, CheckLowStep
<1>5. CASE check_page
  BY <1>5, CheckPageStep
<1>6. CASE map_page
  BY <1>6, MapPageStep
<1>7. CASE map_page_new_table
  BY <1>7, NewTableStep
<1>8. CASE next_region
  BY <1>8, NextRegionStep
<1>9. CASE switch
  BY <1>9, SwitchStep
<1>10. CASE check_installed
  BY <1>10, CheckInstalledStep
<1>11. CASE UNCHANGED vars
  <2>1. MemInv' <=> MemInv
    BY <1>11 DEF vars, memory, heap, lists, tables, MemInv, Allotted, Heap, PagesSize, Early, Listed,
                 Tabled, SelfOnly, Empty, ListInv, Once, Distinct, ToSet, FreePages, PageTables, DirInv,
                 PteInv, Covered, Regions, Region, Stack, bootstack, Wanted, Entry
  <2> QED BY <2>1
<1> QED BY <1>1, <1>2, <1>3, <1>4, <1>5, <1>6, <1>7, <1>8, <1>9, <1>10, <1>11 DEF Next

LEMMA MemAlways ==
  Startup => []MemInv
<1>1. PowerOn => MemInv
  BY MemStarts DEF PowerOn
<1>2. MemInv /\ [StartupNext]_all_vars => MemInv'
  <2> SUFFICES ASSUME MemInv, [StartupNext]_all_vars PROVE MemInv'
    OBVIOUS
  <2>1. [Next]_vars
    BY DEF StartupNext, mem_init, all_vars
  <2> QED BY <2>1, NextHolds
<1> QED BY <1>1, <1>2, PTL DEF Startup

----------------------------------------------------------------------------
(* boot_alloc looks at its first page only; were what it gave out to end   *)
(* beyond memory, nextfree would show it.                                  *)
BeyondInv ==
  /\ npages_basemem \in 1 .. IOPHYSMEM /\ npages \in Nat \ {0} /\ nextfree \in Nat
  /\ beyond => nextfree > npages

LEMMA BeyondNext ==
  ASSUME BeyondInv, Next
  PROVE  BeyondInv'
<1>1. npages_basemem \in 1 .. IOPHYSMEM /\ npages \in Nat \ {0} /\ nextfree \in Nat
  BY DEF BeyondInv
<1>2. ASSUME NEW n \in Nat, NEW next, boot_alloc(n, next) PROVE BeyondInv'
  <2>1. /\ ~ (nextfree >= npages) /\ nextfree' = nextfree + n
        /\ npages' = npages /\ npages_basemem' = npages_basemem
    BY <1>2 DEF boot_alloc, OutOfMemory, memory
  <2>2. ~ (nextfree > npages) /\ nextfree' \in Nat
    BY <1>1, <2>1
  <2>3. beyond' => nextfree + n > npages
    <3>1. ~ beyond
      BY <2>2 DEF BeyondInv
    <3> QED BY <1>2, <3>1 DEF boot_alloc
  <2>4. beyond' => nextfree' > npages'
    BY <2>1, <2>3
  <2> QED BY <1>1, <2>1, <2>2, <2>4 DEF BeyondInv
<1>3. CASE create_pgdir \/ create_pages \/ create_envs
  <2>1. 1 \in Nat /\ PagesSize \in Nat /\ EnvsSize \in Nat
    BY <1>1, PagesSizeIs, MemInitAssumption
  <2>2. \/ boot_alloc(1, "pages") \/ boot_alloc(PagesSize, "envs") \/ boot_alloc(EnvsSize, "page_init")
    BY <1>3 DEF create_pgdir, create_pages, create_envs
  <2> QED BY <1>2, <2>1, <2>2
<1>4. CASE UNCHANGED <<memory, heap>>
  <2>1. /\ npages' = npages /\ npages_basemem' = npages_basemem /\ nextfree' = nextfree
        /\ beyond' = beyond
    BY <1>4 DEF memory, heap
  <2> QED BY <2>1 DEF BeyondInv
<1>5. \/ create_pgdir \/ create_pages \/ create_envs
      \/ UNCHANGED <<memory, heap>>
  BY DEF Next, boot_alloc_fails, boot_memory_unmapped, Stops, page_init, check_page_free_list_low,
         check_page, map_page, map_page_new_table, map_page_fails, next_region, switch, check_installed
<1> QED BY <1>3, <1>4, <1>5

LEMMA BeyondAlways ==
  Startup => []BeyondInv
<1>1. PowerOn => BeyondInv
  <2> SUFFICES ASSUME PowerOn PROVE BeyondInv
    OBVIOUS
  <2>1. npages \in Nat \ {0} /\ kernel_end \in KernelEnds
    BY MemStarts DEF PowerOn, MemInv
  <2>2. npages_basemem \in 1 .. IOPHYSMEM /\ nextfree \in Nat
    BY <2>1, MemInitAssumption DEF PowerOn, Init
  <2>3. ~ beyond
    BY DEF PowerOn, Init
  <2> QED BY <2>1, <2>2, <2>3 DEF BeyondInv
<1>2. BeyondInv /\ [StartupNext]_all_vars => BeyondInv'
  <2> SUFFICES ASSUME BeyondInv, [StartupNext]_all_vars PROVE BeyondInv'
    OBVIOUS
  <2>1. CASE Next
    BY <2>1, BeyondNext
  <2>2. CASE UNCHANGED vars
    <3>1. /\ npages' = npages /\ npages_basemem' = npages_basemem /\ nextfree' = nextfree
          /\ beyond' = beyond
      BY <2>2 DEF vars, memory, heap
    <3> QED BY <3>1 DEF BeyondInv
  <2> QED BY <2>1, <2>2 DEF StartupNext, mem_init, all_vars
<1> QED BY <1>1, <1>2, PTL DEF Startup

(* From page_init on the free list holds every page of memory that is not  *)
(* in use once, no other page of memory, and nothing beyond memory except  *)
(* what page_init lists between base memory and the I/O hole; none of them *)
(* has a reference, and all that boot_alloc gave out and the kernel        *)
(* cleared is memory.  (page_init, boot_alloc, pgdir_walk, the checks that *)
(* reorder the list)                                                       *)
THEOREM FreeList ==
  Startup => []FreeListExact
<1>1. MemInv /\ BeyondInv => FreeListExact
  <2> SUFFICES ASSUME MemInv, BeyondInv, Listed PROVE FreeListExact
    BY DEF FreeListExact
  <2>1. Heap /\ ListInv
    BY DEF MemInv, Allotted
  <2>2. /\ ToSet(page_free_list) = FreePages
        /\ \A m, n \in DOMAIN page_free_list : page_free_list[m] = page_free_list[n] => m = n
    BY <2>1 DEF ListInv, Once, Distinct
  <2>3. \A p \in 0 .. npages - 1 : pp_ref[p] = 0 <=> p \in ToSet(page_free_list)
    BY <2>1, <2>2 DEF ListInv
  <2>4. envs + EnvsSize = nextfree /\ nextfree < npages
    BY <2>1 DEF Heap, ListInv
  <2>5. ~ beyond
    <3>1. npages \in Nat /\ nextfree \in Nat
      BY DEF BeyondInv
    <3>2. ~ (nextfree > npages)
      BY <2>4, <3>1
    <3> QED BY <3>2 DEF BeyondInv
  <2>6. ToSet(page_free_list) \ NoMemory =
          (1 .. npages_basemem - 1 \cup nextfree .. npages - 1) \ PageTables
    <3> DEFINE T == PageTables
    <3>1. ToSet(page_free_list) = (1 .. IOPHYSMEM - 1 \cup nextfree .. npages - 1) \ T
      BY <2>2 DEF FreePages
    <3>2. /\ npages_basemem \in 1 .. IOPHYSMEM /\ IOPHYSMEM \in Nat /\ nextfree > IOPHYSMEM
          /\ npages \in Nat /\ nextfree \in Nat
      <4>1. /\ kernel_end \in Nat /\ kernel_end > EXTPHYSMEM /\ EXTPHYSMEM > IOPHYSMEM
            /\ EXTPHYSMEM \in Nat /\ IOPHYSMEM \in Nat
        BY MemInitAssumption DEF MemInv
      <4>2. nextfree = ((kernel_end + 1) + PagesSize) + EnvsSize /\ npages \in Nat \ {0}
        BY <2>1 DEF Heap, BeyondInv
      <4>3. PagesSize \in Nat /\ EnvsSize \in Nat
        BY <4>2, PagesSizeIs, MemInitAssumption
      <4> QED BY <4>1, <4>2, <4>3 DEF BeyondInv
    <3> HIDE DEF T
    <3>3. NoMemory = npages_basemem .. IOPHYSMEM - 1
      BY DEF NoMemory
    <3>4. ASSUME NEW p \in Int
          PROVE  (p \in (1 .. IOPHYSMEM - 1 \cup nextfree .. npages - 1) /\ p \notin NoMemory)
                 <=> p \in (1 .. npages_basemem - 1 \cup nextfree .. npages - 1)
      BY <3>2, <3>3
    <3>5. /\ (1 .. IOPHYSMEM - 1 \cup nextfree .. npages - 1) \subseteq Int
          /\ (1 .. npages_basemem - 1 \cup nextfree .. npages - 1) \subseteq Int
      BY <3>2
    <3>6. ToSet(page_free_list) \ NoMemory =
            (1 .. npages_basemem - 1 \cup nextfree .. npages - 1) \ T
      BY <3>1, <3>4, <3>5
    <3> QED BY <3>6 DEF T
  <2> QED BY <2>2, <2>3, <2>4, <2>5, <2>6 DEF FreeListExact
<1> QED BY <1>1, MemAlways, BeyondAlways, PTL

(* Every page of a region is covered at the end.                           *)
LEMMA AllCovered ==
  ASSUME region = 7, npages \in Nat \ {0}, NEW r \in 1 .. 6, NEW v \in Int, Regions[r].va \in Int,
         v >= Regions[r].va, v < Regions[r].va + Regions[r].size
  PROVE  Covered(v)
<1>1. Regions[r].size \in Nat
  BY RegionSizes
<1> DEFINE k == v - Regions[r].va
<1>2. k \in 0 .. Regions[r].size - 1 /\ v = Regions[r].va + k /\ r < region
  BY <1>1
<1> QED BY <1>2 DEF Covered

(* When mem_init is done, kern_pgdir maps exactly the kernel's regions,    *)
(* the guard page below the stack stays unmapped, and no two entries share *)
(* a page table.  (boot_map_region, pgdir_walk)                            *)
THEOREM KernelMap ==
  Startup => []KernelMapExact
<1>1. MemInv => KernelMapExact
  <2> SUFFICES ASSUME MemInv, pc = "done" PROVE KernelMapExact
    BY DEF KernelMapExact
  <2>1. Heap /\ DirInv /\ PteInv /\ region = 7 /\ npages \in Nat \ {0} /\ kernel_end \in KernelEnds
    BY DEF MemInv, Allotted, Listed, Tabled, PteInv
  <2> DEFINE N == PhysTables * NPTE
  <2>2. /\ NPTE \in Nat \ {0} /\ N \in Nat /\ EnvsSize \in 1 .. NPTE /\ KSTKSIZE \in 1 .. NPTE - 1
        /\ UENVS = 0 /\ UPAGES = NPTE /\ KSTACKTOP = 6 * NPTE /\ KERNBASE = 6 * NPTE
        /\ VPage = 0 .. 6 * NPTE + N - 1
    BY Layout
  <2>3. PagesSize \in Nat \ {0} /\ bootstack \in Nat /\ pages \in Nat /\ envs \in Nat
        /\ PagesSize < NPTE
    <3>1. PagesSize \in Nat \ {0}
      BY <2>1, PagesSizeIs
    <3>2. kernel_end \in Nat /\ bootstack \in Nat
      <4>1. kernel_end \in Nat /\ kernel_end - KSTKSIZE > EXTPHYSMEM
        BY <2>1, MemInitAssumption
      <4> QED BY <2>2, <4>1, Layout DEF bootstack
    <3> QED BY <2>1, <2>2, <3>1, <3>2 DEF Heap
  <2> HIDE DEF N
  <2>4. ASSUME NEW v \in VPage
        PROVE  \/ Mapped(v, UENVS, EnvsSize, envs, "U")
               \/ Mapped(v, UPAGES, PagesSize, pages, "U")
               \/ Mapped(v, KSTACKTOP - KSTKSIZE, KSTKSIZE, bootstack, "W")
               \/ Mapped(v, KERNBASE, N, 0, "W")
               \/ /\ pte[v] = NULL
                  /\ v \notin UENVS .. UENVS + EnvsSize - 1 /\ v < KERNBASE
                  /\ v \notin UPAGES .. UPAGES + PagesSize - 1
                  /\ v \notin KSTACKTOP - KSTKSIZE .. KSTACKTOP - 1
    <3>1. v \in Int /\ v >= 0 /\ v < KERNBASE + N
      BY <2>2
    <3>2. CASE v >= KERNBASE
      <4>1. Covered(v)
        <5>1. Regions[6].va = KERNBASE /\ Regions[6].size = N /\ 6 \in 1 .. 6
          BY RegionsAre DEF Region, N
        <5> QED BY <2>1, <2>2, <3>1, <3>2, <5>1, AllCovered
      <4>2. pte[v] = Entry(0 + (v - KERNBASE), "W")
        BY <2>1, <3>2, <4>1 DEF PteInv, Wanted
      <4>3. v \in KERNBASE .. KERNBASE + N - 1 /\ 0 + (v - KERNBASE) = 0 + v - KERNBASE
        BY <2>2, <3>1, <3>2
      <4> QED BY <4>2, <4>3 DEF Mapped, Entry
    <3>3. CASE v < KERNBASE /\ v \in KSTACKTOP - KSTKSIZE .. KSTACKTOP - 1
      <4>1. Covered(v)
        <5>1. Regions[5].va = KSTACKTOP - KSTKSIZE /\ Regions[5].size = KSTKSIZE /\ 5 \in 1 .. 6
          BY RegionsAre DEF Region
        <5> QED BY <2>1, <2>2, <3>1, <3>3, <5>1, AllCovered
      <4>2. pte[v] = Entry(bootstack + (v - (KSTACKTOP - KSTKSIZE)), "W")
        <5>1. ~ (v >= KERNBASE)
          BY <2>2, <3>1, <3>3
        <5> QED BY <2>1, <3>3, <4>1, <5>1 DEF PteInv, Wanted
      <4>3. /\ v \in KSTACKTOP - KSTKSIZE .. KSTACKTOP - KSTKSIZE + KSTKSIZE - 1
            /\ bootstack + (v - (KSTACKTOP - KSTKSIZE)) = bootstack + v - (KSTACKTOP - KSTKSIZE)
        BY <2>2, <2>3, <3>1, <3>3
      <4> QED BY <4>2, <4>3 DEF Mapped, Entry
    <3>4. CASE v \in UPAGES .. UPAGES + PagesSize - 1
      <4>1. Covered(v)
        <5>1. Regions[1].va = UPAGES /\ Regions[1].size = PagesSize /\ 1 \in 1 .. 6
          BY RegionsAre DEF Region
        <5> QED BY <2>1, <2>2, <2>3, <3>1, <3>4, <5>1, AllCovered
      <4>2. pte[v] = Entry(pages + (v - UPAGES), "U")
        <5>1. ~ (v >= KERNBASE) /\ v \notin KSTACKTOP - KSTKSIZE .. KSTACKTOP - 1
          BY <2>2, <2>3, <3>1, <3>4
        <5> QED BY <2>1, <3>4, <4>1, <5>1 DEF PteInv, Wanted
      <4>3. pages + (v - UPAGES) = pages + v - UPAGES
        BY <2>2, <2>3, <3>1
      <4> QED BY <3>4, <4>2, <4>3 DEF Mapped, Entry
    <3>5. CASE v \in UENVS .. UENVS + EnvsSize - 1
      <4>1. Covered(v)
        <5>1. Regions[3].va = UENVS /\ Regions[3].size = EnvsSize /\ 3 \in 1 .. 6
          BY RegionsAre DEF Region
        <5> QED BY <2>1, <2>2, <2>3, <3>1, <3>5, <5>1, AllCovered
      <4>2. pte[v] = Entry(envs + (v - UENVS), "U")
        <5>1. /\ ~ (v >= KERNBASE) /\ v \notin KSTACKTOP - KSTKSIZE .. KSTACKTOP - 1
              /\ v \notin UPAGES .. UPAGES + PagesSize - 1
          BY <2>2, <2>3, <3>1, <3>5
        <5> QED BY <2>1, <3>5, <4>1, <5>1 DEF PteInv, Wanted
      <4>3. envs + (v - UENVS) = envs + v - UENVS
        BY <2>2, <2>3, <3>1
      <4> QED BY <3>5, <4>2, <4>3 DEF Mapped, Entry
    <3>6. CASE /\ ~ (v >= KERNBASE) /\ v \notin KSTACKTOP - KSTKSIZE .. KSTACKTOP - 1
               /\ v \notin UPAGES .. UPAGES + PagesSize - 1
               /\ v \notin UENVS .. UENVS + EnvsSize - 1
      <4>1. pte[v] = NULL
        BY <2>1, <3>6 DEF PteInv, Wanted
      <4>2. v < KERNBASE
        BY <2>2, <3>1, <3>6
      <4> QED BY <3>6, <4>1, <4>2
    <3>7. v >= KERNBASE \/ v < KERNBASE
      BY <2>2, <3>1
    <3>8. ~ (v >= KERNBASE /\ v < KERNBASE)
      BY <2>2, <3>1
    <3> QED BY <3>2, <3>3, <3>4, <3>5, <3>6, <3>7, <3>8
  <2>5. /\ pgdir[PDX(UVPT)] = kern_pgdir
        /\ \A d, e \in Pde : pgdir[d] = pgdir[e] /\ pgdir[d] # NULL => d = e
    BY <2>1 DEF DirInv
  <2> QED BY <2>4, <2>5 DEF KernelMapExact, N
<1> QED BY <1>1, MemAlways, PTL
----------------------------------------------------------------------------
(* The invariant of the loader.  As long as nothing went to another        *)
(* address than its own, of the parts that it has read, the headers first, *)
(* memory has what the file has, up to the sector that is next.            *)
Sg == image.segments
All == <<Header>> \o Sg
Extent(s) == s.p_pa .. end_of(s) - 1
HasByte(s, a) == mem[a] = <<"file", (a - s.p_pa) + s.p_offset>>

\* readseg is at a sector of s, the one that the file has at this distance.
Position(s, at, off, last) ==
  /\ at \in Int /\ off \in Int /\ last = end_of(s)
  /\ \E q \in Int : at = q * SECTSIZE
  /\ ROUNDDOWN(s.p_pa, SECTSIZE) <= at
  /\ (off - 1) * SECTSIZE = (at - s.p_pa) + s.p_offset

\* The last part that was begun is number ph of All.
Parts == \A i \in 1 .. ph : \A a \in DOMAIN mem :
           a \in Extent(All[i]) /\ (i < ph \/ a < pa) => HasByte(All[i], a)
Progress == Position(All[ph], pa, offset, end_pa) /\ Parts
AllIn == \A i \in 1 .. Len(Sg) : \A a \in DOMAIN mem : a \in Extent(Sg[i]) => HasByte(Sg[i], a)

BootInv ==
  /\ image \in Images
  /\ mem = [a \in DOMAIN mem |-> mem[a]] /\ DOMAIN mem \subseteq Int
  /\ Extent(Header) \subseteq DOMAIN mem
  /\ boot \in {"seta20.1", "seta20.2", "bootmain", "header", "segments", "bad", "i386_init",
               "mem_init", "fault", "astray"}
  /\ ph \in 1 .. Len(Sg) + 1
  /\ boot \in {"seta20.1", "seta20.2", "bootmain", "header"} => ph = 1
  /\ boot \in {"header", "segments"} /\ Loadable /\ ~ wrapped => Progress
  /\ boot = "i386_init" /\ Loadable => AllIn
  /\ KernelLoaded

LEMMA DownIs ==
  ASSUME NEW a \in Int, SECTSIZE \in Nat \ {0}
  PROVE  /\ a % SECTSIZE \in 0 .. SECTSIZE - 1 /\ a \div SECTSIZE \in Int
         /\ a = (a \div SECTSIZE) * SECTSIZE + (a % SECTSIZE)
         /\ ROUNDDOWN(a, SECTSIZE) \in Int /\ ROUNDDOWN(a, SECTSIZE) <= a
<1>1. /\ a % SECTSIZE \in 0 .. SECTSIZE - 1 /\ a \div SECTSIZE \in Int
      /\ a = (a \div SECTSIZE) * SECTSIZE + (a % SECTSIZE)
  BY ModRange
<1> DEFINE r == a % SECTSIZE
<1>2. r \in 0 .. SECTSIZE - 1
  BY <1>1
<1> HIDE DEF r
<1>3. a - r \in Int /\ a - r <= a
  BY <1>2
<1> QED BY <1>1, <1>3 DEF ROUNDDOWN, r

LEMMA SegmentsAre ==
  ASSUME image \in Images
  PROVE  /\ Sg \in Seq(SegmentType) /\ Len(Sg) \in Nat \ {0}
         /\ \A i \in 1 .. Len(Sg) : /\ Sg[i] \in ToSet(Sg)
                                    /\ Sg[i].p_pa \in Nat /\ Sg[i].p_offset \in Nat
                                    /\ Sg[i].p_filesz \in Nat /\ Sg[i].p_memsz \in Nat
                                    /\ end_of(Sg[i]) \in Nat
                                    /\ Sg[i].p_filesz <= Sg[i].p_memsz
         /\ \A s \in ToSet(Sg) : \E i \in 1 .. Len(Sg) : s = Sg[i]
<1>1. Sg \in Seq(SegmentType) /\ Sg # <<>> /\ \A s \in ToSet(Sg) : s.p_filesz <= s.p_memsz
  BY BootAssumption DEF Sg, SegmentType
<1>2. Len(Sg) \in Nat \ {0} /\ DOMAIN Sg = 1 .. Len(Sg) /\ \A i \in 1 .. Len(Sg) : Sg[i] \in SegmentType
  BY <1>1, EmptySeq, LenProperties, ElementOfSeq
<1>3. ToSet(Sg) = {Sg[i] : i \in 1 .. Len(Sg)}
  BY <1>2 DEF ToSet
<1>4. \A s \in SegmentType : /\ s.p_pa \in Nat /\ s.p_offset \in Nat /\ s.p_filesz \in Nat
                             /\ s.p_memsz \in Nat /\ end_of(s) \in Nat
  BY DEF SegmentType, end_of
<1> QED BY <1>1, <1>2, <1>3, <1>4

(* The CHOOSE of Highest finds a segment.                                  *)
LEMMA HighestIs ==
  ASSUME image \in Images
  PROVE  \E h \in 1 .. Len(Sg) : Highest(Sg) = Sg[h]
<1> DEFINE I == {n \in Nat : n + 1 <= Len(Sg) =>
                   \E j \in 1 .. n + 1 : \A i \in 1 .. n + 1 : Sg[i].p_pa <= Sg[j].p_pa}
<1>1. Len(Sg) \in Nat \ {0} /\ \A i \in 1 .. Len(Sg) : Sg[i].p_pa \in Nat
  BY SegmentsAre
<1>2. 0 \in I
  <2> SUFFICES ASSUME 1 <= Len(Sg)
               PROVE  \E j \in 1 .. 0 + 1 : \A i \in 1 .. 0 + 1 : Sg[i].p_pa <= Sg[j].p_pa
    OBVIOUS
  <2>1. 1 .. 0 + 1 = {1} /\ 1 \in 1 .. Len(Sg)
    BY <1>1
  <2>2. Sg[1].p_pa \in Nat
    BY <1>1, <2>1
  <2>3. Sg[1].p_pa <= Sg[1].p_pa
    BY <2>2
  <2> QED BY <2>1, <2>3
<1>3. ASSUME NEW n \in Nat, n \in I PROVE n + 1 \in I
  <2> SUFFICES ASSUME (n + 1) + 1 <= Len(Sg)
               PROVE  \E j \in 1 .. (n + 1) + 1 : \A i \in 1 .. (n + 1) + 1 : Sg[i].p_pa <= Sg[j].p_pa
    OBVIOUS
  <2> DEFINE m == n + 1
  <2>1. m \in Nat /\ m + 1 <= Len(Sg) /\ m <= Len(Sg)
    BY <1>1
  <2>2. PICK j \in 1 .. m : \A i \in 1 .. m : Sg[i].p_pa <= Sg[j].p_pa
    BY <1>3, <2>1
  <2> HIDE DEF m, I
  <2>3. /\ j \in 1 .. m + 1 /\ m + 1 \in 1 .. m + 1 /\ \A i \in 1 .. m + 1 : i \in 1 .. m \/ i = m + 1
        /\ \A i \in 1 .. m + 1 : Sg[i].p_pa \in Nat
    BY <1>1, <2>1
  <2>4. \E k \in 1 .. m + 1 : \A i \in 1 .. m + 1 : Sg[i].p_pa <= Sg[k].p_pa
    <3>1. CASE Sg[j].p_pa <= Sg[m + 1].p_pa
      <4>1. ASSUME NEW i \in 1 .. m + 1 PROVE Sg[i].p_pa <= Sg[m + 1].p_pa
        <5>1. Sg[i].p_pa \in Nat /\ Sg[j].p_pa \in Nat /\ Sg[m + 1].p_pa \in Nat
          BY <2>3
        <5>2. i \in 1 .. m => Sg[i].p_pa <= Sg[j].p_pa
          BY <2>2
        <5> QED BY <2>3, <3>1, <5>1, <5>2
      <4> QED BY <2>3, <4>1
    <3>2. CASE ~ (Sg[j].p_pa <= Sg[m + 1].p_pa)
      <4>1. ASSUME NEW i \in 1 .. m + 1 PROVE Sg[i].p_pa <= Sg[j].p_pa
        <5>1. Sg[i].p_pa \in Nat /\ Sg[j].p_pa \in Nat /\ Sg[m + 1].p_pa \in Nat
          BY <2>3
        <5>2. i \in 1 .. m => Sg[i].p_pa <= Sg[j].p_pa
          BY <2>2
        <5> QED BY <2>3, <3>2, <5>1, <5>2
      <4> QED BY <2>3, <4>1
    <3> QED BY <3>1, <3>2
  <2> QED BY <2>4 DEF m
<1>4. Len(Sg) - 1 \in I
  <2>1. Nat \subseteq I
    <3> HIDE DEF I
    <3> QED BY <1>2, <1>3, SetInduction
  <2> HIDE DEF I
  <2> QED BY <1>1, <2>1
<1>5. PICK j \in 1 .. Len(Sg) : \A i \in 1 .. Len(Sg) : Sg[i].p_pa <= Sg[j].p_pa
  <2>1. (Len(Sg) - 1) + 1 = Len(Sg) /\ Len(Sg) <= Len(Sg)
    BY <1>1
  <2> QED BY <1>4, <2>1
<1>6. Sg[j] \in ToSet(Sg) /\ \A t \in ToSet(Sg) : t.p_pa <= Sg[j].p_pa
  BY <1>5, SegmentsAre
<1>7. Highest(Sg) \in ToSet(Sg)
  BY <1>6 DEF Highest
<1> QED BY <1>7, SegmentsAre

LEMMA HeaderIs ==
  /\ Header.p_pa = ELFHDR /\ Header.p_offset = 0 /\ Header.p_memsz = HeaderSize
  /\ ELFHDR \in Nat /\ HeaderSize \in Nat /\ end_of(Header) = ELFHDR + HeaderSize
<1>1. ELFHDR \in Nat /\ SECTSIZE \in Nat \ {0} /\ HeaderSectors \in Nat \ {0}
  BY BootAssumption
<1>2. HeaderSize \in Nat
  BY <1>1 DEF HeaderSize
<1> QED BY <1>1, <1>2 DEF Header, end_of

(* What is loaded, the headers first.                                      *)
LEMMA PartsAre ==
  ASSUME image \in Images
  PROVE  /\ Len(Sg) \in Nat \ {0} /\ All[1] = Header
         /\ \A i \in 1 .. Len(Sg) : All[i + 1] = Sg[i]
         /\ \A i \in 1 .. Len(Sg) + 1 :
              /\ All[i].p_pa \in Nat /\ All[i].p_offset \in Nat /\ All[i].p_memsz \in Nat
              /\ end_of(All[i]) \in Nat
              /\ All[i] = Header \/ All[i] \in ToSet(Sg)
<1>1. Sg \in Seq(SegmentType) /\ Len(Sg) \in Nat \ {0}
  BY SegmentsAre
<1>2. Header \in SegmentType
  BY HeaderIs DEF Header, SegmentType
<1>3. /\ All[1] = Header
      /\ \A i \in 1 .. Len(Sg) : All[i + 1] = Sg[i]
  <2> HIDE DEF Sg, Header
  <2>1. /\ <<Header>> \in Seq(SegmentType) /\ Len(<<Header>>) = 1 /\ <<Header>>[1] = Header
    BY <1>2
  <2>2. \A k \in 1 .. Len(<<Header>>) + Len(Sg) :
          All[k] = IF k <= Len(<<Header>>) THEN <<Header>>[k] ELSE Sg[k - Len(<<Header>>)]
    BY <1>1, <2>1, ConcatProperties DEF All
  <2>3. All[1] = Header
    BY <1>1, <2>1, <2>2
  <2>4. ASSUME NEW i \in 1 .. Len(Sg) PROVE All[i + 1] = Sg[i]
    <3>1. i + 1 \in 1 .. 1 + Len(Sg) /\ ~ (i + 1 <= 1) /\ (i + 1) - 1 = i
      BY <1>1
    <3> QED BY <2>1, <2>2, <3>1
  <2> QED BY <2>3, <2>4
<1>4. ASSUME NEW i \in 1 .. Len(Sg) + 1
      PROVE  /\ All[i].p_pa \in Nat /\ All[i].p_offset \in Nat /\ All[i].p_memsz \in Nat
             /\ end_of(All[i]) \in Nat
             /\ All[i] = Header \/ All[i] \in ToSet(Sg)
  <2>1. CASE i = 1
    <3>1. All[i] = Header
      BY <1>3, <2>1
    <3>2. ELFHDR + HeaderSize \in Nat
      BY HeaderIs
    <3> HIDE DEF Header
    <3> QED BY <3>1, <3>2, HeaderIs
  <2>2. CASE i # 1
    <3>1. i - 1 \in 1 .. Len(Sg) /\ (i - 1) + 1 = i
      BY <1>1, <2>2
    <3>2. All[i] = Sg[i - 1]
      BY <1>3, <3>1
    <3> QED BY <3>1, <3>2, SegmentsAre
  <2> QED BY <2>1, <2>2
<1> QED BY <1>1, <1>3, <1>4

(* The parts of a loadable kernel agree with the file and with each other. *)
LEMMA PartsFit ==
  ASSUME image \in Images, Loadable
  PROVE  /\ \A i \in 1 .. Len(Sg) + 1 : All[i].p_pa % SECTSIZE = All[i].p_offset % SECTSIZE
         /\ \A i, j \in 1 .. Len(Sg) + 1 : Compatible(All[i], All[j])
<1>1. \A i \in 1 .. Len(Sg) + 1 : /\ All[i].p_pa \in Nat /\ All[i].p_offset \in Nat
                                  /\ All[i] = Header \/ All[i] \in ToSet(Sg)
  BY PartsAre
<1>2. Header.p_pa % SECTSIZE = Header.p_offset % SECTSIZE
  <2>1. SECTSIZE \in Nat \ {0} /\ ELFHDR % SECTSIZE = 0
    BY BootAssumption
  <2>2. 0 \in 0 .. SECTSIZE - 1
    BY <2>1
  <2>3. 0 % SECTSIZE = 0
    BY <2>1, <2>2, ModSmall
  <2> QED BY <2>1, <2>3, HeaderIs
<1>3. \A s \in ToSet(Sg) : s.p_pa % SECTSIZE = s.p_offset % SECTSIZE /\ Compatible(s, Header)
  BY DEF Loadable, HeadersKept, Sg
<1>4. \A s, t \in ToSet(Sg) : Compatible(s, t)
  BY DEF Loadable, Sg
<1>5. ASSUME NEW i \in 1 .. Len(Sg) + 1, NEW j \in 1 .. Len(Sg) + 1
      PROVE  Compatible(All[i], All[j])
  <2> DEFINE s == All[i]
             t == All[j]
  <2>1. /\ s.p_pa \in Nat /\ s.p_offset \in Nat /\ t.p_pa \in Nat /\ t.p_offset \in Nat
    BY <1>1
  <2>2. (s = Header \/ s \in ToSet(Sg)) /\ (t = Header \/ t \in ToSet(Sg))
    BY <1>1
  <2> HIDE DEF s, t, Header
  <2>3. Compatible(t, s) => Compatible(s, t)
    <3>1. t.p_pa - s.p_pa = t.p_offset - s.p_offset <=> s.p_pa - t.p_pa = s.p_offset - t.p_offset
      BY <2>1
    <3> QED BY <3>1 DEF Compatible
  <2>4. s = t => Compatible(s, t)
    <3>1. s.p_pa - s.p_pa = s.p_offset - s.p_offset
      BY <2>1
    <3> QED BY <3>1 DEF Compatible
  <2>5. Compatible(s, t)
    BY <1>3, <1>4, <2>2, <2>3, <2>4
  <2> QED BY <2>5 DEF s, t
<1> QED BY <1>1, <1>2, <1>3, <1>5

(* bss lies within memory.                                                 *)
LEMMA BssIn ==
  ASSUME image \in Images, Loadable
  PROVE  edata \in Nat /\ end \in Nat /\ edata .. end - 1 \subseteq DOMAIN mem
<1>1. PICK h \in 1 .. Len(Sg) : Highest(image.segments) = Sg[h]
  BY HighestIs DEF Sg
<1> DEFINE b == Sg[h].p_pa
           f == Sg[h].p_filesz
           z == Sg[h].p_memsz
<1>2. edata = b + f /\ end = b + z
  BY <1>1 DEF edata, end, end_of
<1>3. b \in Nat /\ f \in Nat /\ z \in Nat /\ b .. (b + z) - 1 \subseteq DOMAIN mem
  <2>1. Sg[h] \in ToSet(Sg) /\ b \in Nat /\ f \in Nat /\ z \in Nat
    BY SegmentsAre
  <2>2. b .. end_of(Sg[h]) - 1 \subseteq DOMAIN mem
    BY <2>1 DEF Loadable, Sg
  <2> QED BY <2>1, <2>2 DEF end_of
<1> HIDE DEF b, f, z
<1>4. (b + f) .. (b + z) - 1 \subseteq b .. (b + z) - 1
  BY <1>3
<1> QED BY <1>2, <1>3, <1>4

(* readseg begins at the sector of the first byte.                         *)
LEMMA ReadsegIs ==
  ASSUME NEW s, s.p_pa \in Nat, s.p_offset \in Nat, s.p_memsz \in Nat,
         s.p_pa % SECTSIZE = s.p_offset % SECTSIZE
  PROVE  /\ Position(s, ROUNDDOWN(s.p_pa, SECTSIZE), (s.p_offset \div SECTSIZE) + 1,
                     s.p_pa + s.p_memsz)
         /\ ROUNDDOWN(s.p_pa, SECTSIZE) \in Int /\ ROUNDDOWN(s.p_pa, SECTSIZE) <= s.p_pa
<1> DEFINE b == s.p_pa
           o == s.p_offset
           x == b \div SECTSIZE
           r == b % SECTSIZE
           y == o \div SECTSIZE
           at == ROUNDDOWN(b, SECTSIZE)
<1>1. SECTSIZE \in Nat \ {0} /\ b \in Int /\ o \in Int /\ r = o % SECTSIZE
  BY BootAssumption
<1>2. /\ x \in Int /\ r \in 0 .. SECTSIZE - 1 /\ b = x * SECTSIZE + r
      /\ y \in Int /\ o = y * SECTSIZE + r
  <2>1. \A a \in Int : /\ a % SECTSIZE \in 0 .. SECTSIZE - 1 /\ a \div SECTSIZE \in Int
                       /\ a = (a \div SECTSIZE) * SECTSIZE + (a % SECTSIZE)
    BY <1>1, ModRange
  <2> HIDE DEF b, o
  <2> QED BY <1>1, <2>1
<1>3. at = b - r
  BY DEF ROUNDDOWN
<1> DEFINE u == x * SECTSIZE
           w == y * SECTSIZE
<1> HIDE DEF x, y, r, at, b, o
<1>4. u \in Int /\ w \in Int /\ (y + 1) - 1 = y /\ y + 1 \in Int
  BY <1>1, <1>2
<1>5. ((y + 1) - 1) * SECTSIZE = w
  BY <1>4
<1>6. b = u + r /\ o = w + r /\ r \in 0 .. SECTSIZE - 1
  BY <1>2
<1> HIDE DEF w
<1>7. at = u /\ at \in Int /\ at <= b /\ w = (at - b) + o
  <2> HIDE DEF u
  <2> QED BY <1>1, <1>3, <1>4, <1>6
<1>8. \E q \in Int : at = q * SECTSIZE
  BY <1>2, <1>7 DEF u
<1>9. /\ at \in Int /\ y + 1 \in Int /\ at <= at
      /\ ((y + 1) - 1) * SECTSIZE = (at - b) + o
  BY <1>4, <1>5, <1>7
<1> QED BY <1>7, <1>8, <1>9 DEF Position, end_of, at, b, o, y

(* What one sector writes, and where, when it all goes to its own address. *)
Straight == \A i \in 0 .. SECTSIZE - 1 : Phys(pa + i) = pa + i

LEMMA SectorIs ==
  ASSUME Straight, pa \in Int, offset \in Int, NEW a \in Int
  PROVE  /\ a \in Sector <=> a \in pa .. pa + SECTSIZE - 1
         /\ a \in Sector => FileByte(a) = (a - pa) + (offset - 1) * SECTSIZE
<1> DEFINE m == (offset - 1) * SECTSIZE
<1>1. SECTSIZE \in Nat \ {0} /\ m \in Int /\ offset * SECTSIZE = m + SECTSIZE
  BY BootAssumption
<1>2. \A i \in 0 .. SECTSIZE - 1 : Phys(pa + i) = pa + i
  BY DEF Straight
<1>3. Sector = {pa + i : i \in 0 .. SECTSIZE - 1}
  BY <1>2 DEF Sector
<1>4. a \in Sector <=> a \in pa .. pa + SECTSIZE - 1
  <2>1. a \in Sector => a \in pa .. pa + SECTSIZE - 1
    BY <1>1, <1>3
  <2>2. ASSUME a \in pa .. pa + SECTSIZE - 1 PROVE a \in Sector
    <3>1. a - pa \in 0 .. SECTSIZE - 1 /\ a = pa + (a - pa)
      BY <1>1, <2>2
    <3> QED BY <1>3, <3>1
  <2> QED BY <2>1, <2>2
<1>5. FileByte(a) = CHOOSE k \in m .. (m + SECTSIZE) - 1 : Phys((pa + k) - m) = a
  BY <1>1 DEF FileByte
<1> HIDE DEF m
<1>6. \A k \in m .. (m + SECTSIZE) - 1 : Phys((pa + k) - m) = (pa + k) - m
  <2> SUFFICES ASSUME NEW k \in m .. (m + SECTSIZE) - 1 PROVE Phys((pa + k) - m) = (pa + k) - m
    OBVIOUS
  <2>1. k - m \in 0 .. SECTSIZE - 1 /\ pa + (k - m) = (pa + k) - m
    BY <1>1
  <2>2. Phys(pa + (k - m)) = pa + (k - m)
    BY <1>2, <2>1
  <2> QED BY <2>1, <2>2
<1>7. ASSUME a \in pa .. pa + SECTSIZE - 1 PROVE FileByte(a) = (a - pa) + m
  <2> DEFINE k0 == (a - pa) + m
  <2>1. k0 \in m .. (m + SECTSIZE) - 1 /\ (pa + k0) - m = a
    BY <1>1, <1>7
  <2>2. \A k \in m .. (m + SECTSIZE) - 1 : (pa + k) - m = a => k = k0
    BY <1>1
  <2> HIDE DEF k0
  <2>3. FileByte(a) = k0
    BY <1>5, <1>6, <2>1, <2>2
  <2> QED BY <2>3 DEF k0
<1> QED BY <1>4, <1>7 DEF m

LEMMA ImageStays ==
  ASSUME image' = image, DOMAIN mem' = DOMAIN mem
  PROVE  /\ Sg' = Sg /\ All' = All /\ edata' = edata /\ end' = end
         /\ Loadable' <=> Loadable
BY DEF Sg, All, Header, edata, end, Highest, end_of, Loadable, HeadersKept, Header, Compatible, Apart,
       ROUNDDOWN, HeaderSize

LEMMA MemoryStays == Next => UNCHANGED memory
BY DEF Next, create_pgdir, create_pages, create_envs, boot_alloc, boot_alloc_fails, boot_memory_unmapped,
       Stops, page_init, check_page_free_list_low, check_page, map_page, map_page_new_table,
       map_page_fails, next_region, switch, check_installed

(* A step of a device, or one that leaves memory and the parts alone.      *)
LEMMA SameParts ==
  ASSUME BootInv, UNCHANGED <<image, mem, ph, pa, end_pa, offset, wrapped>>,
         boot' = boot \/ (boot \in {"seta20.1", "seta20.2"} /\ boot' \in {"seta20.2", "bootmain"})
                      \/ (boot \in {"header", "segments"} /\ boot' \in {"segments", "bad", "astray"})
  PROVE  BootInv'
<1>1. Sg' = Sg /\ All' = All /\ edata' = edata /\ end' = end /\ (Loadable' <=> Loadable)
  BY ImageStays
<1>2. Progress' <=> Progress
  BY <1>1 DEF Progress, Parts, Position, HasByte, Extent, end_of, ROUNDDOWN
<1>3. AllIn' <=> AllIn
  BY <1>1 DEF AllIn, HasByte, Extent, end_of
<1>4. KernelLoaded' <=> (boot' = "mem_init" /\ Loadable =>
        /\ \A s \in ToSet(image.segments) :
             \A k \in 0 .. s.p_filesz - 1 : mem[s.p_pa + k] = <<"file", s.p_offset + k>>
        /\ \A a \in Bss : mem[a] = <<"zero">>)
  BY <1>1 DEF KernelLoaded, Bss
<1>5. KernelLoaded'
  BY <1>4 DEF BootInv, KernelLoaded
<1>6. Extent(Header)' = Extent(Header)
  BY DEF Extent, Header, end_of, HeaderSize
<1> QED BY <1>1, <1>2, <1>3, <1>5, <1>6 DEF BootInv

LEMMA DeviceSteps ==
  ASSUME BootInv,
         controller \/ disk_done \/ seta20_1 \/ seta20_2 \/ readsect_command \/ valid_elf
  PROVE  BootInv'
<1>1. UNCHANGED <<image, mem, ph, pa, end_pa, offset, wrapped>>
  BY DEF controller, disk_done, seta20_1, seta20_2, Send, readsect_command, valid_elf, loading
<1>2. \/ boot' = boot
      \/ boot \in {"seta20.1", "seta20.2"} /\ boot' \in {"seta20.2", "bootmain"}
      \/ boot \in {"header", "segments"} /\ boot' \in {"segments", "bad", "astray"}
  BY DEF controller, disk_done, seta20_1, seta20_2, Send, readsect_command, valid_elf
<1> QED BY <1>1, <1>2, SameParts

(* The headers come first.                                                 *)
LEMMA BootmainStep ==
  ASSUME BootInv, bootmain
  PROVE  BootInv'
<1>1. /\ image' = image /\ mem' = mem /\ ph' = ph /\ boot = "bootmain" /\ boot' = "header"
      /\ end_pa' = ELFHDR + HeaderSize /\ pa' = ROUNDDOWN(ELFHDR, SECTSIZE)
      /\ offset' = (0 \div SECTSIZE) + 1
  BY DEF bootmain, readseg
<1>2. Sg' = Sg /\ All' = All /\ edata' = edata /\ end' = end /\ (Loadable' <=> Loadable)
  BY <1>1, ImageStays
<1>3. image \in Images /\ ph = 1 /\ All[1] = Header
  BY <1>1, PartsAre DEF BootInv
<1>4. Loadable => Progress'
  <2> SUFFICES ASSUME Loadable PROVE Progress'
    OBVIOUS
  <2>1. 1 \in 1 .. Len(Sg) + 1
    BY <1>3, PartsAre
  <2>2. /\ Header.p_pa % SECTSIZE = Header.p_offset % SECTSIZE
        /\ Header.p_pa \in Nat /\ Header.p_offset \in Nat /\ Header.p_memsz \in Nat
    BY <1>3, <2>1, PartsAre, PartsFit
  <2>3. /\ Position(Header, pa', offset', end_pa')
        /\ pa' \in Int /\ pa' <= ELFHDR
    <3> HIDE DEF Header
    <3> QED BY <1>1, <2>2, ReadsegIs, HeaderIs
  <2>4. ph' = 1 /\ All'[ph'] = Header
    BY <1>1, <1>2, <1>3
  <2>5. ASSUME NEW i \in 1 .. ph', NEW a \in DOMAIN mem', a \in Extent(Header), i < ph' \/ a < pa'
        PROVE  FALSE
    <3>1. a < pa'
      BY <2>4, <2>5
    <3>2. a \in Int /\ ELFHDR <= a
      BY <2>5, HeaderIs DEF Extent
    <3> QED BY <2>3, <3>1, <3>2, HeaderIs
  <2>6. \A i \in 1 .. ph' : i = 1
    BY <2>4
  <2>7. Parts'
    <3>1. \A i \in 1 .. ph' : All'[i] = Header
      BY <2>4, <2>6
    <3>2. Extent(Header)' = Extent(Header)
      BY DEF Extent, Header, end_of, HeaderSize
    <3>3. \A s : (Extent(s))' = Extent(s)
      BY DEF Extent, end_of
    <3> QED BY <2>5, <3>1, <3>3 DEF Parts, Extent, end_of
  <2> QED BY <2>3, <2>4, <2>7 DEF Progress, Position, end_of, ROUNDDOWN
<1>5. Extent(Header)' = Extent(Header)
  BY DEF Extent, Header, end_of, HeaderSize
<1> QED BY <1>1, <1>2, <1>3, <1>4, <1>5 DEF BootInv, KernelLoaded

(* All of what was begun is there when readseg is done.                    *)
LEMMA PartsRead ==
  ASSUME BootInv, boot \in {"header", "segments"}, ~ Reading, Progress,
         NEW i \in 1 .. ph, NEW a \in DOMAIN mem, a \in Extent(All[i])
  PROVE  HasByte(All[i], a)
<1>1. ph \in 1 .. Len(Sg) + 1 /\ Len(Sg) \in Nat /\ i \in 1 .. Len(Sg) + 1
  BY PartsAre DEF BootInv
<1>2. /\ All[i].p_pa \in Nat /\ end_of(All[i]) \in Nat /\ end_of(All[ph]) \in Nat
  BY <1>1, PartsAre DEF BootInv
<1>3. a \in Int /\ a < end_of(All[i])
  BY <1>2 DEF Extent
<1>4. pa \in Int /\ end_pa = end_of(All[ph]) /\ ~ (pa < end_pa)
  BY DEF Progress, Position, Reading
<1>5. i < ph \/ a < pa
  <2>1. i = ph => a < pa
    BY <1>2, <1>3, <1>4
  <2> QED BY <1>1, <2>1
<1> QED BY <1>5 DEF Progress, Parts

(* A segment comes next: its header is still there, and what was read of   *)
(* the one before is all of it.                                            *)
LEMMA HeaderKept ==
  ASSUME BootInv, boot = "segments", ~ Reading, Progress, Loadable, ph < eph
  PROVE  Proghdr(ph) = {Sg[ph]}
<1> DEFINE k == image.e_phoff + (ph - 1) * PhSize
<1>1. /\ image \in Images /\ Len(Sg) \in Nat /\ ph \in 1 .. Len(Sg)
      /\ image.e_phoff \in Nat /\ PhSize \in Nat \ {0}
      /\ image.e_phoff + Len(Sg) * PhSize <= HeaderSize
  <2>1. image \in Images /\ Len(Sg) \in Nat /\ ph \in 1 .. Len(Sg) + 1 /\ ph < Len(Sg) + 1
    BY PartsAre DEF BootInv, eph, Sg
  <2> QED BY <2>1, BootAssumption DEF Loadable, HeadersKept, Sg
<1>2. k \in Nat /\ k + PhSize <= HeaderSize
  <2> DEFINE u == (ph - 1) * PhSize
             w == Len(Sg) * PhSize
  <2>1. ph - 1 \in Nat /\ ph - 1 < Len(Sg)
    BY <1>1
  <2>2. u + PhSize <= w
    BY <1>1, <2>1, MulGap
  <2>3. u \in Nat /\ w \in Nat
    BY <1>1, <2>1, MulRange
  <2> HIDE DEF u, w
  <2>4. image.e_phoff + w <= HeaderSize
    BY <1>1 DEF w
  <2>5. image.e_phoff + u \in Nat /\ (image.e_phoff + u) + PhSize <= HeaderSize
    BY <1>1, <2>2, <2>3, <2>4, HeaderIs
  <2> QED BY <2>5 DEF u
<1> HIDE DEF k
<1>3. ASSUME NEW j \in k .. k + PhSize - 1
      PROVE  ELFHDR + j \in DOMAIN mem /\ mem[ELFHDR + j] = <<"file", j>>
  <2> DEFINE a == ELFHDR + j
  <2>1. j \in 0 .. HeaderSize - 1
    BY <1>1, <1>2, <1>3, HeaderIs
  <2>2. a \in Int /\ a \in ELFHDR .. (ELFHDR + HeaderSize) - 1 /\ (a - ELFHDR) + 0 = j
    BY <2>1, HeaderIs
  <2> HIDE DEF a
  <2>3. a \in Extent(Header)
    BY <2>2, HeaderIs DEF Extent
  <2>4. a \in DOMAIN mem
    BY <2>3 DEF BootInv
  <2>5. 1 \in 1 .. ph /\ All[1] = Header
    BY <1>1, PartsAre
  <2>6. HasByte(Header, a)
    BY <2>3, <2>4, <2>5, PartsRead
  <2>7. mem[a] = <<"file", j>>
    BY <2>2, <2>6, HeaderIs DEF HasByte
  <2> QED BY <2>4, <2>7 DEF a
<1>4. AtHeader(k, PhSize)
  BY <1>3 DEF AtHeader
<1> QED BY <1>4 DEF Proghdr, Sg, k

LEMMA NextSegmentStep ==
  ASSUME BootInv, next_segment
  PROVE  BootInv'
<1>1. /\ image' = image /\ mem' = mem /\ boot' = boot /\ boot = "segments" /\ ~ Reading
      /\ ph < eph /\ ph' = ph + 1 /\ wrapped' = wrapped
  BY DEF next_segment
<1>2. PICK s \in Proghdr(ph) : /\ end_pa' = s.p_pa + s.p_memsz /\ pa' = ROUNDDOWN(s.p_pa, SECTSIZE)
                               /\ offset' = (s.p_offset \div SECTSIZE) + 1
  BY DEF next_segment, readseg
<1>3. Sg' = Sg /\ All' = All /\ edata' = edata /\ end' = end /\ (Loadable' <=> Loadable)
  BY <1>1, ImageStays
<1>4. image \in Images /\ Len(Sg) \in Nat \ {0} /\ ph \in 1 .. Len(Sg)
  <2>1. image \in Images /\ ph \in 1 .. Len(Sg) + 1 /\ ph < Len(Sg) + 1
    BY <1>1 DEF BootInv, eph, Sg
  <2> QED BY <2>1, PartsAre
<1>5. ph + 1 \in 1 .. Len(Sg) + 1 /\ All[ph + 1] = Sg[ph]
  BY <1>4, PartsAre
<1>6. ASSUME Loadable, ~ wrapped PROVE Progress'
  <2>1. Progress
    BY <1>1, <1>6 DEF BootInv
  <2>2. s = All[ph + 1]
    BY <1>1, <1>2, <1>5, <1>6, <2>1, HeaderKept
  <2>3. /\ s.p_pa % SECTSIZE = s.p_offset % SECTSIZE
        /\ s.p_pa \in Nat /\ s.p_offset \in Nat /\ s.p_memsz \in Nat
    BY <1>4, <1>5, <1>6, <2>2, PartsAre, PartsFit
  <2>4. Position(s, pa', offset', end_pa') /\ pa' \in Int /\ pa' <= s.p_pa
    BY <1>2, <2>3, ReadsegIs
  <2>5. ASSUME NEW i \in 1 .. ph + 1, NEW a \in DOMAIN mem, a \in Extent(All[i]),
               i < ph + 1 \/ a < pa'
        PROVE  HasByte(All[i], a)
    <3>1. i # ph + 1
      <4> SUFFICES ASSUME i = ph + 1 PROVE FALSE
        OBVIOUS
      <4>1. a < pa' /\ a \in Extent(s)
        BY <1>4, <2>2, <2>5
      <4>2. a \in Int /\ s.p_pa <= a
        <5>1. s.p_pa \in Int /\ a \in s.p_pa .. end_of(s) - 1 /\ a \in Int
          BY <2>3, <4>1 DEF Extent, BootInv
        <5>2. end_of(s) \in Int
          BY <2>3 DEF end_of
        <5> QED BY <5>1, <5>2
      <4> QED BY <2>3, <2>4, <4>1, <4>2
    <3>2. i \in 1 .. ph
      BY <1>4, <3>1
    <3> QED BY <1>1, <2>1, <2>5, <3>2, PartsRead
  <2>6. Parts'
    <3>1. \A i, a : (HasByte(All[i], a))' <=> HasByte(All[i], a)
      BY <1>1, <1>3 DEF HasByte
    <3>2. \A i : (Extent(All[i]))' = Extent(All[i])
      BY <1>3 DEF Extent, end_of
    <3> QED BY <1>1, <1>3, <2>5, <3>1, <3>2 DEF Parts
  <2>7. All'[ph'] = s
    BY <1>1, <1>3, <2>2
  <2> QED BY <2>4, <2>6, <2>7 DEF Progress, Position, end_of, ROUNDDOWN
<1>7. Extent(Header)' = Extent(Header)
  BY DEF Extent, Header, end_of, HeaderSize
<1> QED BY <1>1, <1>3, <1>4, <1>5, <1>6, <1>7 DEF BootInv, KernelLoaded

(* A sector overwrites of the other parts only what it has in common with  *)
(* them, and that with the same.                                           *)
LEMMA SectorKeeps ==
  ASSUME image \in Images, ph \in 1 .. Len(Sg) + 1, Loadable, Straight, Progress, Reading,
         NEW i \in 1 .. ph, NEW a \in Int, a \in Sector, a \in Extent(All[i])
  PROVE  FileByte(a) = (a - All[i].p_pa) + All[i].p_offset
<1> DEFINE n == ph
           s == All[n]
           t == All[i]
           m == (offset - 1) * SECTSIZE
<1>1. n \in 1 .. Len(Sg) + 1 /\ i \in 1 .. Len(Sg) + 1
  <2>1. Len(Sg) \in Nat
    BY PartsAre
  <2> QED BY <2>1
<1>2. Position(s, pa, offset, end_pa)
  BY DEF Progress
<1>3. /\ s.p_pa \in Nat /\ s.p_offset \in Nat /\ end_of(s) \in Nat
      /\ t.p_pa \in Nat /\ t.p_offset \in Nat /\ end_of(t) \in Nat
  BY <1>1, PartsAre
<1>4. SECTSIZE \in Nat \ {0}
  BY BootAssumption
<1>5. /\ pa \in Int /\ offset \in Int /\ end_pa = end_of(s) /\ pa < end_of(s)
      /\ ROUNDDOWN(s.p_pa, SECTSIZE) <= pa /\ m = (pa - s.p_pa) + s.p_offset
  BY <1>2 DEF Position, Reading
<1>6. a \in pa .. pa + SECTSIZE - 1 /\ FileByte(a) = (a - pa) + m
  BY <1>5, SectorIs
<1>7. FileByte(a) = (a - s.p_pa) + s.p_offset
  <2> HIDE DEF m, s
  <2> QED BY <1>3, <1>5, <1>6
<1>8. a >= t.p_pa /\ a < end_of(t)
  BY <1>3 DEF Extent
<1>9. \/ Apart(s, t) \/ Apart(t, s)
      \/ t.p_pa - s.p_pa = t.p_offset - s.p_offset
  BY <1>1, PartsFit DEF Compatible
<1>10. ~ Apart(t, s)
  <2> SUFFICES ASSUME end_of(t) <= ROUNDDOWN(s.p_pa, SECTSIZE) PROVE FALSE
    BY DEF Apart
  <2>1. ROUNDDOWN(s.p_pa, SECTSIZE) \in Int
    <3>1. s.p_pa \in Int
      BY <1>3
    <3> QED BY <1>4, <3>1, DownIs
  <2> DEFINE d == ROUNDDOWN(s.p_pa, SECTSIZE)
             e == end_of(t)
  <2>2. d \in Int /\ e \in Int /\ e <= d /\ d <= pa /\ pa <= a /\ a < e
    BY <1>3, <1>5, <1>6, <1>8, <2>1
  <2> HIDE DEF d, e
  <2> QED BY <1>5, <2>2
<1>11. ~ Apart(s, t)
  <2> SUFFICES ASSUME end_of(s) <= ROUNDDOWN(t.p_pa, SECTSIZE) PROVE FALSE
    BY DEF Apart
  <2> DEFINE x == t.p_pa \div SECTSIZE
             d == x * SECTSIZE
             e == end_of(s)
             b == t.p_pa
  <2>1. b \in Nat /\ e \in Nat
    BY <1>3
  <2>2. e <= ROUNDDOWN(b, SECTSIZE) /\ b <= a /\ pa < e
    BY <1>5, <1>8
  <2> HIDE DEF b, e
  <2>3. /\ b % SECTSIZE \in 0 .. SECTSIZE - 1 /\ b \div SECTSIZE \in Int
        /\ b = (b \div SECTSIZE) * SECTSIZE + (b % SECTSIZE)
    <3>1. b \in Int
      BY <2>1
    <3> QED BY <1>4, <3>1, DownIs
  <2>4. x \in Int /\ b = d + (b % SECTSIZE)
    BY <2>3 DEF b
  <2> HIDE DEF x
  <2>5. d \in Int
    BY <1>4, <2>4
  <2>6. PICK q \in Int : pa = q * SECTSIZE
    BY <1>2 DEF Position
  <2>7. q < x => q * SECTSIZE + SECTSIZE <= x * SECTSIZE
    BY <1>4, <2>4, <2>6, MulGap
  <2>8. x < q => x * SECTSIZE + SECTSIZE <= q * SECTSIZE
    BY <1>4, <2>4, <2>6, MulGap
  <2> HIDE DEF d
  <2>9. e <= d /\ d <= b
    BY <1>4, <2>1, <2>2, <2>3, <2>4, <2>5 DEF ROUNDDOWN
  <2>10. q < x
    <3>1. x # q
      <4> SUFFICES ASSUME x = q PROVE FALSE
        OBVIOUS
      <4>1. d = pa
        BY <2>6 DEF d
      <4> QED BY <1>5, <2>1, <2>2, <2>9, <4>1
    <3>2. ~ (x < q)
      <4> SUFFICES ASSUME x < q PROVE FALSE
        OBVIOUS
      <4>1. d + SECTSIZE <= pa
        BY <2>6, <2>8 DEF d
      <4> QED BY <1>4, <1>5, <2>1, <2>2, <2>5, <2>9, <4>1
    <3> QED BY <2>4, <2>6, <3>1, <3>2
  <2>11. pa + SECTSIZE <= d
    BY <2>6, <2>7, <2>10 DEF d
  <2> QED BY <1>4, <1>5, <1>6, <2>1, <2>2, <2>5, <2>9, <2>11
<1>12. t.p_pa - s.p_pa = t.p_offset - s.p_offset
  BY <1>9, <1>10, <1>11
<1>13. FileByte(a) = (a - t.p_pa) + t.p_offset
  <2> DEFINE sp == s.p_pa
             so == s.p_offset
             tp == t.p_pa
             to == t.p_offset
  <2>1. sp \in Nat /\ so \in Nat /\ tp \in Nat /\ to \in Nat /\ tp - sp = to - so
    BY <1>3, <1>12
  <2>2. FileByte(a) = (a - sp) + so
    BY <1>7
  <2> HIDE DEF sp, so, tp, to
  <2>3. (a - sp) + so = (a - tp) + to
    BY <2>1
  <2>4. FileByte(a) = (a - tp) + to
    BY <2>2, <2>3
  <2> QED BY <2>4 DEF tp, to
<1> QED BY <1>13 DEF t

LEMMA InslStep ==
  ASSUME BootInv, readsect_insl
  PROVE  BootInv'
<1>1. /\ image' = image /\ boot' = boot /\ ph' = ph /\ end_pa' = end_pa /\ Reading
      /\ pa' = pa + SECTSIZE /\ offset' = offset + 1
      /\ mem' = [a \in DOMAIN mem |-> IF a \in Sector THEN <<"file", FileByte(a)>> ELSE mem[a]]
  BY DEF readsect_insl
<1>2. ~ wrapped' => ~ wrapped /\ Straight
  BY DEF readsect_insl, Straight
<1>3. /\ mem' = [a \in DOMAIN mem' |-> mem'[a]] /\ DOMAIN mem' = DOMAIN mem
      /\ \A a \in DOMAIN mem : mem'[a] = IF a \in Sector THEN <<"file", FileByte(a)>> ELSE mem[a]
  BY <1>1
<1>4. Sg' = Sg /\ All' = All /\ edata' = edata /\ end' = end /\ (Loadable' <=> Loadable)
  BY <1>1, <1>3, ImageStays
<1>5. image \in Images /\ ph \in 1 .. Len(Sg) + 1 /\ SECTSIZE \in Nat \ {0} /\ DOMAIN mem \subseteq Int
  BY BootAssumption DEF BootInv
<1>6. ASSUME Loadable, ~ wrapped' PROVE Progress'
  <2>1. Progress /\ Straight
    BY <1>1, <1>2, <1>6 DEF BootInv, Reading
  <2> DEFINE s == All[ph]
  <2>2. Position(s, pa, offset, end_pa) /\ s.p_pa \in Nat /\ s.p_offset \in Nat
    BY <1>5, <2>1, PartsAre DEF Progress
  <2>3. /\ pa \in Int /\ offset \in Int /\ ROUNDDOWN(s.p_pa, SECTSIZE) <= pa
        /\ (offset - 1) * SECTSIZE = (pa - s.p_pa) + s.p_offset
    BY <2>2 DEF Position
  <2>4. ROUNDDOWN(s.p_pa, SECTSIZE) <= pa'
    <3> DEFINE d == ROUNDDOWN(s.p_pa, SECTSIZE)
    <3>1. d \in Int
      <4>1. s.p_pa \in Int
        BY <2>2
      <4> HIDE DEF s
      <4> QED BY <1>5, <4>1, DownIs
    <3>2. d <= pa
      BY <2>3
    <3> HIDE DEF d
    <3>3. d <= pa'
      BY <1>1, <1>5, <2>3, <3>1, <3>2
    <3> QED BY <3>3 DEF d
  <2>5. \E q \in Int : pa' = q * SECTSIZE
    <3>1. PICK q \in Int : pa = q * SECTSIZE
      BY <2>2 DEF Position
    <3>2. (q + 1) * SECTSIZE = q * SECTSIZE + SECTSIZE /\ q + 1 \in Int
      BY <1>5
    <3> QED BY <1>1, <3>1, <3>2
  <2>6. (offset' - 1) * SECTSIZE = (pa' - s.p_pa) + s.p_offset
    <3> DEFINE m == (offset - 1) * SECTSIZE
    <3>1. (offset' - 1) * SECTSIZE = m + SECTSIZE
      BY <1>1, <1>5, <2>3
    <3>2. m = (pa - s.p_pa) + s.p_offset
      BY <2>3
    <3> HIDE DEF m, s
    <3> QED BY <1>1, <1>5, <2>2, <2>3, <3>1, <3>2
  <2>7. pa' \in Int /\ offset' \in Int /\ end_pa' = end_of(s)
    <3>1. end_pa' = end_of(s)
      BY <1>1, <2>2 DEF Position
    <3> HIDE DEF s
    <3> QED BY <1>1, <1>5, <2>3, <3>1
  <2>8. Position(s, pa', offset', end_pa')
    BY <2>4, <2>5, <2>6, <2>7 DEF Position
  <2>9. ASSUME NEW i \in 1 .. ph, NEW a \in DOMAIN mem, a \in Extent(All[i]), i < ph \/ a < pa'
        PROVE  mem'[a] = <<"file", (a - All[i].p_pa) + All[i].p_offset>>
    <3>1. CASE a \in Sector
      <4>1. a \in Int
        BY <1>5
      <4>2. FileByte(a) = (a - All[i].p_pa) + All[i].p_offset
        BY <1>1, <1>5, <1>6, <2>1, <2>9, <3>1, <4>1, SectorKeeps
      <4> QED BY <1>3, <3>1, <4>2
    <3>2. CASE a \notin Sector
      <4>1. i < ph \/ a < pa
        <5> SUFFICES ASSUME i = ph, ~ (a < pa) PROVE FALSE
          BY <1>5, <2>9, PartsAre
        <5>1. a \in Int /\ (a \in Sector <=> a \in pa .. pa + SECTSIZE - 1)
          BY <1>5, <2>1, <2>3, SectorIs
        <5>2. a < pa'
          <6>1. ph \in Int
            BY <1>5, PartsAre
          <6> QED BY <2>9, <6>1
        <5> QED BY <1>1, <1>5, <2>3, <3>2, <5>1, <5>2
      <4>2. HasByte(All[i], a)
        BY <2>1, <2>9, <4>1 DEF Progress, Parts
      <4> QED BY <1>3, <3>2, <4>2 DEF HasByte
    <3> QED BY <3>1, <3>2
  <2>10. Parts'
    <3>1. \A i : (Extent(All[i]))' = Extent(All[i])
      BY <1>4 DEF Extent, end_of
    <3>2. \A i, a : (HasByte(All[i], a))' <=> mem'[a] = <<"file", (a - All[i].p_pa) + All[i].p_offset>>
      BY <1>4 DEF HasByte
    <3>3. Parts' <=> \A i \in 1 .. ph : \A a \in DOMAIN mem :
                       a \in (Extent(All[i]))' /\ (i < ph \/ a < pa') => (HasByte(All[i], a))'
      BY <1>1, <1>3 DEF Parts
    <3> QED BY <2>9, <3>1, <3>2, <3>3
  <2>11. All'[ph'] = s
    BY <1>1, <1>4
  <2> QED BY <2>8, <2>10, <2>11 DEF Progress, Position, end_of, ROUNDDOWN
<1>7. Extent(Header)' = Extent(Header)
  BY DEF Extent, Header, end_of, HeaderSize
<1>8. boot \in {"header", "segments"}
  BY <1>1 DEF Reading
<1> QED BY <1>1, <1>3, <1>4, <1>5, <1>6, <1>7, <1>8 DEF BootInv, KernelLoaded

(* The last segment is in memory; then bss is cleared, and nothing else.   *)
LEMMA EntryStep ==
  ASSUME BootInv, entry
  PROVE  BootInv'
<1>1. /\ UNCHANGED <<image, mem, ph, pa, end_pa, offset, wrapped>>
      /\ boot = "segments" /\ ~ Reading /\ ph = Len(Sg) + 1
      /\ \/ boot' = "i386_init" /\ ~ wrapped
         \/ boot' = "astray"
  BY DEF entry, loading, eph, Sg
<1>2. CASE boot' = "astray"
  BY <1>1, <1>2, SameParts
<1>3. CASE boot' = "i386_init" /\ ~ wrapped
  <2>1. Sg' = Sg /\ All' = All /\ edata' = edata /\ end' = end /\ (Loadable' <=> Loadable)
    BY <1>1, ImageStays
  <2>2. ASSUME Loadable, NEW i \in 1 .. Len(Sg), NEW a \in DOMAIN mem, a \in Extent(Sg[i])
        PROVE  HasByte(Sg[i], a)
    <3>1. Progress /\ image \in Images
      BY <1>1, <1>3, <2>2 DEF BootInv
    <3>2. i + 1 \in 1 .. ph /\ All[i + 1] = Sg[i]
      BY <1>1, <3>1, PartsAre
    <3>3. HasByte(All[i + 1], a)
      BY <1>1, <2>2, <3>1, <3>2, PartsRead
    <3> QED BY <3>2, <3>3
  <2>3. Loadable' => AllIn'
    BY <1>1, <2>1, <2>2 DEF AllIn, HasByte, Extent, end_of
  <2>4. Extent(Header)' = Extent(Header)
    BY DEF Extent, Header, end_of, HeaderSize
  <2> QED BY <1>1, <1>3, <2>1, <2>3, <2>4 DEF BootInv, KernelLoaded
<1> QED BY <1>1, <1>2, <1>3

LEMMA ClearStep ==
  ASSUME BootInv, i386_init
  PROVE  BootInv'
<1>1. /\ UNCHANGED <<image, ph, pa, end_pa, offset, wrapped>> /\ boot = "i386_init"
      /\ \/ mem' = memset(mem, edata, <<"zero">>, end - edata) /\ boot' = "mem_init"
         \/ mem' = mem /\ boot' = "fault"
  BY DEF i386_init
<1>2. Extent(Header)' = Extent(Header)
  BY DEF Extent, Header, end_of, HeaderSize
<1>3. image \in Images /\ (Loadable => AllIn)
  BY <1>1 DEF BootInv
<1>4. CASE mem' = mem /\ boot' = "fault"
  <2>1. Sg' = Sg
    BY <1>1, <1>4, ImageStays
  <2> QED BY <1>1, <1>2, <1>4, <2>1 DEF BootInv, KernelLoaded
<1>5. CASE mem' = memset(mem, edata, <<"zero">>, end - edata) /\ boot' = "mem_init"
  <2>1. /\ mem' = [a \in DOMAIN mem' |-> mem'[a]] /\ DOMAIN mem' = DOMAIN mem
        /\ \A a \in DOMAIN mem :
             mem'[a] = IF a - edata \in 0 .. (end - edata) - 1 THEN <<"zero">> ELSE mem[a]
    BY <1>5 DEF memset
  <2>2. Sg' = Sg /\ All' = All /\ edata' = edata /\ end' = end /\ (Loadable' <=> Loadable)
    BY <1>1, <2>1, ImageStays
  <2>3. ASSUME Loadable
        PROVE  /\ \A s \in ToSet(Sg) : \A k \in 0 .. s.p_filesz - 1 :
                    mem'[s.p_pa + k] = <<"file", s.p_offset + k>>
               /\ \A a \in edata .. end - 1 : mem'[a] = <<"zero">>
    <3>1. edata \in Nat /\ end \in Nat /\ edata .. end - 1 \subseteq DOMAIN mem
      BY <1>3, <2>3, BssIn
    <3>2. ASSUME NEW a \in edata .. end - 1 PROVE mem'[a] = <<"zero">>
      <4>1. a - edata \in 0 .. (end - edata) - 1
        BY <3>1
      <4> QED BY <2>1, <3>1, <4>1
    <3>3. ASSUME NEW s \in ToSet(Sg), NEW k \in 0 .. s.p_filesz - 1
          PROVE  mem'[s.p_pa + k] = <<"file", s.p_offset + k>>
      <4>1. PICK i \in 1 .. Len(Sg) : s = Sg[i]
        BY <1>3, SegmentsAre
      <4>2. /\ s.p_pa \in Nat /\ s.p_offset \in Nat /\ s.p_filesz \in Nat /\ s.p_memsz \in Nat
            /\ s.p_filesz <= s.p_memsz
        BY <1>3, <4>1, SegmentsAre
      <4>3. s.p_pa + s.p_filesz <= edata /\ Extent(s) \subseteq DOMAIN mem
        BY <2>3 DEF Loadable, Sg, Extent
      <4> DEFINE a == s.p_pa + k
      <4>4. a < edata /\ a \in Extent(s) /\ a \in Int
        <5> DEFINE b == s.p_pa
                   f == s.p_filesz
                   z == s.p_memsz
        <5>1. /\ b \in Nat /\ f \in Nat /\ z \in Nat /\ f <= z /\ b + f <= edata /\ k \in 0 .. f - 1
              /\ Extent(s) = b .. (b + z) - 1 /\ a = b + k
          BY <4>2, <4>3 DEF Extent, end_of
        <5> HIDE DEF b, f, z, a
        <5>2. a \in Int /\ a < edata
          BY <3>1, <5>1
        <5>3. a \in b .. (b + z) - 1
          BY <5>1
        <5> QED BY <5>1, <5>2, <5>3
      <4>5. (a - s.p_pa) + s.p_offset = s.p_offset + k
        BY <4>2
      <4> HIDE DEF a
      <4>6. a \in DOMAIN mem
        BY <4>3, <4>4
      <4>7. mem[a] = <<"file", (a - s.p_pa) + s.p_offset>>
        BY <1>3, <2>3, <4>1, <4>4, <4>6 DEF AllIn, HasByte
      <4>8. ~ (a - edata \in 0 .. (end - edata) - 1)
        BY <3>1, <4>4
      <4>9. mem'[a] = mem[a]
        BY <2>1, <4>6, <4>8
      <4> QED BY <4>5, <4>7, <4>9 DEF a
    <3> QED BY <3>2, <3>3
  <2>4. KernelLoaded'
    BY <1>1, <2>2, <2>3 DEF KernelLoaded, Bss, Sg
  <2> QED BY <1>1, <1>2, <1>5, <2>1, <2>2, <2>4 DEF BootInv
<1> QED BY <1>1, <1>4, <1>5

(* The headers are read to where there is memory.                          *)
LEMMA HeadersHaveMemory ==
  ASSUME PowerOn
  PROVE  Extent(Header) \subseteq DOMAIN mem /\ DOMAIN mem \subseteq Int
<1>1. DOMAIN mem = {a \in 0 .. npages * PGSIZE - 1 : IsMemory(a \div PGSIZE)}
  BY DEF PowerOn
<1>2. /\ npages_basemem \in 1 .. IOPHYSMEM /\ npages_basemem \in Base /\ npages \in Nat
      /\ npages_basemem <= npages /\ PGSIZE \in Nat \ {0}
      /\ ELFHDR + HeaderSize <= npages_basemem * PGSIZE
  <2>1. /\ Base \subseteq 1 .. IOPHYSMEM /\ Ext \subseteq Nat /\ IOPHYSMEM \in Nat /\ EXTPHYSMEM \in Nat
        /\ IOPHYSMEM < EXTPHYSMEM /\ npages_basemem \in Base
    BY MemInitAssumption DEF PowerOn, Init
  <2>2. PICK ext \in Ext : npages = IF ext > 0 THEN EXTPHYSMEM + ext ELSE npages_basemem
    BY DEF PowerOn, Init
  <2>3. npages \in Nat /\ npages_basemem <= npages /\ npages_basemem \in 1 .. IOPHYSMEM
    <3>1. npages_basemem \in 1 .. IOPHYSMEM /\ ext \in Nat
      BY <2>1
    <3>2. CASE ext > 0
      BY <2>1, <2>2, <3>1, <3>2
    <3>3. CASE ~ (ext > 0)
      BY <2>1, <2>2, <3>1, <3>3
    <3> QED BY <3>2, <3>3
  <2>4. PGSIZE \in Nat \ {0} /\ ELFHDR + HeaderSize <= npages_basemem * PGSIZE
    BY <2>1, BootAssumption
  <2> QED BY <2>1, <2>3, <2>4
<1> DEFINE y == npages_basemem * PGSIZE
           z == npages * PGSIZE
<1>3. y \in Nat /\ z \in Nat /\ y <= z
  <2>1. npages_basemem < npages => y + PGSIZE <= z
    BY <1>2, MulGap
  <2>2. npages_basemem = npages => y = z
    OBVIOUS
  <2>3. y \in Nat /\ z \in Nat
    BY <1>2, MulRange
  <2> HIDE DEF y, z
  <2> QED BY <1>2, <2>1, <2>2, <2>3
<1>4. ASSUME NEW a \in Extent(Header) PROVE a \in DOMAIN mem
  <2>1. a \in Nat /\ a < y
    <3>1. a \in ELFHDR .. (ELFHDR + HeaderSize) - 1 /\ ELFHDR + HeaderSize <= y
      BY <1>2, HeaderIs DEF Extent
    <3> HIDE DEF y
    <3> QED BY <1>3, <3>1, HeaderIs
  <2>2. a \div PGSIZE \in 0 .. npages_basemem - 1
    <3>1. npages_basemem \in Int /\ a < npages_basemem * PGSIZE
      BY <1>2, <2>1
    <3> QED BY <1>2, <2>1, <3>1, DivBelow
  <2>3. IsMemory(a \div PGSIZE)
    BY <2>2 DEF IsMemory
  <2>4. a \in 0 .. z - 1
    <3> HIDE DEF y, z
    <3> QED BY <1>3, <2>1
  <2> QED BY <1>1, <2>3, <2>4
<1>5. DOMAIN mem \subseteq Int
  <2> HIDE DEF z
  <2> QED BY <1>1, <1>3 DEF z
<1> QED BY <1>4, <1>5

LEMMA BootAlways ==
  Startup => []BootInv
<1>1. PowerOn => BootInv
  <2> SUFFICES ASSUME PowerOn PROVE BootInv
    OBVIOUS
  <2>1. image \in Images /\ boot = "seta20.1" /\ ph = 1 /\ mem = [a \in DOMAIN mem |-> mem[a]]
    BY DEF PowerOn
  <2>2. ph \in 1 .. Len(Sg) + 1
    BY <2>1, PartsAre
  <2> QED BY <2>1, <2>2, HeadersHaveMemory DEF BootInv, KernelLoaded
<1>2. BootInv /\ [StartupNext]_all_vars => BootInv'
  <2> SUFFICES ASSUME BootInv, [StartupNext]_all_vars PROVE BootInv'
    OBVIOUS
  <2>1. CASE Load \/ Devices
    BY <2>1, DeviceSteps, BootmainStep, NextSegmentStep, InslStep, EntryStep, ClearStep
    DEF Load, Devices
  <2>2. CASE UNCHANGED boot_vars
    <3>1. UNCHANGED <<image, boot, mem, ph, pa, end_pa, offset, wrapped>>
      BY <2>2 DEF boot_vars, loading
    <3> QED BY <3>1, SameParts
  <2> QED BY <2>1, <2>2 DEF StartupNext, mem_init, all_vars
<1> QED BY <1>1, <1>2, PTL DEF Startup

(* When mem_init begins, every byte of every segment of a loadable kernel, *)
(* whose headers no segment overwrites, is the one in the file, and bss is *)
(* zero, although every header was read from memory after the segments     *)
(* before it, whatever whole sectors have overwritten and in whatever      *)
(* order disk and keyboard controller answered.  (bootmain, readseg,       *)
(* seta20, i386_init)                                                      *)
THEOREM KernelInMemory ==
  Startup => []KernelLoaded
<1>1. BootInv => KernelLoaded
  BY DEF BootInv
<1> QED BY <1>1, BootAlways, PTL

============================================================================
