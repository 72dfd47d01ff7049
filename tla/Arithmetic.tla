---------------------------- MODULE Arithmetic ----------------------------
(***************************************************************************)
(* Facts about % and \div for a divisor that is a constant of a module:    *)
(* slots of the environment table, generations of env_ids, positions in    *)
(* the console's ring.  And least and greatest elements, and induction for *)
(* the elements of a set, for what definitions by CHOOSE and recursive     *)
(* functions compute.                                                      *)
(***************************************************************************)
EXTENDS Integers, WellFoundedInduction, TLAPS

LEMMA ModRange ==
  ASSUME NEW a \in Int, NEW b \in Nat \ {0}
  PROVE  /\ a % b \in 0 .. b - 1
         /\ a \div b \in Int
         /\ a = (a \div b) * b + (a % b)
OBVIOUS

LEMMA MulGap ==
  ASSUME NEW x \in Int, NEW y \in Int, x < y, NEW b \in Nat \ {0}
  PROVE  x * b + b <= y * b
<1>1. PICK d \in Nat : y = x + 1 + d
  <2>1. y - x - 1 \in Nat /\ y = x + 1 + (y - x - 1)
    OBVIOUS
  <2> QED BY <2>1
<1>2. d * b >= 0
  OBVIOUS
<1>3. y * b = x * b + b + d * b
  BY <1>1
<1> QED BY <1>2, <1>3

LEMMA MulRange ==
  ASSUME NEW x \in Nat, NEW b \in Nat \ {0}
  PROVE  x * b \in Nat /\ (x > 0 => x * b >= b)
<1>1. x * b \in Nat
  OBVIOUS
<1>2. x > 0 => x * b >= b
  BY MulGap
<1> QED BY <1>1, <1>2

(* Quotient and remainder are unique.                                      *)
LEMMA DivUnique ==
  ASSUME NEW b \in Nat \ {0}, NEW q \in Int, NEW c \in Int,
         NEW r \in 0 .. b - 1, NEW s \in 0 .. b - 1, q * b + r = c * b + s
  PROVE  q = c /\ r = s
<1>1. ~(q < c)
  <2> SUFFICES ASSUME q < c PROVE FALSE
    OBVIOUS
  <2>1. q * b + b <= c * b
    BY MulGap
  <2> QED BY <2>1
<1>2. ~(c < q)
  <2> SUFFICES ASSUME c < q PROVE FALSE
    OBVIOUS
  <2>1. c * b + b <= q * b
    BY MulGap
  <2> QED BY <2>1
<1>3. q = c
  BY <1>1, <1>2
<1> QED BY <1>3

LEMMA ModUnique ==
  ASSUME NEW b \in Nat \ {0}, NEW q \in Int, NEW r \in 0 .. b - 1
  PROVE  (q * b + r) % b = r
<1> DEFINE a == q * b + r
           c == a \div b
           s == a % b
<1>1. a \in Int
  OBVIOUS
<1> HIDE DEF a
<1>2. c \in Int /\ s \in 0 .. b - 1 /\ a = c * b + s
  BY <1>1, ModRange
<1> HIDE DEF c, s
<1>3. q * b + r = c * b + s
  BY <1>2 DEF a
<1>4. s = r
  BY <1>2, <1>3, DivUnique
<1> QED BY <1>4 DEF s, a

LEMMA ModSmall ==
  ASSUME NEW b \in Nat \ {0}, NEW r \in 0 .. b - 1
  PROVE  r % b = r
<1>1. (0 * b + r) % b = r
  BY ModUnique
<1>2. 0 * b + r = r
  OBVIOUS
<1> QED BY <1>1, <1>2

(* The remainder of the next number.                                       *)
LEMMA ModNext ==
  ASSUME NEW b \in Nat \ {0}, NEW a \in Int
  PROVE  (a + 1) % b = IF a % b = b - 1 THEN 0 ELSE (a % b) + 1
<1> DEFINE q == a \div b
           r == a % b
<1>1. q \in Int /\ r \in 0 .. b - 1 /\ a = q * b + r
  BY ModRange
<1> HIDE DEF q, r
<1>2. CASE r = b - 1
  <2>1. a + 1 = (q + 1) * b + 0
    BY <1>1, <1>2
  <2>2. ((q + 1) * b + 0) % b = 0
    BY <1>1, ModUnique
  <2>3. (a + 1) % b = 0
    BY <2>1, <2>2
  <2> QED BY <2>3, <1>2 DEF r
<1>3. CASE r # b - 1
  <2>1. a + 1 = q * b + (r + 1) /\ r + 1 \in 0 .. b - 1
    BY <1>1, <1>3
  <2>2. (q * b + (r + 1)) % b = r + 1
    BY <1>1, <2>1, ModUnique
  <2>3. (a + 1) % b = r + 1
    BY <2>1, <2>2
  <2> QED BY <2>3, <1>3 DEF r
<1> QED BY <1>2, <1>3

(* Numbers with the same remainder differ by a multiple, so two of them    *)
(* within b of each other are the same.                                    *)
LEMMA ModSame ==
  ASSUME NEW b \in Nat \ {0}, NEW m \in Int, NEW n \in Int, m % b = n % b
  PROVE  /\ (n - m) % b = 0
         /\ m < n => n - m >= b
<1> DEFINE r == m % b
           p == m \div b
           q == n \div b
<1>1. p \in Int /\ q \in Int /\ r \in 0 .. b - 1 /\ m = p * b + r /\ n = q * b + r
  BY ModRange
<1> HIDE DEF r, p, q
<1>2. n - m = (q - p) * b + 0 /\ q - p \in Int
  BY <1>1
<1>3. (n - m) % b = 0
  <2>1. ((q - p) * b + 0) % b = 0
    BY <1>2, ModUnique
  <2> QED BY <2>1, <1>2
<1>4. ASSUME m < n PROVE n - m >= b
  <2>1. p < q
    <3> SUFFICES ASSUME ~(p < q) PROVE FALSE
      OBVIOUS
    <3>1. q < p \/ q = p
      BY <1>1
    <3>2. CASE q = p
      BY <1>1, <1>4, <3>2
    <3>3. CASE q < p
      <4>1. q * b + b <= p * b
        BY <1>1, <3>3, MulGap
      <4> QED BY <4>1, <1>1, <1>4
    <3> QED BY <3>1, <3>2, <3>3
  <2>2. p * b + b <= q * b
    BY <1>1, <2>1, MulGap
  <2> QED BY <2>2, <1>1
<1> QED BY <1>3, <1>4

----------------------------------------------------------------------------
LEMMA LeastNat ==
  ASSUME NEW T, T \subseteq Nat, T # {}
  PROVE  \E x \in T : \A y \in T : x <= y
<1> DEFINE R == {ss \in Nat \X Nat : ss[1] < ss[2]}
<1>1. IsWellFoundedOn(R, Nat)
  BY NatLessThanWellFounded DEF OpToRel
<1> HIDE DEF R
<1>2. PICK x \in T : \A y \in T : ~ (<<y, x>> \in R)
  BY <1>1, WFMin
<1>3. ASSUME NEW y \in T PROVE x <= y
  <2>1. y \in Nat /\ x \in Nat
    OBVIOUS
  <2>2. y < x => <<y, x>> \in R
    BY <2>1 DEF R
  <2> QED BY <1>2, <2>1, <2>2
<1> QED BY <1>3

(* Induction over the natural numbers, for membership in a set.            *)
LEMMA SetInduction ==
  ASSUME NEW S, 0 \in S, \A n \in Nat : n \in S => n + 1 \in S
  PROVE  Nat \subseteq S
<1> SUFFICES ASSUME Nat \ S # {} PROVE FALSE
  OBVIOUS
<1>1. PICK x \in Nat \ S : \A y \in Nat \ S : x <= y
  BY LeastNat
<1>2. x # 0 /\ x - 1 \in Nat
  BY <1>1
<1>3. x - 1 \in S
  BY <1>1, <1>2
<1> QED BY <1>1, <1>2, <1>3

LEMMA Least ==
  ASSUME NEW a \in Int, NEW b \in Int, NEW S, S \subseteq a .. b, S # {}
  PROVE  \E x \in S : \A y \in S : x <= y
<1> DEFINE T == {y - a : y \in S}
<1>1. T \subseteq Nat /\ T # {}
  OBVIOUS
<1>2. PICK t \in T : \A u \in T : t <= u
  BY <1>1, LeastNat
<1>3. PICK x \in S : t = x - a
  OBVIOUS
<1>4. \A y \in S : x - a <= y - a
  BY <1>2, <1>3
<1> QED BY <1>4

LEMMA Greatest ==
  ASSUME NEW a \in Int, NEW b \in Int, NEW S, S \subseteq a .. b, S # {}
  PROVE  \E x \in S : \A y \in S : y <= x
<1> DEFINE T == {b - y : y \in S}
<1>1. T \subseteq Nat /\ T # {}
  OBVIOUS
<1>2. PICK t \in T : \A u \in T : t <= u
  BY <1>1, LeastNat
<1>3. PICK x \in S : t = b - x
  OBVIOUS
<1>4. \A y \in S : b - x <= b - y
  BY <1>2, <1>3
<1> QED BY <1>4

(* The first place from i on that belongs to T, or the one after the last. *)
LEMMA FirstFrom ==
  ASSUME NEW i \in Int, NEW n \in Int, i <= n + 1, NEW T
  PROVE  \E j \in i .. n + 1 : /\ \A k \in i .. j - 1 : k \notin T
                               /\ j <= n => j \in T
<1> DEFINE S == {j \in i .. n + 1 : j \in T \/ j = n + 1}
<1>1. i \in Int /\ n + 1 \in Int
  OBVIOUS
<1>2. S \subseteq i .. n + 1 /\ n + 1 \in S
  BY <1>1
<1>3. S # {}
  BY <1>2
<1> HIDE DEF S
<1>4. PICK j \in S : \A y \in S : j <= y
  BY <1>1, <1>2, <1>3, Least
<1> USE DEF S
<1>5. \A k \in i .. j - 1 : k \notin T
  BY <1>4
<1> QED BY <1>4, <1>5

(* The last place up to n that belongs to T, or the one before i.          *)
LEMMA LastUpTo ==
  ASSUME NEW i \in Int, NEW n \in Int, i - 1 <= n, NEW T
  PROVE  \E j \in i - 1 .. n : /\ j >= i => j \in T
                               /\ \A k \in j + 1 .. n : k \notin T
<1> DEFINE S == {j \in i - 1 .. n : j \in T \/ j = i - 1}
<1>1. i - 1 \in Int /\ n \in Int
  OBVIOUS
<1>2. S \subseteq i - 1 .. n /\ i - 1 \in S
  BY <1>1
<1>3. S # {}
  BY <1>2
<1> HIDE DEF S
<1>4. PICK j \in S : \A y \in S : y <= j
  BY <1>1, <1>2, <1>3, Greatest
<1> USE DEF S
<1>5. \A k \in j + 1 .. n : k \notin T
  BY <1>4
<1> QED BY <1>4, <1>5

(* What lies below a multiple of b has a quotient below it.                *)
LEMMA DivBelow ==
  ASSUME NEW b \in Nat \ {0}, NEW a \in Nat, NEW c \in Int, a < c * b
  PROVE  a \div b \in 0 .. c - 1
<1> DEFINE q == a \div b
           r == a % b
<1>1. q \in Int /\ r \in 0 .. b - 1 /\ a = q * b + r
  BY ModRange
<1> HIDE DEF q, r
<1>2. ~ (q < 0)
  <2> SUFFICES ASSUME q < 0 PROVE FALSE
    OBVIOUS
  <2>1. q * b + b <= 0 * b
    BY <1>1, MulGap
  <2> QED BY <1>1, <2>1
<1>3. ~ (c < q) /\ c # q
  <2>1. c < q => c * b + b <= q * b
    BY <1>1, MulGap
  <2> QED BY <1>1, <2>1
<1> QED BY <1>1, <1>2, <1>3 DEF q
=============================================================================
