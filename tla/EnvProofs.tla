----------------------------- MODULE EnvProofs -----------------------------
(***************************************************************************)
(* Proofs about kern/env.c: first about Env, for any number of slots and   *)
(* any width of envid_t, then about LoadIcode.                             *)
(*                                                                         *)
(* What the invariants of Env say about ids rests on one fact: the n-th    *)
(* env_id of a slot is known.  Generations count up from 1 to Cycle and    *)
(* begin again at 1 when the sum turns negative, so that the ids of a slot *)
(* repeat after Cycle births and not earlier, and ids of different slots   *)
(* never agree.                                                            *)
(***************************************************************************)
EXTENDS Env, LoadIcode, Arithmetic, SequenceTheorems

(* The generation of the n-th environment of a slot, and its env_id.       *)
Nth(n) == ((n - 1) % Cycle) + 1
IdOf(e, n) == Nth(n) * GenStep + e

Births(e) == Len(history[e])

HistoryExact == \A e \in Slot : \A n \in 1 .. Births(e) : history[e][n] = IdOf(e, n)

LatestId ==
  \A e \in Slot :
    envs[e].env_id = IF Births(e) = 0 THEN 0 ELSE history[e][Births(e)]

BornBefore == \A e \in Slot : envs[e].env_status # "ENV_FREE" => Births(e) > 0

(* env_parent_id is the id that the parent had when it made the child.     *)
ParentExact ==
  \A e \in Slot : envs[e].env_status # "ENV_FREE" =>
    IF parent[e] = NULL THEN envs[e].env_parent_id = 0
    ELSE \E p \in Slot : \E k \in 1 .. Births(p) :
           parent[e] = <<p, k>> /\ envs[e].env_parent_id = history[p][k]

(* The inductive invariant.                                                *)
EInv == StatusExact /\ HistoryExact /\ LatestId /\ BornBefore /\ ParentExact

----------------------------------------------------------------------------
(* Generations: multiples of GenStep below Half, hence of NENV.            *)

LEMMA CycleIs == Cycle \in Nat \ {0} /\ Half = (Cycle + 1) * GenStep
<1> DEFINE k == Half \div GenStep
<1>1. k \in Int /\ Half = k * GenStep
  <2>1. Half % GenStep = 0 /\ Half \in Int /\ GenStep \in Nat \ {0}
    BY EnvAssumption
  <2> QED BY <2>1, ModRange
<1> HIDE DEF k
<1>2. k > 1
  <2> SUFFICES ASSUME k <= 1 PROVE FALSE
    BY <1>1
  <2>1. k = 1 \/ k < 1
    BY <1>1
  <2>2. k < 1 => k * GenStep + GenStep <= 1 * GenStep
    BY <1>1, EnvAssumption, MulGap
  <2> QED BY <1>1, <2>1, <2>2, EnvAssumption
<1>3. Cycle = k - 1
  BY DEF Cycle, k
<1> QED BY <1>1, <1>2, <1>3

LEMMA SlotMod ==
  ASSUME NEW e \in Slot, NEW k \in Int
  PROVE  (k * GenStep + e) % NENV = e
<1> DEFINE q == GenStep \div NENV
<1>1. q \in Int /\ GenStep = q * NENV
  BY EnvAssumption, ModRange
<1> HIDE DEF q
<1>2. k * GenStep + e = (k * q) * NENV + e /\ k * q \in Int
  BY <1>1, EnvAssumption DEF Slot
<1>3. ((k * q) * NENV + e) % NENV = e
  BY <1>2, ModUnique, EnvAssumption DEF Slot
<1> QED BY <1>2, <1>3

LEMMA SlotSize == \A e \in Slot : e \in Nat /\ e < GenStep
<1>1. NENV <= GenStep
  <2>1. CASE GenStep < NENV
    <3>1. GenStep \in 0 .. NENV - 1
      BY <2>1, EnvAssumption
    <3>2. GenStep % NENV = GenStep
      BY <3>1, ModSmall, EnvAssumption
    <3> QED BY <3>2, EnvAssumption
  <2> QED BY <2>1, EnvAssumption
<1> QED BY <1>1, EnvAssumption DEF Slot

LEMMA Int32Is ==
  ASSUME NEW x \in 0 .. 2 * Half - 1
  PROVE  Int32(x) = IF x < Half THEN x ELSE x - 2 * Half
<1>1. 2 * Half \in Nat \ {0} /\ Half \in Nat
  BY EnvAssumption
<1>2. CASE x < Half
  <2>1. x + Half \in 0 .. 2 * Half - 1
    BY <1>1, <1>2
  <2>2. (x + Half) % (2 * Half) = x + Half
    BY <1>1, <2>1, ModSmall
  <2> QED BY <1>1, <1>2, <2>2 DEF Int32
<1>3. CASE x >= Half
  <2>1. x - Half \in 0 .. 2 * Half - 1
    BY <1>1, <1>3
  <2>2. (1 * (2 * Half) + (x - Half)) % (2 * Half) = x - Half
    BY <1>1, <2>1, ModUnique
  <2>3. 1 * (2 * Half) + (x - Half) = x + Half
    BY <1>1
  <2>4. (x + Half) % (2 * Half) = x - Half
    BY <2>2, <2>3
  <2> QED BY <1>1, <1>3, <2>4 DEF Int32
<1> QED BY <1>1, <1>2, <1>3

(* The first generation is 1; the last one is followed by the first.       *)
LEMMA GenerationIs ==
  ASSUME NEW e \in Slot
  PROVE  /\ Generation(0) = GenStep
         /\ \A k \in 1 .. Cycle :
              Generation(k * GenStep + e) =
                IF k = Cycle THEN GenStep ELSE (k + 1) * GenStep
<1> USE EnvAssumption
<1>1. /\ Cycle \in Nat \ {0} /\ Half = (Cycle + 1) * GenStep
      /\ e \in Nat /\ e < GenStep /\ 0 \in Slot
  BY CycleIs, SlotSize DEF Slot
<1>2. Generation(0) = GenStep
  <2>1. GenStep \in 0 .. 2 * Half - 1 /\ GenStep < Half
    OBVIOUS
  <2>2. Int32(0 + GenStep) = GenStep
    BY <2>1, Int32Is
  <2> QED BY <2>2 DEF Generation
<1>3. ASSUME NEW k \in 1 .. Cycle
      PROVE  Generation(k * GenStep + e) =
               IF k = Cycle THEN GenStep ELSE (k + 1) * GenStep
  <2> DEFINE x == k * GenStep + e
             g == (k + 1) * GenStep
  <2>1. k \in Nat /\ g \in Nat /\ g = k * GenStep + GenStep /\ x \in Nat
        /\ x + GenStep = g + e
    BY <1>1
  <2>2. (g + e) % NENV = e
    <3> DEFINE j == k + 1
    <3>1. j \in Int /\ g = j * GenStep
      BY <2>1
    <3> HIDE DEF j, g, x
    <3>2. (j * GenStep + e) % NENV = e
      BY <3>1, SlotMod
    <3> QED BY <3>1, <3>2
  <2>3. CASE k # Cycle
    <3>1. g + GenStep <= Half
      <4>1. k + 1 < Cycle + 1
        BY <1>1, <2>3
      <4>2. (k + 1) * GenStep + GenStep <= (Cycle + 1) * GenStep
        BY <1>1, <2>1, <4>1, MulGap
      <4> QED BY <4>2, <1>1
    <3>2. g + e < Half /\ g + e \in 0 .. 2 * Half - 1 /\ g > 0
      <4> HIDE DEF x
      <4>1. g >= GenStep
        BY <2>1, MulRange
      <4> HIDE DEF g
      <4> QED BY <1>1, <2>1, <3>1, <4>1
    <3>3. Int32(x + GenStep) = g + e
      BY <2>1, <3>2, Int32Is
    <3> HIDE DEF g, x
    <3>4. (g + e) - ((g + e) % NENV) = g
      BY <1>1, <2>1, <2>2
    <3>5. Generation(x) = g
      BY <3>2, <3>3, <3>4 DEF Generation
    <3> QED BY <2>3, <3>5 DEF g, x
  <2>4. CASE k = Cycle
    <3>1. g = Half
      BY <1>1, <2>4
    <3>2. Half + e \in 0 .. 2 * Half - 1 /\ ~(Half + e < Half)
      BY <1>1
    <3>3. Int32(x + GenStep) = e - Half
      <4>1. Int32(Half + e) = (Half + e) - 2 * Half
        BY <3>2, Int32Is
      <4> HIDE DEF x, g
      <4> QED BY <2>1, <3>1, <4>1, <1>1
    <3>4. (e - Half) % NENV = e
      <4> DEFINE j == -(Cycle + 1)
      <4>1. j \in Int /\ j * GenStep + e = e - Half
        BY <1>1
      <4> HIDE DEF j
      <4>2. (j * GenStep + e) % NENV = e
        BY <4>1, SlotMod
      <4> QED BY <4>1, <4>2
    <3> HIDE DEF x, g
    <3>5. (e - Half) - ((e - Half) % NENV) <= 0
      BY <1>1, <3>4
    <3>6. Generation(x) = GenStep
      BY <3>3, <3>5 DEF Generation
    <3> QED BY <2>4, <3>6 DEF x
  <2> QED BY <2>3, <2>4
<1> QED BY <1>2, <1>3

(* Generations count up and begin again.                                   *)
LEMMA NthRange == ASSUME NEW n \in Nat \ {0} PROVE Nth(n) \in 1 .. Cycle
<1> DEFINE m == n - 1
<1>1. m \in Int /\ Cycle \in Nat \ {0}
  BY CycleIs
<1> HIDE DEF m
<1>2. m % Cycle \in 0 .. Cycle - 1
  BY <1>1, ModRange
<1>3. Nth(n) = (m % Cycle) + 1
  BY DEF Nth, m
<1> QED BY <1>1, <1>2, <1>3

LEMMA NthNext ==
  /\ Nth(1) = 1
  /\ \A n \in Nat \ {0} : Nth(n + 1) = IF Nth(n) = Cycle THEN 1 ELSE Nth(n) + 1
<1>1. Nth(1) = 1
  <2>1. 0 % Cycle = 0
    BY CycleIs, ModSmall
  <2> QED BY <2>1 DEF Nth
<1>2. ASSUME NEW n \in Nat \ {0}
      PROVE  Nth(n + 1) = IF Nth(n) = Cycle THEN 1 ELSE Nth(n) + 1
  <2> DEFINE m == n - 1
  <2>0. m \in Int /\ (n + 1) - 1 = m + 1
    OBVIOUS
  <2> HIDE DEF m
  <2>1. (m + 1) % Cycle = IF m % Cycle = Cycle - 1 THEN 0 ELSE (m % Cycle) + 1
    BY <2>0, CycleIs, ModNext
  <2>2. m % Cycle \in 0 .. Cycle - 1
    BY <2>0, CycleIs, ModRange
  <2>4. Nth(n + 1) = ((m + 1) % Cycle) + 1
    BY <2>0 DEF Nth
  <2>5. Nth(n) = (m % Cycle) + 1
    BY DEF Nth, m
  <2> QED BY <2>1, <2>2, <2>4, <2>5, CycleIs
<1> QED BY <1>1, <1>2

(* The same generation again is at least Cycle births away.                *)
LEMMA NthSame ==
  ASSUME NEW m \in Nat \ {0}, NEW n \in Nat \ {0}, Nth(m) = Nth(n)
  PROVE  (n - m) % Cycle = 0 /\ (m < n => n - m >= Cycle)
<1> DEFINE a == m - 1
           b == n - 1
<1>0. a \in Int /\ b \in Int /\ b - a = n - m /\ (a < b <=> m < n)
  OBVIOUS
<1> HIDE DEF a, b
<1>1. a % Cycle \in 0 .. Cycle - 1 /\ b % Cycle \in 0 .. Cycle - 1
      /\ Cycle \in Nat \ {0}
  BY <1>0, CycleIs, ModRange
<1>2. a % Cycle = b % Cycle
  <2> DEFINE p == a % Cycle
             q == b % Cycle
  <2>1. Nth(m) = p + 1 /\ Nth(n) = q + 1
    BY DEF Nth, a, b
  <2>2. p \in Int /\ q \in Int
    BY <1>1
  <2> HIDE DEF p, q
  <2>3. p + 1 = q + 1
    BY <2>1
  <2>4. p = q
    BY <2>2, <2>3
  <2> QED BY <2>4 DEF p, q
<1>3. (b - a) % Cycle = 0 /\ (a < b => b - a >= Cycle)
  BY <1>0, <1>2, CycleIs, ModSame
<1> QED BY <1>0, <1>3

(* An env_id is positive, fits and gives its slot and generation away.     *)
LEMMA IdFacts ==
  ASSUME NEW e \in Slot, NEW n \in Nat \ {0}
  PROVE  /\ IdOf(e, n) \in 1 .. Half - 1
         /\ IdOf(e, n) % NENV = e
         /\ \A f \in Slot, m \in Nat \ {0} :
              IdOf(e, n) = IdOf(f, m) => e = f /\ Nth(n) = Nth(m)
<1> USE EnvAssumption
<1> DEFINE k == Nth(n)
<1>1. /\ k \in 1 .. Cycle /\ Cycle \in Nat \ {0} /\ Half = (Cycle + 1) * GenStep
      /\ e \in Nat /\ e < GenStep
  BY NthRange, CycleIs, SlotSize
<1> HIDE DEF k
<1>2. IdOf(e, n) = k * GenStep + e
  BY DEF IdOf, k
<1>3. k * GenStep \in Nat /\ k * GenStep >= GenStep /\ k * GenStep + GenStep <= Half
  <2>1. k \in Nat /\ k > 0 /\ k < Cycle + 1
    BY <1>1
  <2>2. k * GenStep + GenStep <= (Cycle + 1) * GenStep
    BY <1>1, <2>1, MulGap
  <2> QED BY <1>1, <2>1, <2>2, MulRange
<1>4. IdOf(e, n) \in 1 .. Half - 1
  BY <1>1, <1>2, <1>3
<1>5. IdOf(e, n) % NENV = e
  <2>1. k \in Int
    BY <1>1
  <2>2. (k * GenStep + e) % NENV = e
    BY <2>1, SlotMod
  <2> QED BY <1>2, <2>2
<1>6. ASSUME NEW f \in Slot, NEW m \in Nat \ {0}, IdOf(e, n) = IdOf(f, m)
      PROVE  e = f /\ Nth(n) = Nth(m)
  <2> DEFINE j == Nth(m)
  <2>1. j \in 1 .. Cycle /\ f \in Nat /\ f < GenStep
    BY NthRange, SlotSize
  <2>2. k * GenStep + e = j * GenStep + f
    BY <1>2, <1>6 DEF IdOf
  <2> HIDE DEF j
  <2>3. k = j /\ e = f
    BY <1>1, <2>1, <2>2, DivUnique
  <2> QED BY <2>3 DEF j, k
<1> QED BY <1>4, <1>5, <1>6

----------------------------------------------------------------------------
(* The free list.                                                          *)
OnList(l, e) == \E n \in DOMAIN l : l[n] = e

NoTwice(l) == \A m, n \in DOMAIN l : l[m] = l[n] => m = n

LEMMA ListTail ==
  ASSUME NEW l \in Seq(Slot), l # <<>>, NoTwice(l)
  PROVE  /\ Head(l) \in Slot
         /\ Tail(l) \in Seq(Slot)
         /\ NoTwice(Tail(l))
         /\ \A e : OnList(Tail(l), e) <=> OnList(l, e) /\ e # Head(l)
<1>1. /\ Len(l) \in Nat /\ Len(l) >= 1 /\ DOMAIN l = 1 .. Len(l)
      /\ Tail(l) \in Seq(Slot) /\ DOMAIN Tail(l) = 1 .. Len(l) - 1
      /\ \A n \in 1 .. Len(l) - 1 : Tail(l)[n] = l[n + 1]
      /\ Head(l) = l[1] /\ Head(l) \in Slot
  OBVIOUS
<1>2. NoTwice(Tail(l))
  BY <1>1 DEF NoTwice
<1>3. ASSUME NEW e PROVE OnList(Tail(l), e) <=> OnList(l, e) /\ e # Head(l)
  <2>1. ASSUME NEW n \in 1 .. Len(l) - 1, Tail(l)[n] = e
        PROVE  OnList(l, e) /\ e # Head(l)
    <3>1. n + 1 \in 1 .. Len(l) /\ 1 \in 1 .. Len(l) /\ n + 1 # 1 /\ l[n + 1] = e
      BY <1>1, <2>1
    <3> QED BY <3>1, <1>1 DEF OnList, NoTwice
  <2>2. ASSUME NEW n \in 1 .. Len(l), l[n] = e, e # Head(l)
        PROVE  OnList(Tail(l), e)
    <3>1. n - 1 \in 1 .. Len(l) - 1 /\ Tail(l)[n - 1] = e
      BY <1>1, <2>2
    <3> QED BY <3>1, <1>1 DEF OnList
  <2> QED BY <2>1, <2>2, <1>1 DEF OnList
<1> QED BY <1>1, <1>2, <1>3

LEMMA ListCons ==
  ASSUME NEW l \in Seq(Slot), NoTwice(l), NEW q \in Slot, ~OnList(l, q)
  PROVE  /\ <<q>> \o l \in Seq(Slot)
         /\ NoTwice(<<q>> \o l)
         /\ \A e : OnList(<<q>> \o l, e) <=> e = q \/ OnList(l, e)
<1> DEFINE c == <<q>> \o l
<1>1. /\ Len(l) \in Nat /\ DOMAIN l = 1 .. Len(l)
      /\ c \in Seq(Slot) /\ DOMAIN c = 1 .. Len(l) + 1
      /\ c[1] = q
      /\ \A n \in 2 .. Len(l) + 1 : c[n] = l[n - 1]
      /\ \A n \in 1 .. Len(l) : c[n + 1] = l[n]
  OBVIOUS
<1> HIDE DEF c
<1>2. NoTwice(c)
  <2>1. \A n \in 2 .. Len(l) + 1 : n - 1 \in 1 .. Len(l) /\ c[n] # q
    BY <1>1 DEF OnList
  <2> SUFFICES ASSUME NEW m \in DOMAIN c, NEW n \in DOMAIN c, c[m] = c[n]
               PROVE  m = n
    BY DEF NoTwice
  <2>2. \A k \in DOMAIN c : k = 1 \/ k \in 2 .. Len(l) + 1
    BY <1>1
  <2>3. CASE m = 1 \/ n = 1
    BY <1>1, <2>1, <2>2, <2>3
  <2>4. CASE m # 1 /\ n # 1
    <3>1. m - 1 \in DOMAIN l /\ n - 1 \in DOMAIN l /\ l[m - 1] = l[n - 1]
      BY <1>1, <2>4
    <3>2. m - 1 = n - 1
      BY <3>1 DEF NoTwice
    <3> QED BY <3>2, <1>1
  <2> QED BY <2>3, <2>4
<1>3. ASSUME NEW e PROVE OnList(c, e) <=> e = q \/ OnList(l, e)
  <2>1. ASSUME NEW n \in 1 .. Len(l), l[n] = e PROVE OnList(c, e)
    <3>1. n + 1 \in DOMAIN c /\ c[n + 1] = e
      BY <1>1, <2>1
    <3> QED BY <3>1 DEF OnList
  <2>2. ASSUME NEW n \in DOMAIN c, c[n] = e PROVE e = q \/ OnList(l, e)
    <3>1. CASE n = 1
      BY <1>1, <2>2, <3>1
    <3>2. CASE n # 1
      <4>1. n - 1 \in 1 .. Len(l) /\ l[n - 1] = e
        BY <1>1, <2>2, <3>2
      <4> QED BY <4>1, <1>1 DEF OnList
    <3> QED BY <3>1, <3>2
  <2>3. 1 \in DOMAIN c
    BY <1>1
  <2> QED BY <1>1, <2>1, <2>2, <2>3 DEF OnList
<1> QED BY <1>1, <1>2, <1>3 DEF c

(* What StatusExact says, in these words.                                  *)
LEMMA StatusParts ==
  StatusExact <=>
    /\ TypeOK
    /\ \A e \in Slot : envs[e].env_status = "ENV_RUNNING" => e = curenv
    /\ NoTwice(env_free_list)
    /\ \A e \in Slot : envs[e].env_status = "ENV_FREE" <=> OnList(env_free_list, e)
    /\ cr3 # NULL => curenv # NULL /\ cr3 = Pgdir(curenv)
                     /\ envs[curenv].env_status # "ENV_FREE"
BY DEF StatusExact, NoTwice, OnList

(* One more element.                                                       *)
LEMMA AppendIs ==
  ASSUME NEW S, NEW q \in Seq(S), NEW x \in S
  PROVE  /\ Append(q, x) \in Seq(S)
         /\ Len(q) \in Nat /\ Len(Append(q, x)) = Len(q) + 1
         /\ Append(q, x)[Len(q) + 1] = x
         /\ \A n \in 1 .. Len(q) : Append(q, x)[n] = q[n]
OBVIOUS

(* The id that env_alloc computes.                                         *)
LEMMA NextId ==
  ASSUME EInv, NEW e \in Slot
  PROVE  Generation(envs[e].env_id) + e = IdOf(e, Births(e) + 1)
<1>1. Births(e) \in Nat
  BY DEF EInv, StatusExact, TypeOK, Births
<1>2. CASE Births(e) = 0
  BY <1>1, <1>2, GenerationIs, NthNext, EnvAssumption DEF EInv, LatestId, IdOf
<1>3. CASE Births(e) # 0
  <2> DEFINE n == Births(e)
  <2>1. n \in Nat \ {0} /\ n \in 1 .. Births(e)
    BY <1>1, <1>3
  <2>2. envs[e].env_id = IdOf(e, n)
    BY <1>3, <2>1 DEF EInv, LatestId, HistoryExact
  <2> HIDE DEF n
  <2>3. Nth(n) \in 1 .. Cycle
    BY <2>1, NthRange
  <2>4. Generation(IdOf(e, n)) = IF Nth(n) = Cycle THEN GenStep ELSE (Nth(n) + 1) * GenStep
    BY <2>3, GenerationIs DEF IdOf
  <2>5. Nth(n + 1) = IF Nth(n) = Cycle THEN 1 ELSE Nth(n) + 1
    BY <2>1, NthNext
  <2>6. Generation(IdOf(e, n)) = Nth(n + 1) * GenStep
    <3>1. 1 * GenStep = GenStep
      BY EnvAssumption
    <3> QED BY <2>4, <2>5, <3>1
  <2>7. Generation(envs[e].env_id) + e = IdOf(e, n + 1)
    BY <2>2, <2>6 DEF IdOf
  <2> QED BY <2>7 DEF n
<1> QED BY <1>2, <1>3

----------------------------------------------------------------------------
LEMMA InitHolds == Init => EInv
<1> SUFFICES ASSUME Init PROVE EInv
  OBVIOUS
<1> USE EnvAssumption DEF Init
<1>1. env_free_list \in Seq(Slot) /\ Len(env_free_list) = NENV
      /\ DOMAIN env_free_list = 1 .. NENV
  BY DEF Slot
<1>2. \A e \in Slot : e + 1 \in DOMAIN env_free_list /\ env_free_list[e + 1] = e
  BY <1>1 DEF Slot
<1>3. TypeOK
  <2>1. 0 \in 0 .. Half - 1 /\ 0 \in 0 .. MaxRuns /\ <<>> \in Seq(1 .. Half - 1)
    OBVIOUS
  <2>2. envs \in [Slot -> [env_id : 0 .. Half - 1, env_parent_id : 0 .. Half - 1,
                           env_status : Status, env_runs : 0 .. MaxRuns]]
    BY <2>1 DEF Status
  <2> QED BY <1>1, <2>1, <2>2 DEF TypeOK
<1>4. StatusExact
  <2>1. NoTwice(env_free_list)
    BY <1>1 DEF NoTwice
  <2>2. \A e \in Slot : OnList(env_free_list, e) /\ envs[e].env_status = "ENV_FREE"
    BY <1>2 DEF OnList
  <2> QED BY <1>3, <2>1, <2>2, StatusParts
<1>5. \A e \in Slot : Births(e) = 0
  BY DEF Births
<1>6. HistoryExact /\ LatestId /\ BornBefore /\ ParentExact
  BY <1>5 DEF HistoryExact, LatestId, BornBefore, ParentExact
<1> QED BY <1>4, <1>6 DEF EInv

(* A new environment: its slot was free, its id is the next of the slot.   *)
LEMMA AllocKeeps ==
  ASSUME EInv, NEW child \in BOOLEAN, child => Current, env_alloc(child),
         cr3' \in {cr3, NULL}
  PROVE  EInv'
<1>e. PICK e : e = Head(env_free_list)
  OBVIOUS
<1> DEFINE id == Generation(envs[e].env_id) + e
           new == [env_id |-> id,
                   env_parent_id |-> IF child THEN envs[curenv].env_id ELSE 0,
                   env_status |-> "ENV_RUNNABLE", env_runs |-> 0]
           from == IF child THEN Pgdir(curenv) ELSE NULL
<1>1. /\ TypeOK /\ NoTwice(env_free_list) /\ env_free_list # <<>>
      /\ \A f \in Slot : envs[f].env_status = "ENV_FREE" <=> OnList(env_free_list, f)
  BY StatusParts DEF EInv, env_alloc
<1>2. /\ e \in Slot /\ Tail(env_free_list) \in Seq(Slot) /\ NoTwice(Tail(env_free_list))
      /\ \A f : OnList(Tail(env_free_list), f) <=> OnList(env_free_list, f) /\ f # e
  BY <1>1, <1>e, ListTail DEF TypeOK
<1>3. envs[e].env_status = "ENV_FREE"
  <2>1. 1 \in DOMAIN env_free_list /\ env_free_list[1] = e
    BY <1>1, <1>e DEF TypeOK
  <2> QED BY <1>1, <1>2, <2>1 DEF OnList
<1>4. Births(e) \in Nat /\ id = IdOf(e, Births(e) + 1) /\ id \in 1 .. Half - 1
  <2>1. Births(e) \in Nat
    BY <1>1, <1>2 DEF TypeOK, Births
  <2>2. Births(e) + 1 \in Nat \ {0} /\ id = IdOf(e, Births(e) + 1)
    BY <1>2, <2>1, NextId
  <2> DEFINE n == Births(e) + 1
  <2> HIDE DEF id, n
  <2>3. IdOf(e, n) \in 1 .. Half - 1
    BY <1>2, <2>2, IdFacts DEF n
  <2> QED BY <2>1, <2>2, <2>3 DEF n
<1>5. /\ envs' = [envs EXCEPT ![e] = new]
      /\ history' = [history EXCEPT ![e] = Append(@, id)]
      /\ parent' = [parent EXCEPT ![e] = from]
      /\ env_free_list' = Tail(env_free_list) /\ curenv' = curenv
  BY <1>e DEF env_alloc
<1>6. child => /\ curenv \in Slot /\ curenv # e /\ Births(curenv) \in Nat \ {0}
               /\ envs[curenv].env_status = "ENV_RUNNING"
               /\ envs[curenv].env_id = history[curenv][Births(curenv)]
               /\ envs[curenv].env_id \in 0 .. Half - 1
  <2> SUFFICES ASSUME child PROVE curenv \in Slot /\ curenv # e
               /\ Births(curenv) \in Nat \ {0}
               /\ envs[curenv].env_status = "ENV_RUNNING"
               /\ envs[curenv].env_id = history[curenv][Births(curenv)]
               /\ envs[curenv].env_id \in 0 .. Half - 1
    OBVIOUS
  <2>1. curenv \in Slot /\ envs[curenv].env_status = "ENV_RUNNING"
    BY <1>1 DEF Current, TypeOK
  <2>2. Births(curenv) \in Nat /\ envs[curenv].env_id \in 0 .. Half - 1
    BY <1>1, <2>1 DEF TypeOK, Births
  <2>3. Births(curenv) > 0
    BY <2>1 DEF EInv, BornBefore
  <2> QED BY <1>3, <2>1, <2>2, <2>3 DEF EInv, LatestId
<1> HIDE DEF id
<1>7. /\ envs'[e] = new /\ \A f \in Slot : f # e => envs'[f] = envs[f]
      /\ parent'[e] = from /\ \A f \in Slot : f # e => parent'[f] = parent[f]
      /\ \A f \in Slot : f # e => history'[f] = history[f] /\ Births(f)' = Births(f)
      /\ history'[e] = Append(history[e], id)
  <2> HIDE DEF new, from
  <2> QED BY <1>1, <1>2, <1>5 DEF TypeOK, Births
<1>8. /\ history'[e] \in Seq(1 .. Half - 1)
      /\ Births(e)' = Births(e) + 1 /\ history'[e][Births(e) + 1] = id
      /\ \A n \in 1 .. Births(e) : history'[e][n] = history[e][n]
  <2> DEFINE q == history[e]
             S == 1 .. Half - 1
  <2>1. q \in Seq(S) /\ id \in S
    BY <1>1, <1>2, <1>4 DEF TypeOK
  <2>2. history'[e] = Append(q, id) /\ Births(e) = Len(q) /\ Births(e)' = Len(history'[e])
    BY <1>7 DEF Births
  <2> HIDE DEF q, S
  <2>3. /\ Append(q, id) \in Seq(S)
        /\ Len(q) \in Nat /\ Len(Append(q, id)) = Len(q) + 1
        /\ Append(q, id)[Len(q) + 1] = id
        /\ \A n \in 1 .. Len(q) : Append(q, id)[n] = q[n]
    BY <2>1, AppendIs
  <2> QED BY <2>2, <2>3 DEF q, S
<1>9. TypeOK'
  <2>1. new \in [env_id : 0 .. Half - 1, env_parent_id : 0 .. Half - 1,
                 env_status : Status, env_runs : 0 .. MaxRuns]
    <3>1. 0 \in 0 .. Half - 1 /\ 0 \in 0 .. MaxRuns /\ id \in 0 .. Half - 1
      BY <1>4, EnvAssumption
    <3> QED BY <1>6, <3>1 DEF Status
  <2>2. from \in (Slot \X Nat) \cup {NULL}
    BY <1>6 DEF Pgdir, Births
  <2>3. /\ env_free_list' \in Seq(Slot) /\ curenv' \in Slot \cup {NULL}
        /\ cr3' \in (Slot \X Nat) \cup {NULL}
    BY <1>1, <1>2, <1>5 DEF TypeOK
  <2> HIDE DEF new, from
  <2>4. envs' \in [Slot -> [env_id : 0 .. Half - 1, env_parent_id : 0 .. Half - 1,
                           env_status : Status, env_runs : 0 .. MaxRuns]]
    BY <1>1, <1>2, <1>5, <2>1 DEF TypeOK
  <2>5. parent' \in [Slot -> (Slot \X Nat) \cup {NULL}]
    BY <1>1, <1>2, <1>5, <2>2 DEF TypeOK
  <2>6. history' \in [Slot -> Seq(1 .. Half - 1)]
    <3>1. DOMAIN history' = Slot /\ history' = [f \in Slot |-> history'[f]]
      BY <1>1, <1>5 DEF TypeOK
    <3>2. \A f \in Slot : history'[f] \in Seq(1 .. Half - 1)
      BY <1>1, <1>7, <1>8 DEF TypeOK
    <3> QED BY <3>1, <3>2
  <2> QED BY <2>3, <2>4, <2>5, <2>6 DEF TypeOK
<1>10. \A f \in Slot : envs'[f].env_status = "ENV_FREE" <=>
                       f # e /\ envs[f].env_status = "ENV_FREE"
  BY <1>7
<1>0. \A f \in Slot : f = e => Births(f)' = Births(f) + 1 /\ Births(f) \in Nat
  BY <1>4, <1>8 DEF Births
<1>11. StatusExact'
  <2>1. \A f \in Slot : envs'[f].env_status = "ENV_RUNNING" => f = curenv'
    BY <1>5, <1>7 DEF EInv, StatusExact
  <2>2. NoTwice(env_free_list')
        /\ \A f \in Slot : envs'[f].env_status = "ENV_FREE" <=> OnList(env_free_list', f)
    BY <1>1, <1>2, <1>5, <1>10
  <2>3. cr3' # NULL => curenv' # NULL /\ cr3' = Pgdir(curenv)'
                       /\ envs'[curenv'].env_status # "ENV_FREE"
    <3> SUFFICES ASSUME cr3' # NULL
                 PROVE  curenv' # NULL /\ cr3' = Pgdir(curenv)'
                        /\ envs'[curenv'].env_status # "ENV_FREE"
      OBVIOUS
    <3>1. cr3 # NULL /\ cr3' = cr3
      OBVIOUS
    <3>2. curenv \in Slot /\ cr3 = Pgdir(curenv) /\ envs[curenv].env_status # "ENV_FREE"
      BY <1>1, <3>1 DEF EInv, StatusExact, TypeOK
    <3>3. curenv # e
      BY <1>3, <3>2
    <3>4. Pgdir(curenv)' = Pgdir(curenv)
      BY <1>5, <1>7, <3>2, <3>3 DEF Pgdir
    <3>5. curenv # NULL
      BY <3>2, NullAssumption DEF Slot
    <3> QED BY <1>5, <1>7, <3>1, <3>2, <3>3, <3>4, <3>5
  <2> QED BY <1>9, <2>1, <2>2, <2>3 DEF StatusExact, NoTwice, OnList
<1>12. HistoryExact'
  <2> SUFFICES ASSUME NEW f \in Slot, NEW n \in 1 .. Births(f)'
               PROVE  history'[f][n] = IdOf(f, n)
    BY DEF HistoryExact
  <2>1. CASE f # e
    BY <1>7, <2>1 DEF EInv, HistoryExact
  <2>2. CASE f = e /\ n = Births(e) + 1
    BY <1>4, <1>8, <2>2
  <2>3. CASE f = e /\ n # Births(e) + 1
    <3>1. n \in 1 .. Births(e)
      BY <1>0, <2>3
    <3> QED BY <1>8, <2>3, <3>1 DEF EInv, HistoryExact
  <2> QED BY <2>1, <2>2, <2>3
<1>13. LatestId'
  <2> SUFFICES ASSUME NEW f \in Slot
               PROVE  envs'[f].env_id = IF Births(f)' = 0 THEN 0
                                        ELSE history'[f][Births(f)']
    BY DEF LatestId
  <2>1. CASE f # e
    BY <1>7, <2>1 DEF EInv, LatestId
  <2>2. CASE f = e
    BY <1>4, <1>7, <1>8, <2>2 DEF Births
  <2> QED BY <2>1, <2>2
<1>14. BornBefore'
  <2> SUFFICES ASSUME NEW f \in Slot, envs'[f].env_status # "ENV_FREE"
               PROVE  Births(f)' > 0
    BY DEF BornBefore
  <2>1. CASE f # e
    BY <1>7, <2>1 DEF EInv, BornBefore
  <2>2. CASE f = e
    BY <1>0, <2>2
  <2> QED BY <2>1, <2>2
<1>15. ParentExact'
  <2>1. ASSUME NEW p \in Slot, NEW k \in 1 .. Births(p)
        PROVE  k \in 1 .. Births(p)' /\ history'[p][k] = history[p][k]
    <3>1. CASE p = e
      <4>1. Births(p)' = Births(p) + 1 /\ Births(p) \in Nat
            /\ history'[p][k] = history[p][k]
        BY <1>4, <1>8, <3>1 DEF Births
      <4> QED BY <4>1
    <3>2. CASE p # e
      BY <1>7, <3>2
    <3> QED BY <3>1, <3>2
  <2> SUFFICES ASSUME NEW f \in Slot, envs'[f].env_status # "ENV_FREE"
               PROVE  IF parent'[f] = NULL THEN envs'[f].env_parent_id = 0
                      ELSE \E p \in Slot : \E k \in 1 .. Births(p)' :
                             parent'[f] = <<p, k>> /\ envs'[f].env_parent_id = history'[p][k]
    BY DEF ParentExact
  <2>2. CASE f # e
    <3>1. envs'[f] = envs[f] /\ parent'[f] = parent[f]
      BY <1>7, <2>2
    <3> QED BY <2>1, <3>1 DEF EInv, ParentExact
  <2>3. CASE f = e /\ child
    <3>1. Births(curenv) \in 1 .. Births(curenv)
      BY <1>6, <2>3
    <3>2. parent'[f] = <<curenv, Births(curenv)>>
          /\ envs'[f].env_parent_id = history[curenv][Births(curenv)]
      BY <1>6, <1>7, <2>3 DEF Pgdir, Births
    <3>3. parent'[f] # NULL
      <4>1. <<curenv, Births(curenv)>> \in Slot \X Nat
        BY <1>6, <2>3
      <4> QED BY <3>2, <4>1, NullAssumption
    <3> QED BY <1>6, <2>1, <2>3, <3>1, <3>2, <3>3
  <2>4. CASE f = e /\ ~child
    BY <1>7, <2>4
  <2> QED BY <2>2, <2>3, <2>4
<1> QED BY <1>11, <1>12, <1>13, <1>14, <1>15 DEF EInv

LEMMA FreeKeeps ==
  ASSUME EInv, NEW e \in Slot, env_free(e)
  PROVE  EInv'
<1>1. /\ TypeOK /\ NoTwice(env_free_list)
      /\ \A f \in Slot : envs[f].env_status = "ENV_FREE" <=> OnList(env_free_list, f)
  BY StatusParts DEF EInv
<1>2. /\ envs[e].env_status # "ENV_FREE"
      /\ envs' = [envs EXCEPT ![e].env_status = "ENV_FREE"]
      /\ env_free_list' = <<e>> \o env_free_list
      /\ cr3' = IF e = curenv THEN NULL ELSE cr3
      /\ curenv' = curenv /\ history' = history /\ parent' = parent
  BY DEF env_free
<1>3. /\ env_free_list' \in Seq(Slot) /\ NoTwice(env_free_list')
      /\ \A f : OnList(env_free_list', f) <=> f = e \/ OnList(env_free_list, f)
  BY <1>1, <1>2, ListCons DEF TypeOK
<1>4. /\ envs'[e].env_status = "ENV_FREE"
      /\ \A f \in Slot : /\ f # e => envs'[f] = envs[f]
                         /\ envs'[f].env_id = envs[f].env_id
                         /\ envs'[f].env_parent_id = envs[f].env_parent_id
  BY <1>1, <1>2 DEF TypeOK
<1>5. TypeOK'
  <2>1. envs' \in [Slot -> [env_id : 0 .. Half - 1, env_parent_id : 0 .. Half - 1,
                           env_status : Status, env_runs : 0 .. MaxRuns]]
    BY <1>1, <1>2 DEF TypeOK, Status
  <2>2. cr3' \in (Slot \X Nat) \cup {NULL}
    BY <1>1, <1>2 DEF TypeOK
  <2> QED BY <1>1, <1>2, <1>3, <2>1, <2>2 DEF TypeOK
<1>6. \A f \in Slot : envs'[f].env_status # "ENV_FREE" =>
                        f # e /\ envs[f].env_status # "ENV_FREE" /\ envs'[f] = envs[f]
  BY <1>4
<1>7. StatusExact'
  <2>1. \A f \in Slot : envs'[f].env_status = "ENV_RUNNING" => f = curenv'
    <3> SUFFICES ASSUME NEW f \in Slot, envs'[f].env_status = "ENV_RUNNING"
                 PROVE  f = curenv
      BY <1>2
    <3>1. envs[f].env_status = "ENV_RUNNING"
      BY <1>4
    <3> QED BY <3>1 DEF EInv, StatusExact
  <2>2. \A f \in Slot : envs'[f].env_status = "ENV_FREE" <=> OnList(env_free_list', f)
    BY <1>1, <1>3, <1>4
  <2>3. cr3' # NULL => curenv' # NULL /\ cr3' = Pgdir(curenv)'
                       /\ envs'[curenv'].env_status # "ENV_FREE"
    <3> SUFFICES ASSUME cr3' # NULL
                 PROVE  curenv' # NULL /\ cr3' = Pgdir(curenv)'
                        /\ envs'[curenv'].env_status # "ENV_FREE"
      OBVIOUS
    <3>1. cr3 # NULL /\ cr3' = cr3 /\ curenv # e
      BY <1>2
    <3>2. curenv \in Slot /\ curenv # NULL /\ cr3 = Pgdir(curenv)
          /\ envs[curenv].env_status # "ENV_FREE"
      BY <1>1, <3>1 DEF EInv, StatusExact, TypeOK
    <3>3. Pgdir(curenv)' = Pgdir(curenv)
      BY <1>2 DEF Pgdir
    <3> QED BY <1>2, <1>4, <3>1, <3>2, <3>3
  <2> QED BY <1>3, <1>5, <2>1, <2>2, <2>3 DEF StatusExact, NoTwice, OnList
<1>8. \A f \in Slot : Births(f)' = Births(f)
  BY <1>2 DEF Births
<1>9. HistoryExact'
  BY <1>2, <1>8 DEF EInv, HistoryExact
<1>10. LatestId'
  BY <1>2, <1>4, <1>8 DEF EInv, LatestId
<1>11. BornBefore'
  BY <1>6, <1>8 DEF EInv, BornBefore
<1>12. ParentExact'
  <2> SUFFICES ASSUME NEW f \in Slot, envs'[f].env_status # "ENV_FREE"
               PROVE  IF parent[f] = NULL THEN envs'[f].env_parent_id = 0
                      ELSE \E p \in Slot : \E k \in 1 .. Births(p)' :
                             parent[f] = <<p, k>> /\ envs'[f].env_parent_id = history[p][k]
    BY <1>2 DEF ParentExact
  <2> QED BY <1>6, <1>8 DEF EInv, ParentExact
<1> QED BY <1>7, <1>9, <1>10, <1>11, <1>12 DEF EInv

(* What env_run does to an Env: its status and, for the one that runs,     *)
(* env_runs.  Only the one that runs is ENV_RUNNING afterwards.            *)
LEMMA RunEffect ==
  ASSUME StatusExact, NEW e \in Slot, env_run(e)
  PROVE  /\ envs' \in [Slot -> [env_id : 0 .. Half - 1, env_parent_id : 0 .. Half - 1,
                                env_status : Status, env_runs : 0 .. MaxRuns]]
         /\ \A f \in Slot :
              /\ envs'[f].env_id = envs[f].env_id
              /\ envs'[f].env_parent_id = envs[f].env_parent_id
              /\ envs'[f].env_status = "ENV_FREE" <=> envs[f].env_status = "ENV_FREE"
              /\ envs'[f].env_status = "ENV_RUNNING" <=> f = e
<1> DEFINE Envs == [Slot -> [env_id : 0 .. Half - 1, env_parent_id : 0 .. Half - 1,
                             env_status : Status, env_runs : 0 .. MaxRuns]]
           D == Descheduled(envs)
<1>1. /\ envs[e].env_status # "ENV_FREE" /\ envs[e].env_runs < MaxRuns
      /\ envs' = [D EXCEPT ![e].env_status = "ENV_RUNNING", ![e].env_runs = @ + 1]
      /\ envs \in Envs /\ curenv \in Slot \cup {NULL}
      /\ \A f \in Slot : envs[f].env_status = "ENV_RUNNING" => f = curenv
  BY DEF env_run, StatusExact, TypeOK
<1>2. /\ D \in Envs
      /\ \A f \in Slot :
           /\ D[f].env_id = envs[f].env_id /\ D[f].env_runs = envs[f].env_runs
           /\ D[f].env_parent_id = envs[f].env_parent_id
           /\ D[f].env_status = "ENV_FREE" <=> envs[f].env_status = "ENV_FREE"
           /\ D[f].env_status # "ENV_RUNNING"
  <2>1. CASE curenv # NULL /\ envs[curenv].env_status = "ENV_RUNNING"
    <3>1. curenv \in Slot /\ D = [envs EXCEPT ![curenv].env_status = "ENV_RUNNABLE"]
      BY <1>1, <2>1 DEF Descheduled
    <3> QED BY <1>1, <2>1, <3>1 DEF Status
  <2>2. CASE ~(curenv # NULL /\ envs[curenv].env_status = "ENV_RUNNING")
    <3>1. D = envs
      BY <2>2 DEF Descheduled
    <3>2. \A f \in Slot : envs[f].env_status # "ENV_RUNNING"
      BY <1>1, <2>2, NullAssumption DEF Slot
    <3> QED BY <1>1, <3>1, <3>2
  <2> QED BY <2>1, <2>2
<1>3. D[e].env_runs \in Nat /\ D[e].env_runs + 1 \in 0 .. MaxRuns
  BY <1>1, <1>2, EnvAssumption
<1> HIDE DEF D
<1>4. envs' \in Envs
  BY <1>1, <1>2, <1>3 DEF Status
<1>5. \A f \in Slot : f # e => envs'[f] = D[f]
  BY <1>1, <1>2
<1>6. /\ envs'[e].env_status = "ENV_RUNNING" /\ envs'[e].env_id = D[e].env_id
      /\ envs'[e].env_parent_id = D[e].env_parent_id
  BY <1>1, <1>2
<1> QED BY <1>1, <1>2, <1>4, <1>5, <1>6

LEMMA RunKeeps ==
  ASSUME EInv, NEW e \in Slot, env_run(e)
  PROVE  EInv'
<1>1. /\ TypeOK /\ StatusExact /\ NoTwice(env_free_list)
      /\ \A f \in Slot : envs[f].env_status = "ENV_FREE" <=> OnList(env_free_list, f)
  BY StatusParts DEF EInv
<1>2. /\ envs[e].env_status # "ENV_FREE"
      /\ curenv' = e /\ cr3' = Pgdir(e)
      /\ env_free_list' = env_free_list /\ history' = history /\ parent' = parent
  BY DEF env_run
<1>3. \A f \in Slot :
        /\ envs'[f].env_id = envs[f].env_id
        /\ envs'[f].env_parent_id = envs[f].env_parent_id
        /\ envs'[f].env_status = "ENV_FREE" <=> envs[f].env_status = "ENV_FREE"
        /\ envs'[f].env_status = "ENV_RUNNING" <=> f = e
  BY <1>1, RunEffect
<1>4. \A f \in Slot : Births(f)' = Births(f) /\ Births(f) \in Nat
  BY <1>1, <1>2 DEF Births, TypeOK
<1>5. TypeOK'
  <2>1. cr3' \in (Slot \X Nat) \cup {NULL}
    BY <1>2, <1>4 DEF Pgdir, Births
  <2> QED BY <1>1, <1>2, <2>1, RunEffect DEF TypeOK
<1>6. Pgdir(e)' = Pgdir(e) /\ e # NULL
  BY <1>2, NullAssumption DEF Pgdir, Slot
<1>7. StatusExact'
  <2>1. cr3' = Pgdir(curenv)'
    BY <1>2 DEF Pgdir
  <2> QED BY <1>1, <1>2, <1>3, <1>5, <1>6, <2>1 DEF StatusExact, NoTwice, OnList
<1>8. HistoryExact'
  BY <1>2, <1>4 DEF EInv, HistoryExact
<1>9. LatestId'
  BY <1>2, <1>3, <1>4 DEF EInv, LatestId
<1>10. BornBefore'
  BY <1>3, <1>4 DEF EInv, BornBefore
<1>11. ParentExact'
  <2> SUFFICES ASSUME NEW f \in Slot, envs'[f].env_status # "ENV_FREE"
               PROVE  IF parent[f] = NULL THEN envs'[f].env_parent_id = 0
                      ELSE \E p \in Slot : \E k \in 1 .. Births(p)' :
                             parent[f] = <<p, k>> /\ envs'[f].env_parent_id = history[p][k]
    BY <1>2 DEF ParentExact
  <2>1. envs[f].env_status # "ENV_FREE" /\ envs'[f].env_parent_id = envs[f].env_parent_id
    BY <1>3
  <2> QED BY <1>4, <2>1 DEF EInv, ParentExact
<1> QED BY <1>7, <1>8, <1>9, <1>10, <1>11 DEF EInv

(* What envid2env returns for an id that a program may come up with.       *)
LEMMA Envid2envIs ==
  ASSUME EInv, NEW id \in Given, NEW checkperm \in BOOLEAN,
         envid2env(id, checkperm) # NULL, id # 0
  PROVE  LET e == envid2env(id, checkperm) IN
           /\ e \in Slot /\ envs[e].env_status # "ENV_FREE" /\ envs[e].env_id = id
           /\ checkperm /\ e # curenv => envs[e].env_parent_id = envs[curenv].env_id
<1>1. ENVX(id) \in Slot
  <2>1. PICK f \in Slot : \E n \in DOMAIN history[f] : id = history[f][n]
    BY DEF Given
  <2>2. id \in Int
    <3>1. history[f] \in Seq(1 .. Half - 1)
      BY DEF EInv, StatusExact, TypeOK
    <3> QED BY <2>1, <3>1, EnvAssumption
  <2> QED BY <2>2, ModRange, EnvAssumption DEF ENVX, Slot
<1> DEFINE e == ENVX(id)
<1>2. /\ envs[e].env_status # "ENV_FREE" /\ envs[e].env_id = id
      /\ ~(checkperm /\ e # curenv /\ envs[e].env_parent_id # envs[curenv].env_id)
      /\ envid2env(id, checkperm) = e
  BY DEF envid2env
<1> QED BY <1>1, <1>2

LEMMA NextHolds == EInv /\ [Next]_vars => EInv'
<1> SUFFICES ASSUME EInv, [Next]_vars PROVE EInv'
  OBVIOUS
<1>1. CASE env_create
  <2>1. env_alloc(FALSE) /\ cr3' \in {cr3, NULL}
    BY <1>1 DEF env_create
  <2> QED BY <2>1, AllocKeeps
<1>2. CASE env_alloc_child
  <2>1. Current /\ env_alloc(TRUE) /\ cr3' \in {cr3, NULL}
    BY <1>2 DEF env_alloc_child
  <2> QED BY <2>1, AllocKeeps
<1>3. ASSUME NEW e \in Slot, env_free(e) PROVE EInv'
  BY <1>3, FreeKeeps
<1>4. ASSUME NEW e \in Slot, env_run(e) PROVE EInv'
  BY <1>4, RunKeeps
<1>5. ASSUME NEW id \in Given, sys_env_destroy(id) PROVE EInv'
  <2>1. Current /\ envid2env(id, TRUE) # NULL /\ env_free(envid2env(id, TRUE))
    BY <1>5 DEF sys_env_destroy
  <2>2. envid2env(id, TRUE) \in Slot
    <3>1. CASE id = 0
      <4>1. envid2env(id, TRUE) = curenv
        BY <3>1 DEF envid2env
      <4> QED BY <2>1, <4>1 DEF EInv, StatusExact, TypeOK
    <3>2. CASE id # 0
      BY <2>1, <3>2, Envid2envIs
    <3> QED BY <3>1, <3>2
  <2> QED BY <2>1, <2>2, FreeKeeps
<1>6. CASE UNCHANGED vars
  <2> USE <1>6 DEF vars
  <2>1. StatusExact'
    BY DEF EInv, StatusExact, TypeOK, Pgdir
  <2>2. \A f \in Slot : Births(f)' = Births(f)
    BY DEF Births
  <2> QED BY <2>1, <2>2 DEF EInv, HistoryExact, LatestId, BornBefore, ParentExact
<1> QED BY <1>1, <1>2, <1>3, <1>4, <1>5, <1>6 DEF Next

LEMMA Inductive == Spec => []EInv
BY InitHolds, NextHolds, PTL DEF Spec

(* The id of an environment that is there, and of one that was.            *)
LEMMA IdsAre ==
  ASSUME EInv, NEW e \in Slot
  PROVE  /\ Births(e) \in Nat /\ DOMAIN history[e] = 1 .. Births(e)
         /\ \A n \in 1 .. Births(e) :
              n \in Nat \ {0} /\ history[e][n] = IdOf(e, n)
              /\ history[e][n] \in 1 .. Half - 1 /\ ENVX(history[e][n]) = e
         /\ envs[e].env_status # "ENV_FREE" =>
              Births(e) \in 1 .. Births(e) /\ envs[e].env_id = history[e][Births(e)]
<1>1. Births(e) \in Nat /\ DOMAIN history[e] = 1 .. Births(e)
  BY DEF EInv, StatusExact, TypeOK, Births
<1>2. ASSUME NEW n \in 1 .. Births(e)
      PROVE  n \in Nat \ {0} /\ history[e][n] = IdOf(e, n)
             /\ history[e][n] \in 1 .. Half - 1 /\ ENVX(history[e][n]) = e
  <2>1. n \in Nat \ {0} /\ history[e][n] = IdOf(e, n)
    BY <1>1 DEF EInv, HistoryExact
  <2>2. IdOf(e, n) \in 1 .. Half - 1 /\ IdOf(e, n) % NENV = e
    BY <2>1, IdFacts
  <2> QED BY <2>1, <2>2 DEF ENVX
<1>3. ASSUME envs[e].env_status # "ENV_FREE"
      PROVE  Births(e) \in 1 .. Births(e) /\ envs[e].env_id = history[e][Births(e)]
  BY <1>1, <1>3 DEF EInv, BornBefore, LatestId
<1> QED BY <1>1, <1>2, <1>3

----------------------------------------------------------------------------
(* However environments are created, run and destroyed, in any order: the  *)
(* free list holds exactly the free slots, curenv is the only one that can *)
(* be running, and no page directory of a destroyed environment stays in   *)
(* force.  (env_alloc, env_free, env_run)                                  *)
THEOREM StatusAlwaysExact == Spec => []StatusExact
<1>1. EInv => StatusExact
  BY DEF EInv
<1> QED BY <1>1, Inductive, PTL

(* Ids are positive, name their slot and are unique among the environments *)
(* that exist, for every width of envid_t and however often the generation *)
(* has overflowed and begun again.  (env_alloc, envid2env)                 *)
THEOREM IdsAlwaysNameSlots == Spec => []IdsNameSlots
<1>1. ASSUME EInv PROVE IdsNameSlots
  <2> SUFFICES ASSUME NEW e \in Slot, envs[e].env_status # "ENV_FREE"
               PROVE  /\ envs[e].env_id > 0
                      /\ ENVX(envs[e].env_id) = e
                      /\ envid2env(envs[e].env_id, FALSE) = e
    BY DEF IdsNameSlots
  <2>1. envs[e].env_id \in 1 .. Half - 1 /\ ENVX(envs[e].env_id) = e
    BY <1>1, IdsAre
  <2>2. envs[e].env_id > 0 /\ envs[e].env_id # 0
    BY <2>1, EnvAssumption
  <2> QED BY <2>1, <2>2 DEF envid2env
<1> QED BY <1>1, Inductive, PTL

(* The id of an environment that is gone names none, until the generations *)
(* of its slot come around: not one reuse earlier.  (envid2env)            *)
THEOREM StaleIdsNameNone == Spec => []NoStaleId
<1>1. ASSUME EInv PROVE NoStaleId
  <2> SUFFICES ASSUME NEW e \in Slot, NEW n \in DOMAIN history[e],
                      n < Len(history[e]) \/ envs[e].env_status = "ENV_FREE",
                      n + Cycle > Len(history[e]),
                      envid2env(history[e][n], FALSE) # NULL
               PROVE  FALSE
    BY DEF NoStaleId
  <2> DEFINE id == history[e][n]
             b  == Births(e)
  <2>1. /\ b \in Nat /\ n \in 1 .. b /\ n \in Nat \ {0} /\ id = IdOf(e, n)
        /\ id \in 1 .. Half - 1 /\ ENVX(id) = e
    BY <1>1, IdsAre
  <2>2. id # 0 /\ id \in Given
    BY <2>1, EnvAssumption DEF Given
  <2>3. envs[e].env_status # "ENV_FREE" /\ envs[e].env_id = id
    BY <2>1, <2>2 DEF envid2env
  <2>4. b \in 1 .. b /\ b \in Nat \ {0} /\ id = IdOf(e, b)
    BY <1>1, <2>3, IdsAre
  <2>5. n < b /\ n + Cycle > b
    BY <2>3 DEF Births
  <2> HIDE DEF b, id
  <2>6. Nth(n) = Nth(b)
    <3>1. IdOf(e, n) = IdOf(e, b)
      BY <2>1, <2>4
    <3> QED BY <2>1, <2>4, <3>1, IdFacts
  <2>7. b - n >= Cycle
    BY <2>1, <2>4, <2>5, <2>6, NthSame
  <2> QED BY <2>1, <2>4, <2>5, <2>7, CycleIs
<1> QED BY <1>1, Inductive, PTL

(* With checkperm envid2env returns the caller itself or an environment    *)
(* whose parent was an environment of the caller's slot: the caller, or    *)
(* one whole cycles of generations before it.  (envid2env, env_alloc)      *)
THEOREM OnlyOwnChildrenAreReached == Spec => []OnlyOwnChildren
<1>1. ASSUME EInv PROVE OnlyOwnChildren
  <2> SUFFICES ASSUME Current, NEW id \in Given,
                      envid2env(id, TRUE) \notin {NULL, curenv}
               PROVE  LET e == envid2env(id, TRUE) IN
                        /\ parent[e] # NULL /\ parent[e][1] = curenv
                        /\ (Len(history[curenv]) - parent[e][2]) % Cycle = 0
    BY DEF OnlyOwnChildren
  <2> DEFINE e == envid2env(id, TRUE)
             b == Births(curenv)
  <2>1. id # 0
    BY DEF envid2env
  <2>2. /\ e \in Slot /\ envs[e].env_status # "ENV_FREE"
        /\ envs[e].env_parent_id = envs[curenv].env_id
    BY <1>1, <2>1, Envid2envIs
  <2>3. curenv \in Slot /\ envs[curenv].env_status # "ENV_FREE"
    BY <1>1 DEF Current, EInv, StatusExact, TypeOK
  <2>4. /\ b \in Nat \ {0} /\ envs[curenv].env_id = IdOf(curenv, b)
        /\ envs[curenv].env_id \in 1 .. Half - 1
    BY <1>1, <2>3, IdsAre
  <2> HIDE DEF e, b
  <2>5. parent[e] # NULL
    <3>1. envs[e].env_parent_id # 0
      BY <2>2, <2>4, EnvAssumption
    <3> QED BY <1>1, <2>2, <3>1 DEF EInv, ParentExact
  <2>a. PICK p \in Slot : \E k \in 1 .. Births(p) :
          parent[e] = <<p, k>> /\ envs[e].env_parent_id = history[p][k]
    BY <1>1, <2>2, <2>5 DEF EInv, ParentExact
  <2>6. PICK k \in 1 .. Births(p) :
          parent[e] = <<p, k>> /\ envs[e].env_parent_id = history[p][k]
    BY <2>a
  <2>7. k \in Nat \ {0} /\ envs[e].env_parent_id = IdOf(p, k)
    BY <1>1, <2>6, IdsAre
  <2>8. p = curenv /\ Nth(k) = Nth(b)
    BY <2>2, <2>3, <2>4, <2>6, <2>7, IdFacts
  <2>9. (b - k) % Cycle = 0
    BY <2>4, <2>7, <2>8, NthSame
  <2> QED BY <2>5, <2>6, <2>8, <2>9 DEF b, e, Births
<1> QED BY <1>1, Inductive, PTL

----------------------------------------------------------------------------
(* load_icode, for images of any number of segments, any page size and any *)
(* amount of memory.  The segments before the one being loaded are where   *)
(* they belong, and what is done for this one and for the stack happens in *)
(* pages that no other segment touches.                                    *)

(* The bytes of a segment are what the program expects.                    *)
Right(n) == \A k \in 0 .. image[n].p_memsz - 1 :
  mem[image[n].p_va + k] = IF k < image[n].p_filesz THEN Byte(n, k) ELSE Zero

Before == \A n \in DOMAIN image : n < ph /\ image[n].load => Right(n)

(* Every address from start up to here is mapped, page by page.            *)
Filled(start) == /\ start <= va /\ va <= end /\ va % PGSIZE = 0
                 /\ \A a \in start .. va - 1 : Mapped(a)

Extent == ROUNDDOWN(Segment.p_va) + ROUNDUP(Segment.p_memsz)

(* The segment being loaded.                                               *)
Loading ==
  /\ pc \in {"alloc", "zero", "fault"} => ph \in DOMAIN image
  /\ pc \in {"alloc", "zero"} =>
       Segment.load /\ end = Extent /\ Filled(ROUNDDOWN(Segment.p_va))
  /\ pc = "zero" =>
       /\ va >= end
       /\ \A k \in 0 .. Segment.p_filesz - 1 : mem[Segment.p_va + k] = Byte(ph, k)

StackMapped ==
  /\ pc \in {"stack", "done"} => ph \notin DOMAIN image
  /\ pc = "stack" => end = USTACKTOP /\ Filled(USTACKTOP - PGSIZE)
  /\ pc = "done" => \A a \in USTACKTOP - PGSIZE .. USTACKTOP - 1 : Mapped(a)

(* The inductive invariant.                                                *)
LoadInv == /\ image \in Images /\ LoadTypeOK /\ Before /\ Loading /\ StackMapped
       /\ FaultsOnlyWhenShort

----------------------------------------------------------------------------
(* Pages and addresses.                                                    *)
LEMMA Sizes ==
  /\ PGSIZE \in Nat \ {0} /\ NPTE \in Nat \ {0} /\ NPAGES \in Nat \ {0}
  /\ USTACKTOP \in Nat /\ USTACKTOP - PGSIZE = (NPAGES - 1) * PGSIZE
  /\ USTACKTOP - PGSIZE \in Nat
<1>1. PGSIZE \in Nat \ {0} /\ NPTE \in Nat \ {0} /\ NPAGES \in Nat \ {0}
  BY LoadAssumption
<1>2. NPAGES - 1 \in Nat /\ (NPAGES - 1) * PGSIZE = NPAGES * PGSIZE - PGSIZE
  BY <1>1
<1>3. (NPAGES - 1) * PGSIZE \in Nat /\ NPAGES * PGSIZE \in Nat
  BY <1>1, <1>2, MulRange
<1> QED BY <1>1, <1>2, <1>3 DEF USTACKTOP

LEMMA PageIs ==
  ASSUME NEW a \in Nat
  PROVE  /\ Page(a) \in Nat /\ a % PGSIZE \in 0 .. PGSIZE - 1
         /\ a = Page(a) * PGSIZE + (a % PGSIZE) /\ Page(a) * PGSIZE \in Nat
<1>1. PGSIZE \in Nat \ {0}
  BY Sizes
<1> DEFINE q == a \div PGSIZE
           m == a % PGSIZE
<1>2. q \in Int /\ m \in 0 .. PGSIZE - 1 /\ a = q * PGSIZE + m
  BY <1>1, ModRange
<1> HIDE DEF q, m
<1>3. q \in Nat
  <2> SUFFICES ASSUME q < 0 PROVE FALSE
    BY <1>2
  <2>1. q * PGSIZE + PGSIZE <= 0 * PGSIZE
    BY <1>1, <1>2, MulGap
  <2>2. q * PGSIZE \in Int /\ 0 * PGSIZE = 0
    BY <1>1, <1>2
  <2> QED BY <1>1, <1>2, <2>1, <2>2
<1>4. q * PGSIZE \in Nat
  BY <1>1, <1>3, MulRange
<1> QED BY <1>2, <1>3, <1>4 DEF q, m, Page

LEMMA RoundedDown ==
  ASSUME NEW a \in Nat
  PROVE  /\ ROUNDDOWN(a) \in Nat /\ ROUNDDOWN(a) = Page(a) * PGSIZE /\ ROUNDDOWN(a) <= a
         /\ a < ROUNDDOWN(a) + PGSIZE /\ ROUNDDOWN(a) % PGSIZE = 0
<1>1. PGSIZE \in Nat \ {0}
  BY Sizes
<1> DEFINE p == Page(a)
           m == a % PGSIZE
<1>2. p \in Nat /\ m \in 0 .. PGSIZE - 1 /\ a = p * PGSIZE + m /\ p * PGSIZE \in Nat
  BY PageIs
<1>3. ROUNDDOWN(a) = a - m
  BY DEF ROUNDDOWN
<1> HIDE DEF p, m
<1>4. ROUNDDOWN(a) = p * PGSIZE
  BY <1>1, <1>2, <1>3
<1>5. (p * PGSIZE + 0) % PGSIZE = 0 /\ p * PGSIZE + 0 = p * PGSIZE
  <2>1. 0 \in 0 .. PGSIZE - 1
    BY <1>1
  <2> QED BY <1>1, <1>2, <2>1, ModUnique
<1>6. ROUNDDOWN(a) % PGSIZE = 0
  BY <1>4, <1>5
<1>7. ROUNDDOWN(a) \in Nat /\ ROUNDDOWN(a) <= a /\ a < ROUNDDOWN(a) + PGSIZE
  BY <1>1, <1>2, <1>4
<1> QED BY <1>4, <1>6, <1>7 DEF p

(* An address is in the page that begins at b exactly if it is less than a *)
(* page beyond it.                                                         *)
LEMMA SamePage ==
  ASSUME NEW a \in Nat, NEW b \in Nat, b % PGSIZE = 0
  PROVE  (Page(a) = Page(b)) <=> (b <= a /\ a < b + PGSIZE)
<1>1. PGSIZE \in Nat \ {0}
  BY Sizes
<1> DEFINE p == Page(a)
           q == Page(b)
           m == a % PGSIZE
<1>2. p \in Nat /\ m \in 0 .. PGSIZE - 1 /\ a = p * PGSIZE + m /\ p * PGSIZE \in Nat
  BY PageIs
<1>3. q \in Nat /\ b = q * PGSIZE + (b % PGSIZE) /\ q * PGSIZE \in Nat
  BY PageIs
<1>4. b = q * PGSIZE
  BY <1>3
<1> HIDE DEF p, q, m
<1>5. p < q => p * PGSIZE + PGSIZE <= q * PGSIZE
  BY <1>1, <1>2, <1>3, MulGap
<1>6. q < p => q * PGSIZE + PGSIZE <= p * PGSIZE
  BY <1>1, <1>2, <1>3, MulGap
<1>7. p = q => p * PGSIZE = q * PGSIZE
  OBVIOUS
<1>8. (p = q) <=> (b <= a /\ a < b + PGSIZE)
  BY <1>1, <1>2, <1>3, <1>4, <1>5, <1>6, <1>7
<1> QED BY <1>8 DEF p, q

(* Two page boundaries, the greater of which is a page further.            *)
LEMMA NextPage ==
  ASSUME NEW a \in Nat, NEW b \in Nat, a % PGSIZE = 0, b % PGSIZE = 0, a < b
  PROVE  a + PGSIZE <= b /\ (a + PGSIZE) % PGSIZE = 0
<1>1. PGSIZE \in Nat \ {0}
  BY Sizes
<1> DEFINE p == Page(a)
           q == Page(b)
<1>2. p \in Nat /\ a = p * PGSIZE + 0 /\ p * PGSIZE \in Nat
  BY PageIs
<1>3. q \in Nat /\ b = q * PGSIZE + 0 /\ q * PGSIZE \in Nat
  BY PageIs
<1> HIDE DEF p, q
<1>4. p < q
  <2>1. q < p => q * PGSIZE + PGSIZE <= p * PGSIZE
    BY <1>1, <1>2, <1>3, MulGap
  <2>2. p = q => p * PGSIZE = q * PGSIZE
    OBVIOUS
  <2> QED BY <1>1, <1>2, <1>3, <2>1, <2>2
<1>5. p * PGSIZE + PGSIZE <= q * PGSIZE
  BY <1>1, <1>2, <1>3, <1>4, MulGap
<1>6. a + PGSIZE = (p + 1) * PGSIZE + 0 /\ ((p + 1) * PGSIZE + 0) % PGSIZE = 0
  <2>1. (p + 1) * PGSIZE = p * PGSIZE + PGSIZE /\ p + 1 \in Int /\ 0 \in 0 .. PGSIZE - 1
    BY <1>1, <1>2
  <2>2. ((p + 1) * PGSIZE + 0) % PGSIZE = 0
    BY <1>1, <2>1, ModUnique
  <2> QED BY <1>1, <1>2, <2>1, <2>2
<1>7. (a + PGSIZE) % PGSIZE = 0
  BY <1>6
<1> QED BY <1>1, <1>2, <1>3, <1>5, <1>7

(* A segment ends within the pages that are there, and its pages are those *)
(* that it touches.                                                        *)
LEMMA ExtentIs ==
  ASSUME NEW v \in Nat, NEW n \in Nat
  PROVE  /\ ROUNDDOWN(v) + ROUNDUP(n) \in Nat /\ (ROUNDDOWN(v) + ROUNDUP(n)) % PGSIZE = 0
         /\ ROUNDDOWN(v) <= ROUNDDOWN(v) + ROUNDUP(n)
         /\ ROUNDDOWN(v) + ROUNDUP(n) < v + n + PGSIZE
         /\ \A b \in Nat : /\ b % PGSIZE = 0 /\ ROUNDDOWN(v) <= b
                           /\ b < ROUNDDOWN(v) + ROUNDUP(n)
                           => \E k \in 0 .. n - 1 : Page(v + k) = Page(b)
<1>1. PGSIZE \in Nat \ {0}
  BY Sizes
<1> DEFINE d == ROUNDDOWN(v)
           u == ROUNDUP(n)
           p == Page(v)
           q == Page(n + PGSIZE - 1)
<1>2. d \in Nat /\ d = p * PGSIZE /\ d <= v /\ v < d + PGSIZE /\ p \in Nat /\ d % PGSIZE = 0
  BY RoundedDown, PageIs
<1>3. u \in Nat /\ u = q * PGSIZE /\ u <= n + PGSIZE - 1 /\ n + PGSIZE - 1 < u + PGSIZE /\ q \in Nat
  <2> DEFINE x == n + PGSIZE - 1
  <2>1. x \in Nat
    BY <1>1
  <2>2. u = ROUNDDOWN(x)
    BY DEF ROUNDUP
  <2> HIDE DEF x, u
  <2>3. Page(x) = q
    BY DEF x
  <2> HIDE DEF q
  <2>4. u \in Nat /\ u = q * PGSIZE /\ u <= x /\ x < u + PGSIZE /\ q \in Nat
    BY <2>1, <2>2, <2>3, RoundedDown, PageIs
  <2> QED BY <2>4 DEF x
<1> HIDE DEF d, u, p, q
<1>4. d + u = (p + q) * PGSIZE + 0 /\ (d + u) % PGSIZE = 0
  <2>1. (p + q) * PGSIZE = p * PGSIZE + q * PGSIZE /\ p + q \in Int /\ 0 \in 0 .. PGSIZE - 1
    BY <1>1, <1>2, <1>3
  <2>2. ((p + q) * PGSIZE + 0) % PGSIZE = 0
    BY <1>1, <2>1, ModUnique
  <2>3. d + u = (p + q) * PGSIZE + 0
    BY <1>2, <1>3, <2>1
  <2> QED BY <2>2, <2>3
<1>5. d + u \in Nat /\ d <= d + u /\ d + u < v + n + PGSIZE
  BY <1>1, <1>2, <1>3
<1>6. ASSUME NEW b \in Nat, b % PGSIZE = 0, d <= b, b < d + u
      PROVE  \E k \in 0 .. n - 1 : Page(v + k) = Page(b)
  <2> DEFINE k == b - d
  <2>1. b + PGSIZE <= d + u
    BY <1>4, <1>5, <1>6, NextPage
  <2>2. k \in 0 .. n - 1
    BY <1>1, <1>2, <1>3, <1>6, <2>1
  <2>3. v + k \in Nat /\ b <= v + k /\ v + k < b + PGSIZE
    BY <1>1, <1>2, <1>6, <2>2
  <2>4. Page(v + k) = Page(b)
    BY <1>6, <2>3, SamePage
  <2> QED BY <2>2, <2>4
<1> QED BY <1>2, <1>3, <1>4, <1>5, <1>6 DEF d, u

(* What an image promises of a segment, and of two.                        *)
LEMMA Segments ==
  ASSUME image \in Images
  PROVE  /\ image \in Seq(Proghdr) /\ Len(image) \in Nat /\ DOMAIN image = 1 .. Len(image)
         /\ \A n \in DOMAIN image :
              /\ image[n].p_va \in Nat /\ image[n].p_filesz \in Nat /\ image[n].p_memsz \in Nat
              /\ image[n].load \in BOOLEAN /\ image[n].p_filesz <= image[n].p_memsz
              /\ image[n].p_va + image[n].p_memsz <= USTACKTOP - PGSIZE
         /\ \A n, k \in DOMAIN image :
              n # k => Touched(image[n]) \cap Touched(image[k]) = {}
<1>1. WellFormed(image)
  BY LoadAssumption
<1>2. image \in Seq(Proghdr)
  BY <1>1 DEF WellFormed
<1>3. Len(image) \in Nat /\ DOMAIN image = 1 .. Len(image) /\ \A n \in 1 .. Len(image) : image[n] \in Proghdr
  BY <1>2, LenProperties, ElementOfSeq
<1> QED BY <1>1, <1>2, <1>3 DEF WellFormed, Proghdr

(* The addresses of a segment.                                             *)
LEMMA InSegment ==
  ASSUME image \in Images, NEW n \in DOMAIN image, NEW k \in 0 .. image[n].p_memsz - 1
  PROVE  /\ image[n].p_va + k \in Addr /\ image[n].p_va + k < USTACKTOP - PGSIZE
         /\ Page(image[n].p_va + k) \in Touched(image[n])
<1> DEFINE v == image[n].p_va
           s == image[n].p_memsz
<1>1. v \in Nat /\ s \in Nat /\ v + s <= USTACKTOP - PGSIZE
  BY Segments
<1>2. k \in 0 .. s - 1
  OBVIOUS
<1> HIDE DEF v, s
<1>3. v + k \in Nat /\ v + k < USTACKTOP - PGSIZE
  BY <1>1, <1>2, Sizes
<1>4. v + k \in Addr
  BY <1>3, Sizes DEF Addr, USTACKTOP
<1> QED BY <1>3, <1>4 DEF Touched, v

(* What is done in other pages leaves a segment as it is.                  *)
LEMMA RightKept ==
  ASSUME NEW n, Right(n), image' = image,
         \A k \in 0 .. image[n].p_memsz - 1 : mem'[image[n].p_va + k] = mem[image[n].p_va + k]
  PROVE  Right(n)'
BY DEF Right, Byte, Zero

----------------------------------------------------------------------------
(* The steps.                                                              *)
LEMMA PageAllocated ==
  ASSUME LoadTypeOK, NEW start \in Nat, Filled(start), va < end, end % PGSIZE = 0, region_alloc_page
  PROVE  /\ LoadTypeOK' /\ va \in Addr
         /\ start <= va' /\ va' <= end /\ va' % PGSIZE = 0
         /\ \A a \in start .. va' - 1 : mem'[a] # Unmapped
<1>1. PGSIZE \in Nat \ {0} /\ USTACKTOP \in Nat
  BY Sizes
<1>2. /\ va \in Nat /\ end \in Nat /\ end <= USTACKTOP /\ va % PGSIZE = 0 /\ start <= va
      /\ \A a \in start .. va - 1 : mem[a] # Unmapped
  BY <1>1 DEF LoadTypeOK, Filled, Mapped
<1>3. va + PGSIZE <= end /\ (va + PGSIZE) % PGSIZE = 0
  BY <1>2, NextPage
<1>4. va \in Addr
  BY <1>1, <1>2 DEF Addr, USTACKTOP
<1>5. /\ va' = va + PGSIZE /\ end' = end /\ image' = image /\ ph' = ph /\ pc' = pc
      /\ mem' = [a \in Addr |-> IF Page(a) = Page(va) THEN Old ELSE mem[a]]
      /\ tables' = tables \cup {PDX(va)} /\ free' = free - Needed(va) + GivenBack(va) /\ Enough(va)
  BY DEF region_alloc_page
<1>6. \A a \in Addr : a \in Nat
  BY <1>1 DEF Addr, USTACKTOP
<1>7. mem' \in [Addr -> Content] /\ Content' = Content
  <2>1. Content' = Content
    BY <1>5 DEF Content, Byte, Unmapped, Old, Zero
  <2>2. Old \in Content
    BY DEF Content
  <2> QED BY <1>5, <2>1, <2>2 DEF LoadTypeOK
<1>8. free' \in Nat
  <2>1. free \in Nat /\ Needed(va) \in {1, 2} /\ GivenBack(va) \in {0, 1}
    BY DEF LoadTypeOK, Needed, GivenBack
  <2> QED BY <1>5, <2>1 DEF Enough
<1>9. LoadTypeOK'
  <2>1. va' \in 0 .. USTACKTOP
    BY <1>1, <1>2, <1>3, <1>5
  <2> QED BY <1>4, <1>5, <1>7, <1>8, <2>1 DEF LoadTypeOK
<1>10. ASSUME NEW a \in start .. va' - 1 PROVE mem'[a] # Unmapped
  <2>1. a \in Nat /\ a \in Addr
    BY <1>1, <1>2, <1>3, <1>5 DEF Addr, USTACKTOP
  <2>2. CASE a < va
    <3>1. mem[a] # Unmapped
      BY <1>2, <2>1, <2>2
    <3> QED BY <1>5, <2>1, <3>1 DEF Old, Unmapped
  <2>3. CASE va <= a
    <3>1. a < va + PGSIZE
      BY <1>1, <1>2, <1>5, <2>1
    <3>2. Page(a) = Page(va)
      BY <1>2, <2>1, <2>3, <3>1, SamePage
    <3> QED BY <1>5, <2>1, <3>2 DEF Old, Unmapped
  <2> QED BY <1>2, <2>1, <2>2, <2>3
<1> QED BY <1>1, <1>2, <1>3, <1>4, <1>5, <1>9, <1>10

LEMMA AllocStep ==
  ASSUME LoadInv, region_alloc_page
  PROVE  LoadInv'
<1>1. /\ image \in Images /\ LoadTypeOK /\ Before /\ Loading /\ StackMapped /\ FaultsOnlyWhenShort
  BY DEF LoadInv
<1>2. /\ va' = va + PGSIZE /\ end' = end /\ image' = image /\ ph' = ph /\ pc' = pc
      /\ mem' = [a \in Addr |-> IF Page(a) = Page(va) THEN Old ELSE mem[a]]
      /\ pc \in {"alloc", "stack"} /\ va < end
  BY DEF region_alloc_page, Allocating
<1>3. Segment' = Segment /\ Extent' = Extent
  BY <1>2 DEF Segment, Extent, ROUNDUP, ROUNDDOWN
<1>4. ASSUME NEW n \in DOMAIN image, NEW k \in 0 .. image[n].p_memsz - 1,
             Page(image[n].p_va + k) # Page(va)
      PROVE  mem'[image[n].p_va + k] = mem[image[n].p_va + k]
  <2>1. image[n].p_va + k \in Addr
    BY <1>1, InSegment
  <2> QED BY <1>2, <1>4, <2>1
<1>5. CASE pc = "alloc"
  <2> DEFINE v == Segment.p_va
             z == Segment.p_memsz
             s == ROUNDDOWN(v)
  <2>1. ph \in DOMAIN image /\ Segment.load /\ end = Extent /\ Filled(s)
    BY <1>1, <1>5 DEF Loading
  <2>2. v \in Nat /\ z \in Nat /\ end = s + ROUNDUP(z)
    BY <1>1, <2>1, Segments DEF Segment, Extent
  <2> HIDE DEF v, z
  <2>3. /\ s \in Nat /\ end % PGSIZE = 0
        /\ \A b \in Nat : b % PGSIZE = 0 /\ s <= b /\ b < end => \E k \in 0 .. z - 1 : Page(v + k) = Page(b)
    BY <2>2, RoundedDown, ExtentIs
  <2>4. s' = s
    BY <1>3 DEF ROUNDDOWN, v
  <2> HIDE DEF s
  <2>5. /\ LoadTypeOK' /\ va \in Addr
        /\ s <= va' /\ va' <= end /\ va' % PGSIZE = 0
        /\ \A a \in s .. va' - 1 : mem'[a] # Unmapped
    BY <1>1, <1>2, <2>1, <2>3, PageAllocated
  <2>6. Before'
    <3>1. \E k \in 0 .. z - 1 : Page(v + k) = Page(va)
      <4>1. va \in Nat /\ va % PGSIZE = 0 /\ s <= va
        BY <1>1, <2>1, Sizes DEF Filled, LoadTypeOK
      <4> QED BY <1>2, <2>3, <4>1
    <3>2. Page(va) \in Touched(image[ph])
      BY <3>1 DEF Touched, Segment, v, z
    <3>3. ASSUME NEW n \in DOMAIN image, n < ph, image[n].load PROVE Right(n)'
      <4>1. \A k \in 0 .. image[n].p_memsz - 1 : Page(image[n].p_va + k) # Page(va)
        <5>1. n # ph
          BY <1>1, <2>1, <3>3, Segments
        <5>2. Touched(image[n]) \cap Touched(image[ph]) = {}
          BY <1>1, <2>1, <5>1, Segments
        <5>3. \A k \in 0 .. image[n].p_memsz - 1 : Page(image[n].p_va + k) \in Touched(image[n])
          BY DEF Touched
        <5> QED BY <3>2, <5>2, <5>3
      <4>2. \A k \in 0 .. image[n].p_memsz - 1 : mem'[image[n].p_va + k] = mem[image[n].p_va + k]
        BY <1>4, <4>1
      <4>3. Right(n)
        BY <1>1, <3>3 DEF Before
      <4> QED BY <1>2, <4>2, <4>3, RightKept
    <3> QED BY <1>2, <3>3 DEF Before
  <2>7. Loading'
    <3>1. s <= va' /\ va' <= end' /\ va' % PGSIZE = 0 /\ \A a \in s .. va' - 1 : mem'[a] # Unmapped
      BY <1>2, <2>5
    <3> QED BY <1>2, <1>3, <1>5, <2>1, <2>4, <3>1 DEF Loading, Filled, Mapped, s, v
  <2> QED BY <1>1, <1>2, <1>5, <2>5, <2>6, <2>7 DEF LoadInv, StackMapped, FaultsOnlyWhenShort
<1>6. CASE pc = "stack"
  <2> DEFINE s == USTACKTOP - PGSIZE
  <2>1. ph \notin DOMAIN image /\ end = USTACKTOP /\ Filled(s)
    BY <1>1, <1>6 DEF StackMapped
  <2>2. s \in Nat /\ end % PGSIZE = 0
    <3>1. USTACKTOP = NPAGES * PGSIZE + 0 /\ (NPAGES * PGSIZE + 0) % PGSIZE = 0
      <4>1. NPAGES \in Int /\ 0 \in 0 .. PGSIZE - 1 /\ PGSIZE \in Nat \ {0}
        BY Sizes
      <4>2. (NPAGES * PGSIZE + 0) % PGSIZE = 0
        BY <4>1, ModUnique
      <4> QED BY <4>1, <4>2 DEF USTACKTOP
    <3> QED BY <2>1, <3>1, Sizes
  <2> HIDE DEF s
  <2>3. /\ LoadTypeOK' /\ va \in Addr
        /\ s <= va' /\ va' <= end /\ va' % PGSIZE = 0
        /\ \A a \in s .. va' - 1 : mem'[a] # Unmapped
    BY <1>1, <1>2, <2>1, <2>2, PageAllocated
  <2>4. Before'
    <3>1. va \in Nat /\ va % PGSIZE = 0 /\ s <= va
      BY <1>1, <2>1, Sizes DEF Filled, LoadTypeOK
    <3>2. ASSUME NEW n \in DOMAIN image, n < ph, image[n].load PROVE Right(n)'
      <4>1. ASSUME NEW k \in 0 .. image[n].p_memsz - 1 PROVE Page(image[n].p_va + k) # Page(va)
        <5> DEFINE a == image[n].p_va + k
        <5>1. a \in Nat /\ a < s
          BY <1>1, InSegment, Sizes DEF Addr, s
        <5> HIDE DEF a
        <5>2. Page(a) # Page(va)
          BY <2>2, <3>1, <5>1, SamePage
        <5> QED BY <5>2 DEF a
      <4>2. \A k \in 0 .. image[n].p_memsz - 1 : mem'[image[n].p_va + k] = mem[image[n].p_va + k]
        BY <1>4, <4>1
      <4>3. Right(n)
        BY <1>1, <3>2 DEF Before
      <4> QED BY <1>2, <4>2, <4>3, RightKept
    <3> QED BY <1>2, <3>2 DEF Before
  <2>5. StackMapped'
    <3>1. s <= va' /\ va' <= end' /\ va' % PGSIZE = 0 /\ \A a \in s .. va' - 1 : mem'[a] # Unmapped
      BY <1>2, <2>3
    <3> QED BY <1>2, <1>6, <2>1, <3>1 DEF StackMapped, Filled, Mapped, s
  <2> QED BY <1>1, <1>2, <1>6, <2>3, <2>4, <2>5 DEF LoadInv, Loading, FaultsOnlyWhenShort
<1> QED BY <1>2, <1>5, <1>6

(* The bytes that the copy and the clearing write are those of the segment *)
(* that is being loaded.                                                   *)
LEMMA OthersKept ==
  ASSUME image \in Images, Before, image' = image, ph \in DOMAIN image,
         \A a \in Addr : mem'[a] # mem[a] =>
           \E k \in 0 .. image[ph].p_memsz - 1 : a = image[ph].p_va + k
  PROVE  \A n \in DOMAIN image : n < ph /\ image[n].load => Right(n)'
<1> SUFFICES ASSUME NEW n \in DOMAIN image, n < ph, image[n].load PROVE Right(n)'
  OBVIOUS
<1>1. Right(n) /\ n # ph
  BY Segments DEF Before
<1>2. Touched(image[n]) \cap Touched(image[ph]) = {}
  BY <1>1, Segments
<1>3. ASSUME NEW k \in 0 .. image[n].p_memsz - 1
      PROVE  mem'[image[n].p_va + k] = mem[image[n].p_va + k]
  <2> DEFINE a == image[n].p_va + k
  <2>1. a \in Addr /\ Page(a) \in Touched(image[n])
    BY InSegment
  <2> HIDE DEF a
  <2>2. (\E j \in 0 .. image[ph].p_memsz - 1 : a = image[ph].p_va + j) => Page(a) \in Touched(image[ph])
    BY DEF Touched
  <2>3. mem'[a] = mem[a]
    BY <1>2, <2>1, <2>2
  <2> QED BY <2>3 DEF a
<1> QED BY <1>1, <1>3, RightKept

(* A byte of the segment that is not mapped lies beyond its pages.         *)
LEMMA FaultIsShort ==
  ASSUME image \in Images, Loading, pc \in {"alloc", "zero"}, LoadTypeOK, va >= end,
         NEW k \in Nat, k < Segment.p_memsz, ~ Mapped(Segment.p_va + k)
  PROVE  Extent < Segment.p_va + Segment.p_memsz
<1> DEFINE v == Segment.p_va
           z == Segment.p_memsz
           s == ROUNDDOWN(v)
<1>1. ph \in DOMAIN image /\ end = Extent /\ Filled(s)
  BY DEF Loading
<1>2. v \in Nat /\ z \in Nat
  BY <1>1, Segments DEF Segment
<1>3. s \in Nat /\ s <= v
  BY <1>2, RoundedDown
<1>4. end \in Nat /\ va \in Nat
  BY Sizes DEF LoadTypeOK
<1>5. va = end /\ \A a \in s .. va - 1 : Mapped(a)
  BY <1>1, <1>4 DEF Filled
<1>6. k < z /\ ~ Mapped(v + k)
  OBVIOUS
<1> HIDE DEF v, z, s
<1>7. end < v + z
  BY <1>2, <1>3, <1>4, <1>5, <1>6
<1> QED BY <1>1, <1>7 DEF v, z

LEMMA CopyStep ==
  ASSUME LoadInv, copy
  PROVE  LoadInv'
<1>1. /\ image \in Images /\ LoadTypeOK /\ Before /\ Loading /\ StackMapped /\ FaultsOnlyWhenShort
  BY DEF LoadInv
<1>2. pc = "alloc" /\ va >= end /\ UNCHANGED <<image, ph, va, end, tables, free>>
  BY DEF copy
<1>3. ph \in DOMAIN image /\ Segment.load /\ end = Extent /\ Filled(ROUNDDOWN(Segment.p_va))
  BY <1>1, <1>2 DEF Loading
<1>4. /\ Segment.p_va \in Nat /\ Segment.p_filesz \in Nat /\ Segment.p_memsz \in Nat
      /\ Segment.p_filesz <= Segment.p_memsz
  BY <1>1, <1>3, Segments DEF Segment
<1>5. Segment' = Segment /\ Extent' = Extent
  BY <1>2 DEF Segment, Extent, ROUNDUP, ROUNDDOWN
<1>6. CASE Faults(Segment.p_va, Segment.p_filesz)
  <2>1. pc' = "fault" /\ mem' = mem
    BY <1>6 DEF copy
  <2>2. PICK k \in 0 .. Segment.p_filesz - 1 : ~ Mapped(Segment.p_va + k)
    BY <1>6 DEF Faults
  <2>3. k \in Nat /\ k < Segment.p_memsz
    BY <1>4, <2>2
  <2>4. Extent < Segment.p_va + Segment.p_memsz
    BY <1>1, <1>2, <2>2, <2>3, FaultIsShort
  <2>5. FaultsOnlyWhenShort'
    BY <1>5, <2>4 DEF FaultsOnlyWhenShort, Extent, ROUNDUP, ROUNDDOWN
  <2>6. LoadTypeOK'
    BY <1>1, <1>2, <2>1 DEF LoadTypeOK, Content, Byte, Unmapped, Old, Zero
  <2>7. Before'
    BY <1>1, <1>2, <2>1 DEF Before, Right, Byte, Zero
  <2>8. Loading' /\ StackMapped'
    BY <1>2, <1>3, <2>1 DEF Loading, StackMapped
  <2> QED BY <1>1, <1>2, <2>5, <2>6, <2>7, <2>8 DEF LoadInv
<1>7. CASE ~ Faults(Segment.p_va, Segment.p_filesz)
  <2>1. pc' = "zero" /\ mem' = memcpy(Segment.p_va, ph, Segment.p_filesz)
    BY <1>7 DEF copy
  <2> DEFINE v == Segment.p_va
             f == Segment.p_filesz
  <2>2. mem' = [b \in Addr |-> IF b - v \in 0 .. f - 1 THEN Byte(ph, b - v) ELSE mem[b]]
    BY <2>1 DEF memcpy
  <2>3. v \in Nat /\ f \in Nat
    BY <1>4
  <2>4. \A a \in Addr : a \in Nat
    BY Sizes DEF Addr, USTACKTOP
  <2>5. LoadTypeOK'
    <3>1. Content' = Content
      BY <1>2 DEF Content, Byte, Unmapped, Old, Zero
    <3>2. ASSUME NEW b \in Addr, b - v \in 0 .. f - 1 PROVE Byte(ph, b - v) \in Content
      <4>1. b - v \in Addr
        <5> HIDE DEF v, f
        <5> QED BY <2>3, <2>4, <3>2, Sizes DEF Addr, USTACKTOP
      <4> QED BY <1>3, <4>1 DEF Content
    <3>3. mem' \in [Addr -> Content]
      <4> HIDE DEF v, f
      <4> QED BY <1>1, <2>2, <3>2 DEF LoadTypeOK
    <3> QED BY <1>1, <1>2, <2>1, <3>1, <3>3 DEF LoadTypeOK
  <2>6. Before'
    <3>1. ASSUME NEW a \in Addr, mem'[a] # mem[a]
          PROVE  \E k \in 0 .. image[ph].p_memsz - 1 : a = image[ph].p_va + k
      <4>1. a - v \in 0 .. f - 1
        <5> HIDE DEF v, f
        <5> QED BY <2>2, <3>1
      <4>2. a - v \in 0 .. Segment.p_memsz - 1 /\ a = v + (a - v)
        <5>1. f <= Segment.p_memsz /\ Segment.p_memsz \in Nat /\ a \in Nat
          BY <1>4, <2>4
        <5> HIDE DEF v, f
        <5> QED BY <2>3, <4>1, <5>1
      <4> QED BY <4>2 DEF Segment
    <3>2. \A n \in DOMAIN image : n < ph /\ image[n].load => Right(n)'
      BY <1>1, <1>2, <1>3, <3>1, OthersKept
    <3> QED BY <1>2, <3>2 DEF Before
  <2>7. Loading'
    <3>1. \A a \in Addr : mem[a] # Unmapped => mem'[a] # Unmapped
      <4> HIDE DEF v, f
      <4> QED BY <2>2 DEF Byte, Unmapped
    <3>2. ASSUME NEW a \in ROUNDDOWN(v) .. va - 1 PROVE mem'[a] # Unmapped
      <4>1. a \in Addr
        <5>1. ROUNDDOWN(v) \in Nat /\ va \in Nat /\ va <= USTACKTOP
          <6>1. ROUNDDOWN(v) \in Nat
            <7> HIDE DEF v
            <7> QED BY <2>3, RoundedDown
          <6>2. va \in Nat /\ va <= USTACKTOP
            BY <1>1, Sizes DEF LoadTypeOK
          <6> QED BY <6>1, <6>2
        <5> QED BY <5>1, Sizes DEF Addr, USTACKTOP
      <4>2. mem[a] # Unmapped
        BY <1>3 DEF Filled, Mapped
      <4> QED BY <3>1, <4>1, <4>2
    <3>3. ASSUME NEW k \in 0 .. f - 1 PROVE mem'[v + k] = Byte(ph, k)
      <4>1. image[ph].p_va + k \in Addr
        <5>1. k \in 0 .. image[ph].p_memsz - 1
          <6>1. f <= Segment.p_memsz /\ Segment.p_memsz \in Nat
            BY <1>4
          <6>2. k \in 0 .. Segment.p_memsz - 1
            <7> HIDE DEF f
            <7> QED BY <2>3, <3>3, <6>1
          <6> QED BY <6>2 DEF Segment
        <5> QED BY <1>1, <1>3, <5>1, InSegment
      <4>2. v + k \in Addr /\ (v + k) - v = k
        BY <2>3, <4>1 DEF Segment
      <4> HIDE DEF v, f
      <4> QED BY <2>2, <3>3, <4>2
    <3> QED BY <1>2, <1>3, <1>5, <2>1, <3>2, <3>3 DEF Loading, Filled, Mapped, ROUNDDOWN
  <2> QED BY <1>1, <1>2, <2>1, <2>5, <2>6, <2>7 DEF LoadInv, StackMapped, FaultsOnlyWhenShort
<1> QED BY <1>6, <1>7

LEMMA ZeroStep ==
  ASSUME LoadInv, zero
  PROVE  LoadInv'
<1>1. /\ image \in Images /\ LoadTypeOK /\ Before /\ Loading /\ StackMapped /\ FaultsOnlyWhenShort
  BY DEF LoadInv
<1>2. pc = "zero" /\ UNCHANGED <<image, va, end, tables, free>>
  BY DEF zero
<1>3. /\ ph \in DOMAIN image /\ va >= end
      /\ \A k \in 0 .. Segment.p_filesz - 1 : mem[Segment.p_va + k] = Byte(ph, k)
  BY <1>1, <1>2 DEF Loading
<1> DEFINE v == Segment.p_va
           f == Segment.p_filesz
           z == Segment.p_memsz
<1>4. v \in Nat /\ f \in Nat /\ z \in Nat /\ f <= z
  BY <1>1, <1>3, Segments DEF Segment
<1>5. BssStart = v + f /\ BssLen = z - f
  BY DEF BssStart, BssLen
<1>6. CASE Faults(BssStart, BssLen)
  <2>1. pc' = "fault" /\ mem' = mem /\ ph' = ph
    BY <1>6 DEF zero
  <2>2. PICK j \in 0 .. BssLen - 1 : ~ Mapped(BssStart + j)
    BY <1>6 DEF Faults
  <2>3. f + j \in Nat /\ f + j < z /\ ~ Mapped(v + (f + j))
    <3>1. j \in 0 .. (z - f) - 1 /\ ~ Mapped((v + f) + j)
      BY <1>5, <2>2
    <3> HIDE DEF v, f, z
    <3>2. f + j \in Nat /\ f + j < z /\ (v + f) + j = v + (f + j)
      BY <1>4, <3>1
    <3> QED BY <3>1, <3>2
  <2>4. Extent < Segment.p_va + Segment.p_memsz
    <3> DEFINE k == f + j
    <3>1. k \in Nat /\ k < Segment.p_memsz /\ ~ Mapped(Segment.p_va + k)
      BY <2>3
    <3> HIDE DEF k
    <3> QED BY <1>1, <1>2, <1>3, <3>1, FaultIsShort
  <2>5. FaultsOnlyWhenShort'
    BY <1>2, <2>1, <2>4 DEF FaultsOnlyWhenShort, Extent, Segment, ROUNDUP, ROUNDDOWN
  <2>6. LoadTypeOK'
    BY <1>1, <1>2, <2>1 DEF LoadTypeOK, Content, Byte, Unmapped, Old, Zero
  <2>7. Before'
    BY <1>1, <1>2, <2>1 DEF Before, Right, Byte, Zero
  <2>8. Loading' /\ StackMapped'
    BY <1>2, <1>3, <2>1 DEF Loading, StackMapped
  <2> QED BY <1>1, <1>2, <2>5, <2>6, <2>7, <2>8 DEF LoadInv
<1>7. CASE ~ Faults(BssStart, BssLen)
  <2>1. pc' = "segment" /\ ph' = ph + 1 /\ mem' = memset(mem, BssStart, Zero, BssLen)
    BY <1>7 DEF zero
  <2>2. mem' = [a \in Addr |-> IF a - (v + f) \in 0 .. (z - f) - 1 THEN Zero ELSE mem[a]]
    <3>1. DOMAIN mem = Addr
      BY <1>1 DEF LoadTypeOK
    <3> QED BY <1>5, <2>1, <3>1 DEF memset
  <2>3. \A a \in Addr : a \in Nat
    BY Sizes DEF Addr, USTACKTOP
  <2>4. LoadTypeOK'
    <3>1. Content' = Content /\ Zero \in Content
      BY <1>2 DEF Content, Byte, Unmapped, Old, Zero
    <3>2. mem' \in [Addr -> Content]
      <4> HIDE DEF v, f, z
      <4> QED BY <1>1, <2>2, <3>1 DEF LoadTypeOK
    <3>3. ph' \in 1 .. Len(image') + 1
      BY <1>1, <1>2, <1>3, <2>1, Segments
    <3> QED BY <1>1, <1>2, <2>1, <3>1, <3>2, <3>3 DEF LoadTypeOK
  <2>5. \A n \in DOMAIN image : n < ph /\ image[n].load => Right(n)'
    <3>1. ASSUME NEW a \in Addr, mem'[a] # mem[a]
          PROVE  \E k \in 0 .. image[ph].p_memsz - 1 : a = image[ph].p_va + k
      <4>1. a - v \in 0 .. z - 1 /\ a = v + (a - v)
        <5>1. a \in Nat
          BY <2>3
        <5> HIDE DEF v, f, z
        <5>2. a - (v + f) \in 0 .. (z - f) - 1
          BY <2>2, <3>1
        <5> QED BY <1>4, <5>1, <5>2
      <4> QED BY <4>1 DEF Segment
    <3> QED BY <1>1, <1>2, <1>3, <3>1, OthersKept
  <2>6. \A n \in DOMAIN image : n = ph => Right(n)'
    <3>1. ASSUME NEW k \in 0 .. z - 1
          PROVE  mem'[v + k] = IF k < f THEN Byte(ph, k) ELSE Zero
      <4>1. v + k \in Addr
        <5>1. image[ph].p_va + k \in Addr
          <6>1. k \in 0 .. image[ph].p_memsz - 1
            BY DEF Segment
          <6> QED BY <1>1, <1>3, <6>1, InSegment
        <5> QED BY <5>1 DEF Segment
      <4>2. CASE k < f
        <5>1. mem[v + k] = Byte(ph, k)
          <6>1. k \in 0 .. f - 1
            <7> HIDE DEF v, f, z
            <7> QED BY <1>4, <3>1, <4>2
          <6> QED BY <1>3, <6>1
        <5> HIDE DEF v, f, z
        <5>2. (v + k) - (v + f) \notin 0 .. (z - f) - 1
          BY <1>4, <4>2
        <5> QED BY <2>2, <4>1, <4>2, <5>1, <5>2
      <4>3. CASE ~ (k < f)
        <5> HIDE DEF v, f, z
        <5>2. (v + k) - (v + f) \in 0 .. (z - f) - 1
          BY <1>4, <3>1, <4>3
        <5> QED BY <2>2, <4>1, <4>3, <5>2
      <4> QED BY <4>2, <4>3
    <3>2. \A k \in 0 .. image[ph].p_memsz - 1 :
            mem'[image[ph].p_va + k] = IF k < image[ph].p_filesz THEN Byte(ph, k) ELSE Zero
      BY <3>1 DEF Segment
    <3> HIDE DEF v, f, z
    <3> SUFFICES ASSUME NEW n \in DOMAIN image, n = ph PROVE Right(n)'
      OBVIOUS
    <3> QED BY <1>2, <3>2 DEF Right, Byte, Zero
  <2>7. Before'
    <3> HIDE DEF v, f, z
    <3>1. \A n \in DOMAIN image : n < ph + 1 => n < ph \/ n = ph
      BY <1>1, <1>3, Segments
    <3>2. ASSUME NEW n \in DOMAIN image, n < ph + 1, image[n].load PROVE Right(n)'
      BY <2>5, <2>6, <3>1, <3>2
    <3> QED BY <1>2, <2>1, <3>2 DEF Before
  <2>8. Loading' /\ StackMapped' /\ FaultsOnlyWhenShort'
    BY <2>1 DEF Loading, StackMapped, FaultsOnlyWhenShort
  <2> QED BY <1>1, <1>2, <2>4, <2>7, <2>8 DEF LoadInv
<1> QED BY <1>6, <1>7

(* Beginning a segment: its first page is next, and none of it is mapped.  *)
LEMMA SegmentStep ==
  ASSUME LoadInv, next_segment
  PROVE  LoadInv'
<1>1. /\ image \in Images /\ LoadTypeOK /\ Before /\ Loading /\ StackMapped /\ FaultsOnlyWhenShort
  BY DEF LoadInv
<1>2. pc = "segment" /\ ph \in DOMAIN image /\ UNCHANGED <<image, mem, tables, free>>
  BY DEF next_segment
<1> DEFINE v == Segment.p_va
           z == Segment.p_memsz
<1>3. v \in Nat /\ z \in Nat /\ v + z <= USTACKTOP - PGSIZE
  BY <1>1, <1>2, Segments DEF Segment
<1>4. CASE Segment.load
  <2>1. va' = ROUNDDOWN(v) /\ end' = ROUNDDOWN(v) + ROUNDUP(z) /\ pc' = "alloc" /\ ph' = ph
    BY <1>4 DEF next_segment, Begin
  <2>2. v' = v /\ z' = z /\ Segment' = Segment
    BY <1>2, <2>1 DEF Segment
  <2>3. end' = Extent'
    BY <2>1, <2>2 DEF Extent, ROUNDUP, ROUNDDOWN
  <2>4. ROUNDDOWN(v)' = ROUNDDOWN(v)
    BY <2>2 DEF ROUNDDOWN
  <2> HIDE DEF v, z
  <2>5. /\ ROUNDDOWN(v) \in Nat /\ ROUNDDOWN(v) % PGSIZE = 0
        /\ ROUNDDOWN(v) + ROUNDUP(z) \in Nat /\ ROUNDDOWN(v) <= ROUNDDOWN(v) + ROUNDUP(z)
        /\ ROUNDDOWN(v) + ROUNDUP(z) < v + z + PGSIZE
    BY <1>3, RoundedDown, ExtentIs
  <2>6. va' \in 0 .. USTACKTOP /\ end' \in 0 .. USTACKTOP
    BY <1>3, <2>1, <2>5, Sizes
  <2>7. LoadTypeOK'
    BY <1>1, <1>2, <2>1, <2>6 DEF LoadTypeOK, Content, Byte, Unmapped, Old, Zero
  <2>8. Before'
    BY <1>1, <1>2, <2>1 DEF Before, Right, Byte, Zero
  <2>9. /\ ROUNDDOWN(v)' <= va' /\ va' <= end' /\ va' % PGSIZE = 0
        /\ \A a \in ROUNDDOWN(v)' .. va' - 1 : mem'[a] # Unmapped
    BY <2>1, <2>4, <2>5
  <2>10. Loading'
    BY <1>2, <1>4, <2>1, <2>2, <2>3, <2>9 DEF Loading, Filled, Mapped, v
  <2> QED BY <1>1, <1>2, <2>1, <2>7, <2>8, <2>10 DEF LoadInv, StackMapped, FaultsOnlyWhenShort
<1>5. CASE ~ Segment.load
  <2>1. UNCHANGED <<va, end, pc>> /\ ph' = ph + 1
    BY <1>5 DEF next_segment
  <2>2. ph' \in 1 .. Len(image') + 1
    BY <1>1, <1>2, <2>1, Segments
  <2>3. LoadTypeOK'
    BY <1>1, <1>2, <2>1, <2>2 DEF LoadTypeOK, Content, Byte, Unmapped, Old, Zero
  <2>4. Before'
    <3>1. \A n \in DOMAIN image : n < ph + 1 /\ image[n].load => n < ph
      BY <1>1, <1>2, <1>5, Segments DEF Segment
    <3>2. ASSUME NEW n \in DOMAIN image, n < ph + 1, image[n].load PROVE Right(n)'
      BY <1>1, <1>2, <3>1, <3>2, RightKept DEF Before
    <3> QED BY <1>2, <2>1, <3>2 DEF Before
  <2> QED BY <1>1, <1>2, <2>1, <2>3, <2>4 DEF LoadInv, Loading, StackMapped, FaultsOnlyWhenShort
<1> QED BY <1>4, <1>5

(* Beginning the stack: it is one page, the last.                          *)
LEMMA StackStep ==
  ASSUME LoadInv, no_segment
  PROVE  LoadInv'
<1>1. /\ image \in Images /\ LoadTypeOK /\ Before /\ Loading /\ StackMapped /\ FaultsOnlyWhenShort
  BY DEF LoadInv
<1> DEFINE s == USTACKTOP - PGSIZE
<1>2. /\ pc = "segment" /\ ph \notin DOMAIN image /\ UNCHANGED <<image, ph, mem, tables, free>>
      /\ va' = ROUNDDOWN(s) /\ end' = ROUNDDOWN(s) + ROUNDUP(PGSIZE) /\ pc' = "stack"
  BY DEF no_segment, Begin
<1>3. PGSIZE \in Nat \ {0} /\ s \in Nat /\ s = (NPAGES - 1) * PGSIZE /\ NPAGES - 1 \in Int
  BY Sizes
<1>4. s % PGSIZE = 0
  <2>1. ((NPAGES - 1) * PGSIZE + 0) % PGSIZE = 0 /\ 0 \in 0 .. PGSIZE - 1
    BY <1>3, ModUnique
  <2>2. s = (NPAGES - 1) * PGSIZE + 0
    BY <1>3
  <2> QED BY <2>1, <2>2
<1>5. ROUNDDOWN(s) = s
  <2> HIDE DEF s
  <2> QED BY <1>3, <1>4 DEF ROUNDDOWN
<1>6. ROUNDUP(PGSIZE) = PGSIZE
  <2> DEFINE x == PGSIZE + PGSIZE - 1
  <2>1. (1 * PGSIZE + (PGSIZE - 1)) % PGSIZE = PGSIZE - 1
    <3> DEFINE r == PGSIZE - 1
    <3>1. r \in 0 .. PGSIZE - 1 /\ 1 \in Int
      BY <1>3
    <3> HIDE DEF r
    <3>2. (1 * PGSIZE + r) % PGSIZE = r
      BY <1>3, <3>1, ModUnique
    <3> QED BY <3>2 DEF r
  <2>2. x = 1 * PGSIZE + (PGSIZE - 1)
    BY <1>3
  <2>3. ROUNDUP(PGSIZE) = x - (x % PGSIZE)
    BY DEF ROUNDUP, ROUNDDOWN
  <2>4. x % PGSIZE = PGSIZE - 1
    BY <2>1, <2>2
  <2> QED BY <1>3, <2>3, <2>4
<1>7. va' = s /\ end' = USTACKTOP /\ USTACKTOP \in Nat /\ s <= USTACKTOP
  BY <1>2, <1>3, <1>5, <1>6, Sizes
<1>8. LoadTypeOK'
  <2>1. va' \in 0 .. USTACKTOP /\ end' \in 0 .. USTACKTOP
    <3> HIDE DEF s
    <3> QED BY <1>3, <1>7
  <2> QED BY <1>1, <1>2, <2>1 DEF LoadTypeOK, Content, Byte, Unmapped, Old, Zero
<1>9. Before'
  BY <1>1, <1>2 DEF Before, Right, Byte, Zero
<1>10. StackMapped'
  <2>1. s <= va' /\ va' <= end' /\ va' % PGSIZE = 0 /\ \A a \in s .. va' - 1 : mem'[a] # Unmapped
    <3> HIDE DEF s
    <3> QED BY <1>3, <1>4, <1>7
  <2> QED BY <1>2, <1>7, <2>1 DEF StackMapped, Filled, Mapped
<1> QED BY <1>1, <1>2, <1>8, <1>9, <1>10 DEF LoadInv, Loading, FaultsOnlyWhenShort

(* The other steps change no memory.                                       *)
LEMMA OtherStep ==
  ASSUME LoadInv, check_magic \/ out_of_memory \/ stack_done \/ UNCHANGED load_vars
  PROVE  LoadInv'
<1>1. /\ image \in Images /\ LoadTypeOK /\ Before /\ Loading /\ StackMapped /\ FaultsOnlyWhenShort
  BY DEF LoadInv
<1>2. UNCHANGED <<image, ph, va, end, mem, tables, free>>
  BY DEF check_magic, out_of_memory, stack_done, load_vars
<1>3. Before'
  BY <1>1, <1>2 DEF Before, Right, Byte, Zero
<1>4. pc' = pc \/ pc' \in {"segment", "panic"} \/ (stack_done /\ pc' = "done")
  BY DEF check_magic, out_of_memory, stack_done, load_vars
<1>5. LoadTypeOK'
  BY <1>1, <1>2, <1>4 DEF LoadTypeOK, Content, Byte, Unmapped, Old, Zero
<1>6. CASE pc' = pc
  BY <1>1, <1>2, <1>3, <1>5, <1>6 DEF LoadInv, Loading, StackMapped, FaultsOnlyWhenShort, Filled, Mapped,
     Extent, Segment, ROUNDUP, ROUNDDOWN, Byte, Unmapped
<1>7. CASE pc' \in {"segment", "panic"}
  BY <1>1, <1>2, <1>3, <1>5, <1>7 DEF LoadInv, Loading, StackMapped, FaultsOnlyWhenShort
<1>8. CASE stack_done /\ pc' = "done"
  <2>1. pc = "stack" /\ va >= end
    BY <1>8 DEF stack_done
  <2>2. ph \notin DOMAIN image /\ end = USTACKTOP /\ Filled(USTACKTOP - PGSIZE)
    BY <1>1, <2>1 DEF StackMapped
  <2>3. va = USTACKTOP
    BY <1>1, <2>1, <2>2, Sizes DEF Filled, LoadTypeOK
  <2>4. \A a \in USTACKTOP - PGSIZE .. USTACKTOP - 1 : mem[a] # Unmapped
    BY <2>2, <2>3 DEF Filled, Mapped
  <2>5. StackMapped'
    BY <1>2, <1>8, <2>2, <2>4 DEF StackMapped, Mapped, Unmapped
  <2> QED BY <1>1, <1>2, <1>3, <1>5, <1>8, <2>5 DEF LoadInv, Loading, FaultsOnlyWhenShort
<1> QED BY <1>4, <1>6, <1>7, <1>8

LEMMA LoadInvInit == LoadInit => LoadInv
<1> SUFFICES ASSUME LoadInit PROVE LoadInv
  OBVIOUS
<1>1. /\ image \in Images /\ ph = 1 /\ va = 0 /\ end = 0 /\ tables = {} /\ free \in Nat
      /\ mem = [a \in Addr |-> Unmapped] /\ pc = "magic"
  BY LoadAssumption DEF LoadInit
<1>2. LoadTypeOK
  BY <1>1, Segments, Sizes DEF LoadTypeOK, Content
<1>3. Before
  <2>1. \A n \in DOMAIN image : ~ (n < 1)
    BY <1>1, Segments
  <2> QED BY <1>1, <2>1 DEF Before
<1> QED BY <1>1, <1>2, <1>3 DEF LoadInv, Loading, StackMapped, FaultsOnlyWhenShort

LEMMA LoadInvNext == LoadInv /\ [LoadNext]_load_vars => LoadInv'
BY AllocStep, CopyStep, ZeroStep, SegmentStep, StackStep, OtherStep DEF LoadNext

LEMMA LoadInvAlways == LoadSpec => []LoadInv
BY LoadInvInit, LoadInvNext, PTL DEF LoadSpec

----------------------------------------------------------------------------
(* A program that load_icode has loaded finds every byte of every segment  *)
(* where the program headers put it, its bss clear and its stack mapped:   *)
(* no later region_alloc, memcpy or memset has spoilt it.                  *)
THEOREM Loaded == LoadSpec => []LoadedExactly
<1>1. LoadInv => LoadedExactly
  <2> SUFFICES ASSUME LoadInv PROVE LoadedExactly
    OBVIOUS
  <2>1. image \in Images /\ LoadTypeOK /\ Before /\ StackMapped
    BY DEF LoadInv
  <2>2. ASSUME pc = "done" PROVE \A n \in DOMAIN image : n < ph
    BY <2>1, <2>2, Segments DEF StackMapped, LoadTypeOK
  <2> QED BY <2>1, <2>2 DEF LoadedExactly, Before, Right, StackMapped
<1> QED BY <1>1, LoadInvAlways, PTL

(* region_alloc rounds the length, not the end of the region: the kernel   *)
(* faults on its own copying or clearing only for a segment whose bytes    *)
(* reach beyond as many pages as its length fills.                         *)
THEOREM FaultsOnlyShort == LoadSpec => []FaultsOnlyWhenShort
<1>1. LoadInv => FaultsOnlyWhenShort
  BY DEF LoadInv
<1> QED BY <1>1, LoadInvAlways, PTL
=============================================================================
