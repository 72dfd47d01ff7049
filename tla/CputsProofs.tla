---------------------------- MODULE CputsProofs ----------------------------
(***************************************************************************)
(* Proofs about a program that prints: about UserMem, the range it hands   *)
(* to sys_cputs, for any width of addresses, page size, mapping and        *)
(* string; and about Format, the text that printf, snprintf and the kernel *)
(* put together, for any calls, places and sizes of the buffers.           *)
(*                                                                         *)
(* While user_mem_check walks, what lies behind its cursor is accessible;  *)
(* while vprintfmt prints, what lies behind its cursor is printed and      *)
(* holds no '\0', and the precision that is left is the distance to the    *)
(* end of the range.  While text is put, what was shown followed by what   *)
(* is still in the buffer is the text.                                     *)
(*                                                                         *)
(* A format is its pieces, one after the other, and so are the arguments   *)
(* and the text that is meant (Outline).  While vprintfmt reads it, the    *)
(* text that was put is what the pieces behind the cursor mean, and what   *)
(* is left of the format and of the arguments is the rest of the piece it  *)
(* is at and the pieces that follow (Stage).                               *)
(***************************************************************************)
EXTENDS UserMem, Format, Arithmetic, FiniteSetTheorems, SequenceTheorems


TypeOK ==
  /\ va \in Address /\ len \in Address
  /\ scanner \in Address /\ p \in Address
  /\ precision \in Int
  /\ user_mem_check_addr \in Address
  /\ pc \in {"user_mem_check", "scan", "print", "return", "env_destroy", "kernel_fault"}

Checked(a) == \A b \in Asked : b < a => Accessible(b)

(* What user_mem_check has established, where nothing wraps around.        *)
Walk ==
  InSpace =>
    /\ pc = "scan" =>
         /\ va <= scanner /\ scanner <= va + len /\ va + len <= ULIM
         /\ Checked(scanner)
    /\ pc \in {"print", "return", "kernel_fault"} => Checked(va + len)
    /\ pc = "env_destroy" =>
         \/ va + len > ULIM
         \/ /\ user_mem_check_addr \in Asked /\ ~ Accessible(user_mem_check_addr)
            /\ Checked(user_mem_check_addr)

(* A string that is short enough to have a precision of its own length.    *)
Short == InSpace /\ va # 0 /\ len < Top \div 2

Output ==
  Short =>
    /\ pc \in {"user_mem_check", "scan", "env_destroy"} => printed = {}
    /\ pc \in {"print", "return", "kernel_fault"} =>
         /\ va <= p /\ p <= va + len /\ precision = va + len - p
         /\ printed = {a \in Asked : a < p} /\ printed \cap nul = {}
    /\ pc = "return" => p = va + len \/ p \in nul

(* The inductive invariant.                                                *)
UInv == TypeOK /\ Walk /\ Output

----------------------------------------------------------------------------
LEMMA Sizes == /\ Top \in Nat /\ Top > 1 /\ ULIM \in Nat /\ ULIM < Top
               /\ 0 \in Address /\ Top \div 2 \in Int
BY UserMemAssumption DEF Address

LEMMA PlusIs ==
  ASSUME NEW a \in Nat, NEW n \in Nat
  PROVE  Plus(a, n) \in Address /\ (a + n < Top => Plus(a, n) = a + n)
<1>1. a + n \in Int /\ Top \in Nat \ {0}
  BY Sizes
<1>2. (a + n) % Top \in 0 .. Top - 1
  BY <1>1, ModRange
<1>3. ASSUME a + n < Top PROVE (a + n) % Top = a + n
  <2>1. a + n \in 0 .. Top - 1
    BY <1>3, Sizes
  <2> QED BY <1>1, <2>1, ModSmall
<1> QED BY <1>2, <1>3 DEF Plus, Address

LEMMA ToIntIs == \A x \in Address : ToInt(x) \in Int /\ (x < Top \div 2 => ToInt(x) = x)
BY Sizes DEF ToInt, Address

LEMMA EndIs == TypeOK => End \in Address /\ (InSpace => End = va + len)
BY PlusIs DEF TypeOK, End, InSpace, Address

LEMMA InitHolds == Init => UInv
BY Sizes DEF Init, UInv, TypeOK, Walk, Output, Short

(* The walk leaves what vprintfmt works with alone.                        *)
LEMMA WalkStep ==
  ASSUME UInv, UNCHANGED <<call, p, precision, printed>>,
         pc \in {"user_mem_check", "scan"}, pc' \in {"scan", "env_destroy"}
  PROVE  Output'
BY DEF UInv, Output, Short, InSpace, Asked, call

LEMMA NextHolds == UInv /\ [Next]_vars => UInv'
<1> SUFFICES ASSUME UInv, [Next]_vars PROVE UInv'
  OBVIOUS
<1>0. TypeOK /\ Walk /\ Output /\ va \in Nat /\ len \in Nat /\ va < Top
  BY Sizes DEF UInv, TypeOK, Address
<1>1. CASE check_limit
  <2>1. CASE End > ULIM
    <3>1. pc' = "env_destroy" /\ user_mem_check_addr' = va /\ scanner' = scanner
          /\ UNCHANGED <<call, p, precision, printed>> /\ pc = "user_mem_check"
      BY <1>1, <2>1 DEF check_limit, Refuse
    <3>2. TypeOK'
      BY <1>0, <3>1 DEF TypeOK, call
    <3>3. Walk'
      BY <1>0, <2>1, <3>1, EndIs DEF Walk, InSpace, call
    <3> QED BY <3>1, <3>2, <3>3, WalkStep DEF UInv
  <2>2. CASE ~(End > ULIM)
    <3>1. pc' = "scan" /\ scanner' = va /\ user_mem_check_addr' = user_mem_check_addr
          /\ UNCHANGED <<call, p, precision, printed>> /\ pc = "user_mem_check"
      BY <1>1, <2>2 DEF check_limit
    <3>2. TypeOK'
      BY <1>0, <3>1 DEF TypeOK, call
    <3>3. InSpace => va + len <= ULIM
      BY <1>0, <2>2, EndIs, Sizes DEF Address
    <3>4. Checked(scanner)'
      BY <1>0, <3>1, Sizes DEF Checked, Asked, Address, call
    <3>5. Walk'
      BY <1>0, <3>1, <3>3, <3>4 DEF Walk, InSpace, call
    <3> QED BY <3>1, <3>2, <3>5, WalkStep DEF UInv
  <2> QED BY <2>1, <2>2
<1>2. CASE check_byte
  <2>0. pc = "scan" /\ scanner < End /\ scanner \in Nat /\ scanner < Top
        /\ UNCHANGED <<call, p, precision, printed>>
    BY <1>0, <1>2, Sizes DEF check_byte, TypeOK, Address
  <2>1. CASE mapping[Page(scanner)] = "user"
    <3>1. scanner' = Step(scanner) /\ pc' = "scan"
          /\ user_mem_check_addr' = user_mem_check_addr
      BY <1>2, <2>0, <2>1 DEF check_byte
    <3>2. TypeOK'
      <4>1. scanner' \in Address
        BY <2>0, <3>1, PlusIs DEF Step
      <4> QED BY <1>0, <2>0, <3>1, <4>1 DEF TypeOK, call
    <3>3. ASSUME InSpace
          PROVE  /\ va <= scanner' /\ scanner' <= va + len /\ va + len <= ULIM
                 /\ Checked(scanner)'
      <4>1. /\ va <= scanner /\ scanner < va + len /\ va + len <= ULIM
            /\ Checked(scanner)
        BY <1>0, <2>0, <3>3, EndIs DEF Walk
      <4>2. scanner' = scanner + 1
        <5>1. /\ scanner \in Nat /\ 1 \in Nat /\ scanner + 1 < Top
              /\ scanner \in Address
          BY <1>0, <2>0, <3>3, <4>1, Sizes DEF InSpace, TypeOK, Address, call
        <5>2. Plus(scanner, 1) = scanner + 1
          BY <5>1, PlusIs
        <5> QED BY <3>1, <5>2 DEF Step
      <4>3. Accessible(scanner)
        BY <1>0, <2>0, <2>1, <4>1, Sizes DEF Accessible
      <4>4. ASSUME NEW b \in Asked, b < scanner + 1 PROVE Accessible(b)
        BY <2>0, <4>1, <4>3, <4>4 DEF Checked, Asked, Address
      <4>5. Checked(scanner)'
        BY <2>0, <4>2, <4>4 DEF Checked, Asked, Accessible, call
      <4> QED BY <1>0, <2>0, <4>1, <4>2, <4>5
    <3>4. Walk'
      BY <2>0, <3>1, <3>3 DEF Walk, InSpace, call
    <3> QED BY <2>0, <3>1, <3>2, <3>4, WalkStep DEF UInv
  <2>2. CASE mapping[Page(scanner)] # "user"
    <3>1. pc' = "env_destroy" /\ user_mem_check_addr' = scanner /\ scanner' = scanner
      BY <1>2, <2>0, <2>2 DEF check_byte, Refuse
    <3>2. TypeOK'
      BY <1>0, <2>0, <3>1 DEF TypeOK, call
    <3>3. ASSUME InSpace
          PROVE  /\ scanner \in Asked /\ ~ Accessible(scanner) /\ Checked(scanner)
      BY <1>0, <2>0, <2>2, <3>3, EndIs DEF Walk, Asked, Accessible, TypeOK
    <3>4. Walk'
      BY <2>0, <3>1, <3>3 DEF Walk, InSpace, Asked, Accessible, Checked, call
    <3> QED BY <2>0, <3>1, <3>2, <3>4, WalkStep DEF UInv
  <2> QED BY <2>1, <2>2
<1>3. CASE check_passed
  <2>1. /\ pc = "scan" /\ scanner >= End /\ pc' = "print"
        /\ p' = va /\ precision' = ToInt(len)
        /\ UNCHANGED <<call, scanner, user_mem_check_addr, printed>>
    BY <1>3 DEF check_passed
  <2>2. TypeOK'
    BY <1>0, <2>1, ToIntIs DEF TypeOK, call
  <2>3. InSpace => Checked(va + len)
    BY <1>0, <2>1, EndIs, Sizes DEF Walk, Checked, Asked, TypeOK, Address
  <2>4. Walk'
    BY <2>1, <2>3 DEF Walk, InSpace, Asked, Accessible, Checked, call
  <2>5. ASSUME Short PROVE printed = {} /\ precision' = va + len - va
                           /\ printed = {a \in Asked : a < va}
    <3>1. printed = {}
      BY <1>0, <2>1, <2>5 DEF Output
    <3>2. ToInt(len) = len
      BY <1>0, <2>5, ToIntIs DEF Short, TypeOK
    <3>3. {a \in Asked : a < va} = {}
      BY <1>0, Sizes DEF Asked, Address
    <3> QED BY <1>0, <2>1, <3>1, <3>2, <3>3
  <2>6. Output'
    BY <1>0, <2>1, <2>5 DEF Output, Short, InSpace, Asked, call
  <2> QED BY <2>2, <2>4, <2>6 DEF UInv
<1>4. CASE print_null
  <2>1. /\ pc = "print" /\ va = 0 /\ pc' = "return"
        /\ UNCHANGED <<call, scanner, user_mem_check_addr, p, precision, printed>>
    BY <1>4 DEF print_null
  <2> QED BY <1>0, <2>1 DEF UInv, TypeOK, Walk, Output, Short, InSpace, Asked,
                            Accessible, Checked, call
<1>5. CASE print_char
  <2>0. /\ pc = "print" /\ va # 0 /\ pc' \in {"print", "return", "kernel_fault"}
        /\ UNCHANGED <<call, scanner, user_mem_check_addr>>
    BY <1>5 DEF print_char
  <2>1. Walk'
    BY <1>0, <2>0 DEF Walk, InSpace, Asked, Accessible, Checked, call
  <2>2. CASE pc' # "print"
    <3>1. UNCHANGED <<p, precision, printed>>
          /\ (pc' = "return" => p \in nul \/ ~ Allowed(precision))
      BY <1>5, <2>0, <2>2 DEF print_char
    <3>2. TypeOK'
      BY <1>0, <2>0, <3>1 DEF TypeOK, call
    <3>3. ASSUME Short, ~ Allowed(precision) PROVE p = va + len
      BY <1>0, <2>0, <3>3 DEF Output, Allowed, TypeOK, Address
    <3>4. Output'
      BY <1>0, <2>0, <3>1, <3>3 DEF Output, Short, InSpace, Asked, call
    <3> QED BY <2>1, <3>2, <3>4 DEF UInv
  <2>3. CASE pc' = "print"
    <3>1. /\ p \notin nul /\ Allowed(precision) /\ printed' = printed \cup {p}
          /\ p' = Plus(p, 1)
          /\ precision' = IF precision < 0 THEN precision ELSE precision - 1
      BY <1>5, <2>0, <2>3 DEF print_char
    <3>2. p \in Nat /\ p < Top /\ precision \in Int
      BY <1>0, Sizes DEF TypeOK, Address
    <3>3. TypeOK'
      <4>1. p' \in Address /\ precision' \in Int
        BY <3>1, <3>2, PlusIs
      <4> QED BY <1>0, <2>0, <4>1 DEF TypeOK, call
    <3>4. ASSUME Short
          PROVE  /\ va <= p' /\ p' <= va + len /\ precision' = va + len - p'
                 /\ printed' = {a \in Asked : a < p'} /\ printed' \cap nul = {}
      <4>1. /\ va <= p /\ p <= va + len /\ precision = va + len - p
            /\ printed = {a \in Asked : a < p} /\ printed \cap nul = {}
        BY <1>0, <2>0, <3>4 DEF Output
      <4>2. p < va + len /\ p + 1 < Top
        <5>1. precision - 1 >= 0
          BY <1>0, <3>1, <3>2, <4>1 DEF Allowed
        <5>2. va + len < Top
          BY <3>4 DEF Short, InSpace
        <5> QED BY <1>0, <3>2, <4>1, <5>1, <5>2, Sizes
      <4>3. p' = p + 1
        BY <3>1, <3>2, <4>2, PlusIs
      <4>4. printed' = {a \in Asked : a < p + 1}
        <5>1. p \in Asked
          BY <1>0, <4>1, <4>2 DEF Asked, TypeOK
        <5>2. \A a \in Asked : a < p + 1 <=> a < p \/ a = p
          BY <3>2, Sizes DEF Asked, Address
        <5> QED BY <3>1, <4>1, <5>1, <5>2
      <4>5. printed' \cap nul = {}
        BY <3>1, <4>1
      <4> QED BY <1>0, <3>1, <3>2, <4>1, <4>2, <4>3, <4>4, <4>5
    <3>5. Output'
      BY <2>0, <2>3, <3>4 DEF Output, Short, InSpace, Asked, call
    <3> QED BY <2>1, <3>3, <3>5 DEF UInv
  <2> QED BY <2>2, <2>3
<1>6. CASE UNCHANGED vars
  BY <1>0, <1>6 DEF vars, UInv, TypeOK, Walk, Output, Short, InSpace, Asked,
                    Accessible, Checked
<1> QED BY <1>1, <1>2, <1>3, <1>4, <1>5, <1>6 DEF Next

LEMMA Inductive == Spec => []UInv
BY InitHolds, NextHolds, PTL DEF Spec

----------------------------------------------------------------------------
(* user_mem_check refuses exactly what the program cannot access, at the   *)
(* first byte it cannot, for every range that does not wrap around.        *)
THEOREM CheckAlwaysExact == Spec => []CheckExact
<1>1. ASSUME UInv PROVE CheckExact
  <2> SUFFICES ASSUME InSpace
               PROVE  /\ pc \in {"print", "return", "kernel_fault"} =>
                           \A a \in Asked : Accessible(a)
                      /\ pc = "env_destroy" /\ len > 0 => \E a \in Asked : ~ Accessible(a)
                      /\ pc = "env_destroy" /\ va + len <= ULIM =>
                           /\ user_mem_check_addr \in Asked
                           /\ ~ Accessible(user_mem_check_addr)
                           /\ \A a \in Asked : a < user_mem_check_addr => Accessible(a)
    BY DEF CheckExact
  <2>0. va \in Nat /\ len \in Nat /\ va + len < Top
    BY <1>1, Sizes DEF UInv, TypeOK, Address, InSpace
  <2>1. ASSUME pc \in {"print", "return", "kernel_fault"}, NEW a \in Asked
        PROVE  Accessible(a)
    BY <1>1, <2>1 DEF UInv, Walk, Checked, Asked
  <2>2. ASSUME pc = "env_destroy", len > 0 PROVE \E a \in Asked : ~ Accessible(a)
    <3>1. CASE va + len > ULIM
      <4>1. va + len - 1 \in Asked /\ ~(va + len - 1 < ULIM)
        BY <2>0, <2>2, <3>1, Sizes DEF Asked, Address
      <4> QED BY <4>1 DEF Accessible
    <3>2. CASE ~(va + len > ULIM)
      BY <1>1, <2>2, <3>2 DEF UInv, Walk
    <3> QED BY <3>1, <3>2
  <2>3. ASSUME pc = "env_destroy", va + len <= ULIM
        PROVE  /\ user_mem_check_addr \in Asked
               /\ ~ Accessible(user_mem_check_addr)
               /\ \A a \in Asked : a < user_mem_check_addr => Accessible(a)
    BY <1>1, <2>0, <2>3, Sizes DEF UInv, Walk, Checked
  <2> QED BY <2>1, <2>2, <2>3
<1> QED BY <1>1, Inductive, PTL

(* sys_cputs prints the range it was given up to its first '\0', all of it *)
(* and nothing else, when its length is a positive int.  (vprintfmt)       *)
THEOREM StringPrinted == Spec => []PrintsTheString
<1>1. ASSUME UInv PROVE PrintsTheString
  <2> SUFFICES ASSUME Short
               PROVE  /\ printed \subseteq Asked
                      /\ \A a \in printed : \A b \in Asked : b <= a => b \in printed \ nul
                      /\ pc = "return" =>
                           \A a \in Asked \ printed : \E b \in nul \cap Asked : b <= a
    BY DEF PrintsTheString, Short
  <2>0. va \in Nat /\ len \in Nat /\ p \in Nat /\ \A a \in Asked : a \in Nat
    BY <1>1, Sizes DEF UInv, TypeOK, Address, Asked
  <2>1. CASE pc \in {"user_mem_check", "scan", "env_destroy"}
    BY <1>1, <2>1 DEF UInv, Output
  <2>2. CASE pc \in {"print", "return", "kernel_fault"}
    <3>1. /\ va <= p /\ p <= va + len
          /\ printed = {a \in Asked : a < p} /\ printed \cap nul = {}
          /\ pc = "return" => p = va + len \/ p \in nul
      BY <1>1, <2>2 DEF UInv, Output
    <3>2. ASSUME NEW a \in printed, NEW b \in Asked, b <= a PROVE b \in printed \ nul
      BY <2>0, <3>1, <3>2
    <3>3. ASSUME pc = "return", NEW a \in Asked \ printed
          PROVE  \E b \in nul \cap Asked : b <= a
      <4>1. a < va + len /\ va <= a /\ p <= a
        BY <2>0, <3>1, <3>3 DEF Asked
      <4>2. p \in nul
        BY <2>0, <3>1, <3>3, <4>1
      <4>3. p \in Asked
        BY <1>1, <2>0, <3>1, <4>1 DEF Asked, UInv, TypeOK
      <4> QED BY <4>1, <4>2, <4>3
    <3> QED BY <3>1, <3>2, <3>3
  <2> QED BY <1>1, <2>1, <2>2 DEF UInv, TypeOK
<1> QED BY <1>1, Inductive, PTL


----------------------------------------------------------------------------
(* The characters that were put, and where they are.  S stands for the     *)
(* characters that have come so far.                                       *)
Fits == IF Len(text) < place.n THEN Len(text) ELSE place.n - 1

OnConsole == place.kind = "cons" => out.shown = text

ForUser(S) ==
  place.kind = "user" =>
    /\ Len(out.buf) < PrintMax /\ out.cnt = Len(text)
    /\ "NUL" \notin ToSet(text) =>
         /\ out.shown \in Seq(S)
         /\ IF mode = "done" THEN out.shown = text ELSE out.shown \o out.buf = text
    /\ mode = "done" => out.ret = Len(text)

InBuffer ==
  place.kind = "buffer" =>
    /\ mode # "done" =>
         /\ place.n >= 1 /\ out.cnt = Len(text)
         /\ Len(out.buf) = Fits /\ \A i \in 1 .. Fits : out.buf[i] = text[i]
    /\ mode = "done" =>
         \/ out.buf = <<>> /\ out.ret = -3
         \/ /\ place.n >= 1 /\ out.ret = Len(text)
            /\ Len(out.buf) = Fits + 1 /\ out.buf[Fits + 1] = "NUL"
            /\ \A i \in 1 .. Fits : out.buf[i] = text[i]

Arriving(S) ==
  /\ place \in Places /\ mode \in {"text", "spec", "done"}
  /\ text \in Seq(S) /\ out.buf \in Seq(S)
  /\ out = [shown |-> out.shown, buf |-> out.buf, cnt |-> out.cnt, ret |-> out.ret]
  /\ OnConsole /\ ForUser(S) /\ InBuffer
Arrived == \E S : Arriving(S)

LEMMA PlaceIs ==
  ASSUME place \in Places
  PROVE  place.kind \in {"cons", "user", "buffer", "null"} /\ place.n \in Int
BY BufferAssumption

LEMMA ArriveStarts == FormatInit => Arrived
<1> SUFFICES ASSUME FormatInit PROVE Arrived
  OBVIOUS
<1>1. /\ place \in Places /\ text = <<>> /\ out.shown = <<>> /\ out.buf = <<>> /\ out.cnt = 0
      /\ out.ret = IF mode = "done" THEN -3 ELSE 0
      /\ mode = IF place.kind = "null" \/ (place.kind = "buffer" /\ place.n < 1) THEN "done" ELSE "text"
      /\ out = [shown |-> out.shown, buf |-> out.buf, cnt |-> out.cnt, ret |-> out.ret]
  BY DEF FormatInit, E_INVAL
<1>2. place.kind \in {"cons", "user", "buffer", "null"} /\ place.n \in Int
  BY <1>1, PlaceIs
<1>3. <<>> \in Seq({}) /\ Len(<<>>) = 0 /\ <<>> \o <<>> = <<>>
  BY EmptySeq, ConcatEmptySeq
<1>4. OnConsole
  BY <1>1 DEF OnConsole
<1>5. ForUser({})
  BY <1>1, <1>3, BufferAssumption DEF ForUser
<1>6. InBuffer
  <2>1. mode # "done" /\ place.kind = "buffer" => place.n >= 1 /\ Fits = 0
    BY <1>1, <1>2, <1>3 DEF Fits
  <2> QED BY <1>1, <1>2, <1>3, <2>1 DEF InBuffer
<1>7. Arriving({})
  BY <1>1, <1>3, <1>4, <1>5, <1>6 DEF Arriving
<1> QED BY <1>7 DEF Arrived

(* vprintfmt only decides what is put next.                                *)
LEMMA DecidesStep ==
  ASSUME NEW S, Arriving(S), mode # "done", UNCHANGED <<place, text, out>>, mode' \in {"text", "spec"}
  PROVE  Arriving(S)'
BY DEF Arriving, OnConsole, ForUser, InBuffer, Fits

LEMMA Decides ==
  ASSUME vprintfmt, ~ finish, mode \in {"text", "spec", "done"}
  PROVE  mode # "done" /\ mode' \in {"text", "spec"} /\ UNCHANGED <<place, text, out>>
BY DEF vprintfmt, plain, percent, flag, alternate, dot, long, digits, star, character, error, string,
       signed, unsigned, pointer, escaped, unrecognized, InText, InSpec, Emit, Reswitch, Convert

(* A text without NUL is shown whole.                                      *)
LEMMA Cputs ==
  ASSUME NEW S, NEW b \in Seq(S), "NUL" \notin ToSet(b)
  PROVE  sys_cputs(b) = b
<1>1. {i \in DOMAIN b : b[i] = "NUL"} = {}
  BY DEF ToSet
<1> QED BY <1>1 DEF sys_cputs

LEMMA SecondPart ==
  ASSUME NEW S, NEW s \in Seq(S), NEW b \in Seq(S), NEW c, c \notin ToSet(s \o b)
  PROVE  c \notin ToSet(b)
<1> DEFINE m == Len(s)
           n == Len(b)
           u == s \o b
<1>1. /\ m \in Nat /\ n \in Nat /\ DOMAIN b = 1 .. n /\ DOMAIN u = 1 .. m + n
      /\ \A i \in 1 .. m + n : u[i] = IF i <= m THEN s[i] ELSE b[i - m]
  BY ConcatProperties, LenProperties
<1>2. \A i \in 1 .. m + n : u[i] # c
  BY <1>1 DEF ToSet
<1> HIDE DEF m, n, u
<1>3. ASSUME NEW i \in 1 .. n PROVE b[i] # c
  <2>1. i + m \in 1 .. m + n /\ ~ (i + m <= m) /\ (i + m) - m = i
    BY <1>1
  <2>2. u[i + m] = b[(i + m) - m]
    BY <1>1, <2>1
  <2>3. u[i + m] = b[i]
    BY <2>1, <2>2
  <2> QED BY <1>2, <2>1, <2>3
<1> QED BY <1>1, <1>3 DEF ToSet

LEMMA PrefixIs ==
  ASSUME NEW S, NEW s \in Seq(S), NEW n \in Nat, n <= Len(s)
  PROVE  SubSeq(s, 1, n) = [i \in 1 .. n |-> s[i]]
<1>1. Len(s) \in Nat
  BY LenProperties
<1>2. \A i \in 1 .. n : s[i] \in S
  BY <1>1, ElementOfSeq
<1>3. /\ SubSeq(s, 1, n) \in Seq(S) /\ Len(SubSeq(s, 1, n)) = IF 1 <= n THEN n - 1 + 1 ELSE 0
      /\ \A i \in 1 .. n - 1 + 1 : SubSeq(s, 1, n)[i] = s[1 + i - 1]
  BY <1>2, SubSeqProperties
<1> DEFINE u == SubSeq(s, 1, n)
<1>4. Len(u) = n
  <2>1. (IF 1 <= n THEN n - 1 + 1 ELSE 0) = n
    OBVIOUS
  <2> QED BY <1>3, <2>1
<1>5. ASSUME NEW i \in 1 .. n PROVE u[i] = s[i]
  <2>1. i \in 1 .. n - 1 + 1 /\ 1 + i - 1 = i
    OBVIOUS
  <2> QED BY <1>3, <2>1
<1>6. u \in [1 .. n -> S]
  BY <1>3, <1>4, LenProperties
<1> HIDE DEF u
<1>7. u = [i \in 1 .. n |-> s[i]]
  BY <1>5, <1>6
<1> QED BY <1>7 DEF u

LEMMA PutsStep ==
  ASSUME NEW S, Arriving(S), putch
  PROVE  Arrived'
<1> PICK c : c = Head(pending)
  OBVIOUS
<1> PICK T : T = S \cup {c}
  OBVIOUS
<1> DEFINE k == Len(text)
           b == Append(out.buf, c)
<1>1. /\ mode # "done" /\ text' = Append(text, c) /\ place' = place /\ mode' = mode
      /\ \/ place.kind = "cons" /\ putch_kern(c)
         \/ place.kind = "user" /\ putch_user(c)
         \/ place.kind = "buffer" /\ sprintputch(c)
  BY DEF putch
<1>2. /\ place \in Places /\ mode \in {"text", "spec", "done"} /\ text \in Seq(S) /\ out.buf \in Seq(S)
      /\ out = [shown |-> out.shown, buf |-> out.buf, cnt |-> out.cnt, ret |-> out.ret]
      /\ OnConsole /\ ForUser(S) /\ InBuffer /\ place.n \in Int
  BY PlaceIs DEF Arriving
<1>3. S \subseteq T /\ c \in T
  OBVIOUS
<1>4. text \in Seq(T) /\ out.buf \in Seq(T)
  BY <1>2, <1>3, SeqMonotonic
<1>5. /\ text' \in Seq(T) /\ Len(text') = k + 1 /\ k \in Nat
      /\ \A i \in 1 .. k : text'[i] = text[i]
      /\ text'[k + 1] = c
  BY <1>1, <1>3, <1>4, AppendProperties, LenProperties
<1>6. /\ b \in Seq(T) /\ Len(b) = Len(out.buf) + 1 /\ Len(out.buf) \in Nat
      /\ \A i \in 1 .. Len(out.buf) : b[i] = out.buf[i]
      /\ b[Len(out.buf) + 1] = c
  BY <1>3, <1>4, AppendProperties, LenProperties
<1> HIDE DEF b, k
<1>7. CASE place.kind = "cons"
  <2>1. out' = [out EXCEPT !.shown = Append(@, c)]
    BY <1>1, <1>7 DEF putch_kern
  <2>2. /\ out'.shown = Append(out.shown, c) /\ out'.buf = out.buf
        /\ out' = [shown |-> out'.shown, buf |-> out'.buf, cnt |-> out'.cnt, ret |-> out'.ret]
    BY <1>2, <2>1
  <2>3. OnConsole'
    BY <1>1, <1>2, <1>7, <2>2 DEF OnConsole
  <2>4. ForUser(T)' /\ InBuffer'
    BY <1>1, <1>7 DEF ForUser, InBuffer
  <2>5. Arriving(T)'
    BY <1>1, <1>2, <1>4, <1>5, <2>2, <2>3, <2>4 DEF Arriving, ForUser
  <2> QED BY <2>5 DEF Arrived
<1>8. CASE place.kind = "user"
  <2> DEFINE full == Len(b) = PrintMax
  <2>1. /\ out' = [shown |-> out'.shown, buf |-> out'.buf, cnt |-> out'.cnt, ret |-> out'.ret]
        /\ out'.shown = IF full THEN out.shown \o sys_cputs(b) ELSE out.shown
        /\ out'.buf = IF full THEN <<>> ELSE b
        /\ out'.cnt = out.cnt + 1
    <3>1. putch_user(c)
      BY <1>1, <1>8
    <3>2. CASE full
      <4>1. out' = [shown |-> out.shown \o sys_cputs(b), buf |-> <<>>, cnt |-> out.cnt + 1, ret |-> out.ret]
        BY <3>1, <3>2 DEF putch_user, Counted, b
      <4> QED BY <3>2, <4>1
    <3>3. CASE ~ full
      <4>1. out' = [shown |-> out.shown, buf |-> b, cnt |-> out.cnt + 1, ret |-> out.ret]
        BY <3>1, <3>3 DEF putch_user, Counted, b
      <4> QED BY <3>3, <4>1
    <3> QED BY <3>2, <3>3
  <2>2. /\ Len(out.buf) < PrintMax /\ out.cnt = k
        /\ "NUL" \notin ToSet(text) => out.shown \in Seq(S) /\ out.shown \o out.buf = text
    BY <1>1, <1>2, <1>8 DEF ForUser, k
  <2>3. <<>> \in Seq(T) /\ Len(<<>>) = 0
    BY EmptySeq
  <2>4. out'.buf \in Seq(T) /\ Len(out'.buf) < PrintMax /\ out'.cnt = Len(text')
    <3>1. CASE full
      BY <1>5, <2>1, <2>2, <2>3, <3>1, BufferAssumption
    <3>2. CASE ~ full
      BY <1>5, <1>6, <2>1, <2>2, <3>2, BufferAssumption
    <3> QED BY <3>1, <3>2
  <2>5. ASSUME "NUL" \notin ToSet(text')
        PROVE  out'.shown \in Seq(T) /\ out'.shown \o out'.buf = text'
    <3>1. "NUL" \notin ToSet(text) /\ c # "NUL"
      <4>1. DOMAIN text' = 1 .. k + 1 /\ DOMAIN text = 1 .. k
        BY <1>2, <1>5, LenProperties DEF k
      <4>2. \A i \in 1 .. k + 1 : text'[i] # "NUL"
        BY <2>5, <4>1 DEF ToSet
      <4>3. k + 1 \in 1 .. k + 1 /\ \A i \in 1 .. k : i \in 1 .. k + 1
        BY <1>5
      <4> QED BY <1>5, <4>1, <4>2, <4>3 DEF ToSet
    <3>2. out.shown \in Seq(T) /\ out.shown \o out.buf = text
      BY <1>3, <2>2, <3>1, SeqMonotonic
    <3>3. out.shown \o b = text'
      <4>1. b = out.buf \o <<c>> /\ text' = text \o <<c>>
        BY <1>1, <1>3, <1>4, AppendIsConcat DEF b
      <4>2. <<c>> \in Seq(T)
        BY <1>3
      <4>3. (out.shown \o out.buf) \o <<c>> = out.shown \o (out.buf \o <<c>>)
        <5> DEFINE x == out.shown
                   y == out.buf
                   z == <<c>>
        <5>1. x \in Seq(T) /\ y \in Seq(T) /\ z \in Seq(T)
          BY <1>4, <3>2, <4>2
        <5> HIDE DEF x, y, z
        <5>2. (x \o y) \o z = x \o (y \o z)
          BY <5>1, ConcatAssociative
        <5> QED BY <5>2 DEF x, y, z
      <4> QED BY <3>2, <4>1, <4>3
    <3>4. CASE ~ full
      BY <2>1, <3>2, <3>3, <3>4
    <3>5. CASE full
      <4>1. sys_cputs(b) = b
        <5>1. "NUL" \notin ToSet(b)
          BY <1>6, <2>5, <3>2, <3>3, SecondPart
        <5> QED BY <1>6, <5>1, Cputs
      <4>2. out'.shown = text' /\ out'.buf = <<>>
        BY <2>1, <3>3, <3>5, <4>1
      <4> QED BY <1>5, <4>2, ConcatEmptySeq
    <3> QED BY <3>4, <3>5
  <2>6. ForUser(T)'
    BY <1>1, <2>4, <2>5 DEF ForUser
  <2>7. OnConsole' /\ InBuffer'
    BY <1>1, <1>8 DEF OnConsole, InBuffer
  <2>8. Arriving(T)'
    BY <1>1, <1>2, <1>5, <2>1, <2>4, <2>6, <2>7 DEF Arriving, ForUser
  <2> QED BY <2>8 DEF Arrived
<1>9. CASE place.kind = "buffer"
  <2>1. /\ out' = [shown |-> out'.shown, buf |-> out'.buf, cnt |-> out'.cnt, ret |-> out'.ret]
        /\ out'.buf = IF Len(out.buf) < place.n - 1 THEN b ELSE out.buf
        /\ out'.cnt = out.cnt + 1
    BY <1>1, <1>9 DEF sprintputch, Counted, b
  <2>2. /\ place.n >= 1 /\ out.cnt = k /\ Len(out.buf) = Fits
        /\ \A i \in 1 .. Fits : out.buf[i] = text[i]
    BY <1>1, <1>2, <1>9 DEF InBuffer, k
  <2>3. Fits = IF k < place.n THEN k ELSE place.n - 1
    BY DEF Fits, k
  <2>4. Fits' = IF k + 1 < place.n THEN k + 1 ELSE place.n - 1
    BY <1>1, <1>5 DEF Fits
  <2>5. /\ out'.buf \in Seq(T) /\ Len(out'.buf) = Fits'
        /\ \A i \in 1 .. Fits' : out'.buf[i] = text'[i]
    <3>1. CASE Len(out.buf) < place.n - 1
      <4>1. k + 1 < place.n /\ Fits = k /\ Fits' = k + 1 /\ out'.buf = b
        BY <1>2, <1>5, <2>1, <2>2, <2>3, <2>4, <3>1
      <4>2. ASSUME NEW i \in 1 .. k + 1 PROVE b[i] = text'[i]
        <5>1. i \in 1 .. k \/ i = k + 1
          BY <1>5
        <5> QED BY <1>5, <1>6, <2>2, <4>1, <5>1
      <4> QED BY <1>6, <2>2, <4>1, <4>2
    <3>2. CASE ~ (Len(out.buf) < place.n - 1)
      <4>1. Fits' = Fits /\ out'.buf = out.buf /\ \A i \in 1 .. Fits : i \in 1 .. k
        BY <1>2, <1>5, <2>1, <2>2, <2>3, <2>4, <3>2
      <4> QED BY <1>4, <1>5, <2>2, <4>1
    <3> QED BY <3>1, <3>2
  <2>6. InBuffer'
    BY <1>1, <1>5, <2>1, <2>2, <2>5 DEF InBuffer
  <2>7. OnConsole' /\ ForUser(T)'
    BY <1>1, <1>9 DEF OnConsole, ForUser
  <2>8. Arriving(T)'
    BY <1>1, <1>2, <1>5, <2>1, <2>5, <2>6, <2>7 DEF Arriving, ForUser
  <2> QED BY <2>8 DEF Arrived
<1> QED BY <1>1, <1>7, <1>8, <1>9

LEMMA ReturnStep ==
  ASSUME NEW S, Arriving(S), finish
  PROVE  Arrived'
<1> PICK T : T = S \cup {"NUL"}
  OBVIOUS
<1>1. /\ mode = "text" /\ mode' = "done" /\ place' = place /\ text' = text
      /\ kern_return \/ user_return \/ buffer_return
  BY DEF finish, InText
<1>2. /\ place \in Places /\ text \in Seq(S) /\ out.buf \in Seq(S)
      /\ out = [shown |-> out.shown, buf |-> out.buf, cnt |-> out.cnt, ret |-> out.ret]
      /\ OnConsole /\ ForUser(S) /\ InBuffer /\ place.n \in Int
  BY PlaceIs DEF Arriving
<1>3. text \in Seq(T) /\ out.buf \in Seq(T) /\ "NUL" \in T
  BY <1>2, SeqMonotonic
<1>4. CASE kern_return
  <2>1. place.kind = "cons" /\ out' = out
    BY <1>4 DEF kern_return
  <2>2. OnConsole' /\ ForUser(T)' /\ InBuffer'
    BY <1>1, <1>2, <2>1 DEF OnConsole, ForUser, InBuffer
  <2>3. Arriving(T)'
    <3>1. out' = [shown |-> out'.shown, buf |-> out'.buf, cnt |-> out'.cnt, ret |-> out'.ret]
      BY <1>2, <2>1
    <3> QED BY <1>1, <1>2, <1>3, <2>1, <2>2, <3>1 DEF Arriving, ForUser
  <2> QED BY <2>3 DEF Arrived
<1>5. CASE user_return
  <2>1. place.kind = "user"
        /\ out' = [shown |-> out.shown \o sys_cputs(out.buf), buf |-> out.buf, cnt |-> out.cnt, ret |-> out.cnt]
    BY <1>5 DEF user_return, Returned
  <2>2. /\ out' = [shown |-> out'.shown, buf |-> out'.buf, cnt |-> out'.cnt, ret |-> out'.ret]
        /\ out'.shown = out.shown \o sys_cputs(out.buf) /\ out'.buf = out.buf
        /\ out'.cnt = out.cnt /\ out'.ret = out.cnt
    BY <2>1
  <2>3. /\ Len(out.buf) < PrintMax /\ out.cnt = Len(text)
        /\ "NUL" \notin ToSet(text) => out.shown \in Seq(S) /\ out.shown \o out.buf = text
    BY <1>1, <1>2, <2>1 DEF ForUser
  <2>4. ASSUME "NUL" \notin ToSet(text) PROVE out'.shown = text
    <3>1. out.shown \in Seq(S) /\ out.shown \o out.buf = text
      BY <2>3, <2>4
    <3>2. "NUL" \notin ToSet(out.buf)
      BY <1>2, <2>4, <3>1, SecondPart
    <3> QED BY <1>2, <2>2, <3>1, <3>2, Cputs
  <2>5. ForUser(T)'
    BY <1>1, <1>3, <2>2, <2>3, <2>4 DEF ForUser
  <2>6. OnConsole' /\ InBuffer'
    BY <1>1, <2>1 DEF OnConsole, InBuffer
  <2>7. Arriving(T)'
    BY <1>1, <1>2, <1>3, <2>2, <2>5, <2>6 DEF Arriving, ForUser
  <2> QED BY <2>7 DEF Arrived
<1>6. CASE buffer_return
  <2> DEFINE b == Append(out.buf, "NUL")
  <2>1. place.kind = "buffer" /\ out' = [shown |-> out.shown, buf |-> b, cnt |-> out.cnt, ret |-> out.cnt]
    BY <1>6 DEF buffer_return, Returned
  <2>2. /\ out' = [shown |-> out'.shown, buf |-> out'.buf, cnt |-> out'.cnt, ret |-> out'.ret]
        /\ out'.buf = b /\ out'.ret = out.cnt
    BY <2>1
  <2>3. /\ b \in Seq(T) /\ Len(b) = Len(out.buf) + 1 /\ b[Len(out.buf) + 1] = "NUL"
        /\ \A i \in 1 .. Len(out.buf) : b[i] = out.buf[i]
    BY <1>3, AppendProperties
  <2> HIDE DEF b
  <2>4. /\ place.n >= 1 /\ out.cnt = Len(text)
        /\ Len(out.buf) = Fits /\ \A i \in 1 .. Fits : out.buf[i] = text[i]
    BY <1>1, <1>2, <2>1 DEF InBuffer
  <2>5. Fits' = Fits
    BY <1>1 DEF Fits
  <2>6. InBuffer'
    BY <1>1, <2>2, <2>3, <2>4, <2>5 DEF InBuffer
  <2>7. OnConsole' /\ ForUser(T)'
    BY <1>1, <2>1 DEF OnConsole, ForUser
  <2>8. Arriving(T)'
    BY <1>1, <1>2, <1>3, <2>2, <2>3, <2>6, <2>7 DEF Arriving, ForUser
  <2> QED BY <2>8 DEF Arrived
<1> QED BY <1>1, <1>4, <1>5, <1>6

LEMMA ArrivedAlways == FormatSpec => []Arrived
<1>1. Arrived /\ [FormatNext]_format_vars => Arrived'
  <2> SUFFICES ASSUME Arrived, [FormatNext]_format_vars PROVE Arrived'
    OBVIOUS
  <2> PICK S : Arriving(S)
    BY DEF Arrived
  <2>1. CASE vprintfmt /\ ~ finish
    <3>1. mode # "done" /\ mode' \in {"text", "spec"} /\ UNCHANGED <<place, text, out>>
      BY <2>1, Decides DEF Arriving
    <3> QED BY <3>1, DecidesStep DEF Arrived
  <2>2. CASE finish
    BY <2>2, ReturnStep
  <2>3. CASE putch
    BY <2>3, PutsStep
  <2>4. CASE UNCHANGED format_vars
    <3>1. Arriving(S)'
      BY <2>4 DEF Arriving, OnConsole, ForUser, InBuffer, Fits, format_vars
    <3> QED BY <3>1 DEF Arrived
  <2> QED BY <2>1, <2>2, <2>3, <2>4 DEF FormatNext
<1> QED BY <1>1, ArriveStarts, PTL DEF FormatSpec

(* Whatever is printed, with buffers of any size: nothing is lost, doubled *)
(* or reordered on the way, and vsnprintf cuts the text where its buffer   *)
(* ends.  (the putch functions of kern/printf.c, lib/printf.c and          *)
(* lib/printfmt.c, and their callers)                                      *)
THEOREM TextAlwaysArrives == FormatSpec => []TextArrives
<1>1. Arrived => TextArrives
  <2> SUFFICES ASSUME NEW S, Arriving(S) PROVE TextArrives
    BY DEF Arrived
  <2>1. /\ place \in Places /\ text \in Seq(S) /\ out.buf \in Seq(S)
        /\ OnConsole /\ ForUser(S) /\ InBuffer /\ place.n \in Int
    BY PlaceIs DEF Arriving
  <2> DEFINE sent == out.shown \o (IF mode = "done" THEN <<>> ELSE out.buf)
  <2>2. place.kind = "cons" => out.shown = text
    BY <2>1 DEF OnConsole
  <2>3. ASSUME place.kind = "user"
        PROVE  /\ Len(out.buf) < PrintMax
               /\ "NUL" \notin ToSet(text) => sent = text
               /\ mode = "done" => out.ret = Len(text)
    <3>1. ASSUME "NUL" \notin ToSet(text) PROVE sent = text
      <4>1. out.shown \in Seq(S) /\ IF mode = "done" THEN out.shown = text ELSE out.shown \o out.buf = text
        BY <2>1, <2>3, <3>1 DEF ForUser
      <4>2. out.shown \o <<>> = out.shown
        BY <4>1, ConcatEmptySeq
      <4> QED BY <4>1, <4>2
    <3> QED BY <2>1, <2>3, <3>1 DEF ForUser
  <2>4. ASSUME place.kind = "buffer"
        PROVE  /\ Len(out.buf) <= IF place.n < 0 THEN 0 ELSE place.n
               /\ mode = "done" /\ out.ret >= 0 =>
                    /\ out.ret = Len(text) /\ Last(out.buf) = "NUL"
                    /\ Front(out.buf) = SubSeq(text, 1, Min({Len(text), place.n - 1}))
    <3>1. Len(text) \in Nat /\ Len(<<>>) = 0
      BY <2>1, LenProperties, EmptySeq
    <3>2. place.n >= 1 => Fits \in Nat /\ Fits <= place.n - 1 /\ Fits <= Len(text)
                          /\ Fits = Min({Len(text), place.n - 1})
      <4> SUFFICES ASSUME place.n >= 1
                   PROVE  Fits \in Nat /\ Fits <= place.n - 1 /\ Fits <= Len(text)
                          /\ Fits = Min({Len(text), place.n - 1})
        OBVIOUS
      <4>1. Fits \in Nat /\ Fits <= place.n - 1 /\ Fits <= Len(text)
            /\ Fits \in {Len(text), place.n - 1}
        BY <2>1, <3>1 DEF Fits
      <4>2. \A x \in {Len(text), place.n - 1} : x \in Int /\ Fits <= x
        BY <2>1, <3>1, <4>1
      <4>3. \A x \in {Len(text), place.n - 1} : (\A y \in {Len(text), place.n - 1} : x <= y) => x = Fits
        BY <4>1, <4>2
      <4>4. Min({Len(text), place.n - 1}) = Fits
        BY <4>1, <4>2, <4>3 DEF Min
      <4> QED BY <4>1, <4>4
    <3>3. Len(out.buf) <= IF place.n < 0 THEN 0 ELSE place.n
      BY <2>1, <2>4, <3>1, <3>2 DEF InBuffer
    <3>4. ASSUME mode = "done", out.ret >= 0
          PROVE  /\ out.ret = Len(text) /\ Last(out.buf) = "NUL"
                 /\ Front(out.buf) = SubSeq(text, 1, Fits)
                 /\ place.n >= 1
      <4>1. /\ place.n >= 1 /\ out.ret = Len(text)
            /\ Len(out.buf) = Fits + 1 /\ out.buf[Fits + 1] = "NUL"
            /\ \A i \in 1 .. Fits : out.buf[i] = text[i]
        <5>1. ~ (out.ret = -3)
          BY <3>4
        <5> QED BY <2>1, <2>4, <3>4, <5>1 DEF InBuffer
      <4>2. Fits \in Nat /\ Fits <= Len(text) /\ Fits + 1 - 1 = Fits
        BY <3>2, <4>1
      <4>3. Last(out.buf) = "NUL"
        BY <4>1 DEF Last
      <4>4. Front(out.buf) = SubSeq(out.buf, 1, Fits)
        BY <4>1, <4>2 DEF Front
      <4>5. SubSeq(out.buf, 1, Fits) = SubSeq(text, 1, Fits)
        <5>1. SubSeq(out.buf, 1, Fits) = [i \in 1 .. Fits |-> out.buf[i]]
          BY <2>1, <4>1, <4>2, PrefixIs
        <5>2. SubSeq(text, 1, Fits) = [i \in 1 .. Fits |-> text[i]]
          BY <2>1, <4>2, PrefixIs
        <5> QED BY <4>1, <5>1, <5>2
      <4> QED BY <4>1, <4>3, <4>4, <4>5
    <3> QED BY <3>2, <3>3, <3>4
  <2> QED BY <2>2, <2>3, <2>4 DEF TextArrives
<1> QED BY <1>1, ArrivedAlways, PTL

----------------------------------------------------------------------------
(* A function on the natural numbers that is defined by recursion.         *)
Steps(step, S) == \A n \in Nat : \A y \in S : step[n][y] \in S

LEMMA RecursionHas ==
  ASSUME NEW S, NEW x \in S, NEW step, Steps(step, S)
  PROVE  \E f : f[0] = x /\ \A n \in Nat : f[n] \in S /\ f[n + 1] = step[n][f[n]]
<1>0. \A n \in Nat : \A y \in S : step[n][y] \in S
  BY DEF Steps
<1> DEFINE Part(n, g) == /\ g \in [0 .. n -> S] /\ g[0] = x
                         /\ \A k \in 0 .. n - 1 : g[k + 1] = step[k][g[k]]
           I == {n \in Nat : \E g : Part(n, g)}
           Solution(n) == CHOOSE g : Part(n, g)
           f == [n \in Nat |-> Solution(n)[n]]
<1>1. \A n \in Nat : \E g : Part(n, g)
  <2>1. 0 \in I
    <3> DEFINE g == [k \in 0 .. 0 |-> x]
    <3>1. Part(0, g)
      OBVIOUS
    <3> HIDE DEF Part, g
    <3> QED BY <3>1
  <2>2. ASSUME NEW n \in Nat, n \in I PROVE n + 1 \in I
    <3>1. PICK g : Part(n, g)
      BY <2>2
    <3> DEFINE h == [k \in 0 .. n + 1 |-> IF k = n + 1 THEN step[n][g[n]] ELSE g[k]]
    <3>2. Part(n + 1, h)
      <4>1. g \in [0 .. n -> S] /\ g[0] = x /\ \A k \in 0 .. n - 1 : g[k + 1] = step[k][g[k]]
        BY <3>1
      <4>2. step[n][g[n]] \in S
        BY <1>0, <4>1
      <4>3. h \in [0 .. n + 1 -> S] /\ h[0] = x
        BY <4>1, <4>2
      <4>4. ASSUME NEW k \in 0 .. n + 1 - 1 PROVE h[k + 1] = step[k][h[k]]
        <5>1. CASE k = n
          BY <5>1
        <5>2. CASE k # n
          <6>1. k \in 0 .. n - 1 /\ h[k] = g[k] /\ h[k + 1] = g[k + 1]
            BY <5>2
          <6> QED BY <4>1, <6>1
        <5> QED BY <5>1, <5>2
      <4> HIDE DEF h
      <4> QED BY <4>3, <4>4
    <3> HIDE DEF Part, h
    <3> QED BY <3>2
  <2> HIDE DEF I
  <2>3. Nat \subseteq I
    BY <2>1, <2>2, SetInduction
  <2> QED BY <2>3 DEF I
<1>2. ASSUME NEW n \in Nat, NEW m \in Nat, n <= m, NEW g, NEW h, Part(n, g), Part(m, h)
      PROVE  g[n] = h[n]
  <2> DEFINE J == {k \in Nat : k <= n => g[k] = h[k]}
  <2>1. 0 \in J
    BY <1>2
  <2>2. ASSUME NEW k \in Nat, k \in J PROVE k + 1 \in J
    <3> SUFFICES ASSUME k + 1 <= n PROVE g[k + 1] = h[k + 1]
      OBVIOUS
    <3>1. k \in 0 .. n - 1 /\ k \in 0 .. m - 1 /\ g[k] = h[k]
      BY <1>2, <2>2
    <3> QED BY <1>2, <3>1
  <2> HIDE DEF J
  <2>3. Nat \subseteq J
    BY <2>1, <2>2, SetInduction
  <2> QED BY <2>3 DEF J
<1>3. \A n \in Nat : Part(n, Solution(n))
  <2> HIDE DEF Part
  <2> QED BY <1>1
<1>4. f[0] = x
  BY <1>3
<1>5. ASSUME NEW n \in Nat PROVE f[n] \in S
  <2> DEFINE g == Solution(n)
  <2>1. Part(n, g)
    BY <1>3
  <2>2. f[n] = g[n]
    OBVIOUS
  <2> HIDE DEF g, f
  <2> QED BY <2>1, <2>2
<1>6. ASSUME NEW n \in Nat PROVE f[n + 1] = step[n][f[n]]
  <2> DEFINE g == Solution(n)
             h == Solution(n + 1)
  <2>1. Part(n, g) /\ Part(n + 1, h)
    <3> HIDE DEF Part
    <3> QED BY <1>3
  <2>2. f[n] = g[n] /\ f[n + 1] = h[n + 1]
    <3> HIDE DEF Solution
    <3> QED OBVIOUS
  <2> HIDE DEF g, h, f
  <2>3. g[n] = h[n]
    <3> HIDE DEF Part
    <3> QED BY <1>2, <2>1
  <2>4. h[n + 1] = step[n][h[n]]
    BY <2>1
  <2> QED BY <2>2, <2>3, <2>4
<1> HIDE DEF f
<1> QED BY <1>4, <1>5, <1>6

(* What a function on 0 .. n is, that is defined by the same recursion.    *)
LEMMA RecursionIs ==
  ASSUME NEW f, NEW g, NEW n \in Nat, g[0] = f[0],
         \A k \in 1 .. n : g[k - 1] = f[k - 1] => g[k] = f[k]
  PROVE  \A k \in 0 .. n : g[k] = f[k]
<1> DEFINE J == {k \in Nat : k <= n => g[k] = f[k]}
<1>1. 0 \in J
  OBVIOUS
<1>2. ASSUME NEW k \in Nat, k \in J PROVE k + 1 \in J
  <2> SUFFICES ASSUME k + 1 <= n PROVE g[k + 1] = f[k + 1]
    OBVIOUS
  <2>1. k + 1 \in 1 .. n /\ k + 1 - 1 = k /\ g[k] = f[k]
    BY <1>2
  <2> QED BY <2>1
<1> HIDE DEF J
<1>3. Nat \subseteq J
  BY <1>1, <1>2, SetInduction
<1> QED BY <1>3 DEF J

LEMMA PowerIs ==
  ASSUME NEW b \in Nat \ {0}
  PROVE  /\ Power(b, 0) = 1
         /\ \A k \in Nat : /\ Power(b, k) \in Nat \ {0}
                           /\ Power(b, k + 1) = b * Power(b, k)
<1> DEFINE S == Nat \ {0}
           step == [n \in Nat |-> [x \in S |-> b * x]]
<1>1. \A n \in Nat : \A y \in S : step[n][y] = b * y /\ step[n][y] \in S
  BY MulRange
<1>2. 1 \in S
  OBVIOUS
<1>3. \A x \in S : \E f : f[0] = x /\ \A n \in Nat : f[n] \in S /\ f[n + 1] = step[n][f[n]]
  <2>1. Steps(step, S)
    <3> USE DEF Steps
    <3> HIDE DEF S, step
    <3> QED BY <1>1
  <2> HIDE DEF S, step
  <2> TAKE x \in S
  <2> QED BY <2>1, RecursionHas
<1>4. PICK f : f[0] = 1 /\ \A n \in Nat : f[n] \in S /\ f[n + 1] = step[n][f[n]]
  <2> HIDE DEF S, step
  <2> QED BY <1>2, <1>3
<1>5. \A n \in Nat : f[n] \in Nat \ {0} /\ f[n + 1] = b * f[n]
  <2> HIDE DEF step
  <2> QED BY <1>1, <1>4
<1> HIDE DEF step
<1>6. ASSUME NEW k \in Nat PROVE Power(b, k) = f[k]
  <2> DEFINE Eq(t) == t = [i \in 0 .. k |-> IF i = 0 THEN 1 ELSE b * t[i - 1]]
             g == [i \in 0 .. k |-> f[i]]
             power == CHOOSE t : Eq(t)
  <2>1. Power(b, k) = power[k]
    BY DEF Power
  <2>2. Eq(g)
    <3>1. ASSUME NEW i \in 0 .. k PROVE g[i] = IF i = 0 THEN 1 ELSE b * g[i - 1]
      <4>1. CASE i = 0
        BY <1>4, <4>1
      <4>2. CASE i # 0
        <5>1. i - 1 \in Nat /\ i - 1 \in 0 .. k /\ i - 1 + 1 = i
          BY <4>2
        <5>2. f[i - 1 + 1] = b * f[i - 1]
          BY <1>5, <5>1
        <5> QED BY <4>2, <5>1, <5>2
      <4> QED BY <4>1, <4>2
    <3>2. g = [i \in 0 .. k |-> g[i]]
      OBVIOUS
    <3> HIDE DEF g
    <3> QED BY <3>1, <3>2
  <2>3. Eq(power)
    <3> HIDE DEF Eq, g
    <3> QED BY <2>2
  <2>4. power[0] = f[0]
    <3> HIDE DEF power
    <3> QED BY <1>4, <2>3
  <2>5. ASSUME NEW i \in 1 .. k, power[i - 1] = f[i - 1] PROVE power[i] = f[i]
    <3> HIDE DEF power
    <3>0. \A j \in 0 .. k : power[j] = IF j = 0 THEN 1 ELSE b * power[j - 1]
      BY <2>3
    <3>1. power[i] = b * power[i - 1]
      BY <3>0
    <3>2. i - 1 \in Nat /\ i - 1 + 1 = i
      OBVIOUS
    <3>3. f[i - 1 + 1] = b * f[i - 1]
      BY <1>5, <3>2
    <3> QED BY <2>5, <3>1, <3>2, <3>3
  <2> HIDE DEF power
  <2>6. \A i \in 0 .. k : power[i] = f[i]
    BY <2>4, <2>5, RecursionIs
  <2> QED BY <2>1, <2>6
<1> QED BY <1>4, <1>5, <1>6

LEMMA DivDiv ==
  ASSUME NEW a \in Nat, NEW b \in Nat \ {0}, NEW c \in Nat \ {0}
  PROVE  /\ a \div b \in Nat /\ b * c \in Nat \ {0}
         /\ (a \div b) \div c = a \div (b * c)
<1> DEFINE q == a \div b
           r == a % b
           u == q \div c
           v == q % c
           t == b * c
           w == a \div t
           z == a % t
<1>1. q \in Nat /\ r \in 0 .. b - 1 /\ a = q * b + r
  <2>1. q \in Int /\ r \in 0 .. b - 1 /\ a = q * b + r
    BY ModRange
  <2>2. ~ (q < 0)
    <3> SUFFICES ASSUME q < 0 PROVE FALSE
      OBVIOUS
    <3> HIDE DEF q, r
    <3>1. q * b + b <= 0 * b
      BY <2>1, MulGap
    <3> QED BY <2>1, <3>1
  <2> HIDE DEF q, r
  <2> QED BY <2>1, <2>2
<1> HIDE DEF q, r
<1>2. u \in Int /\ v \in 0 .. c - 1 /\ q = u * c + v
  BY <1>1, ModRange
<1>3. t \in Nat \ {0}
  BY MulRange
<1>4. w \in Int /\ z \in 0 .. t - 1 /\ a = w * t + z
  <2> HIDE DEF t
  <2> QED BY <1>3, ModRange
<1> HIDE DEF u, v, w, z
<1>5. v * b + b <= c * b /\ v * b >= 0
  BY <1>2, MulGap, MulRange
<1>6. v * b + r \in 0 .. t - 1
  <2>1. v * b \in Int /\ c * b = b * c
    BY <1>2
  <2> QED BY <1>1, <1>3, <1>5, <2>1
<1>7. a = u * t + (v * b + r)
  <2>1. (u * c + v) * b = u * (b * c) + v * b
    BY <1>2
  <2>2. u * (b * c) \in Int /\ v * b \in Int
    BY <1>2, <1>3
  <2> QED BY <1>1, <1>2, <2>1, <2>2
<1>8. u = w
  <2>1. \E s \in 0 .. t - 1 : a = u * t + s
    BY <1>6, <1>7
  <2> HIDE DEF t
  <2> QED BY <1>2, <1>3, <1>4, <2>1, DivUnique
<1> QED BY <1>1, <1>3, <1>8 DEF q, u, w

LEMMA DivOne ==
  ASSUME NEW a \in Nat
  PROVE  a \div 1 = a
OBVIOUS

LEMMA DivSmall ==
  ASSUME NEW a \in Nat, NEW b \in Nat \ {0}, a < b
  PROVE  a \div b = 0 /\ a % b = a
<1>1. a \div b \in Int /\ a % b \in 0 .. b - 1 /\ a = (a \div b) * b + (a % b)
  BY ModRange
<1>2. 0 * b + a = (a \div b) * b + (a % b) /\ a \in 0 .. b - 1
  BY <1>1
<1> QED BY <1>1, <1>2, DivUnique

LEMMA PowerGrows ==
  ASSUME NEW b \in Nat, b >= 2
  PROVE  /\ \A k \in Nat : Power(b, k) > k /\ Power(b, k) < Power(b, k + 1)
         /\ \A k, m \in Nat : k <= m => Power(b, k) <= Power(b, m)
<1>1. /\ Power(b, 0) = 1
      /\ \A k \in Nat : Power(b, k) \in Nat \ {0} /\ Power(b, k + 1) = b * Power(b, k)
  BY PowerIs
<1>2. ASSUME NEW k \in Nat PROVE Power(b, k + 1) >= Power(b, k) + 1
  <2>1. PICK t \in Nat \ {0} : t = Power(b, k)
    BY <1>1
  <2>2. 1 * t + t <= b * t
    BY MulGap
  <2>3. Power(b, k + 1) = b * t
    BY <1>1, <2>1
  <2> QED BY <2>1, <2>2, <2>3
<1> DEFINE J == {k \in Nat : Power(b, k) > k}
<1>3. 0 \in J
  BY <1>1
<1>4. ASSUME NEW k \in Nat, k \in J PROVE k + 1 \in J
  <2>1. Power(b, k) > k /\ Power(b, k) \in Nat /\ Power(b, k + 1) \in Nat
    BY <1>1, <1>4
  <2> QED BY <1>2, <2>1
<1>5. Nat \subseteq J
  <2> HIDE DEF J
  <2> QED BY <1>3, <1>4, SetInduction
<1>6. ASSUME NEW k \in Nat PROVE \A d \in Nat : Power(b, k) <= Power(b, k + d)
  <2> DEFINE K == {d \in Nat : Power(b, k) <= Power(b, k + d)}
  <2>1. 0 \in K
    BY <1>1
  <2>2. ASSUME NEW d \in Nat, d \in K PROVE d + 1 \in K
    <3>1. k + d \in Nat /\ k + (d + 1) = k + d + 1 /\ k + (d + 1) \in Nat
      OBVIOUS
    <3>2. Power(b, k + d) \in Nat /\ Power(b, k + (d + 1)) \in Nat /\ Power(b, k) \in Nat
      BY <1>1, <3>1
    <3>3. Power(b, k + (d + 1)) >= Power(b, k + d) + 1
      BY <1>2, <3>1
    <3> QED BY <2>2, <3>1, <3>2, <3>3
  <2> HIDE DEF K
  <2>3. Nat \subseteq K
    BY <2>1, <2>2, SetInduction
  <2> QED BY <2>3 DEF K
<1>7. ASSUME NEW k \in Nat, NEW m \in Nat, k <= m PROVE Power(b, k) <= Power(b, m)
  <2>1. m - k \in Nat /\ k + (m - k) = m
    BY <1>7
  <2> QED BY <1>6, <2>1
<1>8. ASSUME NEW k \in Nat PROVE Power(b, k) > k /\ Power(b, k) < Power(b, k + 1)
  <2>1. Power(b, k) \in Nat /\ Power(b, k + 1) \in Nat /\ k \in J
    BY <1>1, <1>5
  <2> QED BY <1>2, <2>1
<1> QED BY <1>7, <1>8

(* The digits are different characters, and not those of a format.         *)
LEMMA DigitChars ==
  /\ \A x \in 1 .. 16 : DigitChar[x] \in Characters
  /\ \A x, y \in 1 .. 16 : DigitChar[x] = DigitChar[y] => x = y
  /\ \A x \in 1 .. 10 : DigitChar[x] \in Decimal
<1>1. /\ DigitChar[1] = "0" /\ DigitChar[2] = "1" /\ DigitChar[3] = "2" /\ DigitChar[4] = "3"
      /\ DigitChar[5] = "4" /\ DigitChar[6] = "5" /\ DigitChar[7] = "6" /\ DigitChar[8] = "7"
      /\ DigitChar[9] = "8" /\ DigitChar[10] = "9" /\ DigitChar[11] = "a" /\ DigitChar[12] = "b"
      /\ DigitChar[13] = "c" /\ DigitChar[14] = "d" /\ DigitChar[15] = "e" /\ DigitChar[16] = "f"
  BY DEF DigitChar
<1>2. \A x \in 1 .. 16 : x \in {1, 2, 3, 4, 5, 6, 7, 8, 9, 10, 11, 12, 13, 14, 15, 16}
  OBVIOUS
<1>3. \A x \in 1 .. 16 : DigitChar[x] \in Characters
  <2>1. DOMAIN DigitChar = 1 .. 16
    BY DEF DigitChar
  <2> QED BY <2>1, CharacterAssumption DEF ToSet
<1>4. \A x, y \in 1 .. 16 : DigitChar[x] = DigitChar[y] => x = y
  BY <1>1, <1>2
<1>5. \A x \in 1 .. 10 : DigitChar[x] \in Decimal
  BY <1>1 DEF Decimal
<1> QED BY <1>3, <1>4, <1>5

(* How many digits a number has, and what they are.                        *)
Digits(num, base, n) ==
  n \in 1 .. num + 1 /\ num < Power(base, n) /\ (n > 1 => num >= Power(base, n - 1))

LEMMA DigitsOne ==
  ASSUME NEW b \in Nat, b >= 2, NEW num \in Nat
  PROVE  /\ \E n \in Nat : Digits(num, b, n)
         /\ \A n, m : Digits(num, b, n) /\ Digits(num, b, m) => n = m
<1>1. \A k \in Nat : Power(b, k) > k /\ Power(b, k) \in Nat
  BY PowerIs, PowerGrows
<1>2. \E n \in Nat : Digits(num, b, n)
  <2> DEFINE S == {k \in 1 .. num + 1 : num < Power(b, k)}
  <2>1. num + 1 \in S
    BY <1>1
  <2>2. S \subseteq 1 .. num + 1 /\ S # {} /\ 1 \in Int /\ num + 1 \in Int
    BY <2>1
  <2>3. PICK n \in S : \A k \in S : n <= k
    <3> HIDE DEF S
    <3> QED BY <2>2, Least
  <2>4. n \in 1 .. num + 1 /\ num < Power(b, n)
    OBVIOUS
  <2>5. ASSUME n > 1 PROVE num >= Power(b, n - 1)
    <3>1. n - 1 \in 1 .. num + 1 /\ n - 1 \in Nat /\ ~ (n <= n - 1)
      BY <2>4, <2>5
    <3>2. n - 1 \notin S
      BY <2>3, <3>1
    <3> QED BY <1>1, <3>1, <3>2
  <2> QED BY <2>4, <2>5 DEF Digits
<1>3. ASSUME NEW n, NEW m, Digits(num, b, n), Digits(num, b, m), n < m PROVE FALSE
  <2>1. n \in Nat /\ m \in Nat /\ m - 1 \in Nat /\ n <= m - 1 /\ m > 1
        /\ num < Power(b, n) /\ num >= Power(b, m - 1)
    BY <1>3 DEF Digits
  <2>2. Power(b, n) <= Power(b, m - 1)
    BY <2>1, PowerGrows
  <2>3. Power(b, n) \in Nat /\ Power(b, m - 1) \in Nat
    BY <1>1, <2>1
  <2> QED BY <2>1, <2>2, <2>3
<1>4. ASSUME NEW n, NEW m, Digits(num, b, n), Digits(num, b, m) PROVE n = m
  <2>1. n \in Int /\ m \in Int
    BY <1>4 DEF Digits
  <2> QED BY <1>3, <1>4, <2>1
<1> QED BY <1>2, <1>4

DigitAt(num, base, n, i) == DigitChar[((num \div Power(base, n - i)) % base) + 1]

LEMMA PositionalAt ==
  ASSUME NEW b \in Nat, b >= 2, NEW num \in Nat, NEW n, Digits(num, b, n)
  PROVE  Positional(num, b) = [i \in 1 .. n |-> DigitAt(num, b, n, i)]
<1>1. n = CHOOSE k \in 1 .. num + 1 :
            num < Power(b, k) /\ (k > 1 => num >= Power(b, k - 1))
  <2> DEFINE m == CHOOSE k \in 1 .. num + 1 :
                    num < Power(b, k) /\ (k > 1 => num >= Power(b, k - 1))
  <2>1. Digits(num, b, m)
    BY DEF Digits
  <2> HIDE DEF m
  <2>2. n = m
    BY <2>1, DigitsOne
  <2> QED BY <2>2 DEF m
<1> QED BY <1>1 DEF Positional, DigitAt

LEMMA DigitsStep ==
  ASSUME NEW b \in Nat, b >= 2, NEW num \in Nat, num >= b,
         NEW m, Digits(num \div b, b, m)
  PROVE  Digits(num, b, m + 1)
<1>0. b \in Nat \ {0}
  OBVIOUS
<1> DEFINE q == num \div b
           r == num % b
<1>1. q \in Nat /\ r \in 0 .. b - 1 /\ num = q * b + r
  <2>1. q \in Nat
    BY <1>0, DivDiv
  <2>2. r \in 0 .. b - 1 /\ num = q * b + r
    BY <1>0, ModRange
  <2> QED BY <2>1, <2>2
<1> HIDE DEF q, r
<1>2. Digits(q, b, m)
  BY DEF q
<1>3. m \in Nat /\ m >= 1 /\ m <= q + 1 /\ m - 1 \in Nat /\ m + 1 - 1 = m
  BY <1>1, <1>2 DEF Digits
<1>4. PICK t \in Nat \ {0} : t = Power(b, m)
  BY <1>0, <1>3, PowerIs
<1>5. Power(b, m + 1) = b * t
  BY <1>0, <1>3, <1>4, PowerIs
<1>6. q < t
  BY <1>2, <1>4 DEF Digits
<1>7. num < Power(b, m + 1)
  <2>1. q * b + b <= t * b
    BY <1>1, <1>6, MulGap
  <2>2. t * b = b * t /\ t * b \in Int /\ q * b \in Int
    BY <1>1
  <2> QED BY <1>1, <1>5, <2>1, <2>2
<1>8. num >= Power(b, m)
  <2>1. CASE m = 1
    <3>1. Power(b, 0) = 1 /\ Power(b, 0 + 1) = b * Power(b, 0)
      BY <1>0, PowerIs
    <3>2. Power(b, 1) = b
      BY <3>1
    <3> QED BY <2>1, <3>2
  <2>2. CASE m > 1
    <3>1. PICK s \in Nat \ {0} : s = Power(b, m - 1)
      BY <1>0, <1>3, PowerIs
    <3>2. Power(b, m - 1 + 1) = b * s
      BY <1>0, <1>3, <3>1, PowerIs
    <3>3. t = b * s
      BY <1>3, <1>4, <3>2
    <3>4. s <= q
      BY <1>2, <2>2, <3>1 DEF Digits
    <3>5. s * b <= q * b
      <4>1. CASE s = q
        BY <4>1, <1>1
      <4>2. CASE s < q
        <5>1. s * b + b <= q * b
          BY <1>1, <4>2, MulGap
        <5>2. s * b \in Int /\ q * b \in Int
          BY <1>1
        <5> QED BY <5>1, <5>2
      <4> QED BY <1>1, <3>4, <4>1, <4>2
    <3>6. s * b = b * s /\ s * b \in Int /\ q * b \in Int
      BY <1>1
    <3> QED BY <1>1, <1>4, <3>3, <3>5, <3>6
  <2> QED BY <1>3, <2>1, <2>2
<1>9. q < num
  <2>1. q = 0 => q < num
    OBVIOUS
  <2>2. ASSUME q > 0 PROVE q < num
    <3>1. 1 * q + q <= b * q
      BY <1>1, <2>2, MulGap
    <3>2. q * b = b * q /\ q * b \in Int
      BY <1>1
    <3> QED BY <1>1, <2>2, <3>1, <3>2
  <2> QED BY <1>1, <2>1, <2>2
<1> QED BY <1>1, <1>3, <1>7, <1>8, <1>9 DEF Digits

(* One digit, or those of the quotient and one more.                       *)
LEMMA PositionalIs ==
  ASSUME NEW b \in Nat, b >= 2, b <= 16, NEW num \in Nat
  PROVE  /\ num < b => Positional(num, b) = <<DigitChar[num + 1]>>
         /\ num >= b =>
              Positional(num, b) = Positional(num \div b, b) \o <<DigitChar[(num % b) + 1]>>
         /\ Positional(num, b) \in Seq(Characters) /\ Len(Positional(num, b)) >= 1
<1>b. b \in Nat \ {0}
  OBVIOUS
<1>0. ASSUME NEW a \in Nat, NEW n, Digits(a, b, n)
      PROVE  /\ n \in Nat /\ n >= 1
             /\ \A i \in 1 .. n : DigitAt(a, b, n, i) \in Characters
             /\ Positional(a, b) \in Seq(Characters) /\ Len(Positional(a, b)) = n
  <2>1. n \in Nat /\ n >= 1
    BY <1>0 DEF Digits
  <2>2. ASSUME NEW i \in 1 .. n PROVE DigitAt(a, b, n, i) \in Characters
    <3>1. n - i \in Nat
      BY <2>1
    <3>2. PICK t \in Nat \ {0} : t = Power(b, n - i)
      BY <1>b, <3>1, PowerIs
    <3>3. PICK q \in Nat : q = a \div t
      BY DivDiv
    <3>4. q % b \in 0 .. b - 1
      BY ModRange
    <3>5. (q % b) + 1 \in 1 .. 16
      BY <3>4
    <3>6. \A x \in 1 .. 16 : DigitChar[x] \in Characters
      BY DigitChars
    <3> QED BY <3>2, <3>3, <3>5, <3>6 DEF DigitAt
  <2>3. Positional(a, b) = [i \in 1 .. n |-> DigitAt(a, b, n, i)]
    BY <1>0, PositionalAt
  <2>4. [i \in 1 .. n |-> DigitAt(a, b, n, i)] \in Seq(Characters)
    BY <2>1, <2>2, SeqDef
  <2>5. Len([i \in 1 .. n |-> DigitAt(a, b, n, i)]) = n
    BY <2>1, <2>4, LenProperties
  <2> QED BY <2>1, <2>2, <2>3, <2>4, <2>5
<1>1. PICK n : Digits(num, b, n)
  BY DigitsOne
<1>2. ASSUME num < b PROVE Positional(num, b) = <<DigitChar[num + 1]>>
  <2>1. Power(b, 0) = 1 /\ Power(b, 0 + 1) = b * Power(b, 0)
    BY <1>b, PowerIs
  <2>2. Power(b, 1) = b
    BY <2>1
  <2>3. Digits(num, b, 1)
    BY <1>2, <2>2 DEF Digits
  <2>4. Positional(num, b) = [i \in 1 .. 1 |-> DigitAt(num, b, 1, i)]
    BY <2>3, PositionalAt
  <2>5. DigitAt(num, b, 1, 1) = DigitChar[num + 1]
    BY <1>2, <2>1, DivOne, DivSmall DEF DigitAt
  <2> QED BY <2>4, <2>5
<1>3. ASSUME num >= b
      PROVE  Positional(num, b) = Positional(num \div b, b) \o <<DigitChar[(num % b) + 1]>>
  <2>1. PICK q \in Nat : q = num \div b
    BY <1>b, DivDiv
  <2>2. PICK m : Digits(q, b, m)
    BY DigitsOne
  <2>3. Digits(num, b, m + 1)
    BY <1>3, <2>1, <2>2, DigitsStep
  <2>4. Positional(num, b) = [i \in 1 .. m + 1 |-> DigitAt(num, b, m + 1, i)]
    BY <2>3, PositionalAt
  <2>5. Positional(q, b) = [i \in 1 .. m |-> DigitAt(q, b, m, i)]
    BY <2>2, PositionalAt
  <2>6. m \in Nat /\ m >= 1 /\ Positional(q, b) \in Seq(Characters) /\ Len(Positional(q, b)) = m
    BY <1>0, <2>2
  <2>7. ASSUME NEW i \in 1 .. m PROVE DigitAt(num, b, m + 1, i) = DigitAt(q, b, m, i)
    <3>1. m - i \in Nat /\ (m + 1) - i = m - i + 1
      BY <2>6
    <3>2. PICK t \in Nat \ {0} : t = Power(b, m - i)
      BY <1>b, <3>1, PowerIs
    <3>3. Power(b, (m + 1) - i) = b * t
      BY <1>b, <3>1, <3>2, PowerIs
    <3>4. num \div (b * t) = q \div t
      BY <1>b, <2>1, DivDiv
    <3>5. num \div Power(b, (m + 1) - i) = q \div Power(b, m - i)
      BY <3>2, <3>3, <3>4
    <3> QED BY <3>5 DEF DigitAt
  <2>8. DigitAt(num, b, m + 1, m + 1) = DigitChar[(num % b) + 1]
    <3>1. (m + 1) - (m + 1) = 0 /\ Power(b, 0) = 1
      BY <1>b, <2>6, PowerIs
    <3>2. num \div 1 = num
      BY DivOne
    <3> QED BY <3>1, <3>2 DEF DigitAt
  <2> DEFINE d == DigitChar[(num % b) + 1]
  <2>9. d \in Characters
    <3>1. m + 1 \in 1 .. m + 1
      BY <2>6
    <3> QED BY <1>0, <2>3, <2>8, <3>1
  <2> HIDE DEF d
  <2>10. /\ Positional(q, b) \o <<d>> \in Seq(Characters)
         /\ Len(Positional(q, b) \o <<d>>) = m + 1
         /\ \A i \in 1 .. m + 1 : (Positional(q, b) \o <<d>>)[i] =
              IF i <= m THEN Positional(q, b)[i] ELSE d
    <3>1. PICK s \in Seq(Characters) : s = Positional(q, b)
      BY <2>6
    <3>2. <<d>> \in Seq(Characters) /\ Len(<<d>>) = 1 /\ <<d>>[1] = d
      BY <2>9
    <3> QED BY <2>6, <3>1, <3>2, ConcatProperties
  <2>11. Positional(q, b) \o <<d>> = [i \in 1 .. m + 1 |-> (Positional(q, b) \o <<d>>)[i]]
    BY <2>6, <2>10, LenProperties
  <2>12. \A i \in 1 .. m + 1 : DigitAt(num, b, m + 1, i) = (Positional(q, b) \o <<d>>)[i]
    <3> TAKE i \in 1 .. m + 1
    <3>1. CASE i <= m
      <4>1. i \in 1 .. m /\ Positional(q, b)[i] = DigitAt(q, b, m, i)
        BY <2>5, <2>6, <3>1
      <4> QED BY <2>7, <2>10, <3>1, <4>1
    <3>2. CASE i = m + 1
      BY <2>6, <2>8, <2>10, <3>2 DEF d
    <3> QED BY <2>6, <3>1, <3>2
  <2>13. Positional(num, b) = Positional(q, b) \o <<d>>
    BY <2>4, <2>11, <2>12
  <2> QED BY <2>1, <2>13 DEF d
<1> QED BY <1>0, <1>1, <1>2, <1>3

LEMMA DivTen ==
  ASSUME NEW a \in Nat, NEW t \in Nat \ {0}
  PROVE  (a \div t) \div 10 = a \div (t * 10)
<1>1. \A c \in Nat \ {0} : (a \div t) \div c = a \div (t * c)
  <2> TAKE c \in Nat \ {0}
  <2> QED BY DivDiv
<1>2. 10 \in Nat \ {0}
  OBVIOUS
<1> QED BY <1>1, <1>2

LEMMA Ten ==
  /\ Power(10, 0) = 1
  /\ \A k \in Nat : Power(10, k) \in Nat \ {0} /\ Power(10, k + 1) = 10 * Power(10, k)
  /\ \A num \in Nat : Positional(num, 10) \in Seq(Characters) /\ Len(Positional(num, 10)) >= 1
<1>1. PICK b \in Nat : b = 10
  OBVIOUS
<1>2. /\ Power(b, 0) = 1
      /\ \A k \in Nat : Power(b, k) \in Nat \ {0} /\ Power(b, k + 1) = b * Power(b, k)
  <2>1. b \in Nat \ {0}
    BY <1>1
  <2> QED BY <2>1, PowerIs
<1>3. \A num \in Nat : Positional(num, b) \in Seq(Characters) /\ Len(Positional(num, b)) >= 1
  <2>1. b >= 2 /\ b <= 16
    BY <1>1
  <2> QED BY <2>1, PositionalIs
<1> QED BY <1>1, <1>2, <1>3

(* The digits of a decimal number are decimal, and the first is not 0.     *)
LEMMA DecimalIs ==
  ASSUME NEW num \in Nat
  PROVE  /\ \A i \in 1 .. Len(Positional(num, 10)) : Positional(num, 10)[i] \in Decimal
         /\ num > 0 => Positional(num, 10)[1] # "0"
<1>1. PICK n \in Nat : Digits(num, 10, n)
  BY DigitsOne
<1>2. n >= 1 /\ num < Power(10, n) /\ (n > 1 => num >= Power(10, n - 1))
  BY <1>1 DEF Digits
<1>3. /\ Positional(num, 10) = [i \in 1 .. n |-> DigitAt(num, 10, n, i)]
      /\ Len(Positional(num, 10)) = n
  <2>1. Positional(num, 10) = [i \in 1 .. n |-> DigitAt(num, 10, n, i)]
    BY <1>1, PositionalAt
  <2>2. Positional(num, 10) \in Seq(Characters)
    BY Ten
  <2> QED BY <2>1, <2>2, LenProperties
<1>4. ASSUME NEW i \in 1 .. n PROVE DigitAt(num, 10, n, i) \in Decimal
  <2>1. n - i \in Nat
    OBVIOUS
  <2>2. PICK t \in Nat \ {0} : t = Power(10, n - i)
    BY <2>1, Ten
  <2>3. PICK q \in Nat : q = num \div t
    BY DivDiv
  <2>4. (q % 10) + 1 \in 1 .. 10
    OBVIOUS
  <2> QED BY <2>2, <2>3, <2>4, DigitChars DEF DigitAt
<1>5. ASSUME num > 0 PROVE DigitAt(num, 10, n, 1) # "0"
  <2>1. n - 1 \in Nat /\ n - 1 + 1 = n
    BY <1>2
  <2>2. PICK t \in Nat \ {0} : t = Power(10, n - 1)
    BY <2>1, Ten
  <2>3. Power(10, n - 1 + 1) = 10 * t
    BY <2>1, <2>2, Ten
  <2>4. num < 10 * t
    BY <1>2, <2>1, <2>3
  <2>5. num >= t
    <3>1. CASE n = 1
      <4>1. Power(10, 0) = 1 /\ n - 1 = 0
        BY <3>1, Ten
      <4> QED BY <1>5, <2>2, <4>1
    <3> QED BY <1>2, <2>2, <3>1
  <2>6. PICK q \in 0 .. 9 : q = num \div t
    BY <2>4, DivBelow
  <2>7. q # 0
    <3>1. num \div t \in Int /\ num % t \in 0 .. t - 1 /\ num = (num \div t) * t + (num % t)
      BY ModRange
    <3>2. q = 0 => num = num % t
      BY <2>6, <3>1
    <3> QED BY <2>5, <3>1, <3>2
  <2>8. q % 10 = q
    OBVIOUS
  <2>9. DigitAt(num, 10, n, 1) = DigitChar[q + 1]
    BY <2>2, <2>6, <2>8 DEF DigitAt
  <2>10. DigitChar[1] = "0" /\ q + 1 \in 1 .. 16 /\ q + 1 # 1 /\ 1 \in 1 .. 16
    BY <2>7 DEF DigitChar
  <2> QED BY <2>9, <2>10, DigitChars
<1> QED BY <1>2, <1>3, <1>4, <1>5

LEMMA ValueIs ==
  ASSUME NEW x \in 1 .. 16
  PROVE  ValueOf(DigitChar[x]) = x - 1
<1> DEFINE i == CHOOSE i \in 1 .. 16 : DigitChar[i] = DigitChar[x]
<1>1. i \in 1 .. 16 /\ DigitChar[i] = DigitChar[x]
  OBVIOUS
<1> HIDE DEF i
<1>2. i = x
  BY <1>1, DigitChars
<1> QED BY <1>2 DEF ValueOf, i

(* The code reads a number as it was spelled.                              *)
LEMMA NumberIs ==
  ASSUME NEW num \in Nat, NEW s, NEW i \in Nat, NEW n, n = Len(Positional(num, 10)),
         \A k \in 1 .. n : s[(i - 1) + k] = Positional(num, 10)[k]
  PROVE  Number(s, i, (i - 1) + n) = num
<1>1. n \in Nat /\ n >= 1
  BY Ten
<1>2. /\ Digits(num, 10, n)
      /\ Positional(num, 10) = [k \in 1 .. n |-> DigitAt(num, 10, n, k)]
  <2>1. PICK m \in Nat : Digits(num, 10, m)
    BY DigitsOne
  <2>2. Positional(num, 10) = [k \in 1 .. m |-> DigitAt(num, 10, m, k)]
    BY <2>1, PositionalAt
  <2>3. Positional(num, 10) \in Seq(Characters)
    BY Ten
  <2>4. m = n
    BY <2>2, <2>3, LenProperties
  <2> QED BY <2>1, <2>2, <2>4
<1> DEFINE j == (i - 1) + n
           f == [k \in i - 1 .. j |-> num \div Power(10, j - k)]
           Eq(t) == t = [k \in i - 1 .. j |->
                           IF k = i - 1 THEN 0 ELSE t[k - 1] * 10 + ValueOf(s[k])]
           number == CHOOSE t : Eq(t)
<1>3. f[i - 1] = 0
  <2>1. PICK t \in Nat \ {0} : t = Power(10, n)
    BY <1>1, Ten
  <2>2. num < t
    BY <1>2, <2>1 DEF Digits
  <2>3. num \div t = 0
    BY <2>2, DivSmall
  <2>4. j - (i - 1) = n /\ i - 1 \in i - 1 .. j
    BY <1>1
  <2> QED BY <2>1, <2>3, <2>4
<1>4. ASSUME NEW k \in i .. j PROVE f[k] = f[k - 1] * 10 + ValueOf(s[k])
  <2>1. /\ j - k \in Nat /\ j - (k - 1) = (j - k) + 1
        /\ k \in i - 1 .. j /\ k - 1 \in i - 1 .. j
        /\ k - (i - 1) \in 1 .. n /\ (i - 1) + (k - (i - 1)) = k /\ n - (k - (i - 1)) = j - k
    BY <1>1
  <2>2. PICK t \in Nat \ {0} : t = Power(10, j - k)
    BY <2>1, Ten
  <2>3. Power(10, (j - k) + 1) = 10 * t
    BY <2>1, <2>2, Ten
  <2>4. PICK q \in Nat : q = num \div t
    BY DivDiv
  <2>5. num \div (t * 10) = q \div 10
    <3>1. (num \div t) \div 10 = num \div (t * 10)
      BY DivTen
    <3> QED BY <2>4, <3>1
  <2>6. f[k] = q
    BY <2>1, <2>2, <2>4
  <2>7. f[k - 1] = q \div 10
    <3>1. t * 10 = 10 * t
      OBVIOUS
    <3>2. f[k - 1] = num \div Power(10, (j - k) + 1)
      BY <2>1
    <3> QED BY <2>3, <2>5, <3>1, <3>2
  <2>8. s[k] = DigitChar[(q % 10) + 1]
    <3>1. s[k] = DigitAt(num, 10, n, k - (i - 1))
      BY <1>2, <2>1
    <3> QED BY <2>1, <2>2, <2>4, <3>1 DEF DigitAt
  <2>9. (q % 10) + 1 \in 1 .. 16 /\ q = (q \div 10) * 10 + ((q % 10) + 1) - 1
    OBVIOUS
  <2>10. ValueOf(s[k]) = ((q % 10) + 1) - 1
    BY <2>8, <2>9, ValueIs
  <2> HIDE DEF f
  <2> QED BY <2>6, <2>7, <2>9, <2>10
<1>5. f[j] = num
  <2>1. j - j = 0 /\ j \in i - 1 .. j /\ Power(10, 0) = 1
    BY <1>1, Ten
  <2> QED BY <2>1, DivOne
<1>6. Eq(f)
  <2>1. \A k \in i - 1 .. j : f[k] = IF k = i - 1 THEN 0 ELSE f[k - 1] * 10 + ValueOf(s[k])
    <3> HIDE DEF f
    <3>1. \A k \in i - 1 .. j : k # i - 1 => k \in i .. j
      BY <1>1
    <3> QED BY <1>3, <1>4, <3>1
  <2>2. f = [k \in i - 1 .. j |-> f[k]]
    OBVIOUS
  <2> HIDE DEF f
  <2> QED BY <2>1, <2>2
<1> HIDE DEF f
<1>7. Eq(number)
  <2> HIDE DEF Eq
  <2> QED BY <1>6
<1> HIDE DEF number
<1>8. \A k \in i - 1 .. j :
        number[k] = IF k = i - 1 THEN 0 ELSE number[k - 1] * 10 + ValueOf(s[k])
  BY <1>7
<1> DEFINE J == {d \in Nat : d <= n => number[(i - 1) + d] = f[(i - 1) + d]}
<1>9. 0 \in J
  <2>1. (i - 1) + 0 = i - 1 /\ i - 1 \in i - 1 .. j
    BY <1>1
  <2> QED BY <1>3, <1>8, <2>1
<1>10. ASSUME NEW d \in Nat, d \in J PROVE d + 1 \in J
  <2> SUFFICES ASSUME d + 1 <= n PROVE number[(i - 1) + (d + 1)] = f[(i - 1) + (d + 1)]
    OBVIOUS
  <2> DEFINE k == (i - 1) + (d + 1)
  <2>1. k \in i .. j /\ k \in i - 1 .. j /\ k # i - 1 /\ k - 1 = (i - 1) + d
    BY <1>1
  <2>2. number[k - 1] = f[k - 1]
    BY <1>10, <2>1
  <2> HIDE DEF k, j
  <2>3. number[k] = number[k - 1] * 10 + ValueOf(s[k])
    BY <1>8, <2>1
  <2>4. f[k] = f[k - 1] * 10 + ValueOf(s[k])
    BY <1>4, <2>1
  <2>5. number[k] = f[k]
    BY <2>2, <2>3, <2>4
  <2> QED BY <2>5 DEF k
<1>11. number[j] = f[j]
  <2> HIDE DEF J
  <2>1. n \in J
    BY <1>1, <1>9, <1>10, SetInduction
  <2> QED BY <1>1, <2>1 DEF J
<1>12. Number(s, i, j) = number[j]
  BY DEF Number, number
<1> QED BY <1>5, <1>11, <1>12

LEMMA CopiesIs ==
  ASSUME NEW c \in Characters, NEW n \in Int
  PROVE  Copies(c, n) \in Seq(Characters) /\ Len(Copies(c, n)) = IF n > 0 THEN n ELSE 0
<1>1. CASE n > 0
  <2>1. [i \in 1 .. n |-> c] \in Seq(Characters)
    BY <1>1, SeqDef
  <2>2. Len([i \in 1 .. n |-> c]) = n
    BY <1>1, <2>1, LenProperties
  <2> QED BY <1>1, <2>1, <2>2 DEF Copies
<1>2. CASE ~ (n > 0)
  BY <1>2, EmptySeq DEF Copies
<1> QED BY <1>1, <1>2

(* The recursion of printnum: the pads, then the digits.                   *)
LEMMA PrintnumIs ==
  ASSUME NEW b \in Nat, b >= 2, b <= 16, NEW num \in Nat, NEW width \in Int,
         NEW padc \in Characters
  PROVE  printnum(num, b, width, padc)
         = Copies(padc, width - Len(Positional(num, b))) \o Positional(num, b)
<1> DEFINE Pos(n) == Positional(n, b)
           Text(n, w) == Copies(padc, w - Len(Pos(n))) \o Pos(n)
           Last1(n) == <<DigitChar[(n % b) + 1]>>
           Body(f, n, w) == (IF n >= b THEN f[n \div b][w - 1] ELSE Pads(w, padc)) \o Last1(n)
           Eq(f) == f = [n \in Nat |-> [w \in Int |-> Body(f, n, w)]]
           g == [n \in Nat |-> [w \in Int |-> Text(n, w)]]
           print == CHOOSE f : Eq(f)
<1>0. b \in Nat \ {0}
  OBVIOUS
<1>1. ASSUME NEW n \in Nat
      PROVE  /\ n \div b \in Nat /\ (n >= b => n \div b < n)
             /\ Last1(n) \in Seq(Characters) /\ Len(Last1(n)) = 1
             /\ Pos(n) \in Seq(Characters) /\ Len(Pos(n)) \in Nat
             /\ n < b => Pos(n) = Last1(n)
             /\ n >= b => Pos(n) = Pos(n \div b) \o Last1(n)
  <2>1. PICK q \in Nat : q = n \div b
    BY <1>0, DivDiv
  <2>2. n % b \in 0 .. b - 1 /\ n = q * b + (n % b)
    BY <1>0, <2>1, ModRange
  <2>3. n >= b => q < n
    <3> SUFFICES ASSUME n >= b PROVE q < n
      OBVIOUS
    <3>1. CASE q = 0
      BY <3>1
    <3>2. CASE q > 0
      <4>1. 1 * q + q <= b * q
        BY <3>2, MulGap
      <4>2. q * b = b * q /\ q * b \in Int
        OBVIOUS
      <4> QED BY <2>2, <3>2, <4>1, <4>2
    <3> QED BY <3>1, <3>2
  <2>4. (n % b) + 1 \in 1 .. 16
    BY <2>2
  <2>5. DigitChar[(n % b) + 1] \in Characters
    BY <2>4, DigitChars
  <2>6. Last1(n) \in Seq(Characters) /\ Len(Last1(n)) = 1
    BY <2>5
  <2>7. Pos(n) \in Seq(Characters) /\ Len(Pos(n)) \in Nat
    BY PositionalIs, LenProperties
  <2>8. n < b => Pos(n) = Last1(n)
    <3>1. n < b => n % b = n
      BY <1>0, DivSmall
    <3> QED BY <3>1, PositionalIs
  <2>9. n >= b => Pos(n) = Pos(n \div b) \o Last1(n)
    BY PositionalIs
  <2> QED BY <2>1, <2>3, <2>6, <2>7, <2>8, <2>9
<1> HIDE DEF Last1, Pos
<1>2. ASSUME NEW n \in Nat, NEW w \in Int PROVE Text(n, w) = Body(g, n, w)
  <2>1. CASE n < b
    <3>1. Pos(n) = Last1(n) /\ Len(Last1(n)) = 1
      BY <1>1, <2>1
    <3>2. ~ (n >= b)
      BY <2>1
    <3>3. Body(g, n, w) = Pads(w, padc) \o Last1(n)
      <4> HIDE DEF g, Last1
      <4> QED BY <3>2
    <3>4. Pads(w, padc) = Copies(padc, w - Len(Pos(n)))
      BY <3>1 DEF Pads
    <3> QED BY <3>1, <3>3, <3>4
  <2>2. CASE n >= b
    <3>1. PICK q \in Nat : q = n \div b
      BY <1>1
    <3>2. /\ Pos(n) = Pos(q) \o Last1(n) /\ Len(Last1(n)) = 1
          /\ Last1(n) \in Seq(Characters) /\ Pos(q) \in Seq(Characters) /\ Len(Pos(q)) \in Nat
      BY <1>1, <2>2, <3>1
    <3>3. Len(Pos(n)) = Len(Pos(q)) + 1
      <4>1. Len(Pos(q) \o Last1(n)) = Len(Pos(q)) + Len(Last1(n))
        BY <3>2, ConcatProperties
      <4> QED BY <3>2, <4>1
    <3>4. PICK c : c = Copies(padc, w - Len(Pos(n)))
      OBVIOUS
    <3>5. w - Len(Pos(n)) = (w - 1) - Len(Pos(q)) /\ w - Len(Pos(n)) \in Int
      BY <3>2, <3>3
    <3>6. c \in Seq(Characters) /\ c = Copies(padc, (w - 1) - Len(Pos(q)))
      BY <3>4, <3>5, CopiesIs
    <3>7. g[n \div b][w - 1] = c \o Pos(q)
      <4>1. w - 1 \in Int
        OBVIOUS
      <4> QED BY <3>1, <3>6, <4>1
    <3>8. Body(g, n, w) = (c \o Pos(q)) \o Last1(n)
      <4> HIDE DEF g
      <4> QED BY <2>2, <3>7
    <3>9. (c \o Pos(q)) \o Last1(n) = c \o (Pos(q) \o Last1(n))
      BY <3>2, <3>6, ConcatAssociative
    <3> QED BY <3>2, <3>4, <3>8, <3>9
  <2> HIDE DEF Text, Body
  <2> QED BY <2>1, <2>2
<1>3. Eq(g)
  <2>1. g = [n \in Nat |-> [w \in Int |-> Text(n, w)]]
    OBVIOUS
  <2> HIDE DEF g, Text, Body
  <2> QED BY <1>2, <2>1
<1>4. Eq(print)
  <2> HIDE DEF Eq, g
  <2> QED BY <1>3
<1>5. \A n \in Nat : \A w \in Int : print[n][w] = Body(print, n, w)
  <2> HIDE DEF print, Body
  <2> QED BY <1>4
<1>6. \A n \in Nat : \A w \in Int : g[n][w] = Body(g, n, w)
  <2>1. \A n \in Nat : \A w \in Int : g[n][w] = Text(n, w)
    OBVIOUS
  <2> HIDE DEF g, Body, Text
  <2> QED BY <1>2, <2>1
<1>g. \A n \in Nat : \A w \in Int : g[n][w] = Text(n, w)
  <2> HIDE DEF Text
  <2> QED OBVIOUS
<1> HIDE DEF print, g, Text
<1> DEFINE K == {m \in Nat : \A n \in 0 .. m : \A w \in Int : print[n][w] = g[n][w]}
<1>7. ASSUME NEW n \in Nat, NEW w \in Int,
             \A k \in Nat : k < n => \A v \in Int : print[k][v] = g[k][v]
      PROVE  print[n][w] = g[n][w]
  <2>1. CASE n < b
    <3>1. ~ (n >= b)
      BY <2>1
    <3>2. Body(print, n, w) = Body(g, n, w)
      BY <3>1
    <3> HIDE DEF Body
    <3> QED BY <1>5, <1>6, <3>2
  <2>2. CASE n >= b
    <3>1. w - 1 \in Int /\ n \div b \in Nat /\ n \div b < n
      BY <1>1, <2>2
    <3>2. print[n \div b][w - 1] = g[n \div b][w - 1]
      BY <1>7, <3>1
    <3>3. Body(print, n, w) = Body(g, n, w)
      BY <3>2
    <3> HIDE DEF Body
    <3> QED BY <1>5, <1>6, <3>3
  <2> QED BY <2>1, <2>2
<1> HIDE DEF Body
<1>8. 0 \in K
  BY <1>7
<1>9. ASSUME NEW m \in Nat, m \in K PROVE m + 1 \in K
  <2>1. \A k \in Nat : k < m + 1 => \A v \in Int : print[k][v] = g[k][v]
    BY <1>9
  <2>2. \A w \in Int : print[m + 1][w] = g[m + 1][w]
    BY <1>7, <2>1
  <2>3. \A n \in 0 .. m + 1 : n \in Nat /\ (n < m + 1 \/ n = m + 1)
    OBVIOUS
  <2> QED BY <2>1, <2>2, <2>3
<1> HIDE DEF K
<1>10. num \in K
  BY <1>8, <1>9, SetInduction
<1>11. print[num][width] = Text(num, width)
  <2>1. num \in 0 .. num
    OBVIOUS
  <2> QED BY <1>10, <1>g, <2>1 DEF K
<1>12. printnum(num, b, width, padc) = print[num][width]
  BY DEF printnum, print, Body, Last1
<1> QED BY <1>11, <1>12 DEF Text, Pos

----------------------------------------------------------------------------
(* A sequence of sequences, one after the other.                           *)
LEMMA FlattenIs ==
  ASSUME NEW S, NEW s \in Seq(Seq(S))
  PROVE  \E F : /\ F[0] = <<>> /\ FlattenSeq(s) = F[Len(s)]
                /\ \A n \in Nat : F[n] \in Seq(S)
                /\ \A n \in 1 .. Len(s) : F[n] = F[n - 1] \o s[n]
<1>0. Len(s) \in Nat /\ \A n \in 1 .. Len(s) : s[n] \in Seq(S)
  BY LenProperties, ElementOfSeq
<1> DEFINE T == Seq(S)
           step == [n \in Nat |-> [y \in T |-> IF n < Len(s) THEN y \o s[n + 1] ELSE y]]
<1>1. \A n \in Nat : \A y \in T : /\ step[n][y] = IF n < Len(s) THEN y \o s[n + 1] ELSE y
                                  /\ step[n][y] \in T
  <2> TAKE n \in Nat
  <2> TAKE y \in T
  <2>1. step[n][y] = IF n < Len(s) THEN y \o s[n + 1] ELSE y
    OBVIOUS
  <2>2. CASE n < Len(s)
    <3>1. n + 1 \in 1 .. Len(s)
      BY <1>0, <2>2
    <3>2. s[n + 1] \in Seq(S)
      BY <1>0, <3>1
    <3>3. y \o s[n + 1] \in Seq(S)
      BY <3>2, ConcatProperties
    <3> QED BY <2>1, <2>2, <3>3
  <2> QED BY <2>1, <2>2
<1>2. <<>> \in T
  BY EmptySeq
<1>3. Steps(step, T)
  <2> USE DEF Steps
  <2> HIDE DEF T, step
  <2> QED BY <1>1
<1>4. PICK f : f[0] = <<>> /\ \A n \in Nat : f[n] \in T /\ f[n + 1] = step[n][f[n]]
  <2>1. \A x \in T : \E f : f[0] = x /\ \A n \in Nat : f[n] \in T /\ f[n + 1] = step[n][f[n]]
    <3> HIDE DEF T, step
    <3> TAKE x \in T
    <3> QED BY <1>3, RecursionHas, SMTT(30)
  <2> HIDE DEF T, step
  <2> QED BY <1>2, <2>1
<1>5. \A n \in 1 .. Len(s) : f[n] = f[n - 1] \o s[n]
  <2> TAKE n \in 1 .. Len(s)
  <2>1. n - 1 \in Nat /\ n - 1 < Len(s) /\ n - 1 + 1 = n
    BY <1>0
  <2>2. f[n - 1 + 1] = step[n - 1][f[n - 1]] /\ f[n - 1] \in T
    BY <1>4, <2>1
  <2> HIDE DEF step, T
  <2> QED BY <1>1, <2>1, <2>2
<1>6. FlattenSeq(s) = f[Len(s)]
  <2>1. CASE Len(s) = 0
    <3>1. s = <<>>
      BY <2>1
    <3> QED BY <1>4, <2>1, <3>1 DEF FlattenSeq
  <2>2. CASE Len(s) # 0
    <3> DEFINE N == Len(s)
               Eq(it) == it = [i \in 1 .. N |-> IF i = 1 THEN s[i] ELSE it[i - 1] \o s[i]]
               flatten == CHOOSE it : Eq(it)
               g == [i \in 1 .. N |-> f[i]]
               h == [i \in 0 .. N |-> IF i = 0 THEN <<>> ELSE flatten[i]]
    <3>0. N \in Nat /\ N >= 1
      BY <1>0, <2>2
    <3>1. FlattenSeq(s) = flatten[N]
      BY <2>2 DEF FlattenSeq
    <3>2. f[1] = s[1]
      <4>1. 1 \in 1 .. Len(s) /\ 1 - 1 = 0
        BY <3>0
      <4>2. f[1] = <<>> \o s[1]
        BY <1>4, <1>5, <4>1
      <4>3. s[1] \in Seq(S)
        BY <1>0, <4>1
      <4> QED BY <4>2, <4>3, ConcatEmptySeq
    <3>3. Eq(g)
      <4>1. ASSUME NEW i \in 1 .. N PROVE g[i] = IF i = 1 THEN s[i] ELSE g[i - 1] \o s[i]
        <5>1. CASE i = 1
          BY <3>2, <5>1
        <5>2. CASE i # 1
          <6>1. i - 1 \in 1 .. N
            BY <5>2, <3>0
          <6> QED BY <1>5, <5>2, <6>1
        <5> QED BY <5>1, <5>2
      <4>2. g = [i \in 1 .. N |-> g[i]]
        OBVIOUS
      <4> HIDE DEF g
      <4> QED BY <4>1, <4>2
    <3>4. Eq(flatten)
      <4> HIDE DEF Eq, g
      <4> QED BY <3>3
    <3>5. \A i \in 1 .. N : flatten[i] = IF i = 1 THEN s[i] ELSE flatten[i - 1] \o s[i]
      <4> HIDE DEF flatten
      <4> QED BY <3>4
    <3> HIDE DEF flatten
    <3>6. h[0] = f[0]
      BY <1>4, <3>0
    <3>7. ASSUME NEW i \in 1 .. N, h[i - 1] = f[i - 1] PROVE h[i] = f[i]
      <4>1. CASE i = 1
        BY <3>2, <3>5, <3>0, <4>1
      <4>2. CASE i # 1
        <5>1. i - 1 \in 1 .. N
          BY <4>2, <3>0
        <5>2. h[i] = flatten[i] /\ h[i - 1] = flatten[i - 1]
          BY <4>2, <5>1, <3>0
        <5> QED BY <1>5, <3>5, <3>7, <4>2, <5>2
      <4> QED BY <4>1, <4>2
    <3> HIDE DEF h
    <3>8. \A i \in 0 .. N : h[i] = f[i]
      <4> HIDE DEF N
      <4> QED BY <3>0, <3>6, <3>7, RecursionIs
    <3>9. h[N] = f[N]
      BY <3>0, <3>8
    <3> QED BY <3>0, <3>1, <3>9 DEF h
  <2> QED BY <2>1, <2>2
<1> HIDE DEF step
<1> QED BY <1>4, <1>5, <1>6

LEMMA ConsIs ==
  ASSUME NEW S, NEW c \in S, NEW r \in Seq(S)
  PROVE  /\ <<c>> \o r \in Seq(S) /\ <<c>> \o r # <<>> /\ Len(<<c>> \o r) = Len(r) + 1
         /\ (<<c>> \o r)[1] = c /\ \A k \in 1 .. Len(r) : (<<c>> \o r)[k + 1] = r[k]
         /\ Head(<<c>> \o r) = c /\ Tail(<<c>> \o r) = r
<1>1. <<c>> \in Seq(S) /\ Len(<<c>>) = 1 /\ <<c>>[1] = c /\ Len(r) \in Nat
  OBVIOUS
<1>2. /\ <<c>> \o r \in Seq(S) /\ Len(<<c>> \o r) = 1 + Len(r)
      /\ \A i \in 1 .. 1 + Len(r) : (<<c>> \o r)[i] = IF i <= 1 THEN <<c>>[i] ELSE r[i - 1]
  BY <1>1, ConcatProperties
<1> DEFINE s == <<c>> \o r
<1>3. s \in Seq(S) /\ Len(s) = Len(r) + 1 /\ s # <<>>
  BY <1>1, <1>2
<1>4. s[1] = c /\ \A k \in 1 .. Len(r) : s[k + 1] = r[k]
  BY <1>1, <1>2
<1> HIDE DEF s
<1>5. Head(s) = c
  BY <1>3, <1>4
<1>6. Tail(s) = r
  <2>1. /\ Tail(s) \in Seq(S) /\ Len(Tail(s)) = Len(r)
        /\ \A i \in 1 .. Len(Tail(s)) : Tail(s)[i] = s[i + 1]
    BY <1>3, <1>1, HeadTailProperties
  <2> QED BY <2>1, <1>4, SeqEqual
<1> QED BY <1>3, <1>4, <1>5, <1>6 DEF s

(* From i to e the format f is s.                                          *)
Ahead(f, i, e, s) ==
  /\ i \in Nat \ {0} /\ s \in Seq(Characters) /\ e = (i - 1) + Len(s) /\ e <= Len(f)
  /\ \A k \in 1 .. Len(s) : f[(i - 1) + k] = s[k]

LEMMA AheadTakes ==
  ASSUME NEW f \in Seq(Characters), NEW i, NEW e, NEW u \in Seq(Characters),
         NEW r \in Seq(Characters), Ahead(f, i, e, u \o r)
  PROVE  /\ \A k \in 1 .. Len(u) : f[(i - 1) + k] = u[k]
         /\ Ahead(f, i + Len(u), e, r) /\ (i - 1) + Len(u) <= Len(f)
         /\ e = (i - 1) + Len(u) + Len(r)
<1>1. /\ u \o r \in Seq(Characters) /\ Len(u \o r) = Len(u) + Len(r)
      /\ \A k \in 1 .. Len(u) + Len(r) : (u \o r)[k] = IF k <= Len(u) THEN u[k] ELSE r[k - Len(u)]
  BY ConcatProperties
<1>2. Len(u) \in Nat /\ Len(r) \in Nat
  OBVIOUS
<1> DEFINE s == u \o r
<1> HIDE DEF s
<1>3. /\ i \in Nat \ {0} /\ e = (i - 1) + Len(s) /\ e <= Len(f)
      /\ \A k \in 1 .. Len(s) : f[(i - 1) + k] = s[k]
  BY DEF s, Ahead
<1>4. Len(s) = Len(u) + Len(r)
      /\ \A k \in 1 .. Len(s) : s[k] = IF k <= Len(u) THEN u[k] ELSE r[k - Len(u)]
  BY <1>1 DEF s
<1>5. \A k \in 1 .. Len(u) : f[(i - 1) + k] = u[k]
  BY <1>2, <1>3, <1>4
<1>6. ASSUME NEW k \in 1 .. Len(r) PROVE f[((i + Len(u)) - 1) + k] = r[k]
  <2>1. Len(u) + k \in 1 .. Len(s) /\ (Len(u) + k) - Len(u) = k /\ ~ (Len(u) + k <= Len(u))
    BY <1>2, <1>4
  <2>2. f[(i - 1) + (Len(u) + k)] = r[k]
    BY <2>1, <1>3, <1>4
  <2>3. (i - 1) + (Len(u) + k) = ((i + Len(u)) - 1) + k
    BY <1>2, <1>3
  <2> QED BY <2>2, <2>3
<1>7. i + Len(u) \in Nat \ {0} /\ e = ((i + Len(u)) - 1) + Len(r) /\ e <= Len(f)
  BY <1>2, <1>3, <1>4
<1>8. (i - 1) + Len(u) <= Len(f) /\ e = (i - 1) + Len(u) + Len(r)
  BY <1>2, <1>3, <1>4, <1>7
<1> QED BY <1>5, <1>6, <1>7, <1>8 DEF Ahead

LEMMA AheadOne ==
  ASSUME NEW f \in Seq(Characters), NEW i, NEW e, NEW c \in Characters,
         NEW r \in Seq(Characters), Ahead(f, i, e, <<c>> \o r)
  PROVE  f[i] = c /\ i <= Len(f) /\ Ahead(f, i + 1, e, r)
<1>1. <<c>> \in Seq(Characters) /\ Len(<<c>>) = 1 /\ <<c>>[1] = c /\ i \in Nat
  BY DEF Ahead
<1>2. /\ \A k \in 1 .. 1 : f[(i - 1) + k] = <<c>>[k]
      /\ Ahead(f, i + 1, e, r) /\ (i - 1) + 1 <= Len(f)
  <2>1. Ahead(f, i + Len(<<c>>), e, r) /\ (i - 1) + Len(<<c>>) <= Len(f)
        /\ \A k \in 1 .. Len(<<c>>) : f[(i - 1) + k] = <<c>>[k]
    <3> DEFINE u == <<c>>
    <3>1. u \in Seq(Characters) /\ Ahead(f, i, e, u \o r)
      BY <1>1
    <3> HIDE DEF u
    <3>2. Ahead(f, i + Len(u), e, r) /\ (i - 1) + Len(u) <= Len(f)
          /\ \A k \in 1 .. Len(u) : f[(i - 1) + k] = u[k]
      BY <3>1, AheadTakes
    <3> QED BY <3>2 DEF u
  <2> QED BY <1>1, <2>1
<1>3. (i - 1) + 1 = i
  BY <1>1
<1> QED BY <1>1, <1>2, <1>3

----------------------------------------------------------------------------
(* What is left of a conversion while it is read, and of its arguments.    *)
Conv(it) == IF it.conv = "end" THEN <<>> ELSE <<it.conv>>
Longs(it, n) == Copies("l", n) \o Conv(it)
PrecRest(it) == SpellNumber(it, it.prec) \o Longs(it, it.long)
DotRest(it) == IF Given(it.prec) THEN <<".">> \o PrecRest(it) ELSE Longs(it, it.long)
WidthRest(it) == IF Given(it.width) THEN SpellNumber(it, it.width) \o DotRest(it) ELSE DotRest(it)
AltRest(it) == IF it.alt THEN <<"#">> \o WidthRest(it) ELSE WidthRest(it)
FlagRest(it) == IF it.flag = Blank THEN AltRest(it) ELSE <<it.flag>> \o AltRest(it)

Arg == Int \cup Characters \cup Seq(Characters) \cup {NULL}
Value(it) ==
  CASE it.conv = "c" -> it.word
    [] it.conv = "s" -> <<it.word>>
    [] it.conv \in {"e", "d", "u", "o", "p", "x"} -> <<it.num>>
    [] OTHER -> <<>>
PrecArgs(it, r) == IF it.star /\ Given(it.prec) THEN <<it.prec>> \o (Value(it) \o r) ELSE Value(it) \o r
WidthArgs(it, r) == IF it.star /\ Given(it.width) THEN <<it.width>> \o PrecArgs(it, r) ELSE PrecArgs(it, r)

LEMMA Symbols ==
  {"NUL", Blank, "%", "-", "#", ".", "*", "?", "(", ")", "l", "n", "u", "x", "error", "0"}
    \subseteq Characters
<1>1. DigitChar[1] = "0" /\ DigitChar[1] \in Characters
  BY DigitChars DEF DigitChar
<1> QED BY <1>1, CharacterAssumption DEF Punctuation

LEMMA PieceFields ==
  ASSUME NEW it \in Pieces
  PROVE  /\ it.conv \in Characters \cup {"text", "end"} /\ it.flag \in {Blank, "-", "0"}
         /\ it.alt \in BOOLEAN /\ it.width \in Int \cup {NULL} /\ it.prec \in Int \cup {NULL}
         /\ it.star \in BOOLEAN /\ it.long \in Nat /\ it.num \in Nat
         /\ it.word \in Seq(Characters) \cup {NULL}
BY DEF Pieces

LEMMA One ==
  ASSUME NEW S, NEW c \in S
  PROVE  <<c>> \in Seq(S)
OBVIOUS

(* As a hypothesis, this one tells the provers where to look.             *)
Three(x, y, z, S) == x \in Seq(S) /\ y \in Seq(S) /\ z \in Seq(S)

LEMMA Assoc ==
  ASSUME NEW S, NEW x, NEW y, NEW z, Three(x, y, z, S)
  PROVE  x \o y \in Seq(S) /\ (x \o y) \o z = x \o (y \o z)
BY ConcatProperties, ConcatAssociative DEF Three

LEMMA Shift ==
  ASSUME NEW S, NEW x, NEW y, NEW z, Three(x, y, z, S), NEW q, q = x \o y, NEW r, r = y \o z
  PROVE  q \o z = x \o r
BY Assoc

LEMMA SpelledNumber ==
  ASSUME NEW it \in Pieces, Sensible(it), NEW n \in {it.width, it.prec}, Given(n)
  PROVE  /\ SpellNumber(it, n) \in Seq(Characters)
         /\ n \in Int /\ (~ it.star => n \in Nat /\ n > 0)
<1>1. n \in Int /\ (~ it.star => n \in Nat /\ n > 0)
  <2>1. n \in Int
    <3>1. it.width \in Int \cup {NULL} /\ it.prec \in Int \cup {NULL}
      BY PieceFields
    <3> QED BY <3>1 DEF Given
  <2> QED BY <2>1 DEF Sensible
<1>2. CASE it.star
  <2>1. "*" \in Characters
    BY Symbols
  <2> QED BY <1>1, <1>2, <2>1, One DEF SpellNumber
<1>3. CASE ~ it.star
  BY <1>1, <1>3, Ten DEF SpellNumber
<1> QED BY <1>1, <1>2, <1>3

LEMMA RestsAre ==
  ASSUME NEW it \in Pieces, Sensible(it), it.conv # "text"
  PROVE  /\ Conv(it) \in Seq(Characters) /\ \A n \in Int : Longs(it, n) \in Seq(Characters)
         /\ Given(it.prec) => PrecRest(it) \in Seq(Characters)
         /\ DotRest(it) \in Seq(Characters) /\ WidthRest(it) \in Seq(Characters)
         /\ AltRest(it) \in Seq(Characters) /\ FlagRest(it) \in Seq(Characters)
         /\ Spell(it) = <<"%">> \o FlagRest(it)
<1>1. Conv(it) \in Seq(Characters)
  <2>1. CASE it.conv = "end"
    BY <2>1, EmptySeq DEF Conv
  <2>2. CASE it.conv # "end"
    <3>1. it.conv \in Characters
      BY <2>2, PieceFields
    <3> QED BY <2>2, <3>1, One DEF Conv
  <2> QED BY <2>1, <2>2
<1>2. ASSUME NEW n \in Int PROVE /\ Copies("l", n) \in Seq(Characters)
                                 /\ Longs(it, n) \in Seq(Characters)
  <2>1. Copies("l", n) \in Seq(Characters)
    BY CopiesIs, Symbols
  <2> QED BY <1>1, <2>1, ConcatProperties DEF Longs
<1> DEFINE C == Seq(Characters)
           F == IF it.flag = Blank THEN <<>> ELSE <<it.flag>>
           A == IF it.alt THEN <<"#">> ELSE <<>>
           W == IF Given(it.width) THEN SpellNumber(it, it.width) ELSE <<>>
           P == IF Given(it.prec) THEN <<".">> \o SpellNumber(it, it.prec) ELSE <<>>
           L == Copies("l", it.long)
           V == Conv(it)
<1>3. it.long \in Int /\ it.flag \in Characters /\ {"%", "#", "."} \subseteq Characters
  <2>1. it.flag \in {Blank, "-", "0"} /\ it.long \in Int
    <3>1. it.flag \in {Blank, "-", "0"}
      BY PieceFields
    <3>2. it.long \in Nat
      BY PieceFields
    <3> QED BY <3>1, <3>2
  <2>2. {Blank, "-", "0"} \subseteq Characters /\ {"%", "#", "."} \subseteq Characters
    BY Symbols
  <2> QED BY <2>1, <2>2
<1>4. Longs(it, it.long) \in C /\ L \in C /\ Longs(it, it.long) = L \o V /\ V \in C
  BY <1>1, <1>2, <1>3 DEF Longs
<1>5. F \in C /\ A \in C /\ W \in C /\ <<"%">> \in C /\ <<".">> \in C
  <2>1. \A c \in Characters : <<c>> \in Seq(Characters)
    BY One
  <2>2. <<>> \in Seq(Characters)
    BY EmptySeq
  <2>3. "." \in Characters /\ "%" \in Characters /\ "#" \in Characters
    BY Symbols
  <2>4. F \in C /\ A \in C
    BY <1>3, <2>1, <2>2, <2>3
  <2>5. W \in C
    BY <2>2, SpelledNumber
  <2> QED BY <2>1, <2>3, <2>4, <2>5
<1>6. P \in C
  <2>1. CASE Given(it.prec)
    <3>1. SpellNumber(it, it.prec) \in Seq(Characters)
      BY <2>1, SpelledNumber
    <3>2. <<".">> \in Seq(Characters)
      BY <1>5
    <3>3. <<".">> \o SpellNumber(it, it.prec) \in Seq(Characters)
      BY <3>1, <3>2, ConcatProperties
    <3> QED BY <2>1, <3>3
  <2>2. CASE ~ Given(it.prec)
    BY <2>2, EmptySeq
  <2> QED BY <2>1, <2>2
<1>7. /\ Given(it.prec) => PrecRest(it) \in C
      /\ DotRest(it) = P \o (L \o V)
  <2>1. CASE Given(it.prec)
    <3>1. SpellNumber(it, it.prec) \in C
      BY <2>1, SpelledNumber
    <3> DEFINE N == SpellNumber(it, it.prec)
               X == Longs(it, it.long)
    <3>2. PrecRest(it) = N \o X /\ P = <<".">> \o N
      BY <2>1 DEF PrecRest
    <3>3. N \in C /\ X \in C /\ <<".">> \in C
      BY <1>4, <1>5, <3>1
    <3> HIDE DEF N, X
    <3>4. N \o X \in C /\ (<<".">> \o N) \o X = <<".">> \o (N \o X)
      BY <3>3, ConcatProperties, ConcatAssociative
    <3>5. DotRest(it) = <<".">> \o (N \o X)
      BY <2>1, <3>2 DEF DotRest
    <3> QED BY <1>4, <3>2, <3>4, <3>5 DEF X
  <2>2. CASE ~ Given(it.prec)
    BY <1>4, <2>2, ConcatEmptySeq DEF DotRest
  <2> QED BY <2>1, <2>2
<1> HIDE DEF C
<1>8. P \o (L \o V) \in C /\ L \o V \in C
  BY <1>4, <1>6, ConcatProperties DEF C
<1>9. WidthRest(it) = W \o DotRest(it) /\ WidthRest(it) \in C
  <2>1. WidthRest(it) = W \o DotRest(it)
    <3>1. DotRest(it) \in Seq(Characters)
      BY <1>7, <1>8 DEF C
    <3> QED BY <3>1, ConcatEmptySeq DEF WidthRest
  <2>2. W \in Seq(Characters) /\ DotRest(it) \in Seq(Characters)
    BY <1>5, <1>7, <1>8 DEF C
  <2> HIDE DEF W
  <2>3. W \o DotRest(it) \in Seq(Characters)
    BY <2>2, ConcatProperties
  <2> QED BY <2>1, <2>3 DEF C
<1>10. AltRest(it) = A \o WidthRest(it) /\ AltRest(it) \in C
  <2>1. AltRest(it) = A \o WidthRest(it)
    <3>1. WidthRest(it) \in Seq(Characters)
      BY <1>9 DEF C
    <3> QED BY <3>1, ConcatEmptySeq DEF AltRest
  <2> QED BY <2>1, <1>5, <1>9, ConcatProperties DEF C
<1>11. FlagRest(it) = F \o AltRest(it) /\ FlagRest(it) \in C
  <2>1. FlagRest(it) = F \o AltRest(it)
    <3>1. AltRest(it) \in Seq(Characters)
      BY <1>10 DEF C
    <3> QED BY <3>1, ConcatEmptySeq DEF FlagRest
  <2> QED BY <2>1, <1>5, <1>10, ConcatProperties DEF C
<1>12. Spell(it) = <<"%">> \o F \o A \o W \o P \o L \o V
  BY DEF Spell, Conv
<1>13. Spell(it) = <<"%">> \o FlagRest(it)
  <2> DEFINE U == <<"%">>
             Q1 == U \o F
             Q2 == Q1 \o A
             Q3 == Q2 \o W
             Q4 == Q3 \o P
             Q5 == Q4 \o L
             X == Longs(it, it.long)
  <2>1. Spell(it) = Q5 \o V
    BY <1>12
  <2>2. U \in C
    BY <1>5
  <2> HIDE DEF U, F, A, W, P, L, V, X
  <2>3. X = L \o V /\ DotRest(it) = P \o X /\ WidthRest(it) = W \o DotRest(it)
        /\ AltRest(it) = A \o WidthRest(it) /\ FlagRest(it) = F \o AltRest(it)
    BY <1>4, <1>7, <1>9, <1>10, <1>11 DEF X
  <2>4. Three(U, F, AltRest(it), Characters) /\ Q1 \in Seq(Characters)
    <3>1. Three(U, F, AltRest(it), Characters)
      BY <2>2, <1>5, <1>10 DEF Three, C
    <3> QED BY <3>1, Assoc
  <2> HIDE DEF Q1
  <2>5. Three(Q1, A, WidthRest(it), Characters) /\ Q2 \in Seq(Characters)
    <3>1. Three(Q1, A, WidthRest(it), Characters)
      BY <2>4, <1>5, <1>9 DEF Three, C
    <3> QED BY <3>1, Assoc
  <2> HIDE DEF Q2
  <2>6. Three(Q2, W, DotRest(it), Characters) /\ Q3 \in Seq(Characters)
    <3>1. Three(Q2, W, DotRest(it), Characters)
      BY <2>5, <1>5, <1>7, <1>8 DEF Three, C
    <3> QED BY <3>1, Assoc
  <2> HIDE DEF Q3
  <2>7. Three(Q3, P, X, Characters) /\ Q4 \in Seq(Characters)
    <3>1. Three(Q3, P, X, Characters)
      BY <2>6, <1>6, <1>4 DEF Three, C, X
    <3> QED BY <3>1, Assoc
  <2> HIDE DEF Q4
  <2>8. Three(Q4, L, V, Characters)
    BY <2>7, <1>4 DEF Three, C
  <2>9. Q5 \o V = Q4 \o X
    BY <2>3, <2>8, Assoc
  <2> HIDE DEF Q5
  <2>10. Q4 \o X = Q3 \o DotRest(it)
    <3>1. Q4 = Q3 \o P /\ DotRest(it) = P \o X
      BY <2>3 DEF Q4
    <3>2. Three(Q3, P, X, Characters)
      BY <2>7
    <3> QED BY <3>1, <3>2, Shift
  <2>11. Q3 \o DotRest(it) = Q2 \o WidthRest(it)
    <3>1. Q3 = Q2 \o W /\ WidthRest(it) = W \o DotRest(it)
      BY <2>3 DEF Q3
    <3>2. Three(Q2, W, DotRest(it), Characters)
      BY <2>6
    <3> QED BY <3>1, <3>2, Shift
  <2>12. Q2 \o WidthRest(it) = Q1 \o AltRest(it)
    <3>1. Q2 = Q1 \o A /\ AltRest(it) = A \o WidthRest(it)
      BY <2>3 DEF Q2
    <3>2. Three(Q1, A, WidthRest(it), Characters)
      BY <2>5
    <3> QED BY <3>1, <3>2, Shift
  <2>13. Q1 \o AltRest(it) = U \o FlagRest(it)
    <3>1. Q1 = U \o F /\ FlagRest(it) = F \o AltRest(it)
      BY <2>3 DEF Q1
    <3>2. Three(U, F, AltRest(it), Characters)
      BY <2>4
    <3> QED BY <3>1, <3>2, Shift
  <2> QED BY <2>1, <2>9, <2>10, <2>11, <2>12, <2>13 DEF U
<1> QED BY <1>1, <1>2, <1>7, <1>8, <1>9, <1>10, <1>11, <1>13 DEF C

LEMMA ArgsAre ==
  ASSUME NEW it \in Pieces, Sensible(it), NEW r \in Seq(Arg)
  PROVE  /\ it.conv # "text" => Args(it) \o r = WidthArgs(it, r)
         /\ it.conv = "text" => Args(it) \o r = r
         /\ Value(it) \o r \in Seq(Arg) /\ PrecArgs(it, r) \in Seq(Arg)
         /\ Args(it) \in Seq(Arg)
<1> DEFINE A == IF it.star /\ Given(it.width) THEN <<it.width>> ELSE <<>>
           B == IF it.star /\ Given(it.prec) THEN <<it.prec>> ELSE <<>>
           V == Value(it)
<1>1. it.width \in Arg /\ it.prec \in Arg /\ it.num \in Arg
  BY PieceFields DEF Arg
<1>2. <<>> \in Seq(Arg) /\ \A x \in Arg : <<x>> \in Seq(Arg)
  BY EmptySeq, One
<1>3. V \in Seq(Arg)
  <2>1. CASE it.conv = "c"
    <3>1. it.word \in Seq(Characters)
      BY <2>1, PieceFields DEF Sensible
    <3>2. Characters \subseteq Arg
      BY DEF Arg
    <3>3. it.word \in Seq(Arg)
      BY <3>1, <3>2, SeqMonotonic
    <3> QED BY <2>1, <3>3 DEF Value
  <2>2. CASE it.conv # "c"
    <3>1. it.word \in Arg
      BY PieceFields DEF Arg
    <3> QED BY <1>1, <1>2, <2>2, <3>1 DEF Value
  <2> QED BY <2>1, <2>2
<1>4. A \in Seq(Arg) /\ B \in Seq(Arg)
  BY <1>1, <1>2
<1>5. Args(it) = A \o B \o V
  BY DEF Args, Value
<1> HIDE DEF V
<1>6. PrecArgs(it, r) = B \o (V \o r)
  <2>1. V \o r \in Seq(Arg)
    BY <1>3, ConcatProperties
  <2> DEFINE x == V \o r
  <2> HIDE DEF x
  <2>2. <<>> \o x = x
    BY <2>1, ConcatEmptySeq DEF x
  <2> QED BY <2>2 DEF PrecArgs, x, V
<1> HIDE DEF B
<1>7. V \o r \in Seq(Arg) /\ B \o (V \o r) \in Seq(Arg) /\ B \o V \in Seq(Arg) /\ A \o B \in Seq(Arg)
  <2>1. \A x, y \in Seq(Arg) : x \o y \in Seq(Arg)
    BY ConcatProperties
  <2> HIDE DEF A
  <2> QED BY <1>3, <1>4, <2>1
<1>8. WidthArgs(it, r) = A \o PrecArgs(it, r)
  <2>1. PrecArgs(it, r) \in Seq(Arg)
    BY <1>6, <1>7
  <2> DEFINE x == PrecArgs(it, r)
  <2> HIDE DEF x
  <2>2. <<>> \o x = x
    BY <2>1, ConcatEmptySeq DEF x
  <2> QED BY <2>2 DEF WidthArgs, x
<1> HIDE DEF A
<1>9. Args(it) \o r = A \o (B \o (V \o r)) /\ Args(it) \in Seq(Arg)
  <2> DEFINE q == A \o B
             x == V \o r
  <2>1. Three(q, V, r, Arg) /\ Three(A, B, x, Arg)
    BY <1>3, <1>4, <1>7 DEF Three
  <2>2. Args(it) = q \o V
    BY <1>5
  <2>3. q = A \o B /\ x = V \o r
    OBVIOUS
  <2> HIDE DEF q, x
  <2>4. (q \o V) \o r = q \o x /\ q \o V \in Seq(Arg)
    BY <2>1, <2>3, Assoc
  <2>5. q \o x = A \o (B \o x)
    <3>1. Three(A, B, x, Arg) /\ q = A \o B
      BY <2>1, <2>3
    <3> QED BY <3>1, Assoc
  <2> QED BY <2>2, <2>3, <2>4, <2>5
<1>10. it.conv = "text" => Args(it) \o r = r
  <2> SUFFICES ASSUME it.conv = "text" PROVE Args(it) \o r = r
    OBVIOUS
  <2>1. A = <<>> /\ B = <<>> /\ V = <<>>
    BY DEF A, B, V, Value, Sensible
  <2>2. <<>> \o r = r
    BY ConcatEmptySeq
  <2> QED BY <1>9, <2>1, <2>2
<1> QED BY <1>6, <1>7, <1>8, <1>9, <1>10 DEF V

(* What follows a number in a conversion is no digit.                      *)
LEMMA NoDigit ==
  ASSUME NEW it \in Pieces, Sensible(it), it.conv # "text", NEW s \in {DotRest(it), Longs(it, it.long)}
  PROVE  \/ s = <<>> /\ it.conv = "end"
         \/ s # <<>> /\ s[1] \notin Decimal
<1>1. CASE s = Longs(it, it.long)
  <2>1. CASE it.long = 0
    <3>1. Copies("l", 0) = <<>>
      BY DEF Copies
    <3>2. <<>> \o Conv(it) = Conv(it)
      BY RestsAre, ConcatEmptySeq
    <3>3. s = Conv(it)
      BY <1>1, <2>1, <3>1, <3>2 DEF Longs
    <3>4. CASE it.conv # "end"
      <4>1. it.conv \notin Decimal
        BY DEF Sensible, Known, Conversions, Decimal
      <4> QED BY <3>3, <3>4, <4>1 DEF Conv
    <3> QED BY <3>3, <3>4 DEF Conv
  <2>2. CASE it.long # 0
    <3>1. it.long \in Nat /\ it.long > 0 /\ it.long \in Int
      BY <2>2, PieceFields
    <3>2. "l" \in Characters
      BY Symbols
    <3> DEFINE c == Copies("l", it.long)
    <3>3. c[1] = "l"
      BY <3>1 DEF Copies
    <3>4. c \in Seq(Characters) /\ Len(c) = it.long
      BY <3>1, <3>2, CopiesIs
    <3> HIDE DEF c
    <3>5. Conv(it) \in Seq(Characters)
      BY RestsAre
    <3>6. Len(c \o Conv(it)) >= 1 /\ (c \o Conv(it))[1] = "l"
      BY <3>1, <3>3, <3>4, <3>5, ConcatProperties
    <3>7. s = c \o Conv(it)
      BY <1>1 DEF Longs, c
    <3>8. s # <<>> /\ s[1] = "l"
      <4>1. Len(<<>>) = 0
        OBVIOUS
      <4> QED BY <3>6, <3>7, <4>1
    <3> QED BY <3>8 DEF Decimal
  <2> QED BY <2>1, <2>2
<1>2. CASE s = DotRest(it) /\ Given(it.prec)
  <2>1. s = <<".">> \o PrecRest(it) /\ PrecRest(it) \in Seq(Characters) /\ "." \in Characters
    BY <1>2, RestsAre, Symbols DEF DotRest
  <2>2. s # <<>> /\ s[1] = "."
    BY <2>1, ConsIs
  <2> QED BY <2>2 DEF Decimal
<1>3. CASE s = DotRest(it) /\ ~ Given(it.prec)
  BY <1>1, <1>3 DEF DotRest
<1> QED BY <1>1, <1>2, <1>3

----------------------------------------------------------------------------
(* The stages of a conversion.  Its piece is it; what was put before is t, *)
(* r are the arguments of the pieces that follow, and e is where it ends.  *)
FirstWidth(it) == IF Given(it.width) THEN it.width ELSE -1
DotWidth(it) == IF FirstWidth(it) < 0 THEN 0 ELSE FirstWidth(it)
LastWidth(it) == IF Given(it.prec) THEN DotWidth(it) ELSE FirstWidth(it)
LastPrecision(it) == IF Given(it.prec) THEN it.prec ELSE -1

Reads(rest, args, padc, width, most, lflag, altflag, e, t) ==
  /\ mode = "spec" /\ pending = <<>> /\ text = t
  /\ Ahead(fmt, pos, e, rest) /\ ap = args
  /\ spec = [padc |-> padc, width |-> width, precision |-> most,
             lflag |-> lflag, altflag |-> altflag]

AtFlag(it, e, t, r) == Reads(FlagRest(it), WidthArgs(it, r), Blank, -1, -1, 0, FALSE, e, t)
AtAlt(it, e, t, r) == Reads(AltRest(it), WidthArgs(it, r), it.flag, -1, -1, 0, FALSE, e, t)
AtWidth(it, e, t, r) == Reads(WidthRest(it), WidthArgs(it, r), it.flag, -1, -1, 0, it.alt, e, t)
AtDot(it, e, t, r) == Reads(DotRest(it), PrecArgs(it, r), it.flag, FirstWidth(it), -1, 0, it.alt, e, t)
AtPrec(it, e, t, r) == Reads(PrecRest(it), PrecArgs(it, r), it.flag, DotWidth(it), -1, 0, it.alt, e, t)
AtLong(it, n, e, t, r) ==
  Reads(Longs(it, it.long - n), Value(it) \o r, it.flag, LastWidth(it), LastPrecision(it), n, it.alt, e, t)

Reading(it, e, t, r) ==
  \/ AtFlag(it, e, t, r) /\ it.flag # Blank
  \/ AtAlt(it, e, t, r) /\ it.alt
  \/ AtWidth(it, e, t, r) /\ Given(it.width)
  \/ AtDot(it, e, t, r) /\ Given(it.prec)
  \/ AtPrec(it, e, t, r) /\ Given(it.prec)
  \/ \E n \in 0 .. it.long : AtLong(it, n, e, t, r)

(* A part that is not there is passed over.                                *)
LEMMA Skips ==
  ASSUME NEW it \in Pieces, NEW e, NEW t, NEW r
  PROVE  /\ AtDot(it, e, t, r) => Reading(it, e, t, r)
         /\ AtWidth(it, e, t, r) => Reading(it, e, t, r)
         /\ AtAlt(it, e, t, r) => Reading(it, e, t, r)
         /\ AtFlag(it, e, t, r) => Reading(it, e, t, r)
<1>0. it.long \in Nat /\ it.long - 0 = it.long /\ 0 \in 0 .. it.long /\ it.alt \in BOOLEAN
  <2>1. it.long \in Nat
    BY PieceFields
  <2>2. it.alt \in BOOLEAN
    BY PieceFields
  <2> QED BY <2>1, <2>2
<1>1. AtDot(it, e, t, r) => Reading(it, e, t, r)
  <2>1. CASE ~ Given(it.prec)
    <3>1. /\ DotRest(it) = Longs(it, it.long - 0) /\ PrecArgs(it, r) = Value(it) \o r
          /\ LastWidth(it) = FirstWidth(it) /\ LastPrecision(it) = -1
      BY <1>0, <2>1 DEF DotRest, PrecArgs, LastWidth, LastPrecision
    <3>2. AtDot(it, e, t, r) => AtLong(it, 0, e, t, r)
      BY <3>1 DEF AtDot, AtLong
    <3> QED BY <1>0, <3>2 DEF Reading
  <2> QED BY <2>1 DEF Reading
<1>2. AtWidth(it, e, t, r) => Reading(it, e, t, r)
  <2>1. CASE ~ Given(it.width)
    <3>1. /\ WidthRest(it) = DotRest(it) /\ WidthArgs(it, r) = PrecArgs(it, r)
          /\ FirstWidth(it) = -1
      BY <2>1 DEF WidthRest, WidthArgs, FirstWidth
    <3>2. AtWidth(it, e, t, r) => AtDot(it, e, t, r)
      BY <3>1 DEF AtDot, AtWidth
    <3> QED BY <1>1, <3>2
  <2> QED BY <2>1 DEF Reading
<1>3. AtAlt(it, e, t, r) => Reading(it, e, t, r)
  <2>1. CASE ~ it.alt
    <3>1. AltRest(it) = WidthRest(it) /\ it.alt = FALSE
      BY <1>0, <2>1 DEF AltRest
    <3>2. AtAlt(it, e, t, r) => AtWidth(it, e, t, r)
      BY <3>1 DEF AtAlt, AtWidth
    <3> QED BY <1>2, <3>2
  <2> QED BY <2>1 DEF Reading
<1>4. AtFlag(it, e, t, r) => Reading(it, e, t, r)
  <2>1. CASE it.flag = Blank
    <3>1. FlagRest(it) = AltRest(it)
      BY <2>1 DEF FlagRest
    <3>2. AtFlag(it, e, t, r) => AtAlt(it, e, t, r)
      BY <2>1, <3>1 DEF AtFlag, AtAlt
    <3> QED BY <1>3, <3>2
  <2> QED BY <2>1 DEF Reading
<1> QED BY <1>1, <1>2, <1>3, <1>4

(* Which action takes the character that comes.                            *)
LEMMA Dispatch ==
  ASSUME vprintfmt, mode = "spec"
  PROVE  /\ ch \in {"-", "0"} => flag
         /\ ch = "#" => alternate
         /\ ch = "." => dot
         /\ ch = "l" => long
         /\ ch \in Decimal \ {"0"} => digits
         /\ ch = "*" => star
         /\ ch = "c" => character
         /\ ch = "e" => error
         /\ ch = "s" => string
         /\ ch = "d" => signed
         /\ ch \in {"u", "o", "x"} => unsigned
         /\ ch = "p" => pointer
         /\ ch = "%" => escaped
         /\ ch \notin Known => unrecognized
<1> DEFINE c == ch
<1>1. \/ flag /\ c \in {"-", "0"}
      \/ alternate /\ c = "#"
      \/ dot /\ c = "."
      \/ long /\ c = "l"
      \/ digits /\ c \in Decimal \ {"0"}
      \/ star /\ c = "*"
      \/ character /\ c = "c"
      \/ error /\ c = "e"
      \/ string /\ c = "s"
      \/ signed /\ c = "d"
      \/ unsigned /\ c \in {"u", "o", "x"}
      \/ pointer /\ c = "p"
      \/ escaped /\ c = "%"
      \/ unrecognized /\ c \notin Known
  <2>1. ~ plain /\ ~ percent /\ ~ finish
    BY DEF plain, percent, finish, InText
  <2>2. unsigned => c \in {"u", "o", "x"}
    BY DEF unsigned
  <2> HIDE DEF c
  <2>3. /\ flag => c \in {"-", "0"}
        /\ alternate => c = "#"
        /\ dot => c = "."
        /\ long => c = "l"
    BY DEF flag, alternate, dot, long, c
  <2>4. /\ digits => c \in Decimal \ {"0"}
        /\ star => c = "*"
        /\ character => c = "c"
    BY DEF digits, star, character, c
  <2>5. /\ error => c = "e"
        /\ string => c = "s"
        /\ signed => c = "d"
        /\ pointer => c = "p"
    BY DEF error, string, signed, pointer, c
  <2>6. (escaped => c = "%") /\ (unrecognized => c \notin Known)
    BY DEF escaped, unrecognized, c
  <2> QED BY <2>1, <2>2, <2>3, <2>4, <2>5, <2>6 DEF vprintfmt
<1>2. Known = {"c", "e", "s", "d", "u", "o", "x", "p", "%", "0", "1", "2", "3", "4", "5", "6",
               "7", "8", "9", "-", "#", ".", "l", "*"}
  BY DEF Known, Conversions, Decimal
<1>3. Decimal \ {"0"} = {"1", "2", "3", "4", "5", "6", "7", "8", "9"}
  BY DEF Decimal
<1> HIDE DEF c
<1>4. /\ c \in {"-", "0"} => flag
      /\ c = "#" => alternate
      /\ c = "." => dot
      /\ c = "l" => long
      /\ c \in Decimal \ {"0"} => digits
      /\ c = "*" => star
  BY <1>1, <1>2, <1>3
<1>5. /\ c = "c" => character
      /\ c = "e" => error
      /\ c = "s" => string
      /\ c = "d" => signed
      /\ c \in {"u", "o", "x"} => unsigned
      /\ c = "p" => pointer
      /\ c = "%" => escaped
      /\ c \notin Known => unrecognized
  BY <1>1, <1>2, <1>3
<1> QED BY <1>4, <1>5 DEF c

LEMMA ReadOne ==
  ASSUME fmt \in Seq(Characters), NEW c \in Characters, NEW s \in Seq(Characters), NEW e,
         Ahead(fmt, pos, e, <<c>> \o s)
  PROVE  ch = c /\ Ahead(fmt, pos + 1, e, s)
BY AheadOne DEF ch

LEMMA ReadNone ==
  ASSUME fmt \in Seq(Characters), Ahead(fmt, pos, Len(fmt), <<>>)
  PROVE  ch = "NUL"
BY DEF Ahead, ch

LEMMA FlagTaken ==
  ASSUME fmt \in Seq(Characters), vprintfmt, NEW it \in Pieces, Sensible(it), it.conv # "text",
         NEW e, NEW t, NEW r, AtFlag(it, e, t, r), it.flag # Blank
  PROVE  Reading(it, e, t, r)'
<1>1. it.flag \in {"-", "0"} /\ it.flag \in Characters
  BY PieceFields, Symbols
<1>2. AltRest(it) \in Seq(Characters) /\ FlagRest(it) = <<it.flag>> \o AltRest(it)
  BY RestsAre DEF FlagRest
<1>3. ch = it.flag /\ Ahead(fmt, pos + 1, e, AltRest(it))
  BY <1>1, <1>2, ReadOne DEF AtFlag, Reads
<1>4. flag
  BY <1>1, <1>3, Dispatch DEF AtFlag, Reads
<1>5. AtAlt(it, e, t, r)'
  BY <1>3, <1>4 DEF AtFlag, AtAlt, Reads, flag, Reswitch
<1> QED BY <1>5, Skips, PTL

LEMMA AltTaken ==
  ASSUME fmt \in Seq(Characters), vprintfmt, NEW it \in Pieces, Sensible(it), it.conv # "text",
         NEW e, NEW t, NEW r, AtAlt(it, e, t, r), it.alt
  PROVE  AtWidth(it, e, t, r)'
<1>1. "#" \in Characters /\ it.alt = TRUE
  BY PieceFields, Symbols
<1>2. WidthRest(it) \in Seq(Characters) /\ AltRest(it) = <<"#">> \o WidthRest(it)
  BY RestsAre DEF AltRest
<1>3. ch = "#" /\ Ahead(fmt, pos + 1, e, WidthRest(it))
  BY <1>1, <1>2, ReadOne DEF AtAlt, Reads
<1>4. alternate
  BY <1>1, <1>3, Dispatch DEF AtAlt, Reads
<1> QED BY <1>1, <1>3, <1>4 DEF AtWidth, AtAlt, Reads, alternate, Reswitch

LEMMA DotTaken ==
  ASSUME fmt \in Seq(Characters), vprintfmt, NEW it \in Pieces, Sensible(it), it.conv # "text",
         NEW e, NEW t, NEW r, AtDot(it, e, t, r), Given(it.prec)
  PROVE  AtPrec(it, e, t, r)'
<1>1. "." \in Characters
  BY Symbols
<1>2. PrecRest(it) \in Seq(Characters) /\ DotRest(it) = <<".">> \o PrecRest(it)
  BY RestsAre DEF DotRest
<1>3. ch = "." /\ Ahead(fmt, pos + 1, e, PrecRest(it))
  BY <1>1, <1>2, ReadOne DEF AtDot, Reads
<1>4. dot
  BY <1>1, <1>3, Dispatch DEF AtDot, Reads
<1> QED BY <1>3, <1>4 DEF AtDot, AtPrec, Reads, dot, Reswitch, DotWidth

LEMMA LongTaken ==
  ASSUME fmt \in Seq(Characters), vprintfmt, NEW it \in Pieces, Sensible(it), it.conv # "text",
         NEW e, NEW t, NEW r, NEW n \in 0 .. it.long, AtLong(it, n, e, t, r), n < it.long
  PROVE  AtLong(it, n + 1, e, t, r)'
<1>1. "l" \in Characters /\ it.long \in Nat
  BY PieceFields, Symbols
<1>2. PICK k \in Nat : k = it.long - n /\ k > 0 /\ k - 1 = it.long - (n + 1)
  BY <1>1
<1>3. Longs(it, k) = <<"l">> \o Longs(it, k - 1) /\ Longs(it, k - 1) \in Seq(Characters)
  <2> DEFINE a == Copies("l", k)
             b == Copies("l", k - 1)
  <2>1. /\ a \in Seq(Characters) /\ Len(a) = k
        /\ b \in Seq(Characters) /\ Len(b) = k - 1
    <3> DEFINE j == k - 1
    <3>1. k \in Int /\ j \in Int /\ "l" \in Characters
      BY <1>1
    <3> HIDE DEF j
    <3>2. \A i \in Int : /\ Copies("l", i) \in Seq(Characters)
                         /\ Len(Copies("l", i)) = IF i > 0 THEN i ELSE 0
      BY <3>1, CopiesIs
    <3>3. a \in Seq(Characters) /\ Len(a) = IF k > 0 THEN k ELSE 0
      BY <3>1, <3>2
    <3>4. b \in Seq(Characters) /\ Len(b) = IF j > 0 THEN j ELSE 0
      BY <3>1, <3>2 DEF j
    <3> HIDE DEF a, b
    <3> QED BY <1>2, <3>3, <3>4 DEF j
  <2>2. (\A i \in 1 .. k : a[i] = "l") /\ \A i \in 1 .. k - 1 : b[i] = "l"
    BY <1>2 DEF Copies
  <2>3. Conv(it) \in Seq(Characters) /\ <<"l">> \in Seq(Characters)
    BY <1>1, RestsAre, One
  <2> HIDE DEF a, b
  <2>4. a = <<"l">> \o b
    <3>1. /\ <<"l">> \o b \in Seq(Characters) /\ Len(<<"l">> \o b) = k
          /\ (<<"l">> \o b)[1] = "l" /\ \A i \in 1 .. k - 1 : (<<"l">> \o b)[i + 1] = b[i]
      BY <1>1, <1>2, <2>1, ConsIs
    <3>2. ASSUME NEW i \in 1 .. k PROVE a[i] = (<<"l">> \o b)[i]
      <4>1. CASE i = 1
        BY <2>2, <3>1, <4>1
      <4>2. CASE i # 1
        <5>1. i - 1 \in 1 .. k - 1 /\ (i - 1) + 1 = i
          BY <4>2
        <5>2. (<<"l">> \o b)[(i - 1) + 1] = b[i - 1]
          BY <3>1, <5>1
        <5> QED BY <2>2, <5>1, <5>2
      <4> QED BY <4>1, <4>2
    <3> QED BY <2>1, <3>1, <3>2, SeqEqual
  <2> DEFINE u == <<"l">>
             v == Conv(it)
             w == b \o v
  <2>5. u \in Seq(Characters) /\ v \in Seq(Characters) /\ a = u \o b
    BY <2>3, <2>4
  <2> HIDE DEF u, v, w
  <2>6. Three(u, b, v, Characters) /\ w = b \o v
    BY <2>1, <2>5 DEF Three, w
  <2>7. a \o v = u \o w
    BY <2>5, <2>6, Shift
  <2>8. w \in Seq(Characters)
    BY <2>1, <2>5, ConcatProperties DEF w
  <2> QED BY <2>7, <2>8 DEF Longs, a, b, u, v, w
<1>4. ch = "l" /\ Ahead(fmt, pos + 1, e, Longs(it, k - 1))
  BY <1>1, <1>2, <1>3, ReadOne DEF AtLong, Reads
<1>5. long
  BY <1>4, Dispatch DEF AtLong, Reads
<1> QED BY <1>2, <1>4, <1>5 DEF AtLong, Reads, long, Reswitch

----------------------------------------------------------------------------
(* The numbers of a conversion.                                            *)
Digit(s, i, num, n) ==
  n = Len(Positional(num, 10)) /\ \A k \in 1 .. n : s[(i - 1) + k] = Positional(num, 10)[k]

LEMMA NumberRead ==
  ASSUME NEW num \in Nat, NEW s, NEW i \in Nat, NEW n, Digit(s, i, num, n)
  PROVE  Number(s, i, (i - 1) + n) = num
<1>1. n = Len(Positional(num, 10)) /\ \A k \in 1 .. n : s[(i - 1) + k] = Positional(num, 10)[k]
  BY DEF Digit
<1> QED BY <1>1, NumberIs

LEMMA StarTaken ==
  ASSUME fmt \in Seq(Characters), vprintfmt, mode = "spec", pending = <<>>,
         NEW s \in Seq(Characters), NEW n \in Arg, NEW r \in Seq(Arg), NEW e,
         Ahead(fmt, pos, e, <<"*">> \o s), ap = <<n>> \o r
  PROVE  /\ Ahead(fmt, pos, e, s)' /\ ap' = r /\ spec' = Precision(n)
         /\ UNCHANGED <<fmt, mode, pending, text>>
<1>1. "*" \in Characters
  BY Symbols
<1>2. ch = "*" /\ Ahead(fmt, pos + 1, e, s)
  BY <1>1, ReadOne
<1>3. star
  BY <1>2, Dispatch
<1>4. Head(ap) = n /\ Tail(ap) = r
  BY ConsIs
<1> QED BY <1>2, <1>3, <1>4 DEF star, Reswitch

LEMMA DigitsTaken ==
  ASSUME fmt \in Seq(Characters), vprintfmt, mode = "spec", pending = <<>>,
         NEW n \in Nat, n > 0, NEW s \in Seq(Characters), NEW e,
         Ahead(fmt, pos, e, Positional(n, 10) \o s),
         s = <<>> => e = Len(fmt), s # <<>> => s[1] \notin Decimal
  PROVE  /\ Ahead(fmt, pos, e, s)' /\ spec' = Precision(n)
         /\ UNCHANGED <<ap, fmt, mode, pending, text>>
<1> DEFINE u == Positional(n, 10)
           run == {k \in pos .. Len(fmt) : \A i \in pos .. k : fmt[i] \in Decimal}
           last == (pos - 1) + Len(u)
<1>1. /\ u \in Seq(Characters) /\ Len(u) >= 1 /\ Len(u) \in Nat
      /\ \A i \in 1 .. Len(u) : u[i] \in Decimal
      /\ u[1] # "0"
  <2>1. u \in Seq(Characters) /\ Len(u) >= 1
    BY Ten
  <2>2. (\A i \in 1 .. Len(u) : u[i] \in Decimal) /\ u[1] # "0"
    BY DecimalIs
  <2> HIDE DEF u
  <2> QED BY <2>1, <2>2, LenProperties
<1>2. /\ \A k \in 1 .. Len(u) : fmt[(pos - 1) + k] = u[k]
      /\ Ahead(fmt, pos + Len(u), e, s) /\ last <= Len(fmt) /\ e = last + Len(s)
  BY <1>1, AheadTakes
<1>3. pos \in Nat \ {0}
  BY DEF Ahead
<1> HIDE DEF u
<1>4. last \in Nat /\ last >= pos /\ Len(fmt) \in Nat
  BY <1>1, <1>3
<1>5. \A i \in pos .. last : fmt[i] \in Decimal
  <2> TAKE i \in pos .. last
  <2>1. i - (pos - 1) \in 1 .. Len(u) /\ (pos - 1) + (i - (pos - 1)) = i
    BY <1>1, <1>3
  <2> QED BY <1>1, <1>2, <2>1
<1>6. last = Len(fmt) \/ fmt[last + 1] \notin Decimal
  <2>1. CASE s = <<>>
    BY <1>2, <1>4, <2>1
  <2>2. CASE s # <<>>
    <3>1. Len(s) >= 1 /\ 1 \in 1 .. Len(s)
      BY <2>2, EmptySeq
    <3>2. fmt[((pos + Len(u)) - 1) + 1] = s[1]
      BY <1>2, <3>1 DEF Ahead
    <3>3. ((pos + Len(u)) - 1) + 1 = last + 1
      BY <1>1, <1>3
    <3> QED BY <2>2, <3>2, <3>3
  <2> QED BY <2>1, <2>2
<1> HIDE DEF last
<1>7. run = pos .. last
  <2>1. ASSUME NEW k \in pos .. Len(fmt), \A i \in pos .. k : fmt[i] \in Decimal
        PROVE  k <= last
    <3> SUFFICES ASSUME k > last PROVE FALSE
      BY <1>3, <1>4
    <3>1. last + 1 \in pos .. k /\ last # Len(fmt)
      BY <1>3, <1>4
    <3> QED BY <1>6, <2>1, <3>1
  <2>2. ASSUME NEW k \in pos .. last
        PROVE  k \in pos .. Len(fmt) /\ \A i \in pos .. k : fmt[i] \in Decimal
    <3>1. k \in pos .. Len(fmt)
      BY <1>2, <1>3, <1>4
    <3>2. \A i \in pos .. k : i \in pos .. last
      BY <1>3, <1>4
    <3> QED BY <1>5, <3>1, <3>2
  <2> QED BY <2>1, <2>2, <1>3, <1>4
<1>8. Max(run) = last /\ Cardinality(run) = Len(u)
  <2>1. Max(pos .. last) = last
    <3>1. last \in pos .. last /\ \A y \in pos .. last : last >= y
      BY <1>3, <1>4
    <3>2. \A x \in pos .. last : (\A y \in pos .. last : x >= y) => x = last
      BY <1>3, <1>4, <3>1
    <3> QED BY <3>1, <3>2 DEF Max
  <2>2. Cardinality(pos .. last) = (last - pos) + 1
    BY <1>3, <1>4, FS_Interval
  <2>3. (last - pos) + 1 = Len(u)
    BY <1>1, <1>3 DEF last
  <2> HIDE DEF run
  <2> QED BY <1>7, <2>1, <2>2, <2>3
<1>9. Number(fmt, pos, last) = n
  <2> DEFINE m == Len(u)
             i == pos
             s1 == fmt
  <2>1. last = (i - 1) + m /\ i \in Nat /\ m = Len(Positional(n, 10))
    BY <1>3 DEF last, u
  <2>2. \A k \in 1 .. m : s1[(i - 1) + k] = Positional(n, 10)[k]
    BY <1>2 DEF u
  <2> HIDE DEF m, i, s1
  <2>3. Number(s1, i, (i - 1) + m) = n
    <3>1. Digit(s1, i, n, m)
      BY <2>1, <2>2 DEF Digit
    <3> QED BY <2>1, <3>1, NumberRead
  <2> QED BY <2>1, <2>3 DEF i, s1
<1>10. ch \in Decimal \ {"0"}
  <2>1. fmt[pos] = u[1]
    <3>1. 1 \in 1 .. Len(u) /\ (pos - 1) + 1 = pos
      BY <1>1, <1>3
    <3> QED BY <1>2, <3>1
  <2>2. pos <= Len(fmt)
    BY <1>2, <1>3, <1>4
  <2> QED BY <1>1, <2>1, <2>2 DEF ch
<1>11. digits
  BY <1>10, Dispatch
<1>12. spec' = Precision(n) /\ pos' = pos + Len(u) /\ ap' = ap
       /\ UNCHANGED <<fmt, mode, pending, text>>
  <2>1. Reswitch(Precision(Number(fmt, pos, Max(run))), Cardinality(run)) /\ ap' = ap
    BY <1>11 DEF digits
  <2> HIDE DEF run
  <2>2. Reswitch(Precision(n), Len(u))
    BY <1>8, <1>9, <2>1
  <2> QED BY <2>1, <2>2 DEF Reswitch
<1> QED BY <1>2, <1>12

LEMMA NumberTaken ==
  ASSUME fmt \in Seq(Characters), vprintfmt, mode = "spec", pending = <<>>,
         NEW it \in Pieces, Sensible(it), it.conv # "text", NEW n \in {it.width, it.prec}, Given(n),
         NEW s \in {DotRest(it), Longs(it, it.long)}, NEW a \in Seq(Arg), NEW e,
         Ahead(fmt, pos, e, SpellNumber(it, n) \o s),
         ap = IF it.star THEN <<n>> \o a ELSE a, it.conv = "end" => e = Len(fmt)
  PROVE  /\ Ahead(fmt, pos, e, s)' /\ ap' = a /\ spec' = Precision(n)
         /\ UNCHANGED <<fmt, mode, pending, text>>
<1>1. s \in Seq(Characters) /\ (s = <<>> => e = Len(fmt)) /\ (s # <<>> => s[1] \notin Decimal)
  <2>1. DotRest(it) \in Seq(Characters)
    BY RestsAre
  <2>2. Longs(it, it.long) \in Seq(Characters)
    <3>1. it.long \in Int
      BY PieceFields
    <3> QED BY <3>1, RestsAre
  <2> QED BY <2>1, <2>2, NoDigit
<1>2. n \in Int /\ (~ it.star => n \in Nat /\ n > 0)
  BY SpelledNumber
<1>3. CASE it.star
  <2>1. n \in Arg
    BY <1>2 DEF Arg
  <2>2. Ahead(fmt, pos, e, <<"*">> \o s) /\ ap = <<n>> \o a
    BY <1>3 DEF SpellNumber
  <2> QED BY <1>1, <2>1, <2>2, StarTaken
<1>4. CASE ~ it.star
  <2>1. Ahead(fmt, pos, e, Positional(n, 10) \o s) /\ ap = a
    BY <1>4 DEF SpellNumber
  <2>2. n \in Nat /\ n > 0
    BY <1>2, <1>4
  <2>3. Ahead(fmt, pos, e, s)' /\ spec' = Precision(n) /\ UNCHANGED <<ap, fmt, mode, pending, text>>
    BY <1>1, <2>1, <2>2, DigitsTaken
  <2> QED BY <2>1, <2>3
<1> QED BY <1>3, <1>4

LEMMA WidthTaken ==
  ASSUME fmt \in Seq(Characters), vprintfmt, NEW it \in Pieces, Sensible(it), it.conv # "text",
         NEW e, NEW t, NEW r \in Seq(Arg), AtWidth(it, e, t, r), Given(it.width),
         it.conv = "end" => e = Len(fmt)
  PROVE  AtDot(it, e, t, r)'
<1> DEFINE n == it.width
           s == DotRest(it)
           a == PrecArgs(it, r)
<1>1. n \in {it.width, it.prec} /\ Given(n) /\ s \in {DotRest(it), Longs(it, it.long)} /\ a \in Seq(Arg)
  BY ArgsAre
<1>2. /\ Ahead(fmt, pos, e, SpellNumber(it, n) \o s)
      /\ ap = (IF it.star THEN <<n>> \o a ELSE a) /\ mode = "spec" /\ pending = <<>> /\ text = t
  BY DEF AtWidth, Reads, WidthRest, WidthArgs
<1> HIDE DEF n, s, a
<1>3. /\ Ahead(fmt, pos, e, s)' /\ ap' = a /\ spec' = Precision(n)
      /\ UNCHANGED <<fmt, mode, pending, text>>
  BY <1>1, <1>2, NumberTaken
<1>4. spec = [padc |-> it.flag, width |-> -1, precision |-> -1, lflag |-> 0, altflag |-> it.alt]
  BY DEF AtWidth, Reads
<1>5. spec' = [padc |-> it.flag, width |-> n, precision |-> -1, lflag |-> 0, altflag |-> it.alt]
  <2>1. Precision(n) = [[spec EXCEPT !.width = n] EXCEPT !.precision = -1]
    <3>1. spec.width < 0
      BY <1>4
    <3> QED BY <3>1, Zenon DEF Precision
  <2> QED BY <1>3, <1>4, <2>1
<1>6. FirstWidth(it) = n
  BY DEF FirstWidth, n
<1> QED BY <1>2, <1>3, <1>5, <1>6 DEF AtDot, Reads, s, a

LEMMA PrecTaken ==
  ASSUME fmt \in Seq(Characters), vprintfmt, NEW it \in Pieces, Sensible(it), it.conv # "text",
         NEW e, NEW t, NEW r \in Seq(Arg), AtPrec(it, e, t, r), Given(it.prec),
         it.conv = "end" => e = Len(fmt)
  PROVE  AtLong(it, 0, e, t, r)'
<1> DEFINE n == it.prec
           s == Longs(it, it.long)
           a == Value(it) \o r
           w == DotWidth(it)
<1>1. n \in {it.width, it.prec} /\ Given(n) /\ s \in {DotRest(it), Longs(it, it.long)} /\ a \in Seq(Arg)
  BY ArgsAre
<1>2. /\ Ahead(fmt, pos, e, SpellNumber(it, n) \o s)
      /\ ap = (IF it.star THEN <<n>> \o a ELSE a) /\ mode = "spec" /\ pending = <<>> /\ text = t
  BY DEF AtPrec, Reads, PrecRest, PrecArgs
<1>3. ~ (w < 0)
  <2>1. it.width \in Int \cup {NULL}
    BY PieceFields
  <2> QED BY <2>1 DEF DotWidth, FirstWidth, Given
<1> HIDE DEF n, s, a, w
<1>4. /\ Ahead(fmt, pos, e, s)' /\ ap' = a /\ spec' = Precision(n)
      /\ UNCHANGED <<fmt, mode, pending, text>>
  BY <1>1, <1>2, NumberTaken
<1>5. spec = [padc |-> it.flag, width |-> w, precision |-> -1, lflag |-> 0, altflag |-> it.alt]
  BY DEF AtPrec, Reads, w
<1>6. spec' = [padc |-> it.flag, width |-> w, precision |-> n, lflag |-> 0, altflag |-> it.alt]
  BY <1>3, <1>4, <1>5 DEF Precision
<1>7. LastWidth(it) = w /\ LastPrecision(it) = n /\ it.long - 0 = it.long
  <2>1. it.long \in Nat
    BY PieceFields
  <2> QED BY <2>1 DEF LastWidth, LastPrecision, n, w
<1> QED BY <1>2, <1>4, <1>6, <1>7 DEF AtLong, Reads, s, a

----------------------------------------------------------------------------
(* What a conversion prints is the text of its piece.                      *)
Pad(it, chars) == IF Given(it.width) THEN it.width - Len(chars) ELSE 0

LEMMA FieldIs ==
  ASSUME NEW it \in Pieces, NEW chars \in Seq(Characters)
  PROVE  /\ LastWidth(it) \in Int /\ Pad(it, chars) \in Int
         /\ \A c : Copies(c, LastWidth(it) - Len(chars)) = Copies(c, Pad(it, chars))
         /\ Pad(it, chars) > 0 => LastWidth(it) > 0
         /\ Field(it, chars) = IF it.flag = "-" THEN chars \o Copies(Blank, Pad(it, chars))
                              ELSE Copies(it.flag, Pad(it, chars)) \o chars
         /\ Field(it, chars) \in Seq(Characters)
<1>1. it.width \in Int \cup {NULL} /\ Len(chars) \in Nat
  <2>1. it.width \in Int \cup {NULL}
    BY PieceFields
  <2> QED BY <2>1
<1> DEFINE w == LastWidth(it)
           d == Pad(it, chars)
           l == Len(chars)
<1>2. /\ w \in Int /\ d \in Int /\ (w - l > 0 => w - l = d)
      /\ (d > 0 => w > 0 /\ w - l = d)
  BY <1>1 DEF LastWidth, DotWidth, FirstWidth, Pad, Given
<1>3. Field(it, chars) = IF it.flag = "-" THEN chars \o Copies(Blank, d) ELSE Copies(it.flag, d) \o chars
  BY Zenon DEF Field, Pad
<1> HIDE DEF w, d
<1>4. \A c : Copies(c, w - l) = Copies(c, d)
  <2> HIDE DEF l
  <2>1. CASE d > 0
    BY <1>2, <2>1
  <2>2. CASE ~ (d > 0)
    <3>1. ~ (w - l > 0)
      BY <1>2, <2>2
    <3> QED BY <2>2, <3>1, Zenon DEF Copies
  <2> QED BY <2>1, <2>2
<1>5. Field(it, chars) \in Seq(Characters)
  <2>1. it.flag \in Characters /\ Blank \in Characters
    <3>1. it.flag \in {Blank, "-", "0"}
      BY PieceFields
    <3> QED BY <3>1, Symbols
  <2>2. Copies(it.flag, d) \in Seq(Characters) /\ Copies(Blank, d) \in Seq(Characters)
    BY <1>2, <2>1, CopiesIs
  <2> DEFINE x == Copies(it.flag, d)
             y == Copies(Blank, d)
  <2> HIDE DEF x, y
  <2>3. x \o chars \in Seq(Characters) /\ chars \o y \in Seq(Characters)
    BY <2>2, ConcatProperties DEF x, y
  <2> QED BY <1>3, <2>3 DEF x, y
<1> QED BY <1>2, <1>3, <1>4, <1>5 DEF w, d

\* A text that fills its field is not padded.
LEMMA FieldFull ==
  ASSUME NEW it \in Pieces, NEW chars \in Seq(Characters),
         Given(it.width) => it.width <= Len(chars)
  PROVE  Field(it, chars) = chars
<1> DEFINE d == Pad(it, chars)
<1>1. ~ (d > 0)
  <2>1. it.width \in Int \cup {NULL} /\ Len(chars) \in Nat
    BY PieceFields
  <2> QED BY <2>1 DEF Pad, Given
<1>2. Field(it, chars) = IF it.flag = "-" THEN chars \o Copies(Blank, d) ELSE Copies(it.flag, d) \o chars
  BY Zenon DEF Field, Pad
<1> HIDE DEF d
<1>3. Copies(Blank, d) = <<>> /\ Copies(it.flag, d) = <<>>
  BY <1>1, Zenon DEF Copies
<1>4. chars \o <<>> = chars /\ <<>> \o chars = chars
  BY ConcatEmptySeq
<1> QED BY <1>2, <1>3, <1>4, Zenon

LEMMA NumeralIs ==
  ASSUME NEW int \in Int
  PROVE  Numeral(int) \in Seq(Characters)
<1> DEFINE abs == IF int < 0 THEN -int ELSE int
           u == Positional(abs, 10)
<1>1. Numeral(int) = IF int < 0 THEN <<"-">> \o u ELSE u
  BY Zenon DEF Numeral
<1>2. abs \in Nat
  OBVIOUS
<1> HIDE DEF abs
<1>3. u \in Seq(Characters)
  BY <1>2, Ten
<1>4. <<"-">> \in Seq(Characters)
  BY Symbols, One
<1> HIDE DEF u
<1>5. <<"-">> \o u \in Seq(Characters)
  BY <1>3, <1>4, ConcatProperties
<1> QED BY <1>1, <1>3, <1>5, Zenon

Bases == {8, 10, 16}

LEMMA NumberTextIs ==
  ASSUME NEW it \in Pieces, it.flag # "-", spec.width = LastWidth(it), spec.padc = it.flag,
         NEW num \in Nat, NEW b \in Bases
  PROVE  NumberText(num, b) = Field(it, Positional(num, b))
<1>1. b \in Nat /\ b >= 2 /\ b <= 16
  BY DEF Bases
<1> DEFINE u == Positional(num, b)
           w == LastWidth(it)
<1>2. u \in Seq(Characters)
  BY <1>1, PositionalIs
<1>3. /\ w \in Int /\ \A c : Copies(c, w - Len(u)) = Copies(c, Pad(it, u))
      /\ Field(it, u) = Copies(it.flag, Pad(it, u)) \o u /\ Field(it, u) \in Seq(Characters)
  <2> HIDE DEF u
  <2> QED BY <1>2, FieldIs
<1>4. it.flag \in Characters
  <2>1. it.flag \in {Blank, "-", "0"}
    BY PieceFields
  <2> QED BY <2>1, Symbols
<1> HIDE DEF w
<1>5. printnum(num, b, w, it.flag) = Copies(it.flag, w - Len(u)) \o u
  BY <1>1, <1>3, <1>4, PrintnumIs
<1> HIDE DEF u
<1>6. NumberText(num, b) = Field(it, u)
  BY <1>3, <1>5 DEF NumberText, w
<1> QED BY <1>6 DEF u

AtConv(it, e, t, r) ==
  Reads(Conv(it), Value(it) \o r, it.flag, LastWidth(it), LastPrecision(it), it.long, it.alt, e, t)

LEMMA ConvReached ==
  ASSUME NEW it \in Pieces, Sensible(it), it.conv # "text",
         NEW e, NEW t, NEW r, AtLong(it, it.long, e, t, r)
  PROVE  AtConv(it, e, t, r)
<1>1. it.long - it.long = 0
  <2>1. it.long \in Nat
    BY PieceFields
  <2> QED BY <2>1
<1>2. Longs(it, 0) = Conv(it)
  <2>1. Copies("l", 0) = <<>>
    BY DEF Copies
  <2>2. <<>> \o Conv(it) = Conv(it)
    BY RestsAre, ConcatEmptySeq
  <2> QED BY <2>1, <2>2 DEF Longs
<1> QED BY <1>1, <1>2 DEF AtLong, AtConv

Ended(it, e, t, r) ==
  mode = "text" /\ pos = e + 1 /\ ap = r /\ text = t /\ pending = Meant(it)

LEMMA ConvChar ==
  ASSUME fmt \in Seq(Characters), NEW it \in Pieces, it.conv \notin {"text", "end"},
         NEW e, NEW t, NEW r, AtConv(it, e, t, r)
  PROVE  ch = it.conv /\ pos = e /\ pos \in Nat
<1>1. it.conv \in Characters /\ Conv(it) = <<it.conv>>
  <2>1. it.conv \in Characters \cup {"text", "end"}
    BY PieceFields
  <2> QED BY <2>1 DEF Conv
<1>2. /\ pos \in Nat \ {0} /\ e = (pos - 1) + Len(<<it.conv>>) /\ e <= Len(fmt)
      /\ \A k \in 1 .. Len(<<it.conv>>) : fmt[(pos - 1) + k] = <<it.conv>>[k]
  BY <1>1 DEF AtConv, Reads, Ahead
<1>3. Len(<<it.conv>>) = 1 /\ <<it.conv>>[1] = it.conv
  OBVIOUS
<1>4. e = pos
  BY <1>2, <1>3
<1>5. fmt[pos] = it.conv
  <2>1. (pos - 1) + 1 = pos /\ 1 \in 1 .. 1
    BY <1>2
  <2>2. fmt[(pos - 1) + 1] = it.conv
    BY <1>2, <1>3
  <2> QED BY <2>1, <2>2
<1> QED BY <1>2, <1>4, <1>5 DEF ch

LEMMA Converted ==
  ASSUME NEW it, NEW e, NEW t, NEW r, pos = e, text = t,
         NEW chars, NEW rest, Convert(chars, rest), chars = Meant(it), rest = r
  PROVE  Ended(it, e, t, r)'
BY DEF Convert, Emit, Ended

LEMMA TakesOne ==
  ASSUME NEW x \in Arg, NEW r \in Seq(Arg), ap = <<x>> \o r
  PROVE  Head(ap) = x /\ Tail(ap) = r
BY ConsIs

LEMMA PercentEnds ==
  ASSUME fmt \in Seq(Characters), vprintfmt, NEW it \in Pieces, it.conv = "%",
         NEW e, NEW t, NEW r \in Seq(Arg), AtConv(it, e, t, r)
  PROVE  Ended(it, e, t, r)'
<1>1. escaped /\ pos = e
  BY ConvChar, Dispatch DEF AtConv, Reads
<1>2. ap = r
  <2>1. <<>> \o r = r
    BY ConcatEmptySeq
  <2> QED BY <2>1 DEF AtConv, Reads, Value
<1>3. Meant(it) = <<"%">>
  BY DEF Meant
<1>4. text = t
  BY DEF AtConv, Reads
<1> QED BY <1>1, <1>2, <1>3, <1>4, Converted DEF escaped

LEMMA CharacterEnds ==
  ASSUME fmt \in Seq(Characters), vprintfmt, NEW it \in Pieces, Sensible(it), it.conv = "c",
         NEW e, NEW t, NEW r \in Seq(Arg), AtConv(it, e, t, r)
  PROVE  Ended(it, e, t, r)'
<1>1. character /\ pos = e
  BY ConvChar, Dispatch DEF AtConv, Reads
<1>2. it.word \in Seq(Characters) /\ Len(it.word) = 1
  <2>1. it.word \in Seq(Characters) \cup {NULL}
    BY PieceFields
  <2> QED BY <2>1 DEF Sensible
<1> DEFINE c == it.word[1]
<1>3. c \in Characters /\ it.word = <<c>>
  BY <1>2
<1>4. ap = <<c>> \o r
  BY <1>3 DEF AtConv, Reads, Value
<1> HIDE DEF c
<1>5. Head(ap) = c /\ Tail(ap) = r
  <2>1. c \in Arg
    BY <1>3 DEF Arg
  <2> QED BY <1>4, <2>1, TakesOne
<1>6. Meant(it) = <<c>>
  BY <1>3 DEF Meant
<1>7. text = t
  BY DEF AtConv, Reads
<1> QED BY <1>1, <1>5, <1>6, <1>7, Converted DEF character

LEMMA ErrorEnds ==
  ASSUME fmt \in Seq(Characters), vprintfmt, NEW it \in Pieces, Sensible(it), it.conv = "e",
         NEW e, NEW t, NEW r \in Seq(Arg), AtConv(it, e, t, r)
  PROVE  Ended(it, e, t, r)'
<1>1. error /\ pos = e
  BY ConvChar, Dispatch DEF AtConv, Reads
<1>2. it.num \in Nat /\ it.num \in Arg /\ it.long \in Nat /\ it.long < 2
  <2>1. it.num \in Nat
    BY PieceFields
  <2>2. it.long \in Nat
    BY PieceFields
  <2> QED BY <2>1, <2>2 DEF Sensible, Arg
<1>3. Head(ap) = it.num /\ Tail(ap) = r
  <2>1. ap = <<it.num>> \o r
    BY DEF AtConv, Reads, Value
  <2> QED BY <1>2, <2>1, TakesOne
<1> DEFINE int == Signed(it.num, IntSize)
           err == IF int < 0 /\ int # Smallest THEN -int ELSE int
           abs == IF err < 0 THEN -err ELSE err
           decimal == printnum(abs, 10, -1, Blank)
           number == <<"error">> \o Numeral(err)
           known == <<error_string[err]>>
<1>4. Size(it.long) = IntSize
  BY <1>2 DEF Size
<1>5. int \in Int /\ it.num < IntSize
  <2>1. it.num < IntSize
    BY DEF Sensible
  <2> QED BY <1>2, <2>1, WidthAssumption DEF Signed
<1>6. int < 0 => Negated(int) = err
  <2>1. int = (IF it.num < IntSize \div 2 THEN it.num ELSE it.num - IntSize)
    BY DEF Signed
  <2>2. IntSize \in Nat /\ IntSize % 2 = 0 /\ it.num \in Nat
    BY <1>2, WidthAssumption
  <2> HIDE DEF int
  <2>3. /\ IntSize = 2 * (IntSize \div 2) /\ IntSize \div 2 \in Nat
        /\ int < 0 => -int \in 1 .. IntSize \div 2 /\ IntSize \in Nat \ {0}
    BY <1>5, <2>1, <2>2
  <2>4. int < 0 => (-int) % IntSize = -int
    <3> DEFINE n == -int
    <3> SUFFICES ASSUME int < 0 PROVE n % IntSize = n
      OBVIOUS
    <3>1. n \in Nat /\ n < IntSize /\ IntSize \in Nat \ {0}
      BY <2>3
    <3> HIDE DEF n
    <3> QED BY <3>1, DivSmall
  <2> DEFINE half == IntSize \div 2
  <2>5. Negated(int) = (IF (-int) % IntSize < half THEN (-int) % IntSize ELSE ((-int) % IntSize) - IntSize)
    BY DEF Negated, Signed
  <2>6. int < 0 => Negated(int) = (IF -int < half THEN -int ELSE -int - IntSize)
    <3> SUFFICES ASSUME int < 0 PROVE Negated(int) = (IF -int < half THEN -int ELSE -int - IntSize)
      OBVIOUS
    <3> DEFINE n == (-int) % IntSize
    <3>1. n = -int
      BY <2>4
    <3>2. Negated(int) = IF n < half THEN n ELSE n - IntSize
      BY <2>5
    <3> HIDE DEF n, half
    <3> QED BY <3>1, <3>2
  <2>7. Smallest = -half
    BY DEF Smallest
  <2>8. err = IF int < 0 /\ int # Smallest THEN -int ELSE int
    OBVIOUS
  <2> HIDE DEF half, err
  <2> QED BY <1>5, <2>3, <2>6, <2>7, <2>8 DEF half
<1>7. err \in Int
  BY <1>5
<1>8. Meant(it) = IF err \in DOMAIN error_string THEN known ELSE number
  BY <1>4, Zenon DEF Meant, Argument
<1> HIDE DEF err
<1>9. abs \in Nat
  BY <1>7
<1>10. Numeral(err) = IF err < 0 THEN <<"-">> \o Positional(abs, 10) ELSE Positional(abs, 10)
  BY Zenon DEF Numeral
<1> HIDE DEF abs
<1>11. decimal = Positional(abs, 10)
  <2> DEFINE u == Positional(abs, 10)
  <2>1. u \in Seq(Characters) /\ Len(u) >= 1
    BY <1>9, Ten
  <2>2. \A b \in Bases : printnum(abs, b, -1, Blank)
                        = Copies(Blank, -1 - Len(Positional(abs, b))) \o Positional(abs, b)
    <3> TAKE b \in Bases
    <3>1. b \in Nat /\ b >= 2 /\ b <= 16 /\ -1 \in Int /\ Blank \in Characters
      BY Symbols DEF Bases
    <3> QED BY <1>9, <3>1, PrintnumIs
  <2>3. printnum(abs, 10, -1, Blank) = Copies(Blank, -1 - Len(u)) \o u
    BY <2>2 DEF Bases
  <2> HIDE DEF u
  <2>4. Copies(Blank, -1 - Len(u)) = <<>>
    <3>1. ~ (-1 - Len(u) > 0)
      BY <2>1
    <3> QED BY <3>1, Zenon DEF Copies
  <2>5. <<>> \o u = u
    BY <2>1, ConcatEmptySeq
  <2> QED BY <2>1, <2>3, <2>4, <2>5 DEF u
<1>12. ErrorText(int) = Meant(it)
  <2> DEFINE e1 == IF int < 0 THEN Negated(int) ELSE int
             n1 == IF e1 < 0 THEN <<"-">> \o printnum(-e1, 10, -1, Blank) ELSE printnum(e1, 10, -1, Blank)
             n2 == IF err < 0 THEN <<"-">> \o decimal ELSE decimal
  <2>1. e1 = err
    BY <1>5, <1>6 DEF err
  <2>2. ErrorText(int) = IF e1 >= MAXERROR \/ e1 \notin DOMAIN error_string
                         THEN <<"error">> \o n1 ELSE <<error_string[e1]>>
    BY Zenon DEF ErrorText
  <2> HIDE DEF e1
  <2>3. n1 = IF err < 0 THEN <<"-">> \o printnum(-err, 10, -1, Blank) ELSE printnum(err, 10, -1, Blank)
    BY <2>1, Zenon
  <2>4. n1 = n2
    BY <2>3, Zenon DEF abs
  <2>5. n1 = Numeral(err)
    BY <1>10, <1>11, <2>4, Zenon
  <2>6. err \in DOMAIN error_string => ~ (err >= MAXERROR)
    BY <1>7 DEF error_string, MAXERROR
  <2> HIDE DEF n1
  <2>7. CASE err \in DOMAIN error_string
    <3>1. ErrorText(int) = known
      BY <2>1, <2>2, <2>6, <2>7, Zenon
    <3> QED BY <1>8, <2>7, <3>1, Zenon
  <2>8. CASE err \notin DOMAIN error_string
    <3>1. ErrorText(int) = number
      BY <2>1, <2>2, <2>5, <2>8, Zenon
    <3> QED BY <1>8, <2>8, <3>1, Zenon
  <2> QED BY <2>7, <2>8
<1>13. text = t
  BY DEF AtConv, Reads
<1> HIDE DEF int
<1>14. Convert(ErrorText(int), r)
  BY <1>1, <1>3 DEF error, int
<1> QED BY <1>1, <1>12, <1>13, <1>14, Converted

LEMMA TakesNumber ==
  ASSUME NEW it \in Pieces, it.conv \in {"d", "u", "o", "p", "x"}, NEW e, NEW t,
         NEW r \in Seq(Arg), AtConv(it, e, t, r)
  PROVE  Head(ap) = it.num /\ Tail(ap) = r /\ it.num \in Nat
<1>1. it.num \in Nat /\ it.num \in Arg
  <2>1. it.num \in Nat
    BY PieceFields
  <2> QED BY <2>1 DEF Arg
<1>2. ap = <<it.num>> \o r
  BY DEF AtConv, Reads, Value
<1> QED BY <1>1, <1>2, TakesOne

LEMMA FitsSize ==
  ASSUME NEW it \in Pieces, Sensible(it), it.conv \in {"d", "u", "o", "x"}, NEW e, NEW t,
         NEW r \in Seq(Arg), AtConv(it, e, t, r)
  PROVE  getuint(it.num) = it.num /\ Signed(it.num, Size(it.long)) \in Int
         /\ getint(it.num) = Signed(it.num, Size(it.long))
<1>1. it.num \in Nat /\ it.num < Size(it.long) /\ spec.lflag = it.long
  BY PieceFields DEF Sensible, AtConv, Reads
<1>2. Size(it.long) \in Nat \ {0}
  <2>1. Size(it.long) \in Nat
    BY WidthAssumption DEF Size
  <2> QED BY <1>1, <2>1
<1> DEFINE size == Size(it.long)
<1> HIDE DEF size
<1>3. it.num % size = it.num
  BY <1>1, <1>2, DivSmall DEF size
<1> QED BY <1>1, <1>2, <1>3 DEF getuint, getint, Signed, size

LEMMA UnsignedEnds ==
  ASSUME fmt \in Seq(Characters), vprintfmt, NEW it \in Pieces, Sensible(it),
         it.conv \in {"u", "o", "x"},
         NEW e, NEW t, NEW r \in Seq(Arg), AtConv(it, e, t, r)
  PROVE  Ended(it, e, t, r)'
<1>1. unsigned /\ pos = e /\ ch = it.conv
  BY ConvChar, Dispatch DEF AtConv, Reads
<1>2. Head(ap) = it.num /\ Tail(ap) = r /\ it.num \in Nat /\ getuint(it.num) = it.num
  BY TakesNumber, FitsSize
<1>3. it.flag # "-" /\ spec.width = LastWidth(it) /\ spec.padc = it.flag /\ text = t
  BY DEF Sensible, AtConv, Reads
<1>4. PICK b \in Bases : /\ it.conv = CASE b = 8 -> "o" [] b = 10 -> "u" [] b = 16 -> "x"
                         /\ Convert(NumberText(it.num, b), r)
  BY <1>1, <1>2 DEF unsigned, Bases
<1>5. NumberText(it.num, b) = Field(it, Positional(it.num, b))
  BY <1>2, <1>3, NumberTextIs
<1>6. Meant(it) = Field(it, Positional(it.num, b))
  <2>1. \/ b = 8 /\ it.conv = "o"
        \/ b = 10 /\ it.conv = "u"
        \/ b = 16 /\ it.conv = "x"
    BY <1>4 DEF Bases
  <2>2. /\ it.conv = "o" => Meant(it) = Field(it, Positional(it.num, 8))
        /\ it.conv = "u" => Meant(it) = Field(it, Positional(it.num, 10))
        /\ it.conv = "x" => Meant(it) = Field(it, Positional(it.num, 16))
    BY DEF Meant
  <2> QED BY <2>1, <2>2
<1> QED BY <1>1, <1>3, <1>4, <1>5, <1>6, Converted

LEMMA PointerEnds ==
  ASSUME fmt \in Seq(Characters), vprintfmt, NEW it \in Pieces, Sensible(it), it.conv = "p",
         NEW e, NEW t, NEW r \in Seq(Arg), AtConv(it, e, t, r)
  PROVE  Ended(it, e, t, r)'
<1>1. pointer /\ pos = e
  BY ConvChar, Dispatch DEF AtConv, Reads
<1>2. Head(ap) = it.num /\ Tail(ap) = r /\ it.num \in Nat
  BY TakesNumber
<1>3. it.flag # "-" /\ spec.width = LastWidth(it) /\ spec.padc = it.flag /\ text = t
  BY DEF Sensible, AtConv, Reads
<1>4. \A b \in Bases : NumberText(it.num, b) = Field(it, Positional(it.num, b))
  BY <1>2, <1>3, NumberTextIs
<1>5. NumberText(it.num, 16) = Field(it, Positional(it.num, 16))
  BY <1>4 DEF Bases
<1> DEFINE u == NumberText(it.num, 16)
           x == <<"0", "x">>
<1>6. Convert(x \o u, r)
  BY <1>1, <1>2 DEF pointer
<1>7. Meant(it) = x \o u
  BY <1>5 DEF Meant
<1> HIDE DEF x, u
<1> QED BY <1>1, <1>3, <1>6, <1>7, Converted

LEMMA SignedEnds ==
  ASSUME fmt \in Seq(Characters), vprintfmt, NEW it \in Pieces, Sensible(it), it.conv = "d",
         NEW e, NEW t, NEW r \in Seq(Arg), AtConv(it, e, t, r)
  PROVE  Ended(it, e, t, r)'
<1>1. signed /\ pos = e
  BY ConvChar, Dispatch DEF AtConv, Reads
<1> DEFINE int == Signed(it.num, Size(it.long))
           abs == IF int < 0 THEN -int ELSE int
           u == NumberText(abs, 10)
           x == <<"-">>
<1>2. Head(ap) = it.num /\ Tail(ap) = r /\ getint(it.num) = int /\ int \in Int
  BY TakesNumber, FitsSize
<1>3. it.flag # "-" /\ spec.width = LastWidth(it) /\ spec.padc = it.flag /\ text = t
  BY DEF Sensible, AtConv, Reads
<1>4. Convert(IF int < 0 THEN x \o u ELSE u, r)
  <2> DEFINE num == getint(Head(ap))
  <2>1. num = int
    BY <1>2
  <2>2. Convert(IF num < 0 THEN <<"-">> \o NumberText(-num, 10) ELSE NumberText(num, 10), r)
    BY <1>1, <1>2 DEF signed
  <2> HIDE DEF num, int
  <2> QED BY <2>1, <2>2
<1> DEFINE n == Positional(abs, 10)
<1>5. Meant(it) = IF int < 0 THEN Field(it, x \o n) ELSE Field(it, n)
  <2>1. Meant(it) = Field(it, Numeral(int))
    BY Zenon DEF Meant, Argument
  <2>2. Numeral(int) = IF int < 0 THEN x \o n ELSE n
    BY Zenon DEF Numeral
  <2> HIDE DEF int, x, n
  <2> QED BY <2>1, <2>2
<1>6. int < 0 /\ Given(it.width) => it.width <= Len(n)
  <2>1. ASSUME int < 0, Given(it.width) PROVE ~ (it.width > Len(Positional(-int, 10)))
    BY <2>1 DEF Sensible, PaddedNegative, Argument
  <2>2. it.width \in Int \cup {NULL}
    BY PieceFields
  <2>3. int < 0 => n = Positional(-int, 10)
    BY Zenon
  <2>4. n \in Seq(Characters)
    <3>1. abs \in Nat
      BY <1>2
    <3> HIDE DEF abs
    <3> QED BY <3>1, Ten
  <2> HIDE DEF int, n
  <2> QED BY <2>1, <2>2, <2>3, <2>4 DEF Given
<1> HIDE DEF int
<1>7. abs \in Nat
  BY <1>2
<1> HIDE DEF abs
<1>8. \A b \in Bases : NumberText(abs, b) = Field(it, Positional(abs, b))
  BY <1>3, <1>7, NumberTextIs
<1>9. u = Field(it, n)
  BY <1>8 DEF Bases
<1>10. n \in Seq(Characters) /\ x \o n \in Seq(Characters) /\ Len(x \o n) = Len(n) + 1
  <2>1. n \in Seq(Characters)
    BY <1>7, Ten
  <2>2. x \in Seq(Characters) /\ Len(x) = 1
    BY Symbols, One
  <2> HIDE DEF n, x
  <2>3. x \o n \in Seq(Characters) /\ Len(x \o n) = Len(x) + Len(n)
    BY <2>1, <2>2, ConcatProperties
  <2>4. Len(n) \in Nat
    BY <2>1
  <2> QED BY <2>1, <2>2, <2>3, <2>4
<1>11. int < 0 => Field(it, n) = n /\ Field(it, x \o n) = x \o n
  <2> SUFFICES ASSUME int < 0 PROVE Field(it, n) = n /\ Field(it, x \o n) = x \o n
    OBVIOUS
  <2> DEFINE y == x \o n
  <2>1. Given(it.width) => it.width <= Len(n) /\ it.width <= Len(y)
    <3>1. it.width \in Int \cup {NULL} /\ Len(n) \in Nat
      BY <1>10, PieceFields
    <3> HIDE DEF n
    <3> QED BY <1>6, <1>10, <3>1 DEF Given
  <2>2. n \in Seq(Characters) /\ y \in Seq(Characters)
    BY <1>10
  <2> HIDE DEF n, y
  <2>3. Field(it, n) = n /\ Field(it, y) = y
    BY <2>1, <2>2, FieldFull
  <2> QED BY <2>3 DEF y
<1>12. Meant(it) = IF int < 0 THEN x \o u ELSE u
  <2> HIDE DEF x, u, n
  <2> QED BY <1>5, <1>9, <1>11
<1> HIDE DEF x, u
<1> DEFINE chars == IF int < 0 THEN x \o u ELSE u
<1>13. Convert(chars, r) /\ chars = Meant(it)
  BY <1>4, <1>12
<1> HIDE DEF chars
<1> QED BY <1>1, <1>3, <1>13, Converted

LEMMA StringTextIs ==
  ASSUME NEW it \in Pieces, spec.width = LastWidth(it), spec.precision = LastPrecision(it),
         spec.padc = it.flag, spec.altflag = it.alt, it.conv = "s"
  PROVE  StringText(it.word) = Meant(it)
<1> DEFINE word == IF it.word = NULL THEN <<"(", "n", "u", "l", "l", ")">> ELSE it.word
           kept == IF Given(it.prec) /\ it.prec >= 0 /\ it.prec < Len(word)
                   THEN SubSeq(word, 1, it.prec) ELSE word
           mid == [i \in DOMAIN kept |-> IF it.alt /\ kept[i] \in Unprintable THEN "?" ELSE kept[i]]
           K == Len(kept)
           w == LastWidth(it)
           q == LastPrecision(it)
           f == it.flag
           left == IF w > 0 /\ f # "-" THEN w - strnlen(word, q) ELSE 0
           copied == IF q < 0 \/ Len(word) < q THEN Len(word) ELSE q
           rest == IF w > 0 /\ f # "-" THEN 0 ELSE w - copied
           part == [i \in 1 .. copied |-> IF it.alt /\ word[i] \in Unprintable THEN "?" ELSE word[i]]
           d == Pad(it, mid)
<1>1. Meant(it) = Field(it, mid)
  BY Zenon DEF Meant
<1>2. StringText(it.word) = Copies(f, left) \o part \o Copies(Blank, rest)
  BY Zenon DEF StringText
<1>3. word \in Seq(Characters)
  <2>1. it.word \in Seq(Characters) \cup {NULL}
    BY PieceFields
  <2>2. {"(", "n", "u", "l", ")"} \subseteq Characters
    BY Symbols
  <2>3. <<"(", "n", "u", "l", "l", ")">> \in Seq(Characters)
    BY <2>2
  <2> QED BY <2>1, <2>3
<1> HIDE DEF word
<1>4. /\ q \in Int /\ (q >= 0 => Given(it.prec) /\ it.prec = q)
      /\ (Given(it.prec) /\ it.prec >= 0 => q = it.prec)
  <2>1. it.prec \in Int \cup {NULL}
    BY PieceFields
  <2> QED BY <2>1 DEF LastPrecision, Given
<1>5. /\ kept \in Seq(Characters) /\ K = copied /\ copied \in Nat
      /\ \A i \in 1 .. copied : kept[i] = word[i]
      /\ strnlen(word, q) = copied
  <2>1. CASE q >= 0 /\ q < Len(word)
    <3> HIDE DEF q
    <3>1. /\ SubSeq(word, 1, q) \in Seq(Characters) /\ Len(SubSeq(word, 1, q)) = q
          /\ \A i \in 1 .. q : SubSeq(word, 1, q)[i] = word[i]
      BY <1>3, <1>4, <2>1
    <3>2. kept = SubSeq(word, 1, q)
      BY <1>4, <2>1
    <3>3. copied = q /\ strnlen(word, q) = q
      BY <1>4, <2>1 DEF strnlen
    <3> HIDE DEF kept, copied
    <3> QED BY <1>4, <2>1, <3>1, <3>2, <3>3
  <2>2. CASE ~ (q >= 0 /\ q < Len(word))
    <3>1. kept = word
      BY <1>4, <2>2
    <3>2. copied = Len(word) /\ strnlen(word, q) = Len(word)
      BY <1>3, <1>4, <2>2 DEF strnlen
    <3> HIDE DEF kept, copied
    <3> QED BY <1>3, <3>1, <3>2
  <2> QED BY <2>1, <2>2
<1>6. left = (IF w > 0 /\ f # "-" THEN w - K ELSE 0) /\ rest = IF w > 0 /\ f # "-" THEN 0 ELSE w - K
  BY <1>5
<1>7. part = mid /\ mid \in Seq(Characters) /\ Len(mid) = K
  <2>1. DOMAIN kept = 1 .. copied /\ "?" \in Characters
    BY <1>5, Symbols, LenProperties
  <2> HIDE DEF kept, copied, K
  <2>2. part = mid
    BY <1>5, <2>1
  <2>3. mid \in [1 .. copied -> Characters]
    <3>1. ASSUME NEW i \in 1 .. copied PROVE kept[i] \in Characters
      BY <1>5, <2>1, ElementOfSeq DEF K
    <3> QED BY <2>1, <3>1
  <2> HIDE DEF mid
  <2>4. mid \in Seq(Characters) /\ Len(mid) = copied
    BY <1>5, <2>3, SeqDef, LenProperties
  <2> QED BY <1>5, <2>2, <2>4
<1>8. it.flag \in Characters
  <2>1. it.flag \in {Blank, "-", "0"}
    BY PieceFields
  <2> QED BY <2>1, Symbols
<1> HIDE DEF mid, part, K, left, rest, copied, kept, q
<1>9. /\ w \in Int /\ d \in Int /\ (\A c : Copies(c, w - K) = Copies(c, d)) /\ (d > 0 => w > 0)
      /\ Field(it, mid) = (IF f = "-" THEN mid \o Copies(Blank, d) ELSE Copies(f, d) \o mid)
  BY <1>7, FieldIs
<1>10. K \in Nat
  BY <1>7
<1> HIDE DEF w, d
<1>11. Copies(f, left) \o mid \o Copies(Blank, rest) = Field(it, mid)
  <2>1. \A c : Copies(c, 0) = <<>>
    BY DEF Copies
  <2>2. <<>> \o mid = mid /\ (Copies(f, d) \o mid) \o <<>> = Copies(f, d) \o mid
    <3>1. Copies(f, d) \in Seq(Characters)
      BY <1>8, <1>9, CopiesIs
    <3> DEFINE x == Copies(f, d)
    <3> HIDE DEF x
    <3>2. x \o mid \in Seq(Characters)
      BY <1>7, <3>1, ConcatProperties DEF x
    <3> QED BY <1>7, <3>2, ConcatEmptySeq DEF x
  <2>3. CASE f = "-"
    <3>1. Copies(f, left) = <<>>
      BY <1>6, <2>1, <2>3
    <3>2. Copies(Blank, rest) = Copies(Blank, d)
      BY <1>6, <1>9, <2>3
    <3> QED BY <1>9, <2>2, <2>3, <3>1, <3>2
  <2>4. CASE f # "-"
    <3>1. Copies(Blank, rest) = <<>>
      <4>1. ~ (rest > 0)
        BY <1>6, <1>9, <1>10, <2>4
      <4> QED BY <4>1, Zenon DEF Copies
    <3>2. Copies(f, left) = Copies(f, d)
      <4>1. CASE w > 0
        BY <1>6, <1>9, <2>4, <4>1
      <4>2. CASE ~ (w > 0)
        <5>1. left = 0 /\ ~ (d > 0)
          BY <1>6, <1>9, <4>2
        <5>2. Copies(f, d) = <<>>
          BY <5>1, Zenon DEF Copies
        <5> QED BY <2>1, <5>1, <5>2
      <4> QED BY <4>1, <4>2
    <3> QED BY <1>9, <2>2, <2>4, <3>1, <3>2
  <2> QED BY <2>3, <2>4
<1> QED BY <1>1, <1>2, <1>7, <1>9, <1>11

LEMMA StringEnds ==
  ASSUME fmt \in Seq(Characters), vprintfmt, NEW it \in Pieces, Sensible(it), it.conv = "s",
         NEW e, NEW t, NEW r \in Seq(Arg), AtConv(it, e, t, r)
  PROVE  Ended(it, e, t, r)'
<1>1. string /\ pos = e
  BY ConvChar, Dispatch DEF AtConv, Reads
<1>2. Head(ap) = it.word /\ Tail(ap) = r
  <2>1. it.word \in Arg
    BY PieceFields DEF Arg
  <2>2. ap = <<it.word>> \o r
    BY DEF AtConv, Reads, Value
  <2> QED BY <2>1, <2>2, TakesOne
<1>3. StringText(it.word) = Meant(it)
  BY StringTextIs DEF AtConv, Reads
<1>4. text = t
  BY DEF AtConv, Reads
<1>5. Convert(StringText(it.word), r)
  BY <1>1, <1>2 DEF string
<1> QED BY <1>1, <1>3, <1>4, <1>5, Converted

LEMMA ConversionEnds ==
  ASSUME fmt \in Seq(Characters), vprintfmt, NEW it \in Pieces, Sensible(it),
         it.conv \in Conversions,
         NEW e, NEW t, NEW r \in Seq(Arg), AtLong(it, it.long, e, t, r)
  PROVE  Ended(it, e, t, r)'
<1>1. it.conv \in {"c", "e", "s", "d", "u", "o", "x", "p", "%"} /\ it.conv # "text"
  BY DEF Conversions
<1>2. AtConv(it, e, t, r)
  BY <1>1, ConvReached
<1> QED BY <1>1, <1>2, CharacterEnds, ErrorEnds, StringEnds, SignedEnds, UnsignedEnds,
           PointerEnds, PercentEnds

----------------------------------------------------------------------------
(* What is no conversion is printed as it stands.                          *)
Ordinary == Characters \ {"%", "NUL"}

LEMMA OrdinaryIs ==
  ASSUME NEW s \in Seq(Characters), \A i \in 1 .. Len(s) : s[i] \notin {"%", "NUL"}
  PROVE  s \in Seq(Ordinary)
<1>1. ASSUME NEW i \in 1 .. Len(s) PROVE s[i] \in Ordinary
  <2>1. s[i] \in Characters
    BY ElementOfSeq
  <2> QED BY <2>1 DEF Ordinary
<1> QED BY <1>1, LenProperties, SeqDef

LEMMA RestOrdinary ==
  ASSUME NEW it \in Pieces, Sensible(it), it.conv \notin Conversions, it.conv # "text"
  PROVE  /\ FlagRest(it) \in Seq(Ordinary) /\ Value(it) = <<>> /\ Meant(it) = Spell(it)
         /\ it.conv # "end" => it.conv \in Ordinary /\ it.conv \notin Known
<1>1. it.conv # "end" => it.conv \in Ordinary /\ it.conv \notin Known
  <2>1. it.conv \in Characters \cup {"text", "end"}
    BY PieceFields
  <2>2. it.conv \notin Known \cup {"NUL"}
    BY DEF Sensible
  <2>3. "%" \in Known
    BY DEF Known, Conversions
  <2> QED BY <2>1, <2>2, <2>3 DEF Ordinary
<1>2. Value(it) = <<>> /\ Meant(it) = Spell(it)
  BY DEF Value, Meant, Conversions
<1>3. \A c \in {"#", ".", "*", "0", "-"} : <<c>> \in Seq(Ordinary)
  <2>1. {"#", ".", "*", "0", "-"} \subseteq Ordinary
    BY Symbols DEF Ordinary
  <2> QED BY <2>1, One
<1>4. \A x, y \in Seq(Ordinary) : x \o y \in Seq(Ordinary)
  BY ConcatProperties
<1>5. Longs(it, it.long) \in Seq(Ordinary)
  <2>1. Copies("l", it.long) \in Seq(Ordinary)
    <3>1. it.long \in Int /\ "l" \in Characters
      BY PieceFields, Symbols
    <3>2. Copies("l", it.long) \in Seq(Characters)
      BY <3>1, CopiesIs
    <3>3. \A i \in 1 .. Len(Copies("l", it.long)) : Copies("l", it.long)[i] = "l"
      <4>1. CASE it.long > 0
        <5>1. Copies("l", it.long) = [i \in 1 .. it.long |-> "l"] /\ Len(Copies("l", it.long)) = it.long
          BY <3>1, <4>1, CopiesIs DEF Copies
        <5> QED BY <5>1
      <4>2. CASE ~ (it.long > 0)
        BY <4>2 DEF Copies
      <4> QED BY <4>1, <4>2
    <3> QED BY <3>2, <3>3, OrdinaryIs
  <2>2. Conv(it) \in Seq(Ordinary)
    <3>1. CASE it.conv = "end"
      BY <3>1, EmptySeq DEF Conv
    <3>2. CASE it.conv # "end"
      BY <1>1, <3>2, One DEF Conv
    <3> QED BY <3>1, <3>2
  <2> QED BY <1>4, <2>1, <2>2 DEF Longs
<1>6. ASSUME NEW n \in {it.width, it.prec}, Given(n) PROVE SpellNumber(it, n) \in Seq(Ordinary)
  <2>1. CASE it.star
    BY <1>3, <2>1 DEF SpellNumber
  <2>2. CASE ~ it.star
    <3>1. n \in Nat
      BY <1>6, <2>2, SpelledNumber
    <3> DEFINE u == Positional(n, 10)
    <3>2. u \in Seq(Characters)
      BY <3>1, Ten
    <3>3. \A i \in 1 .. Len(u) : u[i] \in Decimal
      BY <3>1, DecimalIs
    <3>4. SpellNumber(it, n) = u
      BY <2>2 DEF SpellNumber
    <3> HIDE DEF u
    <3>5. \A i \in 1 .. Len(u) : u[i] \notin {"%", "NUL"}
      BY <3>3 DEF Decimal
    <3> QED BY <3>2, <3>4, <3>5, OrdinaryIs
  <2> QED BY <2>1, <2>2
<1>7. Given(it.prec) => PrecRest(it) \in Seq(Ordinary)
  BY <1>4, <1>5, <1>6 DEF PrecRest
<1>8. DotRest(it) \in Seq(Ordinary)
  BY <1>3, <1>4, <1>5, <1>7 DEF DotRest
<1>9. WidthRest(it) \in Seq(Ordinary)
  BY <1>4, <1>6, <1>8 DEF WidthRest
<1>10. AltRest(it) \in Seq(Ordinary)
  BY <1>3, <1>4, <1>9 DEF AltRest
<1>11. FlagRest(it) \in Seq(Ordinary)
  <2>1. it.flag = Blank \/ <<it.flag>> \in Seq(Ordinary)
    <3>1. it.flag \in {Blank, "-", "0"}
      BY PieceFields
    <3> QED BY <1>3, <3>1
  <2> QED BY <1>4, <1>10, <2>1 DEF FlagRest
<1> QED BY <1>1, <1>2, <1>11

(* A piece is printed as it stands, and the rest of it is still to come.   *)
PlainRest(it, e, t, r, rest) ==
  /\ mode = "text" /\ ap = r /\ Ahead(fmt, pos, e, rest) /\ rest \in Seq(Ordinary)
  /\ pending \in Seq(Characters) /\ (text \o pending) \o rest = t \o Meant(it)
Plainly(it, e, t, r) == \E rest : PlainRest(it, e, t, r, rest)

Between(e, t, r) == mode = "text" /\ pos = e + 1 /\ ap = r /\ text \o pending = t

LEMMA PlainTaken ==
  ASSUME fmt \in Seq(Characters), text \in Seq(Characters), vprintfmt,
         NEW it, NEW e \in Int, NEW t, NEW r,
         Plainly(it, e, t, r), pos <= e
  PROVE  Plainly(it, e, t, r)'
<1>1. PICK rest : PlainRest(it, e, t, r, rest)
  BY DEF Plainly
<1>2. rest \in Seq(Ordinary) /\ Ahead(fmt, pos, e, rest)
  BY <1>1 DEF PlainRest
<1>3. rest # <<>>
  BY <1>2 DEF Ahead
<1> DEFINE c == Head(rest)
           s == Tail(rest)
<1>4. c \in Ordinary /\ s \in Seq(Ordinary) /\ c \in Characters
  <2>1. c \in Ordinary /\ s \in Seq(Ordinary)
    BY <1>2, <1>3, HeadTailProperties
  <2> QED BY <2>1 DEF Ordinary
<1>5. s \in Seq(Characters)
  BY <1>4, SeqMonotonic DEF Ordinary
<1>6. rest = <<c>> \o s
  <2>1. /\ Len(s) = Len(rest) - 1 /\ \A i \in 1 .. Len(s) : s[i] = rest[i + 1]
        /\ c = rest[1] /\ Len(rest) \in Nat /\ Len(s) \in Nat
    BY <1>2, <1>3, HeadTailProperties
  <2> HIDE DEF c, s
  <2>2. /\ <<c>> \o s \in Seq(Ordinary) /\ Len(<<c>> \o s) = Len(s) + 1
        /\ (<<c>> \o s)[1] = c /\ \A k \in 1 .. Len(s) : (<<c>> \o s)[k + 1] = s[k]
    BY <1>4, ConsIs
  <2> DEFINE q == <<c>> \o s
  <2>3. q \in Seq(Ordinary) /\ Len(q) = Len(rest)
    BY <2>1, <2>2
  <2>4. ASSUME NEW i \in 1 .. Len(rest) PROVE q[i] = rest[i]
    <3>1. CASE i = 1
      BY <2>1, <2>2, <3>1
    <3>2. CASE i # 1
      <4>1. i - 1 \in 1 .. Len(s) /\ (i - 1) + 1 = i
        BY <2>1, <3>2
      <4>2. q[(i - 1) + 1] = s[i - 1]
        BY <2>2, <4>1
      <4>3. s[i - 1] = rest[(i - 1) + 1]
        BY <2>1, <4>1
      <4> QED BY <4>1, <4>2, <4>3
    <3> QED BY <3>1, <3>2
  <2> HIDE DEF q
  <2>5. q = rest
    BY <1>2, <2>3, <2>4, SeqEqual
  <2> QED BY <2>5 DEF q
<1> HIDE DEF c, s
<1>7. ch = c /\ Ahead(fmt, pos + 1, e, s)
  BY <1>2, <1>4, <1>5, <1>6, ReadOne
<1>8. plain
  <2>1. ch \notin {"%", "NUL"}
    BY <1>4, <1>7 DEF Ordinary
  <2>2. mode = "text"
    BY <1>1 DEF PlainRest
  <2> QED BY <2>1, <2>2 DEF vprintfmt, percent, finish, flag, alternate, dot, long, digits, star,
              character, error, string, signed, unsigned, pointer, escaped, unrecognized, InSpec
<1>9. pending = <<>> /\ pending' = <<c>> /\ text' = text
  BY <1>7, <1>8 DEF plain, InText, Emit
<1>10. (text' \o pending') \o s = t \o Meant(it)
  <2>1. (text \o <<>>) \o rest = t \o Meant(it) /\ text \o <<>> = text
    BY <1>1, <1>9, ConcatEmptySeq DEF PlainRest
  <2> DEFINE x == <<c>>
  <2>2. Three(text, x, s, Characters)
    BY <1>4, <1>5, One DEF Three
  <2> HIDE DEF x
  <2>3. (text \o x) \o s = text \o (x \o s)
    BY <2>2, Assoc
  <2>4. text \o rest = t \o Meant(it)
    BY <2>1
  <2> QED BY <1>6, <1>9, <2>3, <2>4 DEF x
<1>11. PlainRest(it, e, t, r, s)'
  <2>1. pending' \in Seq(Characters)
    BY <1>4, <1>9, One
  <2> QED BY <1>1, <1>4, <1>7, <1>8, <1>10, <2>1 DEF PlainRest, plain
<1> QED BY <1>11 DEF Plainly

LEMMA PlainOver ==
  ASSUME text \in Seq(Characters), pending \in Seq(Characters), NEW it, NEW e \in Int, NEW t, NEW r,
         Plainly(it, e, t, r), ~ (pos <= e)
  PROVE  Between(e, t \o Meant(it), r)
<1>1. PICK rest : PlainRest(it, e, t, r, rest)
  BY DEF Plainly
<1>2. pos = e + 1 /\ rest = <<>>
  <2>1. /\ pos \in Nat \ {0} /\ rest \in Seq(Characters) /\ e = (pos - 1) + Len(rest)
        /\ Len(rest) \in Nat
    BY <1>1 DEF PlainRest, Ahead
  <2>2. Len(rest) = 0
    BY <2>1
  <2> QED BY <2>1, <2>2
<1>3. text \o pending \in Seq(Characters)
  BY ConcatProperties
<1> DEFINE x == text \o pending
<1>4. x \in Seq(Characters) /\ x \o <<>> = t \o Meant(it)
  BY <1>1, <1>2, <1>3 DEF PlainRest
<1> HIDE DEF x
<1>5. x = t \o Meant(it)
  BY <1>4, ConcatEmptySeq
<1> QED BY <1>1, <1>2, <1>5 DEF x, PlainRest, Between

LEMMA UnrecognizedEnds ==
  ASSUME fmt \in Seq(Characters), vprintfmt, NEW it \in Pieces, Sensible(it),
         it.conv \notin Conversions, it.conv # "text",
         NEW e \in Int, NEW t \in Seq(Characters), NEW r \in Seq(Arg), text = t,
         AtLong(it, it.long, e, t, r), it.conv = "end" => e = Len(fmt),
         NEW i, Ahead(fmt, i, e, Spell(it))
  PROVE  Plainly(it, e, t, r)'
<1> DEFINE rest == FlagRest(it)
           S == {k \in 1 .. pos - 1 : fmt[k] = "%"}
<1>1. /\ rest \in Seq(Ordinary) /\ Meant(it) = Spell(it) /\ Spell(it) = <<"%">> \o rest
      /\ "%" \in Characters
  BY RestOrdinary, RestsAre, Symbols
<1>2. rest \in Seq(Characters)
  BY <1>1, SeqMonotonic DEF Ordinary
<1>3. ap = r
  <2>1. <<>> \o r = r
    BY ConcatEmptySeq
  <2> QED BY <2>1, RestOrdinary DEF AtLong, Reads
<1>4. AtConv(it, e, t, r)
  BY ConvReached
<1> HIDE DEF rest
<1>5. fmt[i] = "%" /\ i <= Len(fmt) /\ Ahead(fmt, i + 1, e, rest)
  BY <1>1, <1>2, AheadOne
<1>6. i \in Nat \ {0} /\ pos \in Nat \ {0} /\ i <= e
  <2>1. i \in Nat \ {0} /\ pos \in Nat \ {0}
    BY <1>4 DEF Ahead, AtConv, Reads
  <2>2. e = ((i + 1) - 1) + Len(rest) /\ Len(rest) \in Nat
    BY <1>2, <1>5 DEF Ahead
  <2> QED BY <2>1, <2>2
<1>7. pos <= e + 1 /\ i < pos /\ ch \notin Known
  <2>1. CASE it.conv = "end"
    <3>1. Ahead(fmt, pos, e, <<>>)
      BY <1>4, <2>1 DEF AtConv, Reads, Conv
    <3>2. e = (pos - 1) + 0 /\ e = Len(fmt)
      BY <2>1, <3>1 DEF Ahead
    <3>3. ch = "NUL"
      BY <3>1, <3>2, ReadNone
    <3> QED BY <1>6, <3>2, <3>3 DEF Known, Conversions, Decimal
  <2>2. CASE it.conv # "end"
    <3>1. ch = it.conv /\ pos = e
      BY <1>4, <2>2, ConvChar
    <3>2. it.conv \notin Known
      BY <2>2, RestOrdinary
    <3>3. pos # i
      <4>1. ch \in {fmt[pos], "NUL"}
        BY DEF ch
      <4>2. ch # "%" /\ (pos = i => ch = fmt[pos])
        BY <1>5, <3>1, <3>2 DEF Known, Conversions, ch
      <4> QED BY <1>5, <4>2
    <3> QED BY <1>6, <3>1, <3>2, <3>3
  <2> QED BY <2>1, <2>2
<1>8. unrecognized
  BY <1>4, <1>7, Dispatch DEF AtConv, Reads
<1>9. Max(S) = i
  <2>1. i \in S
    BY <1>5, <1>6, <1>7
  <2>2. ASSUME NEW k \in S PROVE i >= k
    <3> SUFFICES ASSUME k > i PROVE FALSE
      BY <1>6
    <3>1. e = ((i + 1) - 1) + Len(rest) /\ Len(rest) \in Nat
          /\ \A m \in 1 .. Len(rest) : fmt[((i + 1) - 1) + m] = rest[m]
      BY <1>2, <1>5 DEF Ahead
    <3>2. k - i \in 1 .. Len(rest) /\ ((i + 1) - 1) + (k - i) = k
      BY <1>6, <1>7, <3>1
    <3>3. fmt[k] = rest[k - i]
      BY <3>1, <3>2
    <3>4. rest[k - i] \in Ordinary
      BY <1>1, <3>2, ElementOfSeq
    <3> QED BY <3>3, <3>4 DEF Ordinary
  <2>3. \A x \in S : (\A y \in S : x >= y) => x = i
    BY <1>6, <2>1, <2>2
  <2> HIDE DEF S
  <2> QED BY <2>1, <2>2, <2>3 DEF Max
<1>10. pending' = <<"%">> /\ text' = text /\ pos' = i + 1 /\ mode' = "text" /\ UNCHANGED <<fmt, ap>>
  BY <1>8, <1>9 DEF unrecognized, Emit, Back
<1>11. (text' \o pending') \o rest = t \o Meant(it)
  <2> DEFINE x == <<"%">>
  <2>1. Three(t, x, rest, Characters)
    BY <1>1, <1>2, One DEF Three
  <2>2. Meant(it) = x \o rest
    BY <1>1
  <2> HIDE DEF x
  <2>3. (t \o x) \o rest = t \o (x \o rest)
    BY <2>1, Assoc
  <2> QED BY <1>10, <2>2, <2>3 DEF x
<1>12. PlainRest(it, e, t, r, rest)'
  <2>1. pending' \in Seq(Characters)
    BY <1>1, <1>10, One
  <2> QED BY <1>1, <1>3, <1>5, <1>10, <1>11, <2>1 DEF PlainRest
<1> QED BY <1>12 DEF Plainly

LEMMA ReadingTaken ==
  ASSUME fmt \in Seq(Characters), vprintfmt, NEW it \in Pieces, Sensible(it), it.conv # "text",
         NEW e \in Int, NEW t \in Seq(Characters), NEW r \in Seq(Arg),
         Reading(it, e, t, r), it.conv = "end" => e = Len(fmt),
         NEW i, Ahead(fmt, i, e, Spell(it))
  PROVE  Reading(it, e, t, r)' \/ Ended(it, e, t, r)' \/ Plainly(it, e, t, r)'
<1>0. it.long \in Nat
  BY PieceFields
<1>1. CASE AtFlag(it, e, t, r) /\ it.flag # Blank
  BY <1>1, FlagTaken
<1>2. CASE AtAlt(it, e, t, r) /\ it.alt
  <2>1. AtWidth(it, e, t, r)'
    BY <1>2, AltTaken
  <2> QED BY <2>1, Skips, PTL
<1>3. CASE AtWidth(it, e, t, r) /\ Given(it.width)
  <2>1. AtDot(it, e, t, r)'
    BY <1>3, WidthTaken
  <2> QED BY <2>1, Skips, PTL
<1>4. CASE AtDot(it, e, t, r) /\ Given(it.prec)
  <2>1. AtPrec(it, e, t, r)'
    BY <1>4, DotTaken
  <2> QED BY <1>4, <2>1 DEF Reading
<1>5. CASE AtPrec(it, e, t, r) /\ Given(it.prec)
  <2>1. AtLong(it, 0, e, t, r)' /\ 0 \in 0 .. it.long
    BY <1>0, <1>5, PrecTaken
  <2> QED BY <2>1 DEF Reading
<1>6. ASSUME NEW n \in 0 .. it.long, AtLong(it, n, e, t, r)
      PROVE  Reading(it, e, t, r)' \/ Ended(it, e, t, r)' \/ Plainly(it, e, t, r)'
  <2>1. CASE n < it.long
    <3>1. AtLong(it, n + 1, e, t, r)' /\ n + 1 \in 0 .. it.long
      BY <1>0, <1>6, <2>1, LongTaken
    <3> QED BY <3>1 DEF Reading
  <2>2. CASE ~ (n < it.long)
    <3>1. AtLong(it, it.long, e, t, r)
      <4>1. n = it.long
        BY <1>0, <2>2
      <4> QED BY <1>6, <4>1
    <3>2. CASE it.conv \in Conversions
      BY <3>1, <3>2, ConversionEnds
    <3>3. CASE it.conv \notin Conversions
      <4>1. text = t
        BY <3>1 DEF AtLong, Reads
      <4> QED BY <3>1, <3>3, <4>1, UnrecognizedEnds
    <3> QED BY <3>2, <3>3
  <2> QED BY <2>1, <2>2
<1> QED BY <1>1, <1>2, <1>3, <1>4, <1>5, <1>6 DEF Reading

(* Between two pieces.                                                     *)
LEMMA WordBegins ==
  ASSUME fmt \in Seq(Characters), NEW it \in Pieces, Sensible(it), it.conv = "text",
         NEW d \in Int, NEW e \in Int, NEW t \in Seq(Characters), NEW r \in Seq(Arg), NEW q,
         Between(d, t, q), q = Args(it) \o r, Ahead(fmt, d + 1, e, Spell(it)),
         pending \in Seq(Characters)
  PROVE  Plainly(it, e, t, r) /\ pos <= e /\ ch # "NUL"
<1>1. it.word \in Seq(Characters) /\ Len(it.word) = 1 /\ it.word[1] \notin {"%", "NUL"}
  <2>1. it.word \in Seq(Characters) \cup {NULL}
    BY PieceFields
  <2> QED BY <2>1 DEF Sensible
<1>2. Spell(it) = it.word /\ Meant(it) = it.word
  BY DEF Spell, Meant
<1>3. it.word \in Seq(Ordinary)
  <2>1. \A i \in 1 .. Len(it.word) : it.word[i] \notin {"%", "NUL"}
    BY <1>1
  <2> DEFINE s == it.word
  <2>2. s \in Seq(Characters) /\ \A i \in 1 .. Len(s) : s[i] \notin {"%", "NUL"}
    BY <1>1, <2>1
  <2> HIDE DEF s
  <2>3. s \in Seq(Ordinary)
    BY <2>2, OrdinaryIs
  <2> QED BY <2>3 DEF s
<1>4. ap = r
  BY ArgsAre DEF Between
<1>5. PlainRest(it, e, t, r, it.word)
  BY <1>2, <1>3, <1>4 DEF PlainRest, Between
<1>6. pos <= e /\ fmt[pos] = it.word[1] /\ pos <= Len(fmt)
  <2>1. /\ e = ((d + 1) - 1) + 1 /\ e <= Len(fmt) /\ pos = d + 1
        /\ \A k \in 1 .. 1 : fmt[((d + 1) - 1) + k] = it.word[k]
    BY <1>1, <1>2 DEF Ahead, Between
  <2>2. fmt[((d + 1) - 1) + 1] = it.word[1] /\ ((d + 1) - 1) + 1 = pos
    BY <2>1
  <2> QED BY <2>1, <2>2
<1> QED BY <1>1, <1>5, <1>6 DEF Plainly, ch

LEMMA PercentTaken ==
  ASSUME fmt \in Seq(Characters), vprintfmt, NEW it \in Pieces, Sensible(it), it.conv # "text",
         NEW d \in Int, NEW e \in Int, NEW t \in Seq(Characters), NEW r \in Seq(Arg), NEW q,
         text \in Seq(Characters),
         Between(d, t, q), q = Args(it) \o r, Ahead(fmt, d + 1, e, Spell(it))
  PROVE  Reading(it, e, t, r)'
<1>1. Spell(it) = <<"%">> \o FlagRest(it) /\ FlagRest(it) \in Seq(Characters) /\ "%" \in Characters
  BY RestsAre, Symbols
<1>2. ch = "%" /\ Ahead(fmt, pos + 1, e, FlagRest(it))
  <2>1. Ahead(fmt, pos, e, <<"%">> \o FlagRest(it))
    BY <1>1 DEF Between
  <2> QED BY <1>1, <2>1, ReadOne
<1>3. ap = WidthArgs(it, r)
  BY ArgsAre DEF Between
<1>4. percent
  <2>1. mode = "text"
    BY DEF Between
  <2> QED BY <1>2, <2>1 DEF vprintfmt, plain, finish, flag, alternate, dot, long, digits, star,
              character, error, string, signed, unsigned, pointer, escaped, unrecognized, InSpec
<1>5. pending = <<>> /\ text = t
  <2>1. pending = <<>>
    BY <1>4 DEF percent, InText
  <2> QED BY <2>1, ConcatEmptySeq DEF Between
<1>6. AtFlag(it, e, t, r)'
  BY <1>2, <1>3, <1>4, <1>5 DEF percent, InText, Fresh, AtFlag, Reads
<1> QED BY <1>6, Skips, PTL

----------------------------------------------------------------------------
(* The text of a piece.                                                    *)
LEMMA MeantIs ==
  ASSUME NEW it \in Pieces, Sensible(it)
  PROVE  Meant(it) \in Seq(Characters)
<1>1. it.word \in Seq(Characters) \cup {NULL} /\ it.num \in Nat
  BY PieceFields
<1>2. \A c \in Characters : <<c>> \in Seq(Characters)
  BY One
<1>3. \A x, y \in Seq(Characters) : x \o y \in Seq(Characters)
  BY ConcatProperties
<1>4. \A num \in Nat : \A b \in Bases :
        Positional(num, b) \in Seq(Characters) /\ Field(it, Positional(num, b)) \in Seq(Characters)
  <2> TAKE num \in Nat
  <2> TAKE b \in Bases
  <2>1. b \in Nat /\ b >= 2 /\ b <= 16
    BY DEF Bases
  <2>2. Positional(num, b) \in Seq(Characters)
    BY <2>1, PositionalIs
  <2> QED BY <2>2, FieldIs
<1>5. \A num \in Nat : \A b \in {8, 10, 16} :
        Positional(num, b) \in Seq(Characters) /\ Field(it, Positional(num, b)) \in Seq(Characters)
  BY <1>4 DEF Bases
<1> DEFINE int == Signed(it.num, Size(it.long))
           err == IF int < 0 /\ int # Smallest THEN -int ELSE int
<1>6. int \in Int /\ err \in Int
  <2>1. Size(it.long) \in Nat
    BY WidthAssumption DEF Size
  <2>2. int \in Int
    BY <1>1, <2>1 DEF Signed
  <2> HIDE DEF int
  <2> QED BY <2>2
<1>7. CASE it.conv \in {"text", "c"}
  <2>1. Meant(it) = it.word
    BY <1>7 DEF Meant
  <2>2. it.word # NULL
    BY <1>7 DEF Sensible
  <2> QED BY <1>1, <2>1, <2>2
<1>8. CASE it.conv = "%"
  <2>1. Meant(it) = <<"%">> /\ "%" \in Characters
    BY <1>8, Symbols DEF Meant
  <2> QED BY <1>2, <2>1
<1>9. CASE it.conv = "e"
  <2>1. Meant(it) = IF err \in DOMAIN error_string THEN <<error_string[err]>>
                   ELSE <<"error">> \o Numeral(err)
    BY <1>9, Zenon DEF Meant, Argument
  <2>2. err \in DOMAIN error_string => error_string[err] \in Characters
    BY CharacterAssumption DEF ToSet
  <2>3. "error" \in Characters /\ Numeral(err) \in Seq(Characters)
    BY <1>6, NumeralIs, Symbols
  <2> HIDE DEF err
  <2>4. CASE err \in DOMAIN error_string
    BY <1>2, <2>1, <2>2, <2>4
  <2>5. CASE err \notin DOMAIN error_string
    BY <1>2, <1>3, <2>1, <2>3, <2>5
  <2> QED BY <2>4, <2>5
<1>10. CASE it.conv = "s"
  <2> DEFINE word == IF it.word = NULL THEN <<"(", "n", "u", "l", "l", ")">> ELSE it.word
             kept == IF Given(it.prec) /\ it.prec >= 0 /\ it.prec < Len(word)
                     THEN SubSeq(word, 1, it.prec) ELSE word
             mid == [i \in DOMAIN kept |-> IF it.alt /\ kept[i] \in Unprintable THEN "?" ELSE kept[i]]
  <2>1. Meant(it) = Field(it, mid)
    BY <1>10, Zenon DEF Meant
  <2>2. word \in Seq(Characters)
    <3>1. {"(", "n", "u", "l", ")"} \subseteq Characters
      BY Symbols
    <3>2. <<"(", "n", "u", "l", "l", ")">> \in Seq(Characters)
      BY <3>1
    <3> QED BY <1>1, <3>2
  <2> HIDE DEF word
  <2>3. kept \in Seq(Characters)
    <3>1. it.prec \in Int \cup {NULL}
      BY PieceFields
    <3> QED BY <2>2, <3>1 DEF Given
  <2> HIDE DEF kept
  <2>4. mid \in Seq(Characters)
    <3>1. "?" \in Characters /\ DOMAIN kept = 1 .. Len(kept) /\ Len(kept) \in Nat
      BY <2>3, Symbols, LenProperties
    <3>2. \A i \in DOMAIN kept : kept[i] \in Characters
      BY <2>3, <3>1, ElementOfSeq
    <3>3. mid \in [1 .. Len(kept) -> Characters]
      BY <3>1, <3>2
    <3> HIDE DEF mid
    <3> QED BY <3>1, <3>3, SeqDef
  <2> HIDE DEF mid
  <2> QED BY <2>1, <2>4, FieldIs
<1>11. CASE it.conv = "d"
  <2>1. Meant(it) = Field(it, Numeral(int))
    BY <1>11, Zenon DEF Meant, Argument
  <2>2. Numeral(int) \in Seq(Characters)
    BY <1>6, NumeralIs
  <2> HIDE DEF int
  <2> QED BY <2>1, <2>2, FieldIs
<1>12. CASE it.conv \in {"u", "o", "x"}
  <2>1. Meant(it) \in {Field(it, Positional(it.num, b)) : b \in {8, 10, 16}}
    BY <1>12 DEF Meant
  <2> QED BY <1>1, <1>5, <2>1
<1>13. CASE it.conv = "p"
  <2>1. Meant(it) = <<"0", "x">> \o Field(it, Positional(it.num, 16))
    BY <1>13 DEF Meant
  <2>2. "0" \in Characters /\ "x" \in Characters
    BY Symbols
  <2>3. <<"0", "x">> \in Seq(Characters)
    BY <2>2
  <2>4. Field(it, Positional(it.num, 16)) \in Seq(Characters)
    BY <1>1, <1>5
  <2> QED BY <1>3, <2>1, <2>3, <2>4
<1>14. CASE it.conv \notin Conversions /\ it.conv # "text"
  <2>1. Spell(it) \in Seq(Characters)
    <3>1. Spell(it) = <<"%">> \o FlagRest(it) /\ FlagRest(it) \in Seq(Characters) /\ "%" \in Characters
      BY <1>14, RestsAre, Symbols
    <3> QED BY <1>2, <1>3, <3>1
  <2> QED BY <1>14, <2>1, RestOrdinary
<1> QED BY <1>7, <1>8, <1>9, <1>10, <1>11, <1>12, <1>13, <1>14 DEF Conversions

LEMMA SpellIs ==
  ASSUME NEW it \in Pieces, Sensible(it)
  PROVE  Spell(it) \in Seq(Characters)
<1>1. CASE it.conv = "text"
  <2>1. it.word \in Seq(Characters) \cup {NULL}
    BY PieceFields
  <2> QED BY <1>1, <2>1 DEF Spell, Sensible
<1>2. CASE it.conv # "text"
  <2>1. Spell(it) = <<"%">> \o FlagRest(it) /\ FlagRest(it) \in Seq(Characters) /\ "%" \in Characters
    BY <1>2, RestsAre, Symbols
  <2> QED BY <2>1, ConsIs
<1> QED BY <1>1, <1>2

(* Where the parts of a sequence of sequences are.                         *)
Parts(s, q, d) ==
  /\ d[0] = 0 /\ d[Len(s)] = Len(q) /\ \A j \in 0 .. Len(s) : d[j] \in 0 .. Len(q)
  /\ \A j \in 1 .. Len(s) : /\ d[j] = d[j - 1] + Len(s[j])
                            /\ \A k \in 1 .. Len(s[j]) : q[d[j - 1] + k] = s[j][k]

LEMMA FlattenParts ==
  ASSUME NEW S, NEW s \in Seq(Seq(S))
  PROVE  FlattenSeq(s) \in Seq(S) /\ \E d : Parts(s, FlattenSeq(s), d)
<1> DEFINE N == Len(s)
           q == FlattenSeq(s)
<1>0. N \in Nat /\ \A j \in 1 .. N : s[j] \in Seq(S)
  BY LenProperties, ElementOfSeq
<1>1. PICK F : /\ F[0] = <<>> /\ q = F[N]
               /\ \A n \in Nat : F[n] \in Seq(S)
               /\ \A n \in 1 .. N : F[n] = F[n - 1] \o s[n]
  <2>1. \E F : /\ F[0] = <<>> /\ FlattenSeq(s) = F[Len(s)]
               /\ \A n \in Nat : F[n] \in Seq(S)
               /\ \A n \in 1 .. Len(s) : F[n] = F[n - 1] \o s[n]
    BY FlattenIs
  <2> QED BY <2>1, Zenon
<1> HIDE DEF q
<1>2. ASSUME NEW n \in 1 .. N
      PROVE  /\ Len(F[n]) = Len(F[n - 1]) + Len(s[n]) /\ Len(s[n]) \in Nat
             /\ Len(F[n - 1]) \in Nat /\ Len(F[n]) \in Nat
             /\ \A k \in 1 .. Len(F[n - 1]) : F[n][k] = F[n - 1][k]
             /\ \A k \in 1 .. Len(s[n]) : F[n][Len(F[n - 1]) + k] = s[n][k]
  <2> DEFINE x == F[n - 1]
             y == s[n]
             z == F[n]
  <2>1. x \in Seq(S) /\ y \in Seq(S) /\ z = x \o y /\ z \in Seq(S)
    <3>1. n - 1 \in Nat /\ n \in Nat
      BY <1>0
    <3> QED BY <1>0, <1>1, <3>1
  <2> HIDE DEF x, y, z
  <2>2. /\ Len(x \o y) = Len(x) + Len(y) /\ Len(x) \in Nat /\ Len(y) \in Nat
        /\ \A i \in 1 .. Len(x) + Len(y) : (x \o y)[i] = IF i <= Len(x) THEN x[i] ELSE y[i - Len(x)]
    BY <2>1, ConcatProperties, LenProperties
  <2>3. \A k \in 1 .. Len(x) : z[k] = x[k]
    BY <2>1, <2>2
  <2>4. ASSUME NEW k \in 1 .. Len(y) PROVE z[Len(x) + k] = y[k]
    <3>1. Len(x) + k \in 1 .. Len(x) + Len(y) /\ ~ (Len(x) + k <= Len(x)) /\ (Len(x) + k) - Len(x) = k
      BY <2>2
    <3> QED BY <2>1, <2>2, <3>1
  <2>5. Len(z) = Len(x) + Len(y) /\ Len(z) \in Nat
    BY <2>1, <2>2
  <2> QED BY <2>2, <2>3, <2>4, <2>5 DEF x, y, z
<1> DEFINE I(j) == {m \in Nat : j <= m /\ m <= N =>
                      /\ Len(F[j]) <= Len(F[m])
                      /\ \A k \in 1 .. Len(F[j]) : F[m][k] = F[j][k]}
<1>3. ASSUME NEW j \in 0 .. N PROVE Nat \subseteq I(j)
  <2>0. Len(F[j]) \in Nat
    <3>1. F[j] \in Seq(S)
      BY <1>0, <1>1
    <3> QED BY <3>1
  <2>1. 0 \in I(j)
    <3>1. CASE j = 0
      BY <3>1, <2>0
    <3>2. CASE j # 0
      BY <1>0, <3>2
    <3> QED BY <3>1, <3>2
  <2>2. ASSUME NEW m \in Nat, m \in I(j) PROVE m + 1 \in I(j)
    <3> SUFFICES ASSUME j <= m + 1, m + 1 <= N
                 PROVE  /\ Len(F[j]) <= Len(F[m + 1])
                        /\ \A k \in 1 .. Len(F[j]) : F[m + 1][k] = F[j][k]
      OBVIOUS
    <3>1. CASE j = m + 1
      BY <2>0, <3>1
    <3>2. CASE j # m + 1
      <4>1. j <= m /\ m <= N /\ m + 1 \in 1 .. N /\ (m + 1) - 1 = m
        BY <1>0, <3>2
      <4>2. Len(F[j]) <= Len(F[m]) /\ \A k \in 1 .. Len(F[j]) : F[m][k] = F[j][k]
        BY <2>2, <4>1
      <4> DEFINE n == m + 1
                 x == F[n - 1]
                 y == s[n]
                 z == F[n]
      <4>3. /\ Len(z) = Len(x) + Len(y) /\ Len(y) \in Nat /\ Len(x) \in Nat
            /\ \A k \in 1 .. Len(x) : z[k] = x[k]
        <5>1. n \in 1 .. N
          BY <4>1
        <5> HIDE DEF n
        <5> QED BY <1>2, <5>1
      <4>4. x = F[m]
        BY <4>1
      <4> HIDE DEF x, y, z
      <4>5. Len(F[j]) <= Len(z) /\ \A k \in 1 .. Len(F[j]) : z[k] = F[j][k]
        BY <2>0, <4>2, <4>3, <4>4
      <4> QED BY <4>5 DEF z
    <3> QED BY <3>1, <3>2
  <2> HIDE DEF I
  <2> QED BY <2>1, <2>2, SetInduction
<1>4. ASSUME NEW j \in 0 .. N PROVE /\ Len(F[j]) \in 0 .. Len(q)
                                    /\ \A k \in 1 .. Len(F[j]) : q[k] = F[j][k]
  <2>1. N \in I(j)
    BY <1>0, <1>3
  <2>2. Len(F[j]) \in Nat
    <3>1. F[j] \in Seq(S)
      BY <1>0, <1>1
    <3> QED BY <3>1
  <2>3. Len(q) \in Nat
    BY <1>0, <1>1
  <2> QED BY <1>0, <1>1, <2>1, <2>2, <2>3
<1> DEFINE d == [j \in 0 .. N |-> Len(F[j])]
<1>5. d[0] = 0 /\ d[N] = Len(q) /\ \A j \in 0 .. N : d[j] \in 0 .. Len(q)
  BY <1>0, <1>1, <1>4
<1>6. ASSUME NEW j \in 1 .. N PROVE /\ d[j] = d[j - 1] + Len(s[j])
                                    /\ \A k \in 1 .. Len(s[j]) : q[d[j - 1] + k] = s[j][k]
  <2>1. j \in 0 .. N /\ j - 1 \in 0 .. N
    BY <1>0
  <2>2. d[j] = Len(F[j]) /\ d[j - 1] = Len(F[j - 1])
    BY <2>1
  <2> HIDE DEF d
  <2>3. /\ Len(F[j]) = Len(F[j - 1]) + Len(s[j]) /\ Len(s[j]) \in Nat /\ Len(F[j - 1]) \in Nat
        /\ \A k \in 1 .. Len(s[j]) : F[j][Len(F[j - 1]) + k] = s[j][k]
    BY <1>2
  <2>4. ASSUME NEW k \in 1 .. Len(s[j]) PROVE q[d[j - 1] + k] = s[j][k]
    <3> DEFINE a == Len(F[j - 1])
               b == Len(F[j])
               l == Len(s[j])
    <3>1. a + k \in 1 .. b
      <4>1. b = a + l /\ l \in Nat /\ a \in Nat /\ k \in 1 .. l
        BY <2>3
      <4> HIDE DEF a, b, l
      <4> QED BY <4>1
    <3> QED BY <1>4, <2>1, <2>2, <2>3, <3>1
  <2> QED BY <2>2, <2>3, <2>4
<1>7. q \in Seq(S)
  BY <1>0, <1>1
<1> HIDE DEF d
<1>8. Parts(s, q, d)
  BY <1>5, <1>6 DEF Parts
<1> QED BY <1>7, <1>8 DEF q

(* What is left of it after each part.                                     *)
Rests(s, q, S, R) ==
  /\ R[0] = q /\ R[Len(s)] = <<>>
  /\ \A j \in 0 .. Len(s) : R[j] \in Seq(S)
  /\ \A j \in 1 .. Len(s) : R[j - 1] = s[j] \o R[j]

LEMMA PartsRest ==
  ASSUME NEW S, NEW s \in Seq(Seq(S)), NEW q \in Seq(S), NEW d, Parts(s, q, d)
  PROVE  \E R : Rests(s, q, S, R)
<1> DEFINE N == Len(s)
           L == Len(q)
           R == [j \in 0 .. N |-> SubSeq(q, d[j] + 1, L)]
<1>0. N \in Nat /\ L \in Nat /\ \A j \in 1 .. N : s[j] \in Seq(S)
  BY LenProperties, ElementOfSeq
<1>1. /\ d[0] = 0 /\ d[N] = L /\ \A j \in 0 .. N : d[j] \in 0 .. L
      /\ \A j \in 1 .. N : /\ d[j] = d[j - 1] + Len(s[j])
                           /\ \A k \in 1 .. Len(s[j]) : q[d[j - 1] + k] = s[j][k]
  BY DEF Parts
<1> HIDE DEF N
<1>2. ASSUME NEW j \in 0 .. N
      PROVE  /\ R[j] = SubSeq(q, d[j] + 1, L) /\ R[j] \in Seq(S) /\ Len(R[j]) = L - d[j]
             /\ \A k \in 1 .. L - d[j] : R[j][k] = q[d[j] + k]
  <2>1. d[j] \in 0 .. L
    BY <1>1
  <2> DEFINE m == d[j]
             x == SubSeq(q, m + 1, L)
  <2>2. m \in 0 .. L /\ L = Len(q) /\ R[j] = x
    BY <2>1
  <2> HIDE DEF m, R, L
  <2>3. x \in Seq(S) /\ Len(x) = L - m /\ \A k \in 1 .. L - m : x[k] = q[m + k]
    <3> DEFINE i0 == m + 1
    <3>1. i0 \in Int /\ L \in Int /\ m \in Int /\ i0 = m + 1 /\ m <= L /\ m >= 0
      BY <1>0, <2>2
    <3>2. \A i \in i0 .. L : q[i] \in S
      <4>1. \A i \in i0 .. L : i \in 1 .. Len(q)
        BY <2>2, <3>1
      <4> QED BY <4>1, ElementOfSeq
    <3>3. x = SubSeq(q, i0, L)
      OBVIOUS
    <3> HIDE DEF i0, x
    <3>4. /\ x \in Seq(S) /\ Len(x) = IF i0 <= L THEN L - i0 + 1 ELSE 0
          /\ \A i \in 1 .. L - i0 + 1 : x[i] = q[i0 + i - 1]
      BY <3>1, <3>2, <3>3, SubSeqProperties
    <3>5. Len(x) = L - m
      BY <3>1, <3>4
    <3>6. \A i \in 1 .. L - m : x[i] = q[m + i]
      <4> TAKE i \in 1 .. L - m
      <4>1. i \in 1 .. L - i0 + 1 /\ i0 + i - 1 = m + i
        BY <3>1
      <4>2. x[i] = q[i0 + i - 1]
        BY <3>4, <4>1
      <4> QED BY <4>1, <4>2
    <3> QED BY <3>4, <3>5, <3>6
  <2> QED BY <2>2, <2>3 DEF m
<1> HIDE DEF R
<1>3. R[0] = q
  <2>1. 0 \in 0 .. N
    BY <1>0
  <2>2. /\ R[0] \in Seq(S) /\ Len(R[0]) = L - d[0]
        /\ \A k \in 1 .. L - d[0] : R[0][k] = q[d[0] + k]
    BY <1>2, <2>1
  <2>3. Len(R[0]) = L /\ \A k \in 1 .. L : R[0][k] = q[k]
    BY <1>0, <1>1, <2>2
  <2> QED BY <2>2, <2>3, SeqEqual
<1>4. R[N] = <<>>
  <2>1. N \in 0 .. N
    BY <1>0
  <2>2. R[N] \in Seq(S) /\ Len(R[N]) = L - d[N]
    BY <1>2, <2>1
  <2>3. Len(R[N]) = 0
    BY <1>0, <1>1, <2>2
  <2> QED BY <2>2, <2>3
<1>5. ASSUME NEW j \in 1 .. N PROVE R[j - 1] = s[j] \o R[j]
  <2> DEFINE a == d[j - 1]
             b == d[j]
             x == s[j]
             y == R[j]
             z == R[j - 1]
  <2>1. j \in 0 .. N /\ j - 1 \in 0 .. N
    BY <1>0
  <2>2. /\ y \in Seq(S) /\ Len(y) = L - b /\ \A k \in 1 .. L - b : y[k] = q[b + k]
        /\ a \in 0 .. L /\ b \in 0 .. L
    BY <1>1, <1>2, <2>1
  <2>3. z \in Seq(S) /\ Len(z) = L - a /\ \A k \in 1 .. L - a : z[k] = q[a + k]
    BY <1>2, <2>1
  <2>4. x \in Seq(S) /\ b = a + Len(x) /\ Len(x) \in Nat /\ \A k \in 1 .. Len(x) : q[a + k] = x[k]
    BY <1>0, <1>1
  <2> HIDE DEF a, b, x, y, z, L
  <2>5. /\ x \o y \in Seq(S) /\ Len(x \o y) = Len(x) + Len(y)
        /\ \A i \in 1 .. Len(x) + Len(y) : (x \o y)[i] = IF i <= Len(x) THEN x[i] ELSE y[i - Len(x)]
    <3>1. x \in Seq(S) /\ y \in Seq(S)
      BY <2>2, <2>4
    <3> QED BY <3>1, ConcatProperties
  <2> DEFINE u == x \o y
  <2>6. u \in Seq(S) /\ Len(u) = Len(z)
    BY <1>0, <2>2, <2>3, <2>4, <2>5
  <2>7. ASSUME NEW i \in 1 .. Len(z) PROVE u[i] = z[i]
    <3>1. i \in 1 .. L - a /\ i \in 1 .. Len(x) + Len(y) /\ z[i] = q[a + i]
      BY <1>0, <2>2, <2>3, <2>4
    <3>2. CASE i <= Len(x)
      <4>1. i \in 1 .. Len(x)
        BY <3>1, <3>2, <2>4
      <4> QED BY <2>4, <2>5, <3>1, <3>2, <4>1
    <3>3. CASE ~ (i <= Len(x))
      <4>1. i - Len(x) \in 1 .. L - b /\ b + (i - Len(x)) = a + i
        BY <1>0, <2>2, <2>4, <3>1, <3>3
      <4>2. y[i - Len(x)] = q[a + i]
        BY <2>2, <4>1
      <4> QED BY <2>5, <3>1, <3>3, <4>2
    <3> QED BY <3>2, <3>3
  <2> HIDE DEF u
  <2>8. u = z
    BY <2>3, <2>6, <2>7, SeqEqual
  <2> QED BY <2>8 DEF u, x, y, z
<1>6. \A j \in 0 .. N : R[j] \in Seq(S)
  BY <1>2
<1> QED BY <1>3, <1>4, <1>5, <1>6 DEF N, Rests

----------------------------------------------------------------------------
(* The call ps with the format f: where its pieces end, the arguments that *)
(* each leaves to the next, and the text up to each.                       *)
Outline(ps, f, d, R, T) ==
  /\ ps \in Seq(Pieces) /\ f \in Seq(Characters) /\ d[0] = 0 /\ d[Len(ps)] = Len(f)
  /\ \A j \in 0 .. Len(ps) : d[j] \in Nat /\ R[j] \in Seq(Arg) /\ T[j] \in Seq(Characters)
  /\ \A j \in 1 .. Len(ps) :
       /\ Sensible(ps[j]) /\ (ps[j].conv = "end" => j = Len(ps))
       /\ Ahead(f, d[j - 1] + 1, d[j], Spell(ps[j]))
       /\ R[j - 1] = Args(ps[j]) \o R[j] /\ T[j] = T[j - 1] \o Meant(ps[j])
  /\ T[0] = <<>> /\ T[Len(ps)] = FlattenSeq([i \in DOMAIN ps |-> Meant(ps[i])])

LEMMA OutlineExists ==
  ASSUME NEW ps \in Calls, NEW f, f = FlattenSeq([i \in DOMAIN ps |-> Spell(ps[i])]),
         NEW a, a = FlattenSeq([i \in DOMAIN ps |-> Args(ps[i])])
  PROVE  \E d, R, T : Outline(ps, f, d, R, T) /\ R[0] = a
<1> DEFINE N == Len(ps)
           s1 == [i \in DOMAIN ps |-> Spell(ps[i])]
           s2 == [i \in DOMAIN ps |-> Args(ps[i])]
           s3 == [i \in DOMAIN ps |-> Meant(ps[i])]
<1>1. /\ ps \in Seq(Pieces) /\ N \in Nat /\ DOMAIN ps = 1 .. N
      /\ \A j \in 1 .. N : /\ ps[j] \in Pieces /\ Sensible(ps[j])
                           /\ ps[j].conv = "end" => j = N
  <2>1. ps \in Seq(Pieces)
        /\ \A i \in DOMAIN ps : Sensible(ps[i]) /\ (ps[i].conv = "end" => i = Len(ps))
    BY PieceAssumption
  <2>2. Len(ps) \in Nat /\ DOMAIN ps = 1 .. Len(ps) /\ \A j \in 1 .. Len(ps) : ps[j] \in Pieces
    BY <2>1, LenProperties, ElementOfSeq
  <2> QED BY <2>1, <2>2
<1> HIDE DEF N
<1>2. /\ \A j \in 1 .. N : Spell(ps[j]) \in Seq(Characters) /\ Meant(ps[j]) \in Seq(Characters)
      /\ \A j \in 1 .. N : Args(ps[j]) \in Seq(Arg)
  <2>1. \A it \in Pieces : Sensible(it) => Spell(it) \in Seq(Characters) /\ Meant(it) \in Seq(Characters)
    BY SpellIs, MeantIs
  <2>2. \A it \in Pieces : Sensible(it) => Args(it) \in Seq(Arg)
    <3> TAKE it \in Pieces
    <3>1. <<>> \in Seq(Arg)
      BY EmptySeq
    <3> QED BY <3>1, ArgsAre
  <2> QED BY <1>1, <2>1, <2>2
<1>3. \A S : \A g \in [1 .. N -> S] : g \in Seq(S) /\ Len(g) = N
  BY <1>1, SeqDef, LenProperties
<1>4. /\ s1 \in [1 .. N -> Seq(Characters)] /\ s2 \in [1 .. N -> Seq(Arg)]
      /\ s3 \in [1 .. N -> Seq(Characters)]
      /\ \A j \in 1 .. N : s1[j] = Spell(ps[j]) /\ s2[j] = Args(ps[j]) /\ s3[j] = Meant(ps[j])
  BY <1>1, <1>2
<1> HIDE DEF s1, s2, s3
<1>5. s1 \in Seq(Seq(Characters)) /\ Len(s1) = N /\ s2 \in Seq(Seq(Arg)) /\ Len(s2) = N
      /\ s3 \in Seq(Seq(Characters)) /\ Len(s3) = N
  BY <1>3, <1>4
<1>6. /\ FlattenSeq(s1) \in Seq(Characters) /\ \E d : Parts(s1, FlattenSeq(s1), d)
      /\ FlattenSeq(s2) \in Seq(Arg) /\ \E d : Parts(s2, FlattenSeq(s2), d)
  BY <1>5, FlattenParts
<1>7. f = FlattenSeq(s1) /\ a = FlattenSeq(s2)
  BY DEF s1, s2
<1>8. PICK d : Parts(s1, f, d)
  BY <1>6, <1>7
<1>9. PICK b : Parts(s2, a, b)
  BY <1>6, <1>7
<1>10. PICK R : /\ R[0] = a /\ R[N] = <<>>
                /\ \A j \in 0 .. N : R[j] \in Seq(Arg)
                /\ \A j \in 1 .. N : R[j - 1] = s2[j] \o R[j]
  <2>1. a \in Seq(Arg)
    BY <1>6, <1>7
  <2>2. \E R : Rests(s2, a, Arg, R)
    BY <1>5, <1>9, <2>1, PartsRest
  <2> QED BY <1>5, <2>2 DEF Rests
<1>11. PICK T : /\ T[0] = <<>> /\ FlattenSeq(s3) = T[N]
                /\ \A n \in Nat : T[n] \in Seq(Characters)
                /\ \A n \in 1 .. N : T[n] = T[n - 1] \o s3[n]
  <2>1. \E T : /\ T[0] = <<>> /\ FlattenSeq(s3) = T[Len(s3)]
               /\ \A n \in Nat : T[n] \in Seq(Characters)
               /\ \A n \in 1 .. Len(s3) : T[n] = T[n - 1] \o s3[n]
    BY <1>5, FlattenIs
  <2> QED BY <1>5, <2>1
<1>12. ASSUME NEW j \in 1 .. N PROVE Ahead(f, d[j - 1] + 1, d[j], Spell(ps[j]))
  <2> DEFINE s == Spell(ps[j])
             x == d[j - 1]
             y == d[j]
  <2>1. /\ x \in Nat /\ y \in 0 .. Len(f) /\ y = x + Len(s)
        /\ \A k \in 1 .. Len(s) : f[x + k] = s[k]
    <3>1. j \in 0 .. N /\ j - 1 \in 0 .. N /\ s1[j] = s
      BY <1>1, <1>4
    <3> HIDE DEF s
    <3>2. /\ \A i \in 0 .. N : d[i] \in 0 .. Len(f)
          /\ y = x + Len(s) /\ \A k \in 1 .. Len(s) : f[x + k] = s[k]
      BY <1>5, <1>8, <3>1 DEF Parts
    <3> HIDE DEF x, y
    <3>3. d[j - 1] \in 0 .. Len(f) /\ d[j] \in 0 .. Len(f)
      BY <3>1, <3>2
    <3> QED BY <3>2, <3>3 DEF x, y
  <2>2. s \in Seq(Characters) /\ Len(f) \in Nat
    BY <1>2, <1>6, <1>7
  <2> HIDE DEF s, x, y
  <2>3. x + 1 \in Nat \ {0} /\ (x + 1) - 1 = x /\ y <= Len(f)
    BY <2>1, <2>2
  <2>4. Ahead(f, x + 1, y, s)
    BY <2>1, <2>2, <2>3 DEF Ahead
  <2> QED BY <2>4 DEF x, y, s
<1>13. d[0] = 0 /\ d[N] = Len(f) /\ \A j \in 0 .. N : d[j] \in Nat
  <2>1. d[0] = 0 /\ d[N] = Len(f) /\ \A j \in 0 .. N : d[j] \in 0 .. Len(f)
    BY <1>5, <1>8 DEF Parts
  <2> QED BY <2>1
<1>14. Outline(ps, f, d, R, T)
  <2>1. \A j \in 0 .. N : d[j] \in Nat /\ R[j] \in Seq(Arg) /\ T[j] \in Seq(Characters)
    BY <1>1, <1>10, <1>11, <1>13
  <2>2. \A j \in 1 .. N : R[j - 1] = Args(ps[j]) \o R[j] /\ T[j] = T[j - 1] \o Meant(ps[j])
    BY <1>4, <1>10, <1>11
  <2>3. T[N] = FlattenSeq([i \in DOMAIN ps |-> Meant(ps[i])])
    BY <1>11 DEF s3
  <2>4. f \in Seq(Characters)
    BY <1>6, <1>7
  <2> QED BY <1>1, <1>11, <1>12, <1>13, <2>1, <2>2, <2>3, <2>4 DEF Outline, N
<1> QED BY <1>10, <1>14

(* How far the call is.                                                    *)
Stage(ps, d, R, T) ==
  \/ mode = "done" /\ (text = T[Len(ps)] \/ out.ret = -E_INVAL)
  \/ \E j \in 0 .. Len(ps) : Between(d[j], T[j], R[j])
  \/ \E j \in 1 .. Len(ps) : /\ ps[j].conv # "text"
                             /\ Reading(ps[j], d[j], T[j - 1], R[j])
  \/ \E j \in 1 .. Len(ps) : Plainly(ps[j], d[j], T[j - 1], R[j])

TextInv ==
  /\ text \in Seq(Characters) /\ pending \in Seq(Characters)
  /\ \E ps, f, d, R, T : pieces = ps /\ fmt = f /\ Outline(ps, f, d, R, T) /\ Stage(ps, d, R, T)

LEMMA PutchStep ==
  ASSUME text \in Seq(Characters), pending \in Seq(Characters), putch,
         NEW ps, NEW d, NEW R, NEW T, Stage(ps, d, R, T)
  PROVE  Stage(ps, d, R, T)' /\ text' \in Seq(Characters) /\ pending' \in Seq(Characters)
<1>1. /\ mode # "done" /\ pending # <<>> /\ pending' = Tail(pending)
      /\ text' = Append(text, Head(pending)) /\ UNCHANGED <<fmt, pos, ap, spec, mode>>
  BY DEF putch
<1> DEFINE c == Head(pending)
           s == Tail(pending)
<1>2. c \in Characters /\ s \in Seq(Characters) /\ text' \in Seq(Characters)
  BY <1>1, HeadTailProperties, AppendProperties
<1>3. text' \o pending' = text \o pending
  <2> DEFINE x == <<c>>
  <2>1. pending = x \o s
    BY <1>1
  <2>2. text' = text \o x
    BY <1>1, <1>2, AppendIsConcat
  <2>3. Three(text, x, s, Characters)
    BY <1>2, One DEF Three
  <2> HIDE DEF c, s, x
  <2>4. text' \o s = text \o pending
    BY <2>1, <2>2, <2>3, Shift
  <2> QED BY <1>1, <2>4 DEF s
<1>4. ASSUME NEW e, NEW t, NEW r, Between(e, t, r) PROVE Between(e, t, r)'
  BY <1>1, <1>3, <1>4 DEF Between
<1>5. ASSUME NEW it, NEW e, NEW t, NEW r, Plainly(it, e, t, r) PROVE Plainly(it, e, t, r)'
  BY <1>1, <1>2, <1>3, <1>5 DEF Plainly, PlainRest
<1>6. ASSUME NEW it, NEW e, NEW t, NEW r, Reading(it, e, t, r) PROVE FALSE
  BY <1>1, <1>6 DEF Reading, AtFlag, AtAlt, AtWidth, AtDot, AtPrec, AtLong, Reads
<1> QED BY <1>1, <1>2, <1>4, <1>5, <1>6 DEF Stage

LEMMA PrintStep ==
  ASSUME text \in Seq(Characters), pending \in Seq(Characters), vprintfmt,
         NEW ps, NEW f, NEW d, NEW R, NEW T, Outline(ps, f, d, R, T), fmt = f, Stage(ps, d, R, T)
  PROVE  Stage(ps, d, R, T)' /\ text' \in Seq(Characters) /\ pending' \in Seq(Characters)
<1> DEFINE N == Len(ps)
           Next1 == Stage(ps, d, R, T)' /\ pending' \in Seq(Characters)
<1>1. /\ N \in Nat /\ f \in Seq(Characters) /\ d[N] = Len(f) /\ fmt \in Seq(Characters)
      /\ \A j \in 0 .. N : d[j] \in Nat /\ R[j] \in Seq(Arg) /\ T[j] \in Seq(Characters)
      /\ T[N] = T[Len(ps)]
  BY DEF Outline
<1>2. ASSUME NEW j \in 1 .. N
      PROVE  /\ ps[j] \in Pieces /\ Sensible(ps[j]) /\ (ps[j].conv = "end" => d[j] = Len(fmt))
             /\ d[j - 1] \in Int /\ d[j] \in Int /\ T[j - 1] \in Seq(Characters)
             /\ R[j] \in Seq(Arg) /\ T[j] = T[j - 1] \o Meant(ps[j])
             /\ Ahead(fmt, d[j - 1] + 1, d[j], Spell(ps[j])) /\ R[j - 1] = Args(ps[j]) \o R[j]
  <2>1. j \in 0 .. N /\ j - 1 \in 0 .. N
    BY <1>1
  <2>2. ps[j] \in Pieces
    BY ElementOfSeq DEF Outline
  <2>3. /\ Sensible(ps[j]) /\ (ps[j].conv = "end" => j = N)
        /\ Ahead(fmt, d[j - 1] + 1, d[j], Spell(ps[j]))
        /\ R[j - 1] = Args(ps[j]) \o R[j] /\ T[j] = T[j - 1] \o Meant(ps[j])
    BY DEF Outline
  <2> QED BY <1>1, <2>1, <2>2, <2>3
<1>3. text' = text
  BY DEF vprintfmt, plain, percent, finish, flag, alternate, dot, long, digits, star, character,
         error, string, signed, unsigned, pointer, escaped, unrecognized, Reswitch, Convert, Emit
<1>4. ASSUME NEW j \in 1 .. N, Plainly(ps[j], d[j], T[j - 1], R[j])' PROVE Next1
  <2>1. pending' \in Seq(Characters)
    BY <1>4 DEF Plainly, PlainRest
  <2> QED BY <1>4, <2>1 DEF Stage
<1>5. ASSUME NEW j \in 1 .. N, ps[j].conv # "text", Reading(ps[j], d[j], T[j - 1], R[j])' PROVE Next1
  <2>1. pending' = <<>>
    BY <1>5 DEF Reading, AtFlag, AtAlt, AtWidth, AtDot, AtPrec, AtLong, Reads
  <2>2. <<>> \in Seq(Characters)
    BY EmptySeq
  <2> QED BY <1>5, <2>1, <2>2 DEF Stage
<1>6. ASSUME NEW j \in 1 .. N, ps[j].conv # "text", Ended(ps[j], d[j], T[j - 1], R[j])' PROVE Next1
  <2>1. pending' = Meant(ps[j]) /\ Between(d[j], T[j], R[j])'
    BY <1>2, <1>6 DEF Ended, Between
  <2>2. Meant(ps[j]) \in Seq(Characters)
    BY <1>2, MeantIs
  <2>3. j \in 0 .. N
    BY <1>1
  <2> QED BY <2>1, <2>2, <2>3 DEF Stage
<1>7. ASSUME NEW j \in 0 .. N, Between(d[j], T[j], R[j]) PROVE Next1
  <2>1. CASE j = N
    <3>1. mode = "text" /\ pos = Len(fmt) + 1 /\ ch = "NUL"
      BY <1>1, <1>7, <2>1 DEF Between, ch
    <3>2. finish
      BY <3>1 DEF vprintfmt, plain, percent, flag, alternate, dot, long, digits, star, character,
                  error, string, signed, unsigned, pointer, escaped, unrecognized, InSpec
    <3>3. pending = <<>> /\ pending' = pending /\ mode' = "done"
      BY <3>2 DEF finish, InText
    <3>4. text = T[N]
      BY <1>7, <2>1, <3>3, ConcatEmptySeq DEF Between
    <3> QED BY <1>3, <3>3, <3>4 DEF Stage
  <2>2. CASE j # N
    <3> DEFINE k == j + 1
    <3>1. k \in 1 .. N /\ k - 1 = j
      BY <1>1, <2>2
    <3>2. Between(d[k - 1], T[k - 1], R[k - 1])
      BY <1>7, <3>1
    <3> HIDE DEF k
    <3> DEFINE it == ps[k]
               e == d[k]
               t == T[k - 1]
               r == R[k]
               c == d[k - 1]
               q == R[k - 1]
    <3>3. /\ it \in Pieces /\ Sensible(it) /\ c \in Int /\ e \in Int /\ t \in Seq(Characters)
          /\ r \in Seq(Arg) /\ Ahead(fmt, c + 1, e, Spell(it)) /\ q = Args(it) \o r
          /\ Between(c, t, q)
      BY <1>2, <3>1, <3>2
    <3>4. CASE it.conv = "text"
      <4> HIDE DEF it, e, t, r, c, q
      <4>1. Plainly(it, e, t, r) /\ pos <= e
        BY <1>1, <3>3, <3>4, WordBegins
      <4>2. Plainly(it, e, t, r)'
        BY <1>1, <3>3, <4>1, PlainTaken
      <4> QED BY <1>4, <3>1, <4>2 DEF it, e, t, r
    <3>5. CASE it.conv # "text"
      <4> HIDE DEF it, e, t, r, c, q
      <4>1. Reading(it, e, t, r)'
        BY <1>1, <3>3, <3>5, PercentTaken
      <4> QED BY <1>5, <3>1, <3>5, <4>1 DEF it, e, t, r
    <3> QED BY <3>4, <3>5
  <2> QED BY <2>1, <2>2
<1>8. ASSUME NEW j \in 1 .. N, ps[j].conv # "text", Reading(ps[j], d[j], T[j - 1], R[j]) PROVE Next1
  <2> DEFINE it == ps[j]
             e == d[j]
             t == T[j - 1]
             r == R[j]
             i == d[j - 1] + 1
  <2>1. /\ it \in Pieces /\ Sensible(it) /\ e \in Int /\ t \in Seq(Characters) /\ r \in Seq(Arg)
        /\ Ahead(fmt, i, e, Spell(it)) /\ (it.conv = "end" => e = Len(fmt))
        /\ it.conv # "text" /\ Reading(it, e, t, r)
    BY <1>2, <1>8
  <2> HIDE DEF it, e, t, r, i
  <2>2. Reading(it, e, t, r)' \/ Ended(it, e, t, r)' \/ Plainly(it, e, t, r)'
    BY <1>1, <2>1, ReadingTaken
  <2> QED BY <1>4, <1>5, <1>6, <1>8, <2>2 DEF it, e, t, r
<1>9. ASSUME NEW j \in 1 .. N, Plainly(ps[j], d[j], T[j - 1], R[j]) PROVE Next1
  <2> DEFINE it == ps[j]
             e == d[j]
             t == T[j - 1]
             r == R[j]
  <2>1. e \in Int /\ Plainly(it, e, t, r) /\ T[j] = t \o Meant(it) /\ j \in 0 .. N
    <3>1. Plainly(it, e, t, r)
      BY <1>9
    <3>2. e \in Int /\ T[j] = t \o Meant(it)
      BY <1>2
    <3> HIDE DEF it, e, t, r
    <3> QED BY <1>1, <3>1, <3>2
  <2> HIDE DEF it, e, t, r
  <2>2. CASE pos <= e
    <3>1. Plainly(it, e, t, r)'
      BY <1>1, <2>1, <2>2, PlainTaken
    <3> QED BY <1>4, <3>1 DEF it, e, t, r
  <2>3. CASE ~ (pos <= e)
    <3>1. Between(e, t \o Meant(it), r)
      BY <2>1, <2>3, PlainOver
    <3>2. Between(d[j], T[j], R[j])
      BY <2>1, <3>1 DEF e, r
    <3> QED BY <1>7, <2>1, <3>2
  <2> QED BY <2>2, <2>3
<1>10. mode # "done"
  BY DEF vprintfmt, plain, percent, finish, flag, alternate, dot, long, digits, star, character,
         error, string, signed, unsigned, pointer, escaped, unrecognized, InText, InSpec
<1>11. Next1
  <2> HIDE DEF Next1
  <2> QED BY <1>7, <1>8, <1>9, <1>10 DEF Stage
<1> QED BY <1>3, <1>11

(* The text is that of the pieces, for every call that keeps to Sensible:  *)
(* every conversion gets its own flags and arguments, numbers and strings  *)
(* are padded to their width, an error code reads the same with either     *)
(* sign, and what is no conversion is printed as it stands.  Numbers with  *)
(* '-', padded negative numbers and widths that begin with 0 are not       *)
(* Sensible.  (vprintfmt, printnum)                                        *)
THEOREM TextAlwaysExact == FormatSpec => []TextExact
<1>1. FormatInit => TextInv
  <2> SUFFICES ASSUME FormatInit PROVE TextInv
    OBVIOUS
  <2>1. /\ pieces \in Calls /\ pos = 1 /\ text = <<>> /\ pending = <<>>
        /\ fmt = FlattenSeq([i \in DOMAIN pieces |-> Spell(pieces[i])])
        /\ ap = FlattenSeq([i \in DOMAIN pieces |-> Args(pieces[i])])
        /\ mode \in {"done", "text"} /\ (mode = "done" => out.ret = -E_INVAL)
    BY DEF FormatInit
  <2>2. PICK d, R, T : Outline(pieces, fmt, d, R, T) /\ R[0] = ap
    BY <2>1, OutlineExists
  <2>3. <<>> \in Seq(Characters) /\ <<>> \o <<>> = <<>>
    BY EmptySeq, ConcatEmptySeq
  <2>4. Stage(pieces, d, R, T)
    <3>1. CASE mode = "done"
      BY <2>1, <3>1 DEF Stage
    <3>2. CASE mode = "text"
      <4>1. d[0] = 0 /\ T[0] = <<>> /\ 0 \in 0 .. Len(pieces)
        BY <2>2 DEF Outline
      <4>2. Between(d[0], T[0], R[0])
        BY <2>1, <2>2, <2>3, <3>2, <4>1 DEF Between
      <4> QED BY <4>1, <4>2 DEF Stage
    <3> QED BY <2>1, <3>1, <3>2
  <2> QED BY <2>1, <2>2, <2>3, <2>4 DEF TextInv
<1>2. TextInv /\ [FormatNext]_format_vars => TextInv'
  <2> SUFFICES ASSUME TextInv, [FormatNext]_format_vars PROVE TextInv'
    OBVIOUS
  <2>1. text \in Seq(Characters) /\ pending \in Seq(Characters)
    BY DEF TextInv
  <2>2. PICK ps, f, d, R, T : pieces = ps /\ fmt = f /\ Outline(ps, f, d, R, T) /\ Stage(ps, d, R, T)
    BY DEF TextInv
  <2>3. CASE FormatNext
    <3>1. pieces' = pieces /\ fmt' = fmt
      BY <2>3 DEF FormatNext, putch, vprintfmt, plain, percent, finish, flag, alternate, dot, long,
                  digits, star, character, error, string, signed, unsigned, pointer, escaped,
                  unrecognized, Reswitch, Convert
    <3>2. Stage(ps, d, R, T)' /\ text' \in Seq(Characters) /\ pending' \in Seq(Characters)
      <4>1. CASE vprintfmt
        BY <2>1, <2>2, <4>1, PrintStep
      <4>2. CASE putch
        BY <2>1, <2>2, <4>2, PutchStep
      <4> QED BY <2>3, <4>1, <4>2 DEF FormatNext
    <3> QED BY <2>2, <3>1, <3>2 DEF TextInv
  <2>4. CASE UNCHANGED format_vars
    <3>1. Stage(ps, d, R, T)'
      BY <2>2, <2>4 DEF format_vars, Stage, Between, Plainly, PlainRest, Reading, AtFlag, AtAlt,
                        AtWidth, AtDot, AtPrec, AtLong, Reads
    <3> QED BY <2>1, <2>2, <2>4, <3>1 DEF TextInv, format_vars
  <2> QED BY <2>3, <2>4
<1>3. TextInv => TextExact
  <2> SUFFICES ASSUME TextInv, mode = "done", out.ret # -E_INVAL
               PROVE  text = FlattenSeq([i \in DOMAIN pieces |-> Meant(pieces[i])])
    <3>1. out.ret = -E_INVAL => ~ (out.ret >= 0)
      BY DEF E_INVAL
    <3> QED BY <3>1, Zenon DEF TextExact
  <2>1. PICK ps, f, d, R, T : pieces = ps /\ Outline(ps, f, d, R, T) /\ Stage(ps, d, R, T)
    BY DEF TextInv
  <2>2. text = T[Len(ps)]
    BY <2>1 DEF Stage, Between, Plainly, PlainRest, Reading, AtFlag, AtAlt, AtWidth, AtDot, AtPrec,
                AtLong, Reads
  <2> QED BY <2>1, <2>2 DEF Outline
<1> QED BY <1>1, <1>2, <1>3, PTL DEF FormatSpec

=============================================================================
