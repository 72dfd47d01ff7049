------------------------------ MODULE UserMem ------------------------------
(***************************************************************************)
(* A program asks the kernel to print a string of its own: sys_cputs, with *)
(* the walk of user_mem_check over the range and the read that vprintfmt   *)
(* makes of it for "%.*s".  Addresses are 32 bits wide in the code and     *)
(* wrap; so do they here, at Top.                                          *)
(***************************************************************************)
EXTENDS Integers, FiniteSets

CONSTANTS Top,      \* 2^32: the number of addresses
          PGSIZE,
          ULIM

ASSUME UserMemAssumption ==
  /\ PGSIZE \in Nat \ {0} /\ ULIM \in Nat /\ Top \in Nat
  /\ ULIM % PGSIZE = 0 /\ Top % PGSIZE = 0 /\ Top % 2 = 0
  /\ PGSIZE < ULIM /\ ULIM < Top

Address == 0 .. Top - 1
Page(a) == a \div PGSIZE
UserPage == 1 .. Page(ULIM) - 1
E_FAULT == 6

VARIABLES mapping,             \* how each page is mapped
          nul,                 \* the addresses that hold '\0'
          va, len,             \* what the program passes
          pc,
          scanner,             \* user_mem_check's cursor
          user_mem_check_addr,
          p, precision,        \* vprintfmt's cursor and the rest of len
          printed              \* the addresses whose characters were printed

vars == <<mapping, nul, va, len, pc, scanner, user_mem_check_addr,
          p, precision, printed>>

call == <<mapping, nul, va, len>>

(* Addition of pointers and conversion to int.                             *)
Plus(a, n) == (a + n) % Top
ToInt(x) == IF x >= Top \div 2 THEN x - Top ELSE x

(* load_icode maps nothing at page 0; the kernel half is not for users.    *)
Init ==
  /\ mapping \in {m \in [0 .. Page(Top - 1) -> {"none", "user", "kernel"}] :
                    /\ m[0] = "none"
                    /\ \A n \in UserPage : m[n] # "kernel"
                    /\ \A n \in Page(ULIM) .. Page(Top - 1) : m[n] = "kernel"}
  /\ nul \in {{}} \cup {{a} : a \in PGSIZE .. ULIM - 1}
  /\ va \in Address /\ len \in Address
  /\ pc = "user_mem_check"
  /\ scanner = 0 /\ user_mem_check_addr = 0
  /\ p = 0 /\ precision = 0 /\ printed = {}

----------------------------------------------------------------------------
End == Plus(va, len)

Refuse(a) == pc' = "env_destroy" /\ user_mem_check_addr' = a

check_limit ==
  /\ pc = "user_mem_check"
  /\ IF End > ULIM THEN Refuse(va) /\ UNCHANGED scanner
     ELSE /\ pc' = "scan" /\ scanner' = va
          /\ UNCHANGED user_mem_check_addr
  /\ UNCHANGED <<call, p, precision, printed>>

(* Mutants: the walk goes from page to page without rounding down first;   *)
(* it rounds down after the step.                                          *)
PageStep(a) == Plus(a, PGSIZE)
RoundedStep(a) == PGSIZE * Page(a + 1)
(* scanner++                                                               *)
Step(a) == Plus(a, 1)

(* page_lookup finds the page and its entry has PTE_U.                     *)
check_byte ==
  /\ pc = "scan" /\ scanner < End
  /\ IF mapping[Page(scanner)] = "user"
     THEN scanner' = Step(scanner) /\ UNCHANGED <<pc, user_mem_check_addr>>
     ELSE Refuse(scanner) /\ UNCHANGED scanner
  /\ UNCHANGED <<call, p, precision, printed>>

check_passed ==
  /\ pc = "scan" /\ scanner >= End
  /\ pc' = "print"
  /\ p' = va /\ precision' = ToInt(len)
  /\ UNCHANGED <<call, scanner, user_mem_check_addr, printed>>

(* Mutant: one character more than the precision allows.                   *)
MoreAllowed(n) == n < 0 \/ n >= 0
(* precision < 0 || --precision >= 0                                       *)
Allowed(n) == n < 0 \/ n - 1 >= 0

(* A NULL pointer prints as "(null)".                                      *)
print_null ==
  /\ pc = "print" /\ va = 0
  /\ pc' = "return"
  /\ UNCHANGED <<call, scanner, user_mem_check_addr, p, precision, printed>>

(* The character is read before the precision is looked at.                *)
print_char ==
  /\ pc = "print" /\ va # 0
  /\ IF mapping[Page(p)] = "none"
     THEN pc' = "kernel_fault" /\ UNCHANGED <<p, precision, printed>>
     ELSE IF p \notin nul /\ Allowed(precision)
     THEN /\ printed' = printed \cup {p}
          /\ p' = Plus(p, 1)
          /\ precision' = IF precision < 0 THEN precision ELSE precision - 1
          /\ UNCHANGED pc
     ELSE pc' = "return" /\ UNCHANGED <<p, precision, printed>>
  /\ UNCHANGED <<call, scanner, user_mem_check_addr>>

Next ==
  check_limit \/ check_byte \/ check_passed \/ print_null \/ print_char

(* The kernel does nothing else meanwhile.                                 *)
Spec == Init /\ [][Next]_vars /\ WF_vars(Next)

----------------------------------------------------------------------------
(* What the comment before user_mem_check says a program can access.       *)
Accessible(a) == a < ULIM /\ mapping[Page(a)] = "user"
InSpace == va + len < Top
Asked == {a \in Address : va <= a /\ a < va + len}

(* user_mem_check refuses exactly the ranges the program cannot access     *)
(* itself, when they do not wrap around (and empty ones beyond ULIM), and  *)
(* user_mem_check_addr is the first address that is refused, unless the    *)
(* range ends above ULIM.                                                  *)
CheckExact ==
  InSpace =>
    /\ pc \in {"print", "return", "kernel_fault"} =>
         \A a \in Asked : Accessible(a)
    /\ pc = "env_destroy" /\ len > 0 => \E a \in Asked : ~ Accessible(a)
    /\ pc = "env_destroy" /\ va + len <= ULIM =>
         /\ user_mem_check_addr \in Asked /\ ~ Accessible(user_mem_check_addr)
         /\ \A a \in Asked : a < user_mem_check_addr => Accessible(a)

(* What is printed is the range up to its first '\0', whole.               *)
PrintsTheString ==
  InSpace /\ va # 0 /\ len < Top \div 2 =>
    /\ printed \subseteq Asked
    /\ \A a \in printed : \A b \in Asked : b <= a => b \in printed \ nul
    /\ pc = "return" => \A a \in Asked \ printed : \E b \in nul \cap Asked : b <= a

(* Every call ends: it returns, or the environment or the kernel does.     *)
CallEnds == <>(pc \in {"return", "env_destroy", "kernel_fault"})

(* The check refuses a range that wraps around, most of which no program   *)
(* can access ("Returns 0 if the user program can access this range").     *)
CheckSound ==
  pc \in {"print", "return", "kernel_fault"} =>
    \A n \in 0 .. len - 1 : Accessible(Plus(va, n))
============================================================================
