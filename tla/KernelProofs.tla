---------------------------- MODULE KernelProofs ----------------------------
(***************************************************************************)
(* Proofs about Kernel, for any registers a program may have.              *)
(*                                                                         *)
(* The assertions of trap() are about curenv, env_status and cr3, which    *)
(* are set in one place and needed many steps later.  The invariant says,  *)
(* for each place control can be at, what it has brought along: the kernel *)
(* reaches user mode and returns to it only on the way that began with a   *)
(* trap from user mode; a fault of its own, a panic and the end of the     *)
(* environment lead to the monitor, from which they never come back.       *)
(***************************************************************************)
EXTENDS Kernel, TLAPS

(* The environment runs and nothing has gone wrong.                        *)
Running ==
  /\ curenv = 0 /\ env_status = "ENV_RUNNING" /\ cr3 = "env_pgdir"
  /\ panicstr = NULL

(* Interrupts are off and stay so: FL_IF is clear in the flags of the      *)
(* program, which cannot change it.                                        *)
Masked(r) == FL_IF(r.eflags) = 0 /\ FL_IOPL(r.eflags) = 0
Disabled == FL_IF(eflags) = 0 /\ Masked(regs)

(* tf is what the processor and the entry point pushed.                    *)
Caught ==
  /\ env_pop_tf(tf) = regs
  /\ tf.cs = GD_UT3
  /\ tf.trapno = vector[1]
  /\ tf.err = IF vector[2] = <<>> THEN 0 ELSE vector[2][1]

(* env_tf is what the program goes on with: a system call has a result.    *)
Resumes ==
  /\ tf.cs = GD_UT3 /\ env_tf.eax \in Eax
  /\ env_pop_tf(env_tf) = [regs EXCEPT !.eax = env_tf.eax]
  /\ tf.trapno # T_SYSCALL => env_tf.eax = regs.eax

(* What control brings along to each place.                                *)
AtStart ==
  /\ pc = "i386_init" => panicstr = NULL
  /\ pc = "load_icode" => env_status = "ENV_RUNNABLE" /\ panicstr = NULL
                          /\ env_tf = NewFrame
  /\ pc = "env_run" => env_status = "ENV_RUNNABLE" /\ panicstr = NULL
                       /\ env_tf = [NewFrame EXCEPT !.eip = Entry]
  /\ pc \in {"i386_init", "load_icode", "env_run"} => regs = StartRegs
AtUser == pc = "user" => Running
AtTrap ==
  pc \in {"trap", "trap_dispatch"} =>
    \/ tf.cs = GD_KT
    \/ Caught /\ Running /\ (pc = "trap_dispatch" => env_tf = tf)
AtReturn == pc = "return" => Running /\ Resumes
AtMonitor ==
  pc = "monitor" =>
    \/ caller = "breakpoint" /\ Running /\ Caught /\ env_tf = tf
       /\ tf.trapno = T_BRKPT
    \/ caller = "env_destroy" /\ env_status = "ENV_FREE"
    \/ caller = "panic" /\ panicstr # NULL

(* The inductive invariant.                                                *)
KInv == TypeOK /\ Disabled /\ AtStart /\ AtUser /\ AtTrap /\ AtReturn /\ AtMonitor

----------------------------------------------------------------------------
(* The entry point of a vector and the processor agree about error codes.  *)
Agree(v, error) ==
  \/ v \in NOEC /\ error = <<>>
  \/ v \notin NOEC /\ \E x : error = <<x>>

(* Five words, one that one of two parts brings, and five more.            *)
ElevenWords(a, b, c, d, x) ==
  LET s == a \o b \o c \o d IN
    /\ Len(a) = 5 /\ Len(d) = 5
    /\ \/ Len(b) = 1 /\ Len(c) = 0 /\ b[1] = x
       \/ Len(b) = 0 /\ Len(c) = 1 /\ c[1] = x
    => /\ s[1] = a[1] /\ s[2] = a[2] /\ s[3] = a[3] /\ s[4] = a[4] /\ s[5] = a[5]
       /\ s[6] = x
       /\ s[7] = d[1] /\ s[8] = d[2] /\ s[9] = d[3] /\ s[10] = d[4] /\ s[11] = d[5]
       /\ Len(s) >= 11

LEMMA Joined ==
  ASSUME NEW S, NEW a \in Seq(S), NEW b \in Seq(S), NEW c \in Seq(S),
         NEW d \in Seq(S), NEW x
  PROVE  ElevenWords(a, b, c, d, x)
<1> DEFINE s == a \o b \o c \o d
<1>1. /\ Len(a) \in Nat /\ Len(b) \in Nat /\ Len(c) \in Nat /\ Len(d) \in Nat
      /\ Len(s) = Len(a) + Len(b) + Len(c) + Len(d)
      /\ \A i \in 1 .. Len(a) : s[i] = a[i]
      /\ \A i \in 1 .. Len(b) : s[Len(a) + i] = b[i]
      /\ \A i \in 1 .. Len(c) : s[Len(a) + Len(b) + i] = c[i]
      /\ \A i \in 1 .. Len(d) : s[Len(a) + Len(b) + Len(c) + i] = d[i]
  OBVIOUS
<1> HIDE DEF s
<1>2. ASSUME Len(a) = 5, Len(d) = 5,
             \/ Len(b) = 1 /\ Len(c) = 0 /\ b[1] = x
             \/ Len(b) = 0 /\ Len(c) = 1 /\ c[1] = x
      PROVE  /\ s[1] = a[1] /\ s[2] = a[2] /\ s[3] = a[3] /\ s[4] = a[4] /\ s[5] = a[5]
             /\ s[6] = x
             /\ s[7] = d[1] /\ s[8] = d[2] /\ s[9] = d[3] /\ s[10] = d[4] /\ s[11] = d[5]
             /\ Len(s) >= 11
  <2>1. CASE Len(b) = 1 /\ Len(c) = 0 /\ b[1] = x
    BY <1>1, <1>2, <2>1
  <2>2. CASE Len(b) = 0 /\ Len(c) = 1 /\ c[1] = x
    BY <1>1, <1>2, <2>2
  <2> QED BY <1>2, <2>1, <2>2
<1> QED BY <1>2 DEF s, ElevenWords

LEMMA FrameIs ==
  ASSUME NEW r \in Registers, NEW v, NEW error, Agree(v, error)
  PROVE  LET f == Trapframe(Stack(v, r, error)) IN
           /\ env_pop_tf(f) = r
           /\ f.cs = GD_UT3 /\ f.trapno = v
           /\ f.err = IF error = <<>> THEN 0 ELSE error[1]
<1> DEFINE x == IF error = <<>> THEN 0 ELSE error[1]
           low == <<r.gpr, r.eax, r.es, r.ds, v>>
           made == IF v \in NOEC THEN <<0>> ELSE <<>>
           high == <<r.eip, r.cs, r.eflags, r.esp, r.ss>>
           S == {r.gpr, r.eax, r.es, r.ds, v, 0, x, r.eip, r.cs, r.eflags, r.esp, r.ss}
           s == Stack(v, r, error)
<1>1. /\ low \in Seq(S) /\ high \in Seq(S) /\ Len(low) = 5 /\ Len(high) = 5
      /\ low[1] = r.gpr /\ low[2] = r.eax /\ low[3] = r.es /\ low[4] = r.ds
      /\ low[5] = v
      /\ high[1] = r.eip /\ high[2] = r.cs /\ high[3] = r.eflags
      /\ high[4] = r.esp /\ high[5] = r.ss
  OBVIOUS
<1>2. s = low \o made \o error \o high
  BY DEF Stack
<1>3. \/ made = <<0>> /\ error = <<>> /\ x = 0
      \/ made = <<>> /\ error = <<x>>
  <2>1. CASE v \in NOEC /\ error = <<>>
    BY <2>1
  <2>2. CASE v \notin NOEC /\ \E y : error = <<y>>
    <3>1. PICK y : error = <<y>>
      BY <2>2
    <3>2. error # <<>> /\ error[1] = y
      BY <3>1
    <3> QED BY <2>2, <3>1, <3>2
  <2> QED BY <2>1, <2>2 DEF Agree
<1>4. x \in S /\ 0 \in S
  OBVIOUS
<1> HIDE DEF s, x, low, made, high, S
<1>5. /\ made \in Seq(S) /\ error \in Seq(S)
      /\ \/ Len(made) = 1 /\ Len(error) = 0 /\ made[1] = x
         \/ Len(made) = 0 /\ Len(error) = 1 /\ error[1] = x
  <2>1. <<0>> \in Seq(S) /\ <<>> \in Seq(S) /\ <<x>> \in Seq(S)
    BY <1>4
  <2>2. /\ Len(<<0>>) = 1 /\ <<0>>[1] = 0 /\ Len(<<>>) = 0
        /\ Len(<<x>>) = 1 /\ <<x>>[1] = x
    OBVIOUS
  <2>3. CASE made = <<0>> /\ error = <<>> /\ x = 0
    BY <2>1, <2>2, <2>3
  <2>4. CASE made = <<>> /\ error = <<x>>
    BY <2>1, <2>2, <2>4
  <2> QED BY <1>3, <2>3, <2>4
<1>6. low \in Seq(S) /\ made \in Seq(S) /\ error \in Seq(S) /\ high \in Seq(S)
  BY <1>1, <1>5
<1>7. /\ s[1] = r.gpr /\ s[2] = r.eax /\ s[3] = r.es /\ s[4] = r.ds /\ s[5] = v
      /\ s[6] = x /\ s[7] = r.eip /\ s[8] = r.cs
      /\ s[9] = r.eflags /\ s[10] = r.esp /\ s[11] = r.ss
      /\ Len(s) >= 11
  <2>1. ElevenWords(low, made, error, high, x)
    BY <1>6, Joined, Zenon
  <2> DEFINE t == low \o made \o error \o high
  <2>2. s = t
    BY <1>2
  <2>3. /\ t[1] = low[1] /\ t[2] = low[2] /\ t[3] = low[3] /\ t[4] = low[4]
        /\ t[5] = low[5] /\ t[6] = x
        /\ t[7] = high[1] /\ t[8] = high[2] /\ t[9] = high[3] /\ t[10] = high[4] /\ t[11] = high[5]
        /\ Len(t) >= 11
    <3>1. /\ Len(low) = 5 /\ Len(high) = 5
          /\ \/ Len(made) = 1 /\ Len(error) = 0 /\ made[1] = x
             \/ Len(made) = 0 /\ Len(error) = 1 /\ error[1] = x
      BY <1>1, <1>5
    <3> QED BY <2>1, <3>1, Zenon DEF ElevenWords
  <2> HIDE DEF t
  <2> QED BY <1>1, <2>2, <2>3
<1>8. Trapframe(s) = [gpr |-> r.gpr, eax |-> r.eax, es |-> r.es, ds |-> r.ds,
                      trapno |-> v, err |-> x, eip |-> r.eip, cs |-> r.cs,
                      eflags |-> r.eflags, esp |-> r.esp, ss |-> r.ss]
  BY <1>7 DEF Trapframe
<1>9. /\ r.cs = GD_UT3
      /\ r = [gpr |-> r.gpr, eax |-> r.eax, es |-> r.es, ds |-> r.ds,
              eip |-> r.eip, cs |-> r.cs, eflags |-> r.eflags, esp |-> r.esp, ss |-> r.ss]
  BY DEF Registers
<1> QED BY <1>8, <1>9 DEF env_pop_tf, s, x

LEMMA Agreement ==
  /\ \A n \in UserGates : Agree(n, <<>>)
  /\ \A n : Agree(T_GPFLT, <<n>>)
  /\ \A v \in Exceptions : Agree(v, IF v \in PushesError THEN <<1>> ELSE <<>>)
<1>1. \A n \in UserGates : Agree(n, <<>>)
  BY DEF UserGates, NOEC, T_BRKPT, T_SYSCALL, Agree
<1>2. \A n : Agree(T_GPFLT, <<n>>)
  BY DEF NOEC, T_GPFLT, T_SYSCALL, Agree
<1>3. \A v \in Exceptions : v \in PushesError <=> v \notin NOEC
  BY DEF Exceptions, PushesError, NOEC, T_SYSCALL
<1>4. \A v \in Exceptions : Agree(v, IF v \in PushesError THEN <<1>> ELSE <<>>)
  BY <1>3 DEF Agree
<1> QED BY <1>1, <1>2, <1>4

(* No flag is set in a register that is 0.                                 *)
LEMMA NoFlags == FL_IF(0) = 0 /\ FL_IOPL(0) = 0
<1>1. 0 \div 512 = 0 /\ 0 \div 4096 = 0
  BY SMT
<1>2. 0 % 2 = 0 /\ 0 % 4 = 0
  BY SMT
<1> QED BY <1>1, <1>2 DEF FL_IF, FL_IOPL

(* The first registers.                                                    *)
LEMMA FirstRegs ==
  /\ env_pop_tf([NewFrame EXCEPT !.eip = Entry]) = StartRegs
  /\ StartRegs \in Registers /\ Masked(StartRegs)
  /\ [NewFrame EXCEPT !.esp = USTACKTOP, !.eip = Entry] = [NewFrame EXCEPT !.eip = Entry]
BY KernelAssumption, NoFlags DEF env_pop_tf, NewFrame, Blank, StartRegs, Registers, Masked

(* A frame resumes the registers it was made of.                           *)
LEMMA ResumesSame ==
  ASSUME Caught, env_tf = tf, regs \in Registers
  PROVE  Resumes
<1>1. env_tf.eax = regs.eax
  BY DEF Caught, env_pop_tf
<1>2. regs.eax \in Eax /\ [regs EXCEPT !.eax = regs.eax] = regs
  BY DEF Registers
<1> QED BY <1>1, <1>2 DEF Caught, Resumes

(* A result changes %eax and nothing else.                                 *)
LEMMA ResumesResult ==
  ASSUME KInv, syscall(env_tf.eax), NEW r \in Eax, Result(r),
         UNCHANGED <<eflags, regs, vector, tf, curenv>>
  PROVE  Running' /\ Resumes'
<1>1. Caught /\ Running /\ env_tf = tf /\ tf.trapno = T_SYSCALL /\ regs \in Registers
  BY DEF KInv, AtTrap, TypeOK, syscall, Dispatch, GD_KT, GD_UT3
<1>2. env_tf' = [tf EXCEPT !.eax = r] /\ tf' = tf /\ regs' = regs
  BY <1>1 DEF Result
<1>3. env_pop_tf(tf) = regs
  BY <1>1 DEF Caught
<1>4. env_tf'.eax = r /\ env_pop_tf(env_tf') = [regs EXCEPT !.eax = r]
  BY <1>2, <1>3 DEF env_pop_tf
<1> QED BY <1>1, <1>2, <1>4 DEF Running, Resumes, Result, dispatched, Caught

----------------------------------------------------------------------------
(* The ends of a path: none of them touches what the others established.   *)
LEMMA InitHolds == Init => KInv
BY FirstRegs, NoFlags, KernelAssumption DEF Init, KInv, TypeOK, Disabled, Code, AtStart, AtUser, AtTrap, AtReturn, AtMonitor

LEMMA PanicKeeps ==
  ASSUME KInv, NEW m, m # NULL, panic(m), UNCHANGED <<eflags, regs, curenv>>
  PROVE  KInv'
<1>1. pc' = "monitor" /\ caller' = "panic" /\ panicstr' # NULL
  BY DEF panic
<1>2. TypeOK'
  BY <1>1 DEF panic, KInv, TypeOK, Code
<1> QED BY <1>1, <1>2 DEF KInv, Disabled, AtStart, AtUser, AtTrap, AtReturn, AtMonitor

LEMMA DestroyKeeps ==
  ASSUME KInv, env_destroy, UNCHANGED <<eflags, regs, curenv>>
  PROVE  KInv'
<1>1. pc' = "monitor" /\ caller' = "env_destroy" /\ env_status' = "ENV_FREE"
  BY DEF env_destroy
<1>2. TypeOK'
  BY <1>1 DEF env_destroy, KInv, TypeOK, Code
<1> QED BY <1>1, <1>2 DEF KInv, Disabled, AtStart, AtUser, AtTrap, AtReturn, AtMonitor

LEMMA FaultKeeps ==
  ASSUME KInv, KernelFault
  PROVE  KInv'
<1>1. pc' = "trap" /\ tf'.cs = GD_KT /\ UNCHANGED <<eflags, regs>>
  BY DEF KernelFault, Blank
<1>2. TypeOK'
  BY <1>1 DEF KernelFault, KInv, TypeOK, Code
<1> QED BY <1>1, <1>2 DEF KInv, Disabled, AtStart, AtUser, AtTrap, AtReturn, AtMonitor

(* env_run, of registers a program can have.                               *)
LEMMA RunKeeps ==
  ASSUME KInv, env_run, panicstr = NULL, env_pop_tf(env_tf) \in Registers,
         Masked(env_pop_tf(env_tf))
  PROVE  KInv'
<1>1. pc' = "user" /\ Running' /\ Disabled'
  <2>1. env_pop_tf(env_tf).eflags = env_tf.eflags
    BY DEF env_pop_tf
  <2> QED BY <2>1 DEF env_run, Running, Disabled, Masked
<1>2. TypeOK'
  <2>1. env_tf.eflags \in Eflags
    BY DEF env_pop_tf, Registers
  <2> QED BY <1>1, <2>1 DEF env_run, KInv, TypeOK, Code
<1> QED BY <1>1, <1>2 DEF KInv, AtStart, AtUser, AtTrap, AtReturn, AtMonitor

(* Entering the kernel from user mode.                                     *)
LEMMA EnterKeeps ==
  ASSUME KInv, pc = "user", NEW v, NEW error, Agree(v, error), Enter(v, error)
  PROVE  KInv' /\ tf'.trapno = v
<1>1. regs \in Registers /\ Running
  BY DEF KInv, TypeOK, AtUser
<1>2. pc' = "trap" /\ tf' = Trapframe(Stack(v, regs, error)) /\ vector' = <<v, error>>
      /\ regs' = regs
  BY DEF Enter
<1>3. /\ env_pop_tf(tf') = regs /\ tf'.cs = GD_UT3 /\ tf'.trapno = v
      /\ tf'.err = IF error = <<>> THEN 0 ELSE error[1]
  BY <1>1, <1>2, FrameIs
<1>4. Caught' /\ Running' /\ Disabled'
  BY <1>1, <1>2, <1>3 DEF Caught, Running, Enter, KInv, Disabled, Masked
<1>5. TypeOK'
  <2>1. regs.eflags \in Eflags
    BY <1>1 DEF Registers
  <2> QED BY <1>2, <2>1 DEF Enter, KInv, TypeOK, Code
<1> QED BY <1>2, <1>3, <1>4, <1>5 DEF KInv, AtStart, AtUser, AtTrap, AtReturn, AtMonitor

(* A system call that returns a result.                                    *)
LEMMA ResultKeeps ==
  ASSUME KInv, Dispatch(T_SYSCALL), NEW r \in Eax, Result(r),
         UNCHANGED <<eflags, regs, vector, tf, curenv>>
  PROVE  KInv'
<1>1. pc' = "return" /\ Running' /\ Resumes'
  BY ResumesResult DEF Result, dispatched, syscall
<1>2. TypeOK'
  BY <1>1 DEF Result, dispatched, KInv, TypeOK, Code
<1> QED BY <1>1, <1>2 DEF KInv, Disabled, AtStart, AtUser, AtTrap, AtReturn, AtMonitor

(* Results are values of %eax.                                             *)
LEMMA Results == -E_NO_SYS \in Eax /\ -E_BAD_ENV \in Eax /\ EnvId \in Eax /\ Char \subseteq Eax
BY KernelAssumption

LEMMA NextHolds == KInv /\ [Next]_vars => KInv'
<1> SUFFICES ASSUME KInv, [Next]_vars PROVE KInv'
  OBVIOUS
<1>0. TypeOK
  BY DEF KInv
<1>1. CASE env_create
  <2>1. CASE panic("can't alloc new env")
    <3> DEFINE m == "can't alloc new env"
    <3>1. m # NULL
      BY MessageAssumption
    <3>2. panic(m) /\ UNCHANGED <<eflags, regs, curenv>>
      BY <1>1, <2>1 DEF env_create
    <3> HIDE DEF m
    <3> QED BY <3>1, <3>2, PanicKeeps
  <2>2. CASE ~panic("can't alloc new env")
    <3>1. /\ pc = "i386_init" /\ pc' = "load_icode" /\ env_status' = "ENV_RUNNABLE"
          /\ cr3' = "env_pgdir" /\ env_tf' = NewFrame
          /\ UNCHANGED <<panicstr, caller, eflags, regs, vector, tf, curenv>>
      BY <1>1, <2>2 DEF env_create, NewFrame
    <3>2. TypeOK'
      BY <1>0, <3>1 DEF TypeOK, Code
    <3> QED BY <3>1, <3>2 DEF KInv, Disabled, AtStart, AtUser, AtTrap, AtReturn, AtMonitor
  <2> QED BY <2>1, <2>2
<1>2. CASE load_icode
  <2>1. CASE panic("out of memory")
    <3> DEFINE m == "out of memory"
    <3>1. m # NULL
      BY MessageAssumption
    <3>2. panic(m) /\ UNCHANGED <<eflags, regs, curenv>>
      BY <1>2, <2>1 DEF load_icode
    <3> HIDE DEF m
    <3> QED BY <3>1, <3>2, PanicKeeps
  <2>2. CASE ~panic("out of memory")
    <3>1. /\ pc = "load_icode" /\ pc' = "env_run" /\ cr3' = "kern_pgdir"
          /\ env_tf' = [env_tf EXCEPT !.esp = USTACKTOP, !.eip = Entry]
          /\ UNCHANGED <<env_status, panicstr, caller, eflags, regs, vector, tf, curenv>>
      BY <1>2, <2>2 DEF load_icode
    <3>2. env_tf = NewFrame
      BY <3>1 DEF KInv, AtStart
    <3>3. env_tf' = [NewFrame EXCEPT !.eip = Entry]
      BY <3>1, <3>2, FirstRegs
    <3>4. TypeOK'
      BY <1>0, <3>1 DEF TypeOK, Code
    <3> QED BY <3>1, <3>3, <3>4 DEF KInv, Disabled, AtStart, AtUser, AtTrap, AtReturn, AtMonitor
  <2> QED BY <2>1, <2>2
<1>3. CASE run_first
  <2>1. env_run /\ panicstr = NULL /\ env_tf = [NewFrame EXCEPT !.eip = Entry]
    BY <1>3 DEF run_first, KInv, AtStart
  <2> QED BY <2>1, FirstRegs, RunKeeps
<1>4. CASE load_icode_fault \/ sys_cputs_fault \/ mon_backtrace_fault
  <2>1. KernelFault
    BY <1>4 DEF load_icode_fault, sys_cputs_fault, mon_backtrace_fault
  <2> QED BY <2>1, FaultKeeps
<1>5. CASE execute
  <2>1. TypeOK'
    BY <1>0, <1>5 DEF execute, TypeOK
  <2>2. Running' /\ Disabled'
    BY <1>5 DEF execute, Guarded, KInv, Disabled, Masked, AtUser, Running
  <2> QED BY <1>5, <2>1, <2>2
          DEF execute, KInv, Disabled, AtStart, AtUser, AtTrap, AtReturn, AtMonitor
<1>6. CASE interrupt
  <2>1. PICK n \in Exceptions \cup {T_SYSCALL} :
          IF n \in UserGates THEN Enter(n, <<>>) ELSE Enter(T_GPFLT, <<n>>)
    BY <1>6 DEF interrupt
  <2>2. pc = "user"
    BY <1>6 DEF interrupt
  <2>3. CASE n \in UserGates
    BY <2>1, <2>2, <2>3, Agreement, EnterKeeps
  <2>4. CASE n \notin UserGates
    BY <2>1, <2>2, <2>4, Agreement, EnterKeeps
  <2> QED BY <2>3, <2>4
<1>7. CASE exception
  <2>1. PICK v \in Exceptions \ {T_BRKPT} :
          Enter(v, IF v \in PushesError THEN <<1>> ELSE <<>>)
    BY <1>7 DEF exception
  <2>2. pc = "user"
    BY <1>7 DEF exception
  <2>3. Agree(v, IF v \in PushesError THEN <<1>> ELSE <<>>)
    BY Agreement
  <2> DEFINE error == IF v \in PushesError THEN <<1>> ELSE <<>>
  <2> HIDE DEF error
  <2> QED BY <2>1, <2>2, <2>3, EnterKeeps DEF error
<1>8. CASE trap
  <2>0. pc = "trap"
    BY <1>8 DEF trap
  <2>1. \/ tf.cs = GD_KT
        \/ Caught /\ Running
    BY <2>0 DEF KInv, AtTrap
  <2>2. FL_IF(eflags) = 0 /\ ~(tf.cs = GD_UT3 /\ curenv = NULL)
    BY <2>1, NullAssumption DEF KInv, Disabled, GD_KT, GD_UT3, Running
  <2>a. FL_IF(eflags) # 1
    BY <2>2, SMT
  <2>3. /\ pc' = "trap_dispatch" /\ env_tf' = IF tf.cs = GD_UT3 THEN tf ELSE env_tf
        /\ UNCHANGED <<env_status, cr3, panicstr, caller, eflags, regs, vector, tf, curenv>>
    BY <1>8, <2>2, <2>a DEF trap
  <2>4. TypeOK'
    BY <1>0, <2>3 DEF TypeOK, Code
  <2>5. AtTrap'
    BY <2>1, <2>3 DEF AtTrap, Caught, Running
  <2> QED BY <2>3, <2>4, <2>5 DEF KInv, Disabled, AtStart, AtUser, AtReturn, AtMonitor
<1>9. CASE breakpoint
  <2>1. /\ pc = "trap_dispatch" /\ tf.cs = GD_UT3 /\ env_tf.trapno = T_BRKPT
        /\ pc' = "monitor" /\ caller' = "breakpoint"
        /\ UNCHANGED <<eflags, regs, vector, tf, env_tf, env_status, curenv, cr3, panicstr>>
    BY <1>9 DEF breakpoint, Dispatch
  <2>2. Caught /\ Running /\ env_tf = tf
    BY <2>1 DEF KInv, AtTrap, GD_KT, GD_UT3
  <2>3. TypeOK'
    BY <1>0, <2>1 DEF TypeOK, Code
  <2>4. AtMonitor'
    BY <2>1, <2>2 DEF AtMonitor, Caught, Running
  <2> QED BY <2>1, <2>3, <2>4 DEF KInv, Disabled, AtStart, AtUser, AtTrap, AtReturn
<1>10. CASE page_fault_handler \/ unexpected
  <2>1. env_destroy /\ UNCHANGED <<eflags, regs, curenv>>
    BY <1>10 DEF page_fault_handler, unexpected
  <2> QED BY <2>1, DestroyKeeps
<1>11. CASE kernel_trap
  <2> DEFINE m == IF tf.trapno = T_PGFLT THEN "Page fault triggered in kernel"
                  ELSE "unhandled trap in kernel"
  <2>1. m # NULL
    BY MessageAssumption
  <2>2. panic(m) /\ UNCHANGED <<eflags, regs, curenv>>
    BY <1>11 DEF kernel_trap
  <2> HIDE DEF m
  <2> QED BY <2>1, <2>2, PanicKeeps
<1>12. CASE sys_cputs
  <2>1. CASE Result(-E_NO_SYS)
    BY <1>12, <2>1, Results, ResultKeeps DEF sys_cputs, syscall
  <2>2. CASE env_destroy
    BY <1>12, <2>2, DestroyKeeps DEF sys_cputs
  <2> QED BY <1>12, <2>1, <2>2 DEF sys_cputs
<1>13. CASE sys_cgetc
  <2>1. PICK c \in Char : Result(c)
    BY <1>13 DEF sys_cgetc
  <2> QED BY <1>13, <2>1, Results, ResultKeeps DEF sys_cgetc, syscall
<1>14. CASE sys_getenvid
  BY <1>14, Results, ResultKeeps DEF sys_getenvid, syscall
<1>15. CASE sys_env_destroy
  <2>1. CASE env_destroy
    BY <1>15, <2>1, DestroyKeeps DEF sys_env_destroy
  <2>2. CASE Result(-E_BAD_ENV)
    BY <1>15, <2>2, Results, ResultKeeps DEF sys_env_destroy, syscall
  <2> QED BY <1>15, <2>1, <2>2 DEF sys_env_destroy
<1>16. CASE no_such_syscall
  BY <1>16, Results, ResultKeeps DEF no_such_syscall
<1>17. CASE trap_return
  <2>1. Running /\ Resumes
    BY <1>17 DEF trap_return, KInv, AtReturn
  <2>2. env_run
    BY <1>17, <2>1, NullAssumption DEF trap_return, Running
  <2>3. env_pop_tf(env_tf) \in Registers /\ Masked(env_pop_tf(env_tf))
    BY <1>0, <2>1 DEF Resumes, TypeOK, Registers, KInv, Disabled, Masked
  <2> QED BY <2>1, <2>2, <2>3, RunKeeps DEF Running
<1>18. CASE mon_exit
  <2>1. /\ pc = "monitor" /\ caller = "breakpoint" /\ pc' = "return"
        /\ UNCHANGED <<env_status, cr3, panicstr, caller, eflags, regs, vector, tf, env_tf, curenv>>
    BY <1>18 DEF mon_exit, dispatched
  <2>2. Running /\ Caught /\ env_tf = tf
    BY <2>1 DEF KInv, AtMonitor
  <2>3. Resumes
    BY <1>0, <2>2, ResumesSame DEF TypeOK
  <2>4. TypeOK'
    BY <1>0, <2>1 DEF TypeOK, Code
  <2>5. AtReturn'
    BY <2>1, <2>2, <2>3 DEF AtReturn, Running, Resumes
  <2> QED BY <2>1, <2>4, <2>5 DEF KInv, Disabled, AtStart, AtUser, AtTrap, AtMonitor
<1>19. CASE UNCHANGED vars
  BY <1>19 DEF vars, KInv, TypeOK, Disabled, AtStart, AtUser, AtTrap, AtReturn, AtMonitor,
                Running, Caught, Resumes
<1> QED BY <1>1, <1>2, <1>3, <1>4, <1>5, <1>6, <1>7, <1>8, <1>9, <1>10, <1>11, <1>12,
           <1>13, <1>14, <1>15, <1>16, <1>17, <1>18, <1>19 DEF Next, KernelStep

LEMMA Inductive == Spec => []KInv
BY InitHolds, NextHolds, PTL DEF Spec

----------------------------------------------------------------------------
(* The three assertions of trap() never fail, that interrupts are disabled *)
(* among them, and user mode is entered only in the environment's own      *)
(* address space.  (trap, env_run, env_destroy)                            *)
THEOREM AssertionsAlwaysHold == Spec => []AssertionsHold
<1>0. curenv = 0 => curenv # NULL
  BY NullAssumption
<1>1. KInv => AssertionsHold
  BY <1>0 DEF KInv, Disabled, AtUser, AtTrap, AtReturn, Running, AssertionsHold, GD_UT3, GD_KT
<1> QED BY <1>1, Inductive, PTL

(* Whatever a program does, the frame that trap() is given is the one its  *)
(* registers, the vector and the error code make up.  (trapentry.S)        *)
THEOREM FramesExact == Spec => []FrameExact
<1>1. KInv => FrameExact
  BY DEF KInv, AtTrap, Caught, FrameExact
<1> QED BY <1>1, Inductive, PTL

----------------------------------------------------------------------------
(* The program's view at each place.                                       *)
StartPlaces == {"i386_init", "load_icode", "env_run"}
CaughtPlaces ==
  \/ pc \in {"trap", "trap_dispatch"} /\ tf.cs # GD_KT
  \/ pc = "return"
  \/ pc = "monitor" /\ caller = "breakpoint"
OverPlaces ==
  \/ pc \in {"trap", "trap_dispatch"} /\ tf.cs = GD_KT
  \/ pc = "monitor" /\ caller # "breakpoint"

PhaseByPlace ==
  /\ pc \in StartPlaces => Phase = "starting"
  /\ pc = "user" => Phase = "running"
  /\ CaughtPlaces => Phase = IF tf.trapno = T_SYSCALL THEN "calling" ELSE "stopped"
  /\ OverPlaces => Phase = "over"

LEMMA PhaseIs == KInv => PhaseByPlace
<1> SUFFICES ASSUME KInv PROVE PhaseByPlace
  OBVIOUS
<1>1. pc \in StartPlaces => ~Over
  BY DEF StartPlaces, KInv, AtStart, Over
<1>2. pc = "user" => ~Over
  BY DEF KInv, AtUser, Running, Over
<1>3. pc \in {"trap", "trap_dispatch"} /\ tf.cs # GD_KT => ~Over
  BY DEF KInv, AtTrap, Running, Over
<1>4. pc = "return" => ~Over
  BY DEF KInv, AtReturn, Running, Over
<1>5. pc = "monitor" /\ caller = "breakpoint" => ~Over
  BY DEF KInv, AtMonitor, Running, Over
<1>6. OverPlaces => Over
  BY DEF KInv, AtMonitor, Over, OverPlaces
<1> QED BY <1>1, <1>2, <1>3, <1>4, <1>5, <1>6
        DEF Phase, PhaseByPlace, StartPlaces, CaughtPlaces

LEMMA PhaseIsNext == KInv' => PhaseByPlace'
BY PhaseIs, PTL

(* A step that ends the program, or finds it over.                         *)
LEMMA EndOrOver ==
  ASSUME KInv, KInv', UNCHANGED regs, OverPlaces'
  PROVE  [P!Next]_P!pvars
<1>1. Phase' = "over"
  BY PhaseIsNext DEF PhaseByPlace
<1>2. CASE Phase = "over"
  BY <1>1, <1>2 DEF P!pvars
<1>3. CASE Phase # "over"
  BY <1>1, <1>3 DEF P!Next, P!End
<1> QED BY <1>2, <1>3

LEMMA PanicOver == ASSUME NEW m, panic(m) PROVE OverPlaces'
BY DEF panic, OverPlaces

LEMMA DestroyOver == env_destroy => OverPlaces'
BY DEF env_destroy, OverPlaces

LEMMA FaultOver == KernelFault => OverPlaces' /\ UNCHANGED regs
BY DEF KernelFault, OverPlaces, Blank

(* A step of the kernel's own while the program waits for it.              *)
LEMMA WaitsOn ==
  ASSUME KInv, KInv', UNCHANGED <<regs, tf>>, CaughtPlaces, CaughtPlaces'
  PROVE  UNCHANGED P!pvars
BY PhaseIs, PhaseIsNext DEF PhaseByPlace, P!pvars

LEMMA ResultWaits ==
  ASSUME KInv, KInv', NEW v, Dispatch(v), NEW r, Result(r),
         UNCHANGED <<eflags, regs, vector, tf, curenv>>
  PROVE  UNCHANGED P!pvars
<1>1. CaughtPlaces /\ CaughtPlaces'
  BY DEF Dispatch, CaughtPlaces, Result, dispatched, GD_UT3, GD_KT
<1> QED BY <1>1, WaitsOn

(* A trap from user mode.                                                  *)
LEMMA EnterStops ==
  ASSUME KInv, KInv', pc = "user", NEW v, NEW error, Agree(v, error), Enter(v, error)
  PROVE  P!Call \/ P!Break
<1>1. regs \in Registers
  BY DEF KInv, TypeOK
<1>2. pc' = "trap" /\ tf' = Trapframe(Stack(v, regs, error)) /\ regs' = regs
  BY DEF Enter
<1>3. tf'.cs = GD_UT3
  BY <1>1, <1>2, FrameIs
<1>4. CaughtPlaces'
  BY <1>2, <1>3 DEF CaughtPlaces, GD_UT3, GD_KT
<1>5. Phase = "running"
  BY PhaseIs DEF PhaseByPlace
<1>6. Phase' \in {"calling", "stopped"}
  BY <1>4, PhaseIsNext DEF PhaseByPlace
<1> QED BY <1>2, <1>5, <1>6 DEF P!Call, P!Break

LEMMA StepViewed == KInv /\ [Next]_vars => [P!Next]_P!pvars
<1> SUFFICES ASSUME KInv, [Next]_vars PROVE [P!Next]_P!pvars
  OBVIOUS
<1>0. KInv' /\ PhaseByPlace /\ PhaseByPlace' /\ TypeOK
  <2>1. KInv'
    BY NextHolds
  <2> QED BY <2>1, PhaseIs, PhaseIsNext DEF KInv
<1>1. CASE env_create
  <2>1. CASE panic("can't alloc new env")
    BY <1>0, <1>1, <2>1, PanicOver, EndOrOver DEF env_create
  <2>2. CASE ~panic("can't alloc new env")
    <3>1. pc \in StartPlaces /\ pc' \in StartPlaces /\ regs' = regs
      BY <1>1, <2>2 DEF env_create, StartPlaces
    <3> QED BY <1>0, <3>1 DEF PhaseByPlace, StartPlaces, P!pvars
  <2> QED BY <2>1, <2>2
<1>2. CASE load_icode
  <2>1. CASE panic("out of memory")
    BY <1>0, <1>2, <2>1, PanicOver, EndOrOver DEF load_icode
  <2>2. CASE ~panic("out of memory")
    <3>1. pc \in StartPlaces /\ pc' \in StartPlaces /\ regs' = regs
      BY <1>2, <2>2 DEF load_icode, StartPlaces
    <3> QED BY <1>0, <3>1 DEF PhaseByPlace, StartPlaces, P!pvars
  <2> QED BY <2>1, <2>2
<1>3. CASE run_first
  <2>1. pc = "env_run" /\ pc' = "user" /\ regs' = env_pop_tf(env_tf)
    BY <1>3 DEF run_first, env_run
  <2>2. regs' = regs
    BY <2>1, FirstRegs DEF KInv, AtStart
  <2>3. Phase = "starting" /\ Phase' = "running"
    BY <1>0, <2>1 DEF PhaseByPlace, StartPlaces
  <2> QED BY <2>2, <2>3 DEF P!Next, P!Start
<1>4. CASE load_icode_fault \/ sys_cputs_fault \/ mon_backtrace_fault
  <2>1. KernelFault
    BY <1>4 DEF load_icode_fault, sys_cputs_fault, mon_backtrace_fault
  <2> QED BY <1>0, <2>1, FaultOver, EndOrOver
<1>5. CASE execute
  <2>1. pc = "user" /\ pc' = "user" /\ regs' \in Registers
    BY <1>5 DEF execute
  <2>2. Phase = "running" /\ Phase' = "running"
    BY <1>0, <2>1 DEF PhaseByPlace
  <2> QED BY <2>1, <2>2 DEF P!Next, P!Execute
<1>6. CASE interrupt
  <2>1. PICK n \in Exceptions \cup {T_SYSCALL} :
          IF n \in UserGates THEN Enter(n, <<>>) ELSE Enter(T_GPFLT, <<n>>)
    BY <1>6 DEF interrupt
  <2>2. pc = "user"
    BY <1>6 DEF interrupt
  <2>3. P!Call \/ P!Break
    <3>1. CASE n \in UserGates
      BY <1>0, <2>1, <2>2, <3>1, Agreement, EnterStops
    <3>2. CASE n \notin UserGates
      BY <1>0, <2>1, <2>2, <3>2, Agreement, EnterStops
    <3> QED BY <3>1, <3>2
  <2> QED BY <2>3 DEF P!Next
<1>7. CASE exception
  <2>1. PICK v \in Exceptions \ {T_BRKPT} :
          Enter(v, IF v \in PushesError THEN <<1>> ELSE <<>>)
    BY <1>7 DEF exception
  <2> DEFINE error == IF v \in PushesError THEN <<1>> ELSE <<>>
  <2>2. pc = "user" /\ Agree(v, error) /\ Enter(v, error)
    BY <1>7, <2>1, Agreement DEF exception
  <2> HIDE DEF error
  <2>3. P!Call \/ P!Break
    BY <1>0, <2>2, EnterStops
  <2> QED BY <2>3 DEF P!Next
<1>8. CASE trap
  <2>1. CASE tf.cs = GD_KT
    <3>1. pc' = "trap_dispatch" /\ tf' = tf /\ regs' = regs
      <4>1. FL_IF(eflags) = 0 /\ tf.cs # GD_UT3
        BY <2>1 DEF KInv, Disabled, GD_KT, GD_UT3
      <4>2. FL_IF(eflags) # 1
        BY <4>1, SMT
      <4> QED BY <1>8, <4>1, <4>2 DEF trap
    <3>2. OverPlaces'
      BY <2>1, <3>1 DEF OverPlaces
    <3> QED BY <1>0, <3>1, <3>2, EndOrOver
  <2>2. CASE tf.cs # GD_KT
    <3>1. pc = "trap" /\ tf' = tf /\ regs' = regs
      BY <1>8 DEF trap
    <3>2. CASE OverPlaces'
      BY <1>0, <3>1, <3>2, EndOrOver
    <3>3. CASE ~OverPlaces'
      <4>1. pc' = "trap_dispatch"
        BY <1>8, <3>3, PanicOver DEF trap
      <4>2. CaughtPlaces /\ CaughtPlaces'
        BY <2>2, <3>1, <4>1 DEF CaughtPlaces
      <4> QED BY <1>0, <3>1, <4>2, WaitsOn
    <3> QED BY <3>2, <3>3
  <2> QED BY <2>1, <2>2
<1>9. CASE breakpoint
  <2>1. CaughtPlaces /\ CaughtPlaces' /\ UNCHANGED <<regs, tf>>
    BY <1>9 DEF breakpoint, Dispatch, CaughtPlaces, GD_UT3, GD_KT
  <2> QED BY <1>0, <2>1, WaitsOn
<1>10. CASE page_fault_handler \/ unexpected
  <2>1. env_destroy /\ UNCHANGED regs
    BY <1>10 DEF page_fault_handler, unexpected
  <2> QED BY <1>0, <2>1, DestroyOver, EndOrOver
<1>11. CASE kernel_trap
  <2>1. OverPlaces' /\ UNCHANGED regs
    BY <1>11, PanicOver DEF kernel_trap
  <2> QED BY <1>0, <2>1, EndOrOver
<1>12. CASE sys_cputs
  <2>1. CASE Result(-E_NO_SYS)
    BY <1>0, <1>12, <2>1, ResultWaits DEF sys_cputs, syscall
  <2>2. CASE env_destroy
    BY <1>0, <1>12, <2>2, DestroyOver, EndOrOver DEF sys_cputs
  <2> QED BY <1>12, <2>1, <2>2 DEF sys_cputs
<1>13. CASE sys_cgetc
  <2>1. PICK c \in Char : Result(c)
    BY <1>13 DEF sys_cgetc
  <2> QED BY <1>0, <1>13, <2>1, ResultWaits DEF sys_cgetc, syscall
<1>14. CASE sys_getenvid
  BY <1>0, <1>14, ResultWaits DEF sys_getenvid, syscall
<1>15. CASE sys_env_destroy
  <2>1. CASE env_destroy
    BY <1>0, <1>15, <2>1, DestroyOver, EndOrOver DEF sys_env_destroy
  <2>2. CASE Result(-E_BAD_ENV)
    BY <1>0, <1>15, <2>2, ResultWaits DEF sys_env_destroy, syscall
  <2> QED BY <1>15, <2>1, <2>2 DEF sys_env_destroy
<1>16. CASE no_such_syscall
  BY <1>0, <1>16, ResultWaits DEF no_such_syscall
<1>17. CASE trap_return
  <2>1. Running /\ Resumes
    BY <1>17 DEF trap_return, KInv, AtReturn
  <2>2. env_run /\ pc = "return"
    BY <1>17, <2>1, NullAssumption DEF trap_return, Running
  <2>3. /\ pc' = "user" /\ env_tf.eax \in Eax
        /\ regs' = [regs EXCEPT !.eax = env_tf.eax]
        /\ tf.trapno # T_SYSCALL => env_tf.eax = regs.eax
    BY <2>1, <2>2 DEF env_run, Resumes
  <2>4. /\ Phase = IF tf.trapno = T_SYSCALL THEN "calling" ELSE "stopped"
        /\ Phase' = "running"
    BY <1>0, <2>2, <2>3 DEF PhaseByPlace, CaughtPlaces
  <2>5. CASE tf.trapno = T_SYSCALL
    <3>1. env_tf.eax \in {r.eax : r \in Registers}
      <4>1. [regs EXCEPT !.eax = env_tf.eax] \in Registers
        BY <1>0, <2>3 DEF TypeOK, Registers
      <4>2. [regs EXCEPT !.eax = env_tf.eax].eax = env_tf.eax
        BY <1>0 DEF TypeOK, Registers
      <4> QED BY <4>1, <4>2
    <3> QED BY <2>3, <2>4, <2>5, <3>1 DEF P!Next, P!Return
  <2>6. CASE tf.trapno # T_SYSCALL
    <3>1. regs' = regs
      BY <1>0, <2>3, <2>6 DEF TypeOK, Registers
    <3> QED BY <2>4, <2>6, <3>1 DEF P!Next, P!Continue
  <2> QED BY <2>5, <2>6
<1>18. CASE mon_exit
  <2>1. CaughtPlaces /\ CaughtPlaces' /\ UNCHANGED <<regs, tf>>
    BY <1>18 DEF mon_exit, dispatched, CaughtPlaces
  <2> QED BY <1>0, <2>1, WaitsOn
<1>19. CASE UNCHANGED vars
  BY <1>19 DEF vars, P!pvars, Phase, Over
<1> QED BY <1>1, <1>2, <1>3, <1>4, <1>5, <1>6, <1>7, <1>8, <1>9, <1>10, <1>11, <1>12,
           <1>13, <1>14, <1>15, <1>16, <1>17, <1>18, <1>19 DEF Next, KernelStep

(* The kernel keeps every promise of module Process: whatever the program  *)
(* raises and the operator does, its registers are its own but for the     *)
(* result of a system call, and it never runs once it is over.             *)
(* (trap, env_run, env_destroy, monitor)                                   *)
THEOREM ProgramUndisturbed == Spec => ImplementsProcess
<1>1. Init => P!Init
  BY DEF Init, P!Init, Phase, Over
<1> QED BY <1>1, Inductive, StepViewed, PTL DEF Spec, ImplementsProcess, P!Spec
=============================================================================
