------------------------------- MODULE Kernel -------------------------------
(***************************************************************************)
(* The kernel's one path of control: i386_init creates an environment and  *)
(* runs it; traps bring the processor back (trapentry.S, trap.c), where    *)
(* they are dispatched to a system call, the monitor or the end of the     *)
(* environment; env_run returns to user mode.  There is one processor and  *)
(* interrupts are off throughout, so between two steps here nothing else   *)
(* runs.                                                                   *)
(***************************************************************************)
EXTENDS Integers, Sequences

CONSTANTS Gpr,      \* values of the general registers other than %eax
          Eax,      \* values of %eax in user mode
          Eip,      \* values of %eip in user mode
          Eflags,   \* values of %eflags
          Entry,    \* elfhdr->e_entry
          EnvId,    \* env_id of envs[0]
          Char,     \* what cons_getc may return; 0 when no input waits
          NULL

(* Selectors (inc/memlayout.h) with their privilege level, and vectors.    *)
GD_KT == 8
GD_UT3 == 27
GD_UD3 == 35
USTACKTOP == 1
T_BRKPT == 3
T_GPFLT == 13
T_PGFLT == 14
T_SYSCALL == 48
SYS_cputs == 0
SYS_cgetc == 1
SYS_getenvid == 2
SYS_env_destroy == 3
E_BAD_ENV == 2
E_NO_SYS == 7

ASSUME KernelAssumption ==
  /\ Entry \in Eip /\ 0 \in Gpr /\ 0 \in Eax /\ 0 \in Eflags /\ Eflags \subseteq Nat
  /\ EnvId \in Int \ {0} /\ EnvId \in Gpr
  /\ {-E_NO_SYS, -E_BAD_ENV, EnvId} \cup Char \subseteq Eax

(* NULL is not envs[0], and no message.                                    *)
ASSUME NullAssumption == NULL # 0
ASSUME MessageAssumption ==
  NULL \notin {"can't alloc new env", "out of memory", "assertion failed: curenv",
              "Page fault triggered in kernel", "unhandled trap in kernel",
              "assertion failed: !(read_eflags() & FL_IF)",
              "assertion failed: curenv && curenv->env_status"}

VARIABLES pc,          \* the code that is running
          eflags,      \* %eflags in the kernel, which looks at FL_IF only
          regs,        \* user registers, as they were when user mode was left
          vector,      \* the exception or interrupt that left it
          tf,          \* the Trapframe on the kernel stack
          env_tf,      \* envs[0].env_tf
          env_status,  \* envs[0].env_status
          curenv,      \* NULL or 0, for envs[0]
          cr3,         \* the page directory in force
          panicstr,    \* the first panic's message, or NULL
          caller       \* who called monitor

vars == <<pc, eflags, regs, vector, tf, env_tf, env_status, curenv, cr3, panicstr, caller>>

Code == {"i386_init", "load_icode", "env_run", "user", "trap", "trap_dispatch",
         "return", "monitor"}

(* The interrupt flag and the I/O privilege level in %eflags (inc/mmu.h).  *)
FL_IF(flags) == (flags \div 512) % 2
FL_IOPL(flags) == (flags \div 4096) % 4

Registers == [gpr : Gpr, eax : Eax, es : {GD_UD3}, ds : {0, GD_UD3},
              eip : Eip, cs : {GD_UT3}, eflags : Eflags, esp : {USTACKTOP}, ss : {GD_UD3}]

(* What env_alloc and load_icode put into env_tf.                          *)
StartRegs == [gpr |-> 0, eax |-> 0, es |-> GD_UD3, ds |-> GD_UD3, eip |-> Entry,
              cs |-> GD_UT3, eflags |-> 0, esp |-> USTACKTOP, ss |-> GD_UD3]

----------------------------------------------------------------------------
(* Trap frames.  For some exceptions the processor pushes an error code,   *)
(* which the other entry points, made with TRAPHANDLER_NOEC, make up for   *)
(* by a 0.  The instructions int and int3 never push one.                  *)
Exceptions == (0 .. 19) \ {9, 15}
PushesError == {8, 10, 11, 12, 13, 14, 17}

(* Mutant: the entry point of T_ALIGN made with the wrong macro.           *)
NOECAlign == {0, 1, 2, 3, 4, 5, 6, 7, 16, 17, 18, 19, T_SYSCALL}
NOEC == {0, 1, 2, 3, 4, 5, 6, 7, 16, 18, 19, T_SYSCALL}

(* The stack, last word first: what _alltraps and the entry point of v     *)
(* push, the error code if there is one, and what every trap pushes.       *)
Stack(v, r, error) ==
  <<r.gpr, r.eax, r.es, r.ds, v>> \o (IF v \in NOEC THEN <<0>> ELSE <<>>)
    \o error \o <<r.eip, r.cs, r.eflags, r.esp, r.ss>>

(* struct Trapframe laid over these words.  Below the last word is what    *)
(* was there before.                                                       *)
Trapframe(s) ==
  [gpr |-> s[1], eax |-> s[2], es |-> s[3], ds |-> s[4], trapno |-> s[5],
   err |-> s[6], eip |-> s[7], cs |-> s[8], eflags |-> s[9], esp |-> s[10],
   ss |-> IF Len(s) >= 11 THEN s[11] ELSE 0]

(* Mutant: %ds popped before %es.                                          *)
pop_swapped(f) ==
  [gpr |-> f.gpr, eax |-> f.eax, es |-> f.ds, ds |-> f.es,
   eip |-> f.eip, cs |-> f.cs, eflags |-> f.eflags, esp |-> f.esp, ss |-> f.ss]

(* popal, popl %es, popl %ds, the two words skipped, and iret.             *)
env_pop_tf(f) ==
  [gpr |-> f.gpr, eax |-> f.eax, es |-> f.es, ds |-> f.ds,
   eip |-> f.eip, cs |-> f.cs, eflags |-> f.eflags, esp |-> f.esp, ss |-> f.ss]

Blank == [gpr |-> 0, eax |-> 0, es |-> 0, ds |-> 0, trapno |-> 0,
          err |-> 0, eip |-> 0, cs |-> 0, eflags |-> 0, esp |-> 0, ss |-> 0]

(* Mutant: programs start with interrupts enabled.                         *)
NewFrameIF == [Blank EXCEPT !.ds = GD_UD3, !.es = GD_UD3, !.ss = GD_UD3,
                            !.esp = USTACKTOP, !.cs = GD_UT3, !.eflags = 512]

(* What env_alloc puts into the frame it has cleared.                      *)
NewFrame == [Blank EXCEPT !.ds = GD_UD3, !.es = GD_UD3, !.ss = GD_UD3,
                          !.esp = USTACKTOP, !.cs = GD_UT3]

----------------------------------------------------------------------------
(* The ends of a path through the kernel.  Each determines pc, env_status, *)
(* cr3, panicstr and caller.                                               *)
panic(message) ==
  /\ panicstr' = IF panicstr = NULL THEN message ELSE panicstr
  /\ pc' = "monitor" /\ caller' = "panic"
  /\ UNCHANGED <<env_status, cr3>>

(* Mutant: the loop around monitor is left out.                            *)
env_destroy_once ==
  /\ env_status' = "ENV_FREE" /\ cr3' = "kern_pgdir"
  /\ pc' = "monitor" /\ caller' = "breakpoint"
  /\ UNCHANGED panicstr

env_destroy ==
  /\ env_status' = "ENV_FREE" /\ cr3' = "kern_pgdir"
  /\ pc' = "monitor" /\ caller' = "env_destroy"
  /\ UNCHANGED panicstr

(* A page fault in the kernel: the frame that trap() finds on the stack.   *)
KernelFault ==
  /\ pc' = "trap" /\ vector' = T_PGFLT
  /\ tf' = [Blank EXCEPT !.trapno = T_PGFLT, !.cs = GD_KT]
  /\ UNCHANGED <<eflags, regs, env_tf, env_status, curenv, cr3, panicstr, caller>>

(* trap_dispatch returns to trap.                                          *)
dispatched ==
  /\ pc' = "return"
  /\ UNCHANGED <<env_status, cr3, panicstr, caller>>

----------------------------------------------------------------------------
Init ==
  /\ pc = "i386_init" /\ eflags = 0
  /\ regs = StartRegs
  /\ vector = NULL
  /\ tf = Blank /\ env_tf = Blank
  /\ env_status = "ENV_FREE"
  /\ curenv = NULL
  /\ cr3 = "kern_pgdir"
  /\ panicstr = NULL
  /\ caller = NULL

(* mem_init, env_init and trap_init are done; env_create allocates envs[0] *)
(* or panics, and load_icode switches to its address space.                *)
env_create ==
  /\ pc = "i386_init"
  /\ \/ /\ pc' = "load_icode"
        /\ env_status' = "ENV_RUNNABLE"
        /\ cr3' = "env_pgdir"
        /\ env_tf' = NewFrame
        /\ UNCHANGED <<panicstr, caller>>
     \/ panic("can't alloc new env") /\ UNCHANGED env_tf
  /\ UNCHANGED <<eflags, regs, vector, tf, curenv>>

(* The segments are loaded, or the ELF magic is wrong, or memory runs out. *)
load_icode ==
  /\ pc = "load_icode"
  /\ \/ /\ pc' = "env_run" /\ cr3' = "kern_pgdir"
        /\ env_tf' = [env_tf EXCEPT !.esp = USTACKTOP, !.eip = Entry]
        /\ UNCHANGED <<env_status, panicstr, caller>>
     \/ panic("out of memory") /\ UNCHANGED env_tf
  /\ UNCHANGED <<eflags, regs, vector, tf, curenv>>

(* Its memcpy reaches a page that region_alloc has not mapped.             *)
load_icode_fault == pc = "load_icode" /\ KernelFault

(* Mutant: env_run leaves kern_pgdir in force.                             *)
env_run_kern_pgdir ==
  /\ curenv' = 0 /\ env_status' = "ENV_RUNNING"
  /\ regs' = env_pop_tf(env_tf) /\ pc' = "user"
  /\ eflags' = env_tf.eflags
  /\ vector' = NULL /\ tf' = Blank
  /\ UNCHANGED <<env_tf, cr3, panicstr, caller>>

(* env_run(&envs[0]), and so env_run(curenv).  The kernel stack is given   *)
(* up: the next trap starts at ts_esp0 again.                              *)
env_run ==
  /\ curenv' = 0 /\ env_status' = "ENV_RUNNING" /\ cr3' = "env_pgdir"
  /\ regs' = env_pop_tf(env_tf) /\ pc' = "user"
  /\ eflags' = env_tf.eflags
  /\ vector' = NULL /\ tf' = Blank
  /\ UNCHANGED <<env_tf, panicstr, caller>>

run_first == pc = "env_run" /\ env_run

----------------------------------------------------------------------------
(* User mode.  The program is not ours: it may do anything with its        *)
(* registers, and raise any exception.  Of %eflags it cannot change the    *)
(* I/O privilege level, nor FL_IF unless that level is 3.                  *)
Guarded(old, new) ==
  /\ FL_IOPL(new) = FL_IOPL(old)
  /\ FL_IOPL(old) # 3 => FL_IF(new) = FL_IF(old)

execute ==
  /\ pc = "user"
  /\ regs' \in Registers
  /\ Guarded(regs.eflags, regs'.eflags)
  /\ UNCHANGED <<pc, eflags, vector, tf, env_tf, env_status, curenv, cr3, panicstr, caller>>

(* Mutant: every gate is open to user mode.                                *)
AllGates == Exceptions \cup {T_SYSCALL}

(* The gates with DPL 3.                                                   *)
UserGates == {T_BRKPT, T_SYSCALL}

(* All gates are trap gates, which leave FL_IF as it is.                   *)
Enter(v, error) ==
  /\ vector' = <<v, error>>
  /\ tf' = Trapframe(Stack(v, regs, error))
  /\ pc' = "trap" /\ eflags' = regs.eflags
  /\ UNCHANGED <<regs, env_tf, env_status, curenv, cr3, panicstr, caller>>

(* int $n: through a gate that is closed it raises T_GPFLT.                *)
interrupt ==
  /\ pc = "user"
  /\ \E n \in Exceptions \cup {T_SYSCALL} :
       IF n \in UserGates THEN Enter(n, <<>>) ELSE Enter(T_GPFLT, <<n>>)

(* The processor itself stops the program.                                 *)
exception ==
  /\ pc = "user"
  /\ \E v \in Exceptions \ {T_BRKPT} :
       Enter(v, IF v \in PushesError THEN <<1>> ELSE <<>>)

----------------------------------------------------------------------------
(* trap() copies a frame from user mode to curenv->env_tf and ignores the  *)
(* one on the stack from there on.                                         *)
trap ==
  /\ pc = "trap"
  /\ \/ /\ FL_IF(eflags) = 1
        /\ panic("assertion failed: !(read_eflags() & FL_IF)") /\ UNCHANGED env_tf
     \/ /\ FL_IF(eflags) = 0 /\ tf.cs = GD_UT3 /\ curenv = NULL
        /\ panic("assertion failed: curenv") /\ UNCHANGED env_tf
     \/ /\ FL_IF(eflags) = 0 /\ (tf.cs = GD_UT3 => curenv # NULL)
        /\ pc' = "trap_dispatch"
        /\ env_tf' = IF tf.cs = GD_UT3 THEN tf ELSE env_tf
        /\ UNCHANGED <<env_status, cr3, panicstr, caller>>
  /\ UNCHANGED <<eflags, regs, vector, tf, curenv>>

Dispatch(v) ==
  pc = "trap_dispatch" /\ tf.cs = GD_UT3 /\ env_tf.trapno = v

breakpoint ==
  /\ Dispatch(T_BRKPT)
  /\ pc' = "monitor" /\ caller' = "breakpoint"
  /\ UNCHANGED <<eflags, regs, vector, tf, env_tf, env_status, curenv, cr3, panicstr>>

(* Mutant: the environment is not destroyed.                               *)
page_fault_handler_returns ==
  /\ Dispatch(T_PGFLT) /\ dispatched
  /\ UNCHANGED <<eflags, regs, vector, tf, env_tf, curenv>>

page_fault_handler ==
  /\ Dispatch(T_PGFLT) /\ env_destroy
  /\ UNCHANGED <<eflags, regs, vector, tf, env_tf, curenv>>

unexpected ==
  /\ \E v \in Exceptions \ {T_BRKPT, T_PGFLT} : Dispatch(v)
  /\ env_destroy
  /\ UNCHANGED <<eflags, regs, vector, tf, env_tf, curenv>>

kernel_trap ==
  /\ pc = "trap_dispatch" /\ tf.cs = GD_KT
  /\ panic(IF tf.trapno = T_PGFLT THEN "Page fault triggered in kernel"
           ELSE "unhandled trap in kernel")
  /\ UNCHANGED <<eflags, regs, vector, tf, env_tf, curenv>>

----------------------------------------------------------------------------
(* System calls: number in %eax, first argument in %edx.                   *)
Result(r) ==
  /\ env_tf' = [env_tf EXCEPT !.eax = r]
  /\ dispatched

syscall(number) == Dispatch(T_SYSCALL) /\ env_tf.eax = number

(* user_mem_assert passes, or destroys the environment.  After printing,   *)
(* the switch is left by break.                                            *)
sys_cputs ==
  /\ syscall(SYS_cputs)
  /\ \/ Result(-E_NO_SYS)
     \/ env_destroy /\ UNCHANGED env_tf
  /\ UNCHANGED <<eflags, regs, vector, tf, curenv>>

(* cprintf reads beyond what was checked (module UserMem).                 *)
sys_cputs_fault == syscall(SYS_cputs) /\ KernelFault

sys_cgetc ==
  /\ syscall(SYS_cgetc)
  /\ \E c \in Char : Result(c)
  /\ UNCHANGED <<eflags, regs, vector, tf, curenv>>

sys_getenvid ==
  /\ syscall(SYS_getenvid)
  /\ Result(EnvId)
  /\ UNCHANGED <<eflags, regs, vector, tf, curenv>>

(* envid2env: 0 and its own id name the environment, no other exists.      *)
sys_env_destroy ==
  /\ syscall(SYS_env_destroy)
  /\ IF env_tf.gpr \in {0, EnvId} THEN env_destroy /\ UNCHANGED env_tf
     ELSE Result(-E_BAD_ENV)
  /\ UNCHANGED <<eflags, regs, vector, tf, curenv>>

Syscalls == {SYS_cputs, SYS_cgetc, SYS_getenvid, SYS_env_destroy}

no_such_syscall ==
  /\ Dispatch(T_SYSCALL) /\ env_tf.eax \notin Syscalls
  /\ Result(-E_NO_SYS)
  /\ UNCHANGED <<eflags, regs, vector, tf, curenv>>

(* The end of trap().                                                      *)
trap_return ==
  /\ pc = "return"
  /\ IF curenv # NULL /\ env_status = "ENV_RUNNING" THEN env_run
     ELSE /\ panic("assertion failed: curenv && curenv->env_status")
          /\ UNCHANGED <<eflags, regs, vector, tf, env_tf, curenv>>

----------------------------------------------------------------------------
(* The monitor.  Most commands change nothing here; exit returns to        *)
(* trap_dispatch, or to the loops of env_destroy and _panic, which call    *)
(* monitor again.                                                          *)
mon_exit ==
  /\ pc = "monitor" /\ caller = "breakpoint"
  /\ dispatched
  /\ UNCHANGED <<eflags, regs, vector, tf, env_tf, curenv>>

(* It follows saved frame pointers, into the user's stack and past its end.*)
mon_backtrace_fault == pc = "monitor" /\ KernelFault

KernelStep ==
  \/ env_create \/ load_icode \/ run_first
  \/ trap \/ breakpoint \/ page_fault_handler \/ unexpected \/ kernel_trap
  \/ sys_cputs \/ sys_cgetc \/ sys_getenvid \/ sys_env_destroy
  \/ no_such_syscall \/ trap_return

Next ==
  \/ KernelStep \/ load_icode_fault \/ sys_cputs_fault
  \/ execute \/ interrupt \/ exception
  \/ mon_exit \/ mon_backtrace_fault

(* The kernel runs with interrupts disabled: what it does next, it does.   *)
(* Nothing is assumed of the program and of the operator.                  *)
Spec == Init /\ [][Next]_vars /\ WF_vars(KernelStep)

----------------------------------------------------------------------------
TypeOK ==
  /\ pc \in Code
  /\ eflags \in Eflags /\ regs \in Registers
  /\ env_status \in {"ENV_FREE", "ENV_RUNNABLE", "ENV_RUNNING"}
  /\ curenv \in {NULL, 0}
  /\ cr3 \in {"kern_pgdir", "env_pgdir"}
  /\ caller \in {NULL, "breakpoint", "env_destroy", "panic"}

(* The Trapframe that trap() is given holds the registers of the program,  *)
(* the vector that was raised and its error code, or 0: the entry point of *)
(* each vector agrees with the processor on whether there is one, and      *)
(* int $n cannot enter through a gate that expects one.                    *)
FrameExact ==
  pc = "trap" /\ tf.cs # GD_KT =>
    /\ env_pop_tf(tf) = regs
    /\ tf.trapno = vector[1]
    /\ tf.err = IF vector[2] = <<>> THEN 0 ELSE vector[2][1]

(* The three assertions of trap() hold whenever control reaches them:      *)
(* interrupts are off, because no program is started with FL_IF and none   *)
(* can set it, although the gates do not clear it; and no path leads back  *)
(* to an environment that does not run.  User mode runs in curenv's own    *)
(* address space, after a stop in the monitor too.                         *)
AssertionsHold ==
  /\ TypeOK
  /\ pc = "trap" => FL_IF(eflags) = 0
  /\ pc = "trap" /\ tf.cs = GD_UT3 => curenv # NULL
  /\ pc = "return" => curenv # NULL /\ env_status = "ENV_RUNNING"
  /\ pc = "user" =>
       curenv = 0 /\ env_status = "ENV_RUNNING" /\ cr3 = "env_pgdir"

(* An exception other than a breakpoint or a system call ends the          *)
(* environment that raised it (trap_dispatch).                             *)
FaultIsFatal ==
  (pc = "trap" /\ tf.cs = GD_UT3 /\ tf.trapno \notin {T_BRKPT, T_SYSCALL})
    ~> (env_status = "ENV_FREE")

(* The program's view of the kernel (module Process).                      *)
Over ==
  \/ panicstr # NULL
  \/ env_status = "ENV_FREE" /\ pc # "i386_init"
  \/ pc \in {"trap", "trap_dispatch"} /\ tf.cs = GD_KT
Phase ==
  IF Over THEN "over"
  ELSE IF pc \in {"i386_init", "load_icode", "env_run"} THEN "starting"
  ELSE IF pc = "user" THEN "running"
  ELSE IF tf.trapno = T_SYSCALL THEN "calling" ELSE "stopped"

P == INSTANCE Process WITH
  Regs <- Registers, Started <- StartRegs, phase <- Phase

(* A program never finds its registers changed by the kernel, but for the  *)
(* result of a system call, and never runs again once it has ended or the  *)
(* kernel has panicked.                                                    *)
ImplementsProcess == P!Spec
============================================================================
