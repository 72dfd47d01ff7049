-------------------------------- MODULE Env --------------------------------
(***************************************************************************)
(* The environment table of kern/env.c: allocation of struct Envs from     *)
(* env_free_list, the env_ids they are given, which of them runs, and      *)
(* envid2env, which turns an env_id back into an environment.              *)
(*                                                                         *)
(* The functions may be called in any order kern/env.h allows; that this   *)
(* kernel never returns from its first env_destroy is the business of      *)
(* module Kernel.  What a page directory holds is the business of module   *)
(* Pmap: here env_setup_vm only fails or succeeds, and the directory that  *)
(* cr3 points to is known by the environment it was made for.              *)
(***************************************************************************)
EXTENDS Integers, Sequences, FiniteSets

CONSTANTS NENV,      \* 1 << LOG2NENV
          GenStep,   \* 1 << ENVGENSHIFT
          Half,      \* 2^31: envid_t is an int32_t
          MaxRuns,   \* bound: env_run of one environment
          MaxBirths, \* bound: env_alloc of one slot
          NULL

Slot == 0 .. NENV - 1

ASSUME EnvAssumption ==
  /\ NENV \in Nat \ {0}
  /\ GenStep \in Nat \ {0} /\ GenStep % NENV = 0
  /\ Half \in Nat /\ Half > GenStep /\ Half % GenStep = 0
  /\ MaxRuns \in Nat /\ MaxBirths \in Nat

ASSUME NullAssumption == NULL \notin Int /\ NULL \notin Slot \X Nat

VARIABLES envs,           \* struct Env of each slot
          env_free_list,  \* the slots on the free list, head first
          curenv,         \* the environment that was run last, or NULL
          cr3,            \* NULL for kern_pgdir, or slot and birth of an environment
          history,        \* auxiliary: the env_ids each slot was given
          parent          \* auxiliary: slot and birth of each env's parent

vars == <<envs, env_free_list, curenv, cr3, history, parent>>

Status == {"ENV_FREE", "ENV_RUNNABLE", "ENV_RUNNING"}

----------------------------------------------------------------------------
ENVX(id) == id % NENV

(* int32_t arithmetic, as the compiled code does it.                       *)
Int32(x) == ((x + Half) % (2 * Half)) - Half

(* Mutant: negative generations are kept.                                  *)
GenerationUnchecked(id) ==
  LET generation == Int32(id + GenStep) IN generation - (generation % NENV)

(* The generation part of the next env_id for a slot that had id before.   *)
Generation(id) ==
  LET sum == Int32(id + GenStep)
      generation == sum - (sum % NENV)
  IN IF generation <= 0 THEN GenStep ELSE generation

(* Mutants: the env_id is not compared; any environment may be named.      *)
Envid2envBySlot(id, checkperm) ==
  IF id = 0 THEN curenv
  ELSE IF envs[ENVX(id)].env_status = "ENV_FREE" THEN NULL
  ELSE ENVX(id)
Envid2envAnyPerm(id, checkperm) ==
  IF id = 0 THEN curenv
  ELSE IF \/ envs[ENVX(id)].env_status = "ENV_FREE"
          \/ envs[ENVX(id)].env_id # id THEN NULL
  ELSE ENVX(id)

(* The environment that id names, or NULL for -E_BAD_ENV.                  *)
envid2env(id, checkperm) ==
  LET e == ENVX(id) IN
  IF id = 0 THEN curenv
  ELSE IF \/ envs[e].env_status = "ENV_FREE"
          \/ envs[e].env_id # id
          \/ /\ checkperm /\ e # curenv
             /\ envs[e].env_parent_id # envs[curenv].env_id
       THEN NULL
  ELSE e

----------------------------------------------------------------------------
(* mem_init has zeroed envs; ENV_FREE is 0.                                *)
Init ==
  /\ envs = [e \in Slot |-> [env_id |-> 0, env_parent_id |-> 0,
                             env_status |-> "ENV_FREE", env_runs |-> 0]]
  /\ env_free_list = [n \in 1 .. NENV |-> n - 1]
  /\ curenv = NULL /\ cr3 = NULL
  /\ history = [e \in Slot |-> <<>>]
  /\ parent = [e \in Slot |-> NULL]

(* env_pgdir: a new one for each environment.                              *)
Pgdir(e) == <<e, Len(history[e])>>

Current == curenv # NULL /\ envs[curenv].env_status = "ENV_RUNNING"

(* Nobody's child, as env_create makes them, or a child of curenv.  When   *)
(* there is no free Env, or no page for its directory, env_alloc returns   *)
(* an error and changes nothing.                                           *)
env_alloc(child) ==
  /\ env_free_list # <<>>
  /\ LET e  == Head(env_free_list)
         id == Generation(envs[e].env_id) + e
     IN
       /\ Len(history[e]) < MaxBirths
       /\ envs' = [envs EXCEPT ![e] =
                     [env_id |-> id,
                      env_parent_id |-> IF child THEN envs[curenv].env_id ELSE 0,
                      env_status |-> "ENV_RUNNABLE",
                      env_runs |-> 0]]
       /\ history' = [history EXCEPT ![e] = Append(@, id)]
       /\ parent' = [parent EXCEPT ![e] =
                       IF child THEN Pgdir(curenv) ELSE NULL]
  /\ env_free_list' = Tail(env_free_list)
  /\ UNCHANGED curenv

env_alloc_child == Current /\ env_alloc(TRUE) /\ UNCHANGED cr3

(* load_icode fills the new address space and leaves kern_pgdir in force.  *)
env_create == env_alloc(FALSE) /\ cr3' = NULL

(* Mutant: the Env is pushed but not marked free.                          *)
env_free_unmarked(e) ==
  /\ envs[e].env_status # "ENV_FREE"
  /\ env_free_list' = <<e>> \o env_free_list
  /\ cr3' = IF e = curenv THEN NULL ELSE cr3
  /\ UNCHANGED <<envs, curenv, history, parent>>

(* Mutant: the directory that is freed stays in force.                     *)
env_free_in_place(e) ==
  /\ envs[e].env_status # "ENV_FREE"
  /\ envs' = [envs EXCEPT ![e].env_status = "ENV_FREE"]
  /\ env_free_list' = <<e>> \o env_free_list
  /\ UNCHANGED <<curenv, cr3, history, parent>>

(* curenv and env_id stay as they are.                                     *)
env_free(e) ==
  /\ envs[e].env_status # "ENV_FREE"
  /\ envs' = [envs EXCEPT ![e].env_status = "ENV_FREE"]
  /\ env_free_list' = <<e>> \o env_free_list
  /\ cr3' = IF e = curenv THEN NULL ELSE cr3
  /\ UNCHANGED <<curenv, history, parent>>

(* Mutant: the environment that ran before stays ENV_RUNNING.              *)
StillRunning(E) == E

Descheduled(E) ==
  IF curenv # NULL /\ E[curenv].env_status = "ENV_RUNNING"
  THEN [E EXCEPT ![curenv].env_status = "ENV_RUNNABLE"] ELSE E

env_run(e) ==
  /\ envs[e].env_status # "ENV_FREE"
  /\ envs[e].env_runs < MaxRuns
  /\ envs' = [Descheduled(envs) EXCEPT ![e].env_status = "ENV_RUNNING",
                                       ![e].env_runs = @ + 1]
  /\ curenv' = e /\ cr3' = Pgdir(e)
  /\ UNCHANGED <<env_free_list, history, parent>>

(* The environment that runs asks for id to be destroyed.                  *)
sys_env_destroy(id) ==
  /\ Current
  /\ envid2env(id, TRUE) # NULL
  /\ env_free(envid2env(id, TRUE))

(* The ids a program may come up with: 0 and every one it can have seen.   *)
Given == {0} \cup UNION {{history[e][n] : n \in DOMAIN history[e]} : e \in Slot}

Next ==
  \/ env_create \/ env_alloc_child
  \/ \E e \in Slot : env_free(e) \/ env_run(e)
  \/ \E id \in Given : sys_env_destroy(id)

Spec == Init /\ [][Next]_vars

----------------------------------------------------------------------------
TypeOK ==
  /\ envs \in [Slot -> [env_id : 0 .. Half - 1, env_parent_id : 0 .. Half - 1,
                        env_status : Status, env_runs : 0 .. MaxRuns]]
  /\ env_free_list \in Seq(Slot)
  /\ curenv \in Slot \cup {NULL}
  /\ history \in [Slot -> Seq(1 .. Half - 1)]
  /\ cr3 \in (Slot \X Nat) \cup {NULL}
  /\ parent \in [Slot -> (Slot \X Nat) \cup {NULL}]

(* env_free_list holds every ENV_FREE Env exactly once and no other; at    *)
(* most one environment is ENV_RUNNING, and it is curenv; the directory in *)
(* force is the kernel's or that of curenv, not of an environment that is  *)
(* gone or one that has its slot now.  (env_free, env_run, env_create)     *)
StatusExact ==
  /\ TypeOK
  /\ \A e \in Slot : envs[e].env_status = "ENV_RUNNING" => e = curenv
  /\ \A m, n \in DOMAIN env_free_list :
       env_free_list[m] = env_free_list[n] => m = n
  /\ \A e \in Slot : envs[e].env_status = "ENV_FREE" <=>
                     \E n \in DOMAIN env_free_list : env_free_list[n] = e
  /\ cr3 # NULL => curenv # NULL /\ cr3 = Pgdir(curenv)
                   /\ envs[curenv].env_status # "ENV_FREE"

(* The env_id of an environment is positive and says in which slot it is   *)
(* (inc/env.h), however often generations have wrapped around: so no two   *)
(* environments share an id, and envid2env finds each by its own.          *)
IdsNameSlots ==
  \A e \in Slot : envs[e].env_status # "ENV_FREE" =>
    /\ envs[e].env_id > 0
    /\ ENVX(envs[e].env_id) = e
    /\ envid2env(envs[e].env_id, FALSE) = e

(* How many ids a slot can be given until they repeat.                     *)
Cycle == Half \div GenStep - 1

(* An id handed out for an environment that is gone names no environment,  *)
(* although another one may use its slot (the check of env_id in           *)
(* envid2env), until the generations of the slot have wrapped around.      *)
NoStaleId ==
  \A e \in Slot : \A n \in DOMAIN history[e] :
    /\ n < Len(history[e]) \/ envs[e].env_status = "ENV_FREE"
    /\ n + Cycle > Len(history[e])
    => envid2env(history[e][n], FALSE) = NULL

(* With checkperm an environment reaches itself and the children it made   *)
(* itself, not those an environment of its slot made in an earlier one of  *)
(* the Cycle generations.                                                  *)
OnlyOwnChildren ==
  Current =>
    \A id \in Given :
      LET e == envid2env(id, TRUE) IN
      e \notin {NULL, curenv} =>
        /\ parent[e] # NULL /\ parent[e][1] = curenv
        /\ (Len(history[curenv]) - parent[e][2]) % Cycle = 0
============================================================================
