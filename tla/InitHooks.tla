------------------------------ MODULE InitHooks ------------------------------
(***************************************************************************)
(* The init stage hooks of init.c.  REGISTER_INIT_HOOK puts hooks into one *)
(* linker section, in the order in which the linker meets them;            *)
(* init_hooks_init sorts the section in place, and each kernel_init_upto   *)
(* goes on from where the one before it stopped.                           *)
(*                                                                         *)
(* qsort is module Qsort's subject.  It is not stable, so here it leaves   *)
(* any arrangement that hook_cmp accepts.  A hook is opaque: it returns,   *)
(* in a step of its own, and does not call kernel_init_upto itself.        *)
(***************************************************************************)
EXTENDS Integers, SequencesExt, FiniteSets

CONSTANTS Hooks,          \* the registered hooks
          StageOf,        \* the stage of each, a number of enum init_stage
          PriorityOf,     \* the priority of each
          MaxStage,       \* INIT_STAGE_PERCPU, the last stage
          Wrap            \* 2^32: enum init_stage is an unsigned int

Stages == 0..MaxStage     \* 0 is INIT_STAGE_NONE

\* The section of hooks in some order.
Arrangements == Bijection(1..Cardinality(Hooks), Hooks)

ASSUME InitHooksAssumption ==
  /\ IsFiniteSet(Hooks)
  /\ MaxStage \in Nat /\ Wrap \in Nat /\ MaxStage < Wrap - 1
  /\ StageOf \in [Hooks -> Stages]
  /\ PriorityOf \in [Hooks -> Nat]

VARIABLES
  hooks,       \* the section of hooks, __init_hooks_start to __init_hooks_end
  cur,         \* init_hook_cur, as an index into hooks
  stage,       \* the global of that name
  pc,          \* "unsorted", "idle", "loop" (at its test) or "hook" (in a hook)
  upto,        \* upto_stage of the latest call
  at,          \* cur_hook of the call in progress
  ran          \* history: the hooks called, in order

vars == <<hooks, cur, stage, pc, upto, at, ran>>

Init == /\ hooks \in Arrangements
        /\ cur = 1 /\ stage = 0 /\ pc = "unsorted" /\ upto = 0 /\ at = 1
        /\ ran = <<>>

\* Variant: the priority comes first.
hook_cmp_PriorityFirst(a, b) ==
  CASE PriorityOf[a] # PriorityOf[b] ->
         IF PriorityOf[a] < PriorityOf[b] THEN -1 ELSE 1
    [] OTHER -> 0

\* Of one stage the lower priority comes first, where init.h:53-54 has the higher
\* one called earlier.
hook_cmp(a, b) ==
  CASE StageOf[a] # StageOf[b] -> IF StageOf[a] < StageOf[b] THEN -1 ELSE 1
    [] StageOf[a] = StageOf[b] /\ PriorityOf[a] # PriorityOf[b] ->
         IF PriorityOf[a] < PriorityOf[b] THEN -1 ELSE 1
    [] OTHER -> 0

\* kmain calls it before anything else.
init_hooks_init ==
  /\ pc = "unsorted" /\ pc' = "idle"
  /\ hooks' \in Arrangements
  /\ \A i, j \in DOMAIN hooks' : i < j => hook_cmp(hooks'[i], hooks'[j]) <= 0
  /\ UNCHANGED <<cur, stage, upto, at, ran>>

\* kernel_init_upto(s): the call, its loop, a hook, and what follows the loop.
CallUpto(s) ==
  /\ pc = "idle" /\ pc' = "loop"
  /\ upto' = s /\ at' = cur
  /\ UNCHANGED <<hooks, cur, stage, ran>>

\* Variant: hooks of the stage asked for are left for a later call.
More_Exclusive == at <= Len(hooks) /\ StageOf[hooks[at]] < upto

More == at <= Len(hooks) /\ StageOf[hooks[at]] <= upto

\* Variant: the stage is signed.
EnterHook_Signed ==
  /\ pc = "loop" /\ More /\ pc' = "hook"
  /\ stage' = StageOf[hooks[at]] - 1
  /\ ran' = Append(ran, hooks[at])
  /\ UNCHANGED <<hooks, cur, upto, at>>

EnterHook ==
  /\ pc = "loop" /\ More /\ pc' = "hook"
  /\ stage' = (StageOf[hooks[at]] - 1) % Wrap
  /\ ran' = Append(ran, hooks[at])
  /\ UNCHANGED <<hooks, cur, upto, at>>

\* Variant: only the local iterator advances.
HookReturns_LocalOnly ==
  /\ pc = "hook" /\ pc' = "loop"
  /\ at' = at + 1
  /\ UNCHANGED <<hooks, cur, stage, upto, ran>>

HookReturns ==
  /\ pc = "hook" /\ pc' = "loop"
  /\ at' = at + 1 /\ cur' = at + 1
  /\ UNCHANGED <<hooks, stage, upto, ran>>

\* Variant: a hook of a later stage is skipped without a step to the next one.
ReachStage_Spins ==
  /\ pc = "loop" /\ ~More
  /\ IF at <= Len(hooks) THEN UNCHANGED vars
       ELSE pc' = "idle" /\ stage' = upto /\ UNCHANGED <<hooks, cur, upto, at, ran>>

ReachStage ==
  /\ pc = "loop" /\ ~More /\ pc' = "idle"
  /\ stage' = upto
  /\ UNCHANGED <<hooks, cur, upto, at, ran>>

Next == \/ init_hooks_init \/ EnterHook \/ HookReturns \/ ReachStage
        \/ \E s \in Stages : CallUpto(s)

\* The processor does nothing else, and hooks return.
Spec == Init /\ [][Next]_vars /\ WF_vars(EnterHook \/ HookReturns \/ ReachStage)

-----------------------------------------------------------------------------
(* Properties. *)

Ran == Range(ran)

TypeOK == /\ hooks \in Seq(Hooks) /\ ran \in Seq(Hooks)
          /\ cur \in Nat \ {0} /\ at \in Nat \ {0}
          /\ stage \in 0..(Wrap - 1) /\ upto \in Stages
          /\ pc \in {"unsorted", "idle", "loop", "hook"}

\* The stage that the rest of the kernel can read tells the truth, also within
\* a hook and after a call for an earlier stage: every hook registered for it or
\* for an earlier stage was called.  After the hooks of INIT_STAGE_NONE, which
\* make the stage wrap, it is no stage at all for a while.
StageTruthful ==
  stage \in Stages \ {0} => \A h \in Hooks : StageOf[h] <= stage => h \in Ran

\* Over all the calls together no hook is called twice, and none after one that
\* hook_cmp puts behind it.
OnceInOrder ==
  \A i, j \in DOMAIN ran : i < j => /\ ran[i] # ran[j]
                                    /\ hook_cmp(ran[i], ran[j]) <= 0

\* A call runs what its stage needs and no more, whatever calls went before: the
\* hooks called are those of some stage asked for, all of them on return.
CallsDelimit ==
  [][ /\ pc = "loop" /\ pc' = "idle" =>
            \A h \in Hooks : StageOf[h] <= upto => h \in Ran
      /\ pc' = "hook" => StageOf[Last(ran')] <= upto ]_vars

\* Every call returns.
UptoReturns == pc \in {"loop", "hook"} ~> pc = "idle"
=============================================================================
