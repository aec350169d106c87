--------------------------- MODULE InitHooksProofs ---------------------------
(***************************************************************************)
(* Type correctness, order and truth of the stage for any finite set of    *)
(* hooks.  The invariant says how far the calls have come in the sorted    *)
(* section: the hooks called are the ones before init_hook_cur, and in a   *)
(* hook, that one too.                                                     *)
(***************************************************************************)
EXTENDS InitHooks, FiniteSetTheorems, TLAPS

HookCount == Cardinality(Hooks)

Arranged == hooks \in Arrangements

\* The stages of the section ascend, and so do the priorities in a stage.
Sorted ==
  pc # "unsorted" =>
    \A i, j \in 1..HookCount : i < j => hook_cmp(hooks[i], hooks[j]) <= 0

\* The hooks called are the first of the section.
Prefix == /\ Len(ran) <= HookCount
          /\ \A i \in 1..Len(ran) : ran[i] = hooks[i]

\* Where init_hook_cur and the iterator of a call are.
Cursor == /\ pc = "unsorted" => ran = <<>>
          /\ pc # "hook" => cur = Len(ran) + 1
          /\ pc = "loop" => at = cur
          /\ pc = "hook" => at = Len(ran) /\ cur = at

IInv == TypeOK /\ Arranged /\ Sorted /\ Prefix /\ Cursor /\ StageTruthful

-----------------------------------------------------------------------------
\* The number of hooks.
LEMMA Count == HookCount \in Nat
  BY InitHooksAssumption, FS_CardinalityType DEF HookCount

\* A section is a sequence in which each hook occurs once.
LEMMA ArrangementFacts ==
  ASSUME NEW f \in Arrangements
  PROVE  /\ f \in Seq(Hooks) /\ Len(f) = HookCount /\ DOMAIN f = 1..HookCount
         /\ \A i \in 1..HookCount : f[i] \in Hooks
         /\ \A i, j \in 1..HookCount : f[i] = f[j] => i = j
         /\ \A h \in Hooks : \E i \in 1..HookCount : f[i] = h
  BY Count DEF Arrangements, Bijection, Injection, Surjection, IsInjective, HookCount

\* What hook_cmp lets stand first is of no later stage.
LEMMA CmpStage ==
  ASSUME NEW a \in Hooks, NEW b \in Hooks, hook_cmp(a, b) <= 0
  PROVE  StageOf[a] <= StageOf[b]
  BY InitHooksAssumption DEF hook_cmp, Stages

\* The stage before a stage, unsigned.
LEMMA WrapFacts ==
  /\ \A s \in Stages : (s - 1) % Wrap \in 0..(Wrap - 1)
  /\ \A s \in Stages : (s - 1) % Wrap \in Stages \ {0} => (s - 1) % Wrap = s - 1
  BY InitHooksAssumption DEF Stages

-----------------------------------------------------------------------------
\* Before the sort the section is in some order, and no hook ran.
LEMMA InitIInv == Init => IInv
  <1> SUFFICES ASSUME Init PROVE IInv
    OBVIOUS
  <1> USE Count DEF Init
  <1>1. TypeOK
    BY ArrangementFacts, InitHooksAssumption DEF TypeOK, Stages
  <1>2. Prefix
    BY DEF Prefix
  <1>3. Arranged /\ Sorted /\ Cursor /\ StageTruthful
    BY DEF Arranged, Sorted, Cursor, StageTruthful
  <1> QED BY <1>1, <1>2, <1>3 DEF IInv

\* The sort puts the hooks in the order of their stages.
LEMMA SortStep == IInv /\ init_hooks_init => IInv'
  <1> SUFFICES ASSUME IInv, init_hooks_init PROVE IInv'
    OBVIOUS
  <1> USE DEF init_hooks_init
  <1>1. hooks' \in Arrangements
    OBVIOUS
  <1>2. TypeOK'
    BY <1>1, ArrangementFacts DEF IInv, TypeOK
  <1>3. Sorted'
    BY <1>1, ArrangementFacts DEF Sorted
  <1>4. ran = <<>>
    BY DEF IInv, Cursor
  <1>5. Prefix' /\ Cursor'
    BY <1>4, Count DEF IInv, Prefix, Cursor
  <1>6. StageTruthful'
    BY DEF IInv, StageTruthful, Ran
  <1> QED BY <1>1, <1>2, <1>3, <1>5, <1>6 DEF IInv, Arranged

\* A call takes up where the one before stopped, whatever stage it asks for.
LEMMA CallStep == ASSUME IInv, NEW s \in Stages, CallUpto(s) PROVE IInv'
  <1> USE DEF CallUpto
  <1>1. TypeOK'
    BY DEF IInv, TypeOK
  <1>2. Arranged' /\ Sorted' /\ Prefix' /\ StageTruthful'
    BY DEF IInv, Arranged, Sorted, Prefix, StageTruthful, Ran
  <1>3. Cursor'
    BY DEF IInv, Cursor
  <1> QED BY <1>1, <1>2, <1>3 DEF IInv

\* In any state of a call the hook that the iterator is at is called next, and
\* every hook of an earlier stage than its own was called.
LEMMA NextHook ==
  ASSUME IInv, pc = "loop", at <= Len(hooks)
  PROVE  /\ Len(ran) + 1 = at /\ at \in 1..HookCount /\ hooks[at] \in Hooks
         /\ \A h \in Hooks : StageOf[h] < StageOf[hooks[at]] => h \in Ran
  <1>1. Len(ran) + 1 = at /\ at \in 1..HookCount /\ hooks[at] \in Hooks
    BY ArrangementFacts, Count DEF IInv, TypeOK, Arranged, Cursor, Prefix
  <1> SUFFICES ASSUME NEW h \in Hooks, StageOf[h] < StageOf[hooks[at]]
               PROVE  h \in Ran
    BY <1>1
  <1>2. PICK i \in 1..HookCount : hooks[i] = h
    BY ArrangementFacts DEF IInv, Arranged
  <1>3. ~(at < i)
    <2> SUFFICES ASSUME at < i PROVE FALSE
      OBVIOUS
    <2>1. StageOf[hooks[at]] <= StageOf[hooks[i]]
      BY <1>1, <1>2, CmpStage DEF IInv, Sorted
    <2> QED BY <1>1, <1>2, <2>1, InitHooksAssumption DEF Stages
  <1>4. i # at
    BY <1>1, <1>2, InitHooksAssumption DEF Stages
  <1>5. i \in 1..Len(ran)
    BY <1>1, <1>3, <1>4, Count DEF IInv, TypeOK
  <1> QED BY <1>2, <1>5 DEF IInv, TypeOK, Prefix, Ran, Range

\* The hook that is called is the next one: all of earlier stages were called, so
\* that the stage before its own tells the truth, or has wrapped.
LEMMA EnterStep == IInv /\ EnterHook => IInv'
  <1> SUFFICES ASSUME IInv, EnterHook PROVE IInv'
    OBVIOUS
  <1> DEFINE h == hooks[at]
  <1> USE DEF EnterHook
  <1>1. /\ Len(ran) + 1 = at /\ at \in 1..HookCount /\ h \in Hooks
        /\ \A g \in Hooks : StageOf[g] < StageOf[h] => g \in Ran
    BY NextHook DEF More
  <1>2. StageOf[h] \in Stages
    BY <1>1, InitHooksAssumption
  <1>3. /\ ran' \in Seq(Hooks) /\ Len(ran') = Len(ran) + 1
        /\ \A i \in 1..Len(ran) : ran'[i] = ran[i]
        /\ ran'[Len(ran) + 1] = h
    BY <1>1 DEF IInv, TypeOK
  <1>4. TypeOK'
    BY <1>2, <1>3, WrapFacts DEF IInv, TypeOK
  <1>5. Arranged' /\ Sorted'
    BY DEF IInv, Arranged, Sorted
  <1>6. Prefix'
    BY <1>1, <1>3, Count DEF IInv, TypeOK, Prefix
  <1>7. Cursor'
    BY <1>1, <1>3 DEF IInv, TypeOK, Cursor
  <1>8. Ran \subseteq Ran'
    BY <1>3 DEF Ran, Range, IInv, TypeOK
  <1>9. StageTruthful'
    <2> SUFFICES ASSUME stage' \in Stages \ {0}, NEW g \in Hooks,
                        StageOf[g] <= stage'
                 PROVE  g \in Ran
      BY <1>8 DEF StageTruthful
    <2>1. stage' = StageOf[h] - 1
      BY <1>2, WrapFacts
    <2>2. StageOf[g] < StageOf[h]
      BY <1>2, <2>1, InitHooksAssumption DEF Stages
    <2> QED BY <1>1, <2>2
  <1> QED BY <1>4, <1>5, <1>6, <1>7, <1>9 DEF IInv

\* The iterator and init_hook_cur move on together.
LEMMA ReturnStep == IInv /\ HookReturns => IInv'
  <1> SUFFICES ASSUME IInv, HookReturns PROVE IInv'
    OBVIOUS
  <1> USE DEF HookReturns
  <1>1. TypeOK'
    BY DEF IInv, TypeOK
  <1>2. Arranged' /\ Sorted' /\ Prefix' /\ StageTruthful'
    BY DEF IInv, Arranged, Sorted, Prefix, StageTruthful, Ran
  <1>3. Cursor'
    BY DEF IInv, TypeOK, Cursor
  <1> QED BY <1>1, <1>2, <1>3 DEF IInv

\* After the loop every hook of the stage asked for was called.
LEMMA LoopDone ==
  ASSUME IInv, ReachStage
  PROVE  \A h \in Hooks : StageOf[h] <= upto => h \in Ran
  <1> SUFFICES ASSUME NEW h \in Hooks, StageOf[h] <= upto PROVE h \in Ran
    OBVIOUS
  <1> USE DEF ReachStage
  <1>1. CASE at <= Len(hooks)
    <2>1. hooks[at] \in Hooks /\ (StageOf[h] < StageOf[hooks[at]] => h \in Ran)
      BY <1>1, NextHook
    <2>2. ~(StageOf[hooks[at]] <= upto)
      BY <1>1 DEF More
    <2> QED BY <2>1, <2>2, InitHooksAssumption DEF Stages, IInv, TypeOK
  <1>2. CASE ~(at <= Len(hooks))
    <2>1. PICK i \in 1..HookCount : hooks[i] = h
      BY ArrangementFacts DEF IInv, Arranged
    <2>2. i \in 1..Len(ran)
      BY <1>2, <2>1, ArrangementFacts, Count
      DEF IInv, TypeOK, Arranged, Cursor, Prefix
    <2> QED BY <2>1, <2>2 DEF IInv, TypeOK, Prefix, Ran, Range
  <1> QED BY <1>1, <1>2

\* Where the loop ends the hooks up to the stage asked for have run.
LEMMA ReachStep == IInv /\ ReachStage => IInv'
  <1> SUFFICES ASSUME IInv, ReachStage PROVE IInv'
    OBVIOUS
  <1> USE DEF ReachStage
  <1>1. TypeOK'
    BY InitHooksAssumption DEF IInv, TypeOK, Stages
  <1>2. Arranged' /\ Sorted' /\ Prefix'
    BY DEF IInv, Arranged, Sorted, Prefix
  <1>3. Cursor'
    BY DEF IInv, TypeOK, Cursor
  <1>4. StageTruthful'
    BY LoopDone DEF StageTruthful, Ran
  <1> QED BY <1>1, <1>2, <1>3, <1>4 DEF IInv

\* Every step keeps the invariant.
LEMMA NextIInv == IInv /\ [Next]_vars => IInv'
  <1> SUFFICES ASSUME IInv, [Next]_vars PROVE IInv'
    OBVIOUS
  <1>1. CASE UNCHANGED vars
    BY <1>1 DEF vars, IInv, TypeOK, Arranged, Sorted, Prefix, Cursor,
                StageTruthful, Ran
  <1>2. ASSUME NEW s \in Stages, CallUpto(s) PROVE IInv'
    BY <1>2, CallStep
  <1> QED BY <1>1, <1>2, SortStep, EnterStep, ReturnStep, ReachStep DEF Next

\* It holds in every state.
LEMMA Invariance == Spec => []IInv
  BY InitIInv, NextIInv, PTL DEF Spec

\* No two hooks called are equal or out of order: they are the first ones of an
\* injective, sorted section.
LEMMA InOrder == IInv => OnceInOrder
  <1> SUFFICES ASSUME IInv, NEW i \in DOMAIN ran, NEW j \in DOMAIN ran, i < j
               PROVE  ran[i] # ran[j] /\ hook_cmp(ran[i], ran[j]) <= 0
    BY DEF OnceInOrder
  <1>1. i \in 1..HookCount /\ j \in 1..HookCount /\ ran[i] = hooks[i] /\ ran[j] = hooks[j]
    BY Count DEF IInv, TypeOK, Prefix
  <1>2. hooks[i] # hooks[j]
    BY <1>1, ArrangementFacts DEF IInv, Arranged
  <1>3. pc # "unsorted"
    BY DEF IInv, Cursor
  <1> QED BY <1>1, <1>2, <1>3 DEF IInv, Sorted

\* What CallsDelimit says of one step.
Delimits == /\ pc = "loop" /\ pc' = "idle" =>
                  \A h \in Hooks : StageOf[h] <= upto => h \in Ran
            /\ pc' = "hook" => StageOf[Last(ran')] <= upto

\* What a finished call has run lies in its stages.
LEMMA StepDelimits == IInv /\ [Next]_vars => [Delimits]_vars
  <1> SUFFICES ASSUME IInv, Next PROVE Delimits
    BY DEF vars
  <1>1. CASE init_hooks_init
    BY <1>1 DEF init_hooks_init, Delimits
  <1>2. CASE EnterHook
    <2>1. at \in 1..HookCount /\ hooks[at] \in Hooks /\ StageOf[hooks[at]] <= upto
      BY <1>2, NextHook DEF EnterHook, More
    <2>2. ran' = Append(ran, hooks[at]) /\ ran \in Seq(Hooks)
      BY <1>2 DEF EnterHook, IInv, TypeOK
    <2>3. Last(ran') = hooks[at]
      BY <2>1, <2>2 DEF Last
    <2> QED BY <1>2, <2>1, <2>3 DEF EnterHook, Delimits
  <1>3. CASE HookReturns
    BY <1>3 DEF HookReturns, Delimits
  <1>4. CASE ReachStage
    BY <1>4, LoopDone DEF ReachStage, Delimits
  <1>5. CASE \E s \in Stages : CallUpto(s)
    BY <1>5 DEF CallUpto, Delimits
  <1> QED BY <1>1, <1>2, <1>3, <1>4, <1>5 DEF Next

-----------------------------------------------------------------------------
\* stage is an unsigned number, the cursor and iterator are in the section or at
\* its end, for any finite set of hooks and any calls.
THEOREM TypeCorrect == Spec => []TypeOK
  BY Invariance, PTL DEF IInv

\* Whatever calls of kernel_init_upto are made, no hook is called twice or after
\* one that hook_cmp puts behind it.
THEOREM HooksInOrder == Spec => []OnceInOrder
  BY Invariance, InOrder, PTL

\* When stage has the number of a stage, every hook up to that stage was called.
THEOREM StageTellsTruth == Spec => []StageTruthful
  BY Invariance, PTL DEF IInv

\* Each call runs the hooks that its stage needs, all of them and no others.
THEOREM CallsRunTheirHooks == Spec => CallsDelimit
  BY Invariance, StepDelimits, PTL DEF Spec, CallsDelimit, Delimits
=============================================================================
