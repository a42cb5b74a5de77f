-------------------------- MODULE RedisLock_proofs ---------------------------
(***************************************************************************)
(* Proofs about RedisLock, for any sets of runs, any time to live that is  *)
(* not shorter than the task timeout, and any bounds.                      *)
(***************************************************************************)
EXTENDS RedisLock, TLAPS

USE LockAssumption

\* The initial state satisfies the inductive invariant.
LEMMA InitIInv == Init => IInv
<1> SUFFICES ASSUME Init PROVE IInv
  OBVIOUS
<1>1. TypeOK
  BY DEF Init, TypeOK, NoKey
<1>2. \A r \in Run : pc[r] = "idle" /\ started[r] = 0
  BY DEF Init
<1> QED
  BY <1>1, <1>2 DEF Init, NoKey, IInv, StartedInPast, LockInv, TokensDistinct,
                    TimesOrdered, OwnsUntilTTL

\* Ending a run with the key untouched or deleted by its owner keeps the
\* invariant: this covers every way a run returns or dies.
LEMMA EndIInv ==
    ASSUME IInv, NEW r \in Run, End(r), now' = now,
           UNCHANGED <<key, nextToken>>
    PROVE  IInv'
BY DEF IInv, TypeOK, StartedInPast, LockInv, TokensDistinct, TimesOrdered,
       OwnsUntilTTL, End

\* Every step keeps the inductive invariant.
LEMMA NextIInv == IInv /\ [Next]_vars => IInv'
<1> SUFFICES ASSUME IInv, [Next]_vars PROVE IInv'
  OBVIOUS
<1> USE DEF IInv, LockInv
<1>1. CASE UNCHANGED vars
  BY <1>1 DEF vars, TypeOK, StartedInPast, TokensDistinct, TimesOrdered, OwnsUntilTTL
<1>2. CASE Tick
  BY <1>2 DEF Tick, TypeOK, StartedInPast, TokensDistinct, TimesOrdered, OwnsUntilTTL
<1>3. ASSUME NEW r \in Run, Start(r) PROVE IInv'
  BY <1>3 DEF Start, TypeOK, StartedInPast, TokensDistinct, TimesOrdered, OwnsUntilTTL
<1>4. ASSUME NEW r \in Run, TryLockOk(r) PROVE IInv'
  <2> USE <1>4
  <2>1. TypeOK' /\ StartedInPast' /\ TimesOrdered'
    BY DEF TryLockOk, SetNX, TypeOK, StartedInPast, TimesOrdered
  <2>2. TokensDistinct'
    BY DEF TryLockOk, SetNX, TypeOK, TokensDistinct
  <2>3. OwnsUntilTTL'
    <3> SUFFICES ASSUME NEW s \in Run, pc'[s] = "locked",
                        now' < lockedAt'[s] + LockTTL
                 PROVE  key' = [token |-> token'[s], expiresAt |-> lockedAt'[s] + LockTTL]
      BY DEF OwnsUntilTTL
    <3>1. CASE s = r
      BY <3>1 DEF TryLockOk, SetNX, TypeOK
    <3>2. CASE s # r
      <4>1. pc[s] = "locked" /\ now < lockedAt[s] + LockTTL
        BY <3>2 DEF TryLockOk, TypeOK
      <4>2. key = [token |-> token[s], expiresAt |-> lockedAt[s] + LockTTL] /\ token[s] # 0
        BY <4>1 DEF OwnsUntilTTL, TokensDistinct, TypeOK
      <4>3. KeyLive
        BY <4>1, <4>2 DEF KeyLive
      <4> QED BY <4>3 DEF TryLockOk, SetNX
    <3> QED BY <3>1, <3>2
  <2> QED BY <2>1, <2>2, <2>3
<1>5. ASSUME NEW r \in Run, TryLockBusy(r) PROVE IInv'
  BY <1>5, EndIInv DEF TryLockBusy
<1>6. ASSUME NEW r \in Run, TryLockError(r) PROVE IInv'
  <2> USE <1>6
  <2>1. TypeOK' /\ StartedInPast' /\ TimesOrdered'
    BY DEF TryLockError, SetNX, End, TypeOK, StartedInPast, TimesOrdered
  <2>2. TokensDistinct'
    BY DEF TryLockError, SetNX, End, TypeOK, TokensDistinct
  <2>3. OwnsUntilTTL'
    <3> SUFFICES ASSUME NEW s \in Run, pc'[s] = "locked",
                        now' < lockedAt'[s] + LockTTL
                 PROVE  key' = [token |-> token'[s], expiresAt |-> lockedAt'[s] + LockTTL]
      BY DEF OwnsUntilTTL
    <3>1. s # r /\ pc[s] = "locked" /\ now < lockedAt[s] + LockTTL
      BY DEF TryLockError, End, TypeOK
    <3>2. key = [token |-> token[s], expiresAt |-> lockedAt[s] + LockTTL] /\ token[s] # 0
      BY <3>1 DEF OwnsUntilTTL, TokensDistinct, TypeOK
    <3>3. KeyLive
      BY <3>1, <3>2 DEF KeyLive
    <3> QED BY <3>1, <3>2, <3>3 DEF TryLockError, SetNX, End, TypeOK
  <2> QED BY <2>1, <2>2, <2>3
<1>7. ASSUME NEW r \in Run, Release(r) PROVE IInv'
  <2> USE <1>7
  <2>1. CASE UNCHANGED key
    BY <2>1, EndIInv DEF Release
  <2>2. CASE Unlock(r)
    <3>1. TypeOK' /\ StartedInPast' /\ TimesOrdered'
      BY <2>2 DEF Release, Unlock, NoKey, End, TypeOK, StartedInPast, TimesOrdered
    <3>2. TokensDistinct'
      BY <2>2 DEF Release, Unlock, NoKey, End, TypeOK, TokensDistinct
    <3>3. OwnsUntilTTL'
      <4> SUFFICES ASSUME NEW s \in Run, pc'[s] = "locked",
                          now' < lockedAt'[s] + LockTTL
                   PROVE  key' = [token |-> token'[s], expiresAt |-> lockedAt'[s] + LockTTL]
        BY DEF OwnsUntilTTL
      <4>1. s # r /\ pc[s] = "locked" /\ now < lockedAt[s] + LockTTL
        BY DEF Release, End, TypeOK
      <4>2. key = [token |-> token[s], expiresAt |-> lockedAt[s] + LockTTL]
        BY <4>1 DEF OwnsUntilTTL
      <4>3. token[s] # token[r]
        BY <4>1 DEF TokensDistinct, Release
      <4> QED BY <2>2, <4>1, <4>2, <4>3 DEF Release, Unlock, End, TypeOK
    <3> QED BY <3>1, <3>2, <3>3
  <2> QED BY <2>1, <2>2 DEF Release
<1>8. ASSUME NEW r \in Run, Crash(r) PROVE IInv'
  BY <1>8, EndIInv DEF Crash
<1> QED
  BY <1>1, <1>2, <1>3, <1>4, <1>5, <1>6, <1>7, <1>8 DEF Next, RunStep

\* The inductive invariant holds in every reachable state: the key belongs to
\* the run inside the lock for as long as its time to live lasts.
THEOREM LockInvariant == Spec => []IInv
BY InitIInv, NextIInv, PTL DEF Spec

\* Two runs overlap only when one of them is past its time to live, and such
\* a run has no deadline.
LEMMA OverlapOnlyAfterTTL == IInv => ExclusionUntilTTL
<1> SUFFICES ASSUME IInv, NEW r \in Run, NEW s \in Run,
                    InCritical(r), InCritical(s), r # s
             PROVE  \E q \in {r, s} \cap HttpRuns : now >= lockedAt[q] + LockTTL
  BY DEF ExclusionUntilTTL
<1>1. ~(now < lockedAt[r] + LockTTL /\ now < lockedAt[s] + LockTTL)
  BY DEF IInv, LockInv, OwnsUntilTTL, TokensDistinct, InCritical, TypeOK
<1>2. ASSUME NEW q \in Run, InCritical(q), ~(now < lockedAt[q] + LockTTL)
      PROVE  q \in HttpRuns /\ now >= lockedAt[q] + LockTTL
  BY <1>2 DEF IInv, LockInv, TimesOrdered, InCritical, Alive, TypeOK
<1> QED BY <1>1, <1>2

\* README.md: "Automatic hedge runs are serialized per configuration with a
\* Redis lock".  Holds for every LockTTL >= TaskTimeout.
THEOREM MutualExclusionTheorem == Spec => []MutualExclusion
<1>1. IInv => MutualExclusion
  BY OverlapOnlyAfterTTL DEF ExclusionUntilTTL, MutualExclusion, Run
<1> QED BY <1>1, LockInvariant, PTL

\* Exclusion can be lost only to an HTTP run that outlived its lock.
THEOREM ExclusionUntilTTLTheorem == Spec => []ExclusionUntilTTL
BY OverlapOnlyAfterTTL, LockInvariant, PTL

\* Every step of the Redis lock is a step of the abstract lock or changes
\* nothing a queued run can see.
LEMMA StepImplementsRunLock ==
    IInv /\ IInv' /\ [Next]_vars
        => [Abstract!Next]_({r \in TaskRuns : InCritical(r)})
<1> SUFFICES ASSUME IInv, IInv', [Next]_vars
             PROVE  [Abstract!Next]_({r \in TaskRuns : InCritical(r)})
  OBVIOUS
<1> DEFINE H == {r \in TaskRuns : InCritical(r)}
<1>1. MutualExclusion /\ MutualExclusion'
  <2>1. IInv' => ExclusionUntilTTL'
    BY OverlapOnlyAfterTTL, PTL
  <2> QED BY OverlapOnlyAfterTTL, <2>1 DEF ExclusionUntilTTL, MutualExclusion, Run
<1>2. ASSUME NEW r \in TaskRuns, H = {r}, H' \subseteq H PROVE [Abstract!Next]_H
  BY <1>2 DEF Abstract!Next, Abstract!Leave
<1>3. H = {} \/ \E r \in TaskRuns : H = {r}
  BY <1>1 DEF MutualExclusion
<1>4. ASSUME H' \subseteq H PROVE [Abstract!Next]_H
  BY <1>2, <1>3, <1>4
<1>5. ASSUME UNCHANGED vars PROVE [Abstract!Next]_H
  <2>1. H' \subseteq H
    BY <1>5 DEF vars, InCritical, Alive
  <2> QED BY <2>1, <1>4
<1>6. ASSUME Tick PROVE [Abstract!Next]_H
  <2>1. \A r \in TaskRuns : now' < started'[r] + TaskTimeout => now < started[r] + TaskTimeout
    BY <1>6 DEF Tick, IInv, TypeOK, Run
  <2>2. H' \subseteq H
    BY <1>6, <2>1 DEF Tick, InCritical, Alive
  <2> QED BY <2>2, <1>4
<1>7. ASSUME NEW r \in Run, TryLockOk(r) PROVE [Abstract!Next]_H
  <2>1. CASE r \notin TaskRuns
    BY <1>7, <2>1, <1>4 DEF TryLockOk, InCritical, Alive, IInv, TypeOK
  <2>2. CASE r \in TaskRuns
    <3>1. r \in H'
      BY <1>7, <2>2 DEF TryLockOk, InCritical, Alive, IInv, TypeOK
    <3>2. H' = {r}
      BY <3>1, <1>1 DEF MutualExclusion
    <3>3. H \subseteq H' /\ r \notin H
      BY <1>7 DEF TryLockOk, InCritical, Alive, IInv, TypeOK
    <3>4. H = {}
      BY <3>2, <3>3
    <3> QED BY <2>2, <3>2, <3>4 DEF Abstract!Next, Abstract!Enter
  <2> QED BY <2>1, <2>2
<1>8. ASSUME NEW r \in Run, RunStep(r), ~TryLockOk(r) PROVE [Abstract!Next]_H
  <2>1. now' = now
    BY <1>8 DEF RunStep, Start, TryLockBusy, TryLockError, Release, Crash
  <2>2. \A s \in Run : pc'[s] = "locked" => pc[s] = "locked" /\ started'[s] = started[s]
    BY <1>8 DEF RunStep, Start, TryLockBusy, TryLockError, Release, Crash, End, IInv, TypeOK
  <2>3. H' \subseteq H
    BY <2>1, <2>2 DEF InCritical, Alive, Run
  <2> QED BY <2>3, <1>4
<1>9. ASSUME NEW r \in Run, RunStep(r) PROVE [Abstract!Next]_H
  BY <1>7, <1>8, <1>9
<1>10. [Abstract!Next]_H
  <2> HIDE DEF H
  <2> QED BY <1>5, <1>6, <1>9 DEF Next
<1> QED BY <1>10

\* For the queued runs the Redis lock implements the abstract lock RunLock.
THEOREM ImplementsRunLockTheorem == Spec => ImplementsRunLock
<1>1. Init => Abstract!Init
  BY DEF Init, Abstract!Init, InCritical, Run
<1> QED
  BY <1>1, StepImplementsRunLock, LockInvariant, PTL
  DEF Spec, ImplementsRunLock, Abstract!Spec
==============================================================================
