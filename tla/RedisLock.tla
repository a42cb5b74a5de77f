------------------------------ MODULE RedisLock ------------------------------
(***************************************************************************)
(* The Redis lock of internal/lock/redis_lock.go as the runs of ONE hedge  *)
(* configuration use it.  The lock is a key with a time to live; it is     *)
(* taken with SETNX and deleted by a script that compares the key's value  *)
(* with the random token of the run that took it.                          *)
(*                                                                         *)
(* A run started by the task queue has a context that expires TaskTimeout  *)
(* after its start (asynq.Timeout in EnqueueRunHedge); every call it makes *)
(* to the database or the exchange takes that context.  A run started by   *)
(* an HTTP request has no deadline.  Time is counted in units in which     *)
(* LockTTL and TaskTimeout are integers (minutes, with the defaults).      *)
(***************************************************************************)
EXTENDS Naturals

CONSTANTS TaskRuns,     \* runs of RunOnce by handleRunHedge (asynq workers)
          HttpRuns,     \* runs of RunOnce or ExitHedge by an HTTP handler
          LockTTL,      \* HEDGE_RUN_LOCK_TTL
          TaskTimeout,  \* asynq.Timeout of a hedge task
          MaxTime,      \* bound on the clock
          MaxLocks      \* bound on the number of SETNX calls

ASSUME LockAssumption ==
    /\ LockTTL \in Nat /\ TaskTimeout \in Nat
    /\ TaskTimeout <= LockTTL           \* 2m and 3m in the code
    /\ MaxTime \in Nat /\ MaxLocks \in Nat
    /\ TaskRuns \cap HttpRuns = {}

VARIABLES now,       \* the clock
          key,       \* the Redis key: its value and when it expires
          nextToken, \* source of the random tokens, which never repeat
          pc,        \* where each run is
          token,     \* the token each run holds
          started,   \* when each run's context began
          lockedAt   \* when each run's SETNX succeeded

vars == <<now, key, nextToken, pc, token, started, lockedAt>>

Run == TaskRuns \cup HttpRuns

\* Token 0 stands for "the key does not exist".
NoKey == [token |-> 0, expiresAt |-> 0]

TypeOK ==
    /\ now \in Nat
    /\ key \in [token : Nat, expiresAt : Nat]
    /\ nextToken \in Nat \ {0}
    /\ pc \in [Run -> {"idle", "started", "locked"}]
    /\ token \in [Run -> Nat]
    /\ started \in [Run -> Nat]
    /\ lockedAt \in [Run -> Nat]

\* Redis answers GET with a value.
KeyLive == key.token # 0 /\ now < key.expiresAt

\* The run's context is not done, so its calls still take effect.
Alive(r) == r \in HttpRuns \/ now < started[r] + TaskTimeout

\* The run is between TryLock and release and can still act.
InCritical(r) == pc[r] = "locked" /\ Alive(r)
------------------------------------------------------------------------------
Init ==
    /\ now = 0
    /\ key = NoKey
    /\ nextToken = 1
    /\ pc = [r \in Run |-> "idle"]
    /\ token = [r \in Run |-> 0]
    /\ started = [r \in Run |-> 0]
    /\ lockedAt = [r \in Run |-> 0]

\* The run returns or dies and its local variables are gone.
End(r) ==
    /\ pc' = [pc EXCEPT ![r] = "idle"]
    /\ token' = [token EXCEPT ![r] = 0]
    /\ started' = [started EXCEPT ![r] = 0]
    /\ lockedAt' = [lockedAt EXCEPT ![r] = 0]

\* A worker takes the task, or a request arrives.
Start(r) ==
    /\ pc[r] = "idle"
    /\ pc' = [pc EXCEPT ![r] = "started"]
    /\ started' = [started EXCEPT ![r] = now]
    /\ UNCHANGED <<now, key, nextToken, token, lockedAt>>

\* Mutated: SET without NX; and with a time to live shorter than a run.
SetAlways == key' = [token |-> nextToken, expiresAt |-> now + LockTTL]
SetNXShort == /\ ~KeyLive
              /\ key' = [token |-> nextToken, expiresAt |-> now + 1]

\* The effect of a successful SET key token NX EX ttl on Redis.
SetNX == /\ ~KeyLive
         /\ key' = [token |-> nextToken, expiresAt |-> now + LockTTL]

\* SETNX succeeded and the run learned of it: TryLock returns ok.
TryLockOk(r) ==
    /\ pc[r] = "started"
    /\ Alive(r)
    /\ nextToken <= MaxLocks
    /\ SetNX
    /\ nextToken' = nextToken + 1
    /\ token' = [token EXCEPT ![r] = nextToken]
    /\ lockedAt' = [lockedAt EXCEPT ![r] = now]
    /\ pc' = [pc EXCEPT ![r] = "locked"]
    /\ UNCHANGED <<now, started>>

\* SETNX found the key: TryLock returns ok = false, RunOnce ErrRunLocked.
TryLockBusy(r) ==
    /\ pc[r] = "started"
    /\ KeyLive
    /\ End(r)
    /\ UNCHANGED <<now, key, nextToken>>

\* The call to Redis failed: TryLock returns an error.  Whether Redis had
\* executed the command is unknown to the run.
TryLockError(r) ==
    /\ pc[r] = "started"
    /\ nextToken <= MaxLocks
    /\ SetNX \/ UNCHANGED key
    /\ nextToken' = nextToken + 1
    /\ End(r)
    /\ UNCHANGED now

\* Mutated: DEL without comparing the token.
UnlockAny(r) == key' = NoKey

\* unlockScript: delete the key if it still holds this run's token.
Unlock(r) == key' = IF KeyLive /\ key.token = token[r] THEN NoKey ELSE key

\* The deferred release, which runs with a background context and so also
\* after the run's own context has expired.  Its error is ignored, so the key
\* may stay behind.
Release(r) ==
    /\ pc[r] = "locked"
    /\ Unlock(r) \/ UNCHANGED key
    /\ End(r)
    /\ UNCHANGED <<now, nextToken>>

\* The process dies: nothing is released.
Crash(r) ==
    /\ pc[r] # "idle"
    /\ End(r)
    /\ UNCHANGED <<now, key, nextToken>>

Tick ==
    /\ now < MaxTime
    /\ now' = now + 1
    /\ UNCHANGED <<key, nextToken, pc, token, started, lockedAt>>

RunStep(r) == \/ Start(r)
              \/ TryLockOk(r)
              \/ TryLockBusy(r)
              \/ TryLockError(r)
              \/ Release(r)
              \/ Crash(r)

Next == Tick \/ \E r \in Run : RunStep(r)

Spec == Init /\ [][Next]_vars
------------------------------------------------------------------------------
(* Properties *)

\* "Automatic hedge runs are serialized per configuration with a Redis lock"
\* (README.md): two queued runs are never both able to act inside the lock,
\* whatever crashes, expires, or is released late.
MutualExclusion ==
    \A r, s \in TaskRuns : InCritical(r) /\ InCritical(s) => r = s

\* When two runs do overlap, one of them is an HTTP run that has held the lock
\* for at least its time to live: exclusion is lost no other way.
ExclusionUntilTTL ==
    \A r, s \in Run :
        InCritical(r) /\ InCritical(s) /\ r # s
            => \E q \in {r, s} \cap HttpRuns : now >= lockedAt[q] + LockTTL

\* The lock the queued runs see is the abstract one.
Abstract == INSTANCE RunLock WITH Run <- TaskRuns,
                                  holders <- {r \in TaskRuns : InCritical(r)}

\* For the queued runs the Redis lock implements RunLock.
ImplementsRunLock == Abstract!Spec
------------------------------------------------------------------------------
(* The inductive invariant behind the properties *)

\* Tokens of runs inside the lock, and of the key, were issued and are distinct.
TokensDistinct ==
    /\ key.token < nextToken
    /\ \A r \in Run : pc[r] = "locked" => token[r] \in 1 .. (nextToken - 1)
    /\ \A r, s \in Run :
          pc[r] = "locked" /\ pc[s] = "locked" /\ token[r] = token[s] => r = s

\* Times of a run inside the lock are ordered.
TimesOrdered ==
    \A r \in Run : pc[r] = "locked" => started[r] <= lockedAt[r] /\ lockedAt[r] <= now

\* A run inside the lock whose time to live is not over owns the key.
OwnsUntilTTL ==
    \A r \in Run :
        pc[r] = "locked" /\ now < lockedAt[r] + LockTTL
            => key = [token |-> token[r], expiresAt |-> lockedAt[r] + LockTTL]

LockInv == TokensDistinct /\ TimesOrdered /\ OwnsUntilTTL

\* Clocks of runs that started.
StartedInPast == \A r \in Run : started[r] <= now

IInv == TypeOK /\ StartedInPast /\ LockInv
==============================================================================
