------------------------------- MODULE RunLock -------------------------------
(***************************************************************************)
(* What a hedge run relies on when HedgeService brackets its work with     *)
(* TryLock and release (hedge_service.go, RunOnce and ExitHedge): at any   *)
(* moment at most one run of a configuration is inside the bracket.        *)
(* RedisLock implements this specification; HedgeRun is built on it.       *)
(***************************************************************************)
CONSTANT Run        \* the runs that may want the lock of one configuration

VARIABLE holders    \* the runs inside the bracket

Init == holders = {}

\* TryLock answered ok = true.
Enter(r) == /\ holders = {}
            /\ holders' = {r}

\* The run is over: it released the lock, it crashed, or its context expired.
Leave(r) == /\ r \in holders
            /\ holders' = holders \ {r}

Next == \E r \in Run : Enter(r) \/ Leave(r)

Spec == Init /\ [][Next]_holders
==============================================================================
