----------------------------- MODULE MCRedisLock -----------------------------
(* Two queued runs and one HTTP run contend for the lock of a configuration. *)
EXTENDS RedisLock, TLC

Symmetry == Permutations(TaskRuns)
==============================================================================
