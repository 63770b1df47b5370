------------------------------ MODULE MCLock ------------------------------
(* Model checking RedisLock: two callers with two calls each, so that a      *)
(* caller meets the lock its own earlier call left behind.                   *)
EXTENDS RedisLock
=============================================================================
