---------------------------- MODULE AbstractLock ----------------------------
(***************************************************************************)
(* What a lock with leases promises, without Redis, callers' steps, time   *)
(* or retries: one token holds it at a time, only its holder gives it      *)
(* back, and what takes it from a holder is a lease that nobody extends,   *)
(* or force.  cache/lock.go is shown to be such a lock in RedisLock.       *)
(***************************************************************************)
EXTENDS Naturals

CONSTANT Tokens    \* one for every call that asks for the lock

VARIABLES
    holders,    \* the token that holds the lock, if any
    busy,       \* tokens whose callers work as if they had it
    extended,   \* tokens whose lease is being extended
    lost,       \* tokens that lost the lock without giving it back
    forced      \* how often it was taken away by force

lockVars == <<holders, busy, extended, lost, forced>>

Unlocked == holders = {} /\ busy = {} /\ extended = {} /\ lost = {} /\ forced = 0

(* A token takes the lock at most once.  Its caller gets to work, or never *)
(* learns that it has the lock.                                            *)
Take(t) ==
    /\ holders = {} /\ t \notin busy \cup lost
    /\ holders' = {t}
    /\ \/ busy' = busy \cup {t} /\ extended' \in {extended, extended \cup {t}}
       \/ UNCHANGED <<busy, extended>>
    /\ UNCHANGED <<lost, forced>>

Neglect(t) ==
    /\ t \in extended
    /\ extended' = extended \ {t}
    /\ UNCHANGED <<holders, busy, lost, forced>>

(* Who stops working gives the lock back if it still has it and can.       *)
Release(t) ==
    /\ t \in busy \ extended
    /\ busy' = busy \ {t}
    /\ holders' \in {holders, holders \ {t}}
    /\ UNCHANGED <<extended, lost, forced>>

Lose == holders # {} /\ holders' = {} /\ lost' = lost \cup holders

Expire == Lose /\ holders \cap extended = {} /\ UNCHANGED <<busy, extended, forced>>

TakenAway == Lose /\ forced' = forced + 1 /\ UNCHANGED <<busy, extended>>

LockStep ==
    \/ \E t \in Tokens : Take(t) \/ Neglect(t) \/ Release(t)
    \/ Expire \/ TakenAway

LockSpec == Unlocked /\ [][LockStep]_lockVars

-----------------------------------------------------------------------------
(* Of those who work at the same time all but one have lost the lock, and  *)
(* an extended lease is only lost by force.                                *)
Exclusive ==
    /\ \A s, t \in holders : s = t
    /\ busy \ lost \subseteq holders
    /\ forced = 0 => extended \subseteq holders
=============================================================================
