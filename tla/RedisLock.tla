----------------------------- MODULE RedisLock -----------------------------
(***************************************************************************)
(* The distributed lock of cache/lock.go, for one key: callers of WithLock,*)
(* WithLockAutoExtend, and TryLock followed by Unlock, against a Redis     *)
(* whose key expires.                                                      *)
(*                                                                         *)
(* A Lua script is one step at the server.  A call may also fail: before   *)
(* the server ran the script, or after (the reply is lost or late).  A     *)
(* token is a caller and the number of its call: UUIDs do not repeat.      *)
(*                                                                         *)
(* Time is counted in units.  fn takes as long as it likes; a call to      *)
(* Redis, the extender's answer to its ticker included, takes less than    *)
(* one unit.                                                               *)
(***************************************************************************)
EXTENDS Integers, FiniteSets

CONSTANTS
    Workers,    \* callers, each with one call at a time
    TTL,        \* ttl and initialTTL, in units of time
    Interval,   \* extendInterval
    MaxRetry,   \* maxRetry of TryLock
    MaxCalls,   \* calls of each worker (bound)
    MaxForced   \* calls of UnlockByKey and ForceUnlock (bound)

(* Nothing in the code relates the interval to the TTL; an interval that   *)
(* is not shorter makes automatic extension useless.                       *)
ASSUME LockAssumption ==
    /\ TTL \in Nat /\ Interval \in Nat \ {0} /\ Interval < TTL
    /\ MaxRetry \in Nat \ {0} /\ MaxCalls \in Nat /\ MaxForced \in Nat

VARIABLES
    key,        \* the token stored at the key
    ttl,        \* what is left of its time to live
    calls,      \* calls of each worker so far
    pc,         \* where each worker is
    mode,       \* the function it called
    tries,      \* NewLock calls of TryLock so far
    cancelled,  \* workers whose ctx is cancelled
    ext,        \* the extender goroutine of each worker
    due,        \* units until its ticker fires
    forced,     \* calls of UnlockByKey and ForceUnlock so far
    lost        \* tokens whose key expired or was deleted by force

redisVars == <<key, ttl>>
extVars   == <<ext, due>>
vars == <<key, ttl, calls, pc, mode, tries, cancelled, ext, due, forced, lost>>

Modes == {"WithLock", "WithLockAutoExtend", "TryLock"}
Free  == <<"free">>
Token(w) == <<w, calls[w]>>
Tokens == Workers \X (1 .. MaxCalls)

Init ==
    /\ key = Free /\ ttl = 0
    /\ calls = [w \in Workers |-> 0]
    /\ pc = [w \in Workers |-> "idle"]
    /\ mode = [w \in Workers |-> "WithLock"]
    /\ tries = [w \in Workers |-> 0]
    /\ cancelled = {}
    /\ ext = [w \in Workers |-> "off"] /\ due = [w \in Workers |-> 0]
    /\ forced = 0 /\ lost = {}

Goto(w, where) == pc' = [pc EXCEPT ![w] = where]

-----------------------------------------------------------------------------
(* The scripts, as what they do to the key. *)

LockUnexpiring(w) == key' = Token(w) /\ ttl' = TTL + 1      \* mutant: SET without PX
SetPX(w) == key' = Token(w) /\ ttl' = TTL

LockScript(w) == IF key = Free THEN SetPX(w) ELSE UNCHANGED redisVars

OwnsAnything(w) == key # Free       \* mutant: DEL without comparing the token
Owns(w) == key = Token(w)

UnlockScript(w) == IF Owns(w) THEN key' = Free /\ ttl' = 0 ELSE UNCHANGED redisVars

(* mutant: the script compares the token and forgets pexpire *)
ExtendNothing(w) == UNCHANGED redisVars
ExtendScript(w) == IF Owns(w) THEN ttl' = TTL /\ UNCHANGED key ELSE UNCHANGED redisVars

-----------------------------------------------------------------------------
(* Taking the lock *)

Call(w, m) ==
    /\ pc[w] \in {"idle", "done"} /\ calls[w] < MaxCalls
    /\ calls' = [calls EXCEPT ![w] = @ + 1]
    /\ mode' = [mode EXCEPT ![w] = m]
    /\ tries' = [tries EXCEPT ![w] = 0]
    /\ cancelled' = cancelled \ {w}
    /\ ext' = [ext EXCEPT ![w] = "off"]
    /\ Goto(w, "acquire")
    /\ UNCHANGED <<redisVars, due, forced, lost>>

(* NewLock gets the lock; WithLockAutoExtend starts its extender. *)
Acquire(w) ==
    /\ pc[w] = "acquire" /\ key = Free
    /\ SetPX(w)
    /\ IF mode[w] = "WithLockAutoExtend"
       THEN ext' = [ext EXCEPT ![w] = "run"] /\ due' = [due EXCEPT ![w] = Interval]
       ELSE UNCHANGED extVars
    /\ Goto(w, "fn")
    /\ UNCHANGED <<calls, mode, tries, cancelled, forced, lost>>

(* The lock is held by another: only TryLock tries again. *)
AcquireHeld(w) ==
    /\ pc[w] = "acquire" /\ key # Free
    /\ tries' = [tries EXCEPT ![w] = @ + 1]
    /\ Goto(w, IF mode[w] = "TryLock" THEN "wait" ELSE "done")
    /\ UNCHANGED <<redisVars, calls, mode, cancelled, extVars, forced, lost>>

(* The call fails, and the script may have run: a lock nobody will release,*)
(* like the one of a caller of Lock, which drops the token.                *)
AcquireFails(w) ==
    /\ pc[w] = "acquire"
    /\ \/ LockScript(w)
       \/ UNCHANGED redisVars
    /\ Goto(w, "done")
    /\ UNCHANGED <<calls, mode, tries, cancelled, extVars, forced, lost>>

TryAgain(w) ==
    /\ pc[w] = "wait"
    /\ Goto(w, IF tries[w] < MaxRetry THEN "acquire" ELSE "done")
    /\ UNCHANGED <<redisVars, calls, mode, tries, cancelled, extVars, forced, lost>>

TryCancelled(w) ==
    /\ pc[w] = "wait" /\ w \in cancelled
    /\ Goto(w, "done")
    /\ UNCHANGED <<redisVars, calls, mode, tries, cancelled, extVars, forced, lost>>

-----------------------------------------------------------------------------
(* Holding and releasing it *)

(* The worker's ctx is cancelled; fn need not notice. *)
Cancel(w) ==
    /\ pc[w] \in {"wait", "fn"} /\ w \notin cancelled
    /\ cancelled' = cancelled \cup {w}
    /\ UNCHANGED <<redisVars, calls, pc, mode, tries, extVars, forced, lost>>

(* fn returns or panics: the deferred function runs. *)
FnEnds(w) ==
    /\ pc[w] = "fn"
    /\ Goto(w, IF mode[w] = "WithLockAutoExtend" THEN "stop" ELSE "unlock")
    /\ UNCHANGED <<redisVars, calls, mode, tries, cancelled, extVars, forced, lost>>

(* <-finished *)
ExtenderFinished(w) ==
    /\ pc[w] = "stop" /\ ext[w] = "finished"
    /\ Goto(w, "unlock")
    /\ UNCHANGED <<redisVars, calls, mode, tries, cancelled, extVars, forced, lost>>

Unlock(w) ==
    /\ pc[w] = "unlock"
    /\ UnlockScript(w)
    /\ Goto(w, "done")
    /\ UNCHANGED <<calls, mode, tries, cancelled, extVars, forced, lost>>

(* The error of the deferred Unlock is dropped. *)
UnlockFails(w) ==
    /\ pc[w] = "unlock"
    /\ Goto(w, "done")
    /\ UNCHANGED <<redisVars, calls, mode, tries, cancelled, extVars, forced, lost>>

-----------------------------------------------------------------------------
(* The extender of WithLockAutoExtend *)

ExtFinishes(w) == ext' = [ext EXCEPT ![w] = "finished"]

StopIgnored(w) == pc[w] = "unlock"      \* mutant: the extender only listens to its ctx
StopSeen(w) == pc[w] = "stop"

ExtenderStops(w) ==
    /\ ext[w] = "run" /\ (StopSeen(w) \/ w \in cancelled)
    /\ ExtFinishes(w)
    /\ UNCHANGED <<redisVars, calls, pc, mode, tries, cancelled, due, forced, lost>>

Extend(w) ==
    /\ ext[w] = "run" /\ due[w] = 0
    /\ ExtendScript(w)
    /\ IF Owns(w)
       THEN due' = [due EXCEPT ![w] = Interval] /\ UNCHANGED ext
       ELSE ExtFinishes(w) /\ UNCHANGED due
    /\ UNCHANGED <<calls, pc, mode, tries, cancelled, forced, lost>>

(* Any error, and the call with a cancelled ctx, ends the extension for    *)
(* good; fn is not told.                                                   *)
ExtendFails(w) ==
    /\ ext[w] = "run" /\ due[w] = 0
    /\ \/ ExtendScript(w)
       \/ UNCHANGED redisVars
    /\ ExtFinishes(w)
    /\ UNCHANGED <<calls, pc, mode, tries, cancelled, due, forced, lost>>

-----------------------------------------------------------------------------
(* UnlockByKey and ForceUnlock delete the key, whoever holds it. *)
ForceUnlock ==
    /\ forced < MaxForced /\ forced' = forced + 1
    /\ key # Free
    /\ lost' = lost \cup {key}
    /\ key' = Free /\ ttl' = 0
    /\ UNCHANGED <<calls, pc, mode, tries, cancelled, extVars>>

ExtenderDue(w) == ext[w] = "run" /\ due[w] = 0

(* What a unit of time does to the key: it expires, or has less to live.   *)
KeyAges ==
    IF ttl = 1
    THEN key' = Free /\ ttl' = 0 /\ lost' = lost \cup {key}
    ELSE ttl' = (IF ttl \in 2 .. TTL THEN ttl - 1 ELSE ttl) /\ UNCHANGED <<key, lost>>

(* One unit passes, which changes nothing with no key and no extender.     *)
Tick ==
    /\ \A w \in Workers : ~ExtenderDue(w)
    /\ KeyAges
    /\ due' = [w \in Workers |-> IF ext[w] = "run" THEN due[w] - 1 ELSE due[w]]
    /\ UNCHANGED <<calls, pc, mode, tries, cancelled, ext, forced>>

-----------------------------------------------------------------------------
AcquireStep(w) ==
    Acquire(w) \/ AcquireHeld(w) \/ AcquireFails(w) \/ TryAgain(w) \/ TryCancelled(w)
ReleaseStep(w) ==
    ExtenderFinished(w) \/ Unlock(w) \/ UnlockFails(w)
ExtenderStep(w) ==
    ExtenderStops(w) \/ Extend(w) \/ ExtendFails(w)

Next ==
    \/ \E w \in Workers, m \in Modes : Call(w, m)
    \/ \E w \in Workers :
          AcquireStep(w) \/ Cancel(w) \/ FnEnds(w) \/ ReleaseStep(w) \/ ExtenderStep(w)
    \/ ForceUnlock \/ Tick

Spec == Init /\ [][Next]_vars

(* Goroutines run and time passes.  The business function need not end, no *)
(* one has to call.                                                        *)
Fairness ==
    /\ \A w \in Workers : /\ WF_vars(AcquireStep(w)) /\ WF_vars(ReleaseStep(w))
                          /\ WF_vars(Extend(w) \/ ExtendFails(w)) /\ WF_vars(ExtenderStops(w))
    /\ WF_vars(Tick)

FairSpec == Spec /\ Fairness

-----------------------------------------------------------------------------
TypeOK ==
    /\ key \in Tokens \cup {Free} /\ ttl \in 0 .. TTL
    /\ calls \in [Workers -> 0 .. MaxCalls]
    /\ pc \in [Workers -> {"idle", "acquire", "wait", "fn", "stop", "unlock", "done"}]
    /\ mode \in [Workers -> Modes]
    /\ tries \in [Workers -> 0 .. MaxRetry]
    /\ cancelled \subseteq Workers
    /\ ext \in [Workers -> {"off", "run", "finished"}]
    /\ due \in [Workers -> 0 .. Interval]
    /\ forced \in 0 .. MaxForced /\ lost \subseteq Tokens

Inside(w) == pc[w] \in {"fn", "stop", "unlock"}

(* Two callers run their fn at the same time only when the key of one of   *)
(* them expired or was deleted by force: nobody releases, extends or takes *)
(* a lock that is another's, also when it was its own a moment ago.        *)
MutualExclusion ==
    \A v, w \in Workers :
        Inside(v) /\ Inside(w) /\ v # w => Token(v) \in lost \/ Token(w) \in lost

(* As long as its extender runs, a caller of WithLockAutoExtend does not   *)
(* lose the lock, however long fn takes: only an error, a cancelled ctx or *)
(* force takes it away.                                                    *)
ExtendedLockIsKept ==
    \A w \in Workers : ext[w] = "run" /\ key # Token(w) => forced > 0

(* C1a: once fn has ended, the call returns: the extender acknowledges,    *)
(* and Unlock is reached.                                                  *)
ReleaseReturns == \A w \in Workers : []<>(pc[w] \notin {"acquire", "stop", "unlock"})

(* Lost replies and failed unlocks included, a lock does not stay taken    *)
(* when the caller it belongs to is gone.                                  *)
LockReclaimed == []<>(key = Free \/ \E w \in Workers : Inside(w) /\ key = Token(w))

(* Both at once: the calls under way come to their end, and the lock with  *)
(* them.                                                                   *)
LockComesBack == ReleaseReturns /\ LockReclaimed

-----------------------------------------------------------------------------
(* The scripts, callers and extenders together are a lock with leases: the *)
(* key is its holder, a caller works from the reply to SET to its Unlock,  *)
(* and its lease is extended while its extender runs.                      *)
Working  == {Token(w) : w \in {u \in Workers : Inside(u)}}
Extended == {Token(w) : w \in {u \in Workers : ext[u] = "run"}}

AL == INSTANCE AbstractLock WITH holders <- {key} \ {Free}, busy <- Working, extended <- Extended

(* cache/lock.go, with lost replies, cancelled contexts, expiry and force, *)
(* does nothing a lock with leases does not do.                            *)
IsALock == AL!LockSpec
=============================================================================
