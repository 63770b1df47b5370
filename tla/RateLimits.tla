----------------------------- MODULE RateLimits -----------------------------
(***************************************************************************)
(* The memory limiters of middleware/ratelimit.go: a RateLimitRegistry that*)
(* creates its limiters at the first request and stops them, each limiter  *)
(* with a fixed window per visitor and a goroutine that drops old entries. *)
(*                                                                         *)
(* One registry is modelled.  The handlers of the package resolve the      *)
(* default registry at each request and then do what the handlers bound to *)
(* a registry do, so two registries share no state.                        *)
(*                                                                         *)
(* Allow and the cleanup only compare now - windowStart with window, so an *)
(* entry holds its age, in units of time, and no clock is needed.          *)
(***************************************************************************)
EXTENDS Integers, Functions, Sums

CONSTANTS
    Callers,    \* goroutines: requests, and callers of Init and Stop
    Slots,      \* the standard limiters: login, api, upload
    Handlers,   \* handlers made by CustomRateLimit
    Visitors,   \* client addresses
    Limiters,   \* RateLimiter objects in use at one time (bound)
    Rate, Window,
    NoLimiter, NoCaller

(* mustValidRateLimit panics otherwise. *)
LimitAssumption ==
    /\ Rate \in Nat \ {0} /\ Window \in Nat \ {0}
    /\ NoLimiter \notin Limiters /\ NoCaller \notin Callers

VARIABLES
    visitors,   \* limiter -> visitor -> NoEntry, or the age of windowStart and count
    life,       \* limiter -> "live", "cancelled" or "gone": its goroutine
    slot,       \* loginLimiter, apiLimiter, uploadLimiter
    custom,     \* customLimiters
    holder,     \* who holds r.mu
    once,       \* handler -> "no", "doing" or "done"
    made,       \* handler -> the limiter its closure keeps
    pc,         \* where each caller is
    has,        \* the limiter each caller has in hand
    admitted    \* history: limiter -> visitor -> age -> requests let through

vars == <<visitors, life, slot, custom, holder, once, made, pc, has, admitted>>
registry == <<slot, custom, holder>>
closures == <<once, made>>

Ages == 0 .. Window + 1         \* Window + 1 stands for every greater age
NoEntry == [age |-> 0, count |-> 0]
NoRequests == [a \in 0 .. Window |-> 0]

TypeOK ==
    /\ visitors \in [Limiters -> [Visitors -> [age : Ages, count : 0 .. Rate]]]
    /\ life \in [Limiters -> {"live", "cancelled", "gone"}]
    /\ slot \in [Slots -> Limiters \cup {NoLimiter}]
    /\ custom \subseteq Limiters /\ holder \in Callers \cup {NoCaller}
    /\ once \in [Handlers -> {"no", "doing", "done"}]
    /\ made \in [Handlers -> Limiters \cup {NoLimiter}]
    /\ has \in [Callers -> Limiters \cup {NoLimiter}]

Init ==
    /\ visitors = [l \in Limiters |-> [v \in Visitors |-> NoEntry]]
    /\ life = [l \in Limiters |-> "gone"]
    /\ slot = [s \in Slots |-> NoLimiter] /\ custom = {} /\ holder = NoCaller
    /\ once = [h \in Handlers |-> "no"] /\ made = [h \in Handlers |-> NoLimiter]
    /\ pc = [c \in Callers |-> "idle"] /\ has = [c \in Callers |-> NoLimiter]
    /\ admitted = [l \in Limiters |-> [v \in Visitors |-> NoRequests]]

Goto(c, where) == pc' = [pc EXCEPT ![c] = where]
Take(c, l) == has' = [has EXCEPT ![c] = l]

(* NewRateLimiter: an object nobody refers to, with its goroutine.  What it*)
(* held before is no longer there (LimitersCanBeStopped watches over the   *)
(* goroutines of objects nobody refers to).                                *)
Unused(l) ==
    /\ life[l] = "gone" /\ l \notin custom
    /\ \A s \in Slots : slot[s] # l
    /\ \A h \in Handlers : made[h] # l
    /\ \A c \in Callers : has[c] # l

NewRateLimiters(L) ==
    /\ \A l \in L : Unused(l)
    /\ life' = [l \in Limiters |-> IF l \in L THEN "live" ELSE life[l]]
    /\ visitors' = [l \in Limiters |-> IF l \in L THEN [v \in Visitors |-> NoEntry] ELSE visitors[l]]
    /\ admitted' = [l \in Limiters |-> IF l \in L THEN [v \in Visitors |-> NoRequests] ELSE admitted[l]]

NewRateLimiter(l) == NewRateLimiters({l})
objects == <<life, visitors, admitted>>

-----------------------------------------------------------------------------
(* Requests *)

(* xxxLimiterInstance, under r.mu: one critical section. *)
Instance(c, s) ==
    /\ pc[c] = "idle" /\ holder = NoCaller
    /\ IF slot[s] # NoLimiter
       THEN Take(c, slot[s]) /\ UNCHANGED <<objects, slot>>
       ELSE \E l \in Limiters : /\ NewRateLimiter(l) /\ Take(c, l)
                                /\ slot' = [slot EXCEPT ![s] = l]
    /\ Goto(c, "allow")
    /\ UNCHANGED <<custom, holder, closures>>

(* once.Do of CustomRateLimit: the first request creates the limiter ...   *)
CustomCreate(c, h) ==
    /\ pc[c] = "idle" /\ once[h] = "no"
    /\ \E l \in Limiters : /\ NewRateLimiter(l) /\ Take(c, l)
                           /\ made' = [made EXCEPT ![h] = l]
    /\ once' = [once EXCEPT ![h] = "doing"]
    /\ Goto(c, "register")
    /\ UNCHANGED registry

RegisterNobody(c) == UNCHANGED custom       \* mutant: the H4b leak
RegisterCustom(c) == custom' = custom \cup {has[c]}

(* ... and registers it, in a second critical section.                     *)
CustomRegister(c, h) ==
    /\ pc[c] = "register" /\ made[h] = has[c] /\ holder = NoCaller
    /\ RegisterCustom(c)
    /\ once' = [once EXCEPT ![h] = "done"]
    /\ Goto(c, "allow")
    /\ UNCHANGED <<visitors, life, slot, holder, made, has, admitted>>

(* Later requests of the handler wait for the once, then use its limiter.  *)
CustomLater(c, h) ==
    /\ pc[c] = "idle" /\ once[h] = "done"
    /\ Take(c, made[h]) /\ Goto(c, "allow")
    /\ UNCHANGED <<visitors, life, registry, closures, admitted>>

Expired(e) == e.age > Window
FullOneLate(e) == e.count >= Rate + 1       \* mutant: off by one
Full(e) == e.count >= Rate

StartMoves(e) == [age |-> 0, count |-> e.count + 1]     \* mutant: H4a, start follows the last request
Counted(e) == [e EXCEPT !.count = @ + 1]

(* What Allow makes of an entry: the new one.  A refusal changes nothing.  *)
AllowEntry(e) ==
    IF e = NoEntry \/ Expired(e) THEN [age |-> 0, count |-> 1]
    ELSE IF Full(e) THEN e ELSE Counted(e)

Admits(e) == e = NoEntry \/ Expired(e) \/ ~ Full(e)

(* rateLimitAllow: the request goes on, or is answered 429. *)
Allow(c, v) ==
    LET l == has[c]  e == visitors[l][v] IN
    /\ pc[c] = "allow"
    /\ visitors' = [visitors EXCEPT ![l][v] = AllowEntry(e)]
    /\ admitted' = IF Admits(e) THEN [admitted EXCEPT ![l][v][0] = @ + 1] ELSE admitted
    /\ Goto(c, IF Admits(e) THEN "idle" ELSE "refused")
    /\ Take(c, NoLimiter)
    /\ UNCHANGED <<life, registry, closures>>

Answered(c) ==
    /\ pc[c] = "refused" /\ Goto(c, "idle")
    /\ UNCHANGED <<visitors, life, registry, closures, has, admitted>>

-----------------------------------------------------------------------------
(* The cleanup goroutine of a limiter *)

Cleanup(l) ==
    /\ life[l] = "live"
    /\ \E v \in Visitors : visitors[l][v] # NoEntry /\ Expired(visitors[l][v])
    /\ visitors' = [visitors EXCEPT ![l] =
          [v \in Visitors |-> IF Expired(@[v]) THEN NoEntry ELSE @[v]]]
    /\ UNCHANGED <<life, registry, closures, pc, has, admitted>>

CleanupExit(l) ==
    /\ life[l] = "cancelled"
    /\ life' = [life EXCEPT ![l] = "gone"]
    /\ UNCHANGED <<visitors, registry, closures, pc, has, admitted>>

-----------------------------------------------------------------------------
(* Stop and Init hold r.mu from end to end and stop one limiter at a time: *)
(* cancel, then wait for its goroutine.                                    *)

Lock(c, where) ==
    /\ pc[c] = "idle" /\ holder = NoCaller
    /\ holder' = c
    /\ Goto(c, where)
    /\ UNCHANGED <<visitors, life, slot, custom, closures, has, admitted>>

StopBegin(c) == Lock(c, "stop")
InitBegin(c) == Lock(c, "init")

(* RateLimiter.Stop may find the goroutine gone: cancelling twice is safe. *)
Cancel(l) == life' = [life EXCEPT ![l] = IF @ = "live" THEN "cancelled" ELSE @]

StopOne(c) ==
    /\ pc[c] \in {"stop", "init"}
    /\ \E l \in Limiters :
          /\ life[l] = "live"
          /\ l \in {slot[s] : s \in Slots} \cup (IF pc[c] = "stop" THEN custom ELSE {})
          /\ \A m \in Limiters : life[m] # "cancelled"      \* wg.Wait of the one before
          /\ Cancel(l)
    /\ UNCHANGED <<visitors, registry, closures, pc, has, admitted>>

Stopped(l) == l \in {NoLimiter} \cup {m \in Limiters : life[m] = "gone"}

Unlock(c) == holder' = NoCaller /\ Goto(c, "idle")

StopEnd(c) ==
    /\ pc[c] = "stop"
    /\ \A s \in Slots : Stopped(slot[s])
    /\ \A l \in custom : Stopped(l)
    /\ slot' = [s \in Slots |-> NoLimiter] /\ custom' = {}
    /\ Unlock(c)
    /\ UNCHANGED <<visitors, life, closures, has, admitted>>

AllStopped == \A s \in Slots : Stopped(slot[s])

(* Init then creates the standard limiters. *)
InitEnd(c) ==
    /\ pc[c] = "init" /\ AllStopped
    /\ \E f \in [Slots -> Limiters] :
          /\ IsInjective(f) /\ NewRateLimiters(Range(f))
          /\ slot' = f
    /\ Unlock(c)
    /\ UNCHANGED <<custom, closures, has>>

(* Everything grows older by one unit. *)
Tick ==
    /\ visitors' = [l \in Limiters |-> [v \in Visitors |->
          LET e == visitors[l][v] IN
          IF e = NoEntry \/ Expired(e) THEN e ELSE [e EXCEPT !.age = @ + 1]]]
    /\ admitted' = [l \in Limiters |-> [v \in Visitors |->
          [a \in 0 .. Window |-> IF a = 0 THEN 0 ELSE admitted[l][v][a - 1]]]]
    /\ UNCHANGED <<life, registry, closures, pc, has>>

Next ==
    \/ Tick
    \/ \E c \in Callers :
          \/ StopBegin(c) \/ InitBegin(c) \/ StopOne(c) \/ StopEnd(c) \/ InitEnd(c)
          \/ Answered(c)
          \/ \E s \in Slots : Instance(c, s)
          \/ \E h \in Handlers : CustomCreate(c, h) \/ CustomRegister(c, h) \/ CustomLater(c, h)
          \/ \E v \in Visitors : Allow(c, v)
    \/ \E l \in Limiters : Cleanup(l) \/ CleanupExit(l)

-----------------------------------------------------------------------------
(* Requests of visitor v that limiter l let through in the last Window. *)
Through(l, v) == Total(admitted[l][v], Window)

(* The fixed window allows a burst where two windows meet (the comment on  *)
(* Allow says "2 x rate"), and no more: the first request of a window lies *)
(* outside any span of one Window that reaches into the next, so fewer     *)
(* than 2 x Rate pass in such a span, whatever the cleanup drops.          *)
BurstBound == \A l \in Limiters, v \in Visitors : Through(l, v) < 2 * Rate

(* A visitor is refused only after Rate of its requests passed within the  *)
(* last Window: a steady client below the rate is never refused (H4a).     *)
RefusedOnlyWhenFull ==
    [][\A c \in Callers : pc[c] = "allow" /\ pc'[c] = "refused" =>
          \E v \in Visitors : Through(has[c], v) >= Rate]_vars

(* Every cleanup goroutine can still be stopped: its limiter is in the     *)
(* registry, or in the hand of the request that is registering it (H4b).   *)
LimitersCanBeStopped ==
    \A l \in Limiters : life[l] = "live" =>
        \/ \E s \in Slots : slot[s] = l
        \/ l \in custom
        \/ \E c \in Callers : pc[c] = "register" /\ has[c] = l

Spec == Init /\ [][Next]_vars
=============================================================================
