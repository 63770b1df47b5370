--------------------------- MODULE RedisLockProofs ---------------------------
(* Proofs about RedisLock, for any number of workers, calls and retries and *)
(* any times with Interval < TTL.                                           *)
EXTENDS RedisLock, TLAPS

(* A call that was made has a number.                                       *)
Counted == \A w \in Workers : pc[w] # "idle" => calls[w] >= 1

(* TryLock is not past its last try when it tries.                          *)
Retrying == \A w \in Workers : pc[w] = "acquire" => tries[w] < MaxRetry

(* Only a key that is there has a time to live.                             *)
Stored == ttl > 0 => key # Free

(* Whoever is between taking and releasing the lock has it or lost it.      *)
Holding == \A w \in Workers : Inside(w) => key = Token(w) \/ Token(w) \in lost

(* A running extender belongs to a holder, and its ticker fires before the  *)
(* key expires, unless the key was taken away by force.                     *)
Extending ==
    \A w \in Workers : ext[w] = "run" =>
        /\ pc[w] \in {"fn", "stop"} /\ mode[w] = "WithLockAutoExtend"
        /\ key = Token(w) => due[w] < ttl
        /\ forced = 0 => key = Token(w)

(* The token of a call is stored at most once: what is or was at the key    *)
(* came from an earlier call, or from one that is past asking for the lock. *)
Fresh ==
    \A w \in Workers :
        /\ \A n \in Nat : <<w, n>> \in lost \cup {key} => n <= calls[w]
        /\ pc[w] \in {"acquire", "wait"} => Token(w) \notin lost \cup {key}

IInv == TypeOK /\ Counted /\ Retrying /\ Stored /\ Holding /\ Extending /\ Fresh

(* The tokens of two workers differ, and no token is the free key.          *)
LEMMA TokensDiffer ==
    ASSUME NEW v \in Workers, NEW w \in Workers
    PROVE  /\ Token(v) = Token(w) => v = w
           /\ Token(w) # Free
           /\ Token(w)' # Free
  BY DEF Token, Free

LEMMA FreeIsNoToken == Free \notin Tokens
  BY DEF Free, Tokens

LEMMA TokenIsStorable ==
    ASSUME IInv, NEW w \in Workers, pc[w] # "idle"
    PROVE  Token(w) \in Tokens
  BY LockAssumption DEF IInv, TypeOK, Counted, Token, Tokens

LEMMA Initially == Init => IInv
<1> SUFFICES ASSUME Init PROVE IInv
  OBVIOUS
<1>1. TypeOK
  BY LockAssumption DEF Init, TypeOK, Modes
<1>2. Counted /\ Retrying /\ Stored /\ Holding /\ Extending
  BY DEF Init, Counted, Retrying, Stored, Holding, Extending, Inside
<1>3. Fresh
  BY DEF Init, Fresh, Free
<1> QED BY <1>1, <1>2, <1>3 DEF IInv

LEMMA TypeStep == IInv /\ [Next]_vars => TypeOK'
<1> SUFFICES ASSUME IInv, [Next]_vars PROVE TypeOK'
  OBVIOUS
<1> USE LockAssumption DEF IInv, TypeOK, Goto, redisVars, extVars
<1>1. ASSUME NEW w \in Workers, NEW m \in Modes, Call(w, m) PROVE TypeOK'
  BY <1>1 DEF Call
<1>2. ASSUME NEW w \in Workers, Acquire(w) PROVE TypeOK'
  <2>1. Token(w) \in Tokens
    BY <1>2, TokenIsStorable DEF Acquire
  <2> QED BY <1>2, <2>1 DEF Acquire, SetPX
<1>3. ASSUME NEW w \in Workers, AcquireHeld(w) PROVE TypeOK'
  BY <1>3 DEF AcquireHeld, Retrying
<1>4. ASSUME NEW w \in Workers, AcquireFails(w) PROVE TypeOK'
  <2>1. Token(w) \in Tokens
    BY <1>4, TokenIsStorable DEF AcquireFails
  <2> QED BY <1>4, <2>1 DEF AcquireFails, LockScript, SetPX
<1>5. ASSUME NEW w \in Workers, TryAgain(w) \/ TryCancelled(w) PROVE TypeOK'
  BY <1>5 DEF TryAgain, TryCancelled
<1>6. ASSUME NEW w \in Workers, Cancel(w) \/ FnEnds(w) \/ ExtenderFinished(w) PROVE TypeOK'
  BY <1>6 DEF Cancel, FnEnds, ExtenderFinished
<1>7. ASSUME NEW w \in Workers, Unlock(w) \/ UnlockFails(w) PROVE TypeOK'
  BY <1>7 DEF Unlock, UnlockFails, UnlockScript
<1>8. ASSUME NEW w \in Workers, ExtenderStep(w) PROVE TypeOK'
  BY <1>8 DEF ExtenderStep, ExtenderStops, Extend, ExtendFails, ExtendScript, ExtFinishes
<1>9. CASE ForceUnlock
  BY <1>9 DEF ForceUnlock
<1>10. CASE Tick
  <2>1. ttl' \in 0 .. TTL /\ key' \in Tokens \cup {Free} /\ lost' \subseteq Tokens
    BY <1>10 DEF Tick, KeyAges, Stored
  <2>2. due' \in [Workers -> 0 .. Interval]
    BY <1>10 DEF Tick, ExtenderDue
  <2> QED BY <1>10, <2>1, <2>2 DEF Tick
<1>11. CASE UNCHANGED vars
  BY <1>11 DEF vars
<1> QED BY <1>1, <1>2, <1>3, <1>4, <1>5, <1>6, <1>7, <1>8, <1>9, <1>10, <1>11
        DEF Next, AcquireStep, ReleaseStep

(* The counters of calls and tries, and the key's time to live.             *)
LEMMA CountStep == IInv /\ [Next]_vars => Counted' /\ Retrying' /\ Stored'
<1> SUFFICES ASSUME IInv, [Next]_vars PROVE Counted' /\ Retrying' /\ Stored'
  OBVIOUS
<1> USE LockAssumption DEF IInv, TypeOK, Counted, Retrying, Stored, Goto, redisVars, extVars
<1>1. ASSUME NEW w \in Workers, NEW m \in Modes, Call(w, m)
      PROVE  Counted' /\ Retrying' /\ Stored'
  BY <1>1 DEF Call
<1>2. ASSUME NEW w \in Workers, AcquireStep(w) PROVE Counted' /\ Retrying' /\ Stored'
  <2>1. Token(w) # Free
    BY TokensDiffer
  <2> QED BY <1>2, <2>1 DEF AcquireStep, Acquire, AcquireHeld, AcquireFails, TryAgain,
                           TryCancelled, LockScript, SetPX
<1>3. ASSUME NEW w \in Workers, Cancel(w) \/ FnEnds(w) \/ ReleaseStep(w)
      PROVE  Counted' /\ Retrying' /\ Stored'
  BY <1>3 DEF Cancel, FnEnds, ReleaseStep, ExtenderFinished, Unlock, UnlockFails, UnlockScript
<1>4. ASSUME NEW w \in Workers, ExtenderStep(w) PROVE Counted' /\ Retrying' /\ Stored'
  <2>1. Token(w) # Free
    BY TokensDiffer
  <2> QED BY <1>4, <2>1 DEF ExtenderStep, ExtenderStops, Extend, ExtendFails, ExtendScript,
                           ExtFinishes, Owns
<1>5. CASE ForceUnlock \/ Tick \/ UNCHANGED vars
  BY <1>5 DEF ForceUnlock, Tick, KeyAges, vars
<1> QED BY <1>1, <1>2, <1>3, <1>4, <1>5 DEF Next

(* One holder's step takes nothing from another: a free key is nobody's, and *)
(* a script changes the key only for the worker whose token it holds.        *)
LEMMA HoldStep == IInv /\ [Next]_vars => Holding'
<1> SUFFICES ASSUME IInv, [Next]_vars, NEW v \in Workers, Inside(v)'
             PROVE  (key = Token(v) \/ Token(v) \in lost)'
  BY DEF Holding
<1> USE DEF IInv, TypeOK, Holding, Inside, Goto, redisVars, extVars
<1>1. ASSUME NEW w \in Workers, NEW m \in Modes, Call(w, m)
      PROVE  (key = Token(v) \/ Token(v) \in lost)'
  BY <1>1 DEF Call, Token
<1>2. ASSUME NEW w \in Workers, Acquire(w) PROVE (key = Token(v) \/ Token(v) \in lost)'
  <2>1. CASE v = w
    BY <1>2, <2>1 DEF Acquire, SetPX, Token
  <2>2. CASE v # w
    <3>1. Inside(v) /\ key # Token(v)
      BY <1>2, <2>2, TokensDiffer DEF Acquire
    <3> QED BY <1>2, <3>1 DEF Acquire, Token
  <2> QED BY <2>1, <2>2
<1>3. ASSUME NEW w \in Workers, AcquireFails(w) PROVE (key = Token(v) \/ Token(v) \in lost)'
  <2>1. Inside(v) /\ Token(v)' = Token(v) /\ lost' = lost
    BY <1>3 DEF AcquireFails, Token
  <2>2. key' = key \/ key = Free
    BY <1>3 DEF AcquireFails, LockScript
  <2> QED BY <2>1, <2>2, TokensDiffer
<1>4. ASSUME NEW w \in Workers,
             AcquireHeld(w) \/ TryAgain(w) \/ TryCancelled(w) \/ Cancel(w) \/ FnEnds(w)
             \/ ExtenderFinished(w) \/ UnlockFails(w) \/ ExtenderStops(w)
      PROVE  (key = Token(v) \/ Token(v) \in lost)'
  BY <1>4 DEF AcquireHeld, TryAgain, TryCancelled, Cancel, FnEnds, ExtenderFinished, UnlockFails,
             ExtenderStops, Token
<1>5. ASSUME NEW w \in Workers, Unlock(w) PROVE (key = Token(v) \/ Token(v) \in lost)'
  <2>1. v # w /\ Inside(v) /\ Token(v)' = Token(v) /\ lost' = lost
    BY <1>5 DEF Unlock, Token
  <2>2. key' = key \/ key = Token(w)
    BY <1>5 DEF Unlock, UnlockScript, Owns
  <2> QED BY <2>1, <2>2, TokensDiffer
<1>6. ASSUME NEW w \in Workers, Extend(w) \/ ExtendFails(w)
      PROVE  (key = Token(v) \/ Token(v) \in lost)'
  BY <1>6 DEF Extend, ExtendFails, ExtendScript, Token
<1>7. CASE ForceUnlock
  BY <1>7 DEF ForceUnlock, Token
<1>8. CASE Tick
  BY <1>8 DEF Tick, KeyAges, Token
<1>9. CASE UNCHANGED vars
  BY <1>9 DEF vars, Token
<1> QED BY <1>1, <1>2, <1>3, <1>4, <1>5, <1>6, <1>7, <1>8, <1>9
        DEF Next, AcquireStep, ReleaseStep, ExtenderStep

(* An extender resets the time to live to TTL and its ticker to Interval,    *)
(* which is less; both then fall together, and the ticker cannot be missed.  *)
LEMMA ExtendStep == IInv /\ [Next]_vars => Extending'
<1> SUFFICES ASSUME IInv, [Next]_vars, NEW v \in Workers, ext'[v] = "run"
             PROVE  /\ pc'[v] \in {"fn", "stop"} /\ mode'[v] = "WithLockAutoExtend"
                    /\ key' = Token(v)' => due'[v] < ttl'
                    /\ forced' = 0 => key' = Token(v)'
  BY DEF Extending
<1> DEFINE Kept == /\ pc'[v] \in {"fn", "stop"} /\ mode'[v] = "WithLockAutoExtend"
                   /\ key' = Token(v)' => due'[v] < ttl'
                   /\ forced' = 0 => key' = Token(v)'
<1> USE LockAssumption DEF IInv, TypeOK, Extending, Goto, redisVars, extVars
<1>1. ASSUME NEW w \in Workers, NEW m \in Modes, Call(w, m) PROVE Kept
  BY <1>1 DEF Call, Token
<1>2. ASSUME NEW w \in Workers, Acquire(w) PROVE Kept
  <2>1. CASE v = w
    BY <1>2, <2>1 DEF Acquire, SetPX, Token
  <2>2. CASE v # w
    <3>1. ext[v] = "run" /\ key # Token(v)
      BY <1>2, <2>2, TokensDiffer DEF Acquire
    <3>2. key' # Token(v)'
      BY <1>2, <2>2 DEF Acquire, SetPX, Token
    <3> QED BY <1>2, <2>2, <3>1, <3>2 DEF Acquire
  <2> QED BY <2>1, <2>2
<1>3. ASSUME NEW w \in Workers, AcquireFails(w) PROVE Kept
  <2>1. ext[v] = "run" /\ Token(v)' = Token(v) /\ mode' = mode
        /\ forced' = forced /\ due' = due
    BY <1>3 DEF AcquireFails, Token
  <2>2. v # w /\ pc'[v] = pc[v]
    BY <1>3, <2>1 DEF AcquireFails
  <2>3. (key' = key /\ ttl' = ttl) \/ (key = Free /\ key' = Token(w))
    BY <1>3 DEF AcquireFails, LockScript, SetPX
  <2> QED BY <2>1, <2>2, <2>3, TokensDiffer
<1>4. ASSUME NEW w \in Workers, AcquireStep(w) \/ ReleaseStep(w), UNCHANGED <<redisVars, extVars>>
      PROVE  Kept
  <2>1. ext[v] = "run" /\ Token(v)' = Token(v) /\ forced' = forced /\ mode' = mode
    BY <1>4 DEF AcquireStep, ReleaseStep, Acquire, AcquireHeld, AcquireFails, TryAgain, TryCancelled,
               ExtenderFinished, Unlock, UnlockFails, Token
  <2>2. pc'[v] = pc[v]
    BY <1>4, <2>1 DEF AcquireStep, ReleaseStep, Acquire, AcquireHeld, AcquireFails, TryAgain,
                     TryCancelled, ExtenderFinished, Unlock, UnlockFails
  <2> QED BY <1>4, <2>1, <2>2
<1>5. ASSUME NEW w \in Workers, Cancel(w) \/ FnEnds(w) \/ ExtenderStops(w) PROVE Kept
  BY <1>5 DEF Cancel, FnEnds, ExtenderStops, ExtFinishes, Token
<1>6. ASSUME NEW w \in Workers, Unlock(w) PROVE Kept
  <2>1. ext[v] = "run" /\ Token(v)' = Token(v) /\ mode' = mode
        /\ forced' = forced /\ due' = due
    BY <1>6 DEF Unlock, Token
  <2>2. v # w /\ pc'[v] = pc[v]
    BY <1>6, <2>1 DEF Unlock
  <2>3. (key' = key /\ ttl' = ttl) \/ (key = Token(w) /\ key' = Free)
    BY <1>6 DEF Unlock, UnlockScript, Owns
  <2> QED BY <2>1, <2>2, <2>3, TokensDiffer
<1>7. ASSUME NEW w \in Workers, Extend(w) \/ ExtendFails(w) PROVE Kept
  <2>1. ext[v] = "run" /\ pc' = pc /\ mode' = mode /\ forced' = forced
        /\ Token(v)' = Token(v) /\ key' = key
    BY <1>7 DEF Extend, ExtendFails, ExtendScript, ExtFinishes, Token
  <2>2. CASE Owns(w) /\ v = w
    BY <1>7, <2>1, <2>2 DEF Extend, ExtendFails, ExtendScript, ExtFinishes, Owns
  <2>3. CASE ~Owns(w) /\ v = w
    BY <1>7, <2>1, <2>3 DEF Extend, ExtendFails, ExtendScript, ExtFinishes, Owns
  <2>4. CASE v # w
    <3>1. due'[v] = due[v]
      BY <1>7, <2>4 DEF Extend, ExtendFails
    <3>2. key = Token(v) => ~Owns(w)
      BY <2>1, <2>4, TokensDiffer DEF Owns
    <3>3. key = Token(v) => ttl' = ttl
      BY <1>7, <3>2 DEF Extend, ExtendFails, ExtendScript
    <3> QED BY <2>1, <3>1, <3>3
  <2> QED BY <2>2, <2>3, <2>4
<1>8. CASE ForceUnlock
  <2>1. ext[v] = "run" /\ pc' = pc /\ mode' = mode /\ Token(v)' # key'
    BY <1>8, TokensDiffer DEF ForceUnlock
  <2>2. forced' # 0
    BY <1>8 DEF ForceUnlock
  <2> QED BY <2>1, <2>2
<1>9. CASE Tick
  <2>1. ext[v] = "run" /\ pc' = pc /\ mode' = mode /\ forced' = forced /\ Token(v)' = Token(v)
    BY <1>9 DEF Tick, Token
  <2>2. due[v] > 0 /\ due'[v] = due[v] - 1
    BY <1>9, <2>1 DEF Tick, ExtenderDue
  <2>3. key = Token(v) => ttl \in 2 .. TTL
    BY <2>1, <2>2
  <2>4. key = Token(v) => key' = key /\ ttl' = ttl - 1
    BY <1>9, <2>3 DEF Tick, KeyAges
  <2>5. key # Token(v) => key' # Token(v)
    BY <1>9, TokensDiffer DEF Tick, KeyAges
  <2> QED BY <2>1, <2>2, <2>3, <2>4, <2>5
<1>10. CASE UNCHANGED vars
  BY <1>10 DEF vars, Token
<1> QED BY <1>1, <1>2, <1>3, <1>4, <1>5, <1>6, <1>7, <1>8, <1>9, <1>10
        DEF Next, AcquireStep, ReleaseStep, ExtenderStep, AcquireHeld, TryAgain, TryCancelled,
            ExtenderFinished, UnlockFails

LEMMA FreshStep == IInv /\ [Next]_vars => Fresh'
<1> SUFFICES ASSUME IInv, [Next]_vars PROVE Fresh'
  OBVIOUS
<1> USE DEF IInv, TypeOK, Fresh, Goto, redisVars, extVars
<1>1. ASSUME NEW w \in Workers, NEW m \in Modes, Call(w, m) PROVE Fresh'
  BY <1>1 DEF Call, Token
<1>2. ASSUME NEW w \in Workers, Acquire(w) \/ AcquireFails(w) PROVE Fresh'
  <2>1. calls' = calls /\ lost' = lost /\ pc' = [pc EXCEPT ![w] = pc'[w]]
        /\ pc'[w] \in {"fn", "done"} /\ key' \in {key, Token(w)}
    BY <1>2 DEF Acquire, AcquireFails, LockScript, SetPX
  <2> QED BY <2>1 DEF Token
<1>3. ASSUME NEW w \in Workers,
             AcquireHeld(w) \/ TryAgain(w) \/ TryCancelled(w) \/ Cancel(w) \/ FnEnds(w)
             \/ ExtenderFinished(w) \/ UnlockFails(w) \/ ExtenderStep(w)
      PROVE  Fresh'
  <2>1. calls' = calls /\ lost' = lost /\ key' = key
        /\ \A v \in Workers : pc'[v] \in {"acquire", "wait"} => pc[v] \in {"acquire", "wait"}
    BY <1>3 DEF AcquireHeld, TryAgain, TryCancelled, Cancel, FnEnds, ExtenderFinished, UnlockFails,
               ExtenderStep, ExtenderStops, Extend, ExtendFails, ExtendScript, ExtFinishes
  <2> QED BY <2>1 DEF Token
<1>4. ASSUME NEW w \in Workers, Unlock(w) PROVE Fresh'
  BY <1>4 DEF Unlock, UnlockScript, Token, Free
<1>5. CASE ForceUnlock \/ Tick
  <2>1. calls' = calls /\ pc' = pc /\ lost' \subseteq lost \cup {key} /\ key' \in {key, Free}
    BY <1>5 DEF ForceUnlock, Tick, KeyAges
  <2> QED BY <2>1 DEF Token, Free
<1>6. CASE UNCHANGED vars
  BY <1>6 DEF vars, Token
<1> QED BY <1>1, <1>2, <1>3, <1>4, <1>5, <1>6 DEF Next, AcquireStep, ReleaseStep

LEMMA Invariance == Spec => []IInv
<1>1. IInv /\ [Next]_vars => IInv'
  BY TypeStep, CountStep, HoldStep, ExtendStep, FreshStep DEF IInv
<1> QED BY Initially, <1>1, PTL DEF Spec

(* Variables keep their types, whatever fails and expires.                   *)
THEOREM LockTypes == Spec => []TypeOK
<1>1. IInv => TypeOK
  BY DEF IInv
<1> QED BY Invariance, <1>1, PTL

(* WithLock, TryLock and WithLockAutoExtend exclude one another as long as   *)
(* no key of theirs expires or is deleted by force.                          *)
THEOREM LockExcludes == Spec => []MutualExclusion
<1>1. IInv => MutualExclusion
  BY TokensDiffer DEF IInv, Holding, MutualExclusion
<1> QED BY Invariance, <1>1, PTL

(* A running extender's lock is not lost, however long fn takes: this is     *)
(* where Interval < TTL is needed.                                           *)
THEOREM ExtensionKeepsLock == Spec => []ExtendedLockIsKept
<1>1. IInv => ExtendedLockIsKept
  BY LockAssumption DEF IInv, TypeOK, Extending, ExtendedLockIsKept
<1> QED BY Invariance, <1>1, PTL

-----------------------------------------------------------------------------
(* The lock implements the lock with leases: every step of Redis, of a      *)
(* caller or of its extender is a step of it, or a stutter.                 *)

LEMMA RefinedInit == Init => AL!Unlocked
  BY DEF Init, AL!Unlocked, Working, Extended, Inside

(* A step after which the same callers work and extend, with the same       *)
(* tokens, does to the abstract lock what it does to the key.               *)
LEMMA SameCallers ==
    ASSUME \A w \in Workers : Inside(w)' <=> Inside(w),
           \A w \in Workers : ext'[w] = "run" <=> ext[w] = "run",
           \A w \in Workers : Inside(w) \/ ext[w] = "run" => Token(w)' = Token(w)
    PROVE  Working' = Working /\ Extended' = Extended
  BY DEF Working, Extended

LEMMA NobodyElsesToken ==
    ASSUME IInv, NEW w \in Workers
    PROVE  /\ ~Inside(w) => Token(w) \notin Working
           /\ ext[w] # "run" => Token(w) \notin Extended
  BY TokensDiffer DEF Working, Extended

(* Taking the lock, with the caller told of it or not.                      *)
LEMMA RefinedAcquire ==
    ASSUME IInv, NEW w \in Workers, AcquireStep(w)
    PROVE  [AL!LockStep]_(AL!lockVars)
<1> USE DEF IInv, TypeOK, Goto, redisVars, extVars
<1>1. Token(w)' = Token(w) /\ forced' = forced /\ lost' = lost
      /\ \A v \in Workers : Token(v)' = Token(v)
  BY DEF AcquireStep, Acquire, AcquireHeld, AcquireFails, TryAgain, TryCancelled, Token
<1>2. ASSUME pc[w] = "acquire", key = Free
      PROVE  /\ Token(w) \in Tokens /\ {key} \ {Free} = {}
             /\ Token(w) \notin Working \cup lost
             /\ Token(w) # Free
  BY <1>2, TokenIsStorable, TokensDiffer, NobodyElsesToken DEF Fresh, Inside
<1>3. CASE Acquire(w)
  <2>1. key' = Token(w) /\ pc[w] = "acquire" /\ key = Free
    BY <1>3 DEF Acquire, SetPX
  <2>2. Working' = Working \cup {Token(w)}
    BY <1>1, <1>3 DEF Acquire, Working, Inside
  <2>3. Extended' \in {Extended, Extended \cup {Token(w)}}
    BY <1>1, <1>3 DEF Acquire, Extended
  <2>4. AL!Take(Token(w))
    BY <1>1, <1>2, <2>1, <2>2, <2>3 DEF AL!Take
  <2> QED BY <1>2, <2>1, <2>4 DEF AL!LockStep
<1>4. ASSUME AcquireFails(w) \/ AcquireHeld(w) \/ TryAgain(w) \/ TryCancelled(w)
      PROVE  [AL!LockStep]_(AL!lockVars)
  <2>1. Working' = Working /\ Extended' = Extended
    BY <1>1, <1>4, SameCallers
       DEF AcquireFails, AcquireHeld, TryAgain, TryCancelled, Inside
  <2>2. CASE key' = key
    BY <1>1, <2>1, <2>2 DEF AL!lockVars
  <2>3. CASE key' # key
    <3>1. key = Free /\ key' = Token(w) /\ pc[w] = "acquire"
      BY <1>4, <2>3 DEF AcquireFails, AcquireHeld, TryAgain, TryCancelled, LockScript, SetPX
    <3>2. AL!Take(Token(w))
      BY <1>1, <1>2, <2>1, <3>1 DEF AL!Take
    <3> QED BY <1>2, <3>1, <3>2 DEF AL!LockStep
  <2> QED BY <2>2, <2>3
<1> QED BY <1>3, <1>4 DEF AcquireStep

(* Giving it back, or not being able to.                                    *)
LEMMA RefinedRelease ==
    ASSUME IInv, NEW w \in Workers, Unlock(w) \/ UnlockFails(w)
    PROVE  [AL!LockStep]_(AL!lockVars)
<1> USE DEF IInv, TypeOK, Goto, redisVars, extVars
<1>1. forced' = forced /\ lost' = lost /\ ext' = ext /\ pc[w] = "unlock"
      /\ \A v \in Workers : Token(v)' = Token(v)
  BY DEF Unlock, UnlockFails, Token
<1>2. Working' = Working \ {Token(w)} /\ Token(w) \in Working
  BY <1>1, TokensDiffer DEF Unlock, UnlockFails, Working, Inside
<1>3. Extended' = Extended /\ Token(w) \notin Extended
  BY <1>1, NobodyElsesToken DEF Extended, Extending
<1>4. {key'} \ {Free} \in {{key} \ {Free}, ({key} \ {Free}) \ {Token(w)}}
  BY DEF Unlock, UnlockFails, UnlockScript, Owns
<1>5. AL!Release(Token(w))
  BY <1>1, <1>2, <1>3, <1>4 DEF AL!Release
<1>6. Token(w) \in Tokens
  BY <1>1, TokenIsStorable
<1> QED BY <1>5, <1>6 DEF AL!LockStep

(* The extender, which may give up, or find the lock gone.                  *)
LEMMA RefinedExtend ==
    ASSUME IInv, NEW w \in Workers, ExtenderStep(w)
    PROVE  [AL!LockStep]_(AL!lockVars)
<1> USE DEF IInv, TypeOK, Goto, redisVars, extVars
<1>1. forced' = forced /\ lost' = lost /\ key' = key /\ pc' = pc /\ ext[w] = "run"
      /\ \A v \in Workers : Token(v)' = Token(v)
  BY DEF ExtenderStep, ExtenderStops, Extend, ExtendFails, ExtendScript, Token
<1>2. Working' = Working
  BY <1>1 DEF Working, Inside
<1>3. CASE ext' = ext
  BY <1>1, <1>2, <1>3 DEF AL!lockVars, Extended
<1>4. CASE ext' = [ext EXCEPT ![w] = "finished"]
  <2>1. Extended' = Extended \ {Token(w)} /\ Token(w) \in Extended
    BY <1>1, <1>4, TokensDiffer DEF Extended
  <2>2. Token(w) \in Tokens
    BY <1>1, TokenIsStorable DEF Extending
  <2> QED BY <1>1, <1>2, <2>1, <2>2 DEF AL!LockStep, AL!Neglect
<1> QED BY <1>3, <1>4 DEF ExtenderStep, ExtenderStops, Extend, ExtendFails, ExtFinishes

LEMMA RefinedStep == IInv /\ [Next]_vars => [AL!LockStep]_(AL!lockVars)
<1> SUFFICES ASSUME IInv, [Next]_vars PROVE [AL!LockStep]_(AL!lockVars)
  OBVIOUS
<1> USE DEF IInv, TypeOK, Goto, redisVars, extVars
<1>1. ASSUME NEW w \in Workers, NEW m \in Modes, Call(w, m) PROVE UNCHANGED AL!lockVars
  <2>1. key' = key /\ lost' = lost /\ forced' = forced /\ ~Inside(w) /\ ext[w] # "run"
    BY <1>1 DEF Call, Inside, Extending
  <2>2. Working' = Working /\ Extended' = Extended
    BY <1>1, <2>1, SameCallers DEF Call, Inside, Token
  <2> QED BY <2>1, <2>2 DEF AL!lockVars
<1>2. ASSUME NEW w \in Workers, Cancel(w) \/ FnEnds(w) \/ ExtenderFinished(w)
      PROVE  UNCHANGED AL!lockVars
  <2>1. key' = key /\ lost' = lost /\ forced' = forced /\ ext' = ext /\ calls' = calls
    BY <1>2 DEF Cancel, FnEnds, ExtenderFinished
  <2>2. Working' = Working /\ Extended' = Extended
    BY <1>2, <2>1, SameCallers DEF Cancel, FnEnds, ExtenderFinished, Inside, Token
  <2> QED BY <2>1, <2>2 DEF AL!lockVars
<1>3. CASE ForceUnlock
  <2>1. Working' = Working /\ Extended' = Extended
    BY <1>3 DEF ForceUnlock, Working, Extended, Inside, Token
  <2>2. AL!TakenAway
    BY <1>3, <2>1 DEF ForceUnlock, AL!TakenAway, AL!Lose
  <2> QED BY <2>2 DEF AL!LockStep
<1>4. CASE Tick
  <2>1. Working' = Working /\ Extended' = Extended
    <3>1. pc' = pc /\ ext' = ext /\ calls' = calls
      BY <1>4 DEF Tick
    <3> QED BY <3>1 DEF Working, Extended, Inside, Token
  <2>2. CASE ttl # 1
    BY <1>4, <2>1, <2>2 DEF Tick, KeyAges, AL!lockVars
  <2>3. CASE ttl = 1
    <3>1. ASSUME NEW w \in Workers, ext[w] = "run" PROVE key # Token(w)
      <4>1. due[w] > 0
        BY <1>4, <3>1, LockAssumption DEF Tick, ExtenderDue
      <4> QED BY <2>3, <3>1, <4>1, LockAssumption DEF Extending
    <3>2. key \notin Extended /\ key # Free
      BY <2>3, <3>1 DEF Extended, Stored
    <3>3. AL!Expire
      BY <1>4, <2>1, <2>3, <3>2 DEF Tick, KeyAges, AL!Expire, AL!Lose
    <3> QED BY <3>3 DEF AL!LockStep
  <2> QED BY <2>2, <2>3
<1>5. CASE UNCHANGED vars
  <2>1. Working' = Working /\ Extended' = Extended
    BY <1>5 DEF vars, Working, Extended, Inside, Token
  <2> QED BY <1>5, <2>1 DEF vars, AL!lockVars
<1> QED BY <1>1, <1>2, <1>3, <1>4, <1>5, RefinedAcquire, RefinedRelease, RefinedExtend
        DEF Next, ReleaseStep

(* WithLock, TryLock and WithLockAutoExtend over Redis are a lock with      *)
(* leases, for any workers, times and failures.                             *)
THEOREM LockIsALock == Spec => IsALock
<1> QED BY Invariance, RefinedInit, RefinedStep, PTL DEF Spec, IsALock, AL!LockSpec
-----------------------------------------------------------------------------
(* What a lock with leases promises, whatever implements it: AbstractLock    *)
(* over tokens and variables of its own.                                     *)

CONSTANT Leases

VARIABLES holders, busy, extended, lostLeases, forcings

LL == INSTANCE AbstractLock WITH Tokens <- Leases, lost <- lostLeases, forced <- forcings

LInv == forcings \in Nat /\ LL!Exclusive

LEMMA LeaseStep == LInv /\ [LL!LockStep]_(LL!lockVars) => LInv'
<1> SUFFICES ASSUME LInv, [LL!LockStep]_(LL!lockVars) PROVE LInv'
  OBVIOUS
<1> USE DEF LInv, LL!Exclusive
<1>1. ASSUME NEW t \in Leases, LL!Take(t) PROVE LInv'
  BY <1>1 DEF LL!Take
<1>2. ASSUME NEW t \in Leases, LL!Neglect(t) PROVE LInv'
  BY <1>2 DEF LL!Neglect
<1>3. ASSUME NEW t \in Leases, LL!Release(t) PROVE LInv'
  BY <1>3 DEF LL!Release
<1>4. CASE LL!Expire
  BY <1>4 DEF LL!Expire, LL!Lose
<1>5. CASE LL!TakenAway
  BY <1>5 DEF LL!TakenAway, LL!Lose
<1>6. CASE UNCHANGED LL!lockVars
  BY <1>6 DEF LL!lockVars
<1> QED BY <1>1, <1>2, <1>3, <1>4, <1>5, <1>6 DEF LL!LockStep

(* Whoever works without the lock has lost it, by a lease that ran out or   *)
(* by force; an extended lease is lost only by force.                       *)
THEOREM LeasesExclude == LL!LockSpec => []LL!Exclusive
<1>1. LL!Unlocked => LInv
  BY DEF LL!Unlocked, LInv, LL!Exclusive
<1>2. LInv => LL!Exclusive
  BY DEF LInv
<1> QED BY <1>1, <1>2, LeaseStep, PTL DEF LL!LockSpec
=============================================================================
