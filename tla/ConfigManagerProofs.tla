------------------------- MODULE ConfigManagerProofs -------------------------
(* Proofs about ConfigManager, for any callers and managers and any bounds. *)
EXTENDS ConfigManager, TLAPS

(* Callers work on managers that exist.                                     *)
OnUsed == Blank \in used /\ \A c \in Callers : mgr[c] \in used

IInv == TypeOK /\ OnUsed /\ NoForgottenLoop

(* While a manager is left to be created, LoadBegin creates one.            *)
LEMMA NewManagerExists ==
    ASSUME TypeOK, used # Managers
    PROVE  NewManager \in Managers
  BY DEF TypeOK, NewManager

(* A file that is read as good is a configuration that Get may return.      *)
LEMMA GoodFile ==
    ASSUME TypeOK, file.kind = "good"
    PROVE  file \in Good
  BY DEF TypeOK, Contents, Good

LEMMA Initially == Init => IInv
<1> SUFFICES ASSUME Init PROVE IInv
  OBVIOUS
<1>1. TypeOK
  <2>1. MaxChanges \in Nat /\ MaxCalls \in Nat
    BY ConfigAssumption
  <2>2. file \in Contents
    BY <2>1 DEF Init, Contents, Kinds
  <2>3. /\ default \in used /\ used \subseteq Managers
        /\ cfg \in [Managers -> Good \cup {None, Manual}]
        /\ v \in [Managers -> Contents \cup {None, Manual}]
        /\ watcher \in [Managers -> Loops \cup {0}]
    BY DEF Init, Managers
  <2>4. /\ loop \in [Loops -> Running \cup {"none", "ended"}] /\ owner \in [Loops -> Managers]
        /\ open \in [Loops -> BOOLEAN] /\ event \in [Loops -> BOOLEAN]
        /\ armed \in [Loops -> BOOLEAN]
    BY DEF Init, Managers
  <2>5. call \in [Callers -> Calls]
    BY DEF Init, Calls
  <2>6. pc \in [Callers -> {"idle", "read", "publish", "watch", "swap", "store", "detach",
                           "cancel", "wait", "reload", "set"}]
    BY DEF Init
  <2>7. /\ pkgLoadMu \in Callers \cup {None}
        /\ mgr \in [Callers -> Managers] /\ old \in [Callers -> Managers]
        /\ got \in [Callers -> Good \cup {None}] /\ stop \in [Callers -> Loops \cup {0}]
    BY DEF Init, Managers
  <2>8. calls \in 0 .. MaxCalls
    BY <2>1 DEF Init
  <2>9. raced \in BOOLEAN
    BY DEF Init
  <2> QED BY <2>2, <2>3, <2>4, <2>5, <2>6, <2>7, <2>8, <2>9 DEF TypeOK
<1>2. OnUsed /\ NoForgottenLoop
  BY DEF Init, OnUsed, NoForgottenLoop, Running
<1> QED BY <1>1, <1>2 DEF IInv

(* What the variables of the callers become when a call ends.               *)
LEMMA ReturnTypes ==
    ASSUME IInv, NEW c \in Callers, Return(c), UNCHANGED <<default, used>>
    PROVE  /\ pkgLoadMu' \in Callers \cup {None}
           /\ pc' \in [Callers -> {"idle", "read", "publish", "watch", "swap", "store", "detach",
                                   "cancel", "wait", "reload", "set"}]
           /\ call' \in [Callers -> Calls]
           /\ mgr' \in [Callers -> Managers] /\ old' \in [Callers -> Managers]
           /\ got' \in [Callers -> Good \cup {None}] /\ stop' \in [Callers -> Loops \cup {0}]
           /\ OnUsed'
  BY DEF IInv, TypeOK, OnUsed, Return, Goto, Calls, Managers

(* Every step keeps the types, and the managers in use exist.               *)
LEMMA TypeStep == IInv /\ [Next]_vars => TypeOK' /\ OnUsed'
<1> SUFFICES ASSUME IInv, [Next]_vars PROVE TypeOK' /\ OnUsed'
  OBVIOUS
<1> DEFINE Typed == TypeOK' /\ OnUsed'
<1> USE ConfigAssumption DEF IInv, TypeOK, OnUsed, Goto, views, loopVars, local
<1>1. CASE FileChanges
  <2>1. file' \in Contents
    BY <1>1 DEF FileChanges, Contents
  <2> QED BY <1>1, <2>1 DEF FileChanges
<1>2. ASSUME NEW c \in Callers, LoadBegin(c) PROVE Typed
  <2>1. NewManager \in Managers
    BY <1>2, NewManagerExists DEF LoadBegin
  <2> QED BY <1>2, <2>1 DEF LoadBegin, Begin, Calls
<1>3. ASSUME NEW c \in Callers, OnDefault(c) PROVE Typed
  BY <1>3 DEF OnDefault, Begin, Calls
<1>4. ASSUME NEW c \in Callers, LoadRead(c) PROVE Typed
  BY <1>4, GoodFile DEF LoadRead
<1>5. ASSUME NEW c \in Callers, LoadPublish(c) PROVE Typed
  BY <1>5 DEF LoadPublish, Good, Contents, Kinds
<1>6. ASSUME NEW c \in Callers,
             LoadFails(c) \/ StartsNoWatcher(c) \/ StopNothing(c) \/ StopWait(c)
      PROVE  Typed
  BY <1>6, ReturnTypes DEF LoadFails, StartsNoWatcher, StopNothing, StopWait
<1>7. ASSUME NEW c \in Callers, StartWatcher(c) PROVE Typed
  <2>1. /\ loop' \in [Loops -> Running \cup {"none", "ended"}]
        /\ owner' \in [Loops -> Managers]
        /\ open' \in [Loops -> BOOLEAN]
        /\ watcher' \in [Managers -> Loops \cup {0}]
    BY <1>7 DEF StartWatcher, Running
  <2>2. UNCHANGED <<file, default, used, views, event, armed, calls, raced>>
    BY <1>7 DEF StartWatcher
  <2>3. CASE Return(c)
    BY <2>1, <2>2, <2>3, ReturnTypes
  <2>4. CASE Continue(c, "swap")
    BY <2>1, <2>2, <2>4 DEF Continue
  <2> QED BY <1>7, <2>3, <2>4 DEF StartWatcher, AfterWatch
<1>8. ASSUME NEW c \in Callers, SwapRead(c) \/ SwapStore(c) PROVE Typed
  BY <1>8 DEF SwapRead, SwapStore, Managers
<1>9. ASSUME NEW c \in Callers, StopDetach(c) \/ StopCancel(c) PROVE Typed
  BY <1>9, ZenonT(40) DEF StopDetach, StopCancel, Managers
<1>10. ASSUME NEW m \in Managers, reload(m)
       PROVE  /\ cfg' \in [Managers -> Good \cup {None, Manual}]
              /\ v' \in [Managers -> Contents \cup {None, Manual}]
  BY <1>10, GoodFile DEF reload, Accepts
<1>11. ASSUME NEW c \in Callers, Reload(c) PROVE Typed
  BY <1>10, <1>11, ReturnTypes DEF Reload
<1>12. ASSUME NEW c \in Callers, Set(c) PROVE Typed
  BY <1>12, ReturnTypes DEF Set
<1>13. ASSUME NEW l \in Loops, WatchTimer(l) PROVE Typed
  BY <1>10, <1>13 DEF WatchTimer, Running
<1>14. ASSUME NEW l \in Loops, WatchEvent(l) \/ WatchCallbacksEnd(l) \/ WatchEnds(l) PROVE Typed
  BY <1>14, ZenonT(40) DEF WatchEvent, WatchCallbacksEnd, WatchEnds, Rearmed, Running
<1>15. CASE UNCHANGED vars
  BY <1>15 DEF vars
<1> QED BY <1>1, <1>2, <1>3, <1>4, <1>5, <1>6, <1>7, <1>8, <1>9, <1>11, <1>12, <1>13, <1>14,
           <1>15 DEF Next, CallStep, LoopStep

(* A loop starts as its manager's watcher and ends only by itself: who takes *)
(* the watcher away waits for the end.                                       *)
LEMMA LoopStepKept == IInv /\ [Next]_vars => NoForgottenLoop'
<1> SUFFICES ASSUME IInv, [Next]_vars, NEW l \in Loops, loop'[l] \in Running
             PROVE  \/ watcher'[owner'[l]] = l
                    \/ \E c \in Callers : pc'[c] \in {"cancel", "wait"} /\ stop'[c] = l
  BY DEF NoForgottenLoop
<1> DEFINE Remembered == \/ watcher'[owner'[l]] = l
                         \/ \E c \in Callers : pc'[c] \in {"cancel", "wait"} /\ stop'[c] = l
<1> USE DEF IInv, TypeOK, NoForgottenLoop, Goto, loopVars, local
<1>1. ASSUME NEW c \in Callers, pc[c] \notin {"cancel", "wait"}, loop' = loop,
             owner' = owner, watcher' = watcher,
             \A d \in Callers \ {c} : pc'[d] = pc[d] /\ stop'[d] = stop[d]
      PROVE  Remembered
  BY <1>1
<1>2. ASSUME NEW c \in Callers,
             LoadBegin(c) \/ OnDefault(c) \/ LoadRead(c) \/ LoadPublish(c)
             \/ SwapRead(c) \/ SwapStore(c)
      PROVE  Remembered
  BY <1>1, <1>2 DEF LoadBegin, OnDefault, Begin, LoadRead, LoadPublish, SwapRead, SwapStore
<1>3. ASSUME NEW c \in Callers,
             LoadFails(c) \/ StartsNoWatcher(c) \/ StopNothing(c) \/ Reload(c) \/ Set(c)
      PROVE  Remembered
  BY <1>1, <1>3 DEF LoadFails, StartsNoWatcher, StopNothing, Reload, Set, Return
<1>4. ASSUME NEW c \in Callers, StartWatcher(c) PROVE Remembered
  <2>1. PICK k \in Loops :
           /\ loop[k] = "none"
           /\ loop' = [loop EXCEPT ![k] = "run"] /\ owner' = [owner EXCEPT ![k] = mgr[c]]
           /\ watcher' = [watcher EXCEPT ![mgr[c]] = k]
    BY <1>4 DEF StartWatcher
  <2>2. watcher[mgr[c]] = 0 /\ pc[c] = "watch"
    BY <1>4 DEF StartWatcher, MayWatch
  <2>3. \A d \in Callers \ {c} : pc'[d] = pc[d] /\ stop'[d] = stop[d]
    BY <1>4 DEF StartWatcher, AfterWatch, Continue, Return
  <2>4. CASE k = l
    BY <2>1, <2>4
  <2>5. CASE k # l
    <3>1. loop[l] \in Running /\ owner'[l] = owner[l]
      BY <2>1, <2>5
    <3>2. watcher[owner[l]] = l => owner[l] # mgr[c]
      BY <2>2 DEF Loops
    <3> QED BY <2>1, <2>2, <2>3, <3>1, <3>2
  <2> QED BY <2>4, <2>5
<1>5. ASSUME NEW c \in Callers, StopDetach(c) PROVE Remembered
  <2>1. loop[l] \in Running /\ owner' = owner /\ pc[c] = "detach"
    BY <1>5 DEF StopDetach
  <2>2. CASE owner[l] = old[c] /\ watcher[owner[l]] = l
    BY <1>5, <2>2 DEF StopDetach
  <2>3. CASE owner[l] # old[c] /\ watcher[owner[l]] = l
    BY <1>5, <2>1, <2>3 DEF StopDetach
  <2>4. CASE watcher[owner[l]] # l
    BY <1>5, <2>1, <2>4 DEF StopDetach
  <2> QED BY <2>2, <2>3, <2>4
<1>6. ASSUME NEW c \in Callers, StopCancel(c) PROVE Remembered
  BY <1>6 DEF StopCancel
<1>7. ASSUME NEW c \in Callers, StopWait(c) PROVE Remembered
  <2>1. loop[l] \in Running /\ stop[c] # l
    BY <1>7 DEF StopWait, WatchDone, Running
  <2> QED BY <1>7, <2>1 DEF StopWait, Return
<1>8. ASSUME NEW k \in Loops, LoopStep(k) PROVE Remembered
  <2>1. loop[l] \in Running
    BY <1>8 DEF LoopStep, WatchEvent, WatchTimer, WatchCallbacksEnd, WatchEnds, Running
  <2> QED BY <1>8, <2>1 DEF LoopStep, WatchEvent, WatchTimer, WatchCallbacksEnd, WatchEnds
<1>9. CASE FileChanges \/ UNCHANGED vars
  BY <1>9 DEF FileChanges, vars
<1> QED BY <1>2, <1>3, <1>4, <1>5, <1>6, <1>7, <1>8, <1>9 DEF Next, CallStep

LEMMA Invariance == Spec => []IInv
<1>1. IInv /\ [Next]_vars => IInv'
  BY TypeStep, LoopStepKept DEF IInv
<1> QED BY Initially, <1>1, PTL DEF Spec

(* Variables keep their types; with them, what Get returns was accepted.     *)
THEOREM ConfigTypes == Spec => []TypeOK
<1>1. IInv => TypeOK
  BY DEF IInv
<1> QED BY Invariance, <1>1, PTL

(* However loads, replacements and watcher calls interleave, a watch loop    *)
(* that runs can be stopped or is being stopped by a caller that waits.      *)
THEOREM LoopsAreRemembered == Spec => []NoForgottenLoop
<1>1. IInv => NoForgottenLoop
  BY DEF IInv
<1> QED BY Invariance, <1>1, PTL

-----------------------------------------------------------------------------
(* The calls that swap the default manager or start a watcher.              *)
Loading(c)  == pc[c] # "idle" /\ call[c] \in {"Load", "LoadWithWatch"}
Swapping(c) == pc[c] # "idle" /\ call[c] \in {"Load", "LoadWithWatch"} \cup Unserialised

(* pkgLoadMu is held by the call that loads, and each call has its steps.   *)
LockHeld == \A c \in Callers : pkgLoadMu = c <=> Loading(c)

Phases ==
    \A c \in Callers :
        /\ pc[c] \in {"read", "publish", "swap", "store"} =>
                call[c] \in {"Load", "LoadWithWatch", "SetDefaultManager"}
        /\ pc[c] = "watch" => call[c] \in {"LoadWithWatch", "StartWatcher"}

(* A watched manager that is not the default is about to become it, or was  *)
(* replaced a moment ago, and the call that does so has not returned.       *)
InHand(c, m) == \/ pc[c] \in {"swap", "store"} /\ mgr[c] = m
                \/ pc[c] = "detach" /\ old[c] = m

(* While no call raced: they swap one at a time, each finds the default as  *)
(* it read it, and no watched manager is out of reach.                      *)
Serial ==
    /\ \A c, d \in Callers : Swapping(c) /\ Swapping(d) => c = d
    /\ \A c \in Callers : pc[c] = "store" => old[c] = default
    /\ \A c \in Callers : pc[c] = "watch" /\ call[c] = "StartWatcher" => mgr[c] = default
    /\ \A m \in Managers \ {default} :
          watcher[m] # 0 => \E c \in Callers : Swapping(c) /\ InHand(c, m)

SwapInv == LockHeld /\ Phases /\ (~raced => Serial)

LEMMA LockStep == IInv /\ LockHeld /\ Phases /\ [Next]_vars => LockHeld' /\ Phases'
<1> SUFFICES ASSUME IInv, LockHeld, Phases, [Next]_vars PROVE LockHeld' /\ Phases'
  OBVIOUS
<1> USE ConfigAssumption DEF IInv, TypeOK, LockHeld, Phases, Loading, Goto, loopVars, local
<1>1. CASE UNCHANGED <<pkgLoadMu, pc, call>>
  BY <1>1
<1>2. ASSUME NEW c \in Callers, LoadBegin(c) PROVE LockHeld' /\ Phases'
  <2>1. PICK name \in {"Load", "LoadWithWatch", "SetDefaultManager"} :
           /\ Begin(c, name)
           /\ IF name = "SetDefaultManager"
              THEN UNCHANGED pkgLoadMu
              ELSE LoadLockFree /\ pkgLoadMu' = c
    BY <1>2 DEF LoadBegin
  <2>2. pc' = [pc EXCEPT ![c] = "read"] /\ pc[c] = "idle" /\ call' = [call EXCEPT ![c] = name]
    BY <1>2, <2>1 DEF LoadBegin, Begin
  <2>3. Phases'
    BY <2>2
  <2>4. LockHeld'
    BY <2>1, <2>2 DEF LoadLockFree
  <2> QED BY <2>3, <2>4
<1>3. ASSUME NEW c \in Callers, OnDefault(c) PROVE LockHeld' /\ Phases'
  BY <1>3 DEF OnDefault, Begin
<1>4. ASSUME NEW c \in Callers, Return(c) PROVE LockHeld' /\ Phases'
  <2>1. /\ pc' = [pc EXCEPT ![c] = "idle"] /\ call' = [call EXCEPT ![c] = "Load"]
        /\ pkgLoadMu' = IF pkgLoadMu = c THEN None ELSE pkgLoadMu
    BY <1>4 DEF Return
  <2>2. Phases'
    BY <2>1
  <2>3. LockHeld'
    BY <2>1
  <2> QED BY <2>2, <2>3
<1>5. ASSUME NEW c \in Callers,
             \/ LoadRead(c) \/ LoadPublish(c) \/ SwapRead(c) \/ SwapStore(c) \/ StopDetach(c)
             \/ StopCancel(c)
             \/ pc[c] = "watch" /\ call[c] = "LoadWithWatch" /\ Continue(c, "swap")
      PROVE  LockHeld' /\ Phases'
  BY <1>5 DEF LoadRead, LoadPublish, SwapRead, SwapStore, StopDetach, StopCancel, Continue
<1>6. ASSUME NEW c \in Callers,
             \/ LoadFails(c) \/ StartsNoWatcher(c) \/ StopNothing(c) \/ StopWait(c)
             \/ Reload(c) \/ Set(c)
      PROVE  Return(c)
  BY <1>6 DEF LoadFails, StartsNoWatcher, StopNothing, StopWait, Reload, Set
<1>7. ASSUME NEW c \in Callers, StartWatcher(c)
      PROVE  Return(c) \/ (pc[c] = "watch" /\ call[c] = "LoadWithWatch" /\ Continue(c, "swap"))
  BY <1>7 DEF StartWatcher, AfterWatch
<1>8. ASSUME FileChanges \/ UNCHANGED vars \/ \E l \in Loops : LoopStep(l)
      PROVE  UNCHANGED <<pkgLoadMu, pc, call>>
  BY <1>8 DEF FileChanges, vars, LoopStep, WatchEvent, WatchTimer, WatchCallbacksEnd, WatchEnds
<1> QED BY <1>1, <1>2, <1>3, <1>4, <1>5, <1>6, <1>7, <1>8 DEF Next, CallStep

(* A caller c that swaps alone keeps Serial when it moves on its own: the   *)
(* witnesses of the other callers stay.                                     *)
LEMMA SerialStep == IInv /\ LockHeld /\ Phases /\ (~raced => Serial) /\ [Next]_vars
                    => (~raced' => Serial')
<1> SUFFICES ASSUME IInv, LockHeld, Phases, ~raced => Serial, [Next]_vars, ~raced'
             PROVE  Serial'
  OBVIOUS
<1> USE ConfigAssumption DEF IInv, TypeOK, Serial, Swapping, InHand, Goto, loopVars, local
<1>0. Serial
  <2>1. raced => raced'
    BY ZenonT(40) DEF Next, vars, FileChanges, LoadBegin, OnDefault, Begin, CallStep, LoadRead, LoadFails,
           LoadPublish, StartWatcher, StartsNoWatcher, SwapRead, SwapStore, StopDetach,
           StopNothing, StopCancel, StopWait, Reload, Set, LoopStep, WatchEvent, WatchTimer,
           WatchCallbacksEnd, WatchEnds
  <2> QED BY <2>1
<1>1. CASE UNCHANGED <<default, watcher, pc, call, mgr, old>>
  BY <1>0, <1>1
<1>2. ASSUME NEW c \in Callers, LoadBegin(c) PROVE Serial'
  <2>1. PICK name \in {"Load", "LoadWithWatch", "SetDefaultManager"} :
           /\ Begin(c, name)
           /\ name # "SetDefaultManager" => pkgLoadMu = None
    BY <1>2 DEF LoadBegin, LoadLockFree
  <2>2. /\ pc[c] = "idle" /\ pc' = [pc EXCEPT ![c] = "read"]
        /\ call' = [call EXCEPT ![c] = name]
        /\ UNCHANGED <<default, watcher, old>>
        /\ \A d \in Callers \ {c} : mgr'[d] = mgr[d]
    BY <1>2, <2>1 DEF LoadBegin, Begin
  <2>3. \A d \in Callers \ {c} : ~Swapping(d)
    <3> SUFFICES ASSUME NEW d \in Callers \ {c}, Swapping(d) PROVE FALSE
      OBVIOUS
    <3>1. ({name, call[d]} \cap Unserialised) = {}
      BY <2>1 DEF Begin
    <3>2. name \notin Unserialised /\ call[d] \notin Unserialised
      BY <3>1
    <3>3. pkgLoadMu = d /\ pkgLoadMu = None
      BY <2>1, <3>2 DEF LockHeld, Loading, Unserialised
    <3> QED BY <3>3
  <2>4. \A d \in Callers \ {c} : ~Swapping(d)'
    BY <2>2, <2>3
  <2>5. \A m \in Managers \ {default} : watcher[m] = 0
    BY <1>0, <2>2, <2>3
  <2>6. \A d, e \in Callers : Swapping(d)' /\ Swapping(e)' => d = e
    BY <2>4
  <2>7. \A d \in Callers : pc'[d] = "store" => old'[d] = default'
    BY <1>0, <2>2
  <2>8. \A d \in Callers : pc'[d] = "watch" /\ call'[d] = "StartWatcher" => mgr'[d] = default'
    BY <1>0, <2>2
  <2> QED BY <2>2, <2>5, <2>6, <2>7, <2>8
<1>3. ASSUME NEW c \in Callers, OnDefault(c) PROVE Serial'
  <2>0. PICK name \in {"StartWatcher", "StopWatcher", "Reload", "Set"} :
           /\ Begin(c, name)
           /\ Goto(c, CASE name = "StartWatcher" -> "watch" [] name = "StopWatcher" -> "detach"
                        [] name = "Reload" -> "reload" [] name = "Set" -> "set")
           /\ IF name = "StopWatcher"
              THEN old' = [old EXCEPT ![c] = default] /\ UNCHANGED mgr
              ELSE mgr' = [mgr EXCEPT ![c] = default] /\ UNCHANGED old
    BY <1>3 DEF OnDefault
  <2>1. /\ Begin(c, name)
        /\ pc' = [pc EXCEPT ![c] = CASE name = "StartWatcher" -> "watch"
                                     [] name = "StopWatcher" -> "detach"
                                     [] name = "Reload" -> "reload" [] name = "Set" -> "set"]
        /\ name = "StartWatcher" => mgr' = [mgr EXCEPT ![c] = default]
    BY <2>0
  <2>2. /\ pc[c] = "idle" /\ call' = [call EXCEPT ![c] = name]
        /\ UNCHANGED <<default, watcher>>
        /\ \A d \in Callers \ {c} : mgr'[d] = mgr[d] /\ old'[d] = old[d]
    BY <1>3, <2>1 DEF OnDefault, Begin
  <2>3. CASE name = "StartWatcher"
    <3>1. {name, call[c]} \cap Unserialised # {}
      BY <2>3 DEF Unserialised
    <3>2. \A d \in Callers \ {c} : pc[d] = "idle"
      BY <2>1, <2>3 DEF Begin, Unserialised
    <3>3. \A d \in Callers \ {c} : pc'[d] = "idle"
      BY <2>1, <3>2
    <3>4. \A m \in Managers \ {default} : watcher[m] = 0
      BY <1>0, <2>2, <3>2
    <3>5. pc'[c] = "watch" /\ mgr'[c] = default
      BY <2>1, <2>3
    <3> QED BY <2>2, <3>3, <3>4, <3>5
  <2>4. CASE name # "StartWatcher"
    <3>1. call'[c] = name /\ name \notin {"Load", "LoadWithWatch"} \cup Unserialised
      BY <2>1, <2>2, <2>4 DEF Unserialised
    <3>2. \A d \in Callers : /\ Swapping(d)' <=> Swapping(d) /\ d # c
                             /\ d # c => pc'[d] = pc[d] /\ call'[d] = call[d]
      BY <2>1, <2>2, <3>1
    <3>3. pc'[c] \in {"detach", "reload", "set"}
      BY <2>1, <2>4
    <3>4. \A m \in Managers \ {default} : watcher[m] # 0
             => \E d \in Callers : Swapping(d)' /\ InHand(d, m)'
      BY <1>0, <2>2, <3>2
    <3> QED BY <1>0, <2>2, <3>2, <3>3, <3>4
  <2> QED BY <2>3, <2>4
<1>4. ASSUME NEW c \in Callers, Return(c), UNCHANGED <<default, watcher>>,
             \A m \in Managers \ {default} : watcher[m] # 0 => ~InHand(c, m)
      PROVE  Serial'
  <2>1. /\ pc' = [pc EXCEPT ![c] = "idle"] /\ call' = [call EXCEPT ![c] = "Load"]
        /\ \A d \in Callers \ {c} : mgr'[d] = mgr[d] /\ old'[d] = old[d]
    BY <1>4 DEF Return
  <2>2. \A d \in Callers : /\ Swapping(d)' <=> Swapping(d) /\ d # c
                           /\ d # c => pc'[d] = pc[d] /\ call'[d] = call[d]
    BY <2>1
  <2>3. \A m \in Managers \ {default} : watcher[m] # 0
           => \E d \in Callers : Swapping(d)' /\ InHand(d, m)'
    BY <1>0, <1>4, <2>1, <2>2
  <2> QED BY <1>0, <1>4, <2>1, <2>2, <2>3
<1>5. ASSUME NEW c \in Callers, LoadFails(c) \/ StartsNoWatcher(c) \/ StopNothing(c)
             \/ StopWait(c) \/ Reload(c) \/ Set(c)
      PROVE  Serial'
  <2>1. Return(c) /\ UNCHANGED <<default, watcher>>
    BY <1>5 DEF LoadFails, StartsNoWatcher, StopNothing, StopWait, Reload, Set
  <2>2. \A m \in Managers : watcher[m] # 0 => ~InHand(c, m)
    BY <1>5 DEF LoadFails, StartsNoWatcher, StopNothing, StopWait, Reload, Set
  <2> QED BY <1>4, <2>1, <2>2
<1>6. ASSUME NEW c \in Callers, LoadRead(c) \/ LoadPublish(c) \/ StopCancel(c) PROVE Serial'
  <2>1. /\ \A m : ~InHand(c, m)
        /\ pc[c] # "idle" /\ pc'[c] \in {"publish", "watch", "swap", "wait"}
        /\ pc'[c] = "watch" => call[c] = "LoadWithWatch"
        /\ \A d \in Callers \ {c} : pc'[d] = pc[d]
        /\ UNCHANGED <<default, watcher, call, mgr, old>>
    BY <1>6 DEF LoadRead, LoadPublish, StopCancel
  <2>2. \A d \in Callers : Swapping(d)' <=> Swapping(d)
    BY <2>1
  <2>3. \A m \in Managers \ {default} : watcher[m] # 0
           => \E d \in Callers : Swapping(d)' /\ InHand(d, m)'
    BY <1>0, <2>1, <2>2
  <2> QED BY <1>0, <2>1, <2>2, <2>3
<1>7. ASSUME NEW c \in Callers, StartWatcher(c) PROVE Serial'
  <2>1. PICK k \in Loops : watcher' = [watcher EXCEPT ![mgr[c]] = k]
    BY <1>7 DEF StartWatcher
  <2>2. pc[c] = "watch" /\ Swapping(c) /\ default' = default
    BY <1>7 DEF StartWatcher, Phases, Unserialised
  <2>3. \A m \in Managers \ {default, mgr[c]} : watcher[m] = 0
    BY <1>0, <2>2
  <2>4. CASE call[c] = "LoadWithWatch"
    <3>1. pc' = [pc EXCEPT ![c] = "swap"] /\ UNCHANGED <<call, mgr, old>>
      BY <1>7, <2>4 DEF StartWatcher, AfterWatch, Continue
    <3>2. Swapping(c)' /\ InHand(c, mgr[c])'
      BY <2>4, <3>1
    <3>3. \A d \in Callers : Swapping(d)' => Swapping(d)
      BY <2>2, <3>1
    <3>4. \A m \in Managers \ {default} : watcher'[m] # 0 => m = mgr[c]
      BY <2>1, <2>3
    <3> QED BY <1>0, <2>2, <3>1, <3>2, <3>3, <3>4
  <2>5. CASE call[c] = "StartWatcher"
    <3>1. Return(c) /\ mgr[c] = default
      BY <1>0, <1>7, <2>2, <2>5 DEF StartWatcher, AfterWatch
    <3>2. \A m \in Managers \ {default} : watcher'[m] = 0
      BY <2>1, <2>3, <3>1
    <3>3. /\ pc' = [pc EXCEPT ![c] = "idle"] /\ call' = [call EXCEPT ![c] = "Load"]
          /\ \A d \in Callers \ {c} : mgr'[d] = mgr[d] /\ old'[d] = old[d]
      BY <3>1 DEF Return
    <3>4. \A d \in Callers : Swapping(d)' => Swapping(d)
      BY <3>3
    <3> QED BY <1>0, <2>2, <3>2, <3>3, <3>4
  <2> QED BY <2>2, <2>4, <2>5 DEF Phases
<1>8. ASSUME NEW c \in Callers, SwapRead(c) PROVE Serial'
  <2>1. /\ pc[c] = "swap" /\ pc' = [pc EXCEPT ![c] = "store"]
        /\ old' = [old EXCEPT ![c] = default]
        /\ UNCHANGED <<default, watcher, call, mgr>>
    BY <1>8 DEF SwapRead
  <2>2. \A d \in Callers : Swapping(d)' <=> Swapping(d)
    BY <2>1
  <2>3. \A m \in Managers, d \in Callers : InHand(d, m) => InHand(d, m)'
    BY <2>1
  <2> QED BY <1>0, <2>1, <2>2, <2>3
<1>9. ASSUME NEW c \in Callers, SwapStore(c) PROVE Serial'
  <2>1. /\ pc[c] = "store" /\ pc' = [pc EXCEPT ![c] = "detach"]
        /\ default' = mgr[c] /\ mgr' = [mgr EXCEPT ![c] = Blank]
        /\ UNCHANGED <<watcher, call, old>>
    BY <1>9 DEF SwapStore
  <2>2. Swapping(c) /\ Swapping(c)'
    BY <2>1 DEF Phases, Unserialised
  <2>3. \A d \in Callers : Swapping(d)' <=> Swapping(d)
    BY <2>1
  <2>4. \A d \in Callers \ {c} : pc[d] # "store" /\ ~(pc[d] = "watch" /\ call[d] = "StartWatcher")
    BY <1>0, <2>2 DEF Phases, Unserialised
  <2>5. old'[c] = default /\ pc'[c] = "detach"
    BY <1>0, <2>1
  <2>6. \A m \in Managers \ {default'} : watcher'[m] # 0 => m = default
    BY <1>0, <2>1, <2>2
  <2>7. \A m \in Managers \ {default'} : watcher'[m] # 0 => InHand(c, m)'
    BY <2>5, <2>6
  <2> QED BY <1>0, <2>1, <2>2, <2>3, <2>4, <2>6, <2>7
<1>10. ASSUME NEW c \in Callers, StopDetach(c) PROVE Serial'
  <2>1. /\ pc[c] = "detach" /\ pc' = [pc EXCEPT ![c] = "cancel"]
        /\ watcher' = [watcher EXCEPT ![old[c]] = 0] /\ old' = [old EXCEPT ![c] = Blank]
        /\ UNCHANGED <<default, call, mgr>>
    BY <1>10 DEF StopDetach
  <2>2. \A d \in Callers : Swapping(d)' <=> Swapping(d)
    BY <2>1
  <2>3. \A m \in Managers \ {default} : watcher'[m] # 0 => watcher[m] # 0 /\ ~InHand(c, m)
    BY <2>1
  <2>4. \A m \in Managers, d \in Callers \ {c} : InHand(d, m) => InHand(d, m)'
    BY <2>1
  <2>5. \A m \in Managers \ {default} : watcher'[m] # 0
           => \E d \in Callers : Swapping(d)' /\ InHand(d, m)'
    BY <1>0, <2>2, <2>3, <2>4
  <2> QED BY <1>0, <2>1, <2>2, <2>5
<1>11. ASSUME FileChanges \/ UNCHANGED vars \/ \E l \in Loops : LoopStep(l)
       PROVE  UNCHANGED <<default, watcher, pc, call, mgr, old>>
  BY <1>11 DEF FileChanges, vars, LoopStep, WatchEvent, WatchTimer, WatchCallbacksEnd, WatchEnds
<1> QED BY <1>1, <1>2, <1>3, <1>5, <1>6, <1>7, <1>8, <1>9, <1>10, <1>11 DEF Next, CallStep

(* Unless a call that pkgLoadMu does not serialise raced another: whenever  *)
(* no call is in progress, only the default manager is watched.             *)
THEOREM OrphansAreNone == Spec => []NoOrphanWatcher
<1>1. Init => SwapInv
  BY ConfigAssumption DEF Init, SwapInv, LockHeld, Loading, Phases, Serial, Swapping, InHand
<1>2. IInv /\ SwapInv /\ [Next]_vars => SwapInv'
  BY LockStep, SerialStep DEF SwapInv
<1>3. IInv /\ SwapInv => NoOrphanWatcher
  BY DEF SwapInv, Serial, Swapping, NoOrphanWatcher
<1> QED BY <1>1, <1>2, <1>3, Invariance, PTL DEF Spec
=============================================================================
