--------------------------- MODULE ConfigManager ---------------------------
(***************************************************************************)
(* The configuration managers of config/config.go and the default manager  *)
(* behind the package's functions: loading, replacing and resetting the    *)
(* configuration, and the watch loop that reloads the file when it changes.*)
(*                                                                         *)
(* A manager keeps two views of one configuration: m.cfg, which Get copies,*)
(* and the viper instance m.v, which GetString and its kin read.  Of a     *)
(* file only its age and whether it is accepted matter.  Every section     *)
(* under m.mu, every read or store of the default pointer and every turn   *)
(* of the watch loop is one step.  Callbacks run outside m.mu; they return *)
(* and do not call StopWatcher, which would wait for itself.               *)
(***************************************************************************)
EXTENDS Naturals, FiniteSets

CONSTANTS
    Callers,     \* goroutines that call the package
    Fresh,       \* the managers NewManager may still create
    Blank,       \* the manager of init(): it has no path
    MaxLoops,    \* watch loops that may be started (bound)
    MaxChanges,  \* changes of the file (bound)
    MaxCalls,    \* calls (bound)
    None,        \* a nil configuration
    Manual       \* the configuration passed to Set

Managers == Fresh \cup {Blank}
Loops    == 1 .. MaxLoops
Kinds    == {"good", "rejected", "unreadable"}
Contents == [n : 0 .. MaxChanges, kind : Kinds]
Good     == [n : 0 .. MaxChanges, kind : {"good"}]
Calls    == {"Load", "LoadWithWatch", "SetDefaultManager", "StartWatcher", "StopWatcher",
             "Reload", "Set"}

ASSUME ConfigAssumption ==
    /\ IsFiniteSet(Managers) /\ Blank \notin Fresh
    /\ {MaxLoops, MaxChanges, MaxCalls} \subseteq Nat
    /\ None \notin Contents /\ Manual \notin Contents /\ None # Manual
    /\ None \notin Callers

VARIABLES
    file,      \* the configuration file
    default,   \* defaultManager
    used,      \* the managers that exist
    cfg, v,    \* m.cfg and m.v of each manager
    watcher,   \* m.watcher: the loop it belongs to, or 0
    loop,      \* where each watch loop is
    owner,     \* the manager of each loop
    open,      \* its context is not cancelled and its fsnotify watcher not closed
    event,     \* a change waits in w.Events
    armed,     \* the debounce timer runs
    pkgLoadMu, \* who holds it
    pc, call,  \* where each caller is, and in which call
    mgr, old,  \* the manager it works on, and the one it replaces
    got,       \* the configuration Load has read
    stop,      \* the loop StopWatcher waits for
    calls,     \* how many calls were made
    raced      \* a call outside pkgLoadMu overlapped another that swaps or watches

views   == <<cfg, v>>
loopVars == <<loop, owner, open, event, armed>>
local   == <<call, mgr, old, got, stop>>
vars == <<file, default, used, views, watcher, loopVars, pkgLoadMu, pc, local, calls, raced>>

Running == {"run", "callback"}

Init ==
    /\ file = [n |-> 0, kind |-> "good"]
    /\ default = Blank /\ used = {Blank}
    /\ cfg = [m \in Managers |-> None] /\ v = [m \in Managers |-> None]
    /\ watcher = [m \in Managers |-> 0]
    /\ loop = [l \in Loops |-> "none"] /\ owner = [l \in Loops |-> Blank]
    /\ open = [l \in Loops |-> FALSE] /\ event = [l \in Loops |-> FALSE]
    /\ armed = [l \in Loops |-> FALSE]
    /\ pkgLoadMu = None
    /\ pc = [c \in Callers |-> "idle"] /\ call = [c \in Callers |-> "Load"]
    /\ mgr = [c \in Callers |-> Blank] /\ old = [c \in Callers |-> Blank]
    /\ got = [c \in Callers |-> None] /\ stop = [c \in Callers |-> 0]
    /\ calls = 0 /\ raced = FALSE

Goto(c, where) == pc' = [pc EXCEPT ![c] = where]

(* Load and LoadWithWatch hold pkgLoadMu to their end.  The variables of a *)
(* call that is over take their first values again.                        *)
Return(c) ==
    /\ Goto(c, "idle")
    /\ pkgLoadMu' = IF pkgLoadMu = c THEN None ELSE pkgLoadMu
    /\ call' = [call EXCEPT ![c] = "Load"]
    /\ mgr' = [mgr EXCEPT ![c] = Blank] /\ old' = [old EXCEPT ![c] = Blank]
    /\ got' = [got EXCEPT ![c] = None] /\ stop' = [stop EXCEPT ![c] = 0]

Continue(c, where) == Goto(c, where) /\ UNCHANGED <<pkgLoadMu, local>>

-----------------------------------------------------------------------------
(* The file, and fsnotify, which watches its directory. *)

FileChanges ==
    /\ file.n < MaxChanges
    /\ \E kind \in Kinds : file' = [n |-> file.n + 1, kind |-> kind]
    /\ event' = [l \in Loops |-> event[l] \/ (loop[l] \in Running /\ open[l])]
    /\ UNCHANGED <<default, used, views, watcher, loop, owner, open, armed, pkgLoadMu, pc,
                   local, calls, raced>>

-----------------------------------------------------------------------------
(* The calls *)

Unserialised == {"SetDefaultManager", "StartWatcher"}
LoadLockIgnored == TRUE          \* mutant: Load is not serialised
LoadLockFree == pkgLoadMu = None

Begin(c, name) ==
    /\ pc[c] = "idle" /\ calls < MaxCalls
    /\ calls' = calls + 1
    /\ call' = [call EXCEPT ![c] = name]
    /\ raced' = (raced \/ \E d \in Callers \ {c} :
                    pc[d] # "idle" /\ {name, call[d]} \cap Unserialised # {})

NewManager == CHOOSE m \in Managers : m \notin used

(* Load, LoadWithWatch, and an App that loads its own manager and makes it *)
(* the default (resolveConfig).                                            *)
LoadBegin(c) ==
    /\ used # Managers
    /\ \E name \in {"Load", "LoadWithWatch", "SetDefaultManager"} :
          /\ Begin(c, name)
          /\ mgr' = [mgr EXCEPT ![c] = NewManager] /\ used' = used \cup {NewManager}
          /\ IF name = "SetDefaultManager"
             THEN UNCHANGED pkgLoadMu
             ELSE LoadLockFree /\ pkgLoadMu' = c
    /\ Goto(c, "read")
    /\ UNCHANGED <<file, default, views, watcher, loopVars, old, got, stop>>

(* Manager.Load reads, decodes and validates before it locks.              *)
LoadRead(c) ==
    /\ pc[c] = "read" /\ file.kind = "good"
    /\ got' = [got EXCEPT ![c] = file]
    /\ Goto(c, "publish")
    /\ UNCHANGED <<file, default, used, views, watcher, loopVars, pkgLoadMu, call, mgr, old,
                   stop, calls, raced>>

LoadFails(c) ==
    /\ pc[c] = "read" /\ file.kind # "good"
    /\ Return(c)
    /\ UNCHANGED <<file, default, used, views, watcher, loopVars, calls, raced>>

LoadPublish(c) ==
    /\ pc[c] = "publish"
    /\ v' = [v EXCEPT ![mgr[c]] = got[c]] /\ cfg' = [cfg EXCEPT ![mgr[c]] = got[c]]
    /\ got' = [got EXCEPT ![c] = None]
    /\ Goto(c, IF call[c] = "LoadWithWatch" THEN "watch" ELSE "swap")
    /\ UNCHANGED <<file, default, used, watcher, loopVars, pkgLoadMu, call, mgr, old, stop, calls,
                   raced>>

(* A function of the package acts on the manager that is the default now.  *)
OnDefault(c) ==
    /\ \E name \in {"StartWatcher", "StopWatcher", "Reload", "Set"} :
          /\ Begin(c, name)
          /\ Goto(c, CASE name = "StartWatcher" -> "watch" [] name = "StopWatcher" -> "detach"
                       [] name = "Reload" -> "reload" [] name = "Set" -> "set")
          /\ IF name = "StopWatcher"
             THEN old' = [old EXCEPT ![c] = default] /\ UNCHANGED mgr
             ELSE mgr' = [mgr EXCEPT ![c] = default] /\ UNCHANGED old
    /\ UNCHANGED <<file, default, used, views, watcher, loopVars, pkgLoadMu, got, stop>>

MayWatch(m) == watcher[m] = 0 /\ v[m] # None /\ m # Blank
AfterWatch(c) == IF call[c] = "LoadWithWatch" THEN Continue(c, "swap") ELSE Return(c)

StartWatcher(c) ==
    /\ pc[c] = "watch" /\ MayWatch(mgr[c])
    /\ \E l \in Loops :
          /\ loop[l] = "none" /\ \A k \in 1 .. l - 1 : loop[k] # "none"
          /\ loop' = [loop EXCEPT ![l] = "run"] /\ owner' = [owner EXCEPT ![l] = mgr[c]]
          /\ open' = [open EXCEPT ![l] = TRUE]
          /\ watcher' = [watcher EXCEPT ![mgr[c]] = l]
    /\ AfterWatch(c)
    /\ UNCHANGED <<file, default, used, views, event, armed, calls, raced>>

(* It is watched already, there is nothing to watch, or fsnotify fails.    *)
StartsNoWatcher(c) ==
    /\ pc[c] = "watch"
    /\ Return(c)
    /\ UNCHANGED <<file, default, used, views, watcher, loopVars, calls, raced>>

SwapRead(c) ==
    /\ pc[c] = "swap"
    /\ old' = [old EXCEPT ![c] = default]
    /\ Goto(c, "store")
    /\ UNCHANGED <<file, default, used, views, watcher, loopVars, pkgLoadMu, call, mgr, got,
                   stop, calls, raced>>

SwapStore(c) ==
    /\ pc[c] = "store"
    /\ default' = mgr[c] /\ mgr' = [mgr EXCEPT ![c] = Blank]
    /\ Goto(c, "detach")
    /\ UNCHANGED <<file, used, views, watcher, loopVars, pkgLoadMu, call, old, got, stop, calls,
                   raced>>

-----------------------------------------------------------------------------
(* StopWatcher *)

StopDetach(c) ==
    /\ pc[c] = "detach" /\ watcher[old[c]] # 0
    /\ stop' = [stop EXCEPT ![c] = watcher[old[c]]]
    /\ watcher' = [watcher EXCEPT ![old[c]] = 0] /\ old' = [old EXCEPT ![c] = Blank]
    /\ Goto(c, "cancel")
    /\ UNCHANGED <<file, default, used, views, loopVars, pkgLoadMu, call, mgr, got, calls, raced>>

(* Not watched, or the watcher was taken by another StopWatcher, which     *)
(* waits while this one returns.                                           *)
StopNothing(c) ==
    /\ pc[c] = "detach" /\ watcher[old[c]] = 0
    /\ Return(c)
    /\ UNCHANGED <<file, default, used, views, watcher, loopVars, calls, raced>>

(* cancel() and w.Close(): either of them ends the loop.                   *)
StopCancel(c) ==
    /\ pc[c] = "cancel"
    /\ open' = [open EXCEPT ![stop[c]] = FALSE]
    /\ Goto(c, "wait")
    /\ UNCHANGED <<file, default, used, views, watcher, loop, owner, event, armed, pkgLoadMu,
                   local, calls, raced>>

WatchDoneUnasked(c) == TRUE      \* mutant: StopWatcher does not wait for the loop
WatchDone(c) == loop[stop[c]] = "ended"

StopWait(c) ==
    /\ pc[c] = "wait" /\ WatchDone(c)
    /\ Return(c)
    /\ UNCHANGED <<file, default, used, views, watcher, loopVars, calls, raced>>

-----------------------------------------------------------------------------
(* reload and Set *)

Rereads(m) == v[m] # None /\ m # Blank /\ file.kind # "unreadable"
AcceptsAll(m) == Rereads(m)      \* mutant: a reload does not validate
Accepts(m) == Rereads(m) /\ file.kind = "good"

(* ReadInConfig fills m.v itself; m.cfg is replaced once it was validated. *)
reload(m) ==
    /\ v' = IF Rereads(m) THEN [v EXCEPT ![m] = file] ELSE v
    /\ cfg' = IF Accepts(m) THEN [cfg EXCEPT ![m] = file] ELSE cfg

(* Its callbacks follow outside the lock and change nothing here.          *)
Reload(c) ==
    /\ pc[c] = "reload"
    /\ reload(mgr[c])
    /\ Return(c)
    /\ UNCHANGED <<file, default, used, watcher, loopVars, calls, raced>>

Set(c) ==
    /\ pc[c] = "set"
    /\ \E new \in {Manual, None} :
          cfg' = [cfg EXCEPT ![mgr[c]] = new] /\ v' = [v EXCEPT ![mgr[c]] = new]
    /\ Return(c)
    /\ UNCHANGED <<file, default, used, watcher, loopVars, calls, raced>>

-----------------------------------------------------------------------------
(* watchLoop *)

RearmedIfIdle(l) == ~armed[l]    \* mutant: the timer is stopped and not reset
Rearmed(l) == TRUE

WatchEvent(l) ==
    /\ loop[l] = "run" /\ event[l]
    /\ event' = [event EXCEPT ![l] = FALSE]
    /\ armed' = [armed EXCEPT ![l] = Rearmed(l)]
    /\ UNCHANGED <<file, default, used, views, watcher, loop, owner, open, pkgLoadMu, pc, local,
                   calls, raced>>

WatchTimer(l) ==
    /\ loop[l] = "run" /\ armed[l]
    /\ armed' = [armed EXCEPT ![l] = FALSE]
    /\ reload(owner[l])
    /\ loop' = [loop EXCEPT ![l] = IF Accepts(owner[l]) THEN "callback" ELSE "run"]
    /\ UNCHANGED <<file, default, used, watcher, owner, open, event, pkgLoadMu, pc, local, calls,
                   raced>>

WatchCallbacksEnd(l) ==
    /\ loop[l] = "callback"
    /\ loop' = [loop EXCEPT ![l] = "run"]
    /\ UNCHANGED <<file, default, used, views, watcher, owner, open, event, armed, pkgLoadMu, pc,
                   local, calls, raced>>

WatchEnds(l) ==
    /\ loop[l] = "run" /\ ~open[l]
    /\ loop' = [loop EXCEPT ![l] = "ended"]
    /\ event' = [event EXCEPT ![l] = FALSE] /\ armed' = [armed EXCEPT ![l] = FALSE]
    /\ UNCHANGED <<file, default, used, views, watcher, owner, open, pkgLoadMu, pc, local, calls,
                   raced>>

-----------------------------------------------------------------------------
CallStep(c) ==
    \/ LoadRead(c) \/ LoadFails(c) \/ LoadPublish(c) \/ StartWatcher(c) \/ StartsNoWatcher(c)
    \/ SwapRead(c) \/ SwapStore(c) \/ StopDetach(c) \/ StopNothing(c) \/ StopCancel(c)
    \/ StopWait(c) \/ Reload(c) \/ Set(c)

LoopStep(l) == WatchEvent(l) \/ WatchTimer(l) \/ WatchCallbacksEnd(l) \/ WatchEnds(l)

Next ==
    \/ FileChanges
    \/ \E c \in Callers : LoadBegin(c) \/ OnDefault(c) \/ CallStep(c)
    \/ \E l \in Loops : LoopStep(l)

Spec == Init /\ [][Next]_vars

(* The callers' goroutines and the loops are scheduled, and the timer      *)
(* fires; of two ready cases of the select neither is passed over for ever.*)
FairSpec ==
    /\ Spec
    /\ \A c \in Callers : WF_vars(CallStep(c))
    /\ \A l \in Loops : WF_vars(WatchEvent(l)) /\ WF_vars(WatchTimer(l))
                        /\ WF_vars(WatchCallbacksEnd(l)) /\ WF_vars(WatchEnds(l))

-----------------------------------------------------------------------------
(* Get never returns a file that was not accepted: cfg is Good.            *)
TypeOK ==
    /\ file \in Contents /\ default \in used /\ used \subseteq Managers
    /\ cfg \in [Managers -> Good \cup {None, Manual}]
    /\ v \in [Managers -> Contents \cup {None, Manual}]
    /\ watcher \in [Managers -> Loops \cup {0}]
    /\ loop \in [Loops -> Running \cup {"none", "ended"}] /\ owner \in [Loops -> Managers]
    /\ open \in [Loops -> BOOLEAN] /\ event \in [Loops -> BOOLEAN]
    /\ armed \in [Loops -> BOOLEAN]
    /\ pkgLoadMu \in Callers \cup {None}
    /\ pc \in [Callers -> {"idle", "read", "publish", "watch", "swap", "store", "detach",
                           "cancel", "wait", "reload", "set"}]
    /\ call \in [Callers -> Calls]
    /\ mgr \in [Callers -> Managers] /\ old \in [Callers -> Managers]
    /\ got \in [Callers -> Good \cup {None}] /\ stop \in [Callers -> Loops \cup {0}]
    /\ calls \in 0 .. MaxCalls /\ raced \in BOOLEAN

(* A watch loop that runs, or is in a callback, is the one its manager     *)
(* would stop, or somebody is stopping it and has not returned.            *)
NoForgottenLoop ==
    \A l \in Loops : loop[l] \in Running =>
        \/ watcher[owner[l]] = l
        \/ \E c \in Callers : pc[c] \in {"cancel", "wait"} /\ stop[c] = l

(* Between calls only the default manager is watched: replacing it leaves  *)
(* no loop behind, unless a call that pkgLoadMu does not serialise raced.  *)
NoOrphanWatcher ==
    (\A c \in Callers : pc[c] = "idle") /\ ~raced =>
        \A m \in Managers \ {default} : watcher[m] = 0

(* A change to a file that is accepted and watched reaches Get, unless the *)
(* watcher is stopped, Set(nil) took the configuration away, or the file   *)
(* changes to one that is refused.                                         *)
ChangeIsServed ==
    \A l \in Loops :
        (loop[l] \in Running /\ (event[l] \/ armed[l]))
          ~> (~open[l] \/ cfg[owner[l]] = file \/ v[owner[l]] = None \/ file.kind # "good")

(* What the comment of Set asks for: Get and GetString read one            *)
(* configuration.  A reload whose file is rejected breaks it.              *)
ViewsAgree == \A m \in Managers : cfg[m] = v[m]
=============================================================================
