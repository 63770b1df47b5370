--------------------------- MODULE AppLifecycle ----------------------------
(***************************************************************************)
(* The life of one App (app.go): Init and its rollback, Run/StartServer,   *)
(* Shutdown, and the goroutines App.Go starts.                             *)
(*                                                                         *)
(* initMu serialises the long sections of Init and Shutdown; lifecycleMu   *)
(* guards state, and Go holds it for reading from its check to its wg.Add. *)
(* A write of state is one step that needs lifecycleMu free.  Parts are    *)
(* the components doInit opens and Shutdown closes; cron is apart because  *)
(* its tasks must have stopped first.  The http.Server of the Go library   *)
(* is modelled by what Serve, Shutdown and Close promise.                  *)
(***************************************************************************)
EXTENDS Integers, FiniteSets

CONSTANTS
    Main,       \* the goroutine that calls Run
    Callers,    \* goroutines that call Init, Shutdown and Go
    Probe,      \* the goroutine doInit starts with a.Go
    Workers,    \* goroutines callers start with Go
    Requests,   \* HTTP requests
    Parts,      \* the enabled components
    NumHooks,   \* how many OnStop hooks are registered
    NoProc      \* initMu is free

(* The order in which doInit opens the components, and the one in which    *)
(* both Shutdown and the rollback close them.                              *)
OpenRank  == [trace |-> 1, logger |-> 2, db |-> 3, redis |-> 4, storage |-> 5]
CloseRank == [trace |-> 1, db |-> 2, redis |-> 3, storage |-> 4, logger |-> 5]

ASSUME AppAssumption ==
    /\ Parts \subseteq DOMAIN OpenRank
    /\ NumHooks \in Nat
    /\ Main \notin Callers /\ NoProc \notin Callers \cup {Main}
    /\ Probe \notin Workers
    /\ IsFiniteSet(Workers)

Procs   == Callers \cup {Main}
Spawned == Workers \cup {Probe}
Hooks   == 1 .. NumHooks

VARIABLES
    state,      \* a.state
    initMu,     \* who holds a.initMu
    readers,    \* how many hold a.lifecycleMu for reading
    once,       \* a.shutdownOnce
    pc,         \* where each process is
    part,       \* each component: "none", "open" or "closed"
    own,        \* the components whose global default is this App's
    cron,       \* the App's scheduler: "off" or "on" (with its tasks)
    hook,       \* the OnStop hooks
    cancelled,  \* rootCtx is cancelled
    worker,     \* the goroutines App.Go started
    srv,        \* a.server and its listener
    srvDown,    \* http.Server.Shutdown was called
    active,     \* HTTP requests being handled
    expired,    \* the deadline of doShutdown has passed
    overdue     \* a wait was given up: wg, cron or HTTP outlived its timeout

lockVars == <<initMu, readers, once>>
partVars == <<part, own, cron>>
httpVars == <<srv, srvDown, active>>
vars == <<state, initMu, readers, once, pc, part, own, cron, hook, cancelled,
          worker, srv, srvDown, active, expired, overdue>>

Init ==
    /\ state = "created"
    /\ initMu = NoProc /\ readers = 0 /\ once = "new"
    /\ pc = [p \in Procs |-> "idle"]
    /\ part = [r \in Parts |-> "none"] /\ own = {} /\ cron = "off"
    /\ hook = [h \in Hooks |-> "none"]
    /\ cancelled = FALSE
    /\ worker = [w \in Spawned |-> "none"]
    /\ srv = "none" /\ srvDown = FALSE /\ active = {}
    /\ expired = FALSE /\ overdue = FALSE

Go(p, to) == pc' = [pc EXCEPT ![p] = to]

(* Where a call leaves its process: Run goes on to StartServer only when   *)
(* Init returned nil, and Main is over when Run returns.                   *)
Over(p) == IF p = Main THEN "over" ELSE "idle"
InitOk(p) == IF p = Main THEN "srvNew" ELSE "idle"

Closing == {"stopping", "stopped"}
Running == {w \in Spawned : worker[w] = "running"}

InitMuIgnored == readers = 0    \* mutant: initMu is not taken

(* Both mutexes can be taken: to enter a long section, or to find out that *)
(* there is none to enter.                                                 *)
LocksFree == initMu = NoProc /\ readers = 0

-----------------------------------------------------------------------------
(* Init *)

InitCall(p) ==
    /\ pc[p] = "idle"
    /\ Go(p, "init")
    /\ UNCHANGED <<state, lockVars, partVars, hook, cancelled, worker, httpVars,
                   expired, overdue>>

InitFirst(p) ==
    /\ pc[p] = "init" /\ LocksFree
    /\ state = "created"
    /\ state' = "initializing" /\ initMu' = p
    /\ Go(p, "open")
    /\ UNCHANGED <<readers, once, partVars, hook, cancelled, worker, httpVars,
                   expired, overdue>>

(* A later call returns the cached initErr, which is nil here; so does the *)
(* default branch for a state that is still "initializing".                *)
InitAgain(p) ==
    /\ pc[p] = "init" /\ LocksFree
    /\ state \in {"initialized", "initializing"}
    /\ Go(p, InitOk(p))
    /\ UNCHANGED <<state, lockVars, partVars, hook, cancelled, worker, httpVars,
                   expired, overdue>>

InitRefused(p) ==
    /\ pc[p] = "init" /\ LocksFree
    /\ state \in Closing
    /\ Go(p, Over(p))
    /\ UNCHANGED <<state, lockVars, partVars, hook, cancelled, worker, httpVars,
                   expired, overdue>>

(* doInit opens the next component and, trace apart, makes it the default. *)
OpenPart(p, r) ==
    /\ pc[p] = "open"
    /\ part[r] = "none"
    /\ \A q \in Parts : OpenRank[q] < OpenRank[r] => part[q] = "open"
    /\ part' = [part EXCEPT ![r] = "open"]
    /\ own' = own \cup ({r} \ {"trace"})
    /\ UNCHANGED <<state, lockVars, pc, cron, hook, cancelled, worker, httpVars,
                   expired, overdue>>

(* Migrations, middleware and routes, then a.Go(StartProbing) when a       *)
(* database is enabled.                                                    *)
InitProbe(p) ==
    /\ pc[p] = "open"
    /\ \A r \in Parts : part[r] = "open"
    /\ worker' = IF "db" \in Parts THEN [worker EXCEPT ![Probe] = "running"] ELSE worker
    /\ Go(p, "cron")
    /\ UNCHANGED <<state, lockVars, partVars, hook, cancelled, httpVars, expired,
                   overdue>>

(* Scheduler.Start and the swap of the default scheduler and registry. *)
InitCron(p) ==
    /\ pc[p] = "cron"
    /\ cron' = "on"
    /\ Go(p, "hooks")
    /\ UNCHANGED <<state, lockVars, part, own, hook, cancelled, worker, httpVars,
                   expired, overdue>>

InitSucceeds(p) ==
    /\ pc[p] = "hooks" /\ readers = 0
    /\ state' = "initialized" /\ initMu' = NoProc
    /\ Go(p, InitOk(p))
    /\ UNCHANGED <<readers, once, partVars, hook, cancelled, worker, httpVars,
                   expired, overdue>>

(* A component, a migration or an OnInit hook returns an error. *)
InitFails(p) ==
    /\ pc[p] \in {"open", "cron", "hooks"}
    /\ Go(p, "fail")
    /\ UNCHANGED <<state, lockVars, partVars, hook, cancelled, worker, httpVars,
                   expired, overdue>>

(* A migration, AddTask or an OnInit hook panics and the caller of Init    *)
(* recovers: initMu is released by its defer, state is left as it is.      *)
InitPanics(p) ==
    /\ pc[p] \in {"cron", "hooks"}
    /\ initMu' = NoProc
    /\ Go(p, Over(p))
    /\ UNCHANGED <<state, readers, once, partVars, hook, cancelled, worker,
                   httpVars, expired, overdue>>

-----------------------------------------------------------------------------
(* failAfterInit: no new goroutines, cancel, wait, stop cron, roll back. *)

FailMark(p) ==
    /\ pc[p] = "fail" /\ readers = 0
    /\ state' = "stopping"
    /\ cancelled' = TRUE
    /\ Go(p, "failWait")
    /\ UNCHANGED <<lockVars, partVars, hook, worker, httpVars, expired, overdue>>

(* mutant: the rollback does not wait for the goroutines *)
FailWaitSkipped(p) ==
    /\ pc[p] = "failWait"
    /\ Go(p, "failCron")
    /\ UNCHANGED <<state, lockVars, partVars, hook, cancelled, worker, httpVars,
                   expired, overdue>>

FailWaitDone(p) ==
    /\ pc[p] = "failWait"
    /\ Running = {}
    /\ Go(p, "failCron")
    /\ UNCHANGED <<state, lockVars, partVars, hook, cancelled, worker, httpVars,
                   expired, overdue>>

FailWaitTimeout(p) ==
    /\ pc[p] = "failWait"
    /\ Running # {}
    /\ overdue' = TRUE
    /\ Go(p, "failCron")
    /\ UNCHANGED <<state, lockVars, partVars, hook, cancelled, worker, httpVars,
                   expired>>

-----------------------------------------------------------------------------
(* Shutdown *)

ShutdownCall(p) ==
    /\ pc[p] = "idle" /\ p # Main
    /\ Go(p, "once")
    /\ UNCHANGED <<state, lockVars, partVars, hook, cancelled, worker, httpVars,
                   expired, overdue>>

OnceFirst(p) ==
    /\ pc[p] = "once" /\ once = "new"
    /\ once' = "running"
    /\ Go(p, "shut")
    /\ UNCHANGED <<state, initMu, readers, partVars, hook, cancelled, worker,
                   httpVars, expired, overdue>>

OnceNotNew == once # "new"   \* mutant: a second call does not wait for the first
OnceDone == once = "done"

(* Another caller of the once has finished: return its cached error. *)
OnceJoin(p) ==
    /\ pc[p] = "once" /\ OnceDone
    /\ Go(p, Over(p))
    /\ UNCHANGED <<state, lockVars, partVars, hook, cancelled, worker, httpVars,
                   expired, overdue>>

ShutTooLate(p) ==
    /\ pc[p] = "shut" /\ LocksFree
    /\ state \in Closing
    /\ once' = "done"
    /\ Go(p, Over(p))
    /\ UNCHANGED <<state, initMu, readers, partVars, hook, cancelled, worker,
                   httpVars, expired, overdue>>

ShutBegin(p) ==
    /\ pc[p] = "shut" /\ LocksFree
    /\ state \notin Closing
    /\ state' = "stopping" /\ initMu' = p
    /\ Go(p, IF state = "initialized" THEN "onStop" ELSE "cancel")
    /\ UNCHANGED <<readers, once, partVars, hook, cancelled, worker, httpVars,
                   expired, overdue>>

ShutPcs == {"onStop", "cancel", "drain", "shutWait", "shutCron", "shutClose"}

(* The one deadline of the whole doShutdown passes. *)
Expire ==
    /\ \E p \in Procs : pc[p] \in ShutPcs
    /\ ~expired /\ expired' = TRUE
    /\ UNCHANGED <<state, lockVars, pc, partVars, hook, cancelled, worker,
                   httpVars, overdue>>

(* Each OnStop hook runs in a goroutine of its own, one after the other. *)
HookStart(p, h) ==
    /\ pc[p] = "onStop"
    /\ hook[h] = "none" /\ \A g \in Hooks : g < h => hook[g] = "done"
    /\ hook' = [hook EXCEPT ![h] = "running"]
    /\ UNCHANGED <<state, lockVars, pc, partVars, cancelled, worker, httpVars,
                   expired, overdue>>

HookReturns(h) ==
    /\ hook[h] = "running"
    /\ hook' = [hook EXCEPT ![h] = "done"]
    /\ UNCHANGED <<state, lockVars, pc, partVars, cancelled, worker, httpVars,
                   expired, overdue>>

OnStopOverAtOnce == TRUE    \* mutant: hooks are started and not waited for

(* mutant: the hooks are not under the deadline *)
OnStopOverWhenReturned == \A h \in Hooks : hook[h] = "done"

(* All have returned, or the current one timed out or failed after the     *)
(* deadline, which ends the loop.                                          *)
OnStopOver ==
    \/ \A h \in Hooks : hook[h] = "done"
    \/ expired /\ \E h \in Hooks : hook[h] # "none"

OnStopEnd(p) ==
    /\ pc[p] = "onStop" /\ OnStopOver
    /\ Go(p, "cancel")
    /\ UNCHANGED <<state, lockVars, partVars, hook, cancelled, worker, httpVars,
                   expired, overdue>>

(* Cancel rootCtx and shut the server down, if there is one by now. *)
ShutCancel(p) ==
    /\ pc[p] = "cancel"
    /\ cancelled' = TRUE
    /\ srvDown' = (srv # "none")
    /\ srv' = IF srv = "serving" THEN "closed" ELSE srv
    /\ Go(p, IF srv = "none" THEN "shutWait" ELSE "drain")
    /\ UNCHANGED <<state, lockVars, partVars, hook, worker, active, expired, overdue>>

ShutDrainedAtOnce(p) == \* mutant: Close instead of Shutdown, handlers go on
    /\ pc[p] = "drain"
    /\ Go(p, "shutWait")
    /\ UNCHANGED <<state, lockVars, partVars, hook, cancelled, worker, httpVars,
                   expired, overdue>>

ShutDrained(p) ==
    /\ pc[p] = "drain" /\ active = {}
    /\ Go(p, "shutWait")
    /\ UNCHANGED <<state, lockVars, partVars, hook, cancelled, worker, httpVars,
                   expired, overdue>>

ShutDrainTimeout(p) ==
    /\ pc[p] = "drain" /\ expired /\ active # {}
    /\ overdue' = TRUE
    /\ Go(p, "shutWait")
    /\ UNCHANGED <<state, lockVars, partVars, hook, cancelled, worker, httpVars,
                   expired>>

ShutWaitDone(p) ==
    /\ pc[p] = "shutWait" /\ Running = {}
    /\ Go(p, "shutCron")
    /\ UNCHANGED <<state, lockVars, partVars, hook, cancelled, worker, httpVars,
                   expired, overdue>>

ShutWaitTimeout(p) ==
    /\ pc[p] = "shutWait" /\ expired /\ Running # {}
    /\ overdue' = TRUE
    /\ Go(p, "shutCron")
    /\ UNCHANGED <<state, lockVars, partVars, hook, cancelled, worker, httpVars,
                   expired>>

-----------------------------------------------------------------------------
(* What Shutdown and the rollback share: stop cron within a budget of its  *)
(* own (and the rate limiters), then close the components in order.        *)

ToClose(p) == IF pc[p] = "failCron" THEN "failClose" ELSE "shutClose"

CronStops(p) ==
    /\ pc[p] \in {"failCron", "shutCron"}
    /\ cron' = "off"
    /\ Go(p, ToClose(p))
    /\ UNCHANGED <<state, lockVars, part, own, hook, cancelled, worker, httpVars,
                   expired, overdue>>

CronStopTimeout(p) ==
    /\ pc[p] \in {"failCron", "shutCron"} /\ cron = "on"
    /\ overdue' = TRUE
    /\ Go(p, ToClose(p))
    /\ UNCHANGED <<state, lockVars, partVars, hook, cancelled, worker, httpVars,
                   expired>>

OwnKept(p, r) == own    \* mutant: the rollback leaves its own default in place

(* The rollback puts the previous default back before it closes. *)
OwnAfter(p, r) == IF pc[p] = "failClose" THEN own \ {r} ELSE own

ClosePart(p, r) ==
    /\ pc[p] \in {"failClose", "shutClose"}
    /\ part[r] = "open"
    /\ \A q \in Parts : CloseRank[q] < CloseRank[r] => part[q] # "open"
    /\ part' = [part EXCEPT ![r] = "closed"]
    /\ own' = OwnAfter(p, r)
    /\ UNCHANGED <<state, lockVars, pc, cron, hook, cancelled, worker, httpVars,
                   expired, overdue>>

AllReleased == \A r \in Parts : part[r] # "open"

FailDone(p) ==
    /\ pc[p] = "failClose" /\ AllReleased /\ readers = 0
    /\ state' = "stopped" /\ initMu' = NoProc
    /\ Go(p, Over(p))
    /\ UNCHANGED <<readers, once, partVars, hook, cancelled, worker, httpVars,
                   expired, overdue>>

ShutDone(p) ==
    /\ pc[p] = "shutClose" /\ AllReleased /\ readers = 0
    /\ state' = "stopped" /\ initMu' = NoProc /\ once' = "done"
    /\ Go(p, Over(p))
    /\ UNCHANGED <<readers, partVars, hook, cancelled, worker, httpVars, expired,
                   overdue>>

-----------------------------------------------------------------------------
(* App.Go: the check and wg.Add are inside one RLock section.  Workers     *)
(* bounds how many are started.                                            *)

GoCheckOnly == UNCHANGED readers \* mutant: the lock is dropped after the check
GoHold == readers' = readers + 1

GoCheck(p) ==
    /\ pc[p] = "idle" /\ p # Main
    /\ state \notin Closing
    /\ Cardinality({w \in Workers : worker[w] = "none"}) > readers
    /\ GoHold
    /\ Go(p, "go")
    /\ UNCHANGED <<state, initMu, once, partVars, hook, cancelled, worker, httpVars,
                   expired, overdue>>

GoAdd(p, w) ==
    /\ pc[p] = "go" /\ worker[w] = "none"
    /\ worker' = [worker EXCEPT ![w] = "running"]
    /\ readers' = readers - 1
    /\ Go(p, "idle")
    /\ UNCHANGED <<state, initMu, once, partVars, hook, cancelled, httpVars,
                   expired, overdue>>

WorkerReturns(w) ==
    /\ worker[w] = "running"
    /\ worker' = [worker EXCEPT ![w] = "done"]
    /\ UNCHANGED <<state, lockVars, pc, partVars, hook, cancelled, httpVars,
                   expired, overdue>>

-----------------------------------------------------------------------------
(* StartServer, on Main after a successful Init.  It looks at no state.    *)
(* srv: "set" (a.server assigned), "bound" (listening, Serve about to be   *)
(* called on its goroutine), "serving", "closed".                          *)

SrvNew ==
    /\ pc[Main] = "srvNew"
    /\ srv' = "set"
    /\ Go(Main, "srvStart")
    /\ UNCHANGED <<state, lockVars, partVars, hook, cancelled, worker, srvDown,
                   active, expired, overdue>>

(* An OnStart hook, Listen or the TLS pair fails: Shutdown. *)
SrvStartFails ==
    /\ pc[Main] = "srvStart"
    /\ Go(Main, "once")
    /\ UNCHANGED <<state, lockVars, partVars, hook, cancelled, worker, httpVars,
                   expired, overdue>>

SrvListen ==
    /\ pc[Main] = "srvStart"
    /\ srv' = "bound"
    /\ Go(Main, "srvBound")
    /\ UNCHANGED <<state, lockVars, partVars, hook, cancelled, worker, srvDown,
                   active, expired, overdue>>

SrvServeAnyway == srv' = "serving"  \* mutant: a server is used again after Shutdown
SrvServeUnlessDown == srv' = IF srvDown THEN "closed" ELSE "serving"

(* Serve on a server that was shut down closes the listener and returns. *)
SrvServe ==
    /\ srv = "bound"
    /\ SrvServeUnlessDown
    /\ UNCHANGED <<state, lockVars, pc, partVars, hook, cancelled, worker, srvDown,
                   active, expired, overdue>>

SrvReady ==
    /\ pc[Main] = "srvBound"
    /\ Go(Main, "srvWait")
    /\ UNCHANGED <<state, lockVars, partVars, hook, cancelled, worker, httpVars,
                   expired, overdue>>

(* An OnReady hook fails or a signal arrives: Shutdown. *)
SrvLeave ==
    /\ pc[Main] \in {"srvBound", "srvWait"}
    /\ Go(Main, "once")
    /\ UNCHANGED <<state, lockVars, partVars, hook, cancelled, worker, httpVars,
                   expired, overdue>>

(* Serve returned: with ErrServerClosed StartServer returns nil. *)
SrvReturns ==
    /\ pc[Main] \in {"srvBound", "srvWait"} /\ srv = "closed"
    /\ Go(Main, "over")
    /\ UNCHANGED <<state, lockVars, partVars, hook, cancelled, worker, httpVars,
                   expired, overdue>>

(* Serve fails by itself: Shutdown. *)
SrvServeFails ==
    /\ pc[Main] = "srvWait" /\ srv = "serving"
    /\ srv' = "closed"
    /\ Go(Main, "once")
    /\ UNCHANGED <<state, lockVars, partVars, hook, cancelled, worker, srvDown,
                   active, expired, overdue>>

RequestArrives(q) ==
    /\ srv = "serving" /\ q \notin active
    /\ active' = active \cup {q}
    /\ UNCHANGED <<state, lockVars, pc, partVars, hook, cancelled, worker, srv,
                   srvDown, expired, overdue>>

RequestEnds(q) ==
    /\ q \in active
    /\ active' = active \ {q}
    /\ UNCHANGED <<state, lockVars, pc, partVars, hook, cancelled, worker, srv,
                   srvDown, expired, overdue>>

-----------------------------------------------------------------------------
InitStep(p) ==
    \/ InitFirst(p) \/ InitAgain(p) \/ InitRefused(p)
    \/ \E r \in Parts : OpenPart(p, r)
    \/ InitProbe(p) \/ InitCron(p) \/ InitSucceeds(p) \/ InitFails(p)
    \/ FailMark(p) \/ FailWaitDone(p) \/ FailWaitTimeout(p) \/ FailDone(p)

ShutdownStep(p) ==
    \/ OnceFirst(p) \/ OnceJoin(p) \/ ShutTooLate(p) \/ ShutBegin(p)
    \/ \E h \in Hooks : HookStart(p, h)
    \/ OnStopEnd(p) \/ ShutCancel(p) \/ ShutDrained(p) \/ ShutDrainTimeout(p)
    \/ ShutWaitDone(p) \/ ShutWaitTimeout(p)
    \/ CronStops(p) \/ CronStopTimeout(p)
    \/ \E r \in Parts : ClosePart(p, r)
    \/ ShutDone(p)

ServerStep == SrvNew \/ SrvStartFails \/ SrvListen \/ SrvReady \/ SrvReturns

GoStep(p) == \E w \in Workers : GoAdd(p, w)

Next ==
    \/ \E p \in Procs : InitCall(p) \/ ShutdownCall(p) \/ GoCheck(p) \/ InitPanics(p)
    \/ \E p \in Procs : InitStep(p) \/ ShutdownStep(p) \/ GoStep(p)
    \/ Expire
    \/ \E h \in Hooks : HookReturns(h)
    \/ \E w \in Spawned : WorkerReturns(w)
    \/ ServerStep \/ SrvServe \/ SrvLeave \/ SrvServeFails
    \/ \E q \in Requests : RequestArrives(q) \/ RequestEnds(q)

Spec == Init /\ [][Next]_vars

(* Ready goroutines run and timers fire.  Hooks, requests and goroutines   *)
(* started with Go may take for ever: nothing is assumed of them, nor of   *)
(* anyone calling, signalling or failing.                                  *)
Fairness ==
    /\ \A p \in Procs : WF_vars(InitStep(p) \/ ShutdownStep(p) \/ GoStep(p))
    /\ WF_vars(Expire)

FairSpec == Spec /\ Fairness

-----------------------------------------------------------------------------
InitPcs   == {"init", "open", "cron", "hooks", "fail", "failWait", "failCron", "failClose"}
ServerPcs == {"srvNew", "srvStart", "srvBound", "srvWait"}

TypeOK ==
    /\ state \in {"created", "initializing", "initialized"} \cup Closing
    /\ initMu \in Procs \cup {NoProc}
    /\ readers \in Nat
    /\ once \in {"new", "running", "done"}
    /\ pc \in [Procs -> InitPcs \cup ShutPcs \cup ServerPcs
                        \cup {"idle", "over", "once", "shut", "go"}]
    /\ part \in [Parts -> {"none", "open", "closed"}]
    /\ own \subseteq Parts
    /\ cron \in {"off", "on"}
    /\ hook \in [Hooks -> {"none", "running", "done"}]
    /\ cancelled \in BOOLEAN
    /\ worker \in [Spawned -> {"none", "running", "done"}]
    /\ srv \in {"none", "set", "bound", "serving", "closed"}
    /\ srvDown \in BOOLEAN
    /\ active \subseteq Requests
    /\ expired \in BOOLEAN /\ overdue \in BOOLEAN

(* M1: Init and Shutdown are serialised, at most one of them is changing   *)
(* the components, and while one does, state says so.                      *)
LongPcs == {"open", "cron", "hooks", "fail", "failWait", "failCron", "failClose"} \cup ShutPcs
OneAtATime ==
    \A p \in Procs : pc[p] \in LongPcs =>
        /\ initMu = p
        /\ state = IF pc[p] \in {"open", "cron", "hooks", "fail"}
                   THEN "initializing" ELSE "stopping"

(* No component is closed while a goroutine of App.Go, a cron task or an   *)
(* HTTP request of the server may still use it, unless a timeout ran out.  *)
ClosedOnlyWhenQuiet ==
    ~overdue /\ (\E r \in Parts : part[r] = "closed")
        => Running = {} /\ cron = "off" /\ (srvDown => active = {})

(* M1: while an OnStop hook runs within the deadline, the App is still     *)
(* whole: nothing is cancelled or closed.                                  *)
HooksSeeLiveApp ==
    ~expired /\ (\E h \in Hooks : hook[h] = "running")
        => ~cancelled /\ cron = "on" /\ (\A r \in Parts : part[r] = "open")

(* Init and Shutdown from several goroutines never pull a component away   *)
(* from a hook, a request, a task or one another.                          *)
PartsStandWhileUsed == TypeOK /\ OneAtATime /\ ClosedOnlyWhenQuiet /\ HooksSeeLiveApp

(* A failed Init leaves no global default that points at its closed parts. *)
RollbackRestoresDefaults ==
    \A p \in Procs : pc[p] = "failClose" =>
        \A r \in own : part[r] = "open"

(* M1: every call of Shutdown, the first and the concurrent ones, returns  *)
(* only when the App is stopped with every component released.             *)
ShutdownReturnsStopped ==
    [][\A p \in Procs : pc[p] \in {"once", "shut", "shutClose"} /\ pc'[p] \in {"idle", "over"}
            => state' = "stopped" /\ AllReleased' /\ cancelled']_vars

(* The WaitGroup contract: no Add once somebody may be in Wait. *)
NoAddAfterCancel ==
    [][\A w \in Spawned : worker[w] = "none" /\ worker'[w] = "running" => ~cancelled]_vars

(* Shutdown returns, whatever hooks, requests and goroutines do, also when *)
(* it has to wait for an Init that fails.                                  *)
ShutdownReturns ==
    \A p \in Procs : pc[p] = "once" ~> pc[p] \in {"idle", "over"}

(* Shutdown returns, only when the App is stopped, and nothing is started  *)
(* behind its back.                                                        *)
ShutdownIsFinal == ShutdownReturnsStopped /\ NoAddAfterCancel /\ ShutdownReturns

(* What the guide promises of a graceful shutdown: a request is over, or   *)
(* the time is up, when the components are closed.  A StartServer that     *)
(* loses the race against Shutdown serves requests afterwards.             *)
RequestsFindPartsOpen ==
    ~overdue /\ active # {} => \A r \in Parts : part[r] # "closed"

(* What the comment in Init says: its default branch cannot be reached, so *)
(* Init returns nil only for an App that was initialised.                  *)
InitNilMeansInitialized ==
    [][\A p \in Procs : InitAgain(p) => state = "initialized"]_vars
=============================================================================
