------------------------------ MODULE AppProofs ------------------------------
(* Proofs about one App (AppLifecycle), for any callers, workers, requests,  *)
(* components and number of hooks, and about several in one process          *)
(* (MultiApp), for any finite number of them.                                *)
EXTENDS AppLifecycle, MultiApp, FiniteSetTheorems, TLAPS

-----------------------------------------------------------------------------
(* AppLifecycle *)

OpeningPcs   == {"open", "cron", "hooks", "fail"}
DrainedPcs   == {"shutWait", "shutCron", "shutClose"}
CancelledPcs == {"failWait", "failCron", "failClose", "drain"} \cup DrainedPcs
ClosingPcs   == {"failClose", "shutClose"}
WaitedPcs    == {"failCron", "shutCron"} \cup ClosingPcs

StateAt(place) == IF place \in OpeningPcs THEN "initializing" ELSE "stopping"

(* Where the holder of initMu is in Init or Shutdown: the one process whose  *)
(* place tells what has happened to the components so far.                   *)
Stage == IF initMu = NoProc THEN "free" ELSE pc[initMu]
Past(places) == state = "stopped" \/ Stage \in places

HolderIsAtWork == initMu # NoProc => pc[initMu] \in LongPcs

(* Who is between the check and the Add of Go holds lifecycleMu, and then    *)
(* no state that forbids the Add can be written.                             *)
Going == {p \in Procs : pc[p] = "go"}
GoingIsCounted ==
    /\ IsFiniteSet(Going) /\ readers = Cardinality(Going)
    /\ Going # {} => state \notin Closing

(* A state that says the App is going down has somebody doing it, and the    *)
(* once is done only when it is down.                                        *)
StateIsHeld ==
    /\ state = "stopping" => initMu # NoProc
    /\ state = "stopped" => AllReleased
    /\ once = "done" => state = "stopped"

CancelFits == cancelled <=> Past(CancelledPcs)

(* What has come to rest by the time the components are closed.              *)
QuietInOrder ==
    /\ ~overdue /\ Past(WaitedPcs) => Running = {}
    /\ ~overdue /\ Past(ClosingPcs) => cron = "off"
    /\ ~overdue /\ srvDown /\ Past(DrainedPcs) => active = {}
    /\ srvDown => Past(DrainedPcs \cup {"drain"}) /\ srv # "serving"
    /\ (\E r \in Parts : part[r] = "closed") => Past(ClosingPcs)

(* An App that was initialised is whole until its OnStop hooks are over.     *)
AllOpen == \A r \in Parts : part[r] = "open"
WholeUntilStop ==
    /\ Stage \in {"cron", "hooks", "onStop"} \/ state = "initialized" => AllOpen
    /\ Stage \in {"hooks", "onStop"} \/ state = "initialized" => cron = "on"
    /\ ~expired /\ (\E h \in Hooks : hook[h] = "running") => Stage = "onStop"

(* Only Shutdown closes a component and leaves it as the default.            *)
OwnAreOpen == (\E r \in own : part[r] # "open") => Past({"shutClose"})

Held == TypeOK /\ OneAtATime /\ HolderIsAtWork

PhaseInv == StateIsHeld /\ CancelFits /\ QuietInOrder /\ WholeUntilStop /\ OwnAreOpen

AppInv == Held /\ GoingIsCounted /\ PhaseInv

-----------------------------------------------------------------------------
(* How a step moves the stage. *)

LEMMA StageSame ==
    ASSUME Held, UNCHANGED <<state, initMu, pc>>
    PROVE  OneAtATime' /\ HolderIsAtWork' /\ Stage' = Stage
BY DEF Held, OneAtATime, HolderIsAtWork, Stage

LEMMA StageKept ==
    ASSUME Held, NEW p \in Procs, NEW to, Go(p, to), UNCHANGED <<state, initMu>>,
           pc[p] \notin LongPcs, to \notin LongPcs
    PROVE  OneAtATime' /\ HolderIsAtWork' /\ Stage' = Stage
BY AppAssumption DEF Held, TypeOK, OneAtATime, HolderIsAtWork, Stage, Go, Procs

LEMMA StageTaken ==
    ASSUME Held, NEW p \in Procs, NEW to, Go(p, to), to \in LongPcs,
           initMu = NoProc, initMu' = p, state' = StateAt(to)
    PROVE  OneAtATime' /\ HolderIsAtWork' /\ Stage = "free" /\ Stage' = to
BY AppAssumption DEF Held, TypeOK, OneAtATime, HolderIsAtWork, Stage, Go,
     Procs,
     StateAt, OpeningPcs

LEMMA StageMoved ==
    ASSUME Held, NEW p \in Procs, NEW to, Go(p, to), pc[p] \in LongPcs, to \in LongPcs,
           UNCHANGED initMu, state' = StateAt(to)
    PROVE  /\ OneAtATime' /\ HolderIsAtWork'
           /\ Stage = pc[p] /\ state = StateAt(pc[p]) /\ Stage' = to
BY AppAssumption DEF Held, TypeOK, OneAtATime, HolderIsAtWork, Stage, Go,
     Procs,
     StateAt, OpeningPcs

LEMMA StageLeft ==
    ASSUME Held, NEW p \in Procs, NEW to, Go(p, to), pc[p] \in LongPcs, to \notin LongPcs,
           initMu' = NoProc
    PROVE  /\ OneAtATime' /\ HolderIsAtWork'
           /\ Stage = pc[p] /\ state = StateAt(pc[p]) /\ Stage' = "free"
BY AppAssumption DEF Held, TypeOK, OneAtATime, HolderIsAtWork, Stage, Go,
     Procs,
     StateAt, OpeningPcs

LEMMA StageOf ==
    ASSUME Held, NEW p \in Procs, pc[p] \in LongPcs
    PROVE  Stage = pc[p] /\ state = StateAt(pc[p])
BY AppAssumption DEF Held, TypeOK, OneAtATime, HolderIsAtWork, Stage, Procs,
     StateAt, OpeningPcs

LEMMA StageWalked ==
    ASSUME Held, NEW p \in Procs, NEW to, Go(p, to), pc[p] \in LongPcs, to \in LongPcs,
           UNCHANGED <<state, initMu>>, pc[p] \in OpeningPcs <=> to \in OpeningPcs
    PROVE  /\ OneAtATime' /\ HolderIsAtWork'
           /\ Stage = pc[p] /\ state = StateAt(pc[p]) /\ Stage' = to
<1>1. Stage = pc[p] /\ state = StateAt(pc[p])
  BY StageOf
<1> QED BY <1>1, StageMoved DEF StateAt

LEMMA StageFits ==
    ASSUME Held
    PROVE  Stage = "free" \/ (Stage \in LongPcs /\ state = StateAt(Stage))
<1>1. CASE initMu = NoProc
  <2>1. Stage = "free"
    BY <1>1 DEF Stage
  <2> QED BY <2>1
<1>2. CASE initMu # NoProc
  <2>1. initMu \in Procs /\ pc[initMu] \in LongPcs
    BY <1>2 DEF Held, TypeOK, HolderIsAtWork
  <2> QED BY <1>2, <2>1, StageOf DEF Stage
<1> QED BY <1>1, <1>2

(* PhaseInv after a step that leaves the stage and what it speaks of alone.  *)
LEMMA PhaseSame ==
    ASSUME PhaseInv, Stage' = Stage,
           UNCHANGED <<state, initMu, once, partVars, hook, cancelled, worker, srvDown,
                       active, srv, expired, overdue>>
    PROVE  PhaseInv'
BY DEF PhaseInv, StateIsHeld, CancelFits, QuietInOrder, WholeUntilStop,
     OwnAreOpen, Past,
     AllReleased, AllOpen, Running, partVars

LEMMA GoingReads ==
    ASSUME GoingIsCounted, NEW p \in Procs, pc[p] = "go"
    PROVE  readers \in Nat \ {0} /\ state \notin Closing
<1>1. p \in Going
  BY DEF Going
<1>2. Cardinality(Going) \in Nat /\ Cardinality(Going) # 0
  BY <1>1, FS_CardinalityType, FS_EmptySet DEF GoingIsCounted
<1> QED BY <1>1, <1>2 DEF GoingIsCounted

LEMMA GoingSame ==
    ASSUME GoingIsCounted, UNCHANGED readers, \A p \in Procs : pc'[p] = "go" <=> pc[p] = "go",
           state' \in Closing => state \in Closing \/ readers = 0
    PROVE  GoingIsCounted'
<1>1. Going' = Going
  BY DEF Going
<1>2. readers = 0 => Going = {}
  BY FS_EmptySet DEF GoingIsCounted
<1> QED BY <1>1, <1>2 DEF GoingIsCounted

LEMMA GoingGrows ==
    ASSUME TypeOK, GoingIsCounted, NEW p \in Procs, pc[p] # "go", Go(p, "go"),
           readers' = readers + 1, state \notin Closing, UNCHANGED state
    PROVE  GoingIsCounted'
<1>1. p \notin Going /\ Going' = Going \cup {p}
  BY DEF Going, Go, TypeOK
<1>2. IsFiniteSet(Going') /\ Cardinality(Going') = Cardinality(Going) + 1
  BY <1>1, FS_AddElement DEF GoingIsCounted
<1> QED BY <1>2 DEF GoingIsCounted, Closing

LEMMA GoingShrinks ==
    ASSUME TypeOK, GoingIsCounted, NEW p \in Procs, pc[p] = "go", Go(p, "idle"),
           readers' = readers - 1, UNCHANGED state
    PROVE  GoingIsCounted'
<1>1. p \in Going /\ Going' = Going \ {p}
  BY DEF Going, Go, TypeOK
<1>2. IsFiniteSet(Going') /\ Cardinality(Going') = Cardinality(Going) - 1
  BY <1>1, FS_RemoveElement DEF GoingIsCounted
<1>3. state \notin Closing
  BY <1>1 DEF GoingIsCounted
<1> QED BY <1>2, <1>3 DEF GoingIsCounted, Closing

(* Init *)
LEMMA InitKeeps ==
    ASSUME AppInv, NEW p \in Procs,
           \/ InitCall(p)
           \/ InitFirst(p)
           \/ InitAgain(p)
           \/ InitRefused(p)
           \/ \E r \in Parts : OpenPart(p, r)
           \/ InitProbe(p)
           \/ InitCron(p)
           \/ InitSucceeds(p)
           \/ InitFails(p)
           \/ InitPanics(p)
    PROVE  AppInv'
<1> USE DEF AppInv
<1>1. CASE InitCall(p)
  <2>1. TypeOK'
    BY <1>1 DEF InitCall, Held, TypeOK, Go, InitPcs, ShutPcs, ServerPcs,
         lockVars, partVars, httpVars
  <2>2. OneAtATime' /\ HolderIsAtWork' /\ Stage' = Stage
    BY <1>1, StageKept DEF InitCall, LongPcs, ShutPcs, lockVars
  <2>3. PhaseInv'
    BY <1>1, <2>2, PhaseSame DEF InitCall, lockVars, partVars, httpVars
  <2>4. GoingIsCounted'
    BY <1>1, GoingSame DEF InitCall, Held, TypeOK, Go, ShutPcs, lockVars
  <2> QED BY <2>1, <2>2, <2>3, <2>4 DEF Held
<1>2. CASE InitFirst(p)
  <2>1. TypeOK'
    BY <1>2, AppAssumption DEF InitFirst, Held, TypeOK, Go, Closing, InitPcs,
         ShutPcs, ServerPcs, Procs, partVars, httpVars
  <2>2. OneAtATime' /\ HolderIsAtWork' /\ Stage = "free" /\ Stage' = "open"
    BY <1>2, StageTaken DEF InitFirst, LocksFree, LongPcs, ShutPcs, StateAt,
         OpeningPcs
  <2>3. PhaseInv'
    BY <1>2, <2>2 DEF InitFirst, PhaseInv, StateIsHeld, CancelFits,
         QuietInOrder, WholeUntilStop, OwnAreOpen, Past, AllReleased, AllOpen,
         Running, DrainedPcs, CancelledPcs, ClosingPcs, WaitedPcs, partVars,
         httpVars
  <2>4. GoingIsCounted'
    BY <1>2, GoingSame DEF InitFirst, Held, TypeOK, Go, ShutPcs, LocksFree,
         Closing
  <2> QED BY <2>1, <2>2, <2>3, <2>4 DEF Held
<1>3. CASE InitAgain(p)
  <2>1. TypeOK'
    BY <1>3, AppAssumption DEF InitAgain, Held, TypeOK, Go, InitOk, InitPcs,
         ShutPcs, ServerPcs, Procs, lockVars, partVars, httpVars
  <2>2. OneAtATime' /\ HolderIsAtWork' /\ Stage' = Stage
    BY <1>3, StageKept DEF InitAgain, InitOk, LocksFree, LongPcs, ShutPcs,
         lockVars
  <2>3. PhaseInv'
    BY <1>3, <2>2, PhaseSame DEF InitAgain, lockVars, partVars, httpVars
  <2>4. GoingIsCounted'
    BY <1>3, GoingSame DEF InitAgain, Held, TypeOK, Go, InitOk, ShutPcs,
         LocksFree, lockVars
  <2> QED BY <2>1, <2>2, <2>3, <2>4 DEF Held
<1>4. CASE InitRefused(p)
  <2>1. TypeOK'
    BY <1>4, AppAssumption DEF InitRefused, Held, TypeOK, Go, Over, InitPcs,
         ShutPcs, ServerPcs, Procs, lockVars, partVars, httpVars
  <2>2. OneAtATime' /\ HolderIsAtWork' /\ Stage' = Stage
    BY <1>4, StageKept DEF InitRefused, Over, LocksFree, LongPcs, ShutPcs,
         lockVars
  <2>3. PhaseInv'
    BY <1>4, <2>2, PhaseSame DEF InitRefused, lockVars, partVars, httpVars
  <2>4. GoingIsCounted'
    BY <1>4, GoingSame DEF InitRefused, Held, TypeOK, Go, Over, ShutPcs,
         LocksFree, Closing, lockVars
  <2> QED BY <2>1, <2>2, <2>3, <2>4 DEF Held
<1>5. CASE \E r \in Parts : OpenPart(p, r)
  <2>1. TypeOK'
    BY <1>5 DEF OpenPart, Held, TypeOK, lockVars, httpVars
  <2>2. /\ OneAtATime' /\ HolderIsAtWork'
        /\ state = "initializing" /\ Stage = "open" /\ Stage' = "open"
    BY <1>5, StageSame, StageOf DEF OpenPart, LongPcs, ShutPcs, StateAt,
         OpeningPcs, lockVars
  <2>3. StateIsHeld'
    BY <1>5, <2>2 DEF OpenPart, PhaseInv, StateIsHeld, AllReleased, lockVars,
         httpVars, Held, TypeOK
  <2>4. CancelFits'
    BY <1>5, <2>2 DEF OpenPart, PhaseInv, CancelFits, Past, DrainedPcs,
         CancelledPcs, lockVars, httpVars
  <2>5. QuietInOrder'
    BY <1>5, <2>2 DEF OpenPart, PhaseInv, QuietInOrder, Past, Running,
         DrainedPcs, ClosingPcs, WaitedPcs, lockVars, httpVars, Held, TypeOK
  <2>6. WholeUntilStop'
    BY <1>5, <2>2 DEF OpenPart, PhaseInv, WholeUntilStop, AllOpen, lockVars,
         httpVars, Held, TypeOK
  <2>7. OwnAreOpen'
    BY <1>5, <2>2 DEF OpenPart, PhaseInv, OwnAreOpen, Past, lockVars, httpVars,
         Held, TypeOK
  <2>8. GoingIsCounted'
    BY <1>5, GoingSame DEF OpenPart, Held, TypeOK, lockVars
  <2> QED BY <2>1, <2>2, <2>3, <2>4, <2>5, <2>6, <2>7, <2>8 DEF PhaseInv, Held
<1>6. CASE InitProbe(p)
  <2>1. TypeOK'
    BY <1>6, AppAssumption DEF InitProbe, Held, TypeOK, Go, InitPcs, ShutPcs,
         ServerPcs, Spawned, lockVars, partVars, httpVars
  <2>2. /\ OneAtATime' /\ HolderIsAtWork'
        /\ state = "initializing" /\ Stage = "open" /\ Stage' = "cron"
    BY <1>6, StageWalked DEF InitProbe, LongPcs, ShutPcs, StateAt, OpeningPcs,
         lockVars
  <2>3. PhaseInv'
    BY <1>6, <2>2 DEF InitProbe, PhaseInv, StateIsHeld, CancelFits,
         QuietInOrder, WholeUntilStop, OwnAreOpen, Past, AllReleased, AllOpen,
         Running, DrainedPcs, CancelledPcs, ClosingPcs, WaitedPcs, lockVars,
         partVars, httpVars
  <2>4. GoingIsCounted'
    BY <1>6, GoingSame DEF InitProbe, Held, TypeOK, Go, ShutPcs, lockVars
  <2> QED BY <2>1, <2>2, <2>3, <2>4 DEF Held
<1>7. CASE InitCron(p)
  <2>1. TypeOK'
    BY <1>7 DEF InitCron, Held, TypeOK, Go, InitPcs, ShutPcs, ServerPcs,
         lockVars, httpVars
  <2>2. /\ OneAtATime' /\ HolderIsAtWork'
        /\ state = "initializing" /\ Stage = "cron" /\ Stage' = "hooks"
    BY <1>7, StageWalked DEF InitCron, LongPcs, ShutPcs, StateAt, OpeningPcs,
         lockVars
  <2>3. StateIsHeld'
    BY <1>7, <2>2 DEF InitCron, PhaseInv, StateIsHeld, AllReleased, lockVars,
         httpVars
  <2>4. CancelFits'
    BY <1>7, <2>2 DEF InitCron, PhaseInv, CancelFits, Past, DrainedPcs,
         CancelledPcs, lockVars, httpVars
  <2>5. QuietInOrder'
    BY <1>7, <2>2 DEF InitCron, PhaseInv, QuietInOrder, Past, Running,
         DrainedPcs, ClosingPcs, WaitedPcs, lockVars, httpVars
  <2>6. WholeUntilStop'
    BY <1>7, <2>2 DEF InitCron, PhaseInv, WholeUntilStop, AllOpen, lockVars,
         httpVars
  <2>7. OwnAreOpen'
    BY <1>7, <2>2 DEF InitCron, PhaseInv, OwnAreOpen, Past, lockVars, httpVars
  <2>8. GoingIsCounted'
    BY <1>7, GoingSame DEF InitCron, Held, TypeOK, Go, ShutPcs, lockVars
  <2> QED BY <2>1, <2>2, <2>3, <2>4, <2>5, <2>6, <2>7, <2>8 DEF PhaseInv, Held
<1>8. CASE InitSucceeds(p)
  <2>1. TypeOK'
    BY <1>8, AppAssumption DEF InitSucceeds, Held, TypeOK, Go, InitOk, Closing,
         InitPcs, ShutPcs, ServerPcs, Procs, partVars, httpVars
  <2>2. /\ OneAtATime' /\ HolderIsAtWork'
        /\ state = "initializing" /\ Stage = "hooks" /\ Stage' = "free"
    BY <1>8, StageLeft DEF InitSucceeds, InitOk, LongPcs, ShutPcs, StateAt,
         OpeningPcs
  <2>3. StateIsHeld'
    BY <1>8, <2>2 DEF InitSucceeds, PhaseInv, StateIsHeld, AllReleased,
         partVars, httpVars
  <2>4. CancelFits'
    BY <1>8, <2>2 DEF InitSucceeds, PhaseInv, CancelFits, Past, DrainedPcs,
         CancelledPcs, partVars, httpVars
  <2>5. QuietInOrder'
    BY <1>8, <2>2 DEF InitSucceeds, PhaseInv, QuietInOrder, Past, Running,
         DrainedPcs, ClosingPcs, WaitedPcs, partVars, httpVars
  <2>6. WholeUntilStop'
    BY <1>8, <2>2 DEF InitSucceeds, PhaseInv, WholeUntilStop, AllOpen,
         partVars, httpVars
  <2>7. OwnAreOpen'
    BY <1>8, <2>2 DEF InitSucceeds, PhaseInv, OwnAreOpen, Past, partVars,
         httpVars
  <2>8. GoingIsCounted'
    BY <1>8, GoingSame DEF InitSucceeds, Held, TypeOK, Go, InitOk, ShutPcs,
         Closing
  <2> QED BY <2>1, <2>2, <2>3, <2>4, <2>5, <2>6, <2>7, <2>8 DEF PhaseInv, Held
<1>9. CASE InitFails(p)
  <2>1. TypeOK'
    BY <1>9 DEF InitFails, Held, TypeOK, Go, InitPcs, ShutPcs, ServerPcs,
         lockVars, partVars, httpVars
  <2>2. /\ OneAtATime' /\ HolderIsAtWork'
        /\ Stage \in {"open", "cron", "hooks"} /\ Stage' = "fail"
    BY <1>9, StageWalked DEF InitFails, LongPcs, ShutPcs, StateAt, OpeningPcs,
         lockVars
  <2>3. PhaseInv'
    BY <1>9, <2>2 DEF InitFails, PhaseInv, StateIsHeld, CancelFits,
         QuietInOrder, WholeUntilStop, OwnAreOpen, Past, AllReleased, AllOpen,
         Running, DrainedPcs, CancelledPcs, ClosingPcs, WaitedPcs, lockVars,
         partVars, httpVars
  <2>4. GoingIsCounted'
    BY <1>9, GoingSame DEF InitFails, Held, TypeOK, Go, ShutPcs, lockVars
  <2> QED BY <2>1, <2>2, <2>3, <2>4 DEF Held
<1>10. CASE InitPanics(p)
  <2>1. TypeOK'
    BY <1>10, AppAssumption DEF InitPanics, Held, TypeOK, Go, Over, InitPcs,
         ShutPcs, ServerPcs, Procs, partVars, httpVars
  <2>2. /\ OneAtATime' /\ HolderIsAtWork'
        /\ state = "initializing" /\ Stage \in {"cron", "hooks"} /\ Stage' = "free"
    BY <1>10, StageLeft DEF InitPanics, Over, LongPcs, ShutPcs, StateAt,
         OpeningPcs
  <2>3. StateIsHeld'
    BY <1>10, <2>2 DEF InitPanics, PhaseInv, StateIsHeld, AllReleased,
         partVars, httpVars
  <2>4. CancelFits'
    BY <1>10, <2>2 DEF InitPanics, PhaseInv, CancelFits, Past, DrainedPcs,
         CancelledPcs, partVars, httpVars
  <2>5. QuietInOrder'
    BY <1>10, <2>2 DEF InitPanics, PhaseInv, QuietInOrder, Past, Running,
         DrainedPcs, ClosingPcs, WaitedPcs, partVars, httpVars
  <2>6. WholeUntilStop'
    BY <1>10, <2>2 DEF InitPanics, PhaseInv, WholeUntilStop, AllOpen, partVars,
         httpVars
  <2>7. OwnAreOpen'
    BY <1>10, <2>2 DEF InitPanics, PhaseInv, OwnAreOpen, Past, partVars,
         httpVars
  <2>8. GoingIsCounted'
    BY <1>10, GoingSame DEF InitPanics, Held, TypeOK, Go, Over, ShutPcs
  <2> QED BY <2>1, <2>2, <2>3, <2>4, <2>5, <2>6, <2>7, <2>8 DEF PhaseInv, Held
<1> QED BY <1>1, <1>2, <1>3, <1>4, <1>5, <1>6, <1>7, <1>8, <1>9, <1>10

(* The rollback *)
LEMMA RollbackKeeps ==
    ASSUME AppInv, NEW p \in Procs,
           \/ FailMark(p)
           \/ FailWaitDone(p)
           \/ FailWaitTimeout(p)
           \/ FailDone(p)
    PROVE  AppInv'
<1> USE DEF AppInv
<1>1. CASE FailMark(p)
  <2>1. TypeOK'
    BY <1>1 DEF FailMark, Held, TypeOK, Go, Closing, InitPcs, ShutPcs,
         ServerPcs, lockVars, partVars, httpVars
  <2>2. /\ OneAtATime' /\ HolderIsAtWork'
        /\ state = "initializing" /\ Stage = "fail" /\ Stage' = "failWait"
    BY <1>1, StageMoved DEF FailMark, LongPcs, ShutPcs, StateAt, OpeningPcs,
         lockVars
  <2>3. StateIsHeld'
    BY <1>1, <2>2 DEF FailMark, PhaseInv, StateIsHeld, AllReleased, lockVars,
         partVars, httpVars, Stage
  <2>4. CancelFits'
    BY <1>1, <2>2 DEF FailMark, PhaseInv, CancelFits, Past, DrainedPcs,
         CancelledPcs, lockVars, partVars, httpVars
  <2>5. QuietInOrder'
    BY <1>1, <2>2 DEF FailMark, PhaseInv, QuietInOrder, Past, Running,
         DrainedPcs, ClosingPcs, WaitedPcs, lockVars, partVars, httpVars
  <2>6. WholeUntilStop'
    BY <1>1, <2>2 DEF FailMark, PhaseInv, WholeUntilStop, AllOpen, lockVars,
         partVars, httpVars
  <2>7. OwnAreOpen'
    BY <1>1, <2>2 DEF FailMark, PhaseInv, OwnAreOpen, Past, lockVars, partVars,
         httpVars
  <2>8. GoingIsCounted'
    BY <1>1, GoingSame DEF FailMark, Held, TypeOK, Go, ShutPcs, Closing,
         lockVars
  <2> QED BY <2>1, <2>2, <2>3, <2>4, <2>5, <2>6, <2>7, <2>8 DEF PhaseInv, Held
<1>2. CASE FailWaitDone(p)
  <2>1. TypeOK'
    BY <1>2, AppAssumption DEF FailWaitDone, Held, TypeOK, Go, InitPcs,
         ShutPcs, ServerPcs, lockVars, partVars, httpVars
  <2>2. /\ OneAtATime' /\ HolderIsAtWork'
        /\ state = "stopping" /\ Stage = "failWait" /\ Stage' = "failCron"
    BY <1>2, StageWalked DEF FailWaitDone, LongPcs, ShutPcs, StateAt,
         OpeningPcs, lockVars
  <2>3. PhaseInv'
    BY <1>2, <2>2 DEF FailWaitDone, PhaseInv, StateIsHeld, CancelFits,
         QuietInOrder, WholeUntilStop, OwnAreOpen, Past, AllReleased, AllOpen,
         Running, DrainedPcs, CancelledPcs, ClosingPcs, WaitedPcs, lockVars,
         partVars, httpVars
  <2>4. GoingIsCounted'
    BY <1>2, GoingSame DEF FailWaitDone, Held, TypeOK, Go, ShutPcs, lockVars
  <2> QED BY <2>1, <2>2, <2>3, <2>4 DEF Held
<1>3. CASE FailWaitTimeout(p)
  <2>1. TypeOK'
    BY <1>3, AppAssumption DEF FailWaitTimeout, Held, TypeOK, Go, InitPcs,
         ShutPcs, ServerPcs, lockVars, partVars, httpVars
  <2>2. /\ OneAtATime' /\ HolderIsAtWork'
        /\ state = "stopping" /\ Stage = "failWait" /\ Stage' = "failCron"
    BY <1>3, StageWalked DEF FailWaitTimeout, LongPcs, ShutPcs, StateAt,
         OpeningPcs, lockVars
  <2>3. PhaseInv'
    BY <1>3, <2>2 DEF FailWaitTimeout, PhaseInv, StateIsHeld, CancelFits,
         QuietInOrder, WholeUntilStop, OwnAreOpen, Past, AllReleased, AllOpen,
         Running, DrainedPcs, CancelledPcs, ClosingPcs, WaitedPcs, lockVars,
         partVars, httpVars
  <2>4. GoingIsCounted'
    BY <1>3, GoingSame DEF FailWaitTimeout, Held, TypeOK, Go, ShutPcs, lockVars
  <2> QED BY <2>1, <2>2, <2>3, <2>4 DEF Held
<1>4. CASE FailDone(p)
  <2>1. TypeOK'
    BY <1>4, AppAssumption DEF FailDone, Held, TypeOK, Go, Over, Closing,
         InitPcs, ShutPcs, ServerPcs, Procs, partVars, httpVars
  <2>2. /\ OneAtATime' /\ HolderIsAtWork'
        /\ state = "stopping" /\ Stage = "failClose" /\ Stage' = "free"
    BY <1>4, StageLeft DEF FailDone, Over, LongPcs, ShutPcs, StateAt,
         OpeningPcs
  <2>3. PhaseInv'
    BY <1>4, <2>2 DEF FailDone, PhaseInv, StateIsHeld, CancelFits,
         QuietInOrder, WholeUntilStop, OwnAreOpen, Past, AllReleased, AllOpen,
         Running, DrainedPcs, CancelledPcs, ClosingPcs, WaitedPcs, partVars,
         httpVars
  <2>4. GoingIsCounted'
    BY <1>4, GoingSame DEF FailDone, Held, TypeOK, Go, Over, ShutPcs, Closing
  <2> QED BY <2>1, <2>2, <2>3, <2>4 DEF Held
<1> QED BY <1>1, <1>2, <1>3, <1>4

(* Shutdown *)
LEMMA ShutdownKeeps ==
    ASSUME AppInv, NEW p \in Procs,
           \/ ShutdownCall(p)
           \/ OnceFirst(p)
           \/ OnceJoin(p)
           \/ ShutTooLate(p)
           \/ ShutBegin(p)
           \/ \E h \in Hooks : HookStart(p, h)
           \/ OnStopEnd(p)
           \/ ShutCancel(p)
           \/ ShutDrained(p)
           \/ ShutDrainTimeout(p)
           \/ ShutWaitDone(p)
           \/ ShutWaitTimeout(p)
           \/ ShutDone(p)
    PROVE  AppInv'
<1> USE DEF AppInv
<1>1. CASE ShutdownCall(p)
  <2>1. TypeOK'
    BY <1>1, AppAssumption DEF ShutdownCall, Held, TypeOK, Go, InitPcs,
         ShutPcs, ServerPcs, Procs, lockVars, partVars, httpVars
  <2>2. OneAtATime' /\ HolderIsAtWork' /\ Stage' = Stage
    BY <1>1, StageKept DEF ShutdownCall, LongPcs, ShutPcs, lockVars
  <2>3. PhaseInv'
    BY <1>1, <2>2, PhaseSame DEF ShutdownCall, lockVars, partVars, httpVars
  <2>4. GoingIsCounted'
    BY <1>1, GoingSame DEF ShutdownCall, Held, TypeOK, Go, ShutPcs, lockVars
  <2> QED BY <2>1, <2>2, <2>3, <2>4 DEF Held
<1>2. CASE OnceFirst(p)
  <2>1. TypeOK'
    BY <1>2 DEF OnceFirst, Held, TypeOK, Go, InitPcs, ShutPcs, ServerPcs,
         partVars, httpVars
  <2>2. OneAtATime' /\ HolderIsAtWork' /\ Stage' = Stage
    BY <1>2, StageKept DEF OnceFirst, LongPcs, ShutPcs
  <2>3. PhaseInv'
    BY <1>2, <2>2 DEF OnceFirst, PhaseInv, StateIsHeld, CancelFits,
         QuietInOrder, WholeUntilStop, OwnAreOpen, Past, AllReleased, AllOpen,
         Running, DrainedPcs, CancelledPcs, ClosingPcs, WaitedPcs, partVars,
         httpVars
  <2>4. GoingIsCounted'
    BY <1>2, GoingSame DEF OnceFirst, Held, TypeOK, Go, ShutPcs
  <2> QED BY <2>1, <2>2, <2>3, <2>4 DEF Held
<1>3. CASE OnceJoin(p)
  <2>1. TypeOK'
    BY <1>3, AppAssumption DEF OnceJoin, OnceDone, Held, TypeOK, Go, Over,
         InitPcs, ShutPcs, ServerPcs, Procs, lockVars, partVars, httpVars
  <2>2. OneAtATime' /\ HolderIsAtWork' /\ Stage' = Stage
    BY <1>3, StageKept DEF OnceJoin, OnceDone, Over, LongPcs, ShutPcs, lockVars
  <2>3. PhaseInv'
    BY <1>3, <2>2, PhaseSame DEF OnceJoin, OnceDone, lockVars, partVars,
         httpVars
  <2>4. GoingIsCounted'
    BY <1>3, GoingSame DEF OnceJoin, OnceDone, Held, TypeOK, Go, Over, ShutPcs,
         lockVars
  <2> QED BY <2>1, <2>2, <2>3, <2>4 DEF Held
<1>4. CASE ShutTooLate(p)
  <2>1. TypeOK'
    BY <1>4, AppAssumption DEF ShutTooLate, Held, TypeOK, Go, Over, InitPcs,
         ShutPcs, ServerPcs, Procs, partVars, httpVars
  <2>2. OneAtATime' /\ HolderIsAtWork' /\ Stage' = Stage
    BY <1>4, StageKept DEF ShutTooLate, Over, LocksFree, LongPcs, ShutPcs
  <2>3. StateIsHeld'
    BY <1>4, <2>2 DEF ShutTooLate, PhaseInv, StateIsHeld, AllReleased,
         partVars, httpVars, LocksFree, Closing, Procs
  <2>4. CancelFits'
    BY <1>4, <2>2 DEF ShutTooLate, PhaseInv, CancelFits, Past, DrainedPcs,
         CancelledPcs, partVars, httpVars
  <2>5. QuietInOrder'
    BY <1>4, <2>2 DEF ShutTooLate, PhaseInv, QuietInOrder, Past, Running,
         DrainedPcs, ClosingPcs, WaitedPcs, partVars, httpVars
  <2>6. WholeUntilStop'
    BY <1>4, <2>2 DEF ShutTooLate, PhaseInv, WholeUntilStop, AllOpen, partVars,
         httpVars
  <2>7. OwnAreOpen'
    BY <1>4, <2>2 DEF ShutTooLate, PhaseInv, OwnAreOpen, Past, partVars,
         httpVars
  <2>8. GoingIsCounted'
    BY <1>4, GoingSame DEF ShutTooLate, Held, TypeOK, Go, Over, ShutPcs,
         LocksFree, Closing
  <2> QED BY <2>1, <2>2, <2>3, <2>4, <2>5, <2>6, <2>7, <2>8 DEF PhaseInv, Held
<1>5. CASE ShutBegin(p)
  <2>1. TypeOK'
    BY <1>5, AppAssumption DEF ShutBegin, Held, TypeOK, Go, Closing, InitPcs,
         ShutPcs, ServerPcs, Procs, partVars, httpVars
  <2>2. /\ OneAtATime' /\ HolderIsAtWork'
        /\ Stage = "free" /\ Stage' = IF state = "initialized" THEN "onStop" ELSE "cancel"
    BY <1>5, StageTaken DEF ShutBegin, LocksFree, LongPcs, ShutPcs, StateAt,
         OpeningPcs
  <2>3. StateIsHeld'
    BY <1>5, <2>2, AppAssumption DEF ShutBegin, PhaseInv, StateIsHeld,
         AllReleased, partVars, httpVars, LocksFree, Closing, Procs
  <2>4. CancelFits'
    BY <1>5, <2>2 DEF ShutBegin, PhaseInv, CancelFits, Past, DrainedPcs,
         CancelledPcs, partVars, httpVars, Closing
  <2>5. QuietInOrder'
    BY <1>5, <2>2 DEF ShutBegin, PhaseInv, QuietInOrder, Past, Running,
         DrainedPcs, ClosingPcs, WaitedPcs, partVars, httpVars, Closing
  <2>6. WholeUntilStop'
    BY <1>5, <2>2 DEF ShutBegin, PhaseInv, WholeUntilStop, AllOpen, partVars,
         httpVars, Closing
  <2>7. OwnAreOpen'
    BY <1>5, <2>2 DEF ShutBegin, PhaseInv, OwnAreOpen, Past, partVars,
         httpVars, Closing
  <2>8. GoingIsCounted'
    BY <1>5, GoingSame DEF ShutBegin, Held, TypeOK, Go, ShutPcs, LocksFree,
         Closing
  <2> QED BY <2>1, <2>2, <2>3, <2>4, <2>5, <2>6, <2>7, <2>8 DEF PhaseInv, Held
<1>6. CASE \E h \in Hooks : HookStart(p, h)
  <2>1. TypeOK'
    BY <1>6 DEF HookStart, Held, TypeOK, lockVars, partVars, httpVars
  <2>2. OneAtATime' /\ HolderIsAtWork' /\ Stage = "onStop" /\ Stage' = "onStop"
    BY <1>6, StageSame, StageOf DEF HookStart, LongPcs, ShutPcs, StateAt,
         OpeningPcs, lockVars
  <2>3. PhaseInv'
    BY <1>6, <2>2 DEF HookStart, PhaseInv, StateIsHeld, CancelFits,
         QuietInOrder, WholeUntilStop, OwnAreOpen, Past, AllReleased, AllOpen,
         Running, DrainedPcs, CancelledPcs, ClosingPcs, WaitedPcs, lockVars,
         partVars, httpVars
  <2>4. GoingIsCounted'
    BY <1>6, GoingSame DEF HookStart, Held, TypeOK, lockVars
  <2> QED BY <2>1, <2>2, <2>3, <2>4 DEF Held
<1>7. CASE OnStopEnd(p)
  <2>1. TypeOK'
    BY <1>7 DEF OnStopEnd, OnStopOver, Held, TypeOK, Go, InitPcs, ShutPcs,
         ServerPcs, lockVars, partVars, httpVars
  <2>2. /\ OneAtATime' /\ HolderIsAtWork'
        /\ state = "stopping" /\ Stage = "onStop" /\ Stage' = "cancel"
    BY <1>7, StageWalked DEF OnStopEnd, OnStopOver, LongPcs, ShutPcs, StateAt,
         OpeningPcs, lockVars
  <2>3. PhaseInv'
    BY <1>7, <2>2 DEF OnStopEnd, OnStopOver, PhaseInv, StateIsHeld, CancelFits,
         QuietInOrder, WholeUntilStop, OwnAreOpen, Past, AllReleased, AllOpen,
         Running, DrainedPcs, CancelledPcs, ClosingPcs, WaitedPcs, lockVars,
         partVars, httpVars
  <2>4. GoingIsCounted'
    BY <1>7, GoingSame DEF OnStopEnd, OnStopOver, Held, TypeOK, Go, ShutPcs,
         lockVars
  <2> QED BY <2>1, <2>2, <2>3, <2>4 DEF Held
<1>8. CASE ShutCancel(p)
  <2>1. TypeOK'
    BY <1>8 DEF ShutCancel, Held, TypeOK, Go, InitPcs, ShutPcs, ServerPcs,
         lockVars, partVars
  <2>2. /\ OneAtATime' /\ HolderIsAtWork'
        /\ state = "stopping" /\ Stage = "cancel" /\ Stage' = IF srv = "none" THEN "shutWait" ELSE "drain"
    BY <1>8, StageWalked DEF ShutCancel, LongPcs, ShutPcs, StateAt, OpeningPcs,
         lockVars
  <2>3. StateIsHeld'
    BY <1>8, <2>2 DEF ShutCancel, PhaseInv, StateIsHeld, AllReleased, lockVars,
         partVars
  <2>4. CancelFits'
    BY <1>8, <2>2 DEF ShutCancel, PhaseInv, CancelFits, Past, DrainedPcs,
         CancelledPcs, lockVars, partVars
  <2>5. QuietInOrder'
    BY <1>8, <2>2 DEF ShutCancel, PhaseInv, QuietInOrder, Past, Running,
         DrainedPcs, ClosingPcs, WaitedPcs, lockVars, partVars
  <2>6. WholeUntilStop'
    BY <1>8, <2>2 DEF ShutCancel, PhaseInv, WholeUntilStop, AllOpen, lockVars,
         partVars
  <2>7. OwnAreOpen'
    BY <1>8, <2>2 DEF ShutCancel, PhaseInv, OwnAreOpen, Past, lockVars,
         partVars
  <2>8. GoingIsCounted'
    BY <1>8, GoingSame DEF ShutCancel, Held, TypeOK, Go, ShutPcs, lockVars
  <2> QED BY <2>1, <2>2, <2>3, <2>4, <2>5, <2>6, <2>7, <2>8 DEF PhaseInv, Held
<1>9. CASE ShutDrained(p)
  <2>1. TypeOK'
    BY <1>9 DEF ShutDrained, Held, TypeOK, Go, InitPcs, ShutPcs, ServerPcs,
         lockVars, partVars, httpVars
  <2>2. /\ OneAtATime' /\ HolderIsAtWork'
        /\ state = "stopping" /\ Stage = "drain" /\ Stage' = "shutWait"
    BY <1>9, StageWalked DEF ShutDrained, LongPcs, ShutPcs, StateAt,
         OpeningPcs, lockVars
  <2>3. PhaseInv'
    BY <1>9, <2>2 DEF ShutDrained, PhaseInv, StateIsHeld, CancelFits,
         QuietInOrder, WholeUntilStop, OwnAreOpen, Past, AllReleased, AllOpen,
         Running, DrainedPcs, CancelledPcs, ClosingPcs, WaitedPcs, lockVars,
         partVars, httpVars
  <2>4. GoingIsCounted'
    BY <1>9, GoingSame DEF ShutDrained, Held, TypeOK, Go, ShutPcs, lockVars
  <2> QED BY <2>1, <2>2, <2>3, <2>4 DEF Held
<1>10. CASE ShutDrainTimeout(p)
  <2>1. TypeOK'
    BY <1>10 DEF ShutDrainTimeout, Held, TypeOK, Go, InitPcs, ShutPcs,
         ServerPcs, lockVars, partVars, httpVars
  <2>2. /\ OneAtATime' /\ HolderIsAtWork'
        /\ state = "stopping" /\ Stage = "drain" /\ Stage' = "shutWait"
    BY <1>10, StageWalked DEF ShutDrainTimeout, LongPcs, ShutPcs, StateAt,
         OpeningPcs, lockVars
  <2>3. PhaseInv'
    BY <1>10, <2>2 DEF ShutDrainTimeout, PhaseInv, StateIsHeld, CancelFits,
         QuietInOrder, WholeUntilStop, OwnAreOpen, Past, AllReleased, AllOpen,
         Running, DrainedPcs, CancelledPcs, ClosingPcs, WaitedPcs, lockVars,
         partVars, httpVars
  <2>4. GoingIsCounted'
    BY <1>10, GoingSame DEF ShutDrainTimeout, Held, TypeOK, Go, ShutPcs,
         lockVars
  <2> QED BY <2>1, <2>2, <2>3, <2>4 DEF Held
<1>11. CASE ShutWaitDone(p)
  <2>1. TypeOK'
    BY <1>11, AppAssumption DEF ShutWaitDone, Held, TypeOK, Go, InitPcs,
         ShutPcs, ServerPcs, lockVars, partVars, httpVars
  <2>2. /\ OneAtATime' /\ HolderIsAtWork'
        /\ state = "stopping" /\ Stage = "shutWait" /\ Stage' = "shutCron"
    BY <1>11, StageWalked DEF ShutWaitDone, LongPcs, ShutPcs, StateAt,
         OpeningPcs, lockVars
  <2>3. PhaseInv'
    BY <1>11, <2>2 DEF ShutWaitDone, PhaseInv, StateIsHeld, CancelFits,
         QuietInOrder, WholeUntilStop, OwnAreOpen, Past, AllReleased, AllOpen,
         Running, DrainedPcs, CancelledPcs, ClosingPcs, WaitedPcs, lockVars,
         partVars, httpVars
  <2>4. GoingIsCounted'
    BY <1>11, GoingSame DEF ShutWaitDone, Held, TypeOK, Go, ShutPcs, lockVars
  <2> QED BY <2>1, <2>2, <2>3, <2>4 DEF Held
<1>12. CASE ShutWaitTimeout(p)
  <2>1. TypeOK'
    BY <1>12, AppAssumption DEF ShutWaitTimeout, Held, TypeOK, Go, InitPcs,
         ShutPcs, ServerPcs, lockVars, partVars, httpVars
  <2>2. /\ OneAtATime' /\ HolderIsAtWork'
        /\ state = "stopping" /\ Stage = "shutWait" /\ Stage' = "shutCron"
    BY <1>12, StageWalked DEF ShutWaitTimeout, LongPcs, ShutPcs, StateAt,
         OpeningPcs, lockVars
  <2>3. PhaseInv'
    BY <1>12, <2>2 DEF ShutWaitTimeout, PhaseInv, StateIsHeld, CancelFits,
         QuietInOrder, WholeUntilStop, OwnAreOpen, Past, AllReleased, AllOpen,
         Running, DrainedPcs, CancelledPcs, ClosingPcs, WaitedPcs, lockVars,
         partVars, httpVars
  <2>4. GoingIsCounted'
    BY <1>12, GoingSame DEF ShutWaitTimeout, Held, TypeOK, Go, ShutPcs,
         lockVars
  <2> QED BY <2>1, <2>2, <2>3, <2>4 DEF Held
<1>13. CASE ShutDone(p)
  <2>1. TypeOK'
    BY <1>13, AppAssumption DEF ShutDone, Held, TypeOK, Go, Over, Closing,
         InitPcs, ShutPcs, ServerPcs, Procs, partVars, httpVars
  <2>2. /\ OneAtATime' /\ HolderIsAtWork'
        /\ state = "stopping" /\ Stage = "shutClose" /\ Stage' = "free"
    BY <1>13, StageLeft DEF ShutDone, Over, LongPcs, ShutPcs, StateAt,
         OpeningPcs
  <2>3. PhaseInv'
    BY <1>13, <2>2 DEF ShutDone, PhaseInv, StateIsHeld, CancelFits,
         QuietInOrder, WholeUntilStop, OwnAreOpen, Past, AllReleased, AllOpen,
         Running, DrainedPcs, CancelledPcs, ClosingPcs, WaitedPcs, partVars,
         httpVars
  <2>4. GoingIsCounted'
    BY <1>13, GoingSame DEF ShutDone, Held, TypeOK, Go, Over, ShutPcs, Closing
  <2> QED BY <2>1, <2>2, <2>3, <2>4 DEF Held
<1> QED BY <1>1, <1>2, <1>3, <1>4, <1>5, <1>6, <1>7, <1>8, <1>9, <1>10, <1>11,
     <1>12, <1>13

(* What the rollback and Shutdown share *)
LEMMA ClosingKeeps ==
    ASSUME AppInv, NEW p \in Procs,
           \/ CronStops(p)
           \/ CronStopTimeout(p)
           \/ \E r \in Parts : ClosePart(p, r)
    PROVE  AppInv'
<1> USE DEF AppInv
<1>1. CASE CronStops(p)
  <2>1. TypeOK'
    BY <1>1 DEF CronStops, ToClose, Held, TypeOK, Go, InitPcs, ShutPcs,
         ServerPcs, lockVars, httpVars
  <2>2. /\ OneAtATime' /\ HolderIsAtWork'
        /\ state = "stopping" /\ Stage \in {"failCron", "shutCron"}
        /\ Stage' = IF Stage = "failCron" THEN "failClose" ELSE "shutClose"
    BY <1>1, StageWalked DEF CronStops, ToClose, LongPcs, ShutPcs, StateAt,
         OpeningPcs, lockVars
  <2>3. StateIsHeld'
    BY <1>1, <2>2 DEF CronStops, ToClose, PhaseInv, StateIsHeld, AllReleased,
         lockVars, httpVars
  <2>4. CancelFits'
    BY <1>1, <2>2 DEF CronStops, ToClose, PhaseInv, CancelFits, Past,
         DrainedPcs, CancelledPcs, lockVars, httpVars
  <2>5. QuietInOrder'
    BY <1>1, <2>2 DEF CronStops, ToClose, PhaseInv, QuietInOrder, Past,
         Running, DrainedPcs, ClosingPcs, WaitedPcs, lockVars, httpVars
  <2>6. WholeUntilStop'
    BY <1>1, <2>2 DEF CronStops, ToClose, PhaseInv, WholeUntilStop, AllOpen,
         lockVars, httpVars
  <2>7. OwnAreOpen'
    BY <1>1, <2>2 DEF CronStops, ToClose, PhaseInv, OwnAreOpen, Past, lockVars,
         httpVars
  <2>8. GoingIsCounted'
    BY <1>1, GoingSame DEF CronStops, ToClose, Held, TypeOK, Go, ShutPcs,
         lockVars
  <2> QED BY <2>1, <2>2, <2>3, <2>4, <2>5, <2>6, <2>7, <2>8 DEF PhaseInv, Held
<1>2. CASE CronStopTimeout(p)
  <2>1. TypeOK'
    BY <1>2 DEF CronStopTimeout, ToClose, Held, TypeOK, Go, InitPcs, ShutPcs,
         ServerPcs, lockVars, partVars, httpVars
  <2>2. /\ OneAtATime' /\ HolderIsAtWork'
        /\ state = "stopping" /\ Stage \in {"failCron", "shutCron"}
        /\ Stage' = IF Stage = "failCron" THEN "failClose" ELSE "shutClose"
    BY <1>2, StageWalked DEF CronStopTimeout, ToClose, LongPcs, ShutPcs,
         StateAt, OpeningPcs, lockVars
  <2>3. PhaseInv'
    BY <1>2, <2>2 DEF CronStopTimeout, ToClose, PhaseInv, StateIsHeld,
         CancelFits, QuietInOrder, WholeUntilStop, OwnAreOpen, Past,
         AllReleased, AllOpen, Running, DrainedPcs, CancelledPcs, ClosingPcs,
         WaitedPcs, lockVars, partVars, httpVars
  <2>4. GoingIsCounted'
    BY <1>2, GoingSame DEF CronStopTimeout, ToClose, Held, TypeOK, Go, ShutPcs,
         lockVars
  <2> QED BY <2>1, <2>2, <2>3, <2>4 DEF Held
<1>3. CASE \E r \in Parts : ClosePart(p, r)
  <2>1. TypeOK'
    BY <1>3 DEF ClosePart, OwnAfter, Held, TypeOK, lockVars, httpVars
  <2>2. /\ OneAtATime' /\ HolderIsAtWork'
        /\ state = "stopping" /\ Stage = pc[p] /\ pc[p] \in ClosingPcs /\ Stage' = Stage
    BY <1>3, StageSame, StageOf DEF ClosePart, OwnAfter, LongPcs, ShutPcs,
         StateAt, OpeningPcs, lockVars, ClosingPcs
  <2>3. StateIsHeld'
    BY <1>3, <2>2 DEF ClosePart, OwnAfter, PhaseInv, StateIsHeld, AllReleased,
         lockVars, httpVars, Held, TypeOK
  <2>4. CancelFits'
    BY <1>3, <2>2 DEF ClosePart, OwnAfter, PhaseInv, CancelFits, Past,
         DrainedPcs, CancelledPcs, lockVars, httpVars
  <2>5. QuietInOrder'
    BY <1>3, <2>2 DEF ClosePart, OwnAfter, PhaseInv, QuietInOrder, Past,
         Running, DrainedPcs, ClosingPcs, WaitedPcs, lockVars, httpVars, Held,
         TypeOK
  <2>6. WholeUntilStop'
    BY <1>3, <2>2 DEF ClosePart, OwnAfter, PhaseInv, WholeUntilStop, AllOpen,
         lockVars, httpVars, Held, TypeOK
  <2>7. OwnAreOpen'
    BY <1>3, <2>2 DEF ClosePart, OwnAfter, PhaseInv, OwnAreOpen, Past,
         lockVars, httpVars, Held, TypeOK
  <2>8. GoingIsCounted'
    BY <1>3, GoingSame DEF ClosePart, OwnAfter, Held, TypeOK, lockVars
  <2> QED BY <2>1, <2>2, <2>3, <2>4, <2>5, <2>6, <2>7, <2>8 DEF PhaseInv, Held
<1> QED BY <1>1, <1>2, <1>3

(* App.Go, and what happens by itself *)
LEMMA GoKeeps ==
    ASSUME AppInv, NEW p \in Procs,
           \/ GoCheck(p)
           \/ \E w \in Workers : GoAdd(p, w)
           \/ \E w \in Spawned : WorkerReturns(w)
           \/ Expire
           \/ \E h \in Hooks : HookReturns(h)
    PROVE  AppInv'
<1> USE DEF AppInv
<1>1. CASE GoCheck(p)
  <2>1. TypeOK'
    BY <1>1, AppAssumption DEF GoCheck, GoHold, Held, TypeOK, Go, InitPcs,
         ShutPcs, ServerPcs, Procs, partVars, httpVars
  <2>2. OneAtATime' /\ HolderIsAtWork' /\ Stage' = Stage
    BY <1>1, StageKept DEF GoCheck, GoHold, LongPcs, ShutPcs
  <2>3. PhaseInv'
    BY <1>1, <2>2 DEF GoCheck, GoHold, PhaseInv, StateIsHeld, CancelFits,
         QuietInOrder, WholeUntilStop, OwnAreOpen, Past, AllReleased, AllOpen,
         Running, DrainedPcs, CancelledPcs, ClosingPcs, WaitedPcs, partVars,
         httpVars
  <2>4. GoingIsCounted'
    BY <1>1, GoingGrows DEF GoCheck, GoHold, Held
  <2> QED BY <2>1, <2>2, <2>3, <2>4 DEF Held
<1>2. CASE \E w \in Workers : GoAdd(p, w)
  <2>1. TypeOK'
    BY <1>2, GoingReads DEF GoAdd, Held, TypeOK, Go, InitPcs, ShutPcs,
         ServerPcs, Spawned, partVars, httpVars
  <2>2. OneAtATime' /\ HolderIsAtWork' /\ Stage' = Stage
    BY <1>2, StageKept DEF GoAdd, LongPcs, ShutPcs
  <2>3. StateIsHeld'
    BY <1>2, <2>2 DEF GoAdd, PhaseInv, StateIsHeld, AllReleased, partVars,
         httpVars
  <2>4. CancelFits'
    BY <1>2, <2>2 DEF GoAdd, PhaseInv, CancelFits, Past, DrainedPcs,
         CancelledPcs, partVars, httpVars
  <2>5. QuietInOrder'
    BY <1>2, <2>2, GoingReads, StageFits DEF GoAdd, PhaseInv, QuietInOrder,
         Past, Running, DrainedPcs, ClosingPcs, WaitedPcs, partVars, httpVars,
         Held, TypeOK, Closing, StateAt, OpeningPcs
  <2>6. WholeUntilStop'
    BY <1>2, <2>2 DEF GoAdd, PhaseInv, WholeUntilStop, AllOpen, partVars,
         httpVars
  <2>7. OwnAreOpen'
    BY <1>2, <2>2 DEF GoAdd, PhaseInv, OwnAreOpen, Past, partVars, httpVars
  <2>8. GoingIsCounted'
    BY <1>2, GoingShrinks DEF GoAdd, Held
  <2> QED BY <2>1, <2>2, <2>3, <2>4, <2>5, <2>6, <2>7, <2>8 DEF PhaseInv, Held
<1>3. CASE \E w \in Spawned : WorkerReturns(w)
  <2>1. TypeOK'
    BY <1>3 DEF WorkerReturns, Held, TypeOK, Spawned, lockVars, partVars,
         httpVars
  <2>2. OneAtATime' /\ HolderIsAtWork' /\ Stage' = Stage
    BY <1>3, StageSame DEF WorkerReturns, lockVars
  <2>3. PhaseInv'
    BY <1>3, <2>2 DEF WorkerReturns, PhaseInv, StateIsHeld, CancelFits,
         QuietInOrder, WholeUntilStop, OwnAreOpen, Past, AllReleased, AllOpen,
         Running, DrainedPcs, CancelledPcs, ClosingPcs, WaitedPcs, lockVars,
         partVars, httpVars
  <2>4. GoingIsCounted'
    BY <1>3, GoingSame DEF WorkerReturns, Held, TypeOK, lockVars
  <2> QED BY <2>1, <2>2, <2>3, <2>4 DEF Held
<1>4. CASE Expire
  <2>1. TypeOK'
    BY <1>4, AppAssumption DEF Expire, Held, TypeOK, Procs, lockVars, partVars,
         httpVars
  <2>2. OneAtATime' /\ HolderIsAtWork' /\ Stage' = Stage
    BY <1>4, StageSame DEF Expire, lockVars
  <2>3. PhaseInv'
    BY <1>4, <2>2 DEF Expire, PhaseInv, StateIsHeld, CancelFits, QuietInOrder,
         WholeUntilStop, OwnAreOpen, Past, AllReleased, AllOpen, Running,
         DrainedPcs, CancelledPcs, ClosingPcs, WaitedPcs, lockVars, partVars,
         httpVars
  <2>4. GoingIsCounted'
    BY <1>4, GoingSame DEF Expire, Held, TypeOK, lockVars
  <2> QED BY <2>1, <2>2, <2>3, <2>4 DEF Held
<1>5. CASE \E h \in Hooks : HookReturns(h)
  <2>1. TypeOK'
    BY <1>5 DEF HookReturns, Held, TypeOK, lockVars, partVars, httpVars
  <2>2. OneAtATime' /\ HolderIsAtWork' /\ Stage' = Stage
    BY <1>5, StageSame DEF HookReturns, lockVars
  <2>3. PhaseInv'
    BY <1>5, <2>2 DEF HookReturns, PhaseInv, StateIsHeld, CancelFits,
         QuietInOrder, WholeUntilStop, OwnAreOpen, Past, AllReleased, AllOpen,
         Running, DrainedPcs, CancelledPcs, ClosingPcs, WaitedPcs, lockVars,
         partVars, httpVars
  <2>4. GoingIsCounted'
    BY <1>5, GoingSame DEF HookReturns, Held, TypeOK, lockVars
  <2> QED BY <2>1, <2>2, <2>3, <2>4 DEF Held
<1> QED BY <1>1, <1>2, <1>3, <1>4, <1>5

(* StartServer and the requests *)
LEMMA ServerKeeps ==
    ASSUME AppInv, NEW p \in Procs,
           \/ SrvNew
           \/ SrvStartFails
           \/ SrvListen
           \/ SrvServe
           \/ SrvReady
           \/ SrvLeave
           \/ SrvReturns
           \/ SrvServeFails
           \/ \E q \in Requests : RequestArrives(q)
           \/ \E q \in Requests : RequestEnds(q)
    PROVE  AppInv'
<1> USE DEF AppInv
<1>0. Main \in Procs
  BY DEF Procs
<1>1. CASE SrvNew
  <2>1. TypeOK'
    BY <1>1, AppAssumption DEF SrvNew, Held, TypeOK, Go, InitPcs, ShutPcs,
         ServerPcs, Procs, lockVars, partVars
  <2>2. OneAtATime' /\ HolderIsAtWork' /\ Stage' = Stage
    BY <1>1, <1>0, StageKept DEF SrvNew, LongPcs, ShutPcs, lockVars
  <2>3. PhaseInv'
    BY <1>1, <2>2 DEF SrvNew, PhaseInv, StateIsHeld, CancelFits, QuietInOrder,
         WholeUntilStop, OwnAreOpen, Past, AllReleased, AllOpen, Running,
         DrainedPcs, CancelledPcs, ClosingPcs, WaitedPcs, lockVars, partVars
  <2>4. GoingIsCounted'
    BY <1>1, GoingSame, <1>0 DEF SrvNew, Held, TypeOK, Go, ShutPcs, lockVars
  <2> QED BY <2>1, <2>2, <2>3, <2>4 DEF Held
<1>2. CASE SrvStartFails
  <2>1. TypeOK'
    BY <1>2, AppAssumption DEF SrvStartFails, Held, TypeOK, Go, InitPcs,
         ShutPcs, ServerPcs, Procs, lockVars, partVars, httpVars
  <2>2. OneAtATime' /\ HolderIsAtWork' /\ Stage' = Stage
    BY <1>2, <1>0, StageKept DEF SrvStartFails, LongPcs, ShutPcs, lockVars
  <2>3. PhaseInv'
    BY <1>2, <2>2, PhaseSame DEF SrvStartFails, lockVars, partVars, httpVars
  <2>4. GoingIsCounted'
    BY <1>2, GoingSame, <1>0 DEF SrvStartFails, Held, TypeOK, Go, ShutPcs,
         lockVars
  <2> QED BY <2>1, <2>2, <2>3, <2>4 DEF Held
<1>3. CASE SrvListen
  <2>1. TypeOK'
    BY <1>3, AppAssumption DEF SrvListen, Held, TypeOK, Go, InitPcs, ShutPcs,
         ServerPcs, Procs, lockVars, partVars
  <2>2. OneAtATime' /\ HolderIsAtWork' /\ Stage' = Stage
    BY <1>3, <1>0, StageKept DEF SrvListen, LongPcs, ShutPcs, lockVars
  <2>3. PhaseInv'
    BY <1>3, <2>2 DEF SrvListen, PhaseInv, StateIsHeld, CancelFits,
         QuietInOrder, WholeUntilStop, OwnAreOpen, Past, AllReleased, AllOpen,
         Running, DrainedPcs, CancelledPcs, ClosingPcs, WaitedPcs, lockVars,
         partVars
  <2>4. GoingIsCounted'
    BY <1>3, GoingSame, <1>0 DEF SrvListen, Held, TypeOK, Go, ShutPcs, lockVars
  <2> QED BY <2>1, <2>2, <2>3, <2>4 DEF Held
<1>4. CASE SrvServe
  <2>1. TypeOK'
    BY <1>4 DEF SrvServe, SrvServeUnlessDown, Held, TypeOK, lockVars, partVars
  <2>2. OneAtATime' /\ HolderIsAtWork' /\ Stage' = Stage
    BY <1>4, StageSame DEF SrvServe, SrvServeUnlessDown, lockVars
  <2>3. PhaseInv'
    BY <1>4, <2>2 DEF SrvServe, SrvServeUnlessDown, PhaseInv, StateIsHeld,
         CancelFits, QuietInOrder, WholeUntilStop, OwnAreOpen, Past,
         AllReleased, AllOpen, Running, DrainedPcs, CancelledPcs, ClosingPcs,
         WaitedPcs, lockVars, partVars
  <2>4. GoingIsCounted'
    BY <1>4, GoingSame DEF SrvServe, SrvServeUnlessDown, Held, TypeOK, lockVars
  <2> QED BY <2>1, <2>2, <2>3, <2>4 DEF Held
<1>5. CASE SrvReady
  <2>1. TypeOK'
    BY <1>5, AppAssumption DEF SrvReady, Held, TypeOK, Go, InitPcs, ShutPcs,
         ServerPcs, Procs, lockVars, partVars, httpVars
  <2>2. OneAtATime' /\ HolderIsAtWork' /\ Stage' = Stage
    BY <1>5, <1>0, StageKept DEF SrvReady, LongPcs, ShutPcs, lockVars
  <2>3. PhaseInv'
    BY <1>5, <2>2, PhaseSame DEF SrvReady, lockVars, partVars, httpVars
  <2>4. GoingIsCounted'
    BY <1>5, GoingSame, <1>0 DEF SrvReady, Held, TypeOK, Go, ShutPcs, lockVars
  <2> QED BY <2>1, <2>2, <2>3, <2>4 DEF Held
<1>6. CASE SrvLeave
  <2>1. TypeOK'
    BY <1>6, AppAssumption DEF SrvLeave, Held, TypeOK, Go, InitPcs, ShutPcs,
         ServerPcs, Procs, lockVars, partVars, httpVars
  <2>2. OneAtATime' /\ HolderIsAtWork' /\ Stage' = Stage
    BY <1>6, <1>0, StageKept DEF SrvLeave, LongPcs, ShutPcs, lockVars
  <2>3. PhaseInv'
    BY <1>6, <2>2, PhaseSame DEF SrvLeave, lockVars, partVars, httpVars
  <2>4. GoingIsCounted'
    BY <1>6, GoingSame, <1>0 DEF SrvLeave, Held, TypeOK, Go, ShutPcs, lockVars
  <2> QED BY <2>1, <2>2, <2>3, <2>4 DEF Held
<1>7. CASE SrvReturns
  <2>1. TypeOK'
    BY <1>7, AppAssumption DEF SrvReturns, Held, TypeOK, Go, InitPcs, ShutPcs,
         ServerPcs, Procs, lockVars, partVars, httpVars
  <2>2. OneAtATime' /\ HolderIsAtWork' /\ Stage' = Stage
    BY <1>7, <1>0, StageKept DEF SrvReturns, LongPcs, ShutPcs, lockVars
  <2>3. PhaseInv'
    BY <1>7, <2>2, PhaseSame DEF SrvReturns, lockVars, partVars, httpVars
  <2>4. GoingIsCounted'
    BY <1>7, GoingSame, <1>0 DEF SrvReturns, Held, TypeOK, Go, ShutPcs,
         lockVars
  <2> QED BY <2>1, <2>2, <2>3, <2>4 DEF Held
<1>8. CASE SrvServeFails
  <2>1. TypeOK'
    BY <1>8, AppAssumption DEF SrvServeFails, Held, TypeOK, Go, InitPcs,
         ShutPcs, ServerPcs, Procs, lockVars, partVars
  <2>2. OneAtATime' /\ HolderIsAtWork' /\ Stage' = Stage
    BY <1>8, <1>0, StageKept DEF SrvServeFails, LongPcs, ShutPcs, lockVars
  <2>3. PhaseInv'
    BY <1>8, <2>2 DEF SrvServeFails, PhaseInv, StateIsHeld, CancelFits,
         QuietInOrder, WholeUntilStop, OwnAreOpen, Past, AllReleased, AllOpen,
         Running, DrainedPcs, CancelledPcs, ClosingPcs, WaitedPcs, lockVars,
         partVars
  <2>4. GoingIsCounted'
    BY <1>8, GoingSame, <1>0 DEF SrvServeFails, Held, TypeOK, Go, ShutPcs,
         lockVars
  <2> QED BY <2>1, <2>2, <2>3, <2>4 DEF Held
<1>9. CASE \E q \in Requests : RequestArrives(q)
  <2>1. TypeOK'
    BY <1>9 DEF RequestArrives, Held, TypeOK, lockVars, partVars
  <2>2. OneAtATime' /\ HolderIsAtWork' /\ Stage' = Stage
    BY <1>9, StageSame DEF RequestArrives, lockVars
  <2>3. PhaseInv'
    BY <1>9, <2>2 DEF RequestArrives, PhaseInv, StateIsHeld, CancelFits,
         QuietInOrder, WholeUntilStop, OwnAreOpen, Past, AllReleased, AllOpen,
         Running, DrainedPcs, CancelledPcs, ClosingPcs, WaitedPcs, lockVars,
         partVars
  <2>4. GoingIsCounted'
    BY <1>9, GoingSame DEF RequestArrives, Held, TypeOK, lockVars
  <2> QED BY <2>1, <2>2, <2>3, <2>4 DEF Held
<1>10. CASE \E q \in Requests : RequestEnds(q)
  <2>1. TypeOK'
    BY <1>10 DEF RequestEnds, Held, TypeOK, lockVars, partVars
  <2>2. OneAtATime' /\ HolderIsAtWork' /\ Stage' = Stage
    BY <1>10, StageSame DEF RequestEnds, lockVars
  <2>3. PhaseInv'
    BY <1>10, <2>2 DEF RequestEnds, PhaseInv, StateIsHeld, CancelFits,
         QuietInOrder, WholeUntilStop, OwnAreOpen, Past, AllReleased, AllOpen,
         Running, DrainedPcs, CancelledPcs, ClosingPcs, WaitedPcs, lockVars,
         partVars
  <2>4. GoingIsCounted'
    BY <1>10, GoingSame DEF RequestEnds, Held, TypeOK, lockVars
  <2> QED BY <2>1, <2>2, <2>3, <2>4 DEF Held
<1> QED BY <1>1, <1>2, <1>3, <1>4, <1>5, <1>6, <1>7, <1>8, <1>9, <1>10

-----------------------------------------------------------------------------
LEMMA Initially == Init => AppInv
<1> SUFFICES ASSUME Init PROVE AppInv
  OBVIOUS
<1>1. Held
  BY AppAssumption DEF Init, Held, TypeOK, OneAtATime, HolderIsAtWork, LongPcs,
       ShutPcs,
     Procs, Spawned, Hooks
<1>2. GoingIsCounted
  <2>1. Going = {}
    BY DEF Init, Going
  <2> QED BY <2>1, FS_EmptySet DEF Init, GoingIsCounted
<1>3. PhaseInv
  BY DEF Init, PhaseInv, StateIsHeld, CancelFits, QuietInOrder, WholeUntilStop,
       OwnAreOpen,
     Stage, Past, Running, AllReleased, CancelledPcs, WaitedPcs, ClosingPcs, DrainedPcs
<1> QED BY <1>1, <1>2, <1>3 DEF AppInv

(* The holder of initMu, the state and the count of goroutines inside Go fix *)
(* what has been done to the components: AppInv is inductive.                *)
LEMMA Invariance == AppInv /\ [Next]_vars => AppInv'
<1> SUFFICES ASSUME AppInv, [Next]_vars PROVE AppInv'
  OBVIOUS
<1>1. CASE UNCHANGED vars
  BY <1>1 DEF vars, AppInv, Held, PhaseInv, TypeOK, OneAtATime, HolderIsAtWork,
       GoingIsCounted,
     Going, StateIsHeld, CancelFits, QuietInOrder, WholeUntilStop, OwnAreOpen, Stage, Past,
     Running, AllReleased, AllOpen
<1>2. CASE \E p \in Procs : InitCall(p) \/ ShutdownCall(p) \/ GoCheck(p) \/ InitPanics(p)
  BY <1>2, InitKeeps, ShutdownKeeps, GoKeeps
<1>3. CASE \E p \in Procs : InitStep(p)
  BY <1>3, InitKeeps, RollbackKeeps DEF InitStep
<1>4. CASE \E p \in Procs : ShutdownStep(p)
  BY <1>4, ShutdownKeeps, ClosingKeeps DEF ShutdownStep
<1>5. CASE \E p \in Procs : GoStep(p)
  BY <1>5, GoKeeps DEF GoStep
<1>6. CASE \/ Expire
           \/ \E h \in Hooks : HookReturns(h)
           \/ \E w \in Spawned : WorkerReturns(w)
  <2>1. Main \in Procs
    BY DEF Procs
  <2> QED BY <1>6, <2>1, GoKeeps
<1>7. CASE \/ ServerStep \/ SrvServe \/ SrvLeave \/ SrvServeFails
           \/ \E q \in Requests : RequestArrives(q) \/ RequestEnds(q)
  <2>1. Main \in Procs
    BY DEF Procs
  <2> QED BY <1>7, <2>1, ServerKeeps DEF ServerStep
<1> QED BY <1>1, <1>2, <1>3, <1>4, <1>5, <1>6, <1>7 DEF Next

LEMMA AppInvariant == Spec => []AppInv
BY Initially, Invariance, PTL DEF Spec

(* No Init, Shutdown, hook, request or task ever finds a component pulled    *)
(* away (PartsStandWhileUsed), however many goroutines call.                 *)
THEOREM PartsStand == Spec => []PartsStandWhileUsed
<1>1. AppInv => PartsStandWhileUsed
  <2> SUFFICES ASSUME AppInv PROVE PartsStandWhileUsed
    OBVIOUS
  <2>1. TypeOK /\ OneAtATime
    BY DEF AppInv, Held
  <2>2. ClosedOnlyWhenQuiet
    <3> SUFFICES ASSUME ~overdue, \E r \in Parts : part[r] = "closed"
                 PROVE  Running = {} /\ cron = "off" /\ (srvDown => active = {})
      BY DEF ClosedOnlyWhenQuiet
    <3>1. Past(ClosingPcs)
      BY DEF AppInv, PhaseInv, QuietInOrder
    <3>2. Past(WaitedPcs)
      BY <3>1 DEF Past, WaitedPcs
    <3>3. srvDown => Past(DrainedPcs)
      BY <3>1, StageFits DEF AppInv, PhaseInv, QuietInOrder, Past, DrainedPcs,
           ClosingPcs
    <3> QED BY <3>1, <3>2, <3>3 DEF AppInv, PhaseInv, QuietInOrder
  <2>3. HooksSeeLiveApp
    <3> SUFFICES ASSUME ~expired, \E h \in Hooks : hook[h] = "running"
                 PROVE  ~cancelled /\ cron = "on" /\ AllOpen
      BY DEF HooksSeeLiveApp, AllOpen
    <3>1. Stage = "onStop" /\ cron = "on" /\ AllOpen
      BY DEF AppInv, PhaseInv, WholeUntilStop
    <3>2. state = "stopping"
      BY <3>1, StageFits DEF AppInv, StateAt, OpeningPcs
    <3> QED BY <3>1, <3>2 DEF AppInv, PhaseInv, CancelFits, Past, CancelledPcs,
         DrainedPcs
  <2> QED BY <2>1, <2>2, <2>3 DEF PartsStandWhileUsed
<1> QED BY <1>1, AppInvariant, PTL

(* The rollback of a failed Init puts a default back before it closes the    *)
(* component the default pointed at (RollbackRestoresDefaults).              *)
THEOREM RollbackRestores == Spec => []RollbackRestoresDefaults
<1>1. AppInv => RollbackRestoresDefaults
  <2> SUFFICES ASSUME AppInv, NEW p \in Procs, pc[p] = "failClose", NEW r \in own
               PROVE  part[r] = "open"
    BY DEF RollbackRestoresDefaults
  <2>1. Stage = "failClose" /\ state = "stopping"
    BY StageOf DEF AppInv, LongPcs, StateAt, OpeningPcs
  <2> QED BY <2>1 DEF AppInv, PhaseInv, OwnAreOpen, Past
<1> QED BY <1>1, AppInvariant, PTL

(* The three places where a call of Shutdown returns.                        *)
LEMMA ShutdownReturnsHere ==
    ASSUME AppInv, Next, NEW p \in Procs,
           pc[p] \in {"once", "shut", "shutClose"}, pc'[p] \in {"idle", "over"}
    PROVE  OnceJoin(p) \/ ShutTooLate(p) \/ ShutDone(p)
<1> USE DEF Go, AppInv, Held, TypeOK
<1>1. ASSUME NEW q \in Procs
      PROVE  ~ (InitCall(q) \/ ShutdownCall(q) \/ GoCheck(q) \/ InitPanics(q))
  BY DEF InitCall, ShutdownCall, GoCheck, InitPanics
<1>2. ASSUME NEW q \in Procs
      PROVE  ~ InitStep(q)
  <2>1. ~ (InitFirst(q) \/ InitAgain(q) \/ InitRefused(q) \/ \E r \in Parts : OpenPart(q, r))
    BY DEF InitFirst, InitAgain, InitRefused, OpenPart
  <2>2. ~ (InitProbe(q) \/ InitCron(q) \/ InitSucceeds(q) \/ InitFails(q))
    BY DEF InitProbe, InitCron, InitSucceeds, InitFails
  <2>3. ~ (FailMark(q) \/ FailWaitDone(q) \/ FailWaitTimeout(q) \/ FailDone(q))
    BY DEF FailMark, FailWaitDone, FailWaitTimeout, FailDone
  <2> QED BY <2>1, <2>2, <2>3 DEF InitStep
<1>3. ASSUME NEW q \in Procs, ShutdownStep(q)
      PROVE  OnceJoin(p) \/ ShutTooLate(p) \/ ShutDone(p)
  <2>1. ~ (OnceFirst(q) \/ ShutBegin(q) \/ \E h \in Hooks : HookStart(q, h))
    BY DEF OnceFirst, ShutBegin, HookStart
  <2>2. ~ (OnStopEnd(q) \/ ShutCancel(q) \/ ShutDrained(q) \/ ShutDrainTimeout(q))
    BY DEF OnStopEnd, ShutCancel, ShutDrained, ShutDrainTimeout
  <2>3. ~ (ShutWaitDone(q) \/ ShutWaitTimeout(q) \/ CronStops(q) \/ CronStopTimeout(q)
           \/ \E r \in Parts : ClosePart(q, r))
    BY DEF ShutWaitDone, ShutWaitTimeout, CronStops, CronStopTimeout,
         ClosePart, ToClose
  <2>4. OnceJoin(q) \/ ShutTooLate(q) \/ ShutDone(q)
    BY <1>3, <2>1, <2>2, <2>3 DEF ShutdownStep
  <2>5. p = q
    BY <2>4 DEF OnceJoin, ShutTooLate, ShutDone
  <2> QED BY <2>4, <2>5
<1>4. ASSUME NEW q \in Procs
      PROVE  ~ GoStep(q)
  BY DEF GoStep, GoAdd
<1>5. ~ (Expire \/ (\E h \in Hooks : HookReturns(h)) \/ \E w \in Spawned : WorkerReturns(w))
  BY DEF Expire, HookReturns, WorkerReturns
<1>6. ~ (ServerStep \/ SrvServe \/ SrvLeave \/ SrvServeFails)
  BY DEF ServerStep, SrvNew, SrvStartFails, SrvListen, SrvReady, SrvReturns,
       SrvServe,
     SrvLeave, SrvServeFails
<1>7. ~ \E q \in Requests : RequestArrives(q) \/ RequestEnds(q)
  BY DEF RequestArrives, RequestEnds
<1> QED BY <1>1, <1>2, <1>3, <1>4, <1>5, <1>6, <1>7 DEF Next

(* A call of Shutdown, the first or one that joins it, returns only when the *)
(* App is stopped with its context cancelled and every component released,   *)
(* which is the first part of ShutdownIsFinal.                               *)
THEOREM ShutdownReturnsOnlyStopped == Spec => ShutdownReturnsStopped
<1>1. AppInv /\ [Next]_vars =>
        [\A p \in Procs : pc[p] \in {"once", "shut", "shutClose"} /\ pc'[p] \in {"idle", "over"}
            => state' = "stopped" /\ AllReleased' /\ cancelled']_vars
  <2> SUFFICES ASSUME AppInv, Next, NEW p \in Procs,
                      pc[p] \in {"once", "shut", "shutClose"}, pc'[p] \in {"idle", "over"}
               PROVE  state' = "stopped" /\ AllReleased' /\ cancelled'
    OBVIOUS
  <2>1. OnceJoin(p) \/ ShutTooLate(p) \/ ShutDone(p)
    BY ShutdownReturnsHere
  <2>2. AppInv'
    BY Invariance
  <2>3. state' = "stopped"
    BY <2>1 DEF OnceJoin, OnceDone, ShutTooLate, ShutDone, LocksFree, Closing,
         AppInv,
       PhaseInv, StateIsHeld
  <2> QED BY <2>2, <2>3 DEF AppInv, PhaseInv, StateIsHeld, CancelFits, Past
<1> QED BY <1>1, AppInvariant, PTL DEF Spec, ShutdownReturnsStopped

(* The two places that add to the WaitGroup.                                 *)
LEMMA AddsHere ==
    ASSUME TypeOK, Next, NEW w \in Spawned, worker[w] = "none", worker'[w] = "running"
    PROVE  \E p \in Procs : InitProbe(p) \/ \E x \in Workers : GoAdd(p, x)
<1>1. ASSUME NEW q \in Procs
      PROVE  ~ (InitCall(q) \/ ShutdownCall(q) \/ GoCheck(q) \/ InitPanics(q))
  BY DEF InitCall, ShutdownCall, GoCheck, InitPanics
<1>2. ASSUME NEW q \in Procs, InitStep(q)
      PROVE  InitProbe(q)
  BY <1>2 DEF InitStep, InitFirst, InitAgain, InitRefused, OpenPart, InitCron,
       InitSucceeds,
     InitFails, FailMark, FailWaitDone, FailWaitTimeout, FailDone
<1>3. ASSUME NEW q \in Procs
      PROVE  ~ ShutdownStep(q)
  BY DEF ShutdownStep, OnceFirst, OnceJoin, ShutTooLate, ShutBegin, HookStart,
       OnStopEnd,
     ShutCancel, ShutDrained, ShutDrainTimeout, ShutWaitDone, ShutWaitTimeout, CronStops,
     CronStopTimeout, ClosePart, ShutDone
<1>4. ~ (Expire \/ (\E h \in Hooks : HookReturns(h)) \/ \E x \in Spawned : WorkerReturns(x))
  BY DEF Expire, HookReturns, WorkerReturns, TypeOK
<1>5. ~ (ServerStep \/ SrvServe \/ SrvLeave \/ SrvServeFails)
  BY DEF ServerStep, SrvNew, SrvStartFails, SrvListen, SrvReady, SrvReturns,
       SrvServe,
     SrvLeave, SrvServeFails
<1>6. ~ \E q \in Requests : RequestArrives(q) \/ RequestEnds(q)
  BY DEF RequestArrives, RequestEnds
<1> QED BY <1>1, <1>2, <1>3, <1>4, <1>5, <1>6 DEF Next, GoStep

(* No Add to the WaitGroup once somebody may be in Wait: no goroutine starts *)
(* when rootCtx has been cancelled, the second part of ShutdownIsFinal.      *)
THEOREM NothingStartsAfterCancel == Spec => NoAddAfterCancel
<1>1. AppInv /\ [Next]_vars =>
        [\A w \in Spawned : worker[w] = "none" /\ worker'[w] = "running" => ~cancelled]_vars
  <2> SUFFICES ASSUME AppInv, Next, NEW w \in Spawned,
                      worker[w] = "none", worker'[w] = "running"
               PROVE  ~cancelled
    OBVIOUS
  <2>1. PICK p \in Procs : InitProbe(p) \/ \E x \in Workers : GoAdd(p, x)
    BY AddsHere DEF AppInv, Held
  <2>2. state \notin Closing
    <3>1. CASE InitProbe(p)
      BY <3>1, StageOf DEF InitProbe, AppInv, LongPcs, StateAt, OpeningPcs,
           Closing
    <3>2. CASE \E x \in Workers : GoAdd(p, x)
      BY <3>2, GoingReads DEF GoAdd, AppInv
    <3> QED BY <2>1, <3>1, <3>2
  <2>3. Stage \notin CancelledPcs
    BY <2>2, StageFits DEF AppInv, Closing, StateAt, OpeningPcs, CancelledPcs,
         DrainedPcs
  <2> QED BY <2>2, <2>3 DEF AppInv, PhaseInv, CancelFits, Past, Closing
<1> QED BY <1>1, AppInvariant, PTL DEF Spec, NoAddAfterCancel

-----------------------------------------------------------------------------
(* MultiApp *)

(* An App that has published its files, and not taken them back.             *)
Logged == {"setLogger", "initDB", "swap", "hooks", "running", "swapBack", "closeOwn", "restore",
           "closeLogger"}
(* The places of Init, the roll-back included, in which the writers are the  *)
(* App's own, if no other App moves.                                         *)
InInit == {"setLogger", "initDB", "swap", "hooks", "swapBack", "closeOwn", "restore"}
Restored == {"restoreLogger", "restoreClose"}
Unswapped == {"new", "initLogger", "setLogger", "initDB", "swap"}

(* The generation grows once per App at most, which is what bounds it.       *)
Begun == {a \in Apps : phase[a] \notin {"new", "initLogger"}}
GenerationFits ==
    /\ generation <= Cardinality(Begun)
    /\ \A a \in Apps : mine[a] <= Cardinality(Begun) /\ snapshot[a][3] <= Cardinality(Begun)

(* Whether an App's manager is open can be told from where it is.            *)
ManagerFits ==
    \A a \in Apps :
        /\ phase[a] \in Unswapped \ {"swap"} => manager[a] = "none"
        /\ phase[a] \in {"swap", "hooks", "running", "swapBack", "closeOwn"} => manager[a] = "open"
        /\ phase[a] \in {"restore"} \cup Restored => manager[a] \in {"none", "closed"}

(* Nobody refers to a manager that was never swapped in.                     *)
DefaultFits ==
    \A a \in Apps :
        /\ phase[a] \in Unswapped \/ manager[a] = "none"
              => default # a /\ \A b \in Apps : previous[b] # a
        /\ previous[a] # a

(* If no two Apps have moved at once, at most one is moving now, ...         *)
OneMoves ==
    \A a, b \in Apps : a # b => phase[a] \in Settled \/ phase[b] \in Settled

(* ... it closes its own files only, its roll-back finds what its snapshot   *)
(* holds, and the generation tells whose the writers are, now and in the     *)
(* snapshot of an App that starts.                                           *)
LogFit(a) ==
    /\ phase[a] \in Logged =>
          /\ files[a] = "open" /\ mine[a] <= generation
          /\ mine[a] = generation => writers = a
    /\ phase[a] \in InInit => writers = a
    /\ phase[a] \in Restored =>
          /\ toClose[a] = a
          /\ writers = snapshot[a][2] /\ generation = snapshot[a][3]
    /\ phase[a] = "restoreClose" => logger = snapshot[a][1]
    /\ phase[a] = "closeFiles" => toClose[a] \in {a, Initial}
    /\ phase[a] \notin Restored \cup {"closeFiles"} => toClose[a] = Initial
    /\ phase[a] \in {"initLogger"} \cup InInit \cup Restored =>
          \A b \in Apps \ {a} : phase[b] \in Logged =>
              /\ mine[b] <= snapshot[a][3]
              /\ mine[b] = snapshot[a][3] => snapshot[a][2] = b
    /\ phase[a] \in {"closeOwn", "restore"} \cup Restored /\ manager[a] # "none"
          => default = previous[a]

LogFits == \A a \in Apps : LogFit(a)

SharedInv ==
    /\ AppsTypeOK /\ GenerationFits /\ ManagerFits /\ DefaultFits
    /\ ~ overlapped => OneMoves /\ LogFits

Places == Settled \cup
    {"initLogger", "setLogger", "initDB", "swap", "hooks", "swapBack", "closeOwn",
     "restore", "restoreLogger", "restoreClose", "closeLogger", "closeFiles"}

Step(a) == StartStep(a) \/ RollbackStep(a) \/ StopStep(a)

(* A step moves one App, and notes whether another one is moving.            *)
LEMMA OneIsMoved ==
    ASSUME AppsTypeOK, NEW a \in Apps, Step(a)
    PROVE  /\ phase' \in [Apps -> Places]
           /\ \A b \in Apps \ {a} : phase'[b] = phase[b]
           /\ phase[a] \in Settled =>
                 overlapped' = (overlapped \/ \E b \in Apps \ {a} : phase[b] \notin Settled)
           /\ phase[a] \notin Settled => overlapped' = overlapped
           /\ overlapped' \in BOOLEAN
<1> USE DEF AppsTypeOK, Goto, Begins, Settled, Places
<1>1. CASE SnapshotDefault(a)
  BY <1>1 DEF SnapshotDefault
<1>2. CASE InitLoggerFails(a)
  BY <1>2 DEF InitLoggerFails
<1>3. CASE InitPreservingPrevious(a)
  BY <1>3 DEF InitPreservingPrevious
<1>4. CASE SetDefaultLogManager(a)
  BY <1>4 DEF SetDefaultLogManager
<1>5. CASE InitDBFails(a)
  BY <1>5 DEF InitDBFails
<1>6. CASE InitDB(a)
  BY <1>6 DEF InitDB
<1>7. CASE SwapDefaultManager(a)
  BY <1>7 DEF SwapDefaultManager
<1>8. CASE Commit(a)
  BY <1>8 DEF Commit, CommitForgets
<1>9. CASE HookFails(a)
  BY <1>9 DEF HookFails
<1>10. CASE SwapBack(a)
  BY <1>10 DEF SwapBack
<1>11. CASE CloseOwn(a)
  BY <1>11 DEF CloseOwn
<1>12. CASE RestoreDefaultSnapshot(a)
  BY <1>12 DEF RestoreDefaultSnapshot, GenerationRestored
<1>13. CASE RestoreLogger(a)
  BY <1>13 DEF RestoreLogger
<1>14. CASE RestoreClose(a)
  BY <1>14 DEF RestoreClose, CloseFiles
<1>15. CASE CloseManager(a)
  BY <1>15 DEF CloseManager
<1>16. CASE CloseLogger(a)
  BY <1>16 DEF CloseLogger, OwnsLogger
<1>17. CASE CloseLoggerFiles(a)
  BY <1>17 DEF CloseLoggerFiles, CloseFiles
<1> QED BY <1>1, <1>2, <1>3, <1>4, <1>5, <1>6, <1>7, <1>8, <1>9, <1>10, <1>11, <1>12, <1>13,
           <1>14, <1>15, <1>16, <1>17
        DEF Step, StartStep, RollbackStep, StopStep

(* Who has begun stays so; one more has with every new generation.           *)
LEMMA BegunGrows ==
    ASSUME AppsTypeOK, NEW a \in Apps, Step(a)
    PROVE  /\ Cardinality(Begun) \in Nat /\ Cardinality(Begun)' \in Nat /\ Cardinality(Apps) \in Nat
           /\ Cardinality(Begun) <= Cardinality(Begun)' /\ Cardinality(Begun)' <= Cardinality(Apps)
           /\ InitPreservingPrevious(a) => Cardinality(Begun)' = Cardinality(Begun) + 1
<1>1. Begun \subseteq Begun' /\ Begun' \subseteq Begun \cup {a} /\ Begun' \subseteq Apps
  <2>1. phase[a] \notin {"new", "initLogger"} => phase'[a] \notin {"new", "initLogger"}
    BY DEF Step, StartStep, RollbackStep, StopStep, AppsTypeOK, Goto, Settled,
       SnapshotDefault, InitLoggerFails, InitPreservingPrevious, SetDefaultLogManager,
       InitDBFails, InitDB, SwapDefaultManager, Commit, HookFails, SwapBack, CloseOwn,
       RestoreDefaultSnapshot, RestoreLogger, RestoreClose, CloseManager, CloseLogger,
       CloseLoggerFiles
  <2> QED BY <2>1, OneIsMoved DEF Begun
<1>2. IsFiniteSet(Begun) /\ IsFiniteSet(Begun') /\ IsFiniteSet(Apps)
  <2>1. IsFiniteSet(Apps) /\ Begun \subseteq Apps
    BY <1>1, AppsAssumption
  <2> QED BY <1>1, <2>1, FS_Subset
<1>3. /\ Cardinality(Begun) <= Cardinality(Begun') /\ Cardinality(Begun') <= Cardinality(Apps)
      /\ Cardinality(Begun) \in Nat /\ Cardinality(Begun') \in Nat /\ Cardinality(Apps) \in Nat
  BY <1>1, <1>2, FS_Subset, FS_CardinalityType
<1>4. ASSUME InitPreservingPrevious(a)
      PROVE  Cardinality(Begun') = Cardinality(Begun) + 1
  <2>1. a \notin Begun /\ a \in Begun'
    BY <1>4 DEF Begun, InitPreservingPrevious, Goto, AppsTypeOK
  <2>2. Begun' = Begun \cup {a}
    BY <1>1, <2>1
  <2> QED BY <1>2, <2>1, <2>2, FS_AddElement
<1> QED BY <1>3, <1>4

(* No number goes beyond that of the Apps that have begun, ...               *)
LEMMA GenerationStep ==
    ASSUME AppsTypeOK, GenerationFits, NEW a \in Apps, Step(a)
    PROVE  GenerationFits'
<1> DEFINE old == Cardinality(Begun)
           new == Cardinality(Begun)'
<1>a. /\ old \in Nat /\ new \in Nat /\ old <= new
      /\ InitPreservingPrevious(a) => new = old + 1
  BY BegunGrows
<1>b. /\ generation \in Nat /\ generation <= old
      /\ \A b \in Apps : mine[b] \in Nat /\ mine[b] <= old
      /\ \A b \in Apps : snapshot[b][3] \in Nat /\ snapshot[b][3] <= old
      /\ DOMAIN mine = Apps /\ DOMAIN snapshot = Apps
  BY <1>a DEF GenerationFits, AppsTypeOK
<1>c. SUFFICES generation' <= new /\ \A b \in Apps : mine'[b] <= new /\ snapshot'[b][3] <= new
  BY DEF GenerationFits
<1> HIDE DEF old, new
<1> USE <1>a, <1>b DEF managerVars, logVars, NoSnapshot
<1>1. CASE SnapshotDefault(a)
  BY <1>1 DEF SnapshotDefault
<1>2. CASE InitLoggerFails(a)
  BY <1>2 DEF InitLoggerFails
<1>3. CASE InitPreservingPrevious(a)
  BY <1>3 DEF InitPreservingPrevious
<1>4. CASE SetDefaultLogManager(a)
  BY <1>4 DEF SetDefaultLogManager
<1>5. CASE InitDBFails(a)
  BY <1>5 DEF InitDBFails
<1>6. CASE InitDB(a)
  BY <1>6 DEF InitDB
<1>7. CASE SwapDefaultManager(a)
  BY <1>7 DEF SwapDefaultManager
<1>8. CASE Commit(a)
  BY <1>8 DEF Commit, CommitForgets
<1>9. CASE HookFails(a)
  BY <1>9 DEF HookFails
<1>10. CASE SwapBack(a)
  BY <1>10 DEF SwapBack
<1>11. CASE CloseOwn(a)
  BY <1>11 DEF CloseOwn
<1>12. CASE RestoreDefaultSnapshot(a)
  BY <1>12 DEF RestoreDefaultSnapshot, GenerationRestored
<1>13. CASE RestoreLogger(a)
  BY <1>13 DEF RestoreLogger
<1>14. CASE RestoreClose(a)
  BY <1>14 DEF RestoreClose, CloseFiles
<1>15. CASE CloseManager(a)
  BY <1>15 DEF CloseManager
<1>16. CASE CloseLogger(a)
  BY <1>16 DEF CloseLogger, OwnsLogger
<1>17. CASE CloseLoggerFiles(a)
  BY <1>17 DEF CloseLoggerFiles, CloseFiles
<1> QED BY <1>1, <1>2, <1>3, <1>4, <1>5, <1>6, <1>7, <1>8, <1>9, <1>10, <1>11, <1>12, <1>13,
           <1>14, <1>15, <1>16, <1>17
        DEF Step, StartStep, RollbackStep, StopStep

(* ... which is what keeps the types.                                        *)
LEMMA AppsTypes ==
    ASSUME AppsTypeOK, GenerationFits', NEW a \in Apps, Step(a)
    PROVE  AppsTypeOK'
<1> DEFINE n == Cardinality(Apps)
<1>a. /\ n \in Nat
      /\ generation' \in Nat => generation' <= n
      /\ \A b \in Apps : /\ mine'[b] \in Nat => mine'[b] <= n
                        /\ snapshot'[b][3] \in Nat => snapshot'[b][3] <= n
  <2> DEFINE new == Cardinality(Begun)'
  <2>1. new \in Nat /\ n \in Nat /\ new <= n
    BY BegunGrows
  <2>2. generation' <= new /\ \A b \in Apps : mine'[b] <= new /\ snapshot'[b][3] <= new
    BY DEF GenerationFits
  <2> HIDE DEF new, n
  <2> QED BY <2>1, <2>2
<1>b. phase' \in [Apps -> Places] /\ overlapped' \in BOOLEAN
  BY OneIsMoved
<1>c. ASSUME /\ manager' \in [Apps -> {"none", "open", "closed"}]
             /\ default' \in Owners /\ previous' \in [Apps -> Owners]
             /\ files' \in [Apps -> {"none", "open", "closed"}]
             /\ writers' \in Owners /\ logger' \in Owners
             /\ generation' \in 0 .. n /\ mine' \in [Apps -> 0 .. n]
             /\ snapshot' \in [Apps -> Owners \X Owners \X (0 .. n)]
             /\ toClose' \in [Apps -> Owners]
      PROVE  AppsTypeOK'
  <2>1. phase' \in [Apps -> Settled \cup
            {"initLogger", "setLogger", "initDB", "swap", "hooks", "swapBack", "closeOwn",
             "restore", "restoreLogger", "restoreClose", "closeLogger", "closeFiles"}]
    BY <1>b DEF Places
  <2>2. Settled' = Settled /\ Owners' = Owners
    BY DEF Settled, Owners
  <2> QED BY <1>b, <1>c, <2>1, <2>2 DEF AppsTypeOK
<1> HIDE DEF n
<1>d. /\ manager \in [Apps -> {"none", "open", "closed"}]
      /\ default \in Owners /\ previous \in [Apps -> Owners]
      /\ files \in [Apps -> {"none", "open", "closed"}]
      /\ writers \in Owners /\ logger \in Owners
      /\ generation \in 0 .. n /\ mine \in [Apps -> 0 .. n]
      /\ snapshot \in [Apps -> Owners \X Owners \X (0 .. n)]
      /\ toClose \in [Apps -> Owners]
  BY DEF n, AppsTypeOK
<1>e. a \in Owners /\ Initial \in Owners
  BY DEF Owners
<1> USE <1>a, <1>c, <1>d, <1>e DEF managerVars, logVars, NoSnapshot
<1>1. CASE SnapshotDefault(a)
  BY <1>1 DEF SnapshotDefault
<1>2. CASE InitLoggerFails(a)
  BY <1>2 DEF InitLoggerFails
<1>3. CASE InitPreservingPrevious(a)
  BY <1>3 DEF InitPreservingPrevious
<1>4. CASE SetDefaultLogManager(a)
  BY <1>4 DEF SetDefaultLogManager
<1>5. CASE InitDBFails(a)
  BY <1>5 DEF InitDBFails
<1>6. CASE InitDB(a)
  BY <1>6 DEF InitDB
<1>7. CASE SwapDefaultManager(a)
  BY <1>7 DEF SwapDefaultManager
<1>8. CASE Commit(a)
  BY <1>8 DEF Commit, CommitForgets
<1>9. CASE HookFails(a)
  BY <1>9 DEF HookFails
<1>10. CASE SwapBack(a)
  BY <1>10 DEF SwapBack
<1>11. CASE CloseOwn(a)
  BY <1>11 DEF CloseOwn
<1>12. CASE RestoreDefaultSnapshot(a)
  BY <1>12 DEF RestoreDefaultSnapshot, GenerationRestored
<1>13. CASE RestoreLogger(a)
  BY <1>13 DEF RestoreLogger
<1>14. CASE RestoreClose(a)
  BY <1>14 DEF RestoreClose, CloseFiles
<1>15. CASE CloseManager(a)
  BY <1>15 DEF CloseManager
<1>16. CASE CloseLogger(a)
  BY <1>16 DEF CloseLogger, OwnsLogger
<1>17. CASE CloseLoggerFiles(a)
  BY <1>17 DEF CloseLoggerFiles, CloseFiles
<1> QED BY <1>1, <1>2, <1>3, <1>4, <1>5, <1>6, <1>7, <1>8, <1>9, <1>10, <1>11, <1>12, <1>13,
           <1>14, <1>15, <1>16, <1>17
        DEF Step, StartStep, RollbackStep, StopStep

LEMMA ManagerStep ==
    ASSUME AppsTypeOK, ManagerFits, NEW a \in Apps, Step(a)
    PROVE  ManagerFits'
<1> USE DEF AppsTypeOK, Goto, managerVars, logVars, Settled, ManagerFits, Unswapped, Restored
<1>1. CASE SnapshotDefault(a)
  BY <1>1 DEF SnapshotDefault
<1>2. CASE InitLoggerFails(a)
  BY <1>2 DEF InitLoggerFails
<1>3. CASE InitPreservingPrevious(a)
  BY <1>3 DEF InitPreservingPrevious
<1>4. CASE SetDefaultLogManager(a)
  BY <1>4 DEF SetDefaultLogManager
<1>5. CASE InitDBFails(a)
  BY <1>5 DEF InitDBFails
<1>6. CASE InitDB(a)
  BY <1>6 DEF InitDB
<1>7. CASE SwapDefaultManager(a)
  BY <1>7 DEF SwapDefaultManager
<1>8. CASE Commit(a)
  BY <1>8 DEF Commit, CommitForgets
<1>9. CASE HookFails(a)
  BY <1>9 DEF HookFails
<1>10. CASE SwapBack(a)
  BY <1>10 DEF SwapBack
<1>11. CASE CloseOwn(a)
  BY <1>11 DEF CloseOwn
<1>12. CASE RestoreDefaultSnapshot(a)
  BY <1>12 DEF RestoreDefaultSnapshot, GenerationRestored
<1>13. CASE RestoreLogger(a)
  BY <1>13 DEF RestoreLogger
<1>14. CASE RestoreClose(a)
  BY <1>14 DEF RestoreClose, CloseFiles
<1>15. CASE CloseManager(a)
  BY <1>15 DEF CloseManager
<1>16. CASE CloseLogger(a)
  BY <1>16 DEF CloseLogger, OwnsLogger
<1>17. CASE CloseLoggerFiles(a)
  BY <1>17 DEF CloseLoggerFiles, CloseFiles
<1> QED BY <1>1, <1>2, <1>3, <1>4, <1>5, <1>6, <1>7, <1>8, <1>9, <1>10, <1>11, <1>12, <1>13,
           <1>14, <1>15, <1>16, <1>17
        DEF Step, StartStep, RollbackStep, StopStep

LEMMA DefaultStep ==
    ASSUME AppsTypeOK, ManagerFits, DefaultFits, NEW a \in Apps, Step(a)
    PROVE  DefaultFits'
<1> USE DEF AppsTypeOK, Goto, managerVars, logVars, Settled, ManagerFits, DefaultFits,
            Unswapped, Restored
<1> USE AppsAssumption
<1>1. CASE SnapshotDefault(a)
  BY <1>1 DEF SnapshotDefault
<1>2. CASE InitLoggerFails(a)
  BY <1>2 DEF InitLoggerFails
<1>3. CASE InitPreservingPrevious(a)
  BY <1>3 DEF InitPreservingPrevious
<1>4. CASE SetDefaultLogManager(a)
  BY <1>4 DEF SetDefaultLogManager
<1>5. CASE InitDBFails(a)
  BY <1>5 DEF InitDBFails
<1>6. CASE InitDB(a)
  BY <1>6 DEF InitDB
<1>7. CASE SwapDefaultManager(a)
  BY <1>7 DEF SwapDefaultManager
<1>8. CASE Commit(a)
  BY <1>8 DEF Commit, CommitForgets
<1>9. CASE HookFails(a)
  BY <1>9 DEF HookFails
<1>10. CASE SwapBack(a)
  BY <1>10 DEF SwapBack
<1>11. CASE CloseOwn(a)
  BY <1>11 DEF CloseOwn
<1>12. CASE RestoreDefaultSnapshot(a)
  BY <1>12 DEF RestoreDefaultSnapshot, GenerationRestored
<1>13. CASE RestoreLogger(a)
  BY <1>13 DEF RestoreLogger
<1>14. CASE RestoreClose(a)
  BY <1>14 DEF RestoreClose, CloseFiles
<1>15. CASE CloseManager(a)
  BY <1>15 DEF CloseManager
<1>16. CASE CloseLogger(a)
  BY <1>16 DEF CloseLogger, OwnsLogger
<1>17. CASE CloseLoggerFiles(a)
  BY <1>17 DEF CloseLoggerFiles, CloseFiles
<1> QED BY <1>1, <1>2, <1>3, <1>4, <1>5, <1>6, <1>7, <1>8, <1>9, <1>10, <1>11, <1>12, <1>13,
           <1>14, <1>15, <1>16, <1>17
        DEF Step, StartStep, RollbackStep, StopStep

(* If no two Apps have moved at once, the others stand still.                *)
LEMMA Alone ==
    ASSUME AppsTypeOK, ~ overlapped => OneMoves, NEW a \in Apps, Step(a), ~ overlapped'
    PROVE  /\ ~ overlapped /\ OneMoves'
           /\ \A b \in Apps \ {a} : phase[b] \in Settled /\ phase'[b] = phase[b]
<1>1. ~ overlapped /\ \A b \in Apps \ {a} : phase[b] \in Settled /\ phase'[b] = phase[b]
  BY OneIsMoved DEF OneMoves, AppsTypeOK
<1>2. Settled' = Settled
  BY DEF Settled
<1> QED BY <1>1, <1>2 DEF OneMoves

(* Since the others stand still, a step can be checked against each of the   *)
(* places they rest at.                                                      *)
LEMMA LogStep ==
    ASSUME SharedInv, NEW a \in Apps, Step(a), ~ overlapped'
    PROVE  LogFits'
<1>a. ~ overlapped /\ \A b \in Apps \ {a} : phase[b] \in Settled /\ phase'[b] = phase[b]
  BY Alone DEF SharedInv
<1>b. LogFits /\ AppsTypeOK /\ ManagerFits
  BY <1>a DEF SharedInv
<1> USE <1>a, <1>b DEF AppsTypeOK, Goto, managerVars, logVars, Settled, ManagerFits, LogFits,
            LogFit, Logged, InInit, Restored
<1> USE AppsAssumption
<1>1. CASE SnapshotDefault(a)
  BY <1>1 DEF SnapshotDefault
<1>2. CASE InitLoggerFails(a)
  BY <1>2 DEF InitLoggerFails
<1>3. CASE InitPreservingPrevious(a)
  BY <1>3, SMTT(30) DEF InitPreservingPrevious
<1>4. CASE SetDefaultLogManager(a)
  BY <1>4 DEF SetDefaultLogManager
<1>5. CASE InitDBFails(a)
  <2>1. /\ phase[a] = "initDB" /\ phase'[a] = "restore" /\ manager[a] = "none"
        /\ UNCHANGED <<managerVars, logVars>>
    BY <1>5 DEF InitDBFails, Unswapped
  <2>2. LogFit(a)'
    BY <2>1
  <2>3. ASSUME NEW b \in Apps \ {a} PROVE LogFit(b)'
    BY <2>1, <2>3
  <2> QED BY <2>2, <2>3
<1>6. CASE InitDB(a)
  BY <1>6 DEF InitDB
<1>7. CASE SwapDefaultManager(a)
  BY <1>7 DEF SwapDefaultManager
<1>8. CASE Commit(a)
  BY <1>8 DEF Commit, CommitForgets
<1>9. CASE HookFails(a)
  BY <1>9 DEF HookFails
<1>10. CASE SwapBack(a)
  BY <1>10 DEF SwapBack
<1>11. CASE CloseOwn(a)
  BY <1>11 DEF CloseOwn
<1>12. CASE RestoreDefaultSnapshot(a)
  BY <1>12, SMTT(30) DEF RestoreDefaultSnapshot, GenerationRestored
<1>13. CASE RestoreLogger(a)
  BY <1>13 DEF RestoreLogger
<1>14. CASE RestoreClose(a)
  BY <1>14 DEF RestoreClose, CloseFiles
<1>15. CASE CloseManager(a)
  BY <1>15 DEF CloseManager
<1>16. CASE CloseLogger(a)
  BY <1>16 DEF CloseLogger, OwnsLogger
<1>17. CASE CloseLoggerFiles(a)
  BY <1>17 DEF CloseLoggerFiles, CloseFiles
<1> QED BY <1>1, <1>2, <1>3, <1>4, <1>5, <1>6, <1>7, <1>8, <1>9, <1>10, <1>11, <1>12, <1>13,
           <1>14, <1>15, <1>16, <1>17
        DEF Step, StartStep, RollbackStep, StopStep

LEMMA SharedInit == AppsInit => SharedInv
<1> SUFFICES ASSUME AppsInit PROVE SharedInv
  OBVIOUS
<1>1. Begun = {}
  BY DEF AppsInit, Begun
<1>2. AppsTypeOK
  <2>1. Cardinality(Apps) \in Nat
    BY AppsAssumption, FS_CardinalityType
  <2> DEFINE n == Cardinality(Apps)
  <2>2. 0 \in 0 .. n /\ Initial \in Owners
    BY <2>1 DEF Owners
  <2>3. NoSnapshot \in Owners \X Owners \X (0 .. n)
    BY <2>2 DEF NoSnapshot
  <2> HIDE DEF n
  <2>4. /\ mine \in [Apps -> 0 .. n] /\ generation \in 0 .. n
        /\ snapshot \in [Apps -> Owners \X Owners \X (0 .. n)]
    BY <2>2, <2>3 DEF AppsInit
  <2> QED BY <2>2, <2>4 DEF AppsInit, AppsTypeOK, Settled, n
<1>3. GenerationFits
  BY <1>1, FS_EmptySet DEF AppsInit, GenerationFits, NoSnapshot
<1>4. ManagerFits /\ DefaultFits
  BY AppsAssumption DEF AppsInit, ManagerFits, DefaultFits, Unswapped, Restored
<1>5. OneMoves /\ LogFits
  BY DEF AppsInit, OneMoves, Settled, LogFits, LogFit, Logged, InInit, Restored
<1> QED BY <1>2, <1>3, <1>4, <1>5 DEF SharedInv

LEMMA SharedStep == SharedInv /\ [AppsNext]_appsVars => SharedInv'
<1> SUFFICES ASSUME SharedInv, [AppsNext]_appsVars PROVE SharedInv'
  OBVIOUS
<1>1. ASSUME NEW a \in Apps, Step(a) PROVE SharedInv'
  <2>1. AppsTypeOK /\ GenerationFits /\ ManagerFits /\ DefaultFits /\ (~ overlapped => OneMoves)
    BY DEF SharedInv
  <2>2. GenerationFits' /\ ManagerFits' /\ DefaultFits'
    BY <1>1, <2>1, GenerationStep, ManagerStep, DefaultStep
  <2>3. AppsTypeOK'
    BY <1>1, <2>1, <2>2, AppsTypes
  <2>4. ASSUME ~ overlapped' PROVE OneMoves' /\ LogFits'
    BY <1>1, <2>1, <2>4, Alone, LogStep
  <2> QED BY <2>2, <2>3, <2>4 DEF SharedInv
<1>2. CASE UNCHANGED appsVars
  <2>1. AppsTypeOK' /\ Begun' = Begun
    BY <1>2 DEF SharedInv, appsVars, AppsTypeOK, Begun, Owners, Settled
  <2>2. GenerationFits' /\ ManagerFits' /\ DefaultFits'
    BY <1>2, <2>1 DEF SharedInv, appsVars, GenerationFits, ManagerFits, DefaultFits, Unswapped,
                      Restored
  <2>3. ~ overlapped' => OneMoves' /\ LogFits'
    BY <1>2 DEF SharedInv, appsVars, OneMoves, Settled, LogFits, LogFit, Logged, InInit, Restored
  <2> QED BY <2>1, <2>2, <2>3 DEF SharedInv
<1> QED BY <1>1, <1>2 DEF AppsNext, Step

(* However the lives of any number of Apps cross, no running App loses its  *)
(* manager, and none loses its log files unless two were started or stopped *)
(* at the same time.                                                        *)
THEOREM RunningAppsKeepTheirs == AppsSpec => []RunningKeepsResources
<1>1. SharedInv => RunningKeepsResources
  BY DEF SharedInv, RunningKeepsResources, ManagerFits, LogFits, LogFit, Logged, AppsTypeOK
<1> QED BY <1>1, SharedInit, SharedStep, PTL DEF AppsSpec

(* An Init that fails, whatever ran before it, takes its manager out of the *)
(* default, closes its files and puts back logger, writers and generation.  *)
THEOREM FailedInitsLeaveNothing == AppsSpec => RollbackIsClean
<1>1. SharedInv /\ [AppsNext]_appsVars =>
        [\A a \in Apps : phase[a] = "restoreClose" /\ phase'[a] = "failed" /\ ~overlapped =>
          /\ default' # a /\ (manager[a] = "closed" => default' = previous[a])
          /\ <<logger', writers', generation'>> = snapshot[a]
          /\ files'[a] = "closed"]_appsVars
  <2> SUFFICES ASSUME SharedInv, AppsNext, NEW a \in Apps,
                      phase[a] = "restoreClose", phase'[a] = "failed", ~overlapped
               PROVE  /\ default' # a /\ (manager[a] = "closed" => default' = previous[a])
                      /\ <<logger', writers', generation'>> = snapshot[a]
                      /\ files'[a] = "closed"
    OBVIOUS
  <2>1. RestoreClose(a)
    <3>1. PICK b \in Apps : Step(b)
      BY DEF AppsNext, Step
    <3>2. b = a
      BY <3>1, OneIsMoved DEF SharedInv
    <3> QED BY <3>1, <3>2 DEF Step, StartStep, RollbackStep, StopStep,
         SnapshotDefault, InitLoggerFails, InitPreservingPrevious, SetDefaultLogManager,
         InitDBFails, InitDB, SwapDefaultManager, Commit, HookFails, SwapBack, CloseOwn,
         RestoreDefaultSnapshot, RestoreLogger, CloseManager, CloseLogger, CloseLoggerFiles
  <2>2. /\ LogFit(a) /\ AppsTypeOK /\ DefaultFits /\ ManagerFits
    BY DEF SharedInv, LogFits
  <2>3. UNCHANGED <<managerVars, writers, logger, generation, snapshot>> /\ CloseFiles(a)
    BY <2>1 DEF RestoreClose
  <2>4. default' # a /\ (manager[a] = "closed" => default' = previous[a])
    BY <2>2, <2>3 DEF LogFit, ManagerFits, DefaultFits, Restored, managerVars
  <2>5. files'[a] = "closed"
    BY <2>2, <2>3 DEF LogFit, CloseFiles, Restored
  <2>6. <<logger', writers', generation'>> = snapshot[a]
    <3>1. /\ logger = snapshot[a][1] /\ writers = snapshot[a][2] /\ generation = snapshot[a][3]
      BY <2>2 DEF LogFit, Restored
    <3>2. snapshot[a] \in Owners \X Owners \X (0 .. Cardinality(Apps))
      BY <2>2 DEF AppsTypeOK
    <3>3. snapshot[a] = <<snapshot[a][1], snapshot[a][2], snapshot[a][3]>>
      BY <3>2
    <3> QED BY <2>3, <3>1, <3>3
  <2> QED BY <2>4, <2>5, <2>6
<1> QED BY <1>1, SharedInit, SharedStep, PTL DEF AppsSpec, RollbackIsClean
=============================================================================
