------------------------ MODULE CronSchedulerProofs ------------------------
(* Proofs about CronScheduler, for any number of names, callers, tasks and  *)
(* restarts and any clock bound.                                            *)
EXTENDS CronScheduler, FiniteSetTheorems, TLAPS

LEMMA FiniteSlots ==
    /\ Slots \subseteq Nat /\ Objs \subseteq Nat /\ Ctxs \subseteq Nat
    /\ IsFiniteSet(Jobs) /\ IsFiniteSet(Ctxs)
<1> USE SchedulerAssumption DEF Slots, Objs, Ctxs, Jobs
<1>1. IsFiniteSet(0 .. MaxTime + Period) /\ IsFiniteSet(1 .. MaxTasks) /\ IsFiniteSet(1 .. MaxCtx)
  BY FS_Interval
<1>2. IsFiniteSet((1 .. MaxTasks) \X (0 .. MaxTime + Period))
  BY <1>1, FS_Product
<1> QED BY <1>1, <1>2

(* What one pass of checkAndRun spawns is a finite set of new slots. *)
LEMMA SpawnedFinite ==
    ASSUME NEW batch \in SUBSET Objs, nextRun \in [Objs -> Slots]
    PROVE  /\ SlotsOf(batch) \subseteq Jobs
           /\ IsFiniteSet(SlotsOf(batch))
           /\ Cardinality(SlotsOf(batch)) \in Nat
<1>1. SlotsOf(batch) \subseteq Jobs
  BY DEF Jobs, SlotsOf
<1> QED BY <1>1, FiniteSlots, FS_Subset, FS_CardinalityType

LEMMA TypeStep == TypeOK /\ [Next]_vars => TypeOK'
<1> USE SchedulerAssumption DEF LoopStates, JobStates, WaiterStates, CallerStates,
        StopStates, taskVars, jobVars, stopVars, callVars, StaysUp, Edit
<1> SUFFICES ASSUME TypeOK, [Next]_vars PROVE TypeOK'
  OBVIOUS
<1> USE DEF TypeOK
<1>1. CASE Tick
  BY <1>1 DEF Tick
<1>2. ASSUME NEW n \in Names, AddTask(n) PROVE TypeOK'
  BY <1>2 DEF AddTask, ScheduleNext, Objs, Slots
<1>3. ASSUME NEW n \in Names, RemoveTask(n) PROVE TypeOK'
  BY <1>3 DEF RemoveTask
<1>4. ASSUME NEW n \in Names, EnableTask(n) PROVE TypeOK'
  BY <1>4 DEF EnableTask, ScheduleNext, Objs, Slots
<1>5. ASSUME NEW n \in Names, DisableTask(n) PROVE TypeOK'
  BY <1>5 DEF DisableTask
<1>6. CASE Start
  BY <1>6 DEF Start, WgAdd, Ctxs
<1>7. ASSUME NEW timed \in BOOLEAN, StopBegin(timed) PROVE TypeOK'
  BY <1>7 DEF StopBegin, Ctxs
<1>8. CASE StopCancel
  BY <1>8 DEF StopCancel, Ctxs
<1>9. CASE StopReturnsTrue \/ StopTimesOut
  BY <1>9, ZenonT(40) DEF StopReturnsTrue, StopTimesOut, StopOver
<1>10. ASSUME NEW c \in Ctxs, CheckAndRun(c) PROVE TypeOK'
  <2>1. CASE ~MayRun(c)
    BY <1>10, <2>1 DEF CheckAndRun
  <2>2. CASE MayRun(c)
    <3>1. Cardinality(SlotsOf(Claimed)) \in Nat
      BY SpawnedFinite DEF Claimed
    <3>2. \A o \in Claimed : nextRun[o] + Period \in Slots
      BY DEF Claimed, Due, Slots
    <3>3. nextRun' \in [Objs -> Slots]
      BY <1>10, <2>2, <3>2 DEF CheckAndRun, Claim, ScheduleNext
    <3>4. wg' \in Int /\ UNCHANGED waiter
      BY <1>10, <2>2, <3>1 DEF CheckAndRun, Claim, WgAdd
    <3>5. guard' \in [Objs -> BOOLEAN]
      BY <1>10, <2>2, ZenonT(40) DEF CheckAndRun, Claim
    <3>6. jobPc' \in [Jobs -> {"none", "run", "released"}]
      BY <1>10, <2>2 DEF CheckAndRun, Claim
    <3>7. jobCtx' \in [Jobs -> Ctxs \cup {0}]
      BY <1>10, <2>2 DEF CheckAndRun, Claim
    <3> QED BY <1>10, <3>3, <3>4, <3>5, <3>6, <3>7 DEF CheckAndRun
  <2> QED BY <2>1, <2>2
<1>11. ASSUME NEW c \in Ctxs, LoopExit(c) PROVE TypeOK'
  BY <1>11 DEF LoopExit, WgDone
<1>12a. ASSUME NEW c \in Ctxs, WaitEnter(c) PROVE TypeOK'
  BY <1>12a DEF WaitEnter
<1>12b. ASSUME NEW c \in Ctxs, WaitWake(c) PROVE TypeOK'
  <2>1. (wg # 0) \in BOOLEAN
    OBVIOUS
  <2>2. crashed' \in BOOLEAN
    BY <1>12b, <2>1, Zenon DEF WaitWake
  <2>3. waiter' \in [Ctxs -> WaiterStates]
    BY <1>12b DEF WaitWake
  <2> QED BY <1>12b, <2>2, <2>3 DEF WaitWake
<1>13. ASSUME NEW j \in Jobs, JobFinish(j) PROVE TypeOK'
  BY <1>13 DEF JobFinish
<1>14. ASSUME NEW j \in Jobs, JobDone(j) PROVE TypeOK'
  BY <1>14 DEF JobDone, WgDone
<1>15. ASSUME NEW m \in Callers, NEW n \in Names, RunTaskLookup(m, n) PROVE TypeOK'
  BY <1>15 DEF RunTaskLookup
<1>16. ASSUME NEW m \in Callers, RunTaskBusy(m) \/ RunTaskClaim(m) \/ RunTaskFinish(m)
       PROVE TypeOK'
  BY <1>16, ZenonT(40) DEF RunTaskBusy, RunTaskClaim, RunTaskFinish
<1>17. CASE UNCHANGED vars
  BY <1>17 DEF vars
<1> QED
  BY <1>1, <1>2, <1>3, <1>4, <1>5, <1>6, <1>7, <1>8, <1>9, <1>10, <1>11, <1>12a, <1>12b,
     <1>13, <1>14, <1>15, <1>16, <1>17
  DEF Next, TableStep, LifecycleStep, LoopStep, JobStep, CallerStep

LEMMA TypeInit == Init => TypeOK
<1> USE SchedulerAssumption DEF LoopStates, JobStates, WaiterStates, CallerStates, StopStates
<1>1. 1 \in Ctxs /\ 0 \in Slots /\ 0 \in 0 .. MaxTime /\ 0 \in 0 .. MaxTasks
      /\ 0 \in 0 .. MaxEdits
  BY DEF Ctxs, Slots
<1>2. Init => /\ now \in 0 .. MaxTime /\ created \in 0 .. MaxTasks /\ edits \in 0 .. MaxEdits
              /\ ctx \in Ctxs /\ cancelled \subseteq Ctxs /\ wg \in Int
  BY <1>1 DEF Init
<1>5. Init => /\ running \in BOOLEAN /\ crashed \in BOOLEAN
              /\ stopPc \in StopStates /\ stopTimed \in BOOLEAN
              /\ stopCtx \in Ctxs \cup {0} /\ (stopPc # "none" => stopCtx \in Ctxs)
  BY DEF Init
<1>3. Init => /\ tasks \in [Names -> Objs \cup {NoTask}]
              /\ enabled \in [Objs -> BOOLEAN] /\ guard \in [Objs -> BOOLEAN]
              /\ nextRun \in [Objs -> Slots] /\ loop \in [Ctxs -> LoopStates]
              /\ waiter \in [Ctxs -> WaiterStates]
  BY <1>1 DEF Init
<1>4. Init => /\ jobPc \in [Jobs -> JobStates] /\ jobCtx \in [Jobs -> Ctxs \cup {0}]
              /\ callerPc \in [Callers -> CallerStates]
              /\ callerObj \in [Callers -> Objs \cup {0}]
  BY DEF Init
<1> QED BY <1>2, <1>3, <1>4, <1>5 DEF TypeOK

(* Variables keep their types. *)
THEOREM TypeInvariant == Spec => []TypeOK
BY TypeInit, TypeStep, PTL DEF Spec

-----------------------------------------------------------------------------
(* C12b, for every instance: no two executions of one task object overlap,  *)
(* whether the loop or RunTask started them, and the guard is taken exactly *)
(* while one runs.  GuardMutex is inductive relative to TypeOK.             *)
THEOREM MutualExclusion == Spec => []GuardMutex
<1> USE DEF taskVars, jobVars, stopVars, callVars
<1>1. Init => GuardMutex
  BY ZenonT(40) DEF Init, GuardMutex, Jobs, JobHolders, CallerHolders
<1>2. TypeOK /\ GuardMutex /\ [Next]_vars => GuardMutex'
  <2> SUFFICES ASSUME TypeOK, GuardMutex, [Next]_vars PROVE GuardMutex'
    OBVIOUS
  <2>0. /\ guard \in [Objs -> BOOLEAN] /\ jobPc \in [Jobs -> JobStates]
        /\ callerPc \in [Callers -> CallerStates]
        /\ callerObj \in [Callers -> Objs \cup {0}]
        /\ nextRun \in [Objs -> Slots]
        /\ \A o \in Objs, s \in Slots : <<o, s>> \in Jobs
    BY DEF TypeOK, Jobs
  <2>1. CASE UNCHANGED <<guard, jobPc, callVars>>
    BY <2>1 DEF GuardMutex, JobHolders, CallerHolders
  <2>2. ASSUME NEW c \in Ctxs, CheckAndRun(c), MayRun(c) PROVE GuardMutex'
    <3>1. \A o \in Claimed : o \in Objs /\ ~guard[o]
      BY DEF Claimed
    <3>2. /\ guard' = [o \in Objs |-> guard[o] \/ o \in Claimed]
          /\ jobPc' = [j \in Jobs |-> IF j \in SlotsOf(Claimed) THEN "run" ELSE jobPc[j]]
          /\ UNCHANGED callVars
      BY <2>2 DEF CheckAndRun, Claim
    <3>3. \A o \in Objs, s \in Slots :
             <<o, s>> \in SlotsOf(Claimed) <=> o \in Claimed /\ s = nextRun[o]
      BY <3>1 DEF SlotsOf
    <3>4. \A o \in Objs, s \in Slots :
             jobPc'[<<o, s>>] = IF o \in Claimed /\ s = nextRun[o] THEN "run"
                                ELSE jobPc[<<o, s>>]
      BY <3>2, <3>3, <2>0 DEF JobHolders, CallerHolders
    <3>5. \A o \in Claimed : JobHolders(o) = {} /\ CallerHolders(o) = {}
      BY <3>1 DEF GuardMutex
    <3>6. \A o \in Claimed : JobHolders(o)' = {nextRun[o]} /\ CallerHolders(o)' = {}
      <4>1. \A o \in Claimed, s \in Slots : jobPc[<<o, s>>] # "run"
        BY <3>1, <3>5 DEF JobHolders
      <4>2. \A o \in Claimed, s \in Slots : jobPc'[<<o, s>>] = "run" <=> s = nextRun[o]
        BY <3>1, <3>4, <4>1, ZenonT(40)
      <4>3. \A o \in Claimed : nextRun[o] \in Slots
        BY <3>1, <2>0
      <4>4. \A o \in Claimed : JobHolders(o)' = {nextRun[o]}
        BY <4>2, <4>3 DEF JobHolders
      <4>5. \A o \in Claimed : CallerHolders(o)' = {}
        BY <3>2, <3>5 DEF CallerHolders
      <4> QED BY <4>4, <4>5
    <3>7. \A o \in Objs \ Claimed :
             JobHolders(o)' = JobHolders(o) /\ CallerHolders(o)' = CallerHolders(o)
      BY <3>2, <3>4 DEF JobHolders, CallerHolders
    <3>8. \A o \in Objs : guard'[o] <=> guard[o] \/ o \in Claimed
      BY <3>2
    <3> QED BY <3>6, <3>7, <3>8 DEF GuardMutex
  <2>3. ASSUME NEW j \in Jobs, JobFinish(j) PROVE GuardMutex'
    <3>1. PICK o \in Objs, s \in Slots : j = <<o, s>>
      BY DEF Jobs
    <3>2. /\ jobPc[<<o, s>>] = "run"
          /\ jobPc' = [jobPc EXCEPT ![<<o, s>>] = "released"]
          /\ guard' = [guard EXCEPT ![o] = FALSE]
          /\ UNCHANGED callVars
      BY <2>3, <3>1 DEF JobFinish
    <3>3. JobHolders(o) = {s} /\ CallerHolders(o) = {}
      BY <3>2 DEF GuardMutex, JobHolders
    <3>4. JobHolders(o)' = {} /\ CallerHolders(o)' = {}
      BY <3>2, <3>3, <2>0 DEF JobHolders, CallerHolders
    <3>5. \A p \in Objs \ {o} :
             JobHolders(p)' = JobHolders(p) /\ CallerHolders(p)' = CallerHolders(p)
      BY <3>2, <2>0 DEF JobHolders, CallerHolders
    <3> QED BY <3>2, <3>4, <3>5, <2>0 DEF GuardMutex
  <2>4. ASSUME NEW j \in Jobs, JobDone(j) PROVE GuardMutex'
    <3>1. \A o \in Objs : JobHolders(o)' = JobHolders(o) /\ CallerHolders(o)' = CallerHolders(o)
      BY <2>4, <2>0 DEF JobDone, JobHolders, CallerHolders
    <3> QED BY <2>4, <3>1 DEF GuardMutex, JobDone
  <2>5. ASSUME NEW m \in Callers, NEW n \in Names, RunTaskLookup(m, n) PROVE GuardMutex'
    <3>1. \A o \in Objs : JobHolders(o)' = JobHolders(o) /\ CallerHolders(o)' = CallerHolders(o)
      BY <2>5, <2>0 DEF RunTaskLookup, JobHolders, CallerHolders
    <3> QED BY <2>5, <3>1 DEF GuardMutex, RunTaskLookup
  <2>6. ASSUME NEW m \in Callers, RunTaskBusy(m) PROVE GuardMutex'
    <3>1. \A o \in Objs : JobHolders(o)' = JobHolders(o) /\ CallerHolders(o)' = CallerHolders(o)
      BY <2>6, <2>0 DEF RunTaskBusy, JobHolders, CallerHolders
    <3> QED BY <2>6, <3>1 DEF GuardMutex, RunTaskBusy
  <2>7. ASSUME NEW m \in Callers, RunTaskClaim(m) PROVE GuardMutex'
    <3>0. PICK q : q = callerObj[m]
      OBVIOUS
    <3>1. q \in Objs => JobHolders(q) = {} /\ CallerHolders(q) = {}
      BY <3>0, <2>7 DEF RunTaskClaim, GuardMutex
    <3>2. q \in Objs => JobHolders(q)' = {} /\ CallerHolders(q)' = {m} /\ guard'[q]
      BY <3>0, <2>7, <3>1, <2>0 DEF RunTaskClaim, JobHolders, CallerHolders
    <3>3. \A o \in Objs \ {q} : /\ JobHolders(o)' = JobHolders(o)
                                /\ CallerHolders(o)' = CallerHolders(o)
                                /\ guard'[o] <=> guard[o]
      BY <3>0, <2>7, <2>0 DEF RunTaskClaim, JobHolders, CallerHolders
    <3>4. \A o \in Objs : o = q \/ o \in Objs \ {q}
      OBVIOUS
    <3> QED BY <3>2, <3>3, <3>4 DEF GuardMutex
  <2>8. ASSUME NEW m \in Callers, RunTaskFinish(m) PROVE GuardMutex'
    <3>0. PICK q : q = callerObj[m]
      OBVIOUS
    <3>1. q \in Objs => JobHolders(q) = {} /\ CallerHolders(q) = {m}
      <4>1. m \in CallerHolders(q)
        BY <3>0, <2>8 DEF RunTaskFinish, CallerHolders
      <4> QED BY <4>1 DEF GuardMutex
    <3>2. q \in Objs => JobHolders(q)' = {} /\ CallerHolders(q)' = {} /\ ~guard'[q]
      BY <3>0, <2>8, <3>1, <2>0 DEF RunTaskFinish, JobHolders, CallerHolders
    <3>3. \A o \in Objs \ {q} : /\ JobHolders(o)' = JobHolders(o)
                                /\ CallerHolders(o)' = CallerHolders(o)
                                /\ guard'[o] <=> guard[o]
      BY <3>0, <2>8, <2>0 DEF RunTaskFinish, JobHolders, CallerHolders
    <3>4. \A o \in Objs : o = q \/ o \in Objs \ {q}
      OBVIOUS
    <3> QED BY <3>2, <3>3, <3>4 DEF GuardMutex
  <2>9. ASSUME NEW c \in Ctxs, CheckAndRun(c), ~MayRun(c) PROVE UNCHANGED <<guard, jobPc, callVars>>
    BY <2>9 DEF CheckAndRun
  <2>10. ASSUME \/ Tick \/ TableStep \/ LifecycleStep \/ UNCHANGED vars
               \/ \E c \in Ctxs : LoopExit(c) \/ WaitEnter(c) \/ WaitWake(c)
         PROVE UNCHANGED <<guard, jobPc, callVars>>
    BY <2>10 DEF Tick, TableStep, LifecycleStep, vars, LoopExit, WaitEnter, WaitWake, AddTask,
       RemoveTask, EnableTask, DisableTask, Start, StopBegin, StopCancel, StopReturnsTrue,
       StopTimesOut
  <2> QED BY <2>1, <2>2, <2>3, <2>4, <2>5, <2>6, <2>7, <2>8, <2>9, <2>10
          DEF Next, LoopStep, JobStep, CallerStep
<1> QED BY <1>1, <1>2, TypeInvariant, PTL DEF Spec

-----------------------------------------------------------------------------
(* What a Stop has still to reach: contexts are used in order, the current  *)
(* one is not cancelled while the scheduler runs, and a loop or a job that  *)
(* lives has the current context, until a Stop has cancelled that one too.  *)
Contexts ==
    /\ cancelled \subseteq 1 .. ctx
    /\ running => ctx \notin cancelled /\ stopPc = "none"
    /\ stopPc = "cancel" => stopCtx = ctx
    /\ LiveLoops \subseteq cancelled \cup {ctx}
    /\ ~running /\ stopPc # "cancel" => LiveLoops \subseteq cancelled

(* The slots of live jobs have passed, and NextRun is beyond them but never *)
(* more than one period ahead of the clock: every claim takes a new slot.   *)
SlotsArePast ==
    /\ \A o \in Objs, s \in Slots : jobPc[<<o, s>>] # "none" => s < now /\ s < nextRun[o]
    /\ \A o \in Objs : nextRun[o] <= now + Period

(* The Wait of a Stop has returned only when nothing was left, and nothing  *)
(* is added before that Stop returns.                                       *)
WaitSawZero == ~crashed /\ stopPc = "wait" /\ waiter[stopCtx] = "done" => wg = 0

CronInv ==
    /\ TypeOK
    /\ Contexts
    /\ StopReachesHandlers
    /\ SlotsArePast
    /\ WgCountsGoroutines
    /\ WaitSawZero

LEMMA ContextsStep == TypeOK /\ Contexts /\ [Next]_vars => Contexts'
<1> SUFFICES ASSUME TypeOK, Contexts, [Next]_vars PROVE Contexts'
  OBVIOUS
<1> USE DEF Contexts, taskVars, jobVars, stopVars, callVars
<1>0. /\ ctx \in Ctxs /\ cancelled \subseteq Ctxs /\ loop \in [Ctxs -> LoopStates]
      /\ Ctxs = 1 .. MaxCtx /\ MaxCtx \in Nat
  BY SchedulerAssumption DEF TypeOK, Ctxs
<1>1. CASE UNCHANGED <<running, ctx, cancelled, loop, stopPc, stopCtx>>
  BY <1>1 DEF LiveLoops
<1>2. CASE Start
  <2>1. LiveLoops' = LiveLoops \cup {ctx'}
    BY <1>2, <1>0 DEF Start, LiveLoops
  <2>2. ctx' \notin cancelled /\ (ctx' = ctx \/ ctx' = ctx + 1)
    BY <1>2, <1>0 DEF Start
  <2> QED BY <1>2, <1>0, <2>1, <2>2 DEF Start
<1>3. ASSUME NEW timed \in BOOLEAN, StopBegin(timed) PROVE Contexts'
  BY <1>3 DEF StopBegin, LiveLoops
<1>4. CASE StopCancel
  <2>1. LiveLoops' = LiveLoops /\ cancelled' = cancelled \cup {ctx}
    BY <1>4 DEF StopCancel, LiveLoops
  <2>2. ~running /\ UNCHANGED <<running, ctx>> /\ stopPc' = "wait"
    BY <1>4 DEF StopCancel
  <2> QED BY <1>0, <2>1, <2>2
<1>5. CASE StopReturnsTrue \/ StopTimesOut
  <2>1. LiveLoops' = LiveLoops /\ UNCHANGED <<ctx, cancelled, running>>
    BY <1>5 DEF StopReturnsTrue, StopTimesOut, LiveLoops
  <2>2. ~running /\ LiveLoops \subseteq cancelled /\ stopPc' = "none"
    BY <1>5 DEF StopReturnsTrue, StopTimesOut, StopOver
  <2> QED BY <2>1, <2>2
<1>6. ASSUME NEW c \in Ctxs, LoopExit(c) PROVE Contexts'
  <2>1. LiveLoops' \subseteq LiveLoops
    BY <1>6, <1>0 DEF LoopExit, LiveLoops
  <2> QED BY <1>6, <2>1 DEF LoopExit
<1>7. ASSUME \/ Tick \/ TableStep \/ JobStep \/ CallerStep \/ UNCHANGED vars
             \/ \E c \in Ctxs : CheckAndRun(c) \/ WaitEnter(c) \/ WaitWake(c)
      PROVE UNCHANGED <<running, ctx, cancelled, loop, stopPc, stopCtx>>
  BY <1>7 DEF Tick, TableStep, JobStep, CallerStep, vars, CheckAndRun, WaitEnter, WaitWake,
     AddTask, RemoveTask, EnableTask, DisableTask, JobFinish, JobDone, RunTaskLookup,
     RunTaskBusy, RunTaskClaim, RunTaskFinish
<1> QED BY <1>1, <1>2, <1>3, <1>4, <1>5, <1>6, <1>7 DEF Next, LifecycleStep, LoopStep

(* A pass that may run is the pass of the current context. *)
LEMMA MayRunIsCurrent ==
    ASSUME Contexts, NEW c \in Ctxs, loop[c] = "live", MayRun(c)
    PROVE  running /\ c = ctx /\ ctx \notin cancelled /\ stopPc = "none"
BY DEF Contexts, MayRun, LiveLoops

(* Which jobs a pass spawns, and that their slots were free. *)
LEMMA ClaimSpawns ==
    ASSUME TypeOK, SlotsArePast, NEW c \in Ctxs, CheckAndRun(c), MayRun(c)
    PROVE  /\ LiveJobs' = LiveJobs \cup SlotsOf(Claimed)
           /\ LiveJobs \cap SlotsOf(Claimed) = {}
           /\ \A j \in LiveJobs : jobCtx'[j] = jobCtx[j]
           /\ \A j \in SlotsOf(Claimed) : jobCtx'[j] = c
<1>1. /\ jobPc' = [j \in Jobs |-> IF j \in SlotsOf(Claimed) THEN "run" ELSE jobPc[j]]
      /\ jobCtx' = [j \in Jobs |-> IF j \in SlotsOf(Claimed) THEN c ELSE jobCtx[j]]
  BY DEF CheckAndRun, Claim
<1>2. SlotsOf(Claimed) \subseteq Jobs /\ nextRun \in [Objs -> Slots] /\ Slots \subseteq Nat
  BY SpawnedFinite, FiniteSlots DEF TypeOK, Claimed
<1>3. \A j \in SlotsOf(Claimed) : jobPc[j] = "none"
  <2> SUFFICES ASSUME NEW o \in Claimed PROVE jobPc[<<o, nextRun[o]>>] = "none"
    BY DEF SlotsOf
  <2>1. o \in Objs
    BY DEF Claimed
  <2>2. nextRun[o] \in Slots /\ nextRun[o] \in Nat
    BY <1>2, <2>1
  <2>3. ~(nextRun[o] < nextRun[o])
    BY <2>2
  <2>4. jobPc[<<o, nextRun[o]>>] # "none" => nextRun[o] < nextRun[o]
    BY <2>1, <2>2 DEF SlotsArePast
  <2> QED BY <2>3, <2>4
<1> QED BY <1>1, <1>2, <1>3 DEF LiveJobs

LEMMA ReachStep ==
    TypeOK /\ Contexts /\ SlotsArePast /\ StopReachesHandlers /\ [Next]_vars
    => StopReachesHandlers'
<1> SUFFICES ASSUME TypeOK, Contexts, SlotsArePast, StopReachesHandlers, [Next]_vars
             PROVE  StopReachesHandlers'
  OBVIOUS
<1> USE DEF taskVars, jobVars, stopVars, callVars
<1>0. /\ jobPc \in [Jobs -> JobStates] /\ jobCtx \in [Jobs -> Ctxs \cup {0}]
      /\ \A j \in LiveJobs : jobCtx[j] \in cancelled \cup {ctx}
      /\ ~running /\ stopPc # "cancel" => \A j \in LiveJobs : jobCtx[j] \in cancelled
  BY DEF TypeOK, StopReachesHandlers
<1>1. CASE UNCHANGED <<running, ctx, cancelled, stopPc, jobVars>>
  BY <1>1 DEF StopReachesHandlers, LiveJobs
<1>2. CASE Start \/ StopCancel \/ StopReturnsTrue \/ StopTimesOut
           \/ \E timed \in BOOLEAN : StopBegin(timed)
  <2>1. LiveJobs' = LiveJobs /\ UNCHANGED jobCtx
    BY <1>2 DEF Start, StopCancel, StopReturnsTrue, StopTimesOut, StopBegin, LiveJobs
  <2> QED BY <1>0, <1>2, <2>1 DEF StopReachesHandlers, Start, StopCancel, StopReturnsTrue,
          StopTimesOut, StopBegin, StopOver, Contexts
<1>3. ASSUME NEW c \in Ctxs, CheckAndRun(c), MayRun(c) PROVE StopReachesHandlers'
  <2>1. running /\ c = ctx /\ ctx \notin cancelled /\ UNCHANGED <<running, ctx, cancelled, stopPc>>
    BY <1>3, MayRunIsCurrent DEF CheckAndRun
  <2> QED BY <1>0, <1>3, <2>1, ClaimSpawns DEF StopReachesHandlers
<1>4. ASSUME NEW j \in Jobs, JobFinish(j) \/ JobDone(j) PROVE StopReachesHandlers'
  <2>1. LiveJobs' \subseteq LiveJobs /\ \A k \in LiveJobs' : jobCtx'[k] = jobCtx[k]
    BY <1>0, <1>4 DEF JobFinish, JobDone, LiveJobs
  <2> QED BY <1>0, <1>4, <2>1 DEF StopReachesHandlers, JobFinish, JobDone
<1>5. ASSUME \/ Tick \/ TableStep \/ CallerStep \/ UNCHANGED vars
             \/ \E c \in Ctxs : \/ CheckAndRun(c) /\ ~MayRun(c)
                                \/ LoopExit(c) \/ WaitEnter(c) \/ WaitWake(c)
      PROVE UNCHANGED <<running, ctx, cancelled, stopPc, jobVars>>
  BY <1>5 DEF Tick, TableStep, CallerStep, vars, CheckAndRun, LoopExit, WaitEnter, WaitWake,
     AddTask, RemoveTask, EnableTask, DisableTask, RunTaskLookup, RunTaskBusy, RunTaskClaim,
     RunTaskFinish
<1> QED BY <1>1, <1>2, <1>3, <1>4, <1>5 DEF Next, LifecycleStep, LoopStep, JobStep

(* NextRun only moves forward, and a spawn moves it past its own slot. *)
LEMMA SlotsStep ==
    TypeOK /\ SlotsArePast /\ [Next]_vars
    => /\ SlotsArePast'
       /\ \A o \in 1 .. created :
            /\ nextRun'[o] >= nextRun[o]
            /\ \A s \in Slots : jobPc[<<o, s>>] = "none" /\ jobPc'[<<o, s>>] # "none"
                    => s = nextRun[o] /\ nextRun'[o] > s
<1> DEFINE Forward ==
        \A o \in 1 .. created :
            /\ nextRun'[o] >= nextRun[o]
            /\ \A s \in Slots : jobPc[<<o, s>>] = "none" /\ jobPc'[<<o, s>>] # "none"
                    => s = nextRun[o] /\ nextRun'[o] > s
<1> SUFFICES ASSUME TypeOK, SlotsArePast, [Next]_vars PROVE SlotsArePast' /\ Forward
  OBVIOUS
<1> USE DEF taskVars, jobVars, stopVars, callVars
<1>0. /\ now \in Nat /\ Period \in Nat \ {0} /\ created \in Nat /\ 1 .. created \subseteq Objs
      /\ nextRun \in [Objs -> Slots] /\ jobPc \in [Jobs -> JobStates]
      /\ Slots \subseteq Nat /\ Objs = 1 .. MaxTasks /\ MaxTasks \in Nat
      /\ \A o \in Objs, s \in Slots : <<o, s>> \in Jobs
  BY FiniteSlots, SchedulerAssumption DEF TypeOK, Jobs, Objs
<1>a. \A o \in Objs : nextRun[o] \in Nat /\ nextRun[o] <= now + Period
  BY <1>0 DEF SlotsArePast
<1>1. CASE UNCHANGED <<now, nextRun, jobPc>>
  BY <1>0, <1>a, <1>1 DEF SlotsArePast
<1>2. CASE Tick
  BY <1>0, <1>a, <1>2 DEF Tick, SlotsArePast
<1>3. ASSUME NEW n \in Names, AddTask(n) PROVE SlotsArePast' /\ Forward
  <2>1. /\ UNCHANGED <<now, jobPc>> /\ created + 1 \notin 1 .. created
        /\ nextRun' = [nextRun EXCEPT ![created + 1] = now + Period]
    BY <1>0, <1>3 DEF AddTask, ScheduleNext
  <2> QED BY <1>0, <1>a, <2>1 DEF SlotsArePast
<1>4. ASSUME NEW n \in Names, EnableTask(n) PROVE SlotsArePast' /\ Forward
  <2>1. /\ UNCHANGED <<now, jobPc>>
        /\ nextRun' = [nextRun EXCEPT ![tasks[n]] = now + Period]
    BY <1>4 DEF EnableTask, ScheduleNext
  <2> QED BY <1>0, <1>a, <2>1 DEF SlotsArePast
<1>5. ASSUME NEW c \in Ctxs, CheckAndRun(c), MayRun(c) PROVE SlotsArePast' /\ Forward
  <2>1. /\ nextRun' = [o \in Objs |-> IF o \in Claimed THEN nextRun[o] + Period ELSE nextRun[o]]
        /\ jobPc' = [j \in Jobs |-> IF j \in SlotsOf(Claimed) THEN "run" ELSE jobPc[j]]
        /\ now' = now
    BY <1>5 DEF CheckAndRun, Claim, ScheduleNext
  <2>2. \A o \in Claimed : o \in Objs /\ nextRun[o] < now
    BY DEF Claimed, Due
  <2>3. \A o \in Objs, s \in Slots :
            jobPc'[<<o, s>>] = IF o \in Claimed /\ s = nextRun[o] THEN "run" ELSE jobPc[<<o, s>>]
    BY <1>0, <2>1 DEF SlotsOf
  <2>4. \A o \in Objs : nextRun'[o] >= nextRun[o] /\ nextRun'[o] <= now + Period
                        /\ (o \in Claimed => nextRun'[o] > nextRun[o])
    BY <1>0, <1>a, <2>1, <2>2
  <2>5. \A o \in Objs, s \in Slots : jobPc'[<<o, s>>] # "none" => s < now /\ s < nextRun'[o]
    <3> SUFFICES ASSUME NEW o \in Objs, NEW s \in Slots, jobPc'[<<o, s>>] # "none"
                 PROVE  s < now /\ s < nextRun'[o]
      OBVIOUS
    <3>1. CASE o \in Claimed /\ s = nextRun[o]
      BY <3>1, <2>2, <2>4
    <3>2. CASE ~(o \in Claimed /\ s = nextRun[o])
      <4>1. s < now /\ s < nextRun[o]
        BY <3>2, <2>3 DEF SlotsArePast
      <4>2. s \in Nat /\ nextRun[o] \in Nat /\ nextRun'[o] \in Nat
        BY <1>0, <1>a, <2>1
      <4> QED BY <4>1, <4>2, <2>4
    <3> QED BY <3>1, <3>2
  <2>6. SlotsArePast'
    BY <2>1, <2>4, <2>5 DEF SlotsArePast
  <2>7. Forward
    BY <1>0, <2>3, <2>4
  <2> QED BY <2>6, <2>7
<1>6. ASSUME NEW j \in Jobs, JobFinish(j) \/ JobDone(j) PROVE SlotsArePast' /\ Forward
  <2>1. UNCHANGED <<now, nextRun>> /\ \A k \in Jobs : jobPc'[k] # "none" => jobPc[k] # "none"
    BY <1>0, <1>6 DEF JobFinish, JobDone
  <2>2. \A o \in Objs, s \in Slots : jobPc'[<<o, s>>] # "none" => jobPc[<<o, s>>] # "none"
    BY <1>0, <2>1
  <2> QED BY <1>0, <1>a, <2>1, <2>2 DEF SlotsArePast
<1>7. ASSUME \/ LifecycleStep \/ CallerStep \/ UNCHANGED vars
             \/ \E n \in Names : RemoveTask(n) \/ DisableTask(n)
             \/ \E c \in Ctxs : \/ CheckAndRun(c) /\ ~MayRun(c)
                                \/ LoopExit(c) \/ WaitEnter(c) \/ WaitWake(c)
      PROVE UNCHANGED <<now, nextRun, jobPc>>
  BY <1>7 DEF LifecycleStep, CallerStep, vars, CheckAndRun, LoopExit, WaitEnter, WaitWake,
     RemoveTask, DisableTask, RunTaskLookup, RunTaskBusy, RunTaskClaim, RunTaskFinish, Start,
     StopBegin, StopCancel, StopReturnsTrue, StopTimesOut
<1> QED BY <1>1, <1>2, <1>3, <1>4, <1>5, <1>6, <1>7 DEF Next, TableStep, LoopStep, JobStep

(* Every Add and every Done is that of one loop or of one spawned goroutine. *)
LEMMA CountStep ==
    TypeOK /\ Contexts /\ SlotsArePast /\ WgCountsGoroutines /\ [Next]_vars
    => WgCountsGoroutines'
<1> SUFFICES ASSUME TypeOK, Contexts, SlotsArePast, WgCountsGoroutines, [Next]_vars
             PROVE  WgCountsGoroutines'
  OBVIOUS
<1> USE DEF taskVars, jobVars, stopVars, callVars
<1>0. /\ jobPc \in [Jobs -> JobStates] /\ loop \in [Ctxs -> LoopStates] /\ wg \in Int
      /\ wg = Cardinality(LiveJobs) + Cardinality(LiveLoops)
  BY DEF TypeOK, WgCountsGoroutines
<1>a. /\ IsFiniteSet(LiveJobs) /\ Cardinality(LiveJobs) \in Nat
      /\ IsFiniteSet(LiveLoops) /\ Cardinality(LiveLoops) \in Nat
  <2>1. LiveJobs \subseteq Jobs /\ LiveLoops \subseteq Ctxs
    BY DEF LiveJobs, LiveLoops
  <2> QED BY <2>1, FiniteSlots, FS_Subset, FS_CardinalityType
<1>1. CASE UNCHANGED <<wg, jobPc, loop>>
  BY <1>0, <1>1 DEF WgCountsGoroutines, LiveJobs, LiveLoops
<1>2. CASE Start
  <2>a. ctx' \in Ctxs
    BY <1>2, SchedulerAssumption DEF Start, TypeOK, Ctxs
  <2>1. /\ LiveLoops' = LiveLoops \cup {ctx'} /\ LiveJobs' = LiveJobs
        /\ wg' = wg + 1
    BY <1>0, <1>2, <2>a DEF Start, WgAdd, LiveLoops, LiveJobs
  <2>2. ctx' \notin LiveLoops
    BY <1>2, SchedulerAssumption DEF Start, Contexts, TypeOK, Ctxs
  <2>3. Cardinality(LiveLoops \cup {ctx'}) = Cardinality(LiveLoops) + 1
    BY <2>2, <1>a, FS_AddElement
  <2> QED BY <1>0, <1>a, <2>1, <2>3 DEF WgCountsGoroutines
<1>3. ASSUME NEW c \in Ctxs, LoopExit(c) PROVE WgCountsGoroutines'
  <2>1. /\ LiveLoops' = LiveLoops \ {c} /\ c \in LiveLoops /\ LiveJobs' = LiveJobs
        /\ wg' = wg - 1
    BY <1>0, <1>3 DEF LoopExit, WgDone, LiveLoops, LiveJobs
  <2>2. Cardinality(LiveLoops \ {c}) = Cardinality(LiveLoops) - 1
    BY <2>1, <1>a, FS_RemoveElement
  <2> QED BY <1>0, <1>a, <2>1, <2>2 DEF WgCountsGoroutines
<1>4. ASSUME NEW j \in Jobs, JobDone(j) PROVE WgCountsGoroutines'
  <2>1. /\ LiveJobs' = LiveJobs \ {j} /\ j \in LiveJobs /\ LiveLoops' = LiveLoops
        /\ wg' = wg - 1
    BY <1>0, <1>4 DEF JobDone, WgDone, LiveLoops, LiveJobs
  <2>2. Cardinality(LiveJobs \ {j}) = Cardinality(LiveJobs) - 1
    BY <2>1, <1>a, FS_RemoveElement
  <2> QED BY <1>0, <1>a, <2>1, <2>2 DEF WgCountsGoroutines
<1>5. ASSUME NEW j \in Jobs, JobFinish(j) PROVE WgCountsGoroutines'
  <2>1. LiveJobs' = LiveJobs /\ LiveLoops' = LiveLoops /\ wg' = wg
    BY <1>0, <1>5 DEF JobFinish, LiveLoops, LiveJobs
  <2> QED BY <1>0, <2>1 DEF WgCountsGoroutines
<1>6. ASSUME NEW c \in Ctxs, CheckAndRun(c), MayRun(c) PROVE WgCountsGoroutines'
  <2>1. /\ LiveJobs' = LiveJobs \cup SlotsOf(Claimed)
        /\ LiveJobs \cap SlotsOf(Claimed) = {}
    BY <1>6, ClaimSpawns
  <2>2. IsFiniteSet(SlotsOf(Claimed)) /\ Cardinality(SlotsOf(Claimed)) \in Nat
    BY SpawnedFinite DEF Claimed, TypeOK
  <2>a. Cardinality(LiveJobs \cup SlotsOf(Claimed))
            = Cardinality(LiveJobs) + Cardinality(SlotsOf(Claimed)) - Cardinality({})
    BY <2>1, <2>2, <1>a, FS_Union
  <2>3. Cardinality(LiveJobs') = Cardinality(LiveJobs) + Cardinality(SlotsOf(Claimed))
    BY <2>1, <2>2, <2>a, <1>a, FS_EmptySet
  <2>4. wg' = wg + Cardinality(SlotsOf(Claimed)) /\ LiveLoops' = LiveLoops
    BY <1>6 DEF CheckAndRun, Claim, WgAdd, LiveLoops
  <2> QED BY <1>0, <1>a, <2>2, <2>3, <2>4 DEF WgCountsGoroutines
<1>7. ASSUME \/ Tick \/ TableStep \/ CallerStep \/ UNCHANGED vars
             \/ StopCancel \/ StopReturnsTrue \/ StopTimesOut
             \/ \E timed \in BOOLEAN : StopBegin(timed)
             \/ \E c \in Ctxs : (CheckAndRun(c) /\ ~MayRun(c)) \/ WaitEnter(c) \/ WaitWake(c)
      PROVE UNCHANGED <<wg, jobPc, loop>>
  BY <1>7 DEF Tick, TableStep, CallerStep, vars, CheckAndRun, WaitEnter, WaitWake,
     AddTask, RemoveTask, EnableTask, DisableTask, RunTaskLookup, RunTaskBusy, RunTaskClaim,
     RunTaskFinish, StopCancel, StopReturnsTrue, StopTimesOut, StopBegin
<1> QED BY <1>1, <1>2, <1>3, <1>4, <1>5, <1>6, <1>7
        DEF Next, LifecycleStep, LoopStep, JobStep

(* At a count of zero nothing lives. *)
LEMMA ZeroMeansGone ==
    ASSUME TypeOK, WgCountsGoroutines, wg = 0
    PROVE  LiveJobs = {} /\ LiveLoops = {}
<1>1. LiveJobs \subseteq Jobs /\ LiveLoops \subseteq Ctxs
  BY DEF LiveJobs, LiveLoops
<1>2. /\ IsFiniteSet(LiveJobs) /\ Cardinality(LiveJobs) \in Nat
      /\ IsFiniteSet(LiveLoops) /\ Cardinality(LiveLoops) \in Nat
  BY <1>1, FiniteSlots, FS_Subset, FS_CardinalityType
<1>3. Cardinality(LiveJobs) = 0 /\ Cardinality(LiveLoops) = 0
  BY <1>2 DEF WgCountsGoroutines
<1> QED BY <1>2, <1>3, FS_EmptySet

LEMMA WaitStep ==
    TypeOK /\ Contexts /\ WgCountsGoroutines /\ WaitSawZero /\ [Next]_vars => WaitSawZero'
<1> SUFFICES ASSUME TypeOK, Contexts, WgCountsGoroutines, WaitSawZero, [Next]_vars
             PROVE  WaitSawZero'
  OBVIOUS
<1> USE DEF taskVars, jobVars, stopVars, callVars, StaysUp
<1>0. waiter \in [Ctxs -> WaiterStates] /\ (stopPc # "none" => stopCtx \in Ctxs)
  BY DEF TypeOK
<1>1. CASE UNCHANGED <<wg, waiter, stopPc, stopCtx, crashed>>
  BY <1>1 DEF WaitSawZero
<1>2. CASE Start \/ \E timed \in BOOLEAN : StopBegin(timed)
  BY <1>2 DEF Start, StopBegin, WaitSawZero
<1>3. CASE StopCancel \/ StopReturnsTrue \/ StopTimesOut
  BY <1>0, <1>3 DEF StopCancel, StopReturnsTrue, StopTimesOut, StopOver, WaitSawZero
<1>4. ASSUME NEW c \in Ctxs, CheckAndRun(c), MayRun(c) PROVE WaitSawZero'
  BY <1>4, MayRunIsCurrent DEF CheckAndRun, WaitSawZero
<1>5. ASSUME NEW c \in Ctxs, LoopExit(c) PROVE WaitSawZero'
  <2>1. wg # 0
    BY <1>5, ZeroMeansGone DEF LoopExit, LiveLoops
  <2> QED BY <1>0, <1>5, <2>1 DEF LoopExit, WgDone, WaitSawZero
<1>6. ASSUME NEW j \in Jobs, JobDone(j) PROVE WaitSawZero'
  <2>1. wg # 0
    BY <1>6, ZeroMeansGone DEF JobDone, LiveJobs
  <2> QED BY <1>0, <1>6, <2>1 DEF JobDone, WgDone, WaitSawZero
<1>7. ASSUME NEW c \in Ctxs, WaitEnter(c) PROVE WaitSawZero'
  BY <1>0, <1>7 DEF WaitEnter, WaitSawZero
<1>8. ASSUME NEW c \in Ctxs, WaitWake(c) PROVE WaitSawZero'
  <2>1. crashed' \/ wg' = 0
    BY <1>8 DEF WaitWake
  <2> QED BY <2>1 DEF WaitSawZero
<1>9. ASSUME \/ Tick \/ TableStep \/ CallerStep \/ UNCHANGED vars
             \/ \E j \in Jobs : JobFinish(j)
             \/ \E c \in Ctxs : CheckAndRun(c) /\ ~MayRun(c)
      PROVE UNCHANGED <<wg, waiter, stopPc, stopCtx, crashed>>
  BY <1>9 DEF Tick, TableStep, CallerStep, vars, CheckAndRun, JobFinish,
     AddTask, RemoveTask, EnableTask, DisableTask, RunTaskLookup, RunTaskBusy, RunTaskClaim,
     RunTaskFinish
<1> QED BY <1>1, <1>2, <1>3, <1>4, <1>5, <1>6, <1>7, <1>8, <1>9
        DEF Next, LifecycleStep, LoopStep, JobStep

(* The inductive invariant holds in every reachable state: contexts are       *)
(* cancelled by Stop alone, and the WaitGroup counts the loops and the runs    *)
(* that Stop has to wait for.                                                  *)
THEOREM CronInvariant == Spec => []CronInv
<1>1. Init => CronInv
  <2> SUFFICES ASSUME Init PROVE CronInv
    OBVIOUS
  <2>1. TypeOK
    BY TypeInit
  <2>2. LiveJobs = {} /\ LiveLoops = {}
    BY DEF Init, LiveJobs, LiveLoops
  <2>3. Contexts /\ StopReachesHandlers /\ WaitSawZero
    BY <2>2 DEF Init, Contexts, StopReachesHandlers, WaitSawZero
  <2>4. SlotsArePast
    BY SchedulerAssumption DEF Init, SlotsArePast, Jobs
  <2>5. WgCountsGoroutines
    BY <2>2, FS_EmptySet DEF Init, WgCountsGoroutines
  <2> QED BY <2>1, <2>3, <2>4, <2>5 DEF CronInv
<1>2. CronInv /\ [Next]_vars => CronInv'
  BY TypeStep, ContextsStep, ReachStep, SlotsStep, CountStep, WaitStep DEF CronInv
<1> QED BY <1>1, <1>2, PTL DEF Spec

(* No spawn by a pass whose loop was stopped. *)
LEMMA SpawnStep ==
    CronInv /\ [Next]_vars
    => \A j \in Jobs : jobPc[j] = "none" /\ jobPc'[j] # "none"
            => running /\ jobCtx'[j] = ctx /\ ctx \notin cancelled
<1> SUFFICES ASSUME CronInv, [Next]_vars, NEW j \in Jobs, jobPc[j] = "none", jobPc'[j] # "none"
             PROVE  running /\ jobCtx'[j] = ctx /\ ctx \notin cancelled
  OBVIOUS
<1> USE DEF CronInv, taskVars, jobVars, stopVars, callVars
<1>0. jobPc \in [Jobs -> JobStates]
  BY DEF TypeOK
<1>1. ASSUME NEW c \in Ctxs, CheckAndRun(c), MayRun(c)
      PROVE  running /\ jobCtx'[j] = ctx /\ ctx \notin cancelled
  <2>1. j \in SlotsOf(Claimed)
    BY <1>1, ClaimSpawns DEF LiveJobs
  <2> QED BY <1>1, <2>1, ClaimSpawns, MayRunIsCurrent DEF CheckAndRun
<1>2. ASSUME NEW k \in Jobs, JobFinish(k) \/ JobDone(k) PROVE FALSE
  BY <1>0, <1>2 DEF JobFinish, JobDone
<1>3. ASSUME \/ Tick \/ TableStep \/ CallerStep \/ LifecycleStep \/ UNCHANGED vars
             \/ \E c \in Ctxs : \/ CheckAndRun(c) /\ ~MayRun(c)
                                \/ LoopExit(c) \/ WaitEnter(c) \/ WaitWake(c)
      PROVE FALSE
  <2>1. UNCHANGED jobPc
    BY <1>3 DEF Tick, TableStep, CallerStep, LifecycleStep, vars, CheckAndRun, LoopExit,
       WaitEnter, WaitWake, AddTask, RemoveTask, EnableTask, DisableTask, RunTaskLookup,
       RunTaskBusy, RunTaskClaim, RunTaskFinish, Start, StopBegin, StopCancel,
       StopReturnsTrue, StopTimesOut
  <2> QED BY <2>1
<1> QED BY <1>1, <1>2, <1>3 DEF Next, LoopStep, JobStep

(* For any number of tasks, restarts and callers: the WaitGroup counts what *)
(* lives, every live handler has the current context or a cancelled one, no *)
(* pass spawns anything once its loop was stopped, and a Stop that returns  *)
(* true leaves neither a loop nor a spawned goroutine.                      *)
THEOREM StopRespected == Spec => StopIsRespected
<1>1. CronInv => WgCountsGoroutines /\ StopReachesHandlers
  BY DEF CronInv
<1>2. CronInv /\ [Next]_vars => [StopReturnsTrue => LiveJobs = {} /\ LiveLoops = {}]_vars
  <2> SUFFICES ASSUME CronInv, StopReturnsTrue PROVE LiveJobs = {} /\ LiveLoops = {}
    OBVIOUS
  <2>1. wg = 0
    BY DEF CronInv, WaitSawZero, StopReturnsTrue, StaysUp
  <2> QED BY <2>1, ZeroMeansGone DEF CronInv
<1> QED BY <1>1, <1>2, SpawnStep, CronInvariant, PTL
        DEF Spec, StopIsRespected, NoSpawnAfterStop, StopTrueMeansLoopAndJobsGone

(* No slot of a task is run twice, and NextRun never moves back, whatever   *)
(* the order of edits, passes and ticks.                                    *)
THEOREM NextRunOnlyAdvances == Spec => NextRunAdvances
BY SlotsStep, CronInvariant, PTL DEF Spec, CronInv, NextRunAdvances
=============================================================================
