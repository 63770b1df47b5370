--------------------------- MODULE CronScheduler ---------------------------
(***************************************************************************)
(* The scheduler of cron/cron.go: a table of tasks, a polling loop started *)
(* and stopped by Start and StopWithTimeout, the goroutines the loop       *)
(* spawns, and callers that trigger a task by hand with RunTask.           *)
(*                                                                         *)
(* Every section the code runs under s.mu is one step.  Between two such   *)
(* sections anything may happen: the atomic guard of a task, the context   *)
(* and the sync.WaitGroup are touched outside s.mu and have steps of their *)
(* own.  Time is a counter of seconds; a schedule is an IntervalSchedule   *)
(* of Period seconds (module CronSchedules has the other schedules).  The  *)
(* outcome of a handler and the statistics kept of it are abstracted.      *)
(***************************************************************************)
EXTENDS Integers, FiniteSets

CONSTANTS
    Names,       \* names of tasks
    Callers,     \* goroutines that call RunTask
    MaxTasks,    \* Task objects AddTask may allocate (bound)
    MaxEdits,    \* calls that change the task table (bound)
    MaxCtx,      \* contexts Start may create (bound)
    MaxTime,     \* the last second of the clock (bound)
    Period,      \* the interval of every schedule, in seconds
    NoTask       \* the absence of a task (a nil *Task)

Objs  == 1 .. MaxTasks
Ctxs  == 1 .. MaxCtx
Slots == 0 .. MaxTime + Period

ASSUME SchedulerAssumption ==
    /\ MaxTasks \in Nat /\ MaxEdits \in Nat /\ MaxCtx \in Nat \ {0}
    /\ MaxTime \in Nat /\ Period \in Nat \ {0}
    /\ IsFiniteSet(Callers)
    /\ NoTask \notin Objs

VARIABLES
    now,        \* time.Now()
    tasks,      \* s.tasks: the object registered under each name, or NoTask
    created,    \* how many Task objects exist
    edits,      \* how often the table was changed
    enabled,    \* Task.Enabled of each object
    nextRun,    \* Task.NextRun of each object
    guard,      \* Task.running of each object: the CAS guard against overlap
    running,    \* s.running
    ctx,        \* s.ctx, as the number of the context
    cancelled,  \* the contexts that were cancelled
    loop,       \* loop[c]: the run loop started with context c
    jobPc,      \* jobPc[<<o, s>>]: the goroutine spawned for o's slot s
    jobCtx,     \* the context that goroutine was given
    wg,         \* the counter of s.wg
    waiter,     \* waiter[c]: the Wait call of the Stop that cancels context c
    stopPc,     \* where the Stop call is that holds lifecycleMu, "none" if free
    stopCtx,    \* the context that call cancels
    stopTimed,  \* whether it waits with a timeout
    callerPc,   \* where each RunTask caller is
    callerObj,  \* the object it looked up
    crashed     \* sync.WaitGroup panicked: the process is gone

taskVars == <<tasks, created, edits, enabled, nextRun>>
jobVars  == <<jobPc, jobCtx>>
stopVars == <<stopPc, stopCtx, stopTimed>>
callVars == <<callerPc, callerObj>>
vars == <<now, tasks, created, edits, enabled, nextRun, guard, running, ctx,
          cancelled, loop, jobPc, jobCtx, wg, waiter, stopPc, stopCtx, stopTimed,
          callerPc, callerObj, crashed>>

LoopStates   == {"none", "live", "exited"}
JobStates    == {"none", "run", "released"}
WaiterStates == {"none", "start", "parked", "woken", "done"}
StopStates   == {"none", "cancel", "wait"}
CallerStates == {"idle", "found", "run"}
Jobs         == Objs \X Slots

-----------------------------------------------------------------------------
Init ==
    /\ now = 0
    /\ tasks = [n \in Names |-> NoTask]
    /\ created = 0
    /\ edits = 0
    /\ enabled = [o \in Objs |-> FALSE]
    /\ nextRun = [o \in Objs |-> 0]
    /\ guard = [o \in Objs |-> FALSE]
    /\ running = FALSE
    /\ ctx = 1
    /\ cancelled = {}
    /\ loop = [c \in Ctxs |-> "none"]
    /\ jobPc = [j \in Jobs |-> "none"]
    /\ jobCtx = [j \in Jobs |-> 0]
    /\ wg = 0
    /\ waiter = [c \in Ctxs |-> "none"]
    /\ stopPc = "none" /\ stopCtx = 0 /\ stopTimed = FALSE
    /\ callerPc = [m \in Callers |-> "idle"]
    /\ callerObj = [m \in Callers |-> 0]
    /\ crashed = FALSE

(* A step of a process that sync.WaitGroup has not brought down. *)
StaysUp == ~crashed /\ UNCHANGED crashed

Tick ==
    /\ now < MaxTime
    /\ now' = now + 1
    /\ UNCHANGED <<taskVars, guard, running, ctx, cancelled, loop, jobVars,
                   wg, waiter, stopVars, callVars>>
    /\ StaysUp

ScheduleNextSame(t) == t               \* mutant: Next returns the slot itself
ScheduleNextLate(t) == t + Period + 1  \* mutant: off by one second

(* IntervalSchedule.Next *)
ScheduleNext(t) == t + Period

-----------------------------------------------------------------------------
(* A call that changes the table, within the bound. *)
Edit == edits < MaxEdits /\ edits' = edits + 1

(* The task table.  AddTask over an existing name replaces the entry by a  *)
(* new object with a guard of its own; goroutines that still run the old   *)
(* object keep it.                                                         *)

AddTask(n) ==
    /\ Edit
    /\ created < MaxTasks
    /\ created' = created + 1
    /\ tasks' = [tasks EXCEPT ![n] = created']
    /\ enabled' = [enabled EXCEPT ![created'] = TRUE]
    /\ nextRun' = [nextRun EXCEPT ![created'] = ScheduleNext(now)]
    /\ UNCHANGED <<now, guard, running, ctx, cancelled, loop, jobVars, wg,
                   waiter, stopVars, callVars>>
    /\ StaysUp

RemoveTask(n) ==
    /\ Edit
    /\ tasks[n] # NoTask
    /\ tasks' = [tasks EXCEPT ![n] = NoTask]
    /\ UNCHANGED <<now, created, enabled, nextRun, guard, running, ctx, cancelled,
                   loop, jobVars, wg, waiter, stopVars, callVars>>
    /\ StaysUp

EnableTask(n) ==
    /\ Edit
    /\ tasks[n] # NoTask
    /\ enabled' = [enabled EXCEPT ![tasks[n]] = TRUE]
    /\ nextRun' = [nextRun EXCEPT ![tasks[n]] = ScheduleNext(now)]
    /\ UNCHANGED <<now, tasks, created, guard, running, ctx, cancelled, loop,
                   jobVars, wg, waiter, stopVars, callVars>>
    /\ StaysUp

DisableTask(n) ==
    /\ Edit
    /\ tasks[n] # NoTask
    /\ enabled' = [enabled EXCEPT ![tasks[n]] = FALSE]
    /\ UNCHANGED <<now, tasks, created, nextRun, guard, running, ctx, cancelled,
                   loop, jobVars, wg, waiter, stopVars, callVars>>
    /\ StaysUp

-----------------------------------------------------------------------------
(* sync.WaitGroup, as the Go library implements it: the Done that brings   *)
(* the counter to zero wakes the parked Wait calls, and a woken Wait that  *)
(* finds the counter no longer zero panics.                                *)

(* mutant: Add(1) once for a batch of goroutines *)
WgAddOnce(n) == wg' = wg + (IF n = 0 THEN 0 ELSE 1) /\ UNCHANGED waiter

WgAdd(n) == wg' = wg + n /\ UNCHANGED waiter

WgDone ==
    /\ wg' = wg - 1
    /\ waiter' = [c \in Ctxs |-> IF wg = 1 /\ waiter[c] = "parked"
                                 THEN "woken" ELSE waiter[c]]

WaitEnter(c) ==
    /\ waiter[c] = "start"
    /\ waiter' = [waiter EXCEPT ![c] = IF wg = 0 THEN "done" ELSE "parked"]
    /\ UNCHANGED <<now, taskVars, guard, running, ctx, cancelled, loop,
                   jobVars, wg, stopVars, callVars>>
    /\ StaysUp

WaitWake(c) ==
    /\ ~crashed
    /\ waiter[c] = "woken"
    /\ waiter' = [waiter EXCEPT ![c] = "done"]
    /\ crashed' = (wg # 0)
    /\ UNCHANGED <<now, taskVars, guard, running, ctx, cancelled, loop,
                   jobVars, wg, stopVars, callVars>>

-----------------------------------------------------------------------------
(* Start and StopWithTimeout run under lifecycleMu, which a Stop holds     *)
(* until it returns; stopPc = "none" says that lifecycleMu is free.    *)

Start ==
    /\ stopPc = "none"
    /\ ~running
    /\ ctx \in cancelled => ctx < MaxCtx
    /\ ctx' = IF ctx \in cancelled THEN ctx + 1 ELSE ctx
    /\ running' = TRUE
    /\ WgAdd(1)
    /\ loop' = [loop EXCEPT ![ctx'] = "live"]
    /\ UNCHANGED <<now, taskVars, guard, cancelled, jobVars, stopVars,
                   callVars>>
    /\ StaysUp

(* A Stop of a scheduler that is not running returns true and changes      *)
(* nothing.  timed tells timeout > 0 from the unbounded wait.              *)
StopBegin(timed) ==
    /\ stopPc = "none"
    /\ running
    /\ running' = FALSE
    /\ stopPc' = "cancel" /\ stopCtx' = ctx /\ stopTimed' = timed
    /\ UNCHANGED <<now, taskVars, guard, ctx, cancelled, loop, jobVars, wg,
                   waiter, callVars>>
    /\ StaysUp

StopForgetsCancel ==    \* mutant: the context is not cancelled before the wait
    /\ stopPc = "cancel"
    /\ stopPc' = "wait" /\ UNCHANGED <<stopCtx, stopTimed>>
    /\ waiter' = [waiter EXCEPT ![stopCtx] = "start"]
    /\ UNCHANGED <<now, taskVars, guard, running, ctx, cancelled, loop,
                   jobVars, wg, callVars>>
    /\ StaysUp

StopCancel ==
    /\ stopPc = "cancel"
    /\ stopPc' = "wait" /\ UNCHANGED <<stopCtx, stopTimed>>
    /\ cancelled' = cancelled \cup {stopCtx}
    /\ waiter' = [waiter EXCEPT ![stopCtx] = "start"]
    /\ UNCHANGED <<now, taskVars, guard, running, ctx, loop, jobVars, wg,
                   callVars>>
    /\ StaysUp

StopOver == stopPc' = "none" /\ stopCtx' = 0 /\ stopTimed' = FALSE

StopReturnsTrue ==
    /\ stopPc = "wait"
    /\ waiter[stopCtx] = "done"
    /\ StopOver
    /\ UNCHANGED <<now, taskVars, guard, running, ctx, cancelled, loop, jobVars,
                   wg, waiter, callVars>>
    /\ StaysUp

StopTimesOut ==
    /\ stopPc = "wait"
    /\ stopTimed
    /\ StopOver
    /\ UNCHANGED <<now, taskVars, guard, running, ctx, cancelled, loop, jobVars,
                   wg, waiter, callVars>>
    /\ StaysUp

-----------------------------------------------------------------------------
(* The run loop of context c.  Its select takes a tick or the cancellation *)
(* of c, either when both are ready: a pass may start after the Stop.      *)

LoopExitUnasked(c) ==   \* mutant: the loop also leaves when not cancelled
    /\ loop[c] = "live"
    /\ loop' = [loop EXCEPT ![c] = "exited"]
    /\ WgDone
    /\ UNCHANGED <<now, taskVars, guard, running, ctx, cancelled, jobVars,
                   stopVars, callVars>>
    /\ StaysUp

LoopExit(c) ==
    /\ loop[c] = "live"
    /\ c \in cancelled
    /\ loop' = [loop EXCEPT ![c] = "exited"]
    /\ WgDone
    /\ UNCHANGED <<now, taskVars, guard, running, ctx, cancelled, jobVars,
                   stopVars, callVars>>
    /\ StaysUp

Registered == {o \in Objs : \E n \in Names : tasks[n] = o}

Due(o) == o \in Registered /\ enabled[o] /\ nextRun[o] < now

(* mutant: a due task is claimed though it is being executed *)
ClaimedThoughBusy == {o \in Objs : Due(o)}

(* The tasks one pass of checkAndRun claims: due, and their guard free.    *)
(* The code reads the clock just before it takes s.mu; an older reading    *)
(* only leaves a task to the next pass.                                    *)
Claimed == {o \in Objs : Due(o) /\ ~guard[o]}

SlotsOf(batch) == {<<o, nextRun[o]>> : o \in batch}

(* Claiming is one section of s.mu: guard, NextRun and wg.Add together,    *)
(* before any goroutine of the batch is spawned.                           *)
Claim(c, batch) ==
    /\ guard' = [o \in Objs |-> guard[o] \/ o \in batch]
    /\ nextRun' = [o \in Objs |-> IF o \in batch THEN ScheduleNext(nextRun[o])
                                  ELSE nextRun[o]]
    /\ jobPc' = [j \in Jobs |-> IF j \in SlotsOf(batch) THEN "run" ELSE jobPc[j]]
    /\ jobCtx' = [j \in Jobs |-> IF j \in SlotsOf(batch) THEN c ELSE jobCtx[j]]
    /\ WgAdd(Cardinality(SlotsOf(batch)))

(* mutant: neither s.running nor ctx.Err() is looked at *)
MayRunAlways(c) == TRUE

MayRun(c) == running /\ c \notin cancelled

CheckAndRun(c) ==
    /\ loop[c] = "live"
    /\ IF MayRun(c)
       THEN Claim(c, Claimed)
       ELSE UNCHANGED <<guard, nextRun, jobVars, wg, waiter>>
    /\ UNCHANGED <<now, tasks, created, edits, enabled, running, ctx, cancelled, loop,
                   stopVars, callVars>>
    /\ StaysUp

-----------------------------------------------------------------------------
(* A spawned goroutine: the handler returns or panics (recovered), its     *)
(* statistics are stored, and the deferred calls run: guard, then Done.    *)

JobFinish(j) ==
    /\ jobPc[j] = "run"
    /\ jobPc' = [jobPc EXCEPT ![j] = "released"]
    /\ guard' = [guard EXCEPT ![j[1]] = FALSE]
    /\ UNCHANGED <<now, taskVars, running, ctx, cancelled, loop, jobCtx, wg,
                   waiter, stopVars, callVars>>
    /\ StaysUp

JobDone(j) ==
    /\ jobPc[j] = "released"
    /\ jobPc' = [jobPc EXCEPT ![j] = "none"]
    /\ jobCtx' = [jobCtx EXCEPT ![j] = 0]
    /\ WgDone
    /\ UNCHANGED <<now, taskVars, guard, running, ctx, cancelled, loop, stopVars,
                   callVars>>
    /\ StaysUp

-----------------------------------------------------------------------------
(* RunTask: look the task up under s.mu, then take its guard and run the   *)
(* handler on the caller's own goroutine, which s.wg does not count.  The  *)
(* context it runs under (s.ctx at that moment) is abstracted.             *)

RunTaskLookup(m, n) ==
    /\ callerPc[m] = "idle"
    /\ tasks[n] # NoTask
    /\ callerPc' = [callerPc EXCEPT ![m] = "found"]
    /\ callerObj' = [callerObj EXCEPT ![m] = tasks[n]]
    /\ UNCHANGED <<now, taskVars, guard, running, ctx, cancelled, loop, jobVars,
                   wg, waiter, stopVars>>
    /\ StaysUp

RunTaskBusy(m) ==
    /\ callerPc[m] = "found"
    /\ guard[callerObj[m]]
    /\ callerPc' = [callerPc EXCEPT ![m] = "idle"]
    /\ callerObj' = [callerObj EXCEPT ![m] = 0]
    /\ UNCHANGED <<now, taskVars, guard, running, ctx, cancelled, loop, jobVars,
                   wg, waiter, stopVars>>
    /\ StaysUp

RunTaskClaim(m) ==
    /\ callerPc[m] = "found"
    /\ ~guard[callerObj[m]]
    /\ guard' = [guard EXCEPT ![callerObj[m]] = TRUE]
    /\ callerPc' = [callerPc EXCEPT ![m] = "run"]
    /\ UNCHANGED callerObj
    /\ UNCHANGED <<now, taskVars, running, ctx, cancelled, loop, jobVars, wg,
                   waiter, stopVars>>
    /\ StaysUp

RunTaskKeepsGuard(m) == \* mutant: an early return leaves the guard taken
    /\ callerPc[m] = "run"
    /\ callerPc' = [callerPc EXCEPT ![m] = "idle"]
    /\ callerObj' = [callerObj EXCEPT ![m] = 0]
    /\ UNCHANGED <<now, taskVars, guard, running, ctx, cancelled, loop, jobVars,
                   wg, waiter, stopVars>>
    /\ StaysUp

RunTaskFinish(m) ==
    /\ callerPc[m] = "run"
    /\ guard' = [guard EXCEPT ![callerObj[m]] = FALSE]
    /\ callerPc' = [callerPc EXCEPT ![m] = "idle"]
    /\ callerObj' = [callerObj EXCEPT ![m] = 0]
    /\ UNCHANGED <<now, taskVars, running, ctx, cancelled, loop, jobVars, wg,
                   waiter, stopVars>>
    /\ StaysUp

-----------------------------------------------------------------------------
TableStep == \E n \in Names : AddTask(n) \/ RemoveTask(n) \/ EnableTask(n) \/ DisableTask(n)

LifecycleStep ==
    \/ Start
    \/ \E timed \in BOOLEAN : StopBegin(timed)
    \/ StopCancel
    \/ StopReturnsTrue
    \/ StopTimesOut

LoopStep == \E c \in Ctxs : CheckAndRun(c) \/ LoopExit(c)
                            \/ WaitEnter(c) \/ WaitWake(c)

JobStep == \E j \in Jobs : JobFinish(j) \/ JobDone(j)

CallerStep ==
    \E m \in Callers :
        \/ \E n \in Names : RunTaskLookup(m, n)
        \/ RunTaskBusy(m) \/ RunTaskClaim(m) \/ RunTaskFinish(m)

Next == Tick \/ TableStep \/ LifecycleStep \/ LoopStep \/ JobStep \/ CallerStep

Spec == Init /\ [][Next]_vars

(* Steps the scheduler's goroutines take by themselves.  A handler must    *)
(* return once its context is cancelled (the doc of Stop asks for it) and  *)
(* need not return before.                                                 *)
GoroutineStep ==
    \/ StopCancel \/ StopReturnsTrue
    \/ \E c \in Ctxs : CheckAndRun(c) \/ LoopExit(c) \/ WaitEnter(c) \/ WaitWake(c)
    \/ \E j \in Jobs : JobDone(j) \/ (jobCtx[j] \in cancelled /\ JobFinish(j))

(* The Go runtime keeps running ready goroutines; nothing is assumed of    *)
(* the callers of Start, Stop, RunTask and the task table, nor of a        *)
(* handler whose context is alive.                                         *)
Fairness == WF_vars(GoroutineStep)

FairSpec == Spec /\ Fairness

-----------------------------------------------------------------------------
(* Who executes an object's handler under its guard. *)
JobHolders(o)    == {s \in Slots : jobPc[<<o, s>>] = "run"}
CallerHolders(o) == {m \in Callers : callerPc[m] = "run" /\ callerObj[m] = o}

LiveJobs  == {j \in Jobs : jobPc[j] # "none"}
LiveLoops == {c \in Ctxs : loop[c] = "live"}

TypeOK ==
    /\ now \in 0 .. MaxTime
    /\ tasks \in [Names -> Objs \cup {NoTask}]
    /\ created \in 0 .. MaxTasks
    /\ edits \in 0 .. MaxEdits
    /\ enabled \in [Objs -> BOOLEAN]
    /\ nextRun \in [Objs -> Slots]
    /\ guard \in [Objs -> BOOLEAN]
    /\ running \in BOOLEAN
    /\ ctx \in Ctxs
    /\ cancelled \subseteq Ctxs
    /\ loop \in [Ctxs -> LoopStates]
    /\ jobPc \in [Jobs -> JobStates]
    /\ jobCtx \in [Jobs -> Ctxs \cup {0}]
    /\ wg \in Int
    /\ waiter \in [Ctxs -> WaiterStates]
    /\ stopPc \in StopStates
    /\ stopCtx \in Ctxs \cup {0}
    /\ stopPc # "none" => stopCtx \in Ctxs
    /\ stopTimed \in BOOLEAN
    /\ callerPc \in [Callers -> CallerStates]
    /\ callerObj \in [Callers -> Objs \cup {0}]
    /\ crashed \in BOOLEAN

(* C12b: one task object is never executed twice at the same time, by the  *)
(* loop or by RunTask, and its guard is taken exactly while it is executed *)
(* (a guard left taken would silence the task for ever).                   *)
GuardMutex ==
    \A o \in Objs :
        /\ guard[o] <=> (JobHolders(o) # {} \/ CallerHolders(o) # {})
        /\ \A s1, s2 \in JobHolders(o) : s1 = s2
        /\ \A m1, m2 \in CallerHolders(o) : m1 = m2
        /\ JobHolders(o) = {} \/ CallerHolders(o) = {}

(* The WaitGroup counts the live loops and spawned goroutines, no more and *)
(* no less: an extra Done panics, a missing one hangs Stop.                *)
WgCountsGoroutines == wg = Cardinality(LiveJobs) + Cardinality(LiveLoops)

(* Stop reaches every handler the loop spawned: it has the scheduler's     *)
(* current context or a cancelled one, and once Stop has cancelled, none   *)
(* is left with a context that is alive.                                   *)
StopReachesHandlers ==
    \A j \in LiveJobs :
        /\ jobCtx[j] \in cancelled \cup {ctx}
        /\ ~running /\ stopPc # "cancel" => jobCtx[j] \in cancelled

(* Nothing is spawned by a loop that was stopped, not even between a Stop  *)
(* and the exit of its loop, nor by the old loop after a restart.          *)
NoSpawnAfterStop ==
    [][\A j \in Jobs : jobPc[j] = "none" /\ jobPc'[j] # "none"
            => running /\ jobCtx'[j] = ctx /\ ctx \notin cancelled]_vars

(* C12c: NextRun of a task never moves back, and a spawn moves it past the *)
(* slot it ran for: no slot of a task is run twice.                        *)
NextRunAdvances ==
    [][\A o \in 1 .. created :
            /\ nextRun'[o] >= nextRun[o]
            /\ \A s \in Slots : jobPc[<<o, s>>] = "none" /\ jobPc'[<<o, s>>] # "none"
                    => s = nextRun[o] /\ nextRun'[o] > s]_vars

(* When a Stop that had something to stop returns true, the loop and every *)
(* goroutine it ever spawned are gone.                                     *)
StopTrueMeansLoopAndJobsGone ==
    [][StopReturnsTrue => LiveJobs = {} /\ LiveLoops = {}]_vars

(* The restart of a scheduler, an overlapping round or a batch of due      *)
(* tasks does not let anything run after, or escape, a Stop.               *)
StopIsRespected ==
    /\ [](WgCountsGoroutines /\ StopReachesHandlers)
    /\ NoSpawnAfterStop /\ StopTrueMeansLoopAndJobsGone

(* Stop returns, if handlers honour the cancellation of their context. *)
StopReturns == []<>(stopPc = "none" \/ crashed)

(* A registered, enabled task that is due gets run while the scheduler     *)
(* keeps running, also after a restart, unless it is already running.      *)
DueTaskRuns == \A o \in Objs : []<>(running /\ Due(o) /\ ~crashed => guard[o])

(* Every task that is due gets its run, one for each slot, and a Stop does *)
(* not hang.                                                               *)
TasksRun == NextRunAdvances /\ StopReturns /\ DueTaskRuns

(* The doc of StopWithTimeout: "true: all tasks have exited".  A task run  *)
(* by RunTask is a task that has not exited.                               *)
StopTrueMeansAllTasksExited ==
    [][StopReturnsTrue => \A o \in Objs : ~guard[o]]_vars

(* Start after a Stop that timed out must not bring the process down: the  *)
(* Wait left behind by that Stop may see the counter reused.               *)
NoWaitGroupReuse == ~crashed
=============================================================================
