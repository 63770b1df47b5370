------------------------------ MODULE MultiApp ------------------------------
(***************************************************************************)
(* Several Apps in one process (app.go) and the process-wide defaults they *)
(* replace: the default manager of a resource, swapped in and, when Init   *)
(* fails, swapped back (database.Manager stands for all of them), and the  *)
(* global state of logger/logger.go, which Init publishes, a failed Init   *)
(* restores from a snapshot, and Shutdown closes by its generation.        *)
(*                                                                         *)
(* Each App has one set of log files.  One step is one section under       *)
(* logger.globalMu or one swap of an atomic pointer.  A closed lumberjack  *)
(* writer opens its file again on the next write; writes are not modelled. *)
(***************************************************************************)
EXTENDS Naturals, FiniteSets

CONSTANTS
    Apps,       \* the Apps of the process
    Initial     \* the defaults the packages create in init(), without files

ASSUME AppsAssumption == IsFiniteSet(Apps) /\ Initial \notin Apps

VARIABLES
    phase,      \* where the Init or the Shutdown of each App is
    manager,    \* each App's own manager: "none", "open" or "closed"
    default,    \* whose manager is database.DefaultManager
    previous,   \* a.previousDB
    files,      \* each App's log files: "none", "open" or "closed"
    writers,    \* whose files are in logger.fileWriters (and whose logger is published)
    logger,     \* whose LogManager is the default one
    generation, \* globalLogGeneration
    mine,       \* LogManager.generation of each App
    snapshot,   \* a.loggerSnapshot: whose logger, whose writers, which generation
    toClose,    \* the writers taken out of fileWriters and not yet closed
    overlapped  \* the Init or Shutdown of two Apps have overlapped

managerVars == <<manager, default, previous>>
logVars     == <<files, writers, logger, generation, mine, snapshot, toClose>>
appsVars == <<phase, manager, default, previous, files, writers, logger, generation, mine,
          snapshot, toClose, overlapped>>

Owners == Apps \cup {Initial}
Settled == {"new", "running", "failed", "stopped"}
NoSnapshot == <<Initial, Initial, 0>>

AppsInit ==
    /\ phase = [a \in Apps |-> "new"]
    /\ manager = [a \in Apps |-> "none"] /\ default = Initial
    /\ previous = [a \in Apps |-> Initial]
    /\ files = [a \in Apps |-> "none"] /\ writers = Initial /\ logger = Initial
    /\ generation = 0 /\ mine = [a \in Apps |-> 0]
    /\ snapshot = [a \in Apps |-> NoSnapshot]
    /\ toClose = [a \in Apps |-> Initial]
    /\ overlapped = FALSE

Goto(a, where) == phase' = [phase EXCEPT ![a] = where]

Begins(a) == overlapped' = (overlapped \/ \E b \in Apps \ {a} : phase[b] \notin Settled)

-----------------------------------------------------------------------------
(* doInit *)

SnapshotDefault(a) ==
    /\ phase[a] = "new" /\ Begins(a)
    /\ snapshot' = [snapshot EXCEPT ![a] = <<logger, writers, generation>>]
    /\ Goto(a, "initLogger")
    /\ UNCHANGED <<managerVars, files, writers, logger, generation, mine, toClose>>

(* The log directory cannot be made: nothing was published.                *)
InitLoggerFails(a) ==
    /\ phase[a] = "initLogger"
    /\ Goto(a, "failed")
    /\ UNCHANGED <<managerVars, logVars, overlapped>>

InitPreservingPrevious(a) ==
    /\ phase[a] = "initLogger"
    /\ files' = [files EXCEPT ![a] = "open"] /\ writers' = a
    /\ generation' = generation + 1
    /\ mine' = [mine EXCEPT ![a] = generation + 1]
    /\ Goto(a, "setLogger")
    /\ UNCHANGED <<managerVars, logger, snapshot, toClose, overlapped>>

SetDefaultLogManager(a) ==
    /\ phase[a] = "setLogger"
    /\ logger' = a
    /\ Goto(a, "initDB")
    /\ UNCHANGED <<managerVars, files, writers, generation, mine, snapshot, toClose,
                   overlapped>>

InitDBFails(a) ==
    /\ phase[a] = "initDB"
    /\ Goto(a, "restore")
    /\ UNCHANGED <<managerVars, logVars, overlapped>>

InitDB(a) ==
    /\ phase[a] = "initDB"
    /\ manager' = [manager EXCEPT ![a] = "open"]
    /\ Goto(a, "swap")
    /\ UNCHANGED <<default, previous, logVars, overlapped>>

SwapDefaultManager(a) ==
    /\ phase[a] = "swap"
    /\ previous' = [previous EXCEPT ![a] = default] /\ default' = a
    /\ Goto(a, "hooks")
    /\ UNCHANGED <<manager, logVars, overlapped>>

(* mutant: what was replaced is closed when Init succeeds, as before v1.4.0 *)
CommitCloses(a) ==
    /\ manager' = [b \in Apps |-> IF b = previous[a] THEN "closed" ELSE manager[b]]
    /\ files' = [b \in Apps |-> IF b = snapshot[a][2] THEN "closed" ELSE files[b]]
CommitForgets(a) == UNCHANGED <<manager, files>>

(* commitReplacedResources *)
Commit(a) ==
    /\ phase[a] = "hooks"
    /\ CommitForgets(a)
    /\ previous' = [previous EXCEPT ![a] = Initial]
    /\ snapshot' = [snapshot EXCEPT ![a] = NoSnapshot]
    /\ Goto(a, "running")
    /\ UNCHANGED <<default, writers, logger, generation, mine, toClose, overlapped>>

-----------------------------------------------------------------------------
(* failAfterInit: rollbackReplacedResources *)

HookFails(a) ==
    /\ phase[a] = "hooks"
    /\ Goto(a, "swapBack")
    /\ UNCHANGED <<managerVars, logVars, overlapped>>

SwapBack(a) ==
    /\ phase[a] = "swapBack"
    /\ default' = previous[a]
    /\ Goto(a, "closeOwn")
    /\ UNCHANGED <<manager, previous, logVars, overlapped>>

CloseOwn(a) ==
    /\ phase[a] = "closeOwn"
    /\ manager' = [manager EXCEPT ![a] = "closed"]
    /\ Goto(a, "restore")
    /\ UNCHANGED <<default, previous, logVars, overlapped>>

GenerationKept(a) == generation     \* mutant: the snapshot does not hold the generation
GenerationBumped(a) == generation + 1   \* mutant: a restored logger counts as a new one
GenerationRestored(a) == snapshot[a][3]

(* RestoreDefaultSnapshot: whatever is current now is taken for this App's.*)
RestoreDefaultSnapshot(a) ==
    /\ phase[a] = "restore"
    /\ toClose' = [toClose EXCEPT ![a] = writers]
    /\ writers' = snapshot[a][2] /\ generation' = GenerationRestored(a)
    /\ Goto(a, "restoreLogger")
    /\ UNCHANGED <<managerVars, files, logger, mine, snapshot, overlapped>>

RestoreLogger(a) ==
    /\ phase[a] = "restoreLogger"
    /\ logger' = snapshot[a][1]
    /\ Goto(a, "restoreClose")
    /\ UNCHANGED <<managerVars, files, writers, generation, mine, snapshot, toClose,
                   overlapped>>

(* closeFileWriters, for a writer set that may be nobody's *)
CloseFiles(a) ==
    /\ files' = [b \in Apps |-> IF b = toClose[a] THEN "closed" ELSE files[b]]
    /\ toClose' = [toClose EXCEPT ![a] = Initial]

RestoreClose(a) ==
    /\ phase[a] = "restoreClose"
    /\ CloseFiles(a)
    /\ Goto(a, "failed")
    /\ UNCHANGED <<managerVars, writers, logger, generation, mine, snapshot, overlapped>>

-----------------------------------------------------------------------------
(* Shutdown: closeResources.  The defaults stay as they are. *)

CloseManager(a) ==
    /\ phase[a] = "running" /\ Begins(a)
    /\ manager' = [manager EXCEPT ![a] = "closed"]
    /\ Goto(a, "closeLogger")
    /\ UNCHANGED <<default, previous, logVars>>

OwnsAny(a) == mine[a] # 0   \* mutant: Close does not compare generations
OwnsLogger(a) == mine[a] # 0 /\ mine[a] = generation

(* LogManager.Close: of another generation, it only resets the manager.    *)
CloseLogger(a) ==
    /\ phase[a] = "closeLogger"
    /\ mine' = [mine EXCEPT ![a] = 0]
    /\ IF OwnsLogger(a)
       THEN toClose' = [toClose EXCEPT ![a] = writers] /\ writers' = Initial
       ELSE UNCHANGED <<toClose, writers>>
    /\ Goto(a, "closeFiles")
    /\ UNCHANGED <<managerVars, files, logger, generation, snapshot, overlapped>>

CloseLoggerFiles(a) ==
    /\ phase[a] = "closeFiles"
    /\ CloseFiles(a)
    /\ Goto(a, "stopped")
    /\ UNCHANGED <<managerVars, writers, logger, generation, mine, snapshot, overlapped>>

-----------------------------------------------------------------------------
StartStep(a) ==
    \/ SnapshotDefault(a) \/ InitLoggerFails(a) \/ InitPreservingPrevious(a)
    \/ SetDefaultLogManager(a) \/ InitDBFails(a) \/ InitDB(a)
    \/ SwapDefaultManager(a) \/ Commit(a)

RollbackStep(a) ==
    \/ HookFails(a) \/ SwapBack(a) \/ CloseOwn(a)
    \/ RestoreDefaultSnapshot(a) \/ RestoreLogger(a) \/ RestoreClose(a)

StopStep(a) == CloseManager(a) \/ CloseLogger(a) \/ CloseLoggerFiles(a)

AppsNext == \E a \in Apps : StartStep(a) \/ RollbackStep(a) \/ StopStep(a)

AppsSpec == AppsInit /\ [][AppsNext]_appsVars

-----------------------------------------------------------------------------
AppsTypeOK ==
    /\ phase \in [Apps -> Settled \cup
            {"initLogger", "setLogger", "initDB", "swap", "hooks", "swapBack", "closeOwn",
             "restore", "restoreLogger", "restoreClose", "closeLogger", "closeFiles"}]
    /\ manager \in [Apps -> {"none", "open", "closed"}]
    /\ default \in Owners /\ previous \in [Apps -> Owners]
    /\ files \in [Apps -> {"none", "open", "closed"}]
    /\ writers \in Owners /\ logger \in Owners
    /\ generation \in 0 .. Cardinality(Apps) /\ mine \in [Apps -> 0 .. Cardinality(Apps)]
    /\ snapshot \in [Apps -> Owners \X Owners \X (0 .. Cardinality(Apps))]
    /\ toClose \in [Apps -> Owners]
    /\ overlapped \in BOOLEAN

(* No App closes what belongs to a running one: not its manager, however   *)
(* their lives cross, and not its log files, as long as no two Apps are    *)
(* started or stopped at the same time.                                    *)
RunningKeepsResources ==
    AppsTypeOK /\ \A a \in Apps : phase[a] = "running" =>
        /\ manager[a] = "open"
        /\ files[a] = "open" \/ overlapped

(* An Init that fails leaves the defaults and the logger as it found them, *)
(* generation included, with the same proviso.                             *)
RollbackIsClean ==
    [][\A a \in Apps : phase[a] = "restoreClose" /\ phase'[a] = "failed" /\ ~overlapped =>
          /\ default' # a /\ (manager[a] = "closed" => default' = previous[a])
          /\ <<logger', writers', generation'>> = snapshot[a]
          /\ files'[a] = "closed"]_appsVars

(* The comment of commitReplacedResources: the writers of another App are  *)
(* closed by its own Shutdown.                                             *)
WritersClosedByShutdown ==
    \A a \in Apps : phase[a] = "stopped" /\ ~overlapped => files[a] = "closed"
=============================================================================
