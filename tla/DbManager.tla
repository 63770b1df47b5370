----------------------------- MODULE DbManager -----------------------------
(***************************************************************************)
(* The database manager of database/manager.go: a master pool and replica  *)
(* pools that can be rebuilt or closed while the prober goroutine of       *)
(* StartProbing pings them and keeps their health flags.                   *)
(*                                                                         *)
(* opMu lets one of InitDB, InitDBWithReplicas and Close run at a time, so *)
(* there is one operation under way at most, and callers that wait for     *)
(* opMu have no state.  Sections under m.mu are one step.                  *)
(*                                                                         *)
(* replicaHealthy is a slice the prober may hold after it was replaced;    *)
(* probeShared says whether the prober's copy is still the manager's.      *)
(***************************************************************************)
EXTENDS Integers, Sequences, FiniteSets, SequencesExt

CONSTANTS
    Pools,      \* identities of connection pools; a closed one may be reused
    Primary,    \* the server of the master
    Secondaries,\* the servers of the replicas
    Retries,    \* maxRetries of initDB (5)
    Threshold,  \* HealthCheckFailureThreshold
    MaxOps,     \* calls of InitDB, InitDBWithReplicas, Close, StartProbing (bound)
    MaxFlips,   \* times a server goes down or comes back (bound)
    None        \* nil

Servers == Secondaries \cup {Primary}

ASSUME DbAssumption ==
    /\ Retries \in Nat \ {0} /\ Threshold \in Nat \ {0}
    /\ MaxOps \in Nat /\ MaxFlips \in Nat
    /\ Primary \notin Secondaries
    /\ None \notin Pools \cup Servers /\ IsFiniteSet(Secondaries)

VARIABLES
    ops, flips,     \* calls and flips so far
    up,             \* servers that answer a ping
    server,         \* the server of each open pool
    master,         \* m.master
    replicas,       \* m.replicas
    health,         \* m.replicaHealthy
    healthSet,      \* m.replicaHealthSet
    healthy,        \* m.healthy
    failures,       \* m.probeFailures, up to Threshold
    opPc,           \* where the operation is
    opDsns,         \* replicaDSNs, or <<None>> for InitDB
    opTry,          \* attempts of initDB so far, then replicaDSNs tried so far
    opPool,         \* the pool just opened
    opNew,          \* newReplicas
    opOld,          \* detached pools that are still to be closed
    probePc,        \* where the prober is
    probeCancelled, \* its ctx is cancelled
    probePool,      \* the master HealthCheck read
    probeSnap,      \* its snapshot of the replicas
    probeAt,        \* how many of them it has pinged
    probeShared     \* its snapshot of replicaHealthy is still in use

envVars   == <<flips, up>>
poolVars  == <<master, replicas>>
flagVars  == <<health, healthSet>>
opVars    == <<opPc, opDsns, opTry, opPool, opNew, opOld>>
probeVars == <<probePc, probeCancelled, probePool, probeSnap, probeAt, probeShared>>
vars == <<ops, flips, up, server, master, replicas, health, healthSet, healthy, failures,
          opPc, opDsns, opTry, opPool, opNew, opOld,
          probePc, probeCancelled, probePool, probeSnap, probeAt, probeShared>>

NoReplicas == <<None>>
DsnLists == {NoReplicas} \cup
            UNION {Injection(1 .. n, Secondaries) : n \in 0 .. Cardinality(Secondaries)}

Open == {p \in Pools : server[p] # None}
Ping(p) == p # None /\ server[p] \in up

(* A closed pool nobody holds on to: which one does not matter. *)
IsFresh(p) == server[p] = None /\ p # probePool /\ p \notin ToSet(probeSnap)
Fresh == CHOOSE p \in Pools : IsFresh(p)

(* Pools is a bound: a pool is opened while one is left. *)
PoolLeft == \E p \in Pools : IsFresh(p)

Closed(ps) == [p \in Pools |-> IF p \in ps THEN None ELSE server[p]]

Init ==
    /\ ops = 0 /\ flips = 0 /\ up = Servers
    /\ server = [p \in Pools |-> None]
    /\ master = None /\ replicas = <<>>
    /\ health = <<>> /\ healthSet = FALSE /\ healthy = FALSE
    /\ failures = 0
    /\ opPc = "none" /\ opDsns = NoReplicas /\ opTry = 0 /\ opPool = None
    /\ opNew = <<>> /\ opOld = {}
    /\ probePc = "off" /\ probeCancelled = FALSE /\ probePool = None
    /\ probeSnap = <<>> /\ probeAt = 0 /\ probeShared = FALSE

(* A server goes down or comes back. *)
Flip(s) ==
    /\ flips < MaxFlips /\ flips' = flips + 1
    /\ up' = IF s \in up THEN up \ {s} ELSE up \cup {s}
    /\ UNCHANGED <<ops, server, poolVars, flagVars, healthy, failures, opVars, probeVars>>

-----------------------------------------------------------------------------
(* InitDB and InitDBWithReplicas *)

(* opMu is released; the locals of the operation are forgotten. *)
OpEnds ==
    /\ opPc' = "none" /\ opDsns' = NoReplicas /\ opTry' = 0 /\ opPool' = None
    /\ opNew' = <<>> /\ opOld' = {}

OpCall ==
    /\ opPc = "none" /\ ops < MaxOps /\ ops' = ops + 1
    /\ opPc' = "attempt"
    /\ \E dsns \in DsnLists : opDsns' = dsns
    /\ UNCHANGED <<envVars, server, poolVars, flagVars, healthy, failures,
                   opTry, opPool, opNew, opOld, probeVars>>

(* The caller's ctx may be cancelled before any attempt. *)
InitCancelled ==
    /\ opPc = "attempt"
    /\ OpEnds
    /\ UNCHANGED <<ops, envVars, server, poolVars, flagVars, healthy, failures, probeVars>>

MayRetryOnceMore(n) == n <= Retries     \* mutant: the loop runs once too often
MayRetry(n) == n < Retries

OpenMaster ==
    /\ opPc = "attempt" /\ PoolLeft
    /\ opPool' = Fresh /\ server' = [server EXCEPT ![Fresh] = Primary]
    /\ opPc' = "ping" /\ opTry' = opTry + 1
    /\ UNCHANGED <<ops, envVars, poolVars, flagVars, healthy, failures,
                   opDsns, opNew, opOld, probeVars>>

(* gorm.Open fails; a transient error is retried. *)
OpenMasterFails ==
    /\ opPc = "attempt"
    /\ \/ MayRetry(opTry + 1) /\ opTry' = opTry + 1
          /\ UNCHANGED <<opPc, opDsns, opPool, opNew, opOld>>
       \/ OpEnds
    /\ UNCHANGED <<ops, envVars, server, poolVars, flagVars, healthy, failures, probeVars>>

PingFailedLeaks == server      \* mutant: the pool that did not answer is not closed
PingFailed == Closed({opPool})

(* A ping may also fail because it times out or the ctx is cancelled.      *)
PingMasterFails ==
    /\ opPc = "ping"
    /\ server' = PingFailed
    /\ IF MayRetry(opTry)
       THEN opPc' = "attempt" /\ opPool' = None /\ UNCHANGED <<opDsns, opTry, opNew, opOld>>
       ELSE OpEnds
    /\ UNCHANGED <<ops, envVars, poolVars, flagVars, healthy, failures, probeVars>>

PublishMaster ==
    /\ opPc = "ping" /\ Ping(opPool)
    /\ master' = opPool
    /\ opOld' = {master} \ {None}
    /\ opPc' = "markHealthy" /\ opPool' = None /\ opTry' = 0
    /\ UNCHANGED <<ops, envVars, server, replicas, flagVars, healthy, failures,
                   opDsns, opNew, probeVars>>

MarkHealthy ==
    /\ opPc = "markHealthy"
    /\ healthy' = TRUE
    /\ opPc' = "closeMaster"
    /\ UNCHANGED <<ops, envVars, server, poolVars, flagVars, failures,
                   opDsns, opTry, opPool, opNew, opOld, probeVars>>

CloseOldMaster ==
    /\ opPc = "closeMaster"
    /\ server' = Closed(opOld)
    /\ IF opDsns = NoReplicas
       THEN OpEnds
       ELSE opPc' = "detach" /\ opOld' = {} /\ UNCHANGED <<opDsns, opTry, opPool, opNew>>
    /\ UNCHANGED <<ops, envVars, poolVars, flagVars, healthy, failures, probeVars>>

(* resetReplicaHealth: the prober's slice is not the manager's any more.   *)
ResetReplicaHealth == health' = <<>> /\ healthSet' = FALSE /\ probeShared' = FALSE

ReplicasKept == replicas       \* mutant: the old replicas stay published
ReplicasDetached == <<>>

DetachReplicas ==
    /\ opPc = "detach"
    /\ opOld' = ToSet(replicas) /\ replicas' = ReplicasDetached
    /\ ResetReplicaHealth
    /\ opPc' = "closeReplicas"
    /\ UNCHANGED <<ops, envVars, server, master, healthy, failures,
                   opDsns, opTry, opPool, opNew,
                   probePc, probeCancelled, probePool, probeSnap, probeAt>>

CloseOldReplicas ==
    /\ opPc = "closeReplicas"
    /\ server' = Closed(opOld)
    /\ IF opDsns = <<>>
       THEN OpEnds
       ELSE opPc' = "dsn" /\ opOld' = {} /\ UNCHANGED <<opDsns, opTry, opPool, opNew>>
    /\ UNCHANGED <<ops, envVars, poolVars, flagVars, healthy, failures, probeVars>>

OpenReplica ==
    /\ opPc = "dsn" /\ opTry < Len(opDsns) /\ PoolLeft
    /\ opTry' = opTry + 1
    /\ opPool' = Fresh /\ server' = [server EXCEPT ![Fresh] = opDsns[opTry + 1]]
    /\ opPc' = "pingReplica"
    /\ UNCHANGED <<ops, envVars, poolVars, flagVars, healthy, failures,
                   opDsns, opNew, opOld, probeVars>>

(* gorm.Open fails: this replica is skipped. *)
OpenReplicaFails ==
    /\ opPc = "dsn" /\ opTry < Len(opDsns)
    /\ opTry' = opTry + 1
    /\ UNCHANGED <<ops, envVars, server, poolVars, flagVars, healthy, failures,
                   opPc, opDsns, opPool, opNew, opOld, probeVars>>

PingReplica ==
    /\ opPc = "pingReplica"
    /\ \/ Ping(opPool) /\ opNew' = Append(opNew, opPool) /\ UNCHANGED server
       \/ server' = PingFailed /\ UNCHANGED opNew
    /\ opPc' = "dsn" /\ opPool' = None
    /\ UNCHANGED <<ops, envVars, poolVars, flagVars, healthy, failures,
                   opDsns, opTry, opOld, probeVars>>

ReplicasCancelled ==
    /\ opPc = "dsn" /\ opTry < Len(opDsns)
    /\ server' = Closed(ToSet(opNew))
    /\ OpEnds
    /\ UNCHANGED <<ops, envVars, poolVars, flagVars, healthy, failures, probeVars>>

AllHealthy(rs) == [i \in DOMAIN rs |-> TRUE]

(* mutant: initReplicaHealth is called instead, and returns early *)
EnsureOnce(rs) == IF healthSet THEN UNCHANGED flagVars
                  ELSE health' = AllHealthy(rs) /\ healthSet' = TRUE
(* ensureReplicaHealthLocked, on the replicas it is called for *)
EnsureReplicaHealth(rs) == health' = AllHealthy(rs) /\ healthSet' = TRUE

InstallReplicas ==
    /\ opPc = "dsn" /\ opTry = Len(opDsns)
    /\ replicas' = opNew
    /\ EnsureReplicaHealth(opNew)
    /\ probeShared' = FALSE
    /\ OpEnds
    /\ UNCHANGED <<ops, envVars, server, master, healthy, failures,
                   probePc, probeCancelled, probePool, probeSnap, probeAt>>

-----------------------------------------------------------------------------
(* Close *)

CloseForgets == {master} \ {None}     \* mutant: the replica pools are not closed
CloseTakes == ({master} \cup ToSet(replicas)) \ {None}

CloseDetach ==
    /\ opPc = "none" /\ ops < MaxOps /\ ops' = ops + 1
    /\ opOld' = CloseTakes
    /\ master' = None /\ replicas' = <<>>
    /\ ResetReplicaHealth
    /\ healthy' = FALSE
    /\ opPc' = "close"
    /\ UNCHANGED <<envVars, server, failures, opDsns, opTry, opPool, opNew,
                   probePc, probeCancelled, probePool, probeSnap, probeAt>>

ClosePools ==
    /\ opPc = "close"
    /\ server' = Closed(opOld)
    /\ OpEnds
    /\ UNCHANGED <<ops, envVars, poolVars, flagVars, healthy, failures, probeVars>>

-----------------------------------------------------------------------------
(* The prober *)

(* StartProbing; initReplicaHealth does nothing when the flags are there. *)
StartProbing ==
    /\ probePc = "off" /\ ops < MaxOps /\ ops' = ops + 1
    /\ IF healthSet THEN UNCHANGED flagVars
       ELSE health' = AllHealthy(replicas) /\ healthSet' = TRUE
    /\ probePc' = "tick" /\ probeCancelled' = FALSE
    /\ UNCHANGED <<envVars, server, poolVars, healthy, failures, opVars,
                   probePool, probeSnap, probeAt, probeShared>>

CancelProbing ==
    /\ probePc # "off" /\ ~probeCancelled
    /\ probeCancelled' = TRUE
    /\ UNCHANGED <<ops, envVars, server, poolVars, flagVars, healthy, failures, opVars,
                   probePc, probePool, probeSnap, probeAt, probeShared>>

ProberExits ==
    /\ probePc = "tick" /\ probeCancelled
    /\ probePc' = "off"
    /\ UNCHANGED <<ops, envVars, server, poolVars, flagVars, healthy, failures, opVars,
                   probeCancelled, probePool, probeSnap, probeAt, probeShared>>

(* HealthCheck reads the master under m.mu and pings it without the lock.  *)
(* With a tick and a cancelled ctx select may take either branch.          *)
ProbeReads ==
    /\ probePc = "tick"
    /\ probePool' = master
    /\ probePc' = "ping"
    /\ UNCHANGED <<ops, envVars, server, poolVars, flagVars, healthy, failures, opVars,
                   probeCancelled, probeSnap, probeAt, probeShared>>

(* A ping with a cancelled ctx fails. *)
ProbePing(p) == Ping(p) /\ ~probeCancelled

ProbeFails ==
    /\ probePc = "ping" /\ ~ProbePing(probePool)
    /\ failures' = IF failures < Threshold THEN failures + 1 ELSE Threshold
    /\ healthy' = (healthy /\ failures + 1 < Threshold)
    /\ probePc' = "snapshot" /\ probePool' = None
    /\ UNCHANGED <<ops, envVars, server, poolVars, flagVars, opVars,
                   probeCancelled, probeSnap, probeAt, probeShared>>

ProbePasses ==
    /\ probePc = "ping" /\ ProbePing(probePool)
    /\ failures' = 0
    /\ probePc' = "recovered" /\ probePool' = None
    /\ UNCHANGED <<ops, envVars, server, poolVars, flagVars, healthy, opVars,
                   probeCancelled, probeSnap, probeAt, probeShared>>

StoreNothing == healthy      \* mutant: only InitDB marks the master healthy
StoreHealthy == TRUE

(* healthy is stored after probeMu is released. *)
ProbeRecovers ==
    /\ probePc = "recovered"
    /\ healthy' = StoreHealthy
    /\ probePc' = "snapshot"
    /\ UNCHANGED <<ops, envVars, server, poolVars, flagVars, failures, opVars,
                   probeCancelled, probePool, probeSnap, probeAt, probeShared>>

ProbeSnapshot ==
    /\ probePc = "snapshot"
    /\ IF replicas # <<>> /\ ~healthSet
       THEN EnsureReplicaHealth(replicas)
       ELSE UNCHANGED flagVars
    /\ probeSnap' = replicas /\ probeAt' = 0 /\ probeShared' = TRUE
    /\ probePc' = "replicas"
    /\ UNCHANGED <<ops, envVars, server, poolVars, healthy, failures, opVars,
                   probeCancelled, probePool>>

(* The flags live in the slice of the snapshot: a replaced one is lost.    *)
WritesShared == probeShared

ProbeReplica ==
    /\ probePc = "replicas" /\ probeAt < Len(probeSnap)
    /\ probeAt' = probeAt + 1
    /\ health' = IF WritesShared /\ probeAt' \in DOMAIN health
                 THEN [health EXCEPT ![probeAt'] = ProbePing(probeSnap[probeAt'])]
                 ELSE health
    /\ UNCHANGED <<ops, envVars, server, poolVars, healthSet, healthy, failures, opVars,
                   probePc, probeCancelled, probePool, probeSnap, probeShared>>

ProbeRoundEnds ==
    /\ probePc = "replicas" /\ probeAt = Len(probeSnap)
    /\ probePc' = "tick" /\ probeSnap' = <<>> /\ probeAt' = 0 /\ probeShared' = FALSE
    /\ UNCHANGED <<ops, envVars, server, poolVars, flagVars, healthy, failures, opVars,
                   probeCancelled, probePool>>

-----------------------------------------------------------------------------
OpStep ==
    \/ InitCancelled \/ OpenMaster \/ OpenMasterFails \/ PingMasterFails
    \/ PublishMaster \/ MarkHealthy \/ CloseOldMaster
    \/ DetachReplicas \/ CloseOldReplicas \/ OpenReplica \/ OpenReplicaFails
    \/ PingReplica \/ ReplicasCancelled \/ InstallReplicas
    \/ ClosePools

ProbeStep ==
    \/ ProberExits \/ ProbeReads \/ ProbeFails \/ ProbePasses \/ ProbeRecovers
    \/ ProbeSnapshot \/ ProbeReplica \/ ProbeRoundEnds

Next ==
    \/ \E s \in Servers : Flip(s)
    \/ OpCall \/ CloseDetach \/ OpStep
    \/ StartProbing \/ CancelProbing \/ ProbeStep

Spec == Init /\ [][Next]_vars

(* Pings take 3 s at most (healthCheckTimeout) and the ticker keeps firing. *)
Fairness == WF_vars(OpStep) /\ WF_vars(ProbeStep)

FairSpec == Spec /\ Fairness

-----------------------------------------------------------------------------
TypeOK ==
    /\ ops \in 0 .. MaxOps /\ flips \in 0 .. MaxFlips
    /\ up \subseteq Servers
    /\ server \in [Pools -> Servers \cup {None}]
    /\ master \in Pools \cup {None} /\ replicas \in Seq(Pools)
    /\ health \in Seq(BOOLEAN) /\ healthSet \in BOOLEAN /\ healthy \in BOOLEAN
    /\ failures \in 0 .. Threshold
    /\ opPc \in {"none", "attempt", "ping", "markHealthy", "closeMaster", "detach",
                 "closeReplicas", "dsn", "pingReplica", "close"}
    /\ opDsns \in DsnLists /\ opTry \in 0 .. IF opPc \in {"dsn", "pingReplica"} THEN Len(opDsns) ELSE Retries
    /\ opPool \in Pools \cup {None} /\ opNew \in Seq(Pools) /\ opOld \subseteq Pools
    /\ probePc \in {"off", "tick", "ping", "recovered", "snapshot", "replicas"}
    /\ probeCancelled \in BOOLEAN /\ probePool \in Pools \cup {None}
    /\ probeSnap \in Seq(Pools) /\ probeAt \in 0 .. Len(probeSnap) /\ probeShared \in BOOLEAN

(* Replica: the pools the picker may return. *)
Healthy == {replicas[i] : i \in {j \in DOMAIN replicas : healthSet /\ j \in DOMAIN health /\ health[j]}}
Replica ==
    IF replicas = <<>> THEN {master}
    ELSE IF Healthy # {} THEN Healthy ELSE ToSet(replicas)

(* C11b, C11c: whatever Master and Replica return, at any moment of a      *)
(* rebuild or of Close, is a pool that is not closed.                      *)
PublishedAreOpen == ({master} \cup Replica) \ {None} \subseteq Open

(* C11b, C11c: no pool leaks.  Whatever failed, was retried, skipped or    *)
(* cancelled, the open pools are the published ones and those in hand.     *)
NoPoolLeaks ==
    Open = ({master, opPool} \cup ToSet(replicas) \cup ToSet(opNew) \cup opOld) \ {None}

(* C11a: a flag is always about the replica at its index, and the prober   *)
(* never writes a result to the flag of another replica.                   *)
FlagsFitReplicas ==
    /\ healthSet => Len(health) = Len(replicas)
    /\ probeShared => probeSnap = replicas

(* Every open pool is known, every published one is open, and the health   *)
(* flags beside the replicas are about them.                               *)
PoolsAreKnown == TypeOK /\ PublishedAreOpen /\ NoPoolLeaks /\ FlagsFitReplicas

Probing == probePc # "off" /\ ~probeCancelled

(* #21: with a prober running, IsHealthy ends up telling whether the       *)
(* master answers, whatever rebuilds, closes and probes crossed.           *)
HealthSettles == <>[](Probing => healthy = Ping(master))

Alive == {p \in ToSet(replicas) : Ping(p)}

(* #21: reads end up going to exactly the replicas that answer, and to all *)
(* of them when none does.                                                 *)
RoutingSettles ==
    <>[](Probing /\ replicas # <<>> =>
            Replica = IF Alive # {} THEN Alive ELSE ToSet(replicas))

(* After rebuilds, outages and recoveries the flags come back to the truth.*)
FlagsSettle == HealthSettles /\ RoutingSettles

(* What IsDBHealthy says of the flag: a readiness probe may go by it.  A   *)
(* manager that is closed, with no prober left, is not ready.              *)
ClosedIsNotHealthy ==
    opPc = "none" /\ probePc = "off" /\ master = None => ~healthy
=============================================================================
