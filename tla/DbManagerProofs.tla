--------------------------- MODULE DbManagerProofs ---------------------------
(* Proofs about DbManager, for any pools, servers, retries and thresholds.  *)
EXTENDS DbManager, FiniteSetTheorems, SequenceTheorems, TLAPS

Published == ({master} \cup ToSet(replicas)) \ {None}

(* What an operation may hold in each of its phases. *)
Holding ==
    /\ opPc \notin {"ping", "pingReplica"} => opPool = None
    /\ opPc \in {"ping", "pingReplica"} => opPool # None
    /\ opPc \notin {"dsn", "pingReplica"} => opNew = <<>>
    /\ opPc \notin {"markHealthy", "closeMaster", "closeReplicas", "close"} => opOld = {}
    /\ opPc \in {"closeReplicas", "dsn", "pingReplica", "close"} => replicas = <<>>
    /\ opPc \in {"none", "markHealthy", "closeMaster", "detach", "closeReplicas", "close"}
          => opTry = 0
    /\ opPc = "attempt" => opTry < Retries
    /\ opPc \in {"detach", "closeReplicas", "dsn", "pingReplica"} => opDsns # NoReplicas

(* No pool is held in two places: closing what is in hand closes nothing    *)
(* that is published, and nothing else that is in hand.                     *)
Apart ==
    /\ opPool \notin Published \cup ToSet(opNew) \cup opOld
    /\ Published \cap (ToSet(opNew) \cup opOld) = {}
    /\ ToSet(opNew) \cap opOld = {}
    /\ master \notin ToSet(replicas)

DbInv ==
    /\ TypeOK
    /\ Holding
    /\ Apart
    /\ NoPoolLeaks
    /\ FlagsFitReplicas

-----------------------------------------------------------------------------
LEMMA ToSetFacts ==
    ASSUME NEW q \in Seq(Pools)
    PROVE  /\ ToSet(q) \subseteq Pools /\ Len(q) \in Nat
           /\ q = <<>> => ToSet(q) = {}
           /\ \A i \in DOMAIN q : q[i] \in ToSet(q) /\ q[i] \in Pools
           /\ \A p \in Pools : /\ Append(q, p) \in Seq(Pools)
                               /\ ToSet(Append(q, p)) = ToSet(q) \cup {p}
<1>1. DOMAIN q = 1 .. Len(q) /\ Len(q) \in Nat /\ \A i \in 1 .. Len(q) : q[i] \in Pools
  BY LenProperties, ElementOfSeq
<1>2. ASSUME NEW p \in Pools
      PROVE  Append(q, p) \in Seq(Pools) /\ ToSet(Append(q, p)) = ToSet(q) \cup {p}
  <2>1. /\ Append(q, p) \in Seq(Pools) /\ Len(Append(q, p)) = Len(q) + 1
        /\ \A i \in 1 .. Len(q) : Append(q, p)[i] = q[i]
        /\ Append(q, p)[Len(q) + 1] = p
    BY AppendProperties
  <2>2. DOMAIN Append(q, p) = (1 .. Len(q)) \cup {Len(q) + 1}
    <3>1. DOMAIN Append(q, p) = 1 .. Len(q) + 1
      BY <2>1, LenProperties
    <3>2. 1 .. Len(q) + 1 = (1 .. Len(q)) \cup {Len(q) + 1}
      BY <1>1
    <3> QED BY <3>1, <3>2
  <2>3. ToSet(Append(q, p)) = {Append(q, p)[i] : i \in (1 .. Len(q)) \cup {Len(q) + 1}}
    BY <2>2 DEF ToSet
  <2>4. ToSet(q) = {q[i] : i \in 1 .. Len(q)}
    BY <1>1 DEF ToSet
  <2> QED BY <2>1, <2>3, <2>4
<1>3. q = <<>> => ToSet(q) = {}
  BY DEF ToSet
<1> QED BY <1>1, <1>2, <1>3 DEF ToSet

(* The lists InitDBWithReplicas is called with, and the one that says that  *)
(* it was InitDB.                                                           *)
LEMMA DsnFacts ==
    ASSUME NEW dsns \in DsnLists
    PROVE  /\ dsns \in Seq(Secondaries \cup {None}) /\ Len(dsns) \in Nat
           /\ dsns # NoReplicas => dsns \in Seq(Secondaries)
<1>1. CASE dsns = NoReplicas
  <2>1. NoReplicas \in Seq(Secondaries \cup {None}) /\ Len(NoReplicas) = 1
    BY DEF NoReplicas
  <2> QED BY <1>1, <2>1
<1>2. CASE dsns # NoReplicas
  <2>1. PICK n \in 0 .. Cardinality(Secondaries) : dsns \in [1 .. n -> Secondaries]
    BY <1>2 DEF DsnLists, Injection
  <2>2. n \in Nat
    BY <2>1
  <2>3. dsns \in Seq(Secondaries)
    BY <2>1, <2>2
  <2>4. dsns \in Seq(Secondaries \cup {None})
    BY <2>1, <2>2
  <2> QED BY <2>3, <2>4, LenProperties
<1> QED BY <1>1, <1>2

LEMMA ClosedFacts ==
    ASSUME TypeOK, NEW ps \in SUBSET Pools, server' = Closed(ps)
    PROVE  server' \in [Pools -> Servers \cup {None}] /\ Open' = Open \ ps
BY DEF TypeOK, Closed, Open

LEMMA FreshFacts ==
    ASSUME TypeOK, PoolLeft, NEW s \in Servers, server' = [server EXCEPT ![Fresh] = s]
    PROVE  /\ Fresh \in Pools \ Open
           /\ server' \in [Pools -> Servers \cup {None}]
           /\ Open' = Open \cup {Fresh}
<1>1. Fresh \in Pools /\ IsFresh(Fresh)
  BY DEF PoolLeft, Fresh
<1> QED BY <1>1, DbAssumption DEF IsFresh, TypeOK, Open, Servers

LEMMA AllHealthyFacts ==
    ASSUME NEW q \in Seq(Pools)
    PROVE  AllHealthy(q) \in Seq(BOOLEAN) /\ Len(AllHealthy(q)) = Len(q)
<1>1. DOMAIN q = 1 .. Len(q) /\ Len(q) \in Nat
  BY LenProperties
<1>2. AllHealthy(q) = [i \in 1 .. Len(q) |-> TRUE]
  BY <1>1 DEF AllHealthy
<1> QED BY <1>1, <1>2

LEMMA Initially == Init => DbInv
<1> SUFFICES ASSUME Init PROVE DbInv
  OBVIOUS
<1> USE DbAssumption
<1>1. NoReplicas \in DsnLists /\ ToSet(<<>>) = {} /\ <<>> \in Seq(Pools) /\ <<>> \in Seq(BOOLEAN)
  BY EmptySeq DEF DsnLists, ToSet
<1>2. TypeOK
  <2>1. /\ ops \in 0 .. MaxOps /\ flips \in 0 .. MaxFlips /\ failures \in 0 .. Threshold
        /\ opTry \in 0 .. IF opPc \in {"dsn", "pingReplica"} THEN Len(opDsns) ELSE Retries
        /\ probeAt \in 0 .. Len(probeSnap)
    BY EmptySeq DEF Init
  <2>2. server \in [Pools -> Servers \cup {None}]
    BY DEF Init
  <2> QED BY <1>1, <2>1, <2>2 DEF Init, TypeOK
<1>3. Open = {}
  BY DEF Init, Open
<1> QED BY <1>1, <1>2, <1>3 DEF Init, DbInv, Holding, Apart, Published, NoPoolLeaks,
        FlagsFitReplicas

(* When an operation ends it holds nothing. *)
LEMMA OpEndsFacts ==
    ASSUME OpEnds
    PROVE  /\ opPc' = "none" /\ opDsns' \in DsnLists /\ opTry' = 0 /\ 0 \in 0 .. Retries
           /\ opPool' \in Pools \cup {None} /\ opNew' \in Seq(Pools) /\ opOld' \subseteq Pools
           /\ ToSet(opNew') = {}
BY DbAssumption, EmptySeq DEF OpEnds, DsnLists, ToSet

(* Types of what the operations work with. *)
OpTyped ==
    /\ opPc \in {"none", "attempt", "ping", "markHealthy", "closeMaster", "detach",
                 "closeReplicas", "dsn", "pingReplica", "close"}
    /\ opDsns \in DsnLists
    /\ opTry \in 0 .. IF opPc \in {"dsn", "pingReplica"} THEN Len(opDsns) ELSE Retries
    /\ opPool \in Pools \cup {None} /\ opNew \in Seq(Pools) /\ opOld \subseteq Pools

LEMMA OpTypeStep ==
    ASSUME TypeOK, Holding, OpCall \/ CloseDetach \/ OpStep
    PROVE  OpTyped' /\ server' \in [Pools -> Servers \cup {None}] /\ Holding'
<1> DEFINE Goal == OpTyped' /\ server' \in [Pools -> Servers \cup {None}] /\ Holding'
<1> USE DbAssumption DEF Holding, poolVars, envVars, flagVars, probeVars
<1>0. /\ opPc \in {"none", "attempt", "ping", "markHealthy", "closeMaster", "detach",
                   "closeReplicas", "dsn", "pingReplica", "close"}
      /\ opDsns \in DsnLists /\ Len(opDsns) \in Nat
      /\ opTry \in 0 .. IF opPc \in {"dsn", "pingReplica"} THEN Len(opDsns) ELSE Retries
      /\ opPool \in Pools \cup {None} /\ opNew \in Seq(Pools) /\ opOld \subseteq Pools
      /\ server \in [Pools -> Servers \cup {None}]
      /\ master \in Pools \cup {None} /\ replicas \in Seq(Pools) /\ ToSet(replicas) \subseteq Pools
  BY DsnFacts, ToSetFacts DEF TypeOK
<1>1. CASE OpCall
  BY <1>0, <1>1 DEF OpCall, OpTyped
<1>2. CASE InitCancelled
  BY <1>0, <1>2, OpEndsFacts DEF InitCancelled, OpTyped, OpEnds
<1>3. CASE OpenMaster
  <2>1. Fresh \in Pools /\ server' \in [Pools -> Servers \cup {None}]
    BY <1>3, FreshFacts DEF OpenMaster, Servers
  <2> QED BY <1>0, <1>3, <2>1 DEF OpenMaster, OpTyped
<1>4. CASE OpenMasterFails
  <2>1. CASE OpEnds
    BY <1>0, <1>4, <2>1, OpEndsFacts DEF OpenMasterFails, OpTyped, OpEnds
  <2>2. CASE MayRetry(opTry + 1) /\ opTry' = opTry + 1
             /\ UNCHANGED <<opPc, opDsns, opPool, opNew, opOld>>
    BY <1>0, <1>4, <2>2 DEF OpenMasterFails, OpTyped, MayRetry
  <2> QED BY <1>4, <2>1, <2>2 DEF OpenMasterFails
<1>5. CASE PingMasterFails
  <2>1. server' \in [Pools -> Servers \cup {None}]
    BY <1>0, <1>5, ClosedFacts DEF PingMasterFails, PingFailed
  <2>2. CASE MayRetry(opTry)
    BY <1>0, <1>5, <2>1, <2>2 DEF PingMasterFails, OpTyped, MayRetry
  <2>3. CASE ~MayRetry(opTry)
    BY <1>0, <1>5, <2>1, <2>3, OpEndsFacts DEF PingMasterFails, OpTyped, OpEnds
  <2> QED BY <2>2, <2>3
<1>6. CASE PublishMaster
  BY <1>0, <1>6 DEF PublishMaster, OpTyped
<1>7. CASE MarkHealthy
  BY <1>0, <1>7 DEF MarkHealthy, OpTyped
<1>8. CASE CloseOldMaster
  <2>1. server' \in [Pools -> Servers \cup {None}]
    BY <1>0, <1>8, ClosedFacts DEF CloseOldMaster
  <2>2. CASE opDsns = NoReplicas
    BY <1>0, <1>8, <2>1, <2>2, OpEndsFacts DEF CloseOldMaster, OpTyped, OpEnds
  <2>3. CASE opDsns # NoReplicas
    BY <1>0, <1>8, <2>1, <2>3 DEF CloseOldMaster, OpTyped
  <2> QED BY <2>2, <2>3
<1>9. CASE DetachReplicas
  BY <1>0, <1>9 DEF DetachReplicas, ReplicasDetached, OpTyped
<1>10. CASE CloseOldReplicas
  <2>1. server' \in [Pools -> Servers \cup {None}]
    BY <1>0, <1>10, ClosedFacts DEF CloseOldReplicas
  <2>2. CASE opDsns = <<>>
    BY <1>0, <1>10, <2>1, <2>2, OpEndsFacts DEF CloseOldReplicas, OpTyped, OpEnds
  <2>3. CASE opDsns # <<>>
    BY <1>0, <1>10, <2>1, <2>3 DEF CloseOldReplicas, OpTyped
  <2> QED BY <2>2, <2>3
<1>11. CASE OpenReplica
  <2>1. opDsns \in Seq(Secondaries) /\ opTry + 1 \in 1 .. Len(opDsns)
    BY <1>0, <1>11, DsnFacts DEF OpenReplica
  <2>2. opDsns[opTry + 1] \in Servers
    BY <2>1, ElementOfSeq DEF Servers
  <2>3. Fresh \in Pools /\ server' \in [Pools -> Servers \cup {None}]
    BY <1>11, <2>2, FreshFacts DEF OpenReplica
  <2> QED BY <1>0, <1>11, <2>1, <2>3 DEF OpenReplica, OpTyped
<1>12. CASE OpenReplicaFails
  BY <1>0, <1>12 DEF OpenReplicaFails, OpTyped
<1>13. CASE PingReplica
  <2>1. opPool \in Pools
    BY <1>0, <1>13 DEF PingReplica
  <2>2. opNew' \in Seq(Pools) /\ server' \in [Pools -> Servers \cup {None}]
    <3>1. CASE opNew' = Append(opNew, opPool) /\ UNCHANGED server
      BY <1>0, <2>1, <3>1, ToSetFacts
    <3>2. CASE server' = PingFailed /\ UNCHANGED opNew
      BY <1>0, <2>1, <3>2, ClosedFacts DEF PingFailed
    <3> QED BY <1>13, <3>1, <3>2 DEF PingReplica
  <2> QED BY <1>0, <1>13, <2>1, <2>2 DEF PingReplica, OpTyped
<1>14. CASE ReplicasCancelled
  <2>1. server' \in [Pools -> Servers \cup {None}]
    BY <1>0, <1>14, ToSetFacts, ClosedFacts DEF ReplicasCancelled
  <2> QED BY <1>0, <1>14, <2>1, OpEndsFacts DEF ReplicasCancelled, OpTyped, OpEnds
<1>15. CASE InstallReplicas
  BY <1>0, <1>15, OpEndsFacts DEF InstallReplicas, OpTyped, OpEnds
<1>16. CASE CloseDetach
  BY <1>0, <1>16 DEF CloseDetach, CloseTakes, OpTyped
<1>17. CASE ClosePools
  <2>1. server' \in [Pools -> Servers \cup {None}]
    BY <1>0, <1>17, ClosedFacts DEF ClosePools
  <2> QED BY <1>0, <1>17, <2>1, OpEndsFacts DEF ClosePools, OpTyped, OpEnds
<1> QED BY <1>1, <1>2, <1>3, <1>4, <1>5, <1>6, <1>7, <1>8, <1>9, <1>10, <1>11, <1>12, <1>13,
           <1>14, <1>15, <1>16, <1>17 DEF OpStep

(* The prober's own variables, and the flags beside the replicas.           *)
LEMMA FlagStep ==
    ASSUME TypeOK, Holding, FlagsFitReplicas, [Next]_vars
    PROVE  /\ health' \in Seq(BOOLEAN) /\ healthSet' \in BOOLEAN
           /\ probeSnap' \in Seq(Pools) /\ probeAt' \in 0 .. Len(probeSnap')
           /\ probeShared' \in BOOLEAN
           /\ master' \in Pools \cup {None} /\ replicas' \in Seq(Pools)
           /\ FlagsFitReplicas'
<1> DEFINE Goal == /\ health' \in Seq(BOOLEAN) /\ healthSet' \in BOOLEAN
                   /\ probeSnap' \in Seq(Pools) /\ probeAt' \in 0 .. Len(probeSnap')
                   /\ probeShared' \in BOOLEAN
                   /\ master' \in Pools \cup {None} /\ replicas' \in Seq(Pools)
                   /\ FlagsFitReplicas'
<1> USE DEF FlagsFitReplicas, opVars, poolVars, envVars, flagVars, probeVars
<1>0. /\ health \in Seq(BOOLEAN) /\ Len(health) \in Nat /\ healthSet \in BOOLEAN
      /\ probeSnap \in Seq(Pools) /\ Len(probeSnap) \in Nat /\ probeAt \in 0 .. Len(probeSnap)
      /\ probeShared \in BOOLEAN
      /\ master \in Pools \cup {None} /\ replicas \in Seq(Pools)
      /\ opPool \in Pools \cup {None} /\ opNew \in Seq(Pools)
      /\ <<>> \in Seq(BOOLEAN) /\ <<>> \in Seq(Pools)
  BY LenProperties, EmptySeq DEF TypeOK
<1>1. CASE UNCHANGED <<health, healthSet, probeSnap, probeAt, probeShared, poolVars>>
  BY <1>0, <1>1
<1>2. CASE PublishMaster
  BY <1>0, <1>2 DEF PublishMaster
<1>3. CASE DetachReplicas \/ CloseDetach
  BY <1>0, <1>3 DEF DetachReplicas, CloseDetach, ResetReplicaHealth, ReplicasDetached
<1>4. CASE InstallReplicas
  BY <1>0, <1>4, AllHealthyFacts DEF InstallReplicas, EnsureReplicaHealth
<1>5. CASE StartProbing
  BY <1>0, <1>5, AllHealthyFacts DEF StartProbing
<1>6. CASE ProbeSnapshot
  <2>1. probeSnap' = replicas /\ probeAt' = 0 /\ probeShared' = TRUE /\ UNCHANGED poolVars
    BY <1>6 DEF ProbeSnapshot
  <2>2. \/ health' = AllHealthy(replicas) /\ healthSet' = TRUE
        \/ UNCHANGED flagVars
    BY <1>6 DEF ProbeSnapshot, EnsureReplicaHealth
  <2>0. AllHealthy(replicas) \in Seq(BOOLEAN) /\ Len(AllHealthy(replicas)) = Len(replicas)
    BY <1>0, AllHealthyFacts
  <2>3. /\ health' \in Seq(BOOLEAN) /\ healthSet' \in BOOLEAN
        /\ healthSet' => Len(health') = Len(replicas)
    <3>1. CASE UNCHANGED flagVars
      BY <1>0, <3>1
    <3>2. CASE health' = AllHealthy(replicas) /\ healthSet' = TRUE
      BY <2>0, <3>2
    <3> QED BY <2>2, <3>1, <3>2
  <2>4. Len(replicas) \in Nat
    BY <1>0, LenProperties
  <2>5. probeAt' \in 0 .. Len(probeSnap')
    BY <2>1, <2>4
  <2> QED BY <1>0, <2>1, <2>3, <2>5
<1>7. CASE ProbeReplica
  <2>1. /\ probeAt' = probeAt + 1 /\ probeAt < Len(probeSnap)
        /\ UNCHANGED <<healthSet, probeSnap, probeShared, poolVars>>
    BY <1>7 DEF ProbeReplica
  <2>2. probeAt' \in 0 .. Len(probeSnap')
    BY <1>0, <2>1
  <2>3. health' \in Seq(BOOLEAN) /\ Len(health') = Len(health)
    <3>1. CASE health' = health
      BY <1>0, <3>1
    <3>2. ASSUME probeAt' \in DOMAIN health,
                 health' = [health EXCEPT ![probeAt'] = ProbePing(probeSnap[probeAt'])]
          PROVE  health' \in Seq(BOOLEAN) /\ Len(health') = Len(health)
      <4>1. ProbePing(probeSnap[probeAt']) \in BOOLEAN
        BY Zenon DEF ProbePing, Ping
      <4>2. PICK b \in BOOLEAN : health' = [health EXCEPT ![probeAt'] = b]
        BY <3>2, <4>1
      <4>3. probeAt' \in 1 .. Len(health)
        BY <1>0, <3>2, LenProperties
      <4> QED BY <1>0, <4>2, <4>3, ExceptSeq
    <3> QED BY <1>7, <3>1, <3>2 DEF ProbeReplica
  <2> QED BY <1>0, <2>1, <2>2, <2>3
<1>8. CASE ProbeRoundEnds
  <2>1. /\ probeSnap' = <<>> /\ probeAt' = 0 /\ probeShared' = FALSE
        /\ UNCHANGED <<health, healthSet, master, replicas>>
    BY <1>8 DEF ProbeRoundEnds
  <2>2. probeAt' \in 0 .. Len(probeSnap')
    BY <2>1, EmptySeq
  <2> QED BY <1>0, <2>1, <2>2
<1>9. ASSUME \/ \E s \in Servers : Flip(s)
             \/ OpCall \/ InitCancelled \/ OpenMaster \/ OpenMasterFails \/ PingMasterFails
             \/ MarkHealthy \/ CloseOldMaster \/ CloseOldReplicas \/ OpenReplica
             \/ OpenReplicaFails \/ PingReplica \/ ReplicasCancelled \/ ClosePools
             \/ CancelProbing \/ ProberExits \/ ProbeReads \/ ProbeFails \/ ProbePasses
             \/ ProbeRecovers \/ UNCHANGED vars
      PROVE  UNCHANGED <<health, healthSet, probeSnap, probeAt, probeShared, replicas, master>>
  BY <1>9 DEF Flip, OpCall, InitCancelled, OpenMaster, OpenMasterFails, PingMasterFails,
     MarkHealthy, CloseOldMaster, CloseOldReplicas, OpenReplica, OpenReplicaFails, PingReplica,
     ReplicasCancelled, ClosePools, CancelProbing, ProberExits, ProbeReads, ProbeFails,
     ProbePasses, ProbeRecovers, vars
<1> QED BY <1>1, <1>2, <1>3, <1>4, <1>5, <1>6, <1>7, <1>8, <1>9
        DEF Next, OpStep, ProbeStep

LEMMA TypeStep == TypeOK /\ Holding /\ FlagsFitReplicas /\ [Next]_vars => TypeOK' /\ Holding'
<1> SUFFICES ASSUME TypeOK, Holding, FlagsFitReplicas, [Next]_vars PROVE TypeOK' /\ Holding'
  OBVIOUS
<1> USE DEF opVars, poolVars, envVars, flagVars, probeVars
<1> DEFINE Rest == /\ ops' \in 0 .. MaxOps /\ flips' \in 0 .. MaxFlips /\ up' \subseteq Servers
                   /\ healthy' \in BOOLEAN /\ failures' \in 0 .. Threshold
                   /\ probePc' \in {"off", "tick", "ping", "recovered", "snapshot", "replicas"}
                   /\ probeCancelled' \in BOOLEAN /\ probePool' \in Pools \cup {None}
<1>0. /\ ops \in 0 .. MaxOps /\ flips \in 0 .. MaxFlips /\ up \subseteq Servers
      /\ healthy \in BOOLEAN /\ failures \in 0 .. Threshold
      /\ probePc \in {"off", "tick", "ping", "recovered", "snapshot", "replicas"}
      /\ probeCancelled \in BOOLEAN /\ probePool \in Pools \cup {None}
      /\ master \in Pools \cup {None} /\ Threshold \in Nat \ {0} /\ MaxOps \in Nat
      /\ MaxFlips \in Nat
  BY DbAssumption DEF TypeOK
<1>a. /\ ops < MaxOps => ops + 1 \in 0 .. MaxOps
      /\ flips < MaxFlips => flips + 1 \in 0 .. MaxFlips
      /\ 0 \in 0 .. Threshold
      /\ (IF failures < Threshold THEN failures + 1 ELSE Threshold) \in 0 .. Threshold
  BY <1>0
<1>1. OpTyped /\ server \in [Pools -> Servers \cup {None}]
  BY DEF TypeOK, OpTyped
<1>2. CASE OpCall \/ CloseDetach \/ OpStep
  <2>1. Rest
    <3>1. CASE OpCall \/ CloseDetach
      BY <1>0, <1>a, <3>1 DEF OpCall, CloseDetach
    <3>2. CASE OpStep
      <4>1. /\ UNCHANGED <<ops, flips, up, failures, probePc, probeCancelled, probePool>>
            /\ healthy' = healthy \/ healthy' = TRUE
        BY <3>2 DEF OpStep, InitCancelled, OpenMaster, OpenMasterFails,
           PingMasterFails, PublishMaster, MarkHealthy, CloseOldMaster, DetachReplicas,
           CloseOldReplicas, OpenReplica, OpenReplicaFails, PingReplica, ReplicasCancelled,
           InstallReplicas, ClosePools
      <4> QED BY <1>0, <4>1
    <3> QED BY <1>2, <3>1, <3>2
  <2> QED BY <1>2, <2>1, OpTypeStep, FlagStep DEF OpTyped, TypeOK
<1>3. ASSUME \/ \E s \in Servers : Flip(s)
             \/ StartProbing \/ CancelProbing \/ ProbeStep \/ UNCHANGED vars
      PROVE  TypeOK' /\ Holding'
  <2>1. Rest
    <3>1. CASE \E s \in Servers : Flip(s)
      BY <1>0, <1>a, <3>1 DEF Flip
    <3>2. CASE StartProbing \/ CancelProbing \/ UNCHANGED vars
      BY <1>0, <1>a, <3>2 DEF StartProbing, CancelProbing, vars
    <3>3. CASE ProberExits \/ ProbeReads \/ ProbePasses \/ ProbeRecovers
      BY <1>0, <1>a, <3>3 DEF ProberExits, ProbeReads, ProbePasses, ProbeRecovers, StoreHealthy
    <3>4. CASE ProbeFails
      <4>1. healthy' \in BOOLEAN
        BY <1>0, <3>4, Zenon DEF ProbeFails
      <4>2. failures' \in 0 .. Threshold
        BY <1>0, <3>4 DEF ProbeFails
      <4> QED BY <1>0, <3>4, <4>1, <4>2 DEF ProbeFails
    <3>5. CASE ProbeSnapshot \/ ProbeReplica \/ ProbeRoundEnds
      BY <1>0, <3>5 DEF ProbeSnapshot, ProbeReplica, ProbeRoundEnds
    <3> QED BY <1>3, <3>1, <3>2, <3>3, <3>4, <3>5 DEF ProbeStep
  <2>2. UNCHANGED <<server, opVars, poolVars>>
    BY <1>3 DEF Flip, StartProbing, CancelProbing, ProbeStep, ProberExits, ProbeReads,
       ProbeFails, ProbePasses, ProbeRecovers, ProbeSnapshot, ProbeReplica, ProbeRoundEnds, vars
  <2>3. OpTyped' /\ server' \in [Pools -> Servers \cup {None}] /\ Holding'
    BY <1>1, <2>2 DEF OpTyped, Holding
  <2> QED BY <2>1, <2>3, FlagStep DEF OpTyped, TypeOK
<1> QED BY <1>2, <1>3 DEF Next

-----------------------------------------------------------------------------
(* A pool that is opened is a new one, one that is closed is held nowhere   *)
(* else, and one that is handed over is neither lost nor kept.              *)
LEMMA PoolStep ==
    ASSUME TypeOK, Holding, Apart, NoPoolLeaks, [Next]_vars
    PROVE  Apart' /\ NoPoolLeaks'
<1> USE DEF Published, opVars, poolVars, envVars, flagVars, probeVars, OpEnds
<1>0. /\ master \in Pools \cup {None} /\ replicas \in Seq(Pools) /\ opPool \in Pools \cup {None}
      /\ opNew \in Seq(Pools) /\ opOld \subseteq Pools /\ None \notin Pools
      /\ ToSet(replicas) \subseteq Pools /\ ToSet(opNew) \subseteq Pools
      /\ ToSet(<<>>) = {}
  BY DbAssumption, ToSetFacts DEF TypeOK, ToSet
<1>1. CASE UNCHANGED <<server, master, replicas, opPool, opNew, opOld>>
  BY <1>1 DEF Apart, NoPoolLeaks, Open
<1>2. CASE InitCancelled \/ OpenMasterFails
  <2>1. opPc = "attempt" /\ UNCHANGED <<server, master, replicas>>
    BY <1>2 DEF InitCancelled, OpenMasterFails
  <2>2. opPool' = None /\ opNew' = <<>> /\ opOld' = {}
    BY <1>2, <2>1 DEF InitCancelled, OpenMasterFails, Holding
  <2> QED BY <2>1, <2>2 DEF Holding, Apart, NoPoolLeaks, Open
<1>3. CASE OpenMaster \/ OpenReplica
  <2>1. PICK s \in Servers : server' = [server EXCEPT ![Fresh] = s]
    <3>1. CASE OpenMaster
      BY <3>1 DEF OpenMaster, Servers
    <3>2. CASE OpenReplica
      <4>1. /\ opDsns \in Seq(Secondaries) /\ opTry + 1 \in 1 .. Len(opDsns)
            /\ server' = [server EXCEPT ![Fresh] = opDsns[opTry + 1]]
        BY <3>2, DsnFacts DEF OpenReplica, TypeOK, Holding
      <4>2. opDsns[opTry + 1] \in Servers
        BY <4>1, ElementOfSeq DEF Servers
      <4> QED BY <4>1, <4>2
    <3> QED BY <1>3, <3>1, <3>2
  <2>2. Fresh \in Pools \ Open /\ Open' = Open \cup {Fresh}
    BY <1>3, <2>1, FreshFacts DEF OpenMaster, OpenReplica
  <2>3. opPool = None /\ opPool' = Fresh /\ UNCHANGED <<master, replicas, opNew, opOld>>
    BY <1>3 DEF OpenMaster, OpenReplica, Holding
  <2> QED BY <1>0, <2>2, <2>3 DEF Apart, NoPoolLeaks
<1>4. CASE PingMasterFails
  <2>1. opPool \in Pools /\ opNew = <<>> /\ opOld = {}
    BY <1>0, <1>4 DEF PingMasterFails, Holding
  <2>2. Open' = Open \ {opPool}
    BY <1>4, <2>1, ClosedFacts DEF PingMasterFails, PingFailed
  <2>3. opPool' = None /\ opNew' = <<>> /\ opOld' = {} /\ UNCHANGED <<master, replicas>>
    BY <1>4, <2>1 DEF PingMasterFails
  <2> QED BY <1>0, <2>1, <2>2, <2>3 DEF Apart, NoPoolLeaks
<1>5. CASE PublishMaster
  <2>1. opPool \in Pools /\ opNew = <<>> /\ opOld = {}
    BY <1>0, <1>5 DEF PublishMaster, Holding
  <2>2. /\ master' = opPool /\ opOld' = {master} \ {None} /\ opPool' = None
        /\ UNCHANGED <<server, replicas, opNew>>
    BY <1>5 DEF PublishMaster
  <2> QED BY <1>0, <2>1, <2>2 DEF Apart, NoPoolLeaks, Open
<1>6. CASE CloseOldMaster \/ CloseOldReplicas \/ ClosePools
  <2>1. opPool = None /\ opNew = <<>> /\ opOld \subseteq Pools
    BY <1>0, <1>6 DEF CloseOldMaster, CloseOldReplicas, ClosePools, Holding
  <2>2. Open' = Open \ opOld
    BY <1>0, <1>6, ClosedFacts DEF CloseOldMaster, CloseOldReplicas, ClosePools
  <2>3. opPool' = None /\ opNew' = <<>> /\ opOld' = {} /\ UNCHANGED <<master, replicas>>
    BY <1>6, <2>1 DEF CloseOldMaster, CloseOldReplicas, ClosePools
  <2> QED BY <1>0, <2>1, <2>2, <2>3 DEF Apart, NoPoolLeaks
<1>7. CASE DetachReplicas
  <2>1. opPool = None /\ opNew = <<>> /\ opOld = {}
    BY <1>7 DEF DetachReplicas, Holding
  <2>2. /\ opOld' = ToSet(replicas) /\ replicas' = <<>>
        /\ UNCHANGED <<server, master, opPool, opNew>>
    BY <1>7 DEF DetachReplicas, ReplicasDetached
  <2> QED BY <1>0, <2>1, <2>2 DEF Apart, NoPoolLeaks, Open
<1>8. CASE PingReplica
  <2>1. opPool \in Pools /\ opOld = {} /\ opPool' = None
        /\ UNCHANGED <<master, replicas, opOld>>
    BY <1>0, <1>8 DEF PingReplica, Holding
  <2>2. CASE opNew' = Append(opNew, opPool) /\ UNCHANGED server
    <3>1. ToSet(opNew') = ToSet(opNew) \cup {opPool} /\ Open' = Open
      BY <1>0, <2>1, <2>2, ToSetFacts DEF Open
    <3> QED BY <1>0, <2>1, <3>1 DEF Apart, NoPoolLeaks
  <2>3. CASE server' = PingFailed /\ UNCHANGED opNew
    <3>1. Open' = Open \ {opPool}
      BY <2>1, <2>3, ClosedFacts DEF PingFailed
    <3> QED BY <1>0, <2>1, <2>3, <3>1 DEF Apart, NoPoolLeaks
  <2> QED BY <1>8, <2>2, <2>3 DEF PingReplica
<1>9. CASE ReplicasCancelled
  <2>1. opPool = None /\ opOld = {}
    BY <1>9 DEF ReplicasCancelled, Holding
  <2>2. Open' = Open \ ToSet(opNew)
    BY <1>0, <1>9, ClosedFacts DEF ReplicasCancelled
  <2>3. opPool' = None /\ opNew' = <<>> /\ opOld' = {} /\ UNCHANGED <<master, replicas>>
    BY <1>9 DEF ReplicasCancelled
  <2> QED BY <1>0, <2>1, <2>2, <2>3 DEF Apart, NoPoolLeaks
<1>10. CASE InstallReplicas
  <2>1. opPool = None /\ opOld = {} /\ replicas = <<>>
    BY <1>10 DEF InstallReplicas, Holding
  <2>2. /\ replicas' = opNew /\ opPool' = None /\ opNew' = <<>> /\ opOld' = {}
        /\ UNCHANGED <<server, master>>
    BY <1>10 DEF InstallReplicas
  <2> QED BY <1>0, <2>1, <2>2 DEF Apart, NoPoolLeaks, Open
<1>11. CASE CloseDetach
  <2>1. opPool = None /\ opNew = <<>> /\ opOld = {}
    BY <1>11 DEF CloseDetach, Holding
  <2>2. /\ opOld' = ({master} \cup ToSet(replicas)) \ {None} /\ master' = None /\ replicas' = <<>>
        /\ UNCHANGED <<server, opPool, opNew>>
    BY <1>11 DEF CloseDetach, CloseTakes
  <2> QED BY <1>0, <2>1, <2>2 DEF Apart, NoPoolLeaks, Open
<1>12. ASSUME \/ \E s \in Servers : Flip(s)
              \/ OpCall \/ MarkHealthy \/ OpenReplicaFails
              \/ StartProbing \/ CancelProbing \/ ProbeStep \/ UNCHANGED vars
       PROVE  UNCHANGED <<server, master, replicas, opPool, opNew, opOld>>
  BY <1>12 DEF Flip, OpCall, MarkHealthy, OpenReplicaFails, StartProbing, CancelProbing,
     ProbeStep, ProberExits, ProbeReads, ProbeFails, ProbePasses, ProbeRecovers, ProbeSnapshot,
     ProbeReplica, ProbeRoundEnds, vars
<1> QED BY <1>1, <1>2, <1>3, <1>4, <1>5, <1>6, <1>7, <1>8, <1>9, <1>10, <1>11, <1>12
        DEF Next, OpStep

LEMMA Invariance == Spec => []DbInv
<1>1. DbInv /\ [Next]_vars => DbInv'
  BY TypeStep, FlagStep, PoolStep DEF DbInv
<1> QED BY Initially, <1>1, PTL DEF Spec

(* Whatever fails, is retried, rebuilt or closed: the open pools are those  *)
(* published and those an operation holds, none is held twice, what Master  *)
(* and Replica return is open, and the flags are those of the replicas.     *)
THEOREM PoolsStayKnown == Spec => []PoolsAreKnown
<1>1. DbInv => PoolsAreKnown
  <2> SUFFICES ASSUME DbInv PROVE PublishedAreOpen
    BY DEF DbInv, PoolsAreKnown
  <2>1. Replica \subseteq {master} \cup ToSet(replicas)
    BY DEF Replica, Healthy, ToSet
  <2> QED BY <2>1 DEF DbInv, NoPoolLeaks, PublishedAreOpen
<1> QED BY Invariance, <1>1, PTL
=============================================================================
