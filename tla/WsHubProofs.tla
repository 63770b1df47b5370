---------------------------- MODULE WsHubProofs ----------------------------
(* Proofs about WsHub, for any connections and callers of Stop and queues   *)
(* and buffers of any capacity.                                             *)
EXTENDS WsHub, SequenceTheorems, TLAPS

(* What is queued after one more entry, and after the first one is taken.   *)
LEMMA QueuedAppend ==
    ASSUME NEW q \in Seq(Conns), NEW c \in Conns
    PROVE  /\ Append(q, c) \in Seq(Conns) /\ Len(Append(q, c)) = Len(q) + 1
           /\ QueuedFor(Append(q, c)) = QueuedFor(q) \cup {c}
<1>1. /\ Append(q, c) \in Seq(Conns) /\ Len(Append(q, c)) = Len(q) + 1
      /\ \A i \in 1 .. Len(q) : Append(q, c)[i] = q[i]
      /\ Append(q, c)[Len(q) + 1] = c
  BY AppendProperties
<1>2. DOMAIN q = 1 .. Len(q) /\ DOMAIN Append(q, c) = 1 .. Len(q) + 1 /\ Len(q) \in Nat
  BY <1>1, LenProperties
<1>3. 1 .. Len(q) + 1 = (1 .. Len(q)) \cup {Len(q) + 1}
  BY <1>2
<1>4. QueuedFor(Append(q, c)) = {Append(q, c)[i] : i \in (1 .. Len(q)) \cup {Len(q) + 1}}
  BY <1>2, <1>3 DEF QueuedFor
<1>5. QueuedFor(q) = {q[i] : i \in 1 .. Len(q)}
  BY <1>2 DEF QueuedFor
<1> QED BY <1>1, <1>4, <1>5

LEMMA QueuedTail ==
    ASSUME NEW q \in Seq(Conns), q # <<>>
    PROVE  /\ Head(q) \in Conns /\ Tail(q) \in Seq(Conns) /\ Len(Tail(q)) = Len(q) - 1
           /\ QueuedFor(q) = {Head(q)} \cup QueuedFor(Tail(q))
<1>1. /\ Head(q) \in Conns /\ Tail(q) \in Seq(Conns) /\ Len(Tail(q)) = Len(q) - 1
      /\ Head(q) = q[1] /\ \A i \in 1 .. Len(Tail(q)) : Tail(q)[i] = q[i + 1]
  BY HeadTailProperties
<1>2. /\ DOMAIN q = 1 .. Len(q) /\ Len(q) \in Nat \ {0}
      /\ DOMAIN Tail(q) = 1 .. Len(q) - 1
  BY <1>1, LenProperties, EmptySeq
<1>3. \A i \in 1 .. Len(q) : i = 1 \/ i - 1 \in 1 .. Len(q) - 1
  BY <1>2
<1>4. \A i \in 1 .. Len(q) : q[i] \in {Head(q)} \cup QueuedFor(Tail(q))
  <2> SUFFICES ASSUME NEW i \in 1 .. Len(q), i - 1 \in 1 .. Len(q) - 1
               PROVE  q[i] \in QueuedFor(Tail(q))
    BY <1>1, <1>3
  <2>1. Tail(q)[i - 1] = q[(i - 1) + 1] /\ (i - 1) + 1 = i
    BY <1>1, <1>2
  <2> QED BY <1>2, <2>1 DEF QueuedFor
<1>5. \A i \in 1 .. Len(q) - 1 : i + 1 \in 1 .. Len(q) /\ Tail(q)[i] = q[i + 1]
  BY <1>1, <1>2
<1> QED BY <1>1, <1>2, <1>4, <1>5 DEF QueuedFor

LEMMA Room ==
    ASSUME NEW q \in Seq(Conns), NEW c \in Conns, Len(q) < QueueCap
    PROVE  Append(q, c) \in Seq(Conns) /\ Len(Append(q, c)) <= QueueCap
<1>1. Len(q) \in Nat /\ QueueCap \in Nat
  BY LenProperties, HubAssumption
<1> QED BY <1>1, QueuedAppend

LEMMA QueuedEmpty == QueuedFor(<<>>) = {}
BY DEF QueuedFor

(* What Run may have in hand. *)
LEMMA HandCases ==
    ASSUME TypeOK
    PROVE  /\ hand[1] = "register" => hand[2] \in Conns /\ hand = <<"register", hand[2]>>
           /\ hand[1] = "unregister" => hand[2] \in Conns
           /\ hand = NoHand => hand[1] = "none"
<1>1. CASE hand = NoHand
  BY <1>1 DEF NoHand
<1>2. CASE hand = <<"broadcast">>
  BY <1>2 DEF NoHand
<1>3. CASE hand \in {"register", "unregister"} \X Conns
  BY <1>3 DEF NoHand
<1> QED BY <1>1, <1>2, <1>3 DEF TypeOK

(* Nothing queued, nothing in hand and nobody connected.  Once stopped is   *)
(* set no client is in a call any more, so a clean hub stays clean; Run     *)
(* leaves one when it ends, and Stop when Run has not started by then.      *)
Clean == connections = {} /\ Drained /\ hand = NoHand

CleanedUp ==
    /\ run = "off" <=> ~started
    /\ hand # NoHand => run = "loop"
    /\ stopped => NoReaders
    /\ run \in {"drain", "done"} => stopped
    /\ run = "done" => Clean
    /\ \A s \in Stoppers :
          /\ stopPc[s] \in {"look", "drain", "closeAll", "leave"} => stopped
          /\ stopPc[s] = "closeAll" /\ ~started => Drained
          /\ stopPc[s] = "leave" /\ ~started => Clean
          /\ stopPc[s] \in {"wait", "returned"} => stopOnce = "done"
          /\ stopPc[s] = "returned" => Clean
    /\ stopOnce = "done" => stopped /\ (~started => Clean)

HubInv == TypeOK /\ NoOrphans /\ CleanedUp

LEMMA Initially == Init => HubInv
<1> SUFFICES ASSUME Init PROVE HubInv
  OBVIOUS
<1>1. /\ ops \in 0 .. MaxOps /\ broadcast \in 0 .. QueueCap
      /\ register \in Seq(Conns) /\ Len(register) <= QueueCap
      /\ unregister \in Seq(Conns) /\ Len(unregister) <= QueueCap
  BY HubAssumption, EmptySeq DEF Init
<1>2. /\ stopPc \in [Stoppers -> {"idle", "once", "look", "drain", "closeAll", "leave",
                                  "wait", "returned"}]
      /\ call \in [Conns -> Kinds \cup {NoCall}]
      /\ buf \in [Conns -> 0 .. BufCap]
      /\ reader \in [Conns -> {"run", "done"}] /\ writer \in [Conns -> {"run", "done"}]
  BY HubAssumption DEF Init
<1>3. TypeOK
  BY <1>1, <1>2 DEF Init, TypeOK
<1>4. NoOrphans /\ CleanedUp
  BY DEF Init, NoOrphans, CleanedUp, NoReaders
<1> QED BY <1>3, <1>4 DEF HubInv

(* Connections only ever get closed. *)
LEMMA CloseTypes ==
    ASSUME TypeOK, NEW cs \in SUBSET Conns, Close(cs)
    PROVE  /\ closed' \subseteq Conns /\ buf' \in [Conns -> 0 .. BufCap]
           /\ closed' = closed \cup cs
BY HubAssumption DEF TypeOK, Close

LEMMA DrainTypes ==
    ASSUME TypeOK, DrainOne
    PROVE  /\ register' \in Seq(Conns) /\ Len(register') <= QueueCap
           /\ unregister' \in Seq(Conns) /\ Len(unregister') <= QueueCap
           /\ broadcast' \in 0 .. QueueCap
           /\ closed' \subseteq Conns /\ buf' \in [Conns -> 0 .. BufCap]
           /\ closed \subseteq closed'
           /\ QueuedFor(register) \subseteq QueuedFor(register') \cup closed'
           /\ ~Drained
<1> USE HubAssumption DEF TypeOK, Drained
<1>0. /\ register \in Seq(Conns) /\ Len(register) \in Nat
      /\ unregister \in Seq(Conns) /\ Len(unregister) \in Nat
  BY LenProperties
<1>1. CASE /\ register # <<>> /\ register' = Tail(register) /\ Close({Head(register)})
           /\ UNCHANGED <<unregister, broadcast>>
  <2>1. /\ Head(register) \in Conns /\ register' \in Seq(Conns)
        /\ Len(register') = Len(register) - 1
        /\ QueuedFor(register) = {Head(register)} \cup QueuedFor(register')
    BY <1>0, <1>1, QueuedTail
  <2>2. /\ closed' \subseteq Conns /\ buf' \in [Conns -> 0 .. BufCap]
        /\ closed' = closed \cup {Head(register)}
    BY <1>1, <2>1, CloseTypes, SMTT(30)
  <2>3. Len(register') <= QueueCap
    BY <1>0, <2>1
  <2> QED BY <1>1, <2>1, <2>2, <2>3
<1>2. CASE /\ unregister # <<>> /\ unregister' = Tail(unregister) /\ Close({Head(unregister)})
           /\ UNCHANGED <<register, broadcast>>
  <2>1. /\ Head(unregister) \in Conns /\ unregister' \in Seq(Conns)
        /\ Len(unregister') = Len(unregister) - 1
    BY <1>0, <1>2, QueuedTail
  <2>2. /\ closed' \subseteq Conns /\ buf' \in [Conns -> 0 .. BufCap]
        /\ closed' = closed \cup {Head(unregister)}
    BY <1>2, <2>1, CloseTypes
  <2>3. Len(unregister') <= QueueCap
    BY <1>0, <2>1
  <2> QED BY <1>2, <2>1, <2>2, <2>3
<1>3. CASE /\ broadcast > 0 /\ broadcast' = broadcast - 1
           /\ UNCHANGED <<register, unregister, closed, buf>>
  BY <1>3
<1> QED BY <1>1, <1>2, <1>3 DEF DrainOne

LEMMA TypeStep == TypeOK /\ [Next]_vars => TypeOK'
<1> SUFFICES ASSUME TypeOK, [Next]_vars PROVE TypeOK'
  OBVIOUS
<1> USE HubAssumption DEF queueVars, runVars, stopVars, clientVars, connVars
<1>1. ASSUME NEW c \in Conns, NEW kind \in Kinds, NEW try \in BOOLEAN, CallEnter(c, kind, try)
      PROVE  TypeOK'
  <2>1. CASE Refused(try)
    BY <1>1, <2>1, CloseTypes DEF CallEnter, TypeOK
  <2>2. CASE ~Refused(try)
    <3>0. ops \in Nat /\ ops < MaxOps /\ ops' = ops + 1
      BY <1>1 DEF CallEnter, TypeOK
    <3>1. ops' \in 0 .. MaxOps
      BY <3>0
    <3>2. call' \in [Conns -> Kinds \cup {NoCall}] /\ offered' \subseteq Conns
      BY <1>1, <2>2, ZenonT(40) DEF CallEnter, TypeOK
    <3> QED BY <1>1, <2>2, <3>1, <3>2 DEF CallEnter, TypeOK
  <2> QED BY <2>1, <2>2
<1>2. ASSUME NEW c \in Conns, CallRegister(c) PROVE TypeOK'
  <2>1. CASE Len(register) < QueueCap
    <3>1. register' \in Seq(Conns) /\ Len(register') <= QueueCap
      BY <1>2, <2>1, Room, ZenonT(40) DEF CallRegister, TypeOK
    <3> QED BY <1>2, <2>1, <3>1 DEF CallRegister, TypeOK
  <2>2. CASE ~(Len(register) < QueueCap)
    BY <1>2, <2>2, CloseTypes DEF CallRegister, FullCloses, TypeOK
  <2> QED BY <2>1, <2>2
<1>3. ASSUME NEW c \in Conns, CallUnregister(c) PROVE TypeOK'
  <2>1. unregister' \in Seq(Conns) /\ Len(unregister') <= QueueCap
    BY <1>3, Room, ZenonT(40) DEF CallUnregister, TypeOK
  <2> QED BY <1>3, <2>1, SMTT(30) DEF CallUnregister, TypeOK
<1>4. ASSUME NEW c \in Conns, CallBroadcast(c) PROVE TypeOK'
  BY <1>4 DEF CallBroadcast, TypeOK
<1>5. CASE RunStart
  BY <1>5 DEF RunStart, TypeOK
<1>6. CASE RunTakeRegister
  BY <1>6, QueuedTail DEF RunTakeRegister, TypeOK
<1>7. CASE RunTakeUnregister
  BY <1>7, QueuedTail DEF RunTakeUnregister, TypeOK
<1>8. CASE RunTakeBroadcast
  BY <1>8 DEF RunTakeBroadcast, TypeOK
<1>9. CASE RunAdd
  BY <1>9, HandCases DEF RunAdd, TypeOK
<1>10. CASE RunDelete
  BY <1>10, HandCases, CloseTypes DEF RunDelete, TypeOK
<1>11. CASE RunBroadcast
  BY <1>11 DEF RunBroadcast, Reached, TakesMessage, TypeOK
<1>12. CASE RunSeesStop
  BY <1>12 DEF RunSeesStop, TypeOK
<1>13. ASSUME RunDrain \/ \E s \in Stoppers : StopDrain(s) PROVE TypeOK'
  BY <1>13, DrainTypes DEF RunDrain, StopDrain, TypeOK
<1>14. ASSUME RunEnd \/ \E s \in Stoppers : StopCloseAll(s) PROVE TypeOK'
  BY <1>14, CloseTypes, ZenonT(40) DEF RunEnd, StopCloseAll, CloseAll, TypeOK
<1>15. ASSUME NEW s \in Stoppers,
              \/ StopCall(s) \/ StopFirst(s) \/ StopLook(s) \/ StopDrained(s) \/ StopLeave(s)
              \/ StopJoin(s) \/ StopReturn(s)
       PROVE  TypeOK'
  BY <1>15, ZenonT(40) DEF StopCall, StopFirst, StopLook, StopDrained, StopLeave, StopJoin, StopReturn, TypeOK
<1>16. ASSUME NEW c \in Conns, ReaderEnds(c) \/ WriterFails(c) PROVE TypeOK'
  BY <1>16, CloseTypes, ZenonT(40) DEF ReaderEnds, WriterFails, TypeOK
<1>17. ASSUME NEW c \in Conns, WriterSends(c) \/ WriterEnds(c) PROVE TypeOK'
  <2>0. buf[c] > 0 => buf[c] - 1 \in 0 .. BufCap
    BY DEF TypeOK
  <2>1. buf' \in [Conns -> 0 .. BufCap]
    BY <1>17, <2>0 DEF WriterSends, WriterEnds, TypeOK
  <2>2. writer' \in [Conns -> {"run", "done"}]
    BY <1>17 DEF WriterSends, WriterEnds, TypeOK
  <2> QED BY <1>17, <2>1, <2>2, SMTT(30) DEF WriterSends, WriterEnds, TypeOK
<1>18. CASE UNCHANGED vars
  BY <1>18 DEF vars, TypeOK
<1> QED BY <1>1, <1>2, <1>3, <1>4, <1>5, <1>6, <1>7, <1>8, <1>9, <1>10, <1>11, <1>12, <1>13,
           <1>14, <1>15, <1>16, <1>17, <1>18 DEF Next, CallStep, RunStep, StopStep

(* What was given to Register moves from the caller to the queue, to Run's  *)
(* hand, to the map, or is closed, and no step drops it on the way.         *)
LEMMA OrphanStep == TypeOK /\ NoOrphans /\ [Next]_vars => NoOrphans'
<1> SUFFICES ASSUME TypeOK, NoOrphans, [Next]_vars PROVE NoOrphans'
  OBVIOUS
<1> DEFINE Kept == QueuedFor(register) \cup InHand \cup connections \cup closed
<1> USE DEF queueVars, runVars, stopVars, clientVars, connVars
<1>0. call \in [Conns -> Kinds \cup {NoCall}] /\ offered \subseteq Conns
  BY DEF TypeOK
<1>1. ASSUME offered' = offered, Kept \subseteq Kept',
             \A c \in Conns : call'[c] # "register" => call[c] # "register"
      PROVE  NoOrphans'
  BY <1>0, <1>1 DEF NoOrphans
<1>2. ASSUME NEW c \in Conns, NEW kind \in Kinds, NEW try \in BOOLEAN, CallEnter(c, kind, try)
      PROVE  NoOrphans'
  <2>1. UNCHANGED <<register, hand, connections>> /\ call[c] = NoCall
        /\ offered' = IF kind = "register" THEN offered \cup {c} ELSE offered
    BY <1>2 DEF CallEnter
  <2>2. CASE Refused(try)
    <3>1. call' = call /\ closed \subseteq closed' /\ (kind = "register" => c \in closed')
      BY <1>2, <2>2, CloseTypes DEF CallEnter, Close
    <3>2. Kept \subseteq Kept'
      BY <2>1, <3>1 DEF InHand
    <3> QED BY <2>1, <3>1, <3>2 DEF NoOrphans
  <2>3. CASE ~Refused(try)
    <3>1. call' = [call EXCEPT ![c] = kind] /\ closed' = closed
      BY <1>2, <2>3 DEF CallEnter
    <3>2. Kept' = Kept
      BY <2>1, <3>1 DEF InHand
    <3> QED BY <1>0, <2>1, <3>1, <3>2 DEF NoOrphans, NoCall
  <2> QED BY <2>2, <2>3
<1>3. ASSUME NEW c \in Conns, CallRegister(c) PROVE NoOrphans'
  <2>1. /\ call' = [call EXCEPT ![c] = NoCall] /\ UNCHANGED <<hand, connections, offered>>
    BY <1>3 DEF CallRegister
  <2>2. Kept \subseteq Kept' /\ c \in Kept'
    <3>1. CASE Len(register) < QueueCap
      <4>1. register' = Append(register, c) /\ closed' = closed
        BY <1>3, <3>1 DEF CallRegister
      <4>2. QueuedFor(register') = QueuedFor(register) \cup {c}
        BY <4>1, QueuedAppend DEF TypeOK
      <4> QED BY <2>1, <4>1, <4>2 DEF InHand
    <3>2. CASE ~(Len(register) < QueueCap)
      <4>1. register' = register /\ closed' = closed \cup {c}
        BY <1>3, <3>2 DEF CallRegister, FullCloses, Close
      <4> QED BY <2>1, <4>1 DEF InHand
    <3> QED BY <3>1, <3>2
  <2> QED BY <1>0, <2>1, <2>2 DEF NoOrphans, NoCall
<1>4. ASSUME NEW c \in Conns, CallUnregister(c) \/ CallBroadcast(c) PROVE NoOrphans'
  <2>1. UNCHANGED <<register, hand, connections, closed, offered>>
        /\ call' = [call EXCEPT ![c] = NoCall] /\ call[c] # "register"
    BY <1>4 DEF CallUnregister, CallBroadcast
  <2>2. Kept' = Kept
    BY <2>1 DEF InHand
  <2> QED BY <1>0, <1>1, <2>1, <2>2
<1>5. CASE RunTakeRegister
  <2>1. /\ register # <<>> /\ hand = NoHand
        /\ hand' = <<"register", Head(register)>> /\ register' = Tail(register)
        /\ UNCHANGED <<connections, closed, call, offered>>
    BY <1>5 DEF RunTakeRegister
  <2>2. QueuedFor(register) = {Head(register)} \cup QueuedFor(register')
    BY <2>1, QueuedTail DEF TypeOK
  <2>3. InHand = {} /\ InHand' = {Head(register)}
    BY <2>1, HandCases DEF InHand
  <2> QED BY <1>1, <2>1, <2>2, <2>3
<1>6. CASE RunTakeUnregister \/ RunTakeBroadcast
  <2>1. /\ hand = NoHand /\ UNCHANGED <<register, connections, closed, call, offered>>
    BY <1>6 DEF RunTakeUnregister, RunTakeBroadcast
  <2>2. InHand = {}
    BY <2>1, HandCases DEF InHand
  <2> QED BY <1>1, <2>1, <2>2
<1>7. CASE RunAdd
  <2>1. /\ InHand = {hand[2]} /\ connections' = connections \cup {hand[2]}
        /\ UNCHANGED <<register, closed, call, offered>>
    BY <1>7 DEF RunAdd, InHand
  <2> QED BY <1>1, <2>1
<1>8. CASE RunDelete
  <2>1. /\ InHand = {} /\ connections' = connections \ {hand[2]}
        /\ closed' = closed \cup ({hand[2]} \cap connections)
        /\ UNCHANGED <<register, call, offered>>
    BY <1>8 DEF RunDelete, InHand, Close
  <2> QED BY <1>1, <2>1
<1>9. CASE RunBroadcast
  <2>1. /\ InHand = {} /\ connections' = Reached
        /\ closed' = closed \cup (connections \ Reached)
        /\ UNCHANGED <<register, call, offered>>
    BY <1>9 DEF RunBroadcast, InHand
  <2> QED BY <1>1, <2>1
<1>10. ASSUME RunDrain \/ \E s \in Stoppers : StopDrain(s) PROVE NoOrphans'
  <2>1. /\ UNCHANGED <<hand, connections, call, offered>> /\ DrainOne
    BY <1>10 DEF RunDrain, StopDrain
  <2>2. InHand' = InHand
    BY <2>1 DEF InHand
  <2> QED BY <1>1, <2>1, <2>2, DrainTypes
<1>11. ASSUME RunEnd \/ \E s \in Stoppers : StopCloseAll(s) PROVE NoOrphans'
  <2>1. /\ UNCHANGED <<hand, register, call, offered>>
        /\ connections' = {} /\ closed' = closed \cup connections
    BY <1>11 DEF RunEnd, StopCloseAll, CloseAll, Close
  <2>2. InHand' = InHand
    BY <2>1 DEF InHand
  <2> QED BY <1>1, <2>1, <2>2
<1>12. ASSUME \/ RunStart \/ RunSeesStop \/ UNCHANGED vars
              \/ \E s \in Stoppers : \/ StopCall(s) \/ StopFirst(s) \/ StopLook(s)
                                     \/ StopDrained(s) \/ StopLeave(s) \/ StopJoin(s)
                                     \/ StopReturn(s)
              \/ \E c \in Conns : ReaderEnds(c) \/ WriterSends(c) \/ WriterFails(c)
                                  \/ WriterEnds(c)
       PROVE  NoOrphans'
  <2>1. UNCHANGED <<hand, register, connections, call, offered>> /\ closed \subseteq closed'
    BY <1>12 DEF RunStart, RunSeesStop, vars, StopCall, StopFirst, StopLook, StopDrained,
       StopLeave, StopJoin, StopReturn, ReaderEnds, WriterSends, WriterFails, WriterEnds, Close
  <2>2. InHand' = InHand
    BY <2>1 DEF InHand
  <2> QED BY <1>1, <2>1, <2>2
<1> QED BY <1>2, <1>3, <1>4, <1>5, <1>6, <1>7, <1>8, <1>9, <1>10, <1>11, <1>12
        DEF Next, CallStep, RunStep, StopStep

(* Once the hub is stopped its queues only shrink, and what is clean stays  *)
(* clean, also under Stop and a late Run cleaning up at the same time.      *)
LEMMA CleanStays ==
    ASSUME TypeOK, CleanedUp, [Next]_vars, stopped
    PROVE  /\ stopped'
           /\ UNCHANGED call
           /\ Drained => Drained'
           /\ Clean => Clean'
<1> DEFINE Goal == stopped' /\ UNCHANGED call /\ (Drained => Drained') /\ (Clean => Clean')
<1> USE DEF queueVars, runVars, stopVars, clientVars, connVars, Clean, Drained
<1>0. NoReaders
  BY DEF CleanedUp
<1>1. CASE UNCHANGED <<stopped, call, register, unregister, broadcast, connections, hand>>
  BY <1>1
<1>2. ASSUME NEW c \in Conns, NEW kind \in Kinds, NEW try \in BOOLEAN, CallEnter(c, kind, try)
      PROVE  Goal
  BY <1>2 DEF CallEnter, Refused
<1>3. ASSUME NEW c \in Conns, CallStep(c) PROVE FALSE
  BY <1>0, <1>3 DEF CallStep, CallRegister, CallUnregister, CallBroadcast, NoReaders, NoCall
<1>4. CASE RunTakeRegister \/ RunTakeUnregister \/ RunTakeBroadcast
  <2>0. register # <<>> \/ unregister # <<>> \/ broadcast > 0
    BY <1>4 DEF RunTakeRegister, RunTakeUnregister, RunTakeBroadcast
  <2>1. ~Drained
    BY <2>0
  <2> QED BY <1>4, <2>1 DEF RunTakeRegister, RunTakeUnregister, RunTakeBroadcast
<1>5. CASE RunAdd \/ RunDelete \/ RunBroadcast
  <2>1. hand # NoHand
    BY <1>5, HandCases DEF RunAdd, RunDelete, RunBroadcast
  <2> QED BY <1>5, <2>1 DEF RunAdd, RunDelete, RunBroadcast
<1>6. ASSUME RunDrain \/ \E s \in Stoppers : StopDrain(s) PROVE Goal
  BY <1>6, DrainTypes DEF RunDrain, StopDrain
<1>7. ASSUME RunEnd \/ \E s \in Stoppers : StopCloseAll(s) PROVE Goal
  BY <1>7 DEF RunEnd, StopCloseAll, CloseAll
<1>8. ASSUME \/ RunStart \/ RunSeesStop \/ UNCHANGED vars
             \/ \E s \in Stoppers : \/ StopCall(s) \/ StopFirst(s) \/ StopLook(s)
                                    \/ StopDrained(s) \/ StopLeave(s) \/ StopJoin(s)
                                    \/ StopReturn(s)
             \/ \E c \in Conns : ReaderEnds(c) \/ WriterSends(c) \/ WriterFails(c)
                                 \/ WriterEnds(c)
      PROVE  Goal
  BY <1>8 DEF RunStart, RunSeesStop, vars, StopCall, StopFirst, StopLook, StopDrained,
     StopLeave, StopJoin, StopReturn, ReaderEnds, WriterSends, WriterFails, WriterEnds
<1> QED BY <1>2, <1>3, <1>4, <1>5, <1>6, <1>7, <1>8 DEF Next, RunStep, StopStep

(* The phases of Run and of the Stop calls tell how far the cleaning is.    *)
LEMMA CleanedUpStep == TypeOK /\ CleanedUp /\ [Next]_vars => CleanedUp'
<1> SUFFICES ASSUME TypeOK, CleanedUp, [Next]_vars PROVE CleanedUp'
  OBVIOUS
<1> USE DEF CleanedUp, queueVars, runVars, stopVars, clientVars, connVars
<1>0. /\ stopPc \in [Stoppers -> {"idle", "once", "look", "drain", "closeAll", "leave",
                                  "wait", "returned"}]
      /\ started \in BOOLEAN /\ stopped \in BOOLEAN
  BY DEF TypeOK
<1>a. stopped => stopped' /\ UNCHANGED call /\ (Drained => Drained') /\ (Clean => Clean')
  BY CleanStays
<1>1. CASE UNCHANGED <<started, run, hand, stopped, stopOnce, stopPc>>
  <2>1. ~stopped => ~stopped'
    BY <1>1
  <2>2. stopped => NoReaders'
    BY <1>a DEF NoReaders
  <2>3. \A s \in Stoppers : stopPc[s] \in {"closeAll", "leave", "wait", "returned"} => stopped
    OBVIOUS
  <2> QED BY <1>0, <1>1, <1>a, <2>1, <2>2, <2>3
<1>2. CASE RunStart
  BY <1>0, <1>2, <1>a DEF RunStart, NoReaders, Clean, Drained
<1>3. CASE RunTakeRegister \/ RunTakeUnregister \/ RunTakeBroadcast
  BY <1>0, <1>3, <1>a DEF RunTakeRegister, RunTakeUnregister, RunTakeBroadcast, NoReaders
<1>4. CASE RunAdd \/ RunDelete \/ RunBroadcast
  BY <1>0, <1>4, <1>a DEF RunAdd, RunDelete, RunBroadcast, NoReaders
<1>5. CASE RunSeesStop
  BY <1>0, <1>5, <1>a DEF RunSeesStop, NoReaders
<1>6. CASE RunEnd
  <2>1. Clean'
    BY <1>6 DEF RunEnd, CloseAll, Clean, Drained
  <2> QED BY <1>0, <1>6, <1>a, <2>1 DEF RunEnd, NoReaders
<1>7. ASSUME NEW s \in Stoppers, StopFirst(s) PROVE CleanedUp'
  BY <1>0, <1>7 DEF StopFirst, NoReaders, Clean, Drained
<1>8. ASSUME NEW s \in Stoppers, StopCall(s) \/ StopLook(s) PROVE CleanedUp'
  BY <1>0, <1>8, <1>a DEF StopCall, StopLook, NoReaders, Clean, Drained
<1>9. ASSUME NEW s \in Stoppers, StopDrained(s) PROVE CleanedUp'
  BY <1>0, <1>9, <1>a DEF StopDrained, NoReaders, Clean, Drained
<1>10. ASSUME NEW s \in Stoppers, StopCloseAll(s) PROVE CleanedUp'
  <2>1. stopped /\ (~started => Clean')
    BY <1>10 DEF StopCloseAll, CloseAll, Clean, Drained
  <2> QED BY <1>0, <1>10, <1>a, <2>1 DEF StopCloseAll, NoReaders
<1>11. ASSUME NEW s \in Stoppers, StopLeave(s) PROVE CleanedUp'
  BY <1>0, <1>11, <1>a DEF StopLeave, NoReaders
<1>12. ASSUME NEW s \in Stoppers, StopJoin(s) PROVE CleanedUp'
  BY <1>0, <1>12, <1>a DEF StopJoin, NoReaders
<1>13. ASSUME NEW s \in Stoppers, StopReturn(s) PROVE CleanedUp'
  <2>1. Clean /\ stopped
    BY <1>0, <1>13 DEF StopReturn, StopMayReturn
  <2> QED BY <1>0, <1>13, <1>a, <2>1 DEF StopReturn, NoReaders
<1>14. ASSUME \/ RunDrain \/ UNCHANGED vars
              \/ \E c \in Conns, kind \in Kinds, try \in BOOLEAN : CallEnter(c, kind, try)
              \/ \E c \in Conns : \/ CallStep(c) \/ ReaderEnds(c) \/ WriterSends(c)
                                  \/ WriterFails(c) \/ WriterEnds(c)
              \/ \E s \in Stoppers : StopDrain(s)
       PROVE  UNCHANGED <<started, run, hand, stopped, stopOnce, stopPc>>
  BY <1>14 DEF RunDrain, vars, CallEnter, CallStep, CallRegister, CallUnregister,
     CallBroadcast, ReaderEnds, WriterSends, WriterFails, WriterEnds, StopDrain
<1> QED BY <1>1, <1>2, <1>3, <1>4, <1>5, <1>6, <1>7, <1>8, <1>9, <1>10, <1>11, <1>12, <1>13,
           <1>14 DEF Next, RunStep, StopStep

LEMMA Invariance == Spec => []HubInv
<1>1. HubInv /\ [Next]_vars => HubInv'
  BY TypeStep, OrphanStep, CleanedUpStep DEF HubInv
<1> QED BY Initially, <1>1, PTL DEF Spec

(* For any number of clients and callers of Stop, and queues and buffers of *)
(* any capacity: what was given to Register is never lost while open, and   *)
(* when any Stop has returned, everything is drained and closed, and stays  *)
(* so, also if Run starts only then.                                        *)
THEOREM HubLeavesNothingOpen == Spec => []NothingStaysOpen
<1>1. HubInv => NothingStaysOpen
  <2> SUFFICES ASSUME HubInv PROVE NothingStaysOpen
    OBVIOUS
  <2>1. ASSUME NEW s \in Stoppers, stopPc[s] = "returned"
        PROVE  Clean /\ \A c \in offered : c \in closed
    <3>1. Clean /\ NoReaders
      BY <2>1 DEF HubInv, CleanedUp
    <3>2. QueuedFor(register) = {} /\ InHand = {} /\ connections = {}
      BY <3>1, QueuedEmpty, HandCases DEF HubInv, Clean, Drained, InHand
    <3>3. \A c \in offered : call[c] # "register"
      BY <3>1 DEF NoReaders, NoCall, HubInv, TypeOK
    <3> QED BY <3>1, <3>2, <3>3 DEF HubInv, NoOrphans
  <2> QED BY <2>1 DEF HubInv, NothingStaysOpen, StopLeavesNothingOpen, Clean
<1> QED BY Invariance, <1>1, PTL
=============================================================================
