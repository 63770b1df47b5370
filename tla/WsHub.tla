------------------------------- MODULE WsHub -------------------------------
(***************************************************************************)
(* The WebSocket hub of ws/ws.go and the connections it serves: clients    *)
(* enqueue registrations and broadcasts, Run consumes them, Stop drains    *)
(* and closes.  Each connection has the reader of Handle and the goroutine *)
(* of writePump.                                                           *)
(*                                                                         *)
(* A client's call holds lifecycleMu for reading from its look at stopped  *)
(* and runStarted to its non-blocking send; Stop holds it for writing.     *)
(* Sections under h.mu are one step.  Message contents, JSON and the       *)
(* origin check are abstracted.                                            *)
(***************************************************************************)
EXTENDS Integers, Sequences, FiniteSets

CONSTANTS
    Conns,      \* connections, each with one client
    Stoppers,   \* callers of Stop
    QueueCap,   \* capacity of register, unregister and broadcast (256)
    BufCap,     \* capacity of Connection.send (256)
    MaxOps      \* calls of the clients (bound)

ASSUME HubAssumption == QueueCap \in Nat \ {0} /\ BufCap \in Nat \ {0} /\ MaxOps \in Nat

VARIABLES
    ops,            \* client calls so far
    register, unregister,   \* h.register, h.unregister
    broadcast,      \* h.broadcast, as its length
    connections,    \* h.connections
    started,        \* h.runStarted
    stopped,        \* h.stopped; h.stop is closed in the same section
    run,            \* where Run is
    hand,           \* what Run has received and not yet applied
    stopOnce,       \* h.stopOnce
    stopPc,         \* where each Stop call is
    call,           \* the client call between its checks and its send
    offered,        \* connections given to Register
    leaving,        \* connections whose last accepted call is Unregister
    closed,         \* connections whose closeChan is closed
    buf,            \* length of each Connection.send while it is open
    reader, writer  \* the two goroutines of each connection

queueVars == <<register, unregister, broadcast>>
runVars   == <<started, run, hand>>
stopVars  == <<stopped, stopOnce, stopPc>>
clientVars == <<call, offered, leaving>>
connVars  == <<closed, buf, reader, writer>>
vars == <<ops, register, unregister, broadcast, connections, started, stopped, run,
          hand, stopOnce, stopPc, call, offered, leaving,
          closed, buf, reader, writer>>

NoCall  == "none"
Kinds   == {"register", "unregister", "broadcast"}
NoHand  == <<"none">>

Init ==
    /\ ops = 0
    /\ register = <<>> /\ unregister = <<>> /\ broadcast = 0
    /\ connections = {} /\ started = FALSE /\ stopped = FALSE
    /\ run = "off" /\ hand = NoHand
    /\ stopOnce = "new" /\ stopPc = [s \in Stoppers |-> "idle"]
    /\ call = [c \in Conns |-> NoCall]
    /\ offered = {} /\ leaving = {}
    /\ closed = {} /\ buf = [c \in Conns |-> 0]
    /\ reader = [c \in Conns |-> "run"] /\ writer = [c \in Conns |-> "run"]

(* Connection.Close, on a set of connections: closeChan is closed once, and *)
(* what is left in send is garbage from then on.                            *)
Close(cs) ==
    /\ closed' = closed \cup cs
    /\ buf' = [c \in Conns |-> IF c \in cs THEN 0 ELSE buf[c]]

-----------------------------------------------------------------------------
(* The client calls: Register, Unregister and Broadcast, and with try the  *)
(* Try variants, which need Run to have started.                           *)

NobodyWaitedFor == TRUE     \* mutant: Stop does not take lifecycleMu for writing
NoReaders == \A c \in Conns : call[c] = NoCall
NoWriter  == \A s \in Stoppers : stopPc[s] \notin {"look", "drain", "closeAll", "leave"}

Refused(try) == stopped \/ (try /\ ~started)

CallEnter(c, kind, try) ==
    /\ ops < MaxOps /\ ops' = ops + 1
    /\ call[c] = NoCall /\ NoWriter
    /\ offered' = IF kind = "register" THEN offered \cup {c} ELSE offered
    /\ IF Refused(try)
       THEN /\ Close(IF kind = "register" THEN {c} ELSE {})
            /\ UNCHANGED call
       ELSE call' = [call EXCEPT ![c] = kind] /\ UNCHANGED <<closed, buf>>
    /\ UNCHANGED <<queueVars, connections, runVars, stopVars, leaving, reader, writer>>

(* mutant: a connection that finds the queue full stays open *)
FullForgets(c) == UNCHANGED <<closed, buf>>
FullCloses(c) == Close({c})

CallRegister(c) ==
    /\ call[c] = "register"
    /\ call' = [call EXCEPT ![c] = NoCall]
    /\ IF Len(register) < QueueCap
       THEN /\ register' = Append(register, c)
            /\ leaving' = leaving \ {c}
            /\ UNCHANGED <<closed, buf>>
       ELSE FullCloses(c) /\ UNCHANGED <<register, leaving>>
    /\ UNCHANGED <<ops, unregister, broadcast, connections, runVars, stopVars, offered,
                   reader, writer>>

CallUnregister(c) ==
    /\ call[c] = "unregister"
    /\ call' = [call EXCEPT ![c] = NoCall]
    /\ IF Len(unregister) < QueueCap
       THEN unregister' = Append(unregister, c) /\ leaving' = leaving \cup {c}
       ELSE UNCHANGED <<unregister, leaving>>
    /\ UNCHANGED <<ops, register, broadcast, connections, runVars, stopVars, offered,
                   connVars>>

CallBroadcast(c) ==
    /\ call[c] = "broadcast"
    /\ call' = [call EXCEPT ![c] = NoCall]
    /\ broadcast' = IF broadcast < QueueCap THEN broadcast + 1 ELSE broadcast
    /\ UNCHANGED <<ops, register, unregister, connections, runVars, stopVars, offered,
                   leaving, connVars>>

-----------------------------------------------------------------------------
(* Run: its select takes any branch that is ready. *)

RunStart ==
    /\ run = "off"
    /\ started' = TRUE /\ run' = "loop"
    /\ UNCHANGED <<ops, queueVars, connections, hand, stopVars, clientVars, connVars>>

RunTakeRegister ==
    /\ run = "loop" /\ hand = NoHand /\ register # <<>>
    /\ hand' = <<"register", Head(register)>>
    /\ register' = Tail(register)
    /\ UNCHANGED <<ops, unregister, broadcast, connections, started, run, stopVars,
                   clientVars, connVars>>

RunTakeUnregister ==
    /\ run = "loop" /\ hand = NoHand /\ unregister # <<>>
    /\ hand' = <<"unregister", Head(unregister)>>
    /\ unregister' = Tail(unregister)
    /\ UNCHANGED <<ops, register, broadcast, connections, started, run, stopVars,
                   clientVars, connVars>>

RunTakeBroadcast ==
    /\ run = "loop" /\ hand = NoHand /\ broadcast > 0
    /\ hand' = <<"broadcast">>
    /\ broadcast' = broadcast - 1
    /\ UNCHANGED <<ops, register, unregister, connections, started, run, stopVars,
                   clientVars, connVars>>

RunAdd ==
    /\ hand[1] = "register"
    /\ connections' = connections \cup {hand[2]}
    /\ hand' = NoHand
    /\ UNCHANGED <<ops, queueVars, started, run, stopVars, clientVars, connVars>>

RunDelete ==
    /\ hand[1] = "unregister"
    /\ connections' = connections \ {hand[2]}
    /\ Close({hand[2]} \cap connections)
    /\ hand' = NoHand
    /\ UNCHANGED <<ops, queueVars, started, run, stopVars, clientVars, reader, writer>>

TakesUnbounded(c) == c \notin closed    \* mutant: the full buffer is not noticed

(* Send: refused on a closed connection and on a full buffer. *)
TakesMessage(c) == c \notin closed /\ buf[c] < BufCap

Reached == {c \in connections : TakesMessage(c)}

(* mutant: Send blocks while the buffer of an open connection is full *)
RunBroadcastBlocks ==
    /\ hand[1] = "broadcast"
    /\ \A c \in connections \ closed : buf[c] < BufCap
    /\ buf' = [c \in Conns |-> IF c \in connections \ closed THEN buf[c] + 1 ELSE buf[c]]
    /\ hand' = NoHand
    /\ UNCHANGED <<ops, queueVars, connections, started, run, stopVars, clientVars,
                   closed, reader, writer>>

RunBroadcast ==
    /\ hand[1] = "broadcast"
    /\ connections' = Reached
    /\ closed' = closed \cup (connections \ Reached)
    /\ buf' = [c \in Conns |-> IF c \in Reached THEN buf[c] + 1
                             ELSE IF c \in connections THEN 0 ELSE buf[c]]
    /\ hand' = NoHand
    /\ UNCHANGED <<ops, queueVars, started, run, stopVars, clientVars, reader, writer>>

RunSeesStop ==
    /\ run = "loop" /\ hand = NoHand /\ stopped
    /\ run' = "drain"
    /\ UNCHANGED <<ops, queueVars, connections, started, hand, stopVars, clientVars,
                   connVars>>

(* One turn of drainPending, by Run or by Stop. *)
DrainOne ==
    \/ /\ register # <<>> /\ register' = Tail(register) /\ Close({Head(register)})
       /\ UNCHANGED <<unregister, broadcast>>
    \/ /\ unregister # <<>> /\ unregister' = Tail(unregister) /\ Close({Head(unregister)})
       /\ UNCHANGED <<register, broadcast>>
    \/ /\ broadcast > 0 /\ broadcast' = broadcast - 1
       /\ UNCHANGED <<register, unregister, closed, buf>>

Drained == register = <<>> /\ unregister = <<>> /\ broadcast = 0

CloseAllForgets == connections' = {} /\ UNCHANGED <<closed, buf>>    \* mutant
CloseAll == connections' = {} /\ Close(connections)

RunDrain ==
    /\ run = "drain" /\ DrainOne
    /\ UNCHANGED <<ops, connections, runVars, stopVars, clientVars, reader, writer>>

RunEnd ==
    /\ run = "drain" /\ Drained
    /\ CloseAll
    /\ run' = "done"
    /\ UNCHANGED <<ops, queueVars, started, hand, stopVars, clientVars, reader, writer>>

-----------------------------------------------------------------------------
(* Stop *)

StopCall(s) ==
    /\ stopPc[s] = "idle"
    /\ stopPc' = [stopPc EXCEPT ![s] = "once"]
    /\ UNCHANGED <<ops, queueVars, connections, runVars, stopped, stopOnce, clientVars, connVars>>

(* The first caller takes lifecycleMu, closes h.stop and, if Run has not   *)
(* started by then, cleans up itself.                                      *)
StopFirst(s) ==
    /\ stopPc[s] = "once" /\ stopOnce = "new" /\ NoReaders
    /\ stopOnce' = "running" /\ stopped' = TRUE
    /\ stopPc' = [stopPc EXCEPT ![s] = "look"]
    /\ UNCHANGED <<ops, queueVars, connections, runVars, clientVars, connVars>>

StopLook(s) ==
    /\ stopPc[s] = "look"
    /\ stopPc' = [stopPc EXCEPT ![s] = IF started THEN "leave" ELSE "drain"]
    /\ UNCHANGED <<ops, queueVars, connections, runVars, stopped, stopOnce, clientVars, connVars>>

StopDrain(s) ==
    /\ stopPc[s] = "drain" /\ DrainOne
    /\ UNCHANGED <<ops, connections, runVars, stopVars, clientVars, reader, writer>>

StopDrained(s) ==
    /\ stopPc[s] = "drain" /\ Drained
    /\ stopPc' = [stopPc EXCEPT ![s] = "closeAll"]
    /\ UNCHANGED <<ops, queueVars, connections, runVars, stopped, stopOnce, clientVars, connVars>>

StopCloseAll(s) ==
    /\ stopPc[s] = "closeAll"
    /\ CloseAll
    /\ stopPc' = [stopPc EXCEPT ![s] = "leave"]
    /\ UNCHANGED <<ops, queueVars, runVars, stopped, stopOnce, clientVars, reader, writer>>

StopLeave(s) ==
    /\ stopPc[s] = "leave"
    /\ stopOnce' = "done"
    /\ stopPc' = [stopPc EXCEPT ![s] = "wait"]
    /\ UNCHANGED <<ops, queueVars, connections, runVars, stopped, clientVars, connVars>>

StopJoin(s) ==
    /\ stopPc[s] = "once" /\ stopOnce = "done"
    /\ stopPc' = [stopPc EXCEPT ![s] = "wait"]
    /\ UNCHANGED <<ops, queueVars, connections, runVars, stopped, stopOnce, clientVars, connVars>>

StopReturnsAtOnce == TRUE       \* mutant: Stop does not wait for Run

(* runStarted is read a second time: wait for Run if it started meanwhile. *)
StopMayReturn == started => run = "done"

StopReturn(s) ==
    /\ stopPc[s] = "wait" /\ StopMayReturn
    /\ stopPc' = [stopPc EXCEPT ![s] = "returned"]
    /\ UNCHANGED <<ops, queueVars, connections, runVars, stopped, stopOnce, clientVars, connVars>>

-----------------------------------------------------------------------------
(* The two goroutines of a connection. *)

(* ReadMessage fails: the peer closed or sent nothing for pongWait, or the *)
(* connection was closed on this side.  OnClose runs, then Close.          *)
ReaderEnds(c) ==
    /\ reader[c] = "run"
    /\ reader' = [reader EXCEPT ![c] = "done"]
    /\ Close({c})
    /\ UNCHANGED <<ops, queueVars, connections, runVars, stopVars, clientVars, writer>>

WriterSends(c) ==
    /\ c \notin closed /\ buf[c] > 0
    /\ buf' = [buf EXCEPT ![c] = @ - 1]
    /\ UNCHANGED <<ops, queueVars, connections, runVars, stopVars, clientVars, closed,
                   reader, writer>>

(* A message or a ping cannot be written. *)
WriterFails(c) ==
    /\ writer[c] = "run"
    /\ writer' = [writer EXCEPT ![c] = "done"]
    /\ Close({c})
    /\ UNCHANGED <<ops, queueVars, connections, runVars, stopVars, clientVars, reader>>

WriterForgets(c) == c \notin closed     \* mutant: writePump does not look at closeChan
WriterSees(c) == c \in closed

WriterEnds(c) ==
    /\ writer[c] = "run" /\ WriterSees(c)
    /\ writer' = [writer EXCEPT ![c] = "done"]
    /\ UNCHANGED <<ops, queueVars, connections, runVars, stopVars, clientVars, closed,
                   buf, reader>>

-----------------------------------------------------------------------------
CallStep(c) == CallRegister(c) \/ CallUnregister(c) \/ CallBroadcast(c)

RunStep ==
    \/ RunTakeRegister \/ RunTakeUnregister \/ RunTakeBroadcast
    \/ RunAdd \/ RunDelete \/ RunBroadcast
    \/ RunSeesStop \/ RunDrain \/ RunEnd

StopStep(s) ==
    \/ StopFirst(s) \/ StopLook(s) \/ StopDrain(s) \/ StopDrained(s)
    \/ StopCloseAll(s) \/ StopLeave(s) \/ StopJoin(s) \/ StopReturn(s)

(* The read of a closed connection fails at once. *)
ConnStep(c) == WriterEnds(c) \/ (c \in closed /\ ReaderEnds(c))

Next ==
    \/ \E c \in Conns, kind \in Kinds, try \in BOOLEAN : CallEnter(c, kind, try)
    \/ \E c \in Conns : CallStep(c)
    \/ RunStart \/ RunStep
    \/ \E s \in Stoppers : StopCall(s) \/ StopStep(s)
    \/ \E c \in Conns : ReaderEnds(c) \/ WriterSends(c)
                        \/ WriterFails(c) \/ WriterEnds(c)

Spec == Init /\ [][Next]_vars

(* Go runs ready goroutines, and no step below can be repeated for ever.   *)
(* Nothing is assumed of the clients, of Run or Stop being called, nor of  *)
(* a connection that takes its messages (WriterSends).                     *)
Fairness ==
    WF_vars(RunStep \/ \E c \in Conns, s \in Stoppers : CallStep(c) \/ StopStep(s) \/ ConnStep(c))

FairSpec == Spec /\ Fairness

-----------------------------------------------------------------------------
TypeOK ==
    /\ ops \in 0 .. MaxOps
    /\ register \in Seq(Conns) /\ Len(register) <= QueueCap
    /\ unregister \in Seq(Conns) /\ Len(unregister) <= QueueCap
    /\ broadcast \in 0 .. QueueCap
    /\ connections \subseteq Conns
    /\ started \in BOOLEAN /\ stopped \in BOOLEAN
    /\ run \in {"off", "loop", "drain", "done"}
    /\ hand \in {NoHand, <<"broadcast">>} \cup ({"register", "unregister"} \X Conns)
    /\ stopOnce \in {"new", "running", "done"}
    /\ stopPc \in [Stoppers -> {"idle", "once", "look", "drain", "closeAll", "leave",
                                "wait", "returned"}]
    /\ call \in [Conns -> Kinds \cup {NoCall}]
    /\ offered \subseteq Conns /\ leaving \subseteq Conns
    /\ closed \subseteq Conns
    /\ buf \in [Conns -> 0 .. BufCap]
    /\ reader \in [Conns -> {"run", "done"}] /\ writer \in [Conns -> {"run", "done"}]

QueuedFor(q) == {q[i] : i \in DOMAIN q}
InHand == IF hand[1] = "register" THEN {hand[2]} ELSE {}

(* The hub never loses an open connection: whatever was given to Register  *)
(* is on its way in, in the map, or closed, through full queues, slow      *)
(* consumers, reordered calls and Stop.                                    *)
NoOrphans ==
    \A c \in offered : call[c] # "register" =>
        c \in QueuedFor(register) \cup InHand \cup connections \cup closed

(* The doc of Stop: pending entries are drained and every connection is    *)
(* closed before Stop returns, any caller of it, and nothing comes after,  *)
(* even when Run starts only while Stop is cleaning up.                    *)
StopLeavesNothingOpen ==
    (\E s \in Stoppers : stopPc[s] = "returned") =>
        /\ connections = {} /\ Drained /\ hand = NoHand
        /\ \A c \in offered : c \in closed

(* Stop returns, also with slow or dead consumers and concurrent Stops:    *)
(* again and again there is no call of Stop under way.                     *)
StopReturns == []<>(\A s \in Stoppers : stopPc[s] \in {"idle", "returned"})

(* C2a: consumers that take nothing do not stall the hub. *)
BroadcastsConsumed == []<>(started => broadcast = 0 /\ hand # <<"broadcast">>)

(* C2c: whoever closes a connection, both its goroutines end. *)
GoroutinesReclaimed ==
    []<>(\A c \in closed : reader[c] = "done" /\ writer[c] = "done")

(* Every connection is somebody's until it is closed, and a Stop closes    *)
(* them all.                                                               *)
NothingStaysOpen == TypeOK /\ NoOrphans /\ StopLeavesNothingOpen

(* Neither slow consumers nor concurrent calls leave the hub, a caller of  *)
(* Stop or a goroutine of a connection waiting for ever.                   *)
HubKeepsGoing == StopReturns /\ BroadcastsConsumed /\ GoroutinesReclaimed

(* What Unregister says: it removes the connection.  The hub has settled,  *)
(* and a connection whose last call was an accepted Unregister is in it.   *)
UnregisterRemoves ==
    Drained /\ hand = NoHand => leaving \cap connections = {}
=============================================================================
