------------------------------ MODULE SseStream ------------------------------
(***************************************************************************)
(* The streams of sse/sse.go: a handler that writes what a producer sends  *)
(* into a channel, until the channel is closed, the request's context is   *)
(* done or a write fails.                                                  *)
(*                                                                         *)
(* The channel and the producer are the caller's.  A write to a client that*)
(* has left may still succeed, into a buffer.                              *)
(***************************************************************************)
EXTENDS Integers, Sequences

CONSTANTS
    MaxItems,   \* items the producer sends (bound)
    Buffer      \* capacity of the channel

StreamAssumption == MaxItems \in Nat /\ Buffer \in Nat

VARIABLES
    kind,       \* "stream", "text", "chunks" or "id": the function that was called
    pc,         \* "start", "select", "write" or "returned"
    item,       \* the event being written: an item, Opening or Closing
    chan,       \* items in the channel
    closed,     \* the producer has closed it
    sent,       \* items the producer has sent
    heeds,      \* the producer listens to the context
    producer,   \* "on" or "over"
    gone,       \* the context is done: the client has left
    out,        \* events written
    result      \* what the handler returned: "none", "ok" or "error"

vars == <<kind, pc, item, chan, closed, sent, heeds, producer, gone, out, result>>
source == <<chan, closed, sent, heeds, producer>>

Opening == 0
Closing == MaxItems + 1
Kinds == {"stream", "text", "chunks", "id"}

TypeOK ==
    /\ kind \in Kinds /\ pc \in {"start", "select", "write", "returned"}
    /\ item \in Opening .. Closing
    /\ chan \in Seq(1 .. MaxItems) /\ Len(chan) <= Buffer /\ sent \in 0 .. MaxItems
    /\ {closed, heeds, gone} \subseteq BOOLEAN /\ result \in {"none", "ok", "error"}

Init ==
    /\ kind \in Kinds /\ pc = "start" /\ item = Opening
    /\ chan = <<>> /\ closed = FALSE /\ sent = 0 /\ heeds \in BOOLEAN /\ producer = "on"
    /\ gone = FALSE /\ out = <<>> /\ result = "none"

-----------------------------------------------------------------------------
(* The producer: it waits while the channel is full.                       *)

Room == Len(chan) < Buffer

Send ==
    /\ producer = "on" /\ sent < MaxItems /\ Room
    /\ sent' = sent + 1 /\ chan' = Append(chan, sent + 1)
    /\ UNCHANGED <<kind, pc, item, closed, heeds, producer, gone, out, result>>

ProducerCloses ==
    /\ producer = "on" /\ (sent = MaxItems \/ (heeds /\ gone))
    /\ producer' = "over" /\ closed' = TRUE
    /\ UNCHANGED <<kind, pc, item, chan, sent, heeds, gone, out, result>>

Disconnect ==
    /\ ~ gone /\ gone' = TRUE
    /\ UNCHANGED <<kind, pc, item, source, out, result>>

-----------------------------------------------------------------------------
(* The handler *)

Writes(x) == pc' = "write" /\ item' = x /\ UNCHANGED result
Returns(r) == pc' = "returned" /\ result' = r /\ UNCHANGED item

(* NewSSEWriter, which may refuse; StreamWithID announces the message.     *)
StreamBegins ==
    /\ pc = "start"
    /\ \/ kind # "stream" /\ Returns("error")
       \/ kind = "id" /\ Writes(Opening)
       \/ kind # "id" /\ pc' = "select" /\ UNCHANGED <<item, result>>
    /\ UNCHANGED <<kind, source, gone, out>>

(* select: either branch that is ready.                                    *)
HearsNothing == FALSE                           \* mutant: no branch for the context
Hears == gone

SelectDone ==
    /\ pc = "select" /\ Hears /\ Returns("error")
    /\ UNCHANGED <<kind, source, gone, out>>

SelectItem ==
    /\ pc = "select" /\ chan # <<>>
    /\ Writes(Head(chan)) /\ chan' = Tail(chan)
    /\ UNCHANGED <<kind, closed, sent, heeds, producer, gone, out>>

ClosedEarly == closed                           \* mutant: a closed channel is taken for an empty one
Drained == closed /\ chan = <<>>

SelectClosed ==
    /\ pc = "select" /\ Drained /\ Writes(Closing)
    /\ UNCHANGED <<kind, source, gone, out>>

FailUnheard == "select"                         \* mutant: the error of a write is dropped
AfterFail == "returned"

(* One event: its data is not JSON (Stream only), the client is gone, or it*)
(* is written; after the closing event the function returns.               *)
WriteEvent ==
    /\ pc = "write"
    /\ \/ /\ out' = Append(out, item)
          /\ IF item = Closing THEN Returns("ok") ELSE pc' = "select" /\ UNCHANGED <<item, result>>
       \/ /\ gone \/ (kind = "stream" /\ item # Closing)
          /\ pc' = AfterFail /\ result' = "error" /\ UNCHANGED <<item, out>>
    /\ UNCHANGED <<kind, source, gone>>

Next == Send \/ ProducerCloses \/ Disconnect \/ StreamBegins \/ SelectDone \/ SelectItem
        \/ SelectClosed \/ WriteEvent

(* A ready branch of select is chosen in the end although others are ready *)
(* each time; the handler goes on, and nobody makes the producer do so.    *)
StreamFairness ==
    /\ SF_vars(SelectDone)
    /\ WF_vars(pc = "select" /\ (SelectItem \/ SelectClosed)) /\ WF_vars(WriteEvent)

-----------------------------------------------------------------------------
(* A client that got the closing event has got every item, in order, and   *)
(* what a client gets is always a beginning of what was sent, without gaps:*)
(* no stream goes on after a write that failed.                            *)
Announced == IF kind = "id" THEN 1 ELSE 0       \* the opening event comes first
DoneMeansAll ==
    /\ \A i \in DOMAIN out : \/ out[i] = i - Announced
                             \/ i = Len(out) /\ out[i] = Closing /\ i = Announced + sent + 1
    /\ result = "ok" => Len(out) = Announced + sent + 1 /\ out[Len(out)] = Closing

(* A stream whose client has left ends, also when the producer goes on or  *)
(* sends nothing more and never closes its channel.                        *)
StreamEnds == (gone /\ pc # "start") ~> pc = "returned"

Spec == Init /\ [][Next]_vars /\ StreamFairness
=============================================================================
