---------------------------- MODULE ServiceProofs ----------------------------
(* Proofs about what a handler uses, for any callers, rows, sizes and        *)
(* schedules: event streams, tracing, the HTTP client, health checks, the    *)
(* cache, repositories, the route registry, storage and the schedules of     *)
(* cron.  The theorems of a section are about its module alone, the last     *)
(* ones about Services.                                                      *)
EXTENDS Services, Integers, Sequences, SequenceTheorems, FiniteSetTheorems,
        WellFoundedInduction, TLAPS

everything == <<service, health, registry, storage, repository, http, trace, caching, stream,
                cron>>

-----------------------------------------------------------------------------
(* Sets of numbers *)

Less == OpToRel(<, Nat)

LEMMA LessFounded == IsWellFoundedOn(Less, Nat)
  BY NatLessThanWellFounded DEF Less

LEMMA LessMeans == ASSUME NEW m \in Nat, NEW n \in Nat, m < n PROVE <<m, n>> \in Less
<1>1. <<m, n>> \in Nat \X Nat /\ <<m, n>>[1] < <<m, n>>[2]
  OBVIOUS
<1> QED BY <1>1 DEF Less, OpToRel

LEMMA Least == ASSUME NEW T, T \subseteq Nat, T # {}
               PROVE \E n \in T : \A m \in T : n <= m
<1>1. \E n \in T : \A m \in T : ~ (<<m, n>> \in Less)
  BY LessFounded, WFMin
<1>2. PICK n \in T : \A m \in T : ~ (<<m, n>> \in Less)
  BY <1>1
<1>3. ASSUME NEW m \in T PROVE n <= m
  <2>1. m \in Nat /\ n \in Nat /\ ~ (<<m, n>> \in Less)
    BY <1>2
  <2>2. ~ (m < n)
    BY <2>1, LessMeans
  <2> QED BY <2>1, <2>2
<1> QED BY <1>3

-----------------------------------------------------------------------------
(* SseStream *)

Taken == sent - Len(chan)       \* items the handler has received
InOrder == \A i \in 1 .. Len(out) : out[i] = i - SS!Announced
Received(n) == InOrder /\ Len(out) = SS!Announced + n

(* The channel holds the items after those that were taken, what was taken   *)
(* was written or is in hand, and a producer that has closed sends nothing   *)
(* more.                                                                     *)
StreamInv ==
    /\ SS!TypeOK
    /\ producer \in {"on", "over"} /\ (closed => producer = "over")
    /\ out \in Seq(SS!Opening .. SS!Closing)
    /\ Len(chan) <= sent /\ \A i \in 1 .. Len(chan) : chan[i] = Taken + i
    /\ streamed = "none" <=> streamPc # "returned"
    /\ streamPc = "start" => out = <<>> /\ Taken = 0
    /\ streamPc = "select" => Received(Taken)
    /\ streamPc = "write" => \/ item = SS!Opening /\ kind = "id" /\ out = <<>> /\ Taken = 0
                             \/ item = SS!Closing /\ closed /\ chan = <<>> /\ Received(Taken)
                             \/ item = Taken /\ Taken > 0 /\ Received(Taken - 1)
    /\ streamed = "error" => InOrder
    /\ streamed = "ok" => /\ closed /\ chan = <<>> /\ Len(out) = SS!Announced + sent + 1
                          /\ out[Len(out)] = SS!Closing
                          /\ \A i \in 1 .. Len(out) - 1 : out[i] = i - SS!Announced

LEMMA StreamInit == ASSUME SS!StreamAssumption, SS!Init PROVE StreamInv
<1>1. SS!TypeOK
  <2>1. chan = <<>> /\ chan \in Seq(1 .. MaxItems) /\ Len(chan) = 0
    BY DEF SS!Init
  <2>2. {closed, heeds, gone} \subseteq BOOLEAN
    BY DEF SS!Init
  <2>3. item \in SS!Opening .. SS!Closing /\ sent \in 0 .. MaxItems /\ Len(chan) <= Buffer
    BY <2>1 DEF SS!StreamAssumption, SS!Init, SS!Opening, SS!Closing
  <2> QED BY <2>1, <2>2, <2>3 DEF SS!Init, SS!TypeOK
<1>2. Len(chan) = 0 /\ sent = 0 /\ out = <<>> /\ out \in Seq(SS!Opening .. SS!Closing)
  BY DEF SS!Init
<1>3. streamPc = "start" /\ streamed = "none" /\ producer = "on" /\ closed = FALSE
  BY DEF SS!Init
<1> QED BY <1>1, <1>2, <1>3 DEF StreamInv, Taken

(* What the invariant says of the channel and the events, in numbers.        *)
LEMMA StreamTypes ==
    ASSUME SS!StreamAssumption, StreamInv
    PROVE  /\ MaxItems \in Nat /\ Buffer \in Nat /\ sent \in 0 .. MaxItems
           /\ chan \in Seq(1 .. MaxItems) /\ Len(chan) \in Nat /\ Taken \in 0 .. sent
           /\ out \in Seq(0 .. MaxItems + 1) /\ Len(out) \in Nat
           /\ SS!Announced \in {0, 1} /\ item \in 0 .. MaxItems + 1
BY DEF SS!StreamAssumption, StreamInv, SS!TypeOK, SS!Opening, SS!Closing, Taken, SS!Announced

LEMMA StreamStep == ASSUME SS!StreamAssumption, StreamInv, [SS!Next]_(SS!vars) PROVE StreamInv'
<1>0. /\ MaxItems \in Nat /\ Buffer \in Nat /\ sent \in 0 .. MaxItems
      /\ chan \in Seq(1 .. MaxItems) /\ Len(chan) \in Nat /\ Taken \in 0 .. sent
      /\ out \in Seq(0 .. MaxItems + 1) /\ Len(out) \in Nat
      /\ SS!Announced \in {0, 1} /\ item \in 0 .. MaxItems + 1
  BY StreamTypes
<1> USE <1>0 DEF SS!source
<1>1. CASE UNCHANGED SS!vars
  BY <1>1 DEF SS!vars, StreamInv, SS!TypeOK, Taken, Received, InOrder, SS!Announced
<1>2. CASE SS!Send
  <2>1. /\ sent' = sent + 1 /\ chan' = Append(chan, sent + 1) /\ producer = "on"
        /\ sent < MaxItems /\ Len(chan) < Buffer
        /\ UNCHANGED <<kind, streamPc, item, closed, heeds, producer, gone, out, streamed>>
    BY <1>2 DEF SS!Send, SS!Room
  <2>2. /\ chan' \in Seq(1 .. MaxItems) /\ Len(chan') = Len(chan) + 1
        /\ \A i \in 1 .. Len(chan) : chan'[i] = chan[i]
        /\ chan'[Len(chan) + 1] = sent + 1
    BY <2>1
  <2>3. Taken' = Taken /\ \A i \in 1 .. Len(chan') : chan'[i] = Taken' + i
    <3>1. Taken' = Taken
      BY <2>1, <2>2 DEF Taken
    <3>2. Taken + Len(chan) = sent /\ \A i \in 1 .. Len(chan) : chan[i] = Taken + i
      BY DEF StreamInv, Taken
    <3>3. ASSUME NEW i \in 1 .. Len(chan) + 1 PROVE chan'[i] = Taken + i
      <4>1. i \in 1 .. Len(chan) \/ i = Len(chan) + 1
        OBVIOUS
      <4>2. sent + 1 = Taken + (Len(chan) + 1)
        BY <3>2
      <4> QED BY <4>1, <4>2, <2>2, <3>2
    <3> QED BY <2>2, <3>1, <3>3
  <2>4. ~ closed
    BY <2>1 DEF StreamInv
  <2> QED BY <2>1, <2>2, <2>3, <2>4 DEF StreamInv, SS!TypeOK, Received, InOrder, SS!Announced,
         SS!Opening,
                                  SS!Closing
<1>3. CASE SS!ProducerCloses
  BY <1>3 DEF SS!ProducerCloses, StreamInv, SS!TypeOK, Taken, Received, InOrder, SS!Announced,
              SS!Opening, SS!Closing
<1>4. CASE SS!Disconnect
  BY <1>4 DEF SS!Disconnect, StreamInv, SS!TypeOK, Taken, Received, InOrder, SS!Announced,
              SS!Opening, SS!Closing
<1>5. CASE SS!StreamBegins
  BY <1>5 DEF SS!StreamBegins, SS!Returns, SS!Writes, StreamInv, SS!TypeOK, Taken, Received,
     InOrder,
              SS!Announced, SS!Opening, SS!Closing
<1>6. CASE SS!SelectDone
  BY <1>6 DEF SS!SelectDone, SS!Returns, StreamInv, SS!TypeOK, Taken, Received, InOrder,
              SS!Announced, SS!Opening, SS!Closing
<1>7. CASE SS!SelectItem
  <2>1. /\ streamPc = "select" /\ chan # <<>> /\ streamPc' = "write" /\ item' = Head(chan)
        /\ chan' = Tail(chan)
        /\ UNCHANGED <<kind, closed, sent, heeds, producer, gone, out, streamed>>
    BY <1>7 DEF SS!SelectItem, SS!Writes
  <2>2. /\ chan' \in Seq(1 .. MaxItems) /\ Len(chan') = Len(chan) - 1 /\ Len(chan) > 0
        /\ \A i \in 1 .. Len(chan') : chan'[i] = chan[i + 1]
        /\ item' = chan[1] /\ item' \in 1 .. MaxItems
    BY <2>1
  <2>3. /\ Taken' = Taken + 1 /\ item' = Taken'
        /\ \A i \in 1 .. Len(chan') : chan'[i] = Taken' + i
    BY <2>1, <2>2 DEF StreamInv, Taken
  <2>4. Received(Taken)
    BY <2>1 DEF StreamInv
  <2>5. Taken' - 1 = Taken /\ (Received(Taken - 1))'
    BY <2>1, <2>3, <2>4 DEF Received, InOrder, SS!Announced
  <2> QED BY <2>1, <2>2, <2>3, <2>5 DEF StreamInv, SS!TypeOK, SS!Opening, SS!Closing
<1>8. CASE SS!SelectClosed
  BY <1>8 DEF SS!SelectClosed, SS!Drained, SS!Writes, StreamInv, SS!TypeOK, Taken, Received,
     InOrder,
              SS!Announced, SS!Opening, SS!Closing
<1>9. CASE SS!WriteEvent
  <2> USE DEF SS!Opening, SS!Closing
  <2>1. /\ streamPc = "write" /\ UNCHANGED <<kind, SS!source, gone>>
        /\ Taken' = Taken /\ SS!Announced' = SS!Announced
    BY <1>9 DEF SS!WriteEvent, Taken, SS!Announced
  <2>2. CASE out' = out /\ streamPc' = "returned" /\ streamed' = "error" /\ item' = item
    <3>1. InOrder'
      BY <2>1, <2>2 DEF StreamInv, Received, InOrder
    <3> QED BY <2>1, <2>2, <3>1 DEF StreamInv, SS!TypeOK
  <2>3. CASE /\ out' = Append(out, item)
             /\ IF item = SS!Closing THEN SS!Returns("ok")
                ELSE streamPc' = "select" /\ UNCHANGED <<item, streamed>>
    <3>1. /\ out' \in Seq(0 .. MaxItems + 1) /\ Len(out') = Len(out) + 1
          /\ out'[Len(out) + 1] = item /\ \A i \in 1 .. Len(out) : out'[i] = out[i]
      BY <2>3
    <3>2. CASE item = MaxItems + 1
      <4>1. closed /\ chan = <<>> /\ Received(Taken) /\ Taken = sent
        BY <2>1, <3>2 DEF StreamInv, Taken
      <4>2. /\ Len(out') = SS!Announced + sent + 1 /\ out'[Len(out')] = item
            /\ \A i \in 1 .. Len(out') - 1 : out'[i] = i - SS!Announced
        BY <4>1, <3>1 DEF Received, InOrder
      <4>3. streamPc' = "returned" /\ streamed' = "ok" /\ item' = item
        BY <2>3, <3>2 DEF SS!Returns
      <4> QED BY <2>1, <3>1, <3>2, <4>1, <4>2, <4>3 DEF StreamInv, SS!TypeOK
    <3>3. CASE item # MaxItems + 1
      <4>1. streamPc' = "select" /\ item' = item /\ streamed' = streamed
        BY <2>3, <3>3
      <4>2. CASE item = 0 /\ kind = "id" /\ out = <<>> /\ Taken = 0
        <5>1. SS!Announced = 1 /\ Len(out) = 0
          BY <4>2 DEF SS!Announced
        <5>2. Received(Taken)'
          BY <2>1, <3>1, <4>2, <5>1 DEF Received, InOrder
        <5> QED BY <2>1, <3>1, <4>1, <5>2 DEF StreamInv, SS!TypeOK
      <4>3. CASE item = Taken /\ Taken > 0 /\ Received(Taken - 1)
        <5>2. Received(Taken)'
          <6>1. Len(out) = SS!Announced + Taken - 1 /\ InOrder
            BY <4>3 DEF Received
          <6>2. Len(out') = SS!Announced' + Taken' /\ out'[Len(out')] = Len(out') - SS!Announced'
            BY <2>1, <3>1, <4>3, <6>1
          <6> QED BY <2>1, <3>1, <6>1, <6>2 DEF Received, InOrder
        <5> QED BY <2>1, <3>1, <4>1, <5>2 DEF StreamInv, SS!TypeOK
      <4> QED BY <2>1, <3>3, <4>2, <4>3 DEF StreamInv
    <3> QED BY <3>2, <3>3
  <2> QED BY <1>9, <2>2, <2>3 DEF SS!WriteEvent, SS!AfterFail
<1> QED BY <1>1, <1>2, <1>3, <1>4, <1>5, <1>6, <1>7, <1>8, <1>9 DEF SS!Next

(* A client that got the closing event got every item, in order; and what it *)
(* gets has no gaps.                                                         *)
THEOREM StreamsAreWhole ==
    SS!StreamAssumption /\ SS!Spec => [](SS!TypeOK /\ SS!DoneMeansAll)
<1> SUFFICES ASSUME SS!StreamAssumption PROVE SS!Spec => [](SS!TypeOK /\ SS!DoneMeansAll)
  OBVIOUS
<1>1. StreamInv => SS!TypeOK /\ SS!DoneMeansAll
  <2> SUFFICES ASSUME StreamInv PROVE SS!TypeOK /\ SS!DoneMeansAll
    OBVIOUS
  <2>1. /\ DOMAIN out = 1 .. Len(out) /\ Len(out) \in Nat /\ SS!Announced \in {0, 1}
        /\ sent \in Nat
    BY StreamTypes
  <2>2. CASE streamed = "ok"
    <3>1. /\ Len(out) = SS!Announced + sent + 1 /\ out[Len(out)] = SS!Closing
          /\ \A i \in 1 .. Len(out) - 1 : out[i] = i - SS!Announced
      BY <2>2 DEF StreamInv
    <3> QED BY <2>1, <3>1 DEF StreamInv, SS!DoneMeansAll
  <2>3. CASE streamed # "ok"
    <3>1. streamed \in {"none", "error"} /\ streamPc \in {"start", "select", "write", "returned"}
      BY <2>3 DEF StreamInv, SS!TypeOK
    <3>2. InOrder
      BY <3>1 DEF StreamInv, Received, InOrder
    <3> QED BY <2>1, <2>3, <3>2 DEF StreamInv, SS!DoneMeansAll, InOrder
  <2> QED BY <2>2, <2>3
<1>2. SS!Init => StreamInv
  BY StreamInit
<1>3. StreamInv /\ [SS!Next]_(SS!vars) => StreamInv'
  BY StreamStep
<1> QED BY <1>1, <1>2, <1>3, PTL DEF SS!Spec

-----------------------------------------------------------------------------
(* Tracing *)

(* The provider that a call has made and not yet installed, or replaced and  *)
(* not yet shut down.                                                        *)
Holds(c) == IF tracePc[c] \in {"propagator", "quiet", "swap", "swapLast"} THEN mine[c]
            ELSE IF tracePc[c] \in {"tracer", "shutdown"} THEN old[c] ELSE TR!Noop

(* Each exporter that runs is the current provider's or one call's, which    *)
(* will install it or shut it down, and no other call has it; or its         *)
(* shutdown was cut short, and then it is neither.                           *)
EachHasAnOwner ==
    /\ cut \subseteq live /\ live \subseteq 1 .. providersMade
    /\ provider # TR!Noop => provider \in live \ cut
    /\ \A c \in Clients : Holds(c) # TR!Noop => Holds(c) \in live \ cut /\ Holds(c) # provider
    /\ \A c, d \in Clients : c # d /\ Holds(c) = Holds(d) => Holds(c) = TR!Noop
    /\ \A p \in live \ cut : p = provider \/ \E c \in Clients : Holds(c) = p

(* While calls do not overlap, the only one there is puts back what it took  *)
(* apart.                                                                    *)
OneCallAtATime ==
    ~ overlapped =>
        /\ \A c, d \in Clients : tracePc[c] # "idle" /\ tracePc[d] # "idle" => c = d
        /\ \A c \in Clients : /\ tracePc[c] = "tracer" => provider = mine[c]
                              /\ tracePc[c] = "swapLast" => tracer = mine[c]
        /\ (\A c \in Clients : tracePc[c] \notin {"tracer", "quiet", "swapLast"}) => tracer = provider

TraceInv ==
    /\ TR!TypeOK /\ EachHasAnOwner /\ OneCallAtATime
    /\ \A c \in Clients : tracePc[c] # "global" /\ (tracePc[c] = "quiet" => mine[c] = TR!Noop)

LEMMA TraceInit == ASSUME TR!TraceAssumption, TR!Init PROVE TraceInv
<1> USE DEF TR!TraceAssumption, TR!Init, TR!Noop
<1>1. TR!TypeOK
  BY DEF TR!TypeOK, TR!Providers
<1>2. \A c \in Clients : tracePc[c] = "idle" /\ Holds(c) = TR!Noop
  BY DEF Holds
<1> QED BY <1>1, <1>2 DEF TraceInv, EachHasAnOwner, OneCallAtATime

LEMMA TraceTypes ==
    ASSUME TR!TraceAssumption, TR!TypeOK
    PROVE  /\ MaxProviders \in Nat /\ providersMade \in 0 .. MaxProviders
           /\ provider \in Nat /\ tracer \in Nat
           /\ DOMAIN tracePc = Clients /\ DOMAIN mine = Clients /\ DOMAIN old = Clients
           /\ \A c \in Clients : mine[c] \in Nat /\ old[c] \in Nat /\ Holds(c) \in Nat
BY DEF TR!TraceAssumption, TR!TypeOK, TR!Providers, TR!Noop, Holds

(* A step of one call leaves what the others hold as it is.                  *)
LEMMA TraceOthers ==
    ASSUME TR!TypeOK, NEW c \in Clients, NEW where, TR!Goto(c, where),
           \/ UNCHANGED <<mine, old>>
           \/ mine' = [mine EXCEPT ![c] = mine'[c]] /\ old' = old
           \/ old' = [old EXCEPT ![c] = old'[c]] /\ mine' = mine
           \/ mine' = [mine EXCEPT ![c] = TR!Noop] /\ old' = [old EXCEPT ![c] = TR!Noop]
    PROVE  /\ tracePc'[c] = where
           /\ \A d \in Clients \ {c} : /\ tracePc'[d] = tracePc[d] /\ Holds(d)' = Holds(d)
                                       /\ mine'[d] = mine[d] /\ old'[d] = old[d]
BY DEF TR!TypeOK, TR!Goto, Holds

LEMMA OwnersKeep ==
    ASSUME TR!TraceAssumption, TR!TypeOK, EachHasAnOwner, NEW c \in Clients,
           \A d \in Clients \ {c} : Holds(d)' = Holds(d),
           live' \subseteq 1 .. providersMade',
           \/ UNCHANGED <<live, cut, provider>> /\ Holds(c)' = Holds(c)
           \/ UNCHANGED <<live, cut>> /\ provider' = Holds(c) /\ Holds(c)' = provider
           \/ TR!Ends(Holds(c)) /\ provider' = provider /\ Holds(c)' = TR!Noop
           \/ TR!CutShort(Holds(c)) /\ provider' = provider /\ Holds(c)' = TR!Noop
           \/ /\ Holds(c) = TR!Noop /\ Holds(c)' \notin live /\ Holds(c)' # TR!Noop
              /\ live' = live \cup {Holds(c)'} /\ UNCHANGED <<cut, provider>>
    PROVE  EachHasAnOwner'
<1>0. providersMade \in Nat /\ TR!Noop \notin live
  BY TraceTypes DEF EachHasAnOwner, TR!Noop
<1> USE DEF EachHasAnOwner
<1>1. CASE UNCHANGED <<live, cut, provider>> /\ Holds(c)' = Holds(c)
  BY <1>1
<1>2. CASE UNCHANGED <<live, cut>> /\ provider' = Holds(c) /\ Holds(c)' = provider
  BY <1>2
<1>3. CASE TR!Ends(Holds(c)) /\ provider' = provider /\ Holds(c)' = TR!Noop
  BY <1>0, <1>3 DEF TR!Ends
<1>4. CASE TR!CutShort(Holds(c)) /\ provider' = provider /\ Holds(c)' = TR!Noop
  <2>1. cut' = cut \cup {Holds(c)} /\ live' = live /\ Holds(c) # TR!Noop
    BY <1>4 DEF TR!CutShort
  <2>2. Holds(c) \in live /\ Holds(c) # provider
    BY <2>1
  <2>3. \A d \in Clients \ {c} : Holds(d)' = Holds(d) /\ Holds(d) # Holds(c)
    BY <2>1
  <2>4. \A d \in Clients : Holds(d)' # TR!Noop
                           => Holds(d)' \in live' \ cut' /\ Holds(d)' # provider'
    BY <1>4, <2>1, <2>3
  <2>5. \A p \in live' \ cut' : p = provider' \/ \E d \in Clients : Holds(d)' = p
    BY <1>4, <2>1, <2>3
  <2>6. \A d, e \in Clients : d # e /\ Holds(d)' = Holds(e)' => Holds(d)' = TR!Noop
    BY <1>4, <2>3
  <2> QED BY <1>4, <2>1, <2>2, <2>4, <2>5, <2>6
<1>5. CASE /\ Holds(c) = TR!Noop /\ Holds(c)' \notin live /\ Holds(c)' # TR!Noop
           /\ live' = live \cup {Holds(c)'} /\ UNCHANGED <<cut, provider>>
  <2>1. \A d \in Clients : Holds(d)' # TR!Noop
                           => Holds(d)' \in live' \ cut' /\ Holds(d)' # provider'
    BY <1>5
  <2>2. \A d, e \in Clients : d # e /\ Holds(d)' = Holds(e)' => Holds(d)' = TR!Noop
    BY <1>5
  <2>3. \A p \in live' \ cut' : p = provider' \/ \E d \in Clients : Holds(d)' = p
    BY <1>0, <1>5
  <2> QED BY <1>5, <2>1, <2>2, <2>3
<1> QED BY <1>1, <1>2, <1>3, <1>4, <1>5

LEMMA TraceStep == ASSUME TR!TraceAssumption, TraceInv, [TR!Next]_(TR!vars) PROVE TraceInv'
<1>0. TR!Noop \in TR!Providers
  BY DEF TR!TraceAssumption, TR!Noop, TR!Providers
<1> USE DEF TraceInv, TR!Goto, TR!installed, TR!exporters
<1>1. CASE UNCHANGED TR!vars
  BY <1>1 DEF TR!vars, TR!TypeOK, EachHasAnOwner, OneCallAtATime, Holds
<1>2. ASSUME NEW c \in Clients, TR!InitEnabled(c) PROVE TraceInv'
  <2> USE <1>2 DEF TR!InitEnabled
  <2>1. /\ tracePc[c] = "idle" /\ tracePc'[c] = "propagator" /\ mine'[c] = providersMade + 1
        /\ \A d \in Clients \ {c} : tracePc'[d] = tracePc[d] /\ mine'[d] = mine[d]
                                    /\ Holds(d)' = Holds(d)
    BY TraceOthers, TraceTypes DEF TR!Begins
  <2>2. Holds(c) = TR!Noop /\ Holds(c)' = providersMade + 1
    BY <2>1 DEF Holds
  <2>3. TR!TypeOK'
    <3>1. providersMade + 1 \in TR!Providers /\ providersMade \in TR!Providers
      BY TraceTypes DEF TR!Providers
    <3> QED BY <3>1 DEF TR!TypeOK
  <2>4. EachHasAnOwner'
    <3>1. /\ live' \subseteq 1 .. providersMade' /\ Holds(c)' \notin live /\ Holds(c)' # TR!Noop
          /\ live' = live \cup {Holds(c)'} /\ UNCHANGED <<cut, provider>>
      <4>1. live \subseteq 1 .. providersMade /\ providersMade \in Nat /\ UNCHANGED <<cut, provider>>
            /\ live' = live \cup {providersMade + 1} /\ providersMade' = providersMade + 1
        BY TraceTypes DEF EachHasAnOwner
      <4>2. providersMade + 1 \notin live /\ providersMade + 1 # TR!Noop
        BY <4>1 DEF TR!Noop
      <4>3. live' \subseteq 1 .. providersMade'
        BY <4>1
      <4> QED BY <2>2, <4>1, <4>2, <4>3
    <3> QED BY <2>1, <2>2, <3>1, OwnersKeep
  <2>5. OneCallAtATime'
    BY <2>1 DEF OneCallAtATime, TR!Begins
  <2> QED BY <2>1, <2>3, <2>4, <2>5
<1>3. ASSUME NEW c \in Clients, TR!BadPropagator(c) PROVE TraceInv'
  <2> USE <1>3 DEF TR!BadPropagator, TR!Returns
  <2>1. /\ tracePc[c] = "propagator" /\ tracePc'[c] = "idle"
        /\ \A d \in Clients \ {c} : tracePc'[d] = tracePc[d] /\ mine'[d] = mine[d]
                                    /\ Holds(d)' = Holds(d)
    BY TraceOthers, TraceTypes
  <2>2. Holds(c) = mine[c] /\ Holds(c)' = TR!Noop
    BY <2>1, TraceTypes DEF Holds
  <2>3. TR!TypeOK'
    BY <1>0, TraceTypes DEF TR!TypeOK, TR!Ends, TR!CutShort
  <2>4. EachHasAnOwner'
    <3>1. live' \subseteq 1 .. providersMade'
      BY DEF EachHasAnOwner, TR!Ends, TR!CutShort
    <3>2. /\ provider' = provider /\ Holds(c)' = TR!Noop
          /\ TR!Ends(Holds(c)) \/ TR!CutShort(Holds(c))
      BY <2>2
    <3>3. TR!TypeOK /\ EachHasAnOwner
      OBVIOUS
    <3> QED BY <2>1, <3>1, <3>2, <3>3, OwnersKeep
  <2>5. OneCallAtATime'
    BY <2>1, <2>2 DEF OneCallAtATime
  <2> QED BY <2>1, <2>3, <2>4, <2>5
<1>4. ASSUME NEW c \in Clients, TR!InitDisabled(c) PROVE TraceInv'
  <2> USE <1>4 DEF TR!InitDisabled
  <2>1. /\ tracePc[c] = "idle" /\ tracePc'[c] = "quiet"
        /\ \A d \in Clients \ {c} : tracePc'[d] = tracePc[d] /\ mine'[d] = mine[d]
                                    /\ Holds(d)' = Holds(d)
    BY TraceOthers, TraceTypes DEF TR!Begins
  <2>2. mine'[c] = TR!Noop /\ Holds(c) = TR!Noop /\ Holds(c)' = TR!Noop
    BY <2>1, TraceTypes DEF Holds
  <2>3. TR!TypeOK'
    BY <1>0 DEF TR!TypeOK
  <2>4. EachHasAnOwner'
    <3>1. live' \subseteq 1 .. providersMade'
      BY DEF EachHasAnOwner
    <3> QED BY <2>1, <2>2, <3>1, OwnersKeep
  <2>5. OneCallAtATime'
    BY <2>1, <2>2 DEF OneCallAtATime, TR!Begins
  <2> QED BY <2>1, <2>2, <2>3, <2>4, <2>5
<1>5. ASSUME NEW c \in Clients, TR!StoreNoop(c) PROVE TraceInv'
  <2> USE <1>5 DEF TR!StoreNoop
  <2>1. /\ tracePc[c] = "quiet" /\ tracePc'[c] = "swapLast"
        /\ \A d \in Clients \ {c} : tracePc'[d] = tracePc[d] /\ mine'[d] = mine[d]
                                    /\ Holds(d)' = Holds(d)
    BY TraceOthers, TraceTypes
  <2>2. mine[c] = TR!Noop /\ mine' = mine /\ Holds(c)' = Holds(c)
    BY <2>1, TraceTypes DEF Holds
  <2>3. TR!TypeOK'
    BY <1>0 DEF TR!TypeOK
  <2>4. EachHasAnOwner'
    <3>1. live' \subseteq 1 .. providersMade'
      BY DEF EachHasAnOwner
    <3> QED BY <2>1, <2>2, <3>1, OwnersKeep
  <2>5. OneCallAtATime'
    BY <2>1, <2>2 DEF OneCallAtATime
  <2> QED BY <2>1, <2>3, <2>4, <2>5
<1>6. ASSUME NEW c \in Clients, TR!Close(c) PROVE TraceInv'
  <2> USE <1>6 DEF TR!Close
  <2>1. /\ tracePc[c] = "idle" /\ tracePc'[c] = "swap"
        /\ \A d \in Clients \ {c} : tracePc'[d] = tracePc[d] /\ mine'[d] = mine[d]
                                    /\ Holds(d)' = Holds(d)
    BY TraceOthers, TraceTypes DEF TR!Begins
  <2>2. mine'[c] = TR!Noop /\ Holds(c) = TR!Noop /\ Holds(c)' = TR!Noop
    BY <2>1, TraceTypes DEF Holds
  <2>3. TR!TypeOK'
    BY <1>0 DEF TR!TypeOK
  <2>4. EachHasAnOwner'
    <3>1. live' \subseteq 1 .. providersMade'
      BY DEF EachHasAnOwner
    <3> QED BY <2>1, <2>2, <3>1, OwnersKeep
  <2>5. OneCallAtATime'
    BY <2>1, <2>2 DEF OneCallAtATime, TR!Begins
  <2> QED BY <2>1, <2>3, <2>4, <2>5
<1>7. ASSUME NEW c \in Clients, TR!SetGlobal(c) PROVE TraceInv'
  <2> USE <1>7 DEF TR!SetGlobal
  <2>1. /\ tracePc[c] = "propagator" /\ tracePc'[c] = "swap"
        /\ \A d \in Clients \ {c} : tracePc'[d] = tracePc[d] /\ mine'[d] = mine[d]
                                    /\ Holds(d)' = Holds(d)
    BY TraceOthers, TraceTypes
  <2>2. mine' = mine /\ Holds(c)' = Holds(c)
    BY <2>1, TraceTypes DEF Holds
  <2>3. TR!TypeOK'
    BY DEF TR!TypeOK
  <2>4. EachHasAnOwner'
    <3>1. live' \subseteq 1 .. providersMade'
      BY DEF EachHasAnOwner
    <3> QED BY <2>1, <2>2, <3>1, OwnersKeep
  <2>5. OneCallAtATime'
    BY <2>1, <2>2 DEF OneCallAtATime
  <2> QED BY <2>1, <2>3, <2>4, <2>5
<1>8. ASSUME NEW c \in Clients, TR!StoreTracer(c) PROVE TraceInv'
  <2> USE <1>8 DEF TR!StoreTracer
  <2>1. /\ tracePc[c] = "tracer" /\ tracePc'[c] = "shutdown"
        /\ \A d \in Clients \ {c} : tracePc'[d] = tracePc[d] /\ mine'[d] = mine[d]
                                    /\ Holds(d)' = Holds(d)
    BY TraceOthers, TraceTypes
  <2>2. mine' = mine /\ Holds(c)' = Holds(c) /\ tracer' = mine[c]
    BY <2>1, TraceTypes DEF Holds
  <2>3. TR!TypeOK'
    BY DEF TR!TypeOK
  <2>4. EachHasAnOwner'
    <3>1. live' \subseteq 1 .. providersMade'
      BY DEF EachHasAnOwner
    <3> QED BY <2>1, <2>2, <3>1, OwnersKeep
  <2>5. OneCallAtATime'
    BY <2>1, <2>2 DEF OneCallAtATime
  <2> QED BY <2>1, <2>3, <2>4, <2>5
<1>9. ASSUME NEW c \in Clients, TR!ShutdownOld(c) PROVE TraceInv'
  <2> USE <1>9 DEF TR!ShutdownOld, TR!Returns
  <2>1. /\ tracePc[c] = "shutdown" /\ tracePc'[c] = "idle"
        /\ \A d \in Clients \ {c} : tracePc'[d] = tracePc[d] /\ mine'[d] = mine[d]
                                    /\ Holds(d)' = Holds(d)
    BY TraceOthers, TraceTypes
  <2>2. Holds(c) = old[c] /\ Holds(c)' = TR!Noop
    BY <2>1, TraceTypes DEF Holds
  <2>3. TR!TypeOK'
    BY <1>0, TraceTypes DEF TR!TypeOK, TR!Ends, TR!CutShort
  <2>4. EachHasAnOwner'
    <3>1. live' \subseteq 1 .. providersMade'
      BY DEF EachHasAnOwner, TR!Ends, TR!CutShort
    <3>2. /\ provider' = provider /\ Holds(c)' = TR!Noop
          /\ TR!Ends(Holds(c)) \/ TR!CutShort(Holds(c))
      BY <2>2
    <3>3. TR!TypeOK /\ EachHasAnOwner
      OBVIOUS
    <3> QED BY <2>1, <3>1, <3>2, <3>3, OwnersKeep
  <2>5. OneCallAtATime'
    BY <2>1, <2>2 DEF OneCallAtATime
  <2> QED BY <2>1, <2>3, <2>4, <2>5
<1>10. ASSUME NEW c \in Clients, TR!SwapProvider(c) PROVE TraceInv'
  <2> USE <1>10 DEF TR!SwapProvider, TR!TakesOld
  <2>1. /\ tracePc[c] \in {"swap", "swapLast"}
        /\ tracePc'[c] = IF tracePc[c] = "swap" THEN "tracer" ELSE "shutdown"
        /\ \A d \in Clients \ {c} : tracePc'[d] = tracePc[d] /\ mine'[d] = mine[d]
                                    /\ Holds(d)' = Holds(d)
    <3>1. TR!Goto(c, IF tracePc[c] = "swap" THEN "tracer" ELSE "shutdown")
      OBVIOUS
    <3>2. old' = [old EXCEPT ![c] = old'[c]] /\ mine' = mine
      BY TraceTypes
    <3>3. TR!TypeOK /\ tracePc[c] \in {"swap", "swapLast"}
      OBVIOUS
    <3> HIDE DEF TR!SwapProvider, TR!TakesOld
    <3>4. /\ tracePc'[c] = IF tracePc[c] = "swap" THEN "tracer" ELSE "shutdown"
          /\ \A d \in Clients \ {c} : /\ tracePc'[d] = tracePc[d] /\ Holds(d)' = Holds(d)
                                      /\ mine'[d] = mine[d] /\ old'[d] = old[d]
      BY <3>1, <3>2, <3>3, TraceOthers, Zenon
    <3> QED BY <3>3, <3>4, Zenon
  <2>2. mine' = mine /\ provider' = Holds(c) /\ provider' = mine[c] /\ Holds(c)' = provider
    BY <2>1, TraceTypes DEF Holds
  <2>3. TR!TypeOK'
    BY DEF TR!TypeOK
  <2>4. EachHasAnOwner'
    <3>1. live' \subseteq 1 .. providersMade'
      BY DEF EachHasAnOwner
    <3> QED BY <2>1, <2>2, <3>1, OwnersKeep
  <2>5. OneCallAtATime'
    BY <2>1, <2>2 DEF OneCallAtATime
  <2> QED BY <2>1, <2>3, <2>4, <2>5
<1>11. ASSUME NEW p, TR!EndsLate(p) PROVE TraceInv'
  <2> USE <1>11 DEF TR!EndsLate
  <2>1. \A c \in Clients : Holds(c)' = Holds(c)
    BY DEF Holds
  <2>2. TR!TypeOK' /\ OneCallAtATime'
    BY DEF TR!TypeOK, OneCallAtATime
  <2>3. EachHasAnOwner'
    BY <2>1 DEF EachHasAnOwner
  <2> QED BY <2>2, <2>3
<1> QED BY <1>1, <1>2, <1>3, <1>4, <1>5, <1>6, <1>7, <1>8, <1>9, <1>10, <1>11 DEF TR!Next

(* However Init and Close overlap, the current provider was never asked to   *)
(* shut down; when they are over no other exporter runs but those whose      *)
(* shutdown was cut short, and calls that did not overlap leave a tracer of  *)
(* the current provider.                                                     *)
THEOREM OneExporterStays ==
    TR!TraceAssumption /\ TR!Spec => [](TR!TypeOK /\ TR!OneExporterRuns /\ TR!TracerIsCurrent)
<1> SUFFICES ASSUME TR!TraceAssumption
             PROVE  TR!Spec => [](TR!TypeOK /\ TR!OneExporterRuns /\ TR!TracerIsCurrent)
  OBVIOUS
<1>1. TraceInv => TR!TypeOK /\ TR!OneExporterRuns /\ TR!TracerIsCurrent
  <2> SUFFICES ASSUME TraceInv PROVE TR!OneExporterRuns /\ TR!TracerIsCurrent
    BY DEF TraceInv
  <2>1. ASSUME \A c \in Clients : tracePc[c] = "idle" PROVE live \subseteq {provider} \cup cut
    <3>1. \A c \in Clients : Holds(c) = TR!Noop
      BY <2>1 DEF Holds
    <3>2. TR!Noop \notin live
      BY TraceTypes DEF TraceInv, EachHasAnOwner, TR!Noop
    <3> QED BY <3>1, <3>2 DEF TraceInv, EachHasAnOwner
  <2> QED BY <2>1 DEF TraceInv, EachHasAnOwner, OneCallAtATime, TR!OneExporterRuns,
         TR!TracerIsCurrent
<1>2. TR!Init => TraceInv
  BY TraceInit
<1>3. TraceInv /\ [TR!Next]_(TR!vars) => TraceInv'
  BY TraceStep
<1> QED BY <1>1, <1>2, <1>3, PTL DEF TR!Spec

-----------------------------------------------------------------------------
(* HttpClient *)

(* The settings are the ones asked for, and the transport is built of them.  *)
SettingsKept == cfg = settings /\ HT!ClientAsConfigured

(* A goroutine that ended without an error has written every part, none runs *)
(* for a caller that is idle, and only an idle one has a result.             *)
WriterInv ==
    \A c \in Lone :
        /\ writer[c] = "done" /\ ~ werr[c] => partsLeft[c] = 0
        /\ httpPc[c] = "idle" => writer[c] \in {"off", "done"}
        /\ uploaded[c] = "ok" => httpPc[c] = "idle" /\ partsLeft[c] = 0

UploadInv ==
    /\ HT!TypeOK /\ SettingsKept /\ WriterInv
    /\ DOMAIN uploaded = Lone /\ DOMAIN answer = Lone

LEMMA UploadInit == ASSUME HT!UploadAssumption, HT!Init PROVE UploadInv
BY DEF HT!UploadAssumption, HT!Init, UploadInv, SettingsKept, WriterInv, HT!TypeOK,
     HT!ClientAsConfigured, HT!Default, HT!Built, HT!Transport, HT!Client

(* The settings: each is kept for the next rebuild.                          *)
LEMMA SettingsStep ==
    ASSUME HT!TypeOK, SettingsKept,
           \/ \E t \in BOOLEAN : HT!SetTimeout(t)
           \/ \E k \in {"block", "skip"}, v \in BOOLEAN : HT!Rebuild(k, v)
    PROVE  /\ SettingsKept'
           /\ cfg' \in [block : BOOLEAN, skip : BOOLEAN, timeout : BOOLEAN]
           /\ transport' \in HT!Transport /\ client' \in HT!Client
           /\ UNCHANGED <<httpPc, using, writer, werr, partsLeft, pipe, answer, uploaded, uploads>>
<1> USE DEF HT!TypeOK, SettingsKept, HT!ClientAsConfigured, HT!Built, HT!Transport, HT!Client
<1>1. ASSUME NEW t \in BOOLEAN, HT!SetTimeout(t) PROVE SettingsKept'
  BY <1>1 DEF HT!SetTimeout, HT!Keeps
<1>2. ASSUME NEW k \in {"block", "skip"}, NEW v \in BOOLEAN, HT!Rebuild(k, v) PROVE SettingsKept'
  BY <1>2 DEF HT!Rebuild
<1>3. cfg' \in [block : BOOLEAN, skip : BOOLEAN, timeout : BOOLEAN]
  BY DEF HT!SetTimeout, HT!Keeps, HT!Rebuild
<1> QED BY <1>1, <1>2, <1>3 DEF HT!SetTimeout, HT!Rebuild

(* A step of one upload changes what belongs to it.                          *)
LEMMA UploadCallStep ==
    ASSUME HT!UploadAssumption, UploadInv, NEW c \in Lone,
           \/ HT!Upload(c) \/ HT!RequestRefused(c) \/ HT!Do(c) \/ HT!Transfer(c) \/ HT!Answers(c)
           \/ HT!TimesOut(c) \/ HT!TransportCloses(c) \/ HT!DoReturns(c) \/ HT!UploadReturns(c)
           \/ HT!WriteFails(c) \/ HT!WriteEnds(c)
    PROVE  UploadInv'
<1> USE DEF UploadInv, HT!settings
<1>0. UploadParts \in Nat
  BY DEF HT!UploadAssumption
<1>1. SettingsKept' /\ UNCHANGED <<cfg, transport, client>>
  BY DEF HT!Upload, HT!RequestRefused, HT!Do, HT!Transfer, HT!Answers, HT!TimesOut,
         HT!TransportCloses, HT!DoReturns, HT!UploadReturns, HT!WriteFails, HT!WriteEnds,
         SettingsKept, HT!ClientAsConfigured
<1>2. CASE HT!Upload(c)
  <2>1. HT!TypeOK' /\ DOMAIN uploaded' = Lone /\ DOMAIN answer' = Lone
    BY <1>0, <1>1, <1>2 DEF HT!Upload, HT!TypeOK
  <2>2. WriterInv'
    BY <1>0, <1>2 DEF HT!Upload, HT!TypeOK, WriterInv
  <2> QED BY <1>1, <2>1, <2>2
<1>3. CASE HT!RequestRefused(c)
  <2>1. HT!TypeOK' /\ DOMAIN uploaded' = Lone /\ DOMAIN answer' = Lone
    BY <1>0, <1>1, <1>3 DEF HT!RequestRefused, HT!TypeOK, HT!CloseBoth
  <2>2. WriterInv'
    BY <1>0, <1>3 DEF HT!RequestRefused, HT!TypeOK, WriterInv, HT!CloseBoth
  <2> QED BY <1>1, <2>1, <2>2
<1>4. CASE HT!Do(c)
  <2>1. HT!TypeOK' /\ DOMAIN uploaded' = Lone /\ DOMAIN answer' = Lone
    BY <1>0, <1>1, <1>4 DEF HT!Do, HT!TypeOK
  <2>2. WriterInv'
    BY <1>0, <1>4 DEF HT!Do, HT!TypeOK, WriterInv
  <2> QED BY <1>1, <2>1, <2>2
<1>5. CASE HT!Transfer(c)
  <2>1. HT!TypeOK' /\ DOMAIN uploaded' = Lone /\ DOMAIN answer' = Lone
    BY <1>0, <1>1, <1>5 DEF HT!Transfer, HT!TypeOK
  <2>2. WriterInv'
    BY <1>0, <1>5 DEF HT!Transfer, HT!TypeOK, WriterInv
  <2> QED BY <1>1, <2>1, <2>2
<1>6. CASE HT!Answers(c)
  <2>1. HT!TypeOK' /\ DOMAIN uploaded' = Lone /\ DOMAIN answer' = Lone
    BY <1>0, <1>1, <1>6 DEF HT!Answers, HT!TypeOK
  <2>2. WriterInv'
    BY <1>0, <1>6 DEF HT!Answers, HT!TypeOK, WriterInv
  <2> QED BY <1>1, <2>1, <2>2
<1>7. CASE HT!TimesOut(c)
  <2>1. HT!TypeOK' /\ DOMAIN uploaded' = Lone /\ DOMAIN answer' = Lone
    BY <1>0, <1>1, <1>7 DEF HT!TimesOut, HT!TypeOK
  <2>2. WriterInv'
    BY <1>0, <1>7 DEF HT!TimesOut, HT!TypeOK, WriterInv
  <2> QED BY <1>1, <2>1, <2>2
<1>8. CASE HT!TransportCloses(c)
  <2>1. HT!TypeOK' /\ DOMAIN uploaded' = Lone /\ DOMAIN answer' = Lone
    BY <1>0, <1>1, <1>8 DEF HT!TransportCloses, HT!TypeOK
  <2>2. WriterInv'
    BY <1>0, <1>8 DEF HT!TransportCloses, HT!TypeOK, WriterInv
  <2> QED BY <1>1, <2>1, <2>2
<1>9. CASE HT!DoReturns(c)
  <2>1. HT!TypeOK' /\ DOMAIN uploaded' = Lone /\ DOMAIN answer' = Lone
    BY <1>0, <1>1, <1>9 DEF HT!DoReturns, HT!TypeOK, HT!CloseBoth
  <2>2. WriterInv'
    BY <1>0, <1>9 DEF HT!DoReturns, HT!TypeOK, WriterInv, HT!CloseBoth
  <2> QED BY <1>1, <2>1, <2>2
<1>10. CASE HT!UploadReturns(c)
  <2>1. HT!TypeOK' /\ DOMAIN uploaded' = Lone /\ DOMAIN answer' = Lone
    BY <1>0, <1>1, <1>10 DEF HT!UploadReturns, HT!TypeOK, HT!WriterOver
  <2>2. WriterInv'
    BY <1>0, <1>10 DEF HT!UploadReturns, HT!TypeOK, WriterInv, HT!WriterOver
  <2> QED BY <1>1, <2>1, <2>2
<1>11. CASE HT!WriteFails(c)
  <2>1. HT!TypeOK' /\ DOMAIN uploaded' = Lone /\ DOMAIN answer' = Lone
    BY <1>0, <1>1, <1>11 DEF HT!WriteFails, HT!TypeOK
  <2>2. WriterInv'
    BY <1>0, <1>11 DEF HT!WriteFails, HT!TypeOK, WriterInv
  <2> QED BY <1>1, <2>1, <2>2
<1>12. CASE HT!WriteEnds(c)
  <2>1. HT!TypeOK' /\ DOMAIN uploaded' = Lone /\ DOMAIN answer' = Lone
    BY <1>0, <1>1, <1>12 DEF HT!WriteEnds, HT!TypeOK
  <2>2. WriterInv'
    BY <1>0, <1>12 DEF HT!WriteEnds, HT!TypeOK, WriterInv
  <2> QED BY <1>1, <2>1, <2>2
<1> QED BY <1>2, <1>3, <1>4, <1>5, <1>6, <1>7, <1>8, <1>9, <1>10, <1>11, <1>12

LEMMA UploadStep == ASSUME HT!UploadAssumption, UploadInv, [HT!Next]_(HT!vars) PROVE UploadInv'
<1>1. CASE UNCHANGED HT!vars
  BY <1>1 DEF HT!vars, HT!settings, UploadInv, HT!TypeOK, SettingsKept, WriterInv,
              HT!ClientAsConfigured
<1>2. CASE \/ \E t \in BOOLEAN : HT!SetTimeout(t)
           \/ \E k \in {"block", "skip"}, v \in BOOLEAN : HT!Rebuild(k, v)
  <2>1. /\ SettingsKept'
        /\ cfg' \in [block : BOOLEAN, skip : BOOLEAN, timeout : BOOLEAN]
        /\ transport' \in HT!Transport /\ client' \in HT!Client
        /\ UNCHANGED <<httpPc, using, writer, werr, partsLeft, pipe, answer, uploaded, uploads>>
    BY <1>2, SettingsStep DEF UploadInv
  <2> QED BY <2>1 DEF UploadInv, HT!TypeOK, WriterInv
<1> QED BY <1>1, <1>2, UploadCallStep DEF HT!Next

(* An upload that succeeds was written to the end and leaves no goroutine,   *)
(* and the client has every setting asked for, whatever their order.         *)
THEOREM UploadsAreWhole ==
    HT!UploadAssumption /\ HT!Spec
        => [](HT!TypeOK /\ HT!ClientAsConfigured /\ HT!UploadIsWhole)
<1> SUFFICES ASSUME HT!UploadAssumption
             PROVE  HT!Spec => [](HT!TypeOK /\ HT!ClientAsConfigured /\ HT!UploadIsWhole)
  OBVIOUS
<1>1. UploadInv => HT!TypeOK /\ HT!ClientAsConfigured /\ HT!UploadIsWhole
  BY DEF UploadInv, SettingsKept, WriterInv, HT!UploadIsWhole
<1>2. HT!Init => UploadInv
  BY UploadInit
<1>3. UploadInv /\ [HT!Next]_(HT!vars) => UploadInv'
  BY UploadStep
<1> QED BY <1>1, <1>2, <1>3, PTL DEF HT!Spec

-----------------------------------------------------------------------------
(* HealthChecks *)

(* The slot of a check is held exactly while its goroutine is there.         *)
SlotIsHeld ==
    /\ DOMAIN checkSlot = HC!Checks /\ DOMAIN check = HC!Checks
    /\ \A k \in HC!Checks : checkSlot[k] = <<HC!Free>> <=> check[k] = "off"

LEMMA SlotInit == ASSUME HC!Init PROVE SlotIsHeld
BY DEF HC!Init, SlotIsHeld

LEMMA RunIsNotFree == ASSUME NEW p PROVE HC!Run(p) # <<HC!Free>>
<1>1. Len(HC!Run(p)) = 2 /\ Len(<<HC!Free>>) = 1
  BY DEF HC!Run
<1> QED BY <1>1

LEMMA SlotStep == ASSUME SlotIsHeld, [HC!Next]_(HC!vars) PROVE SlotIsHeld'
<1> USE DEF SlotIsHeld
<1>1. CASE UNCHANGED HC!vars
  BY <1>1 DEF HC!vars
<1>2. ASSUME NEW p \in Probes, HC!TakeSlot(p) PROVE SlotIsHeld'
  BY <1>2, RunIsNotFree DEF HC!TakeSlot
<1>3. ASSUME NEW p \in Probes,
             HC!Probe(p) \/ HC!Expire(p) \/ HC!GiveUp(p) \/ HC!Receive(p) \/ HC!Answer(p)
      PROVE  SlotIsHeld'
  BY <1>3 DEF HC!Probe, HC!Expire, HC!GiveUp, HC!Receive, HC!Answer
<1>4. ASSUME NEW k \in HC!Checks, HC!CheckEnds(k) \/ HC!Send(k) \/ HC!Release(k) PROVE SlotIsHeld'
  BY <1>4 DEF HC!CheckEnds, HC!Send, HC!Release
<1> QED BY <1>1, <1>2, <1>3, <1>4 DEF HC!Next

(* No goroutine of a check starts while one is there, for any probes, checks *)
(* and timeouts (OneCheckInFlight).                                          *)
THEOREM OneCheckAtATime == HC!Spec => HC!OneCheckInFlight
<1>1. HC!Init => SlotIsHeld
  BY SlotInit
<1>2. SlotIsHeld /\ [HC!Next]_(HC!vars) => SlotIsHeld'
  BY SlotStep
<1>3. SlotIsHeld /\ [HC!Next]_(HC!vars) =>
        [\A k \in HC!Checks : checkSlot'[k] # checkSlot[k] /\ checkSlot'[k] # <<HC!Free>>
                                => check[k] = "off"]_(HC!vars)
  <2> SUFFICES ASSUME SlotIsHeld, HC!Next, NEW k \in HC!Checks,
                      checkSlot'[k] # checkSlot[k], checkSlot'[k] # <<HC!Free>>
               PROVE  check[k] = "off"
    OBVIOUS
  <2>1. ASSUME NEW p \in Probes, HC!TakeSlot(p) PROVE check[k] = "off"
    BY <2>1 DEF HC!TakeSlot, HC!SlotFree, SlotIsHeld
  <2>2. ASSUME NEW j \in HC!Checks, HC!Release(j) PROVE FALSE
    BY <2>2 DEF HC!Release, SlotIsHeld
  <2>3. \/ \E p \in Probes : HC!TakeSlot(p)
        \/ \E j \in HC!Checks : HC!Release(j)
    BY DEF HC!Next, HC!Probe, HC!Expire, HC!GiveUp, HC!Receive, HC!Answer, HC!CheckEnds, HC!Send
  <2> QED BY <2>1, <2>2, <2>3
<1> QED BY <1>1, <1>2, <1>3, PTL DEF HC!Spec, HC!OneCheckInFlight

-----------------------------------------------------------------------------
(* CacheService *)

(* Of the keys that were there all the time, those of the buckets scanned so *)
(* far are in hand, to be deleted next.                                      *)
ScannedIsInHand ==
    /\ cursor \in [Clients -> Nat] /\ scanned \in [Clients -> SUBSET CacheKeys]
    /\ since \in [Clients -> SUBSET CacheKeys] /\ cache \subseteq CacheKeys
    /\ DOMAIN deletedAll = Clients
    /\ \A c \in Clients :
          /\ since[c] \subseteq cache
          /\ \A k \in since[c] : BucketOf[k] < cursor[c] => k \in scanned[c]

LEMMA CacheInit == ASSUME CS!CacheAssumption, CS!Init PROVE ScannedIsInHand
BY DEF CS!Init, ScannedIsInHand

LEMMA CacheStep ==
    ASSUME CS!CacheAssumption, ScannedIsInHand, [CS!Next]_(CS!vars) PROVE ScannedIsInHand'
<1>0. \A k \in CacheKeys : BucketOf[k] \in 1 .. Buckets /\ BucketOf[k] \in Nat /\ BucketOf[k] > 0
  BY DEF CS!CacheAssumption
<1> USE DEF ScannedIsInHand
<1>1. CASE UNCHANGED CS!vars
  BY <1>1 DEF CS!vars
<1>2. ASSUME NEW b \in BOOLEAN, CS!RedisReady(b) \/ CS!Reinit(b) PROVE ScannedIsInHand'
  BY <1>2 DEF CS!RedisReady, CS!Reinit
<1>3. ASSUME NEW k \in CacheKeys, CS!Forget(k) PROVE ScannedIsInHand'
  BY <1>3 DEF CS!Forget
<1>4. ASSUME NEW c \in Clients, NEW k \in CacheKeys, CS!Set(c, k) PROVE ScannedIsInHand'
  BY <1>4 DEF CS!Set
<1>5. ASSUME NEW c \in Clients, CS!NotReady(c) \/ CS!PatternDone(c) PROVE ScannedIsInHand'
  BY <1>0, <1>5 DEF CS!NotReady, CS!PatternDone
<1>6. ASSUME NEW c \in Clients, CS!DeleteByPattern(c) PROVE ScannedIsInHand'
  BY <1>0, <1>6 DEF CS!DeleteByPattern
<1>7. ASSUME NEW c \in Clients, CS!Scan(c) PROVE ScannedIsInHand'
  <2> USE <1>7 DEF CS!Scan
  <2>1. /\ cursor' \in [Clients -> Nat] /\ scanned' \in [Clients -> SUBSET CacheKeys]
        /\ \A d \in Clients \ {c} : cursor'[d] = cursor[d] /\ scanned'[d] = scanned[d]
        /\ cursor'[c] = cursor[c] + 1 /\ scanned'[c] = CS!Bucket(cursor[c])
    BY DEF CS!Bucket
  <2>2. ASSUME NEW k \in since[c], BucketOf[k] < cursor[c] + 1 PROVE k \in CS!Bucket(cursor[c])
    <3>1. k \in cache /\ BucketOf[k] \in Nat /\ cursor[c] \in Nat
      BY <1>0
    <3>2. ~ (BucketOf[k] < cursor[c])
      OBVIOUS
    <3> QED BY <2>2, <3>1, <3>2 DEF CS!Bucket
  <2> QED BY <2>1, <2>2
<1>8. ASSUME NEW c \in Clients, CS!Del(c) PROVE ScannedIsInHand'
  BY <1>8 DEF CS!Del
<1>9. ASSUME NEW c \in Clients, CS!PatternFails(c) PROVE ScannedIsInHand'
  BY <1>0, <1>9 DEF CS!PatternFails
<1> QED BY <1>1, <1>2, <1>3, <1>4, <1>5, <1>6, <1>7, <1>8, <1>9 DEF CS!Next

(* When DeleteByPattern returns nil, no matching key has been there since it *)
(* began, however the keys lie in the buckets of Redis (PatternIsDeleted).   *)
THEOREM PatternsAreDeleted == CS!CacheAssumption /\ CS!Spec => CS!PatternIsDeleted
<1> SUFFICES ASSUME CS!CacheAssumption PROVE CS!Spec => CS!PatternIsDeleted
  OBVIOUS
<1>1. CS!Init => ScannedIsInHand
  BY CacheInit
<1>2. ScannedIsInHand /\ [CS!Next]_(CS!vars) => ScannedIsInHand'
  BY CacheStep
<1>3. ScannedIsInHand /\ [CS!Next]_(CS!vars) =>
        [\A c \in Clients : ~ CS!Idle(c) /\ cursor'[c] = 0 /\ deletedAll'[c] = "ok"
                             => since[c] = {}]_(CS!vars)
  <2> SUFFICES ASSUME ScannedIsInHand, CS!Next, NEW c \in Clients, ~ CS!Idle(c), cursor'[c] = 0,
                      deletedAll'[c] = "ok"
               PROVE  since[c] = {}
    OBVIOUS
  <2>1. CS!PatternDone(c)
    <3>1. cursor[c] \in Nat /\ cursor[c] # 0
      BY DEF CS!Idle, ScannedIsInHand
    <3>2. PICK d \in Clients : \/ \E k \in CacheKeys : CS!Set(d, k)
                               \/ CS!NotReady(d) \/ CS!DeleteByPattern(d) \/ CS!Scan(d) \/ CS!Del(d)
                               \/ CS!PatternFails(d) \/ CS!PatternDone(d)
      BY <3>1 DEF CS!Next, CS!RedisReady, CS!Reinit, CS!Forget
    <3>3. ~ (CS!NotReady(d) \/ CS!Del(d)) /\ ~ \E k \in CacheKeys : CS!Set(d, k)
      BY <3>1 DEF CS!NotReady, CS!Del, CS!Set
    <3>4. ~ CS!Scan(d) /\ ~ CS!DeleteByPattern(d)
      BY <3>1 DEF CS!Scan, CS!DeleteByPattern, ScannedIsInHand
    <3>5. CS!PatternFails(d) => d # c
      BY DEF CS!PatternFails, ScannedIsInHand
    <3>6. CS!PatternFails(d) \/ CS!PatternDone(d) => d = c
      BY <3>1 DEF CS!PatternFails, CS!PatternDone, ScannedIsInHand
    <3> QED BY <3>2, <3>3, <3>4, <3>5, <3>6
  <2>2. scanned[c] = {} /\ cursor[c] > Buckets
    BY <2>1 DEF CS!PatternDone, CS!ScannedAll
  <2>3. ASSUME NEW k \in since[c] PROVE FALSE
    <3>1. k \in CacheKeys /\ BucketOf[k] \in 1 .. Buckets /\ cursor[c] \in Nat /\ Buckets \in Nat
      BY DEF ScannedIsInHand, CS!CacheAssumption
    <3>2. BucketOf[k] < cursor[c]
      BY <2>2, <3>1
    <3> QED BY <2>2, <3>2 DEF ScannedIsInHand
  <2> QED BY <2>3
<1> QED BY <1>1, <1>2, <1>3, PTL DEF CS!Spec, CS!PatternIsDeleted

-----------------------------------------------------------------------------
(* RepoTx *)

AddedBy(c, r) == \E i \in 1 .. Len(frames[c]) : r \in frames[c][i].adds

(* A row added in a transaction was never committed and is no other's, and   *)
(* what the transaction means to create is there in its frames, without the  *)
(* rows below them.                                                          *)
RowsApart ==
    \A c \in Lone, r \in Rows : AddedBy(c, r) =>
        r \notin master \cup replica /\ \A d \in Lone : AddedBy(d, r) => d = c
MeantIsThere == \A c \in Lone : meant[c] \subseteq RT!Overlay({}, frames[c])

TxInv ==
    /\ RT!TypeOK /\ DOMAIN frames = Lone
    /\ RowsApart /\ MeantIsThere

LEMMA TxInit == ASSUME RT!RepoAssumption, RT!Init PROVE TxInv
<1>1. \A c \in Lone : /\ frames[c] = <<>> /\ frames[c] \in Seq(RT!Frame) /\ Len(frames[c]) = 0
                       /\ meant[c] = {}
  BY DEF RT!Init
<1>2. RT!TypeOK
  BY <1>1 DEF RT!Init, RT!TypeOK, RT!RepoAssumption
<1> QED BY <1>1, <1>2 DEF RT!Init, TxInv, RowsApart, MeantIsThere, AddedBy

-----------------------------------------------------------------------------
(* Frames *)

LEMMA OverlayRow ==
    ASSUME NEW fs \in Seq(RT!Frame), NEW r, NEW rows
    PROVE  /\ r \in RT!Overlay({}, fs) <=>
                 /\ r \in Rows
                 /\ \E i \in 1 .. Len(fs) : /\ r \in fs[i].adds
                                           /\ \A j \in i + 1 .. Len(fs) : r \notin fs[j].dels
           /\ r \in RT!Overlay({}, fs) => r \in RT!Overlay(rows, fs)
<1>1. DOMAIN fs = 1 .. Len(fs)
  OBVIOUS
<1> QED BY <1>1 DEF RT!Overlay, RT!Kept

LEMMA MergeFields ==
    ASSUME NEW f \in RT!Frame, NEW g \in RT!Frame
    PROVE  /\ RT!Merge(f, g) \in RT!Frame
           /\ RT!Merge(f, g).adds = (f.adds \ g.dels) \cup g.adds
           /\ RT!Merge(f, g).dels = (f.dels \ g.adds) \cup g.dels
BY DEF RT!Frame, RT!Merge

(* A frame merged into the last one: its rows are there, the others unless   *)
(* it deletes them.                                                          *)
LEMMA MergeIntoLast ==
    ASSUME NEW fs \in Seq(RT!Frame), Len(fs) > 0, NEW g \in RT!Frame,
           NEW gs \in Seq(RT!Frame), Len(gs) = Len(fs), gs[Len(fs)] = RT!Merge(fs[Len(fs)], g),
           \A i \in 1 .. Len(fs) - 1 : gs[i] = fs[i],
           NEW r, \/ r \in RT!Overlay({}, fs) /\ r \notin g.dels
                  \/ r \in Rows /\ r \in g.adds
    PROVE  r \in RT!Overlay({}, gs)
<1> DEFINE n == Len(fs)
<1>0. n \in Nat /\ fs[n] \in RT!Frame
  OBVIOUS
<1>1. /\ gs[n].adds = (fs[n].adds \ g.dels) \cup g.adds
      /\ gs[n].dels = (fs[n].dels \ g.adds) \cup g.dels
  BY <1>0, MergeFields
<1>2. CASE r \in Rows /\ r \in g.adds
  <2>1. r \in gs[n].adds /\ n \in 1 .. Len(gs) /\ \A j \in n + 1 .. Len(gs) : FALSE
    BY <1>0, <1>1, <1>2
  <2> QED BY <1>2, <2>1, OverlayRow
<1>3. CASE r \in RT!Overlay({}, fs) /\ r \notin g.dels
  <2>1. r \in Rows /\ \E i \in 1 .. n : /\ r \in fs[i].adds
                                       /\ \A j \in i + 1 .. n : r \notin fs[j].dels
    BY <1>3, OverlayRow
  <2>2. PICK i \in 1 .. n : r \in fs[i].adds /\ \A j \in i + 1 .. n : r \notin fs[j].dels
    BY <2>1
  <2>3. r \in gs[i].adds
    BY <1>0, <1>1, <1>3, <2>2
  <2>4. ASSUME NEW j \in i + 1 .. n PROVE r \notin gs[j].dels
    BY <1>0, <1>1, <1>3, <2>2
  <2> QED BY <2>1, <2>3, <2>4, OverlayRow
<1> QED BY <1>2, <1>3

(* The last frame merged into the one below it.                              *)
LEMMA MergeTopTwo ==
    ASSUME NEW fs \in Seq(RT!Frame), Len(fs) > 1, NEW gs \in Seq(RT!Frame),
           Len(gs) = Len(fs) - 1, gs[Len(fs) - 1] = RT!Merge(fs[Len(fs) - 1], fs[Len(fs)]),
           \A i \in 1 .. Len(fs) - 2 : gs[i] = fs[i],
           NEW r \in RT!Overlay({}, fs)
    PROVE  r \in RT!Overlay({}, gs)
<1> DEFINE n == Len(fs)
<1>0. n \in Nat /\ fs[n] \in RT!Frame /\ fs[n - 1] \in RT!Frame
  OBVIOUS
<1>1. /\ gs[n - 1].adds = (fs[n - 1].adds \ fs[n].dels) \cup fs[n].adds
      /\ gs[n - 1].dels = (fs[n - 1].dels \ fs[n].adds) \cup fs[n].dels
  BY <1>0, MergeFields
<1>2. r \in Rows /\ \E i \in 1 .. n : /\ r \in fs[i].adds
                                     /\ \A j \in i + 1 .. n : r \notin fs[j].dels
  BY OverlayRow
<1>3. PICK i \in 1 .. n : r \in fs[i].adds /\ \A j \in i + 1 .. n : r \notin fs[j].dels
  BY <1>2
<1>4. CASE i >= n - 1
  <2>1. r \in gs[n - 1].adds
    BY <1>0, <1>1, <1>3, <1>4
  <2>2. n - 1 \in 1 .. Len(gs) /\ \A j \in (n - 1) + 1 .. Len(gs) : FALSE
    BY <1>0
  <2> QED BY <1>2, <2>1, <2>2, OverlayRow
<1>5. CASE i < n - 1
  <2>1. i \in 1 .. Len(gs) /\ r \in gs[i].adds
    BY <1>0, <1>3, <1>5
  <2>2. ASSUME NEW j \in i + 1 .. Len(gs) PROVE r \notin gs[j].dels
    <3>1. r \notin fs[j].dels /\ r \notin fs[n].dels
      BY <1>0, <1>3, <1>5
    <3>2. j = n - 1 \/ j \in 1 .. n - 2
      BY <1>0
    <3> QED BY <1>1, <3>1, <3>2
  <2> QED BY <1>2, <2>1, <2>2, OverlayRow
<1> QED BY <1>0, <1>4, <1>5

(* Without its last frame a stack has the rows that only this one deleted,   *)
(* and lacks the ones that only it added.                                    *)
LEMMA DropLast ==
    ASSUME NEW fs \in Seq(RT!Frame), Len(fs) > 1, NEW gs \in Seq(RT!Frame),
           Len(gs) = Len(fs) - 1, \A i \in 1 .. Len(fs) - 1 : gs[i] = fs[i],
           NEW r \in RT!Overlay({}, fs), r \notin fs[Len(fs)].adds
    PROVE  r \in RT!Overlay({}, gs)
<1> DEFINE n == Len(fs)
<1>0. n \in Nat
  OBVIOUS
<1>2. r \in Rows /\ \E i \in 1 .. n : /\ r \in fs[i].adds
                                     /\ \A j \in i + 1 .. n : r \notin fs[j].dels
  BY OverlayRow
<1>3. PICK i \in 1 .. n : r \in fs[i].adds /\ \A j \in i + 1 .. n : r \notin fs[j].dels
  BY <1>2
<1>4. i # n /\ i \in 1 .. Len(gs) /\ r \in gs[i].adds
  BY <1>0, <1>3
<1>5. \A j \in i + 1 .. Len(gs) : r \notin gs[j].dels
  BY <1>0, <1>3, <1>4
<1> QED BY <1>2, <1>4, <1>5, OverlayRow

-----------------------------------------------------------------------------
(* Steps of a repository *)

(* A caller's frames become gs, whose rows were its own or nobody's.         *)
LEMMA FramesKeep ==
    ASSUME TxInv, NEW c \in Lone, NEW gs \in Seq(RT!Frame), Len(gs) <= MaxDepth,
           frames' = [frames EXCEPT ![c] = gs], UNCHANGED <<master, replica>>,
           snap' \in [Lone -> SUBSET Rows], meant' \in [Lone -> SUBSET Rows], \A d \in Lone \ {c} : meant'[d] = meant[d],
           \A i \in 1 .. Len(gs) : \A r \in gs[i].adds :
              \/ AddedBy(c, r)
              \/ r \notin master \cup replica /\ \A d \in Lone : ~ AddedBy(d, r),
           meant'[c] \subseteq RT!Overlay({}, gs)
    PROVE  TxInv'
<1>1. frames'[c] = gs /\ DOMAIN frames' = Lone /\ \A d \in Lone \ {c} : frames'[d] = frames[d]
  BY DEF TxInv
<1>2. RT!TypeOK'
  BY <1>1 DEF TxInv, RT!TypeOK
<1>3. \A r \in Rows : AddedBy(c, r)' => \/ AddedBy(c, r)
                                       \/ /\ r \notin master \cup replica
                                          /\ \A d \in Lone : ~ AddedBy(d, r)
  BY <1>1 DEF AddedBy
<1>4. \A d \in Lone \ {c}, r \in Rows : AddedBy(d, r)' <=> AddedBy(d, r)
  BY <1>1 DEF AddedBy
<1>5. RowsApart'
  BY <1>3, <1>4 DEF TxInv, RowsApart
<1>6. MeantIsThere'
  BY <1>1 DEF TxInv, MeantIsThere
<1> QED BY <1>1, <1>2, <1>5, <1>6 DEF TxInv

(* The committed rows change: none of them was added in a transaction.       *)
LEMMA MasterKeeps ==
    ASSUME TxInv, UNCHANGED <<frames, snap, meant>>, master' \subseteq Rows, replica' \subseteq Rows,
           \A r \in master' \cup replica' : r \in master \cup replica \/ \A c \in Lone : ~ AddedBy(c, r)
    PROVE  TxInv'
<1>1. RT!TypeOK' /\ MeantIsThere' /\ DOMAIN frames' = Lone
  BY DEF TxInv, RT!TypeOK, MeantIsThere
<1>2. \A c \in Lone, r \in Rows : AddedBy(c, r)' <=> AddedBy(c, r)
  BY DEF AddedBy
<1>3. RowsApart'
  BY <1>2 DEF TxInv, RowsApart
<1> QED BY <1>1, <1>3 DEF TxInv

LEMMA TxTypes ==
    ASSUME TxInv, NEW c \in Lone
    PROVE  /\ frames[c] \in Seq(RT!Frame) /\ Len(frames[c]) \in Nat /\ Len(frames[c]) <= MaxDepth
           /\ DOMAIN frames[c] = 1 .. Len(frames[c]) /\ DOMAIN frames = Lone
           /\ meant \in [Lone -> SUBSET Rows] /\ master \subseteq Rows /\ replica \subseteq Rows
           /\ \A i \in 1 .. Len(frames[c]) : /\ frames[c][i] \in RT!Frame
                                            /\ frames[c][i].adds \subseteq Rows
           /\ meant[c] \subseteq RT!Overlay({}, frames[c])
<1>1. frames[c] \in Seq(RT!Frame) /\ Len(frames[c]) <= MaxDepth /\ DOMAIN frames = Lone
  BY DEF TxInv, RT!TypeOK
<1>2. \A i \in 1 .. Len(frames[c]) : frames[c][i] \in RT!Frame
  BY <1>1
<1> QED BY <1>1, <1>2 DEF TxInv, RT!TypeOK, RT!Frame, MeantIsThere

LEMMA FreshRow ==
    ASSUME RT!RepoAssumption, TxInv, NEW r \in Rows, RT!Fresh(r)
    PROVE  r \notin master \cup replica /\ \A c \in Lone : ~ AddedBy(c, r)
BY TxTypes DEF RT!Fresh, AddedBy

LEMMA BeginKeeps ==
    ASSUME RT!RepoAssumption, TxInv, NEW c \in Lone, NEW h, RT!Begin(c, h) PROVE TxInv'
<1> DEFINE fs == frames[c]
           gs == Append(fs, RT!EmptyFrame)
<1>0. /\ fs \in Seq(RT!Frame) /\ Len(fs) < MaxDepth /\ Len(fs) \in Nat /\ MaxDepth \in Nat
      /\ meant \in [Lone -> SUBSET Rows] /\ frames' = [frames EXCEPT ![c] = gs]
      /\ UNCHANGED <<master, replica>>
  BY TxTypes DEF RT!Begin, RT!RepoAssumption
<1>1. RT!EmptyFrame \in RT!Frame /\ RT!EmptyFrame.adds = {} /\ RT!EmptyFrame.dels = {}
  BY DEF RT!Frame, RT!EmptyFrame
<1>2. /\ gs \in Seq(RT!Frame) /\ Len(gs) = Len(fs) + 1 /\ Len(gs) <= MaxDepth
      /\ gs[Len(fs) + 1] = RT!EmptyFrame /\ \A i \in 1 .. Len(fs) : gs[i] = fs[i]
  BY <1>0, <1>1
<1>3. \A i \in 1 .. Len(gs) : \A r \in gs[i].adds : AddedBy(c, r)
  <2> SUFFICES ASSUME NEW i \in 1 .. Len(gs), NEW r \in gs[i].adds PROVE AddedBy(c, r)
    OBVIOUS
  <2>1. i \in 1 .. Len(fs)
    BY <1>0, <1>1, <1>2
  <2> QED BY <1>2, <2>1 DEF AddedBy
<1>4. /\ snap' \in [Lone -> SUBSET Rows] /\ meant' \in [Lone -> SUBSET Rows]
      /\ \A d \in Lone \ {c} : meant'[d] = meant[d]
      /\ meant'[c] = {} \/ meant'[c] = meant[c]
  BY <1>0 DEF RT!Begin, TxInv, RT!TypeOK
<1>5. \A r \in meant[c] : r \in RT!Overlay({}, gs)
  <2> SUFFICES ASSUME NEW r \in meant[c] PROVE r \in RT!Overlay({}, gs)
    OBVIOUS
  <2>1. r \in RT!Overlay({}, fs)
    BY TxTypes
  <2>2. r \in Rows /\ \E i \in 1 .. Len(fs) : /\ r \in fs[i].adds
                                             /\ \A j \in i + 1 .. Len(fs) : r \notin fs[j].dels
    BY <1>0, <2>1, OverlayRow
  <2>3. \E i \in 1 .. Len(gs) : /\ r \in gs[i].adds
                                /\ \A j \in i + 1 .. Len(gs) : r \notin gs[j].dels
    <3>1. PICK i \in 1 .. Len(fs) : /\ r \in fs[i].adds
                                    /\ \A j \in i + 1 .. Len(fs) : r \notin fs[j].dels
      BY <2>2
    <3>2. i \in 1 .. Len(gs) /\ gs[i] = fs[i]
      BY <1>1, <1>2
    <3>3. ASSUME NEW j \in i + 1 .. Len(gs) PROVE r \notin gs[j].dels
      <4>1. CASE j = Len(fs) + 1
        <5>1. RT!EmptyFrame.dels = {}
          BY DEF RT!EmptyFrame
        <5> QED BY <1>2, <4>1, <5>1, Zenon
      <4>2. CASE j # Len(fs) + 1
        <5>1. j \in i + 1 .. Len(fs) /\ j \in 1 .. Len(fs)
          BY <1>1, <1>2, <4>2
        <5> QED BY <1>2, <3>1, <5>1
      <4> QED BY <4>1, <4>2
    <3> QED BY <3>1, <3>2, <3>3
  <2> QED BY <1>2, <2>2, <2>3, OverlayRow
<1>6. meant'[c] \subseteq RT!Overlay({}, gs)
  BY <1>4, <1>5
<1> QED BY <1>0, <1>2, <1>3, <1>4, <1>6, FramesKeep

LEMMA OneOrMore ==
    ASSUME NEW n \in Nat, n > 0
    PROVE  n = 1 \/ (n # 1 /\ n > 1 /\ n \in 1 .. n /\ n - 1 \in 1 .. n /\ n - 2 \in Nat)
OBVIOUS

LEMMA CommitKeeps ==
    ASSUME RT!RepoAssumption, TxInv, NEW c \in Lone, RT!Commit(c) PROVE TxInv'
<1> DEFINE fs == frames[c]
           n == Len(fs)
<1>0. fs \in Seq(RT!Frame) /\ n \in Nat /\ n > 0 /\ n <= MaxDepth /\ MaxDepth \in Nat
  BY TxTypes DEF RT!Commit, RT!RepoAssumption
<1>1. CASE n = 1
  <2>1. /\ master' = (master \ fs[1].dels) \cup fs[1].adds /\ frames' = [frames EXCEPT ![c] = <<>>]
        /\ meant' = [meant EXCEPT ![c] = {}] /\ UNCHANGED <<replica, snap>>
    BY <1>1 DEF RT!Commit, RT!Apply
  <2>2. /\ frames'[c] = <<>> /\ meant'[c] = {} /\ DOMAIN frames' = Lone
        /\ \A d \in Lone \ {c} : frames'[d] = frames[d] /\ meant'[d] = meant[d]
    BY <2>1, TxTypes
  <2>3. \A r \in fs[1].adds : r \in Rows /\ AddedBy(c, r)
    BY <1>1, TxTypes DEF AddedBy
  <2>4. RT!TypeOK'
    BY <1>0, <2>1, <2>2, <2>3 DEF TxInv, RT!TypeOK
  <2>5. \A d \in Lone, r \in Rows : AddedBy(d, r)' => d # c /\ AddedBy(d, r)
    BY <2>2 DEF AddedBy
  <2>6. RowsApart'
    BY <2>1, <2>3, <2>5 DEF TxInv, RowsApart
  <2>7. MeantIsThere'
    BY <2>2 DEF TxInv, MeantIsThere
  <2> QED BY <2>2, <2>4, <2>6, <2>7 DEF TxInv
<1>2. CASE n # 1 /\ n > 1 /\ n \in 1 .. n /\ n - 1 \in 1 .. n /\ n - 2 \in Nat
  <2> DEFINE gs == Append(SubSeq(fs, 1, n - 2), RT!Merge(fs[n - 1], fs[n]))
  <2>1. frames' = [frames EXCEPT ![c] = gs] /\ UNCHANGED <<master, replica, snap, meant>>
    BY <1>2 DEF RT!Commit
  <2>2. /\ fs[n] \in RT!Frame /\ fs[n - 1] \in RT!Frame /\ n - 1 \in 1 .. n
        /\ RT!Merge(fs[n - 1], fs[n]) \in RT!Frame
        /\ RT!Merge(fs[n - 1], fs[n]).adds \subseteq fs[n - 1].adds \cup fs[n].adds
    <3>1. fs[n] \in RT!Frame /\ fs[n - 1] \in RT!Frame
      BY <1>0, <1>2
    <3> QED BY <1>2, <3>1, MergeFields
  <2>3. /\ gs \in Seq(RT!Frame) /\ Len(gs) = n - 1 /\ gs[n - 1] = RT!Merge(fs[n - 1], fs[n])
        /\ \A i \in 1 .. n - 2 : gs[i] = fs[i]
    <3>1. /\ SubSeq(fs, 1, n - 2) \in Seq(RT!Frame) /\ Len(SubSeq(fs, 1, n - 2)) = n - 2
          /\ \A i \in 1 .. n - 2 : SubSeq(fs, 1, n - 2)[i] = fs[i]
      <4>1. \A i \in 1 .. n - 2 : i \in 1 .. n
        BY <1>0
      <4>2. fs \in Seq(RT!Frame) /\ n = Len(fs) /\ n - 2 \in 0 .. Len(fs)
        BY <1>0, <1>2
      <4> HIDE DEF fs, n
      <4> QED BY <4>1, <4>2, SubSeqProperties
    <3> QED BY <1>0, <1>2, <2>2, <3>1
  <2> HIDE DEF gs
  <2>4. \A i \in 1 .. Len(gs) : \A r \in gs[i].adds : AddedBy(c, r)
    <3> SUFFICES ASSUME NEW i \in 1 .. Len(gs), NEW r \in gs[i].adds PROVE AddedBy(c, r)
      OBVIOUS
    <3>1. CASE i = n - 1
      BY <1>0, <1>2, <2>2, <2>3, <3>1 DEF AddedBy
    <3>2. CASE i # n - 1
      <4>1. i \in 1 .. n - 2 /\ i \in 1 .. n
        BY <1>0, <2>3, <3>2
      <4> QED BY <2>3, <4>1 DEF AddedBy
    <3> QED BY <3>1, <3>2
  <2>5. meant[c] \subseteq RT!Overlay({}, fs)
    BY TxTypes
  <2>6. \A r \in RT!Overlay({}, fs) : r \in RT!Overlay({}, gs)
    <3> HIDE DEF fs
    <3> QED BY <1>0, <1>2, <2>3, MergeTopTwo
  <2>7. /\ meant' \in [Lone -> SUBSET Rows] /\ snap' \in [Lone -> SUBSET Rows]
        /\ meant'[c] \subseteq RT!Overlay({}, gs) /\ Len(gs) <= MaxDepth
    BY <1>0, <2>1, <2>3, <2>5, <2>6 DEF TxInv, RT!TypeOK
  <2> QED BY <2>1, <2>3, <2>4, <2>7, FramesKeep
<1> QED BY <1>0, <1>1, <1>2, OneOrMore

LEMMA RollbackKeeps ==
    ASSUME RT!RepoAssumption, TxInv, NEW c \in Lone, RT!Rollback(c) PROVE TxInv'
<1> DEFINE fs == frames[c]
           n == Len(fs)
           gs == SubSeq(fs, 1, n - 1)
           after == IF n = 1 THEN {}
                    ELSE (meant[c] \ fs[n].adds) \cup (fs[n].dels \cap RT!Overlay({}, gs))
<1>0. fs \in Seq(RT!Frame) /\ n \in Nat /\ n > 0 /\ n <= MaxDepth /\ MaxDepth \in Nat
  BY TxTypes DEF RT!Rollback, RT!RepoAssumption
<1>1. /\ frames' = [frames EXCEPT ![c] = gs] /\ meant' = [meant EXCEPT ![c] = after]
      /\ UNCHANGED <<master, replica, snap>>
  BY DEF RT!Rollback
<1>2. gs \in Seq(RT!Frame) /\ Len(gs) = n - 1 /\ \A i \in 1 .. n - 1 : gs[i] = fs[i]
  BY <1>0
<1> HIDE DEF gs
<1>3. ASSUME NEW i \in 1 .. Len(gs), NEW r \in gs[i].adds PROVE AddedBy(c, r)
  <2>1. i \in 1 .. n /\ i \in 1 .. n - 1
    BY <1>0, <1>2
  <2>2. r \in fs[i].adds
    BY <1>2, <2>1
  <2> QED BY <2>1, <2>2, Zenon DEF AddedBy
<1>4. \A r \in after : r \in RT!Overlay({}, gs)
  <2> SUFFICES ASSUME NEW r \in after, n # 1 PROVE r \in RT!Overlay({}, gs)
    OBVIOUS
  <2>1. CASE r \in meant[c] /\ r \notin fs[n].adds
    <3>1. r \in RT!Overlay({}, fs)
      BY <2>1, TxTypes
    <3>2. Len(fs) > 1
      BY <1>0, OneOrMore
    <3> QED BY <1>0, <1>2, <2>1, <3>1, <3>2, DropLast
  <2> QED BY <2>1
<1>5. after \subseteq Rows
  BY <1>2, <1>4, OverlayRow
<1> HIDE DEF after
<1>6. meant \in [Lone -> SUBSET Rows] /\ snap \in [Lone -> SUBSET Rows]
  BY DEF TxInv, RT!TypeOK
<1>7. /\ meant' \in [Lone -> SUBSET Rows] /\ snap' \in [Lone -> SUBSET Rows]
      /\ meant'[c] = after /\ \A d \in Lone \ {c} : meant'[d] = meant[d]
  BY <1>1, <1>5, <1>6
<1>8. Len(gs) <= MaxDepth /\ meant'[c] \subseteq RT!Overlay({}, gs)
  BY <1>0, <1>2, <1>4, <1>7
<1> QED BY <1>1, <1>2, <1>3, <1>7, <1>8, FramesKeep

(* Create and Delete in a transaction: a frame merged into the last one.     *)
LEMMA TxWriteKeeps ==
    ASSUME RT!RepoAssumption, TxInv, NEW c \in Lone, Len(frames[c]) > 0,
           NEW add \in SUBSET Rows, NEW del \in SUBSET Rows,
           \A r \in add : r \notin master \cup replica /\ \A d \in Lone : ~ AddedBy(d, r),
           frames' = [frames EXCEPT ![c][Len(frames[c])]
                        = RT!Merge(@, [adds |-> add, dels |-> del])],
           meant' = [meant EXCEPT ![c] = (@ \ del) \cup add], UNCHANGED <<master, replica, snap>>
    PROVE  TxInv'
<1> DEFINE fs == frames[c]
           n == Len(fs)
           g == [adds |-> add, dels |-> del]
           gs == [fs EXCEPT ![n] = RT!Merge(fs[n], g)]
<1>0. fs \in Seq(RT!Frame) /\ n \in Nat /\ n > 0 /\ n <= MaxDepth /\ fs[n] \in RT!Frame
  BY TxTypes
<1>1. g \in RT!Frame /\ g.adds = add /\ g.dels = del
  BY DEF RT!Frame
<1>2. /\ RT!Merge(fs[n], g) \in RT!Frame
      /\ RT!Merge(fs[n], g).adds = (fs[n].adds \ del) \cup add
  BY <1>0, <1>1, MergeFields
<1>3. frames' = [frames EXCEPT ![c] = gs]
  BY TxTypes
<1>4. /\ gs \in Seq(RT!Frame) /\ Len(gs) = n /\ gs[n] = RT!Merge(fs[n], g)
      /\ \A i \in 1 .. n - 1 : gs[i] = fs[i]
  BY <1>0, <1>2
<1> HIDE DEF gs, g
<1>5. \A i \in 1 .. Len(gs) : \A r \in gs[i].adds : AddedBy(c, r) \/ r \in add
  <2> SUFFICES ASSUME NEW i \in 1 .. Len(gs), NEW r \in gs[i].adds PROVE AddedBy(c, r) \/ r \in add
    OBVIOUS
  <2>1. r \in fs[i].adds \/ r \in add
    BY <1>0, <1>2, <1>4
  <2> QED BY <1>4, <2>1 DEF AddedBy
<1>6. meant'[c] = (meant[c] \ del) \cup add /\ meant' \in [Lone -> SUBSET Rows]
      /\ \A d \in Lone \ {c} : meant'[d] = meant[d]
  BY TxTypes
<1>7. \A r \in meant'[c] : r \in RT!Overlay({}, gs)
  <2> SUFFICES ASSUME NEW r \in meant'[c] PROVE r \in RT!Overlay({}, gs)
    OBVIOUS
  <2>1. \/ r \in RT!Overlay({}, fs) /\ r \notin g.dels
        \/ r \in Rows /\ r \in g.adds
    BY <1>1, <1>6, TxTypes
  <2> QED BY <1>0, <1>1, <1>4, <2>1, MergeIntoLast
<1>8. snap' \in [Lone -> SUBSET Rows] /\ Len(gs) <= MaxDepth /\ meant'[c] \subseteq RT!Overlay({}, gs)
  BY <1>0, <1>4, <1>7 DEF TxInv, RT!TypeOK
<1> QED BY <1>3, <1>4, <1>5, <1>6, <1>8, FramesKeep

LEMMA TxStep == ASSUME RT!RepoAssumption, TxInv, [RT!Next]_(RT!vars) PROVE TxInv'
<1>1. CASE UNCHANGED RT!vars
  BY <1>1, MasterKeeps, TxTypes DEF RT!vars, TxInv, RT!TypeOK
<1>2. CASE RT!Replicate
  BY <1>2, MasterKeeps DEF RT!Replicate, TxInv, RT!TypeOK
<1>3. ASSUME NEW r \in Rows, RT!OthersWrite(r) PROVE TxInv'
  <2>1. /\ UNCHANGED <<replica, frames, snap, meant>> /\ master' \subseteq master \cup {r}
        /\ r \in master \/ RT!Fresh(r)
    BY <1>3 DEF RT!OthersWrite
  <2> QED BY <2>1, FreshRow, MasterKeeps DEF TxInv, RT!TypeOK
<1>4. ASSUME NEW c \in Lone, NEW h \in RT!Handles, NEW r \in Rows, RT!Create(c, h, r) PROVE TxInv'
  <2>0. r \notin master \cup replica /\ \A d \in Lone : ~ AddedBy(d, r)
    BY <1>4, FreshRow DEF RT!Create
  <2>1. CASE RT!Joins(c, h)
    <3>1. /\ Len(frames[c]) > 0 /\ UNCHANGED <<master, replica, snap>>
          /\ frames' = [frames EXCEPT ![c][Len(frames[c])]
                          = RT!Merge(@, [adds |-> {r}, dels |-> {}])]
          /\ meant' = [meant EXCEPT ![c] = @ \cup {r}]
      BY <1>4, <2>1, TxTypes DEF RT!Create, RT!Write, RT!WriteConn, RT!Joins
    <3>2. meant' = [meant EXCEPT ![c] = (@ \ {}) \cup {r}]
      BY <3>1
    <3>3. {r} \in SUBSET Rows /\ {} \in SUBSET Rows
      OBVIOUS
    <3>4. \A x \in {r} : x \notin master \cup replica /\ \A d \in Lone : ~ AddedBy(d, x)
      BY <2>0
    <3> QED BY <3>1, <3>2, <3>3, <3>4, TxWriteKeeps
  <2>2. CASE ~ RT!Joins(c, h)
    <3>1. UNCHANGED <<replica, frames, snap, meant>> /\ master' = master \cup {r}
      BY <1>4, <2>2 DEF RT!Create, RT!Write, RT!WriteConn
    <3> QED BY <2>0, <3>1, MasterKeeps DEF TxInv, RT!TypeOK
  <2> QED BY <2>1, <2>2
<1>5. ASSUME NEW c \in Lone, NEW h \in RT!Handles, NEW r \in Rows, RT!Delete(c, h, r) PROVE TxInv'
  <2>1. CASE RT!Joins(c, h)
    <3>1. /\ Len(frames[c]) > 0 /\ UNCHANGED <<master, replica, snap>>
          /\ frames' = [frames EXCEPT ![c][Len(frames[c])]
                          = RT!Merge(@, [adds |-> {}, dels |-> {r}])]
          /\ meant' = [meant EXCEPT ![c] = @ \ {r}]
      BY <1>5, <2>1, TxTypes DEF RT!Delete, RT!Write, RT!WriteConn, RT!Joins
    <3>2. meant' = [meant EXCEPT ![c] = (@ \ {r}) \cup {}]
      BY <3>1
    <3>3. {r} \in SUBSET Rows /\ {} \in SUBSET Rows
      OBVIOUS
    <3> QED BY <3>1, <3>2, <3>3, TxWriteKeeps
  <2>2. CASE ~ RT!Joins(c, h)
    <3>1. UNCHANGED <<replica, frames, snap, meant>> /\ master' = master \ {r}
      BY <1>5, <2>2 DEF RT!Delete, RT!Write, RT!WriteConn
    <3> QED BY <3>1, MasterKeeps DEF TxInv, RT!TypeOK
  <2> QED BY <2>1, <2>2
<1>6. ASSUME NEW c \in Lone, \/ RT!PageList(c) \/ RT!PageReturns(c)
                             \/ \E h, mode, p, s : RT!PageCount(c, h, mode, p, s)
      PROVE  TxInv'
  <2>1. UNCHANGED <<master, replica, frames, snap, meant>>
    BY <1>6 DEF RT!PageList, RT!PageReturns, RT!PageCount
  <2> QED BY <2>1, MasterKeeps DEF TxInv, RT!TypeOK
<1> QED BY <1>1, <1>2, <1>3, <1>4, <1>5, <1>6, BeginKeeps, CommitKeeps, RollbackKeeps DEF RT!Next

(* What is created through a transaction, at any depth and by any of the     *)
(* handles that join it, is committed with it and never before; and every    *)
(* read that joins the transaction has it.                                   *)
THEOREM TransactionsStayWhole ==
    RT!RepoAssumption /\ RT!Spec
        => [](RT!TypeOK /\ RT!TransactionsAreWhole /\ RT!ReadsSeeOwnWrites)
<1> SUFFICES ASSUME RT!RepoAssumption
             PROVE  RT!Spec => [](RT!TypeOK /\ RT!TransactionsAreWhole /\ RT!ReadsSeeOwnWrites)
  OBVIOUS
<1>1. TxInv => RT!TypeOK /\ RT!TransactionsAreWhole /\ RT!ReadsSeeOwnWrites
  <2> SUFFICES ASSUME TxInv PROVE RT!TransactionsAreWhole /\ RT!ReadsSeeOwnWrites
    BY DEF TxInv
  <2>1. ASSUME NEW c \in Lone, NEW r \in meant[c]
        PROVE  r \notin master \cup replica /\ r \in RT!View(c, "tx")
    <3>1. r \in RT!Overlay({}, frames[c]) /\ frames[c] \in Seq(RT!Frame)
      BY TxTypes
    <3>2. r \in Rows /\ AddedBy(c, r) /\ r \in RT!Overlay(RT!Base(c), frames[c])
      BY <3>1, OverlayRow DEF AddedBy
    <3> QED BY <3>2 DEF TxInv, RowsApart, RT!View
  <2>2. RT!TransactionsAreWhole
    BY <2>1 DEF RT!TransactionsAreWhole
  <2>3. RT!ReadsSeeOwnWrites
    BY <2>1 DEF RT!ReadsSeeOwnWrites, RT!FindWhere, RT!ReadConn
  <2> QED BY <2>2, <2>3
<1>2. RT!Init => TxInv
  BY TxInit
<1>3. TxInv /\ [RT!Next]_(RT!vars) => TxInv'
  BY TxStep
<1> QED BY <1>1, <1>2, <1>3, PTL DEF RT!Spec

-----------------------------------------------------------------------------
(* RouteRegistry *)

Distinct(seq) == \A i, j \in 1 .. Len(seq) : seq[i] = seq[j] => i = j
Has(seq, x) == \E i \in 1 .. Len(seq) : seq[i] = x

(* What was accepted is registered, each middleware and module once.         *)
Registered ==
    /\ use \in Seq(Middlewares) /\ modules \in Seq(Modules) /\ Distinct(use)
    /\ \A m \in Middlewares : m \in accepted <=> Has(use, m)
    /\ \A m \in Modules : m \in accepted <=> Has(modules, m)
    /\ metrics = {Metrics} \cap accepted

(* One Apply takes the snapshot and registers it; nothing is accepted any    *)
(* more from the snapshot on.                                                *)
AppliedByOne ==
    /\ DOMAIN routePc = Clients
    /\ applied \in BOOLEAN /\ broken \in BOOLEAN /\ applyOnce \in {"new", "doing", "done"}
    /\ \A c \in Clients :
          /\ routePc[c] \in {"snapshot", "apply"} =>
                applyOnce = "doing" /\ \A d \in Clients : routePc[d] \in {"snapshot", "apply"} => d = c
          /\ routePc[c] = "snapshot" => ~ applied
          /\ routePc[c] = "apply" => applied
          /\ routePc[c] = "applied" => applyOnce = "done"
    /\ applyOnce = "new" => ~ applied
    /\ applyOnce = "done" => applied /\ (~ broken => todo = <<>>)
    /\ broken => applyOnce = "done"

(* The engine has a beginning of the middlewares, and no route without all.  *)
Begun ==
    /\ used \in Seq(Middlewares \cup {Metrics})
    /\ ~ applied => used = <<>> /\ routes = {}
    /\ applied => /\ Len(used) <= Len(RR!InFront)
                  /\ \A i \in 1 .. Len(used) : used[i] = RR!InFront[i]
                  /\ routes # {} => Len(used) = Len(RR!InFront)
                  /\ \A r \in routes : r[2] = RR!InFront

(* The rest of the snapshot is what the engine does not have: middlewares    *)
(* until all are in use, then modules.                                       *)
Done == Len(RR!Snapshot) - Len(todo)
RestOfSnapshot ==
    applied /\ ~ broken =>
        /\ todo \in Seq(Middlewares \cup {Metrics} \cup Modules) /\ Len(todo) <= Len(RR!Snapshot)
        /\ \A i \in 1 .. Len(todo) : todo[i] = RR!Snapshot[Done + i]
        /\ Len(used) = IF Done <= Len(RR!InFront) THEN Done ELSE Len(RR!InFront)
        /\ \A i \in 1 .. Len(modules) : i + Len(RR!InFront) <= Done => \E r \in routes : r[1] = modules[i]

RegistryInv == Registered /\ AppliedByOne /\ Begun /\ RestOfSnapshot

LEMMA RegistryInit == ASSUME RR!RegistryAssumption, RR!Init PROVE RegistryInv
<1>1. use = <<>> /\ modules = <<>> /\ used = <<>> /\ Len(use) = 0 /\ Len(modules) = 0 /\ Len(used) = 0
      /\ routes = {} /\ accepted = {} /\ metrics = {} /\ applied = FALSE
  BY DEF RR!Init
<1>2. Registered
  BY <1>1 DEF Registered, Distinct, Has
<1>3. Len(RR!InFront) = 0
  BY <1>1 DEF RR!InFront
<1>4. AppliedByOne
  BY DEF RR!Init, AppliedByOne
<1> QED BY <1>1, <1>2, <1>3, <1>4 DEF RegistryInv, Begun, RestOfSnapshot

(* The middlewares in front, and the snapshot that begins with them.         *)
LEMMA InFrontFacts ==
    ASSUME RR!RegistryAssumption, Registered
    PROVE  /\ RR!InFront \in Seq(Middlewares \cup {Metrics}) /\ Len(RR!InFront) \in Nat
           /\ Distinct(RR!InFront)
           /\ \A x \in Middlewares \cup {Metrics} : x \in accepted <=> Has(RR!InFront, x)
           /\ Metrics \in accepted => Len(RR!InFront) > 0 /\ RR!InFront[1] = Metrics
<1> USE DEF Registered, Distinct, Has
<1>1. Metrics \notin Middlewares
  BY DEF RR!RegistryAssumption
<1>2. CASE Metrics \notin accepted
  <2>1. RR!InFront = use
    BY <1>2 DEF RR!InFront
  <2> QED BY <1>1, <1>2, <2>1
<1>3. CASE Metrics \in accepted
  <2> DEFINE f == <<Metrics>> \o use
  <2>1. RR!InFront = f
    BY <1>3 DEF RR!InFront
  <2>2. /\ f \in Seq(Middlewares \cup {Metrics}) /\ Len(f) = Len(use) + 1 /\ f[1] = Metrics
        /\ \A i \in 1 .. Len(use) : f[i + 1] = use[i]
        /\ Len(use) \in Nat /\ \A i \in 1 .. Len(use) : use[i] \in Middlewares
    OBVIOUS
  <2> HIDE DEF f
  <2>3. \A i \in 1 .. Len(f) : i = 1 \/ (i - 1 \in 1 .. Len(use) /\ f[i] = use[i - 1])
    BY <2>2
  <2>4. Distinct(f)
    <3> SUFFICES ASSUME NEW i \in 1 .. Len(f), NEW j \in 1 .. Len(f), f[i] = f[j] PROVE i = j
      OBVIOUS
    <3>1. CASE i = 1
      BY <1>1, <2>2, <2>3, <3>1
    <3>2. CASE j = 1
      BY <1>1, <2>2, <2>3, <3>2
    <3>3. CASE i # 1 /\ j # 1
      <4>1. use[i - 1] = use[j - 1] /\ i - 1 \in 1 .. Len(use) /\ j - 1 \in 1 .. Len(use)
        BY <2>3, <3>3
      <4>2. i - 1 = j - 1
        BY <4>1
      <4> QED BY <2>2, <4>2
    <3> QED BY <3>1, <3>2, <3>3
  <2>5. ASSUME NEW x \in Middlewares \cup {Metrics} PROVE x \in accepted <=> Has(f, x)
    <3>1. CASE x = Metrics
      BY <1>3, <2>2, <3>1
    <3>2. CASE x # Metrics
      <4>1. Has(f, x) <=> Has(use, x)
        <5>1. ASSUME NEW i \in 1 .. Len(f), f[i] = x PROVE Has(use, x)
          BY <2>2, <2>3, <3>2, <5>1
        <5>2. ASSUME NEW i \in 1 .. Len(use), use[i] = x PROVE Has(f, x)
          <6>1. i + 1 \in 1 .. Len(f) /\ f[i + 1] = x
            BY <2>2, <5>2
          <6> QED BY <6>1
        <5> QED BY <5>1, <5>2
      <4> QED BY <3>2, <4>1
    <3> QED BY <3>1, <3>2
  <2> QED BY <2>1, <2>2, <2>4, <2>5
<1> QED BY <1>2, <1>3

LEMMA SnapshotFacts ==
    ASSUME RR!RegistryAssumption, Registered
    PROVE  /\ RR!Snapshot \in Seq(Middlewares \cup {Metrics} \cup Modules)
           /\ Len(modules) \in Nat /\ Len(RR!Snapshot) = Len(RR!InFront) + Len(modules)
           /\ \A i \in 1 .. Len(RR!InFront) : /\ RR!Snapshot[i] = RR!InFront[i]
                                             /\ RR!Snapshot[i] \in Middlewares \cup {Metrics}
           /\ \A i \in 1 .. Len(modules) : /\ RR!Snapshot[Len(RR!InFront) + i] = modules[i]
                                          /\ modules[i] \in Modules
<1>1. RR!InFront \in Seq(Middlewares \cup {Metrics})
  BY InFrontFacts
<1>2. modules \in Seq(Modules)
  BY DEF Registered
<1>3. /\ RR!InFront \in Seq(Middlewares \cup {Metrics} \cup Modules)
      /\ modules \in Seq(Middlewares \cup {Metrics} \cup Modules)
  BY <1>1, <1>2
<1> QED BY <1>1, <1>2, <1>3 DEF RR!Snapshot

(* A registration, before anything was applied.                              *)
LEMMA RegistrationKeeps ==
    ASSUME RR!RegistryAssumption, RegistryInv, Registered', ~ applied,
           UNCHANGED <<applied, applyOnce, routePc, todo, used, routes, broken>>
    PROVE  RegistryInv'
<1>1. AppliedByOne'
  BY DEF RegistryInv, AppliedByOne
<1> QED BY <1>1 DEF RegistryInv, Begun, RestOfSnapshot

LEMMA RegisterKeeps ==
    ASSUME RR!RegistryAssumption, RegistryInv, NEW c \in Clients,
           \/ \E m \in Middlewares : RR!Use(c, m)
           \/ \E m \in Modules : RR!RegisterModule(c, m)
           \/ \E v \in Versions : RR!RegisterVersion(c, v)
           \/ RR!SetMetricsMiddleware(c)
    PROVE  RegistryInv'
<1>0. /\ ~ applied /\ UNCHANGED <<applied, applyOnce, routePc, todo, used, routes, broken>>
      /\ Registered
  BY DEF RR!Use, RR!RegisterModule, RR!RegisterVersion, RR!SetMetricsMiddleware, RR!Registering,
         RR!LockForMutation, RR!snapshot, RR!engine, RegistryInv
<1> USE DEF Registered, Distinct, Has, RR!Accept, RR!Registering
<1>1. ASSUME NEW m \in Middlewares, RR!Use(c, m) PROVE Registered'
  <2>1. /\ use' = Append(use, m) /\ m \notin accepted /\ accepted' = accepted \cup {m}
        /\ UNCHANGED <<metrics, modules>> /\ m # Metrics /\ m \notin Modules
    BY <1>1 DEF RR!Use, RR!RegistryAssumption
  <2>2. /\ use' \in Seq(Middlewares) /\ Len(use') = Len(use) + 1 /\ Len(use) \in Nat
        /\ use'[Len(use) + 1] = m /\ \A i \in 1 .. Len(use) : use'[i] = use[i]
    BY <1>0, <2>1
  <2>3. \A i \in 1 .. Len(use') : i \in 1 .. Len(use) \/ i = Len(use) + 1
    BY <2>2
  <2>4. Distinct(use')
    BY <1>0, <2>1, <2>2, <2>3
  <2>5. \A x \in Middlewares : x \in accepted' <=> Has(use', x)
    BY <1>0, <2>1, <2>2, <2>3
  <2>6. \A x \in Modules : x \in accepted' <=> Has(modules', x)
    BY <1>0, <2>1
  <2> QED BY <1>0, <2>1, <2>2, <2>4, <2>5, <2>6
<1>2. ASSUME NEW m \in Modules, RR!RegisterModule(c, m) PROVE Registered'
  <2>1. /\ modules' = Append(modules, m) /\ accepted' = accepted \cup {m}
        /\ UNCHANGED <<metrics, use>> /\ m # Metrics /\ m \notin Middlewares
    BY <1>2 DEF RR!RegisterModule, RR!RegistryAssumption
  <2>2. /\ modules' \in Seq(Modules) /\ Len(modules') = Len(modules) + 1 /\ Len(modules) \in Nat
        /\ modules'[Len(modules) + 1] = m /\ \A i \in 1 .. Len(modules) : modules'[i] = modules[i]
    BY <1>0, <2>1
  <2>3. \A i \in 1 .. Len(modules') : i \in 1 .. Len(modules) \/ i = Len(modules) + 1
    BY <2>2
  <2>5. \A x \in Modules : x \in accepted' <=> Has(modules', x)
    BY <1>0, <2>1, <2>2, <2>3
  <2>6. \A x \in Middlewares : x \in accepted' <=> Has(use', x)
    BY <1>0, <2>1
  <2> QED BY <1>0, <2>1, <2>2, <2>5, <2>6
<1>3. ASSUME NEW v \in Versions, RR!RegisterVersion(c, v) PROVE Registered'
  <2>1. /\ accepted' = accepted \cup {v} /\ UNCHANGED <<use, metrics, modules>>
        /\ v \notin Middlewares /\ v \notin Modules /\ v # Metrics
    BY <1>3 DEF RR!RegisterVersion, RR!RegistryAssumption
  <2> QED BY <1>0, <2>1
<1>4. ASSUME RR!SetMetricsMiddleware(c) PROVE Registered'
  <2>1. /\ UNCHANGED <<use, modules>>
        /\ \/ metrics' = {Metrics} /\ accepted' = accepted \cup {Metrics}
           \/ metrics' = {} /\ accepted' = accepted \ {Metrics}
    BY <1>4 DEF RR!SetMetricsMiddleware
  <2>2. Metrics \notin Middlewares /\ Metrics \notin Modules
    BY DEF RR!RegistryAssumption
  <2> QED BY <1>0, <2>1, <2>2
<1> QED BY <1>0, <1>1, <1>2, <1>3, <1>4, RegistrationKeeps

(* All the middlewares are in use when as many are.                          *)
LEMMA AllInUse ==
    ASSUME RR!RegistryAssumption, RegistryInv, applied, Len(used) = Len(RR!InFront)
    PROVE  used = RR!InFront
<1>1. /\ RR!InFront \in Seq(Middlewares \cup {Metrics}) /\ used \in Seq(Middlewares \cup {Metrics})
      /\ \A i \in 1 .. Len(used) : used[i] = RR!InFront[i]
  BY InFrontFacts DEF RegistryInv, Begun
<1> QED BY <1>1, SeqEqual

(* A call that waits, or does not come near the snapshot.                    *)
LEMMA BesideKeeps ==
    ASSUME RR!RegistryAssumption, RegistryInv, NEW c \in Clients,
           \/ \E v \in Versions, m \in Modules : RR!AddModuleReads(c, v, m)
           \/ RR!AddModuleStores(c) \/ RR!ApplyOnce(c) \/ RR!ApplyWaited(c) \/ RR!Return(c)
    PROVE  RegistryInv'
<1> USE DEF RegistryInv, RR!AddModuleReads, RR!AddModuleStores, RR!ApplyOnce, RR!ApplyWaited, RR!Return
<1>1. UNCHANGED <<use, metrics, modules, applied, todo, used, routes, accepted, broken>>
  BY DEF RR!registry, RR!snapshot, RR!engine
<1>2. UNCHANGED RR!InFront /\ UNCHANGED RR!Snapshot
  BY <1>1 DEF RR!InFront, RR!Snapshot
<1>3. Registered' /\ Begun' /\ RestOfSnapshot'
  BY <1>1, <1>2 DEF Registered, Begun, RestOfSnapshot, Done
<1>4. AppliedByOne'
  BY <1>1 DEF AppliedByOne, RR!Goto, RR!OnceOver
<1> QED BY <1>3, <1>4

LEMMA ApplyOneKeeps ==
    ASSUME RR!RegistryAssumption, RegistryInv, NEW c \in Clients, RR!ApplyOne(c) PROVE RegistryInv'
<1> DEFINE F == Len(RR!InFront)
           M == Len(modules)
           n == Len(todo)
<1>0. /\ routePc[c] = "apply" /\ applied /\ ~ broken /\ applyOnce = "doing" /\ todo # <<>>
      /\ UNCHANGED <<use, metrics, modules, applied, applyOnce, routePc, accepted, broken>>
      /\ todo' = Tail(todo)
  BY DEF RR!ApplyOne, RR!registry, RegistryInv, AppliedByOne
<1>1. UNCHANGED RR!InFront /\ UNCHANGED RR!Snapshot /\ Registered' /\ AppliedByOne'
  BY <1>0 DEF RR!InFront, RR!Snapshot, RegistryInv, Registered, AppliedByOne
<1>2. /\ F \in Nat /\ M \in Nat /\ n \in Nat /\ n > 0 /\ n <= F + M /\ Done = F + M - n
      /\ Len(todo') = n - 1 /\ todo' \in Seq(Middlewares \cup {Metrics} \cup Modules)
      /\ \A i \in 1 .. n - 1 : todo'[i] = todo[i + 1]
      /\ \A i \in 1 .. n : todo[i] = RR!Snapshot[Done + i]
      /\ Len(used) = IF Done <= F THEN Done ELSE F
      /\ Head(todo) = RR!Snapshot[Done + 1]
  <2>1. F \in Nat /\ M \in Nat /\ Len(RR!Snapshot) = F + M
    BY InFrontFacts, SnapshotFacts DEF RegistryInv
  <2>2. /\ todo \in Seq(Middlewares \cup {Metrics} \cup Modules) /\ n <= Len(RR!Snapshot)
        /\ \A i \in 1 .. n : todo[i] = RR!Snapshot[Done + i]
        /\ Len(used) = IF Done <= F THEN Done ELSE F
    BY <1>0 DEF RegistryInv, RestOfSnapshot
  <2>3. /\ n \in Nat /\ n > 0 /\ Len(todo') = n - 1 /\ Head(todo) = todo[1]
        /\ todo' \in Seq(Middlewares \cup {Metrics} \cup Modules)
        /\ \A i \in 1 .. n - 1 : todo'[i] = todo[i + 1]
    BY <1>0, <2>2
  <2>4. Done = F + M - n
    BY <2>1 DEF Done
  <2> QED BY <2>1, <2>2, <2>3, <2>4
<1>3. Done' = Done + 1 /\ Done \in Nat /\ Done < F + M
  BY <1>1, <1>2, SnapshotFacts DEF Done, RegistryInv
<1>4. \A i \in 1 .. n - 1 : todo'[i] = RR!Snapshot[Done' + i]
  BY <1>2, <1>3
<1>5. CASE Done < F
  <2>1. Head(todo) = RR!InFront[Done + 1] /\ Head(todo) \in Middlewares \cup {Metrics}
    <3>1. Done + 1 \in 1 .. F
      BY <1>2, <1>3, <1>5
    <3> QED BY <1>2, <3>1, SnapshotFacts DEF RegistryInv
  <2>2. Head(todo) \notin Modules
    BY <2>1 DEF RR!RegistryAssumption
  <2>3. used' = Append(used, Head(todo)) /\ routes' = routes
    BY <2>2 DEF RR!ApplyOne
  <2>4. /\ used \in Seq(Middlewares \cup {Metrics}) /\ Len(used) = Done
        /\ \A i \in 1 .. Done : used[i] = RR!InFront[i]
        /\ routes = {}
    BY <1>0, <1>2, <1>3, <1>5 DEF RegistryInv, Begun
  <2>5. /\ used' \in Seq(Middlewares \cup {Metrics}) /\ Len(used') = Done + 1
        /\ \A i \in 1 .. Done + 1 : used'[i] = RR!InFront[i]
    BY <1>3, <2>1, <2>3, <2>4
  <2>6. Begun'
    <3>1. Len(used') <= F
      BY <1>2, <1>3, <1>5, <2>5
    <3>2. \A i \in 1 .. Len(used') : used'[i] = RR!InFront'[i]
      BY <1>1, <2>5
    <3> QED BY <1>0, <1>1, <2>3, <2>4, <2>5, <3>1, <3>2 DEF Begun
  <2>7. RestOfSnapshot'
    <3>1. \A i \in 1 .. M : ~ (i + F <= Done + 1)
      BY <1>2, <1>3, <1>5
    <3>2. Len(RR!Snapshot) = F + M
      BY SnapshotFacts DEF RegistryInv
    <3> QED BY <1>0, <1>1, <1>2, <1>3, <1>4, <1>5, <2>5, <3>1, <3>2 DEF RestOfSnapshot
  <2> QED BY <1>1, <2>6, <2>7 DEF RegistryInv
<1>6. CASE Done >= F
  <2> DEFINE j == Done - F + 1
  <2>1. j \in 1 .. M /\ Done + 1 = F + j
    BY <1>2, <1>3, <1>6
  <2>2. Head(todo) = modules[j] /\ Head(todo) \in Modules
    BY <1>2, <2>1, SnapshotFacts DEF RegistryInv
  <2>3. routes' = routes \cup {<<Head(todo), used>>} /\ used' = used
    BY <2>2 DEF RR!ApplyOne, RR!Register
  <2>4. Len(used) = F
    <3> HIDE DEF F
    <3>1. F \in Nat /\ Done \in Nat
      BY <1>2, <1>3
    <3>2. Done <= F => Done = F
      BY <1>6, <3>1
    <3> QED BY <1>2, <3>2
  <2>5. used = RR!InFront
    BY <1>0, <2>4, AllInUse
  <2>6. Begun'
    BY <1>0, <1>1, <1>2, <2>3, <2>4, <2>5 DEF RegistryInv, Begun
  <2>7. ASSUME NEW i \in 1 .. M, i + F <= Done + 1 PROVE \E r \in routes' : r[1] = modules[i]
    <3>1. CASE i = j
      <4>1. <<Head(todo), used>>[1] = modules[i]
        BY <2>2, <3>1
      <4> QED BY <2>3, <4>1
    <3>2. CASE i # j
      <4>1. i + F <= Done
        <5>1. F \in Nat /\ Done \in Nat /\ i \in Int /\ i # Done - F + 1
          BY <1>2, <1>3, <3>2
        <5> HIDE DEF F, M, j
        <5> QED BY <2>7, <5>1
      <4> QED BY <1>0, <2>3, <4>1 DEF RegistryInv, RestOfSnapshot
    <3> QED BY <3>1, <3>2
  <2>8. RestOfSnapshot'
    <3>1. Len(RR!Snapshot) = F + M
      BY SnapshotFacts DEF RegistryInv
    <3> QED BY <1>0, <1>1, <1>2, <1>3, <1>4, <1>6, <2>3, <2>4, <2>7, <3>1 DEF RestOfSnapshot
  <2> QED BY <1>1, <2>6, <2>8 DEF RegistryInv
<1> QED BY <1>2, <1>3, <1>5, <1>6

(* The other steps of the call that applies.                                 *)
LEMMA ApplyKeeps ==
    ASSUME RR!RegistryAssumption, RegistryInv, NEW c \in Clients,
           \/ RR!TakeSnapshot(c) \/ \E k \in Keys : RR!ApplyVersion(c, k)
           \/ RR!ApplyPanics(c) \/ RR!ApplyDone(c)
    PROVE  RegistryInv'
<1>0. UNCHANGED <<use, metrics, modules, accepted>> /\ UNCHANGED RR!InFront /\ UNCHANGED RR!Snapshot
      /\ Registered'
  BY DEF RR!TakeSnapshot, RR!ApplyVersion, RR!ApplyPanics, RR!ApplyDone, RR!registry,
         RR!InFront, RR!Snapshot, RegistryInv, Registered
<1>1. CASE RR!TakeSnapshot(c)
  <2>1. /\ ~ applied /\ used = <<>> /\ routes = {} /\ ~ broken /\ applied' = TRUE
        /\ todo' = RR!Snapshot /\ UNCHANGED <<used, routes, broken, applyOnce>>
    BY <1>1 DEF RR!TakeSnapshot, RR!Frozen, RR!engine, RegistryInv, AppliedByOne, Begun
  <2>2. AppliedByOne'
    BY <1>1, <2>1 DEF RR!TakeSnapshot, RR!Goto, RegistryInv, AppliedByOne
  <2>3. Len(RR!InFront) \in Nat /\ Len(RR!Snapshot) \in Nat /\ Len(used) = 0
    BY <2>1, InFrontFacts, SnapshotFacts DEF RegistryInv
  <2>4. Begun'
    BY <1>0, <2>1, <2>3 DEF RegistryInv, Begun
  <2>5. Done' = 0
    BY <1>0, <2>1, <2>3 DEF Done
  <2>6. RestOfSnapshot'
    <3>1. \A i \in 1 .. Len(modules) : ~ (i + Len(RR!InFront) <= 0)
      BY <2>3, SnapshotFacts DEF RegistryInv
    <3>2. RR!Snapshot \in Seq(Middlewares \cup {Metrics} \cup Modules)
      BY SnapshotFacts DEF RegistryInv
    <3> QED BY <1>0, <2>1, <2>3, <2>5, <3>1, <3>2 DEF RestOfSnapshot
  <2> QED BY <1>0, <2>2, <2>4, <2>6 DEF RegistryInv
<1>2. ASSUME NEW k \in Keys, RR!ApplyVersion(c, k) PROVE RegistryInv'
  <2>1. /\ routePc[c] = "apply" /\ applied /\ ~ broken /\ todo = <<>>
        /\ UNCHANGED <<applied, applyOnce, routePc, todo, used, broken>>
        /\ routes' = routes \cup {<<Head(groups[k]), used>>}
    BY <1>2 DEF RR!ApplyVersion, RR!AtKey, RR!Register, RegistryInv, AppliedByOne
  <2>2. AppliedByOne'
    BY <2>1 DEF RegistryInv, AppliedByOne
  <2>3. Len(used) = Len(RR!InFront)
    BY <2>1, InFrontFacts, SnapshotFacts DEF RegistryInv, RestOfSnapshot, Done
  <2>4. used = RR!InFront
    BY <2>1, <2>3, AllInUse
  <2>5. Begun'
    BY <1>0, <2>1, <2>3, <2>4 DEF RegistryInv, Begun
  <2>6. RestOfSnapshot'
    BY <1>0, <2>1 DEF RegistryInv, RestOfSnapshot, Done
  <2> QED BY <1>0, <2>2, <2>5, <2>6 DEF RegistryInv
<1>3. CASE RR!ApplyPanics(c)
  <2>1. applied /\ broken' = TRUE /\ applyOnce' = "done" /\ UNCHANGED <<applied, used, routes>>
    BY <1>3 DEF RR!ApplyPanics, RR!engine, RegistryInv, AppliedByOne
  <2>2. AppliedByOne'
    BY <1>3, <2>1 DEF RR!ApplyPanics, RR!Goto, RegistryInv, AppliedByOne
  <2> QED BY <1>0, <2>1, <2>2 DEF RegistryInv, Begun, RestOfSnapshot
<1>4. CASE RR!ApplyDone(c)
  <2>1. /\ applied /\ ~ broken /\ todo = <<>> /\ applyOnce' = "done" /\ applied' = TRUE
        /\ UNCHANGED <<todo, used, routes, broken>>
    BY <1>4 DEF RR!ApplyDone, RR!snapshot, RR!engine, RegistryInv, AppliedByOne
  <2>2. AppliedByOne'
    BY <1>4, <2>1 DEF RR!ApplyDone, RR!Goto, RegistryInv, AppliedByOne
  <2>3. Begun' /\ RestOfSnapshot'
    BY <1>0, <2>1 DEF RegistryInv, Begun, RestOfSnapshot, Done
  <2> QED BY <1>0, <2>2, <2>3 DEF RegistryInv
<1> QED BY <1>1, <1>2, <1>3, <1>4

LEMMA RegistryStep ==
    ASSUME RR!RegistryAssumption, RegistryInv, [RR!Next]_(RR!vars) PROVE RegistryInv'
<1>1. CASE UNCHANGED RR!vars
  <2>1. UNCHANGED RR!InFront /\ UNCHANGED RR!Snapshot
    BY <1>1 DEF RR!vars, RR!InFront, RR!Snapshot
  <2>2. Registered' /\ AppliedByOne'
    BY <1>1 DEF RR!vars, RegistryInv, Registered, AppliedByOne
  <2> QED BY <1>1, <2>1, <2>2 DEF RR!vars, RegistryInv, Begun, RestOfSnapshot, Done
<1> QED BY <1>1, RegisterKeeps, BesideKeeps, ApplyOneKeeps, ApplyKeeps DEF RR!Next

(* An Apply that returns, the second one included, has put into the engine   *)
(* all that was accepted, once, and no route stands without a middleware of  *)
(* them, whoever registers and applies at the same time.                     *)
THEOREM AcceptedIsInTheEngine ==
    RR!RegistryAssumption /\ RR!Spec => [](RR!AcceptedIsApplied /\ RR!AppliedOnce)
<1> SUFFICES ASSUME RR!RegistryAssumption
             PROVE  RR!Spec => [](RR!AcceptedIsApplied /\ RR!AppliedOnce)
  OBVIOUS
<1>1. RegistryInv => RR!AcceptedIsApplied /\ RR!AppliedOnce
  <2> SUFFICES ASSUME RegistryInv PROVE RR!AcceptedIsApplied /\ RR!AppliedOnce
    OBVIOUS
  <2>0. /\ used \in Seq(Middlewares \cup {Metrics}) /\ DOMAIN used = 1 .. Len(used) /\ Len(used) \in Nat
        /\ Registered
    BY DEF RegistryInv, Begun
  <2>1. RR!AppliedOnce
    <3>1. CASE ~ applied
      <4>1. used = <<>>
        BY <3>1 DEF RegistryInv, Begun
      <4> QED BY <4>1 DEF RR!AppliedOnce
    <3>2. CASE applied
      <4>1. /\ Len(used) <= Len(RR!InFront) /\ Len(RR!InFront) \in Nat /\ Distinct(RR!InFront)
            /\ \A i \in 1 .. Len(used) : used[i] = RR!InFront[i]
        BY <3>2, InFrontFacts DEF RegistryInv, Begun
      <4> QED BY <2>0, <4>1 DEF RR!AppliedOnce, Distinct
    <3> QED BY <3>1, <3>2 DEF RegistryInv, AppliedByOne
  <2>2. ASSUME NEW c \in Clients, routePc[c] = "applied", ~ broken
        PROVE  /\ accepted \cap (Middlewares \cup {Metrics}) = RR!ToSet(used)
               /\ \A m \in accepted \cap Modules : \E r \in routes : r[1] = m
               /\ \A r \in routes : r[2] = used
               /\ Metrics \in accepted => used[1] = Metrics
    <3>1. applied /\ todo = <<>>
      BY <2>2 DEF RegistryInv, AppliedByOne
    <3>2. /\ Len(RR!InFront) \in Nat /\ Len(modules) \in Nat
          /\ Done = Len(RR!InFront) + Len(modules)
      BY <3>1, InFrontFacts, SnapshotFacts DEF RegistryInv, Done
    <3>3. Len(used) = Len(RR!InFront)
      BY <2>2, <3>1, <3>2 DEF RegistryInv, RestOfSnapshot
    <3>4. used = RR!InFront
      BY <3>1, <3>3, AllInUse
    <3>5. accepted \cap (Middlewares \cup {Metrics}) = RR!ToSet(used)
      <4>1. \A x : x \in RR!ToSet(used) <=> Has(used, x)
        BY <2>0 DEF RR!ToSet, Has
      <4>2. \A x : Has(used, x) => x \in Middlewares \cup {Metrics}
        BY <2>0 DEF Has
      <4> QED BY <2>0, <3>4, <4>1, <4>2, InFrontFacts
    <3>6. ASSUME NEW m \in accepted \cap Modules PROVE \E r \in routes : r[1] = m
      <4>1. PICK i \in 1 .. Len(modules) : modules[i] = m
        BY <2>0 DEF Registered, Has
      <4>2. i + Len(RR!InFront) <= Done
        BY <3>2
      <4> QED BY <2>2, <3>1, <4>1, <4>2 DEF RegistryInv, RestOfSnapshot
    <3>7. (\A r \in routes : r[2] = used) /\ (Metrics \in accepted => used[1] = Metrics)
      BY <2>0, <3>1, <3>4, InFrontFacts DEF RegistryInv, Begun
    <3> QED BY <3>5, <3>6, <3>7
  <2> QED BY <2>1, <2>2 DEF RR!AcceptedIsApplied
<1>2. RR!Init => RegistryInv
  BY RegistryInit
<1>3. RegistryInv /\ [RR!Next]_(RR!vars) => RegistryInv'
  BY RegistryStep
<1> QED BY <1>1, <1>2, <1>3, PTL DEF RR!Spec

-----------------------------------------------------------------------------
(* Storage *)

LEMMA StorageMin ==
    ASSUME NEW a \in Int, NEW b \in Int PROVE ST!Min({a, b}) = IF a <= b THEN a ELSE b
<1>1. \E x \in {a, b} : \A y \in {a, b} : x <= y
  OBVIOUS
<1>2. ST!Min({a, b}) \in {a, b} /\ \A y \in {a, b} : ST!Min({a, b}) <= y
  BY <1>1 DEF ST!Min
<1> QED BY <1>2

(* What an upload that succeeds has stored: the whole source, but for one    *)
(* that failed exactly at the limit.                                         *)
CutAtLimit(j) == j.via = "file" /\ j.breaks = UploadLimit /\ UploadLimit < j.size
WholeOf(j) == IF CutAtLimit(j) THEN UploadLimit ELSE j.size

Writing(c) == storePc[c] \in {"copy", "close", "failed", "remove"}

(* An upload in progress has a name of its own; on the disk there is one     *)
(* file of that name, with what was copied; and one that was read to the end *)
(* is whole and within the limit.                                            *)
UploadOk(c) ==
    storePc[c] # "idle" =>
        /\ calls[c] \in 1 .. MaxCalls /\ ST!Name(c) \notin DOMAIN given
        /\ ST!Mine(c) = IF store[c] = "local" /\ Writing(c)
                        THEN {[name |-> ST!Name(c), in |-> "local", units |-> copied[c]]} ELSE {}
        /\ storePc[c] = "check" => copied[c] = 0
        /\ storePc[c] = "remove" => store[c] = "local"
        /\ storePc[c] = "copy" => /\ copied[c] <= job[c].size /\ copied[c] <= job[c].breaks
                                  /\ (job[c].via = "file" => copied[c] <= UploadLimit)
                                  /\ (job[c].via = "bytes" => job[c].size <= UploadLimit)
        /\ storePc[c] = "close" => copied[c] = WholeOf(job[c]) /\ WholeOf(job[c]) <= UploadLimit

(* Names are numbered by the calls, and each leads to one file, which is     *)
(* whole when its name was given and there until it is deleted.              *)
FilesOk ==
    /\ \A f \in files, g \in files : f.name = g.name => f = g
    /\ \A f \in files : f.name[2] <= calls[f.name[1]]
    /\ \A x \in DOMAIN given :
          /\ x[2] <= calls[x[1]] /\ given[x] \in ST!Jobs /\ WholeOf(given[x]) <= UploadLimit
          /\ \A f \in files : f.name = x => f.units = WholeOf(given[x])
          /\ x \in deleted \/ \E f \in files : f.name = x
    /\ ST!NothingHalfStays

GotOk == got # <<>> => got[1] \in DOMAIN given /\ got[2] = WholeOf(given[got[1]])

StorageInv ==
    /\ ST!TypeOK /\ FilesOk /\ GotOk
    /\ \A c \in Lone : UploadOk(c)

LEMMA JobFacts ==
    ASSUME ST!StorageAssumption, NEW j \in ST!Jobs
    PROVE  /\ j.size \in 0 .. MaxSize /\ j.breaks \in Nat /\ j.claims \in Nat
           /\ j.via \in {"bytes", "file"}
           /\ j.via = "bytes" => j.claims = j.size /\ j.breaks = MaxSize + 1
           /\ UploadLimit \in Nat /\ MaxSize \in Nat /\ MaxRead \in Nat /\ MaxCalls \in Nat
<1>1. UploadLimit \in Nat /\ MaxSize \in Nat /\ MaxRead \in Nat /\ MaxCalls \in Nat
  BY DEF ST!StorageAssumption
<1>2. /\ j.size \in 0 .. MaxSize /\ j.breaks \in Nat /\ j.claims \in Nat
      /\ j.via \in {"bytes", "file"}
      /\ j.via = "bytes" => j.claims = j.size /\ j.breaks = MaxSize + 1
  <2>1. CASE \E n \in 0 .. MaxSize : j = ST!Whole(n)
    BY <1>1, <2>1 DEF ST!Whole, ST!Never
  <2>2. CASE j \in ST!Files
    BY <1>1, <2>2 DEF ST!Files, ST!Never
  <2> QED BY <2>1, <2>2 DEF ST!Jobs
<1> QED BY <1>1, <1>2

LEMMA StorageInit == ASSUME ST!StorageAssumption, ST!Init PROVE StorageInv
<1> USE DEF ST!Init
<1>1. ST!NoJob \in ST!Jobs
  BY DEF ST!NoJob, ST!Jobs, ST!StorageAssumption
<1>2. ST!TypeOK
  BY <1>1 DEF ST!TypeOK, ST!Stores, ST!StorageAssumption
<1> QED BY <1>2 DEF StorageInv, FilesOk, GotOk, UploadOk, ST!NothingHalfStays

(* The names of different callers, and of different calls, differ.           *)
LEMMA NamesDiffer ==
    ASSUME NEW c \in Lone, NEW d \in Lone, c # d PROVE ST!Name(c) # ST!Name(d) /\ ST!Name(c)[1] = c
BY DEF ST!Name

(* A step of one upload touches no file of another name; what it stores      *)
(* under its own, and the name it gives, are as they should be.              *)
StoresOwn(c) ==
    /\ \A d \in Lone \ {c} : /\ storePc'[d] = storePc[d] /\ store'[d] = store[d]
                             /\ job'[d] = job[d] /\ copied'[d] = copied[d]
    /\ \A f \in files \cup files' : f.name # ST!Name(c) => (f \in files' <=> f \in files)
    /\ \A f \in files', g \in files' : f.name = ST!Name(c) /\ g.name = ST!Name(c) => f = g
    /\ \A f \in files' : f.name = ST!Name(c) =>
          storePc'[c] # "idle" \/ ST!Name(c) \in DOMAIN given' \cup litter'
    /\ UNCHANGED <<calls, deleted, got>> /\ litter \subseteq litter'

Gives(c) ==
    /\ given' = [x \in DOMAIN given \cup {ST!Name(c)} |->
                    IF x = ST!Name(c) THEN job[c] ELSE given[x]]
    /\ WholeOf(job[c]) <= UploadLimit
    /\ \A f \in files' : f.name = ST!Name(c) => f.units = WholeOf(job[c])
    /\ \E f \in files' : f.name = ST!Name(c)

LEMMA UploadKeeps ==
    ASSUME ST!StorageAssumption, StorageInv, ST!TypeOK', NEW c \in Lone, storePc[c] # "idle",
           StoresOwn(c), given' = given \/ Gives(c), UploadOk(c)'
    PROVE  StorageInv'
<1> USE DEF StoresOwn
<1>0. /\ \A d \in Lone : ST!Name(d)' = ST!Name(d)
      /\ ST!Name(c) \notin DOMAIN given /\ ST!Name(c) = <<c, calls[c]>> /\ calls[c] \in 1 .. MaxCalls
      /\ job[c] \in ST!Jobs
  BY DEF ST!Name, StorageInv, UploadOk, ST!TypeOK
<1>1. /\ DOMAIN given \subseteq DOMAIN given'
      /\ \A x \in DOMAIN given : given'[x] = given[x]
      /\ \A x \in DOMAIN given' : x \notin DOMAIN given => x = ST!Name(c) /\ Gives(c)
  BY <1>0 DEF Gives
<1>2. ASSUME NEW d \in Lone PROVE UploadOk(d)'
  <2>1. CASE d = c
    BY <2>1
  <2>2. CASE d # c
    <3>1. ST!Name(d) # ST!Name(c)
      BY <2>2, NamesDiffer
    <3>2. ST!Mine(d)' = ST!Mine(d)
      BY <1>0, <3>1 DEF ST!Mine
    <3> QED BY <1>0, <1>1, <2>2, <3>1, <3>2 DEF StorageInv, UploadOk, Writing
  <2> QED BY <2>1, <2>2
<1>3. GotOk'
  BY <1>1 DEF StorageInv, GotOk
<1>4. \A f \in files', g \in files' : f.name = g.name => f = g
  BY DEF StorageInv, FilesOk
<1>5. \A f \in files' : f.name[2] <= calls'[f.name[1]]
  BY <1>0 DEF StorageInv, FilesOk
<1>6. ASSUME NEW x \in DOMAIN given'
      PROVE  /\ x[2] <= calls'[x[1]] /\ given'[x] \in ST!Jobs /\ WholeOf(given'[x]) <= UploadLimit
             /\ \A f \in files' : f.name = x => f.units = WholeOf(given'[x])
             /\ x \in deleted' \/ \E f \in files' : f.name = x
  <2>1. CASE x \in DOMAIN given
    BY <1>0, <1>1, <2>1 DEF StorageInv, FilesOk
  <2>2. CASE x \notin DOMAIN given
    <3>1. x = ST!Name(c) /\ Gives(c) /\ given'[x] = job[c]
      BY <1>1, <2>2 DEF Gives
    <3>2. x[2] <= calls'[x[1]]
      BY <1>0, <3>1
    <3> QED BY <1>0, <3>1, <3>2 DEF Gives
  <2> QED BY <2>1, <2>2
<1>7. ST!NothingHalfStays'
  <2> SUFFICES ASSUME NEW f \in files'
               PROVE  \/ f.name \in DOMAIN given' \cup litter'
                      \/ \E d \in Lone : f.name = ST!Name(d)' /\ storePc'[d] # "idle"
    BY DEF ST!NothingHalfStays
  <2>1. CASE f.name = ST!Name(c)
    BY <1>0, <2>1
  <2>2. CASE f.name # ST!Name(c)
    <3>1. \/ f.name \in DOMAIN given \cup litter
          \/ \E d \in Lone : f.name = ST!Name(d) /\ storePc[d] # "idle"
      BY <2>2 DEF StorageInv, FilesOk, ST!NothingHalfStays
    <3>2. CASE f.name \in DOMAIN given \cup litter
      BY <1>1, <3>2
    <3>3. ASSUME NEW d \in Lone, f.name = ST!Name(d), storePc[d] # "idle"
          PROVE  \E e \in Lone : f.name = ST!Name(e)' /\ storePc'[e] # "idle"
      BY <1>0, <2>2, <3>3
    <3> QED BY <3>1, <3>2, <3>3
  <2> QED BY <2>1, <2>2
<1>8. FilesOk'
  BY <1>4, <1>5, <1>6, <1>7 DEF FilesOk
<1> QED BY <1>2, <1>3, <1>8 DEF StorageInv

(* The first steps of an upload, which store nothing, and a removal.         *)
LEMMA QuietStepsKeep ==
    ASSUME ST!StorageAssumption, StorageInv, NEW c \in Lone,
           ST!Refuse(c) \/ ST!EndCopy(c) \/ ST!PutFails(c)
    PROVE  StorageInv'
<1>1. /\ UNCHANGED <<current, store, job, copied, calls, files, given, litter, deleted, got>>
      /\ storePc[c] # "idle"
      /\ \E where \in {"idle", "close", "failed"} : storePc' = [storePc EXCEPT ![c] = where]
  BY DEF ST!Refuse, ST!EndCopy, ST!PutFails, ST!Goto
<1>2. ST!TypeOK'
  BY <1>1 DEF StorageInv, ST!TypeOK, ST!Names, ST!Stores
<1>3. \A d \in Lone \ {c} : storePc'[d] = storePc[d]
  BY <1>1 DEF StorageInv, ST!TypeOK
<1>4. storePc'[c] \in {"idle", "close", "failed"} /\ storePc' \in [Lone -> {"idle", "check", "copy", "close", "failed", "remove"}]
  BY <1>1, <1>2 DEF StorageInv, ST!TypeOK
<1>5. ST!Name(c)' = ST!Name(c) /\ ST!Mine(c)' = ST!Mine(c)
  BY <1>1 DEF ST!Name, ST!Mine
<1>6. CASE ST!EndCopy(c)
  <2>1. storePc[c] = "copy" /\ ~ ST!HasMore(job[c], copied[c])
        /\ storePc'[c] = IF ST!SourceEnds(job[c], copied[c]) THEN "close" ELSE "failed"
    BY <1>6 DEF ST!EndCopy, ST!Goto, StorageInv, ST!TypeOK
  <2>2. /\ copied[c] <= job[c].size /\ copied[c] <= job[c].breaks
        /\ (job[c].via = "file" => copied[c] <= UploadLimit)
        /\ (job[c].via = "bytes" => job[c].size <= UploadLimit)
        /\ job[c] \in ST!Jobs /\ copied[c] \in Nat
    BY <2>1 DEF StorageInv, UploadOk, ST!TypeOK
  <2>6. /\ job[c].size \in Nat /\ job[c].size <= MaxSize /\ job[c].breaks \in Nat /\ job[c].claims \in Nat
        /\ job[c].via \in {"bytes", "file"} /\ UploadLimit \in Nat /\ MaxSize \in Nat
        /\ job[c].via = "bytes" => job[c].claims = job[c].size /\ job[c].breaks = MaxSize + 1
      BY <2>2, JobFacts
  <2>3. ASSUME ST!SourceEnds(job[c], copied[c])
        PROVE  copied[c] = WholeOf(job[c]) /\ WholeOf(job[c]) <= UploadLimit
    BY <2>1, <2>2, <2>3, <2>6 DEF ST!SourceEnds, ST!AtLimit, ST!Enforced, ST!HasMore, WholeOf,
       CutAtLimit
  <2>4. UploadOk(c)'
    BY <1>1, <1>5, <2>1, <2>3 DEF StorageInv, UploadOk, Writing
  <2>5. StoresOwn(c)
    BY <1>1, <1>3, <2>1, <1>4, <1>5 DEF StoresOwn, StorageInv, FilesOk
  <2> QED BY <1>1, <1>2, <2>4, <2>5, UploadKeeps
<1>7. CASE ST!Refuse(c) \/ ST!PutFails(c)
  <2>1. ST!Mine(c) = {} /\ storePc'[c] = "idle"
    BY <1>1, <1>7 DEF ST!Refuse, ST!PutFails, ST!Goto, StorageInv, UploadOk, Writing, ST!TypeOK
  <2>2. UploadOk(c)'
    BY <2>1 DEF UploadOk
  <2>3. \A f \in files' : f.name # ST!Name(c)
    BY <1>1, <2>1 DEF ST!Mine
  <2>4. StoresOwn(c)
    BY <1>1, <1>3, <2>3 DEF StoresOwn
  <2> QED BY <1>1, <1>2, <2>2, <2>4, UploadKeeps
<1> QED BY <1>6, <1>7

LEMMA CreateKeeps ==
    ASSUME ST!StorageAssumption, StorageInv, NEW c \in Lone, ST!Create(c) PROVE StorageInv'
<1> DEFINE new == [name |-> ST!Name(c), in |-> "local", units |-> 0]
<1>1. /\ UNCHANGED <<current, store, job, copied, calls, given, litter, deleted, got>>
      /\ storePc[c] = "check" /\ storePc' = [storePc EXCEPT ![c] = "copy"] /\ ST!ClaimsFit(job[c])
      /\ files' = IF store[c] = "local" THEN files \cup {new} ELSE files
  BY DEF ST!Create, ST!Goto
<1>2. /\ ST!Mine(c) = {} /\ calls[c] \in 1 .. MaxCalls /\ ST!Name(c) \in ST!Names
      /\ ST!Name(c) \notin DOMAIN given /\ job[c] \in ST!Jobs
  BY <1>1 DEF StorageInv, UploadOk, Writing, ST!TypeOK, ST!Name, ST!Names
<1>3. ST!TypeOK'
  <2>1. 0 \in 0 .. MaxSize
    BY DEF ST!StorageAssumption
  <2>2. new \in [name : ST!Names, in : ST!Stores, units : 0 .. MaxSize]
    BY <1>2, <2>1 DEF ST!Stores
  <2>3. \A f \in files' : f \in [name : ST!Names, in : ST!Stores, units : 0 .. MaxSize]
    BY <1>1, <2>2 DEF StorageInv, ST!TypeOK
  <2> QED BY <1>1, <2>3 DEF StorageInv, ST!TypeOK, ST!Names, ST!Stores
<1>4. /\ storePc'[c] = "copy" /\ \A d \in Lone \ {c} : storePc'[d] = storePc[d]
      /\ ST!Name(c)' = ST!Name(c)
  BY <1>1 DEF StorageInv, ST!TypeOK, ST!Name
<1>5. ST!Mine(c)' = IF store[c] = "local" THEN {new} ELSE {}
  BY <1>1, <1>2, <1>4 DEF ST!Mine
<1>6. UploadOk(c)'
  <2>1. copied[c] = 0
    BY <1>1 DEF StorageInv, UploadOk
  <2>3. /\ job[c].size \in Nat /\ job[c].size <= MaxSize /\ job[c].breaks \in Nat /\ job[c].claims \in Nat
        /\ job[c].via \in {"bytes", "file"} /\ UploadLimit \in Nat /\ MaxSize \in Nat
        /\ job[c].via = "bytes" => job[c].claims = job[c].size /\ job[c].breaks = MaxSize + 1
      BY <1>2, JobFacts
  <2>2. /\ job[c].size \in Nat /\ job[c].breaks \in Nat /\ UploadLimit \in Nat
        /\ job[c].via = "bytes" => job[c].size <= UploadLimit
    BY <1>1, <1>2, <2>3 DEF ST!ClaimsFit
  <2> QED BY <1>1, <1>2, <1>4, <1>5, <2>1, <2>2 DEF UploadOk, Writing
<1>7. StoresOwn(c)
  <2>1. \A f \in files' : f.name = ST!Name(c) => f = new
    BY <1>1, <1>2 DEF ST!Mine
  <2> QED BY <1>1, <1>4, <2>1 DEF StoresOwn
<1> QED BY <1>1, <1>3, <1>6, <1>7, UploadKeeps

LEMMA CopyKeeps ==
    ASSUME ST!StorageAssumption, StorageInv, NEW c \in Lone, ST!Copy(c) PROVE StorageInv'
<1>1. /\ UNCHANGED <<current, store, job, calls, given, litter, deleted, got>>
      /\ storePc[c] = "copy" /\ ST!HasMore(job[c], copied[c])
  BY DEF ST!Copy
<1>2. /\ ST!Name(c) \notin DOMAIN given /\ job[c] \in ST!Jobs /\ calls[c] \in 1 .. MaxCalls
      /\ copied[c] <= job[c].size /\ copied[c] <= job[c].breaks /\ copied[c] \in Nat
      /\ (job[c].via = "file" => copied[c] <= UploadLimit)
      /\ (job[c].via = "bytes" => job[c].size <= UploadLimit)
      /\ ST!Mine(c) = IF store[c] = "local"
                      THEN {[name |-> ST!Name(c), in |-> "local", units |-> copied[c]]} ELSE {}
  BY <1>1 DEF StorageInv, UploadOk, Writing, ST!TypeOK
<1>3. ST!Name(c)' = ST!Name(c)
  BY <1>1 DEF ST!Name
<1>4. CASE /\ storePc' = [storePc EXCEPT ![c] = "failed"] /\ UNCHANGED <<copied, files>>
  <2>1. /\ storePc'[c] = "failed" /\ \A d \in Lone \ {c} : storePc'[d] = storePc[d]
        /\ ST!Mine(c)' = ST!Mine(c)
    BY <1>1, <1>3, <1>4 DEF StorageInv, ST!TypeOK, ST!Mine
  <2>2. ST!TypeOK'
    BY <1>1, <1>4 DEF StorageInv, ST!TypeOK, ST!Names, ST!Stores
  <2>3. UploadOk(c)'
    BY <1>1, <1>2, <1>3, <1>4, <2>1 DEF UploadOk, Writing
  <2>4. StoresOwn(c)
    BY <1>1, <1>4, <2>1 DEF StoresOwn, StorageInv, FilesOk
  <2> QED BY <1>1, <2>2, <2>3, <2>4, UploadKeeps
<1>5. ASSUME NEW k \in 1 .. ST!Min({job[c].size, job[c].breaks}) - copied[c],
             ~ ST!ReadTooLong(job[c], copied[c], k),
             copied' = [copied EXCEPT ![c] = copied[c] + k],
             files' = {IF f.name = ST!Name(c) THEN [f EXCEPT !.units = copied[c] + k] ELSE f : f \in files},
             UNCHANGED storePc
      PROVE  StorageInv'
  <2> DEFINE n == copied[c] + k
             own == [name |-> ST!Name(c), in |-> "local", units |-> n]
  <2>9. /\ job[c].size \in Nat /\ job[c].size <= MaxSize /\ job[c].breaks \in Nat /\ job[c].claims \in Nat
        /\ job[c].via \in {"bytes", "file"} /\ UploadLimit \in Nat /\ MaxSize \in Nat
        /\ job[c].via = "bytes" => job[c].claims = job[c].size /\ job[c].breaks = MaxSize + 1
      BY <1>2, JobFacts
  <2>10. ST!Min({job[c].size, job[c].breaks}) = IF job[c].size <= job[c].breaks THEN job[c].size ELSE job[c].breaks
    BY <2>9, StorageMin
  <2>1. /\ n \in 0 .. MaxSize /\ n <= job[c].size /\ n <= job[c].breaks
        /\ (job[c].via = "file" => n <= UploadLimit)
    BY <1>2, <1>5, <2>9, <2>10 DEF ST!ReadTooLong, ST!Enforced
  <2>2. copied'[c] = n /\ \A d \in Lone \ {c} : copied'[d] = copied[d]
    BY <1>5 DEF StorageInv, ST!TypeOK
  <2>3. \A f \in files : f.name = ST!Name(c) => store[c] = "local" /\ [f EXCEPT !.units = n] = own
    BY <1>2 DEF ST!Mine
  <2>4. \A f : f \in files' <=> (f \in files /\ f.name # ST!Name(c)) \/ (f = own /\ store[c] = "local")
    <3>1. ASSUME NEW f, f \in files, f.name # ST!Name(c) PROVE f \in files'
      BY <1>5, <3>1
    <3>2. ASSUME store[c] = "local" PROVE own \in files'
      <4>1. PICK g \in files : g.name = ST!Name(c)
        BY <1>2, <3>2 DEF ST!Mine
      <4> QED BY <1>5, <2>3, <4>1
    <3>3. ASSUME NEW f \in files' PROVE (f \in files /\ f.name # ST!Name(c)) \/ (f = own /\ store[c] = "local")
      <4>1. PICK g \in files : f = IF g.name = ST!Name(c) THEN [g EXCEPT !.units = n] ELSE g
        BY <1>5
      <4> QED BY <2>3, <4>1
    <3> QED BY <3>1, <3>2, <3>3
  <2>5. ST!TypeOK'
    <3>1. own \in [name : ST!Names, in : ST!Stores, units : 0 .. MaxSize]
      BY <1>2, <2>1 DEF ST!Name, ST!Names, ST!Stores
    <3>2. \A f \in files' : f \in [name : ST!Names, in : ST!Stores, units : 0 .. MaxSize]
      BY <2>4, <3>1 DEF StorageInv, ST!TypeOK
    <3> QED BY <1>1, <1>5, <2>1, <3>2 DEF StorageInv, ST!TypeOK, ST!Names, ST!Stores
  <2>6. ST!Mine(c)' = IF store[c] = "local" THEN {own} ELSE {}
    BY <1>3, <2>4 DEF ST!Mine
  <2>7. UploadOk(c)'
    BY <1>1, <1>2, <1>3, <1>5, <2>1, <2>2, <2>6 DEF UploadOk, Writing
  <2>8. StoresOwn(c)
    BY <1>1, <1>5, <2>2, <2>4 DEF StoresOwn
  <2> QED BY <1>1, <2>5, <2>7, <2>8, UploadKeeps
<1> QED BY <1>4, <1>5 DEF ST!Copy, ST!Goto

(* The end of an upload that was read to the end or has failed.              *)
LEMMA EndsKeep ==
    ASSUME ST!StorageAssumption, StorageInv, NEW c \in Lone,
           ST!CloseFile(c) \/ ST!Remove(c) \/ ST!PutObject(c)
    PROVE  StorageInv'
<1>1. /\ UNCHANGED <<current, store, job, copied, calls, deleted, got>> /\ storePc[c] # "idle"
      /\ \E where \in {"idle", "remove"} : storePc' = [storePc EXCEPT ![c] = where]
  BY DEF ST!CloseFile, ST!Remove, ST!PutObject, ST!Return, ST!Goto
<1>2. /\ ST!Name(c)' = ST!Name(c) /\ ST!Name(c) \in ST!Names /\ job[c] \in ST!Jobs
      /\ ST!Name(c) \notin DOMAIN given /\ copied[c] \in 0 .. MaxSize
  BY <1>1 DEF StorageInv, UploadOk, ST!TypeOK, ST!Name, ST!Names
<1>3. /\ storePc'[c] \in {"idle", "remove"} /\ \A d \in Lone \ {c} : storePc'[d] = storePc[d]
      /\ storePc' \in [Lone -> {"idle", "check", "copy", "close", "failed", "remove"}]
  BY <1>1 DEF StorageInv, ST!TypeOK
<1> DEFINE Named == [x \in DOMAIN given \cup {ST!Name(c)} |->
                        IF x = ST!Name(c) THEN job[c] ELSE given[x]]
<1>4. DOMAIN Named \subseteq ST!Names
  BY <1>2 DEF StorageInv, ST!TypeOK
<1>5. ASSUME DOMAIN given' \subseteq ST!Names, litter' \subseteq ST!Names,
             \A f \in files' : f \in [name : ST!Names, in : ST!Stores, units : 0 .. MaxSize]
      PROVE  ST!TypeOK'
  BY <1>1, <1>3, <1>5 DEF StorageInv, ST!TypeOK, ST!Names, ST!Stores
<1>6. CASE ST!CloseFile(c)
  <2>1. /\ UNCHANGED <<files, litter>> /\ store[c] = "local" /\ storePc[c] \in {"close", "failed"}
        /\ \/ storePc[c] = "close" /\ storePc'[c] = "idle" /\ given' = Named
           \/ storePc'[c] = "remove" /\ given' = given
    BY <1>6 DEF ST!CloseFile, ST!Return, ST!Goto, StorageInv, ST!TypeOK
  <2>2. ST!Mine(c) = {[name |-> ST!Name(c), in |-> "local", units |-> copied[c]]}
        /\ ST!Mine(c)' = ST!Mine(c)
    BY <1>2, <2>1 DEF StorageInv, UploadOk, Writing, ST!Mine
  <2>3. \A f \in files : f.name = ST!Name(c) => f.units = copied[c] /\ f \in ST!Mine(c)
    BY <2>2 DEF ST!Mine
  <2>4. ST!TypeOK'
    BY <1>4, <1>5, <2>1 DEF StorageInv, ST!TypeOK
  <2>5. CASE storePc[c] = "close" /\ storePc'[c] = "idle" /\ given' = Named
    <3>1. copied[c] = WholeOf(job[c]) /\ WholeOf(job[c]) <= UploadLimit
      BY <1>1, <2>5 DEF StorageInv, UploadOk
    <3>2. Gives(c)
      BY <2>1, <2>2, <2>3, <2>5, <3>1 DEF Gives, ST!Mine
    <3>3. UploadOk(c)'
      BY <2>5 DEF UploadOk
    <3>4. StoresOwn(c)
      BY <1>1, <1>3, <2>1, <2>3, <2>5 DEF StoresOwn, StorageInv, FilesOk
    <3> QED BY <1>1, <2>4, <3>2, <3>3, <3>4, UploadKeeps
  <2>6. CASE storePc'[c] = "remove" /\ given' = given
    <3>1. UploadOk(c)'
      BY <1>1, <1>2, <2>1, <2>2, <2>6 DEF StorageInv, UploadOk, Writing
    <3>2. StoresOwn(c)
      BY <1>1, <1>3, <2>1, <2>6 DEF StoresOwn, StorageInv, FilesOk
    <3> QED BY <1>1, <2>4, <2>6, <3>1, <3>2, UploadKeeps
  <2> QED BY <2>1, <2>5, <2>6
<1>7. CASE ST!Remove(c)
  <2>1. /\ given' = given /\ storePc'[c] = "idle"
        /\ \/ files' = files \ ST!Mine(c) /\ litter' = litter
           \/ litter' = litter \cup {ST!Name(c)} /\ files' = files
    BY <1>7 DEF ST!Remove, ST!RemoveMine, ST!Goto, StorageInv, ST!TypeOK
  <2>2. \A f \in files : f \in ST!Mine(c) <=> f.name = ST!Name(c)
    BY DEF ST!Mine
  <2>3. ST!TypeOK'
    BY <1>2, <1>5, <2>1 DEF StorageInv, ST!TypeOK
  <2>4. UploadOk(c)'
    BY <2>1 DEF UploadOk
  <2>5. StoresOwn(c)
    BY <1>1, <1>3, <2>1, <2>2 DEF StoresOwn, StorageInv, FilesOk
  <2> QED BY <1>1, <2>1, <2>3, <2>4, <2>5, UploadKeeps
<1>8. CASE ST!PutObject(c)
  <2> DEFINE new == [name |-> ST!Name(c), in |-> "oss", units |-> copied[c]]
  <2>1. /\ store[c] = "oss" /\ storePc[c] = "close" /\ storePc'[c] = "idle"
        /\ files' = files \cup {new}
        /\ \/ given' = Named /\ litter' = litter
           \/ litter' = litter \cup {ST!Name(c)} /\ given' = given
    BY <1>8 DEF ST!PutObject, ST!Return, ST!Goto, StorageInv, ST!TypeOK
  <2>2. \A f \in files' : f.name = ST!Name(c) => f = new
    BY <1>1, <2>1 DEF StorageInv, UploadOk, ST!Mine
  <2>3. ST!TypeOK'
    <3>1. new \in [name : ST!Names, in : ST!Stores, units : 0 .. MaxSize]
      BY <1>2 DEF ST!Stores
    <3> QED BY <1>2, <1>4, <1>5, <2>1, <3>1 DEF StorageInv, ST!TypeOK
  <2>4. UploadOk(c)'
    BY <2>1 DEF UploadOk
  <2>5. StoresOwn(c)
    BY <1>1, <1>3, <2>1, <2>2 DEF StoresOwn
  <2>6. given' = Named => Gives(c)
    <3>1. copied[c] = WholeOf(job[c]) /\ WholeOf(job[c]) <= UploadLimit
      BY <1>1, <2>1 DEF StorageInv, UploadOk
    <3>2. \A f \in files' : f.name = ST!Name(c) => f.units = WholeOf(job[c])
      BY <2>2, <3>1
    <3>3. \E f \in files' : f.name = ST!Name(c)
      <4>1. new \in files' /\ new.name = ST!Name(c)
        BY <2>1
      <4> QED BY <4>1
    <3> QED BY <3>1, <3>2, <3>3 DEF Gives
  <2> QED BY <1>1, <2>1, <2>3, <2>4, <2>5, <2>6, UploadKeeps
<1> QED BY <1>6, <1>7, <1>8

LEMMA UploadBeginsWell ==
    ASSUME ST!StorageAssumption, StorageInv, NEW c \in Lone, NEW j \in ST!Jobs, ST!Upload(c, j)
    PROVE  StorageInv'
<1>1. /\ UNCHANGED <<current, files, given, litter, deleted, got>> /\ current \in ST!Stores
      /\ storePc[c] = "idle" /\ storePc' = [storePc EXCEPT ![c] = "check"] /\ calls[c] < MaxCalls
      /\ store' = [store EXCEPT ![c] = current] /\ job' = [job EXCEPT ![c] = j]
      /\ copied' = [copied EXCEPT ![c] = 0] /\ calls' = [calls EXCEPT ![c] = @ + 1]
  BY DEF ST!Upload, ST!Goto, StorageInv, ST!TypeOK
<1>2. /\ calls[c] \in Nat /\ calls'[c] = calls[c] + 1 /\ calls'[c] \in 1 .. MaxCalls
      /\ storePc'[c] = "check" /\ copied'[c] = 0 /\ MaxCalls \in Nat
      /\ \A d \in Lone \ {c} : calls'[d] = calls[d]
  BY <1>1 DEF StorageInv, ST!TypeOK, ST!StorageAssumption
<1>3. ST!TypeOK'
  <2>1. 0 \in 0 .. MaxSize
    BY DEF ST!StorageAssumption
  <2> QED BY <1>1, <1>2, <2>1 DEF StorageInv, ST!TypeOK, ST!Names, ST!Stores
<1>4. \A x \in ST!Names : /\ x[1] \in Lone /\ x[2] \in Nat /\ calls[x[1]] \in Nat
                          /\ x = <<x[1], x[2]>>
  BY DEF ST!Names, StorageInv, ST!TypeOK
<1>5. \A x \in ST!Names : x[2] <= calls[x[1]] => x[2] <= calls'[x[1]] /\ x # ST!Name(c)'
  BY <1>2, <1>4 DEF ST!Name
<1>6. (\A f \in files : f.name \in ST!Names) /\ DOMAIN given \subseteq ST!Names
  BY DEF StorageInv, ST!TypeOK
<1>7. ST!Name(c)' \notin DOMAIN given /\ ST!Mine(c)' = {}
  BY <1>1, <1>5, <1>6 DEF StorageInv, FilesOk, ST!Mine
<1>8. ASSUME NEW d \in Lone PROVE UploadOk(d)'
  <2>1. CASE d = c
    BY <1>1, <1>2, <1>7, <2>1 DEF UploadOk, Writing
  <2>2. CASE d # c
    <3>1. ST!Name(d)' = ST!Name(d) /\ ST!Mine(d)' = ST!Mine(d)
      BY <1>1, <1>2, <2>2 DEF ST!Name, ST!Mine
    <3>2. /\ storePc'[d] = storePc[d] /\ store'[d] = store[d] /\ job'[d] = job[d]
          /\ copied'[d] = copied[d] /\ calls'[d] = calls[d]
      BY <1>1, <2>2 DEF StorageInv, ST!TypeOK
    <3> QED BY <1>1, <3>1, <3>2 DEF StorageInv, UploadOk, Writing
  <2> QED BY <2>1, <2>2
<1>9. ST!NothingHalfStays'
  <2> SUFFICES ASSUME NEW f \in files
               PROVE  \/ f.name \in DOMAIN given \cup litter
                      \/ \E d \in Lone : f.name = ST!Name(d)' /\ storePc'[d] # "idle"
    BY <1>1 DEF ST!NothingHalfStays
  <2>1. CASE f.name \in DOMAIN given \cup litter
    BY <2>1
  <2>2. ASSUME NEW d \in Lone, f.name = ST!Name(d), storePc[d] # "idle"
        PROVE  \E e \in Lone : f.name = ST!Name(e)' /\ storePc'[e] # "idle"
    <3>1. d # c /\ storePc'[d] = storePc[d] /\ ST!Name(d)' = ST!Name(d)
      BY <1>1, <1>2, <2>2 DEF ST!Name, StorageInv, ST!TypeOK
    <3> QED BY <2>2, <3>1
  <2> QED BY <2>1, <2>2 DEF StorageInv, FilesOk, ST!NothingHalfStays
<1>10. FilesOk'
  BY <1>1, <1>5, <1>6, <1>9 DEF StorageInv, FilesOk
<1>11. GotOk'
  BY <1>1 DEF StorageInv, GotOk
<1> QED BY <1>3, <1>8, <1>10, <1>11 DEF StorageInv

LEMMA StorageStep ==
    ASSUME ST!StorageAssumption, StorageInv, [ST!Next]_(ST!vars) PROVE StorageInv'
<1>1. CASE /\ UNCHANGED <<storePc, store, job, copied, calls, files, given, litter, deleted, got>>
           /\ current' \in ST!Stores \cup {"none"}
  <2>1. \A d \in Lone : ST!Name(d)' = ST!Name(d) /\ ST!Mine(d)' = ST!Mine(d)
    BY <1>1 DEF ST!Name, ST!Mine
  <2>2. ST!TypeOK'
    BY <1>1 DEF StorageInv, ST!TypeOK, ST!Names, ST!Stores
  <2>3. \A d \in Lone : UploadOk(d)'
    BY <1>1, <2>1 DEF StorageInv, UploadOk, Writing
  <2>4. FilesOk' /\ GotOk'
    BY <1>1, <2>1 DEF StorageInv, FilesOk, GotOk, ST!NothingHalfStays
  <2> QED BY <2>2, <2>3, <2>4 DEF StorageInv
<1>2. ASSUME NEW x \in DOMAIN given, ST!Get(x) PROVE StorageInv'
  <2>1. UNCHANGED <<current, storePc, store, job, copied, calls, files, given, litter, deleted>>
    BY <1>2 DEF ST!Get, ST!upload
  <2>2. \A d \in Lone : ST!Name(d)' = ST!Name(d) /\ ST!Mine(d)' = ST!Mine(d)
    BY <2>1 DEF ST!Name, ST!Mine
  <2>3. ST!TypeOK'
    BY <2>1 DEF StorageInv, ST!TypeOK, ST!Names, ST!Stores
  <2>4. \A d \in Lone : UploadOk(d)'
    BY <2>1, <2>2 DEF StorageInv, UploadOk, Writing
  <2>5. FilesOk'
    BY <2>1, <2>2 DEF StorageInv, FilesOk, ST!NothingHalfStays
  <2>6. GotOk'
    <3>1. CASE got' = <<>>
      BY <3>1 DEF GotOk
    <3>2. ASSUME NEW f \in ST!Stored(x), ST!ReadUpTo(f.units) <= MaxRead,
                 got' = <<x, ST!ReadUpTo((CHOOSE g \in ST!Stored(x) : TRUE).units)>>
          PROVE  GotOk'
      <4>1. /\ f \in files /\ f.name = x /\ f.units \in Nat /\ MaxRead \in Nat
            /\ f.units = WholeOf(given[x])
        BY DEF ST!Stored, StorageInv, FilesOk, ST!TypeOK, ST!StorageAssumption
      <4>2. (CHOOSE g \in ST!Stored(x) : TRUE) = f
        BY <4>1 DEF ST!Stored, StorageInv, FilesOk
      <4>3. ST!ReadUpTo(f.units) = f.units
        <5>1. ST!Min({f.units, MaxRead + 1}) = IF f.units <= MaxRead + 1 THEN f.units ELSE MaxRead + 1
          BY <4>1, StorageMin
        <5> QED BY <3>2, <4>1, <5>1 DEF ST!ReadUpTo
      <4>4. got'[1] = x /\ got'[2] = WholeOf(given[x])
        BY <3>2, <4>1, <4>2, <4>3
      <4> QED BY <2>1, <4>4 DEF GotOk
    <3> QED BY <1>2, <3>1, <3>2 DEF ST!Get
  <2> QED BY <2>3, <2>4, <2>5, <2>6 DEF StorageInv
<1>3. ASSUME NEW x \in DOMAIN given, ST!Delete(x) PROVE StorageInv'
  <2>1. /\ UNCHANGED <<current, storePc, store, job, copied, calls, given, litter, got>>
        /\ files' = files \ ST!Stored(x)
        /\ deleted' = IF ST!Stored(x) = {} THEN deleted ELSE deleted \cup {x}
    BY <1>3 DEF ST!Delete, ST!upload
  <2>2. \A f \in files : f.name # x => f \in files'
    BY <2>1 DEF ST!Stored
  <2>3. ST!TypeOK'
    BY <2>1 DEF StorageInv, ST!TypeOK, ST!Names, ST!Stores
  <2>4. ASSUME NEW d \in Lone PROVE UploadOk(d)'
    <3>1. CASE storePc[d] = "idle"
      BY <2>1, <3>1 DEF UploadOk
    <3>2. CASE storePc[d] # "idle"
      <4>1. ST!Name(d) # x /\ ST!Name(d)' = ST!Name(d)
        BY <2>1, <3>2 DEF StorageInv, UploadOk, ST!Name
      <4>2. ST!Mine(d)' = ST!Mine(d)
        BY <2>1, <2>2, <4>1 DEF ST!Mine
      <4> QED BY <2>1, <4>1, <4>2 DEF StorageInv, UploadOk, Writing
    <3> QED BY <3>1, <3>2
  <2>5. ASSUME NEW y \in DOMAIN given, y \notin deleted' PROVE \E f \in files' : f.name = y
    <3>1. PICK f \in files : f.name = y
      BY <2>1, <2>5 DEF StorageInv, FilesOk
    <3>2. f \in files'
      BY <2>1, <2>5, <3>1 DEF ST!Stored
    <3> QED BY <3>1, <3>2
  <2>6. ST!NothingHalfStays'
    BY <2>1 DEF StorageInv, FilesOk, ST!NothingHalfStays, ST!Name
  <2>7. FilesOk'
    BY <2>1, <2>5, <2>6 DEF StorageInv, FilesOk
  <2>8. GotOk'
    BY <2>1 DEF StorageInv, GotOk
  <2> QED BY <2>3, <2>4, <2>7, <2>8 DEF StorageInv
<1>4. CASE UNCHANGED ST!vars
  BY <1>1, <1>4 DEF ST!vars, StorageInv, ST!TypeOK
<1>5. ASSUME NEW s \in ST!Stores, ST!Configure(s) PROVE StorageInv'
  BY <1>1, <1>5 DEF ST!Configure, ST!upload
<1>6. ASSUME NEW c \in Lone,
             \/ \E j \in ST!Jobs : ST!Upload(c, j)
             \/ ST!Refuse(c) \/ ST!Create(c) \/ ST!Copy(c) \/ ST!EndCopy(c) \/ ST!CloseFile(c)
             \/ ST!Remove(c) \/ ST!PutObject(c) \/ ST!PutFails(c)
      PROVE  StorageInv'
  BY <1>6, QuietStepsKeep, CreateKeeps, CopyKeeps, EndsKeep, UploadBeginsWell
<1> QED BY <1>2, <1>3, <1>4, <1>5, <1>6 DEF ST!Next

(* Whatever fails while files are uploaded, read and deleted, a path that    *)
(* was returned leads to the whole source until it is deleted, what is left  *)
(* of an upload that failed is only what could not be removed, and a file is *)
(* read whole or not at all.                                                 *)
THEOREM FilesAreWhole ==
    ST!StorageAssumption /\ ST!Spec =>
        [](ST!TypeOK /\ ST!UploadedIsWhole /\ ST!NothingHalfStays /\ ST!ReadIsWhole)
<1> SUFFICES ASSUME ST!StorageAssumption
             PROVE  ST!Spec => [](ST!TypeOK /\ ST!UploadedIsWhole /\ ST!NothingHalfStays
                                  /\ ST!ReadIsWhole)
  OBVIOUS
<1>1. ASSUME StorageInv
      PROVE  ST!TypeOK /\ ST!UploadedIsWhole /\ ST!NothingHalfStays /\ ST!ReadIsWhole
  <2>1. ASSUME NEW x \in DOMAIN given \ deleted
        PROVE  LET j == given[x]
                   whole == IF j.via = "file" /\ j.breaks = UploadLimit
                            THEN ST!Min({j.size, UploadLimit}) ELSE j.size
               IN  whole <= UploadLimit /\ \E f \in files : f.name = x /\ f.units = whole
    <3> DEFINE j == given[x]
    <3>1. /\ j \in ST!Jobs /\ WholeOf(j) <= UploadLimit
          /\ \E f \in files : f.name = x /\ f.units = WholeOf(j)
      BY <1>1 DEF StorageInv, FilesOk
    <3>2. j.size \in Nat /\ UploadLimit \in Nat
      BY <3>1, JobFacts
    <3>3. ST!Min({j.size, UploadLimit}) = IF j.size <= UploadLimit THEN j.size ELSE UploadLimit
      BY <3>2, StorageMin
    <3>4. WholeOf(j) = IF j.via = "file" /\ j.breaks = UploadLimit
                       THEN ST!Min({j.size, UploadLimit}) ELSE j.size
      BY <3>2, <3>3 DEF WholeOf, CutAtLimit
    <3> QED BY <3>1, <3>4
  <2>2. ST!UploadedIsWhole
    BY <2>1 DEF ST!UploadedIsWhole
  <2>3. ST!ReadIsWhole
    BY <1>1 DEF StorageInv, GotOk, ST!ReadIsWhole, WholeOf, CutAtLimit
  <2> QED BY <1>1, <2>2, <2>3 DEF StorageInv, FilesOk
<1>2. ST!Init => StorageInv
  BY StorageInit
<1>3. StorageInv /\ [ST!Next]_(ST!vars) => StorageInv'
  BY StorageStep
<1> QED BY <1>1, <1>2, <1>3, PTL DEF ST!Spec

-----------------------------------------------------------------------------
(* Division, and the days, hours and minutes it gives. *)

LEMMA Multiples ==
    ASSUME NEW d \in Nat, NEW x \in Int, NEW y \in Int, x < y
    PROVE  d * x + d <= d * y
<1> DEFINE k == y - x - 1
<1>1. k \in Nat /\ y = x + 1 + k
  OBVIOUS
<1> HIDE DEF k
<1>2. d * k \in Nat
  BY <1>1
<1>3. d * (x + 1 + k) = d * x + d + d * k /\ d * x \in Int
  BY <1>1
<1> QED BY <1>1, <1>2, <1>3

LEMMA DivMod ==
    ASSUME NEW a \in Nat, NEW d \in Nat \ {0}
    PROVE  \E q \in Nat, r \in 0 .. d - 1 : a = d * q + r /\ a \div d = q /\ a % d = r
<1>1. PICK q \in Int, r \in Int : q = a \div d /\ r = a % d
  OBVIOUS
<1>2. a = d * q + r
  BY <1>1
<1>3. r \in 0 .. d - 1
  BY <1>1
<1>4. ASSUME q < 0 PROVE FALSE
  <2>1. d * q + d <= d * 0
    BY <1>4, Multiples
  <2>2. d * q \in Int /\ d * 0 = 0
    OBVIOUS
  <2> QED BY <1>2, <1>3, <2>1, <2>2
<1> QED BY <1>1, <1>2, <1>3, <1>4

LEMMA DivUnique ==
    ASSUME NEW d \in Nat \ {0}, NEW q \in Nat, NEW r \in 0 .. d - 1
    PROVE  (d * q + r) \div d = q /\ (d * q + r) % d = r
OBVIOUS

LEMMA Products ==
    ASSUME NEW a \in Nat, NEW b \in Nat, NEW c \in Nat
    PROVE  a * (b * c) = (a * b) * c /\ a * (b + c) = a * b + a * c /\ a * b = b * a /\ a * b \in Nat
OBVIOUS

(* A time of the day comes once a day: of two minutes with the same clock    *)
(* the later is on a later day.                                              *)
LEMMA OnceADay ==
    ASSUME NEW D \in Nat \ {0}, NEW a \in Nat, NEW b \in Nat, NEW r \in 0 .. D - 1, 
           D * a + r < D * b + r
    PROVE  a < b
<1>1. ASSUME b < a PROVE FALSE
  <2>1. D * b + D <= D * a /\ D * b \in Int /\ D * a \in Int
    BY <1>1, Multiples
  <2> QED BY <2>1
<1>2. a # b
  <2>1. ASSUME a = b PROVE FALSE
    <3>1. D * a \in Int /\ D * a + r \in Int /\ ~ (D * a + r < D * a + r)
      OBVIOUS
    <3> QED BY <2>1, <3>1
  <2> QED BY <2>1
<1> QED BY <1>1, <1>2

-----------------------------------------------------------------------------
(* CronSchedules *)

LEMMA CalendarMax ==
    ASSUME NEW a \in Int, NEW b \in Int PROVE CF!Max({a, b}) = IF a <= b THEN b ELSE a
<1>1. \E x \in {a, b} : \A y \in {a, b} : x >= y
  OBVIOUS
<1>2. CF!Max({a, b}) \in {a, b} /\ \A y \in {a, b} : CF!Max({a, b}) >= y
  BY <1>1 DEF CF!Max
<1> QED BY <1>2

LEMMA Steps ==
    ASSUME NEW lo \in Nat, NEW hi \in Nat, NEW step \in Nat \ {0}, NEW v \in lo .. hi
    PROVE  (v - lo) % step = 0 <=> \E k \in 0 .. hi : v = lo + k * step
<1>1. v - lo \in Nat /\ v \in Nat
  OBVIOUS
<1>2. ASSUME (v - lo) % step = 0 PROVE \E k \in 0 .. hi : v = lo + k * step
  <2>1. PICK q \in Nat, r \in 0 .. step - 1 : v - lo = step * q + r /\ (v - lo) % step = r
    BY <1>1, DivMod
  <2>2. r = 0
    BY <1>2, <2>1, Zenon
  <2>3. v - lo = step * q /\ step * q \in Nat /\ step * q = q * step
    BY <2>1, <2>2, Products
  <2>4. q <= step * q
    <3> DEFINE e == step - 1
    <3>1. e \in Nat /\ step = 1 + e
      OBVIOUS
    <3> HIDE DEF e
    <3>2. e * q \in Nat /\ (1 + e) * q = q + e * q
      BY <3>1
    <3> QED BY <3>1, <3>2
  <2>5. v = lo + q * step /\ q \in 0 .. hi
    BY <1>1, <2>3, <2>4
  <2> QED BY <2>5
<1>3. ASSUME NEW k \in 0 .. hi, v = lo + k * step PROVE (v - lo) % step = 0
  <2>1. k \in Nat /\ k * step = step * k /\ step * k \in Nat
    BY Products
  <2>2. v - lo = step * k + 0
    BY <1>1, <1>3, <2>1
  <2>3. (step * k + 0) % step = 0
    BY <2>1, DivUnique, 0 \in 0 .. step - 1
  <2> QED BY <2>2, <2>3, Zenon
<1> QED BY <1>2, <1>3

LEMMA FieldBounds ==
    ASSUME CF!ScheduleAssumption, NEW f \in CF!Fields
    PROVE  CF!Low[f] \in Nat /\ CF!High[f] \in Nat
BY DEF CF!ScheduleAssumption, CF!Fields, CF!Low, CF!High

LEMMA ItemParts ==
    ASSUME CF!ScheduleAssumption, NEW f \in CF!Fields, NEW i \in CF!Items, CF!ItemAccepted(f, i)
    PROVE  /\ i.step \in Nat /\ i.a \in Int /\ i.b \in Int /\ i.shape \in {"any", "one", "range"}
           /\ CF!Norm(f, i.a) \in Int /\ CF!Norm(f, i.b) \in Int
           /\ i.shape = "one" => i.step = 0 /\ CF!Norm(f, i.a) \in CF!Low[f] .. CF!High[f]
           /\ i.shape = "range" => /\ CF!Norm(f, i.a) \in CF!Low[f] .. CF!High[f]
                                   /\ CF!Norm(f, i.b) \in CF!Low[f] .. CF!High[f]
<1>1. i.step \in Int /\ i.a \in Int /\ i.b \in Int /\ i.shape \in {"any", "one", "range", "bad"}
  BY DEF CF!Items
<1>2. i.step >= 0 /\ i.shape # "bad"
      /\ (i.shape = "one" => i.step = 0 /\ CF!InField(f, CF!Norm(f, i.a)))
      /\ (i.shape = "range" => CF!RangeAccepted(f, i))
  BY <1>1 DEF CF!ItemAccepted
<1> QED BY <1>1, <1>2 DEF CF!InField, CF!RangeAccepted, CF!Norm

(* matchCronItem finds what the item says, a value of its range on a step    *)
(* from the first one, but for ranges that step over Sunday: of those it     *)
(* finds nothing.                                                            *)
LEMMA ItemMeans ==
    ASSUME CF!ScheduleAssumption, NEW f \in CF!Fields, NEW i \in CF!Items, CF!ItemAccepted(f, i),
           NEW v \in CF!Low[f] .. CF!High[f]
    PROVE  /\ CF!MatchItem(f, i, v) => v \in CF!Says(f, i)
           /\ v \in CF!Says(f, i) => \/ CF!MatchItem(f, i, v)
                                     \/ i.step > 0 /\ CF!OverSunday(f, i)
<1> DEFINE lo == IF i.shape = "any" THEN CF!Low[f] ELSE CF!Norm(f, i.a)
           hi == IF i.shape = "any" THEN CF!High[f] ELSE CF!Norm(f, i.b)
           by == IF i.step = 0 THEN 1 ELSE i.step
           Stepped(top) == {lo + k * by : k \in 0 .. top} \cap (lo .. top)
<1>1. /\ i.step \in Nat /\ i.shape \in {"any", "one", "range"}
      /\ CF!Low[f] \in Nat /\ CF!High[f] \in Nat /\ v \in Nat /\ lo \in Nat
      /\ i.shape # "one" => hi \in Nat /\ hi <= CF!High[f]
      /\ i.shape = "one" => i.step = 0
  BY FieldBounds, ItemParts
<1>2. by \in Nat \ {0} /\ CF!Max({i.step, 1}) = by
  BY <1>1, CalendarMax
<1>3. ASSUME NEW top \in Nat, lo <= v, v <= top
      PROVE  v \in Stepped(top) <=> (v - lo) % by = 0
  <2>1. v \in lo .. top /\ lo \in Nat /\ by \in Nat \ {0}
    BY <1>1, <1>2, <1>3
  <2> HIDE DEF lo, by
  <2>2. (v - lo) % by = 0 <=> \E k \in 0 .. top : v = lo + k * by
    <3>1. \A l \in Nat, h \in Nat, s \in Nat \ {0} : \A w \in l .. h :
             (w - l) % s = 0 <=> \E k \in 0 .. h : w = l + k * s
      BY Steps, Zenon
    <3> QED BY <1>3, <2>1, <3>1, ZenonT(40)
  <2> QED BY <2>1, <2>2
<1>4. ASSUME NEW u \in Nat PROVE u % 1 = 0
  BY <1>4
<1>5. CASE i.shape = "one"
  <2>1. CF!MatchItem(f, i, v) <=> v = lo
    BY <1>1, <1>5 DEF CF!MatchItem
  <2>2. CF!Says(f, i) = Stepped(lo)
    BY <1>2, <1>5 DEF CF!Says, CF!OverSunday, CF!Every
  <2>3. v = lo => v \in Stepped(lo)
    <3>1. by = 1 /\ 0 \in 0 .. lo /\ lo + 0 * 1 = lo /\ lo \in lo .. lo
      BY <1>1, <1>5
    <3> QED BY <3>1
  <2>4. v \in Stepped(lo) => v = lo
    BY <1>1
  <2> QED BY <2>1, <2>2, <2>3, <2>4
<1>6. CASE i.shape # "one" /\ lo <= hi
  <2>1. ~ CF!OverSunday(f, i)
    BY <1>1, <1>6 DEF CF!OverSunday
  <2>2. CF!Says(f, i) = Stepped(hi)
    BY <1>1, <1>2, <1>6, <2>1 DEF CF!Says, CF!Every
  <2>3. CASE i.step = 0
    <3>1. CF!MatchItem(f, i, v) <=> lo <= v /\ v <= hi
      <4>1. CASE i.shape = "any"
        BY <1>1, <2>3, <4>1 DEF CF!MatchItem
      <4>2. CASE i.shape = "range"
        <5>1. CF!MatchItem(f, i, v) <=> CF!InRange(f, lo, hi, v)
          BY <2>3, <4>2 DEF CF!MatchItem
        <5>2. ~ (lo > hi)
          BY <1>1, <1>6
        <5> HIDE DEF lo, hi
        <5> QED BY <1>1, <5>1, <5>2 DEF CF!InRange
      <4> QED BY <1>1, <1>6, <4>1, <4>2
    <3>2. lo <= v /\ v <= hi => v \in Stepped(hi)
      <4> SUFFICES ASSUME lo <= v, v <= hi PROVE v \in Stepped(hi)
        OBVIOUS
      <4>1. v - lo \in Nat /\ hi \in Nat /\ by = 1
        BY <1>1, <1>6, <2>3
      <4>2. (v - lo) % by = 0
        BY <1>4, <4>1
      <4> HIDE DEF lo, hi, by, Stepped
      <4> QED BY <1>3, <4>1, <4>2
    <3>3. v \in Stepped(hi) => lo <= v /\ v <= hi
      BY <1>1, <1>6
    <3> QED BY <2>2, <3>1, <3>2, <3>3
  <2>4. CASE i.step > 0
    <3>1. CF!MatchItem(f, i, v) <=> v >= lo /\ v <= hi /\ (v - lo) % by = 0
      <4>1. CF!MatchItem(f, i, v) <=> CF!OnStep(lo, hi, i.step, v)
        BY <2>4 DEF CF!MatchItem
      <4>2. by = i.step
        BY <1>1, <2>4
      <4> HIDE DEF lo, hi, by
      <4> QED BY <4>1, <4>2 DEF CF!OnStep
    <3>2. v \in Stepped(hi) => lo <= v /\ v <= hi
      BY <1>1, <1>6
    <3>3. hi \in Nat /\ lo \in Nat
      BY <1>1, <1>6
    <3> HIDE DEF lo, hi, by, Stepped
    <3> QED BY <1>1, <1>3, <2>2, <3>1, <3>2, <3>3
  <2> QED BY <1>1, <2>3, <2>4
<1>7. CASE i.shape # "one" /\ ~ (lo <= hi)
  <2>1. i.shape = "range" /\ lo > hi
    <3>1. i.shape = "any" => CF!Low[f] <= CF!High[f]
      BY <1>1
    <3> QED BY <1>1, <1>7, <3>1
  <2>2. CF!OverSunday(f, i) <=> f = "weekday"
    BY <2>1 DEF CF!OverSunday
  <2>3. CASE f # "weekday"
    <3>1. ~ CF!MatchItem(f, i, v)
      <4>1. CF!MatchItem(f, i, v) => v >= lo /\ v <= hi
        BY <1>1, <2>1, <2>3 DEF CF!MatchItem, CF!InRange, CF!OnStep
      <4> QED BY <1>1, <2>1, <4>1
    <3>2. CF!Says(f, i) = Stepped(hi)
      BY <1>2, <2>1, <2>2, <2>3 DEF CF!Says, CF!Every
    <3>3. Stepped(hi) = {}
      BY <1>1, <2>1
    <3> QED BY <3>1, <3>2, <3>3
  <2>4. CASE f = "weekday" /\ i.step > 0
    <3>1. ~ CF!MatchItem(f, i, v)
      <4>1. CF!MatchItem(f, i, v) <=> CF!OnStep(lo, hi, i.step, v)
        BY <2>4 DEF CF!MatchItem
      <4>2. ~ (v >= lo /\ v <= hi)
        BY <1>1, <2>1
      <4> HIDE DEF lo, hi
      <4> QED BY <4>1, <4>2 DEF CF!OnStep
    <3> QED BY <2>2, <2>4, <3>1
  <2>5. CASE f = "weekday" /\ i.step = 0
    <3>1. CF!MatchItem(f, i, v) <=> v >= lo \/ v <= hi
      BY <1>1, <2>1, <2>5 DEF CF!MatchItem, CF!InRange
    <3>2. CF!Says(f, i) = {d % 7 : d \in Stepped(hi + 7)} /\ by = 1
      BY <1>2, <2>1, <2>2, <2>5 DEF CF!Says, CF!Every
    <3>3. Stepped(hi + 7) = lo .. hi + 7
      <4>1. lo \in Nat /\ hi \in Nat /\ by = 1
        BY <1>1, <2>1, <3>2
      <4> HIDE DEF lo, hi, by
      <4>2. \A d \in lo .. hi + 7 : d - lo \in 0 .. hi + 7 /\ d = lo + (d - lo) * by
        BY <4>1
      <4> QED BY <4>2
    <3>4. v \in 0 .. 6 /\ lo \in 0 .. 6 /\ hi \in 0 .. 6 /\ hi < lo
      <4>1. CF!Low[f] = 0 /\ CF!High[f] = 6
        BY <2>5 DEF CF!Low, CF!High, CF!Fields
      <4> QED BY <1>1, <2>1, <4>1, ItemParts
    <3> HIDE DEF lo, hi, by, Stepped
    <3>5. v \in {d % 7 : d \in lo .. hi + 7} <=> v >= lo \/ v <= hi
      <4>1. ASSUME NEW d \in lo .. hi + 7
            PROVE  d \in Nat /\ d % 7 = IF d < 7 THEN d ELSE d - 7
        BY <3>4
      <4>2. v % 7 = v /\ (v + 7) % 7 = v
        BY <3>4
      <4>3. v >= lo => v \in lo .. hi + 7
        BY <3>4
      <4>4. v <= hi => v + 7 \in lo .. hi + 7
        BY <3>4
      <4>5. ASSUME NEW d \in lo .. hi + 7 PROVE d % 7 >= lo \/ d % 7 <= hi
        BY <3>4, <4>1
      <4> QED BY <4>2, <4>3, <4>4, <4>5
    <3> QED BY <3>1, <3>2, <3>3, <3>5
  <2> QED BY <1>1, <2>3, <2>4, <2>5
<1> QED BY <1>5, <1>6, <1>7

-----------------------------------------------------------------------------
(* What Next answers is later than the time it is asked for, is named by the *)
(* schedule, and is the first such minute; no answer means that none is in   *)
(* what was searched.  Ranges that step over Sunday are passed over.         *)
FirstNamed(s, t, n) ==
    /\ n = ZeroTime \/ n \in Nat
    /\ n # ZeroTime =>
           /\ n > t /\ CF!SaysNow(s, CF!ThisMinute(n))
           /\ \/ CF!StepsOverSunday(s)
              \/ \A m \in CF!ThisMinute(t) + 1 .. CF!ThisMinute(n) - 1 : ~ CF!SaysNow(s, m)
    /\ n = ZeroTime /\ ~ CF!StepsOverSunday(s) =>
           \A m \in 1 .. (IF s.kind = "full" THEN CF!YearLength ELSE 1) * CF!DayLength :
               ~ CF!SaysNow(s, CF!ThisMinute(t) + m)

LEMMA HalfMinutes ==
    ASSUME NEW t \in Nat
    PROVE  /\ CF!ThisMinute(t) \in Nat
           /\ t = 2 * CF!ThisMinute(t) \/ t = 2 * CF!ThisMinute(t) + 1
           /\ CF!ThisMinute(2 * t) = t
           /\ \A k \in Nat : CF!ThisMinute(t + 2 * k) = CF!ThisMinute(t) + k
BY DEF CF!ThisMinute

LEMMA Earliest ==
    ASSUME NEW S, S \subseteq Nat, S # {}
    PROVE  CF!Min(S) \in S /\ \A m \in S : CF!Min(S) <= m
<1>1. \E n \in S : \A m \in S : n <= m
  BY Least
<1> QED BY <1>1 DEF CF!Min

(* The clock and the day of a minute.                                        *)
At(q, h, m) == CF!DayLength * q + (h * Minutes + m)
Reads(x, q, h, m) ==
    /\ x = At(q, h, m) /\ CF!MinuteOf(x) = m /\ CF!HourOf(x) = h
    /\ x \div CF!DayLength = q /\ CF!WeekdayOf(x) = q % 7

LEMMA Lengths ==
    ASSUME CF!ScheduleAssumption
    PROVE  Minutes \in Nat \ {0} /\ Hours \in Nat \ {0} /\ CF!DayLength \in Nat \ {0}
<1>1. Minutes \in Nat \ {0} /\ Hours \in Nat \ {0}
  BY DEF CF!ScheduleAssumption
<1>2. Minutes * Hours \in Nat \ {0}
  <2>1. Minutes * Hours \in Nat /\ Minutes * 0 = 0
    BY <1>1
  <2>2. Minutes * 0 + Minutes <= Minutes * Hours
    BY <1>1, Multiples, 0 < Hours
  <2> QED BY <1>1, <2>1, <2>2
<1> QED BY <1>1, <1>2 DEF CF!DayLength

LEMMA InTheDay ==
    ASSUME CF!ScheduleAssumption, NEW h \in 0 .. Hours - 1, NEW m \in 0 .. Minutes - 1
    PROVE  h * Minutes + m \in 0 .. CF!DayLength - 1
<1>1. Minutes * h + Minutes <= Minutes * Hours /\ Minutes * h = h * Minutes
  BY Lengths, Multiples, Products
<1>2. h * Minutes \in Nat /\ Minutes * Hours \in Nat
  BY Lengths, Products
<1> QED BY Lengths, <1>1, <1>2 DEF CF!DayLength

LEMMA AtClock ==
    ASSUME CF!ScheduleAssumption,
           NEW q \in Nat, NEW h \in 0 .. Hours - 1, NEW m \in 0 .. Minutes - 1
    PROVE  At(q, h, m) \in Nat /\ Reads(At(q, h, m), q, h, m)
<1> DEFINE D == CF!DayLength
           r == h * Minutes + m
           x == D * q + r
           a == Hours * q + h
<1>1. Minutes \in Nat \ {0} /\ Hours \in Nat \ {0} /\ D \in Nat \ {0} /\ h \in Nat /\ m \in Nat
  BY Lengths
<1>2. r \in 0 .. D - 1 /\ D * q \in Nat /\ a \in Nat
  <2>1. D * q \in Nat /\ Hours * q \in Nat
    BY <1>1, Products
  <2> QED BY <1>1, <2>1, InTheDay
<1>3. x \in Nat
  BY <1>2
<1>4. x \div D = q
  BY <1>1, <1>2, DivUnique
<1>5. x = Minutes * a + m
  <2>1. Minutes * a = Minutes * (Hours * q) + Minutes * h /\ Minutes * h = h * Minutes
    BY <1>1, Products
  <2>2. Minutes * (Hours * q) = D * q
    BY <1>1, Products DEF CF!DayLength
  <2>3. h * Minutes \in Nat
    BY <1>1, Products
  <2> HIDE DEF a, D
  <2> QED BY <1>1, <1>2, <2>1, <2>2, <2>3
<1>6. x % Minutes = m /\ x \div Minutes = a
  <2>1. (Minutes * a + m) % Minutes = m /\ (Minutes * a + m) \div Minutes = a
    BY <1>1, <1>2, DivUnique
  <2> HIDE DEF x, a
  <2> QED BY <1>5, <2>1, Zenon
<1>7. a % Hours = h
  BY <1>1, DivUnique
<1>8. CF!MinuteOf(x) = m /\ CF!HourOf(x) = h /\ CF!WeekdayOf(x) = q % 7
  <2> HIDE DEF x, a
  <2> QED BY <1>4, <1>6, <1>7, Zenon DEF CF!MinuteOf, CF!HourOf, CF!WeekdayOf
<1>9. At(q, h, m) = x
  BY Zenon DEF At
<1> HIDE DEF x
<1> QED BY <1>3, <1>4, <1>8, <1>9, Zenon DEF Reads

LEMMA ClockOf ==
    ASSUME CF!ScheduleAssumption, NEW x \in Nat
    PROVE  \E q \in Nat, h \in 0 .. Hours - 1, m \in 0 .. Minutes - 1 : Reads(x, q, h, m)
<1>1. Minutes \in Nat \ {0} /\ Hours \in Nat \ {0}
  BY Lengths
<1>2. PICK a \in Nat, m \in 0 .. Minutes - 1 :
            x = Minutes * a + m /\ x \div Minutes = a /\ x % Minutes = m
  BY <1>1, DivMod, Zenon
<1>3. PICK q \in Nat, h \in 0 .. Hours - 1 :
            a = Hours * q + h /\ a \div Hours = q /\ a % Hours = h
  BY <1>1, DivMod, Zenon
<1>4. x = At(q, h, m)
  <2>1. Minutes * (Hours * q + h) = Minutes * (Hours * q) + Minutes * h
        /\ Minutes * (Hours * q) = (Minutes * Hours) * q /\ Minutes * h = h * Minutes
    BY <1>1, Products, Hours * q \in Nat, h \in Nat
  <2>2. (Minutes * Hours) * q \in Nat /\ h * Minutes \in Nat
    BY <1>1, Products, Minutes * Hours \in Nat, h \in Nat
  <2>3. x = (Minutes * Hours) * q + h * Minutes + m
    BY <1>2, <1>3, <2>1, Zenon
  <2>4. x = (Minutes * Hours) * q + (h * Minutes + m)
    BY <2>2, <2>3
  <2> QED BY <2>4, Zenon DEF At, CF!DayLength
<1>5. Reads(At(q, h, m), q, h, m)
  BY AtClock
<1> QED BY <1>4, <1>5, Zenon

(* A time of the day comes once a day: of two minutes with the same clock    *)
(* the later is on a later day.                                              *)
LEMMA LaterDay ==
    ASSUME CF!ScheduleAssumption, NEW h \in 0 .. Hours - 1, NEW m \in 0 .. Minutes - 1,
           NEW a \in Nat, NEW b \in Nat, At(a, h, m) < At(b, h, m)
    PROVE  a < b
<1>1. h * Minutes + m \in 0 .. CF!DayLength - 1
  BY InTheDay
<1>2. CF!DayLength * a + (h * Minutes + m) < CF!DayLength * b + (h * Minutes + m)
  BY DEF At
<1> QED BY <1>1, <1>2, Lengths, OnceADay

LEMMA WholeDays ==
    ASSUME CF!ScheduleAssumption, NEW h \in 0 .. Hours - 1, NEW m \in 0 .. Minutes - 1,
           NEW a \in Nat, NEW k \in Nat
    PROVE  At(a + k, h, m) = At(a, h, m) + k * CF!DayLength /\ k * CF!DayLength \in Nat
<1> DEFINE D == CF!DayLength
           r == h * Minutes + m
<1>1. D \in Nat \ {0} /\ r \in Nat
  BY Lengths, InTheDay
<1>2. D * (a + k) = D * a + D * k /\ D * k = k * D /\ D * a \in Nat /\ D * k \in Nat
  BY <1>1, Products
<1>3. At(a, h, m) = D * a + r /\ At(a + k, h, m) = D * (a + k) + r
  BY Zenon DEF At
<1> HIDE DEF D, r
<1>4. At(a + k, h, m) = At(a, h, m) + k * D /\ k * D \in Nat
  BY <1>1, <1>2, <1>3
<1> QED BY <1>4 DEF D

LEMMA Later ==
    ASSUME NEW d \in Nat, NEW x \in Nat, NEW y \in Nat, x + d <= y,
           NEW o \in 0 .. d - 1, NEW r \in 0 .. d - 1
    PROVE  y + r > x + o /\ x + r <= y + o
OBVIOUS

(* The day of the minute t falls in: a time of a later day is still ahead,   *)
(* one of an earlier day is past.                                            *)
LEMMA Today ==
    ASSUME CF!ScheduleAssumption, NEW t \in Nat,
           NEW h \in 0 .. Hours - 1, NEW m \in 0 .. Minutes - 1
    PROVE  \E p \in Nat : /\ CF!DailyFrom(t, h, m) = At(p, h, m)
                          /\ CF!WeekdayOf(CF!ThisMinute(t)) = p % 7
                          /\ \A a \in Nat : a > p => At(a, h, m) > CF!ThisMinute(t)
                          /\ \A a \in Nat : a < p => At(a, h, m) <= CF!ThisMinute(t)
<1> DEFINE D == CF!DayLength
           T == CF!ThisMinute(t)
           r == h * Minutes + m
<1>1. D \in Nat \ {0} /\ r \in 0 .. D - 1 /\ T \in Nat /\ h * Minutes \in Nat /\ m \in Nat
  <2>1. D \in Nat \ {0} /\ r \in 0 .. D - 1 /\ T \in Nat /\ h \in Nat /\ m \in Nat /\ Minutes \in Nat
    <3>1. D \in Nat \ {0} /\ r \in 0 .. D - 1 /\ Minutes \in Nat
      BY Lengths, InTheDay
    <3>2. T \in Nat
      BY HalfMinutes
    <3> QED BY <3>1, <3>2
  <2>2. h * Minutes \in Nat
    BY <2>1, Products
  <2> QED BY <2>1, <2>2
<1>2. PICK p \in Nat, o \in 0 .. D - 1 : T = D * p + o /\ T \div D = p
  <2>1. D \in Nat \ {0} /\ T \in Nat
    BY <1>1
  <2> HIDE DEF D, T
  <2> QED BY <2>1, DivMod
<1>3. CF!DailyFrom(t, h, m) = At(p, h, m)
  <2>1. p * D = D * p /\ D * p \in Nat
    BY <1>1, Products
  <2>2. CF!DailyFrom(t, h, m) = (T \div D) * D + h * Minutes + m
    BY Zenon DEF CF!DailyFrom
  <2> HIDE DEF T, D
  <2>3. CF!DailyFrom(t, h, m) = D * p + h * Minutes + m
    BY <1>2, <2>1, <2>2, Zenon
  <2>4. CF!DailyFrom(t, h, m) = D * p + (h * Minutes + m)
    BY <1>1, <2>1, <2>3
  <2> QED BY <2>4, Zenon DEF At, D
<1>4. CF!WeekdayOf(T) = p % 7
  BY <1>2, Zenon DEF CF!WeekdayOf
<1>5. ASSUME NEW a \in Nat PROVE At(a, h, m) = D * a + r /\ D * a \in Nat /\ D * p \in Nat
  BY <1>1, Products, Zenon DEF At
<1>6. ASSUME NEW a \in Nat, a > p PROVE At(a, h, m) > T
  <2>1. D * p + D <= D * a
    BY <1>1, <1>6, Multiples
  <2>2. D * a + r > D * p + o
    <3> HIDE DEF D, r
    <3> QED BY <1>1, <1>5, <2>1, Later
  <2> HIDE DEF D, T, r
  <2> QED BY <1>2, <1>5, <2>2, Zenon
<1>7. ASSUME NEW a \in Nat, a < p PROVE At(a, h, m) <= T
  <2>1. D * a + D <= D * p
    BY <1>1, <1>7, Multiples
  <2>2. D * a + r <= D * p + o
    <3> HIDE DEF D, r
    <3> QED BY <1>1, <1>5, <2>1, Later
  <2> HIDE DEF D, T, r
  <2> QED BY <1>2, <1>5, <2>2, Zenon
<1> QED BY <1>3, <1>4, <1>6, <1>7

-----------------------------------------------------------------------------
(* Daily and Weekly *)

LEMMA ClockIsFirst ==
    ASSUME CF!ScheduleAssumption, NEW t \in Nat, NEW s, NEW n \in Nat,
           NEW h \in 0 .. Hours - 1, NEW m \in 0 .. Minutes - 1,
           s.kind \in {"daily", "weekly"}, s.hour = h, s.minute = m,
           At(n, h, m) > CF!ThisMinute(t), s.kind = "weekly" => s.day = n % 7,
           \A a \in Nat : a < n /\ At(a, h, m) > CF!ThisMinute(t) =>
                             s.kind = "weekly" /\ s.day # a % 7
    PROVE  FirstNamed(s, t, 2 * At(n, h, m))
<1> DEFINE T == CF!ThisMinute(t)
           z == At(n, h, m)
<1>1. T \in Nat /\ (t = 2 * T \/ t = 2 * T + 1) /\ z \in Nat /\ CF!ThisMinute(2 * z) = z
      /\ ZeroTime \notin Int
  BY HalfMinutes, AtClock DEF CF!ScheduleAssumption
<1>2. 2 * z \in Nat /\ 2 * z > t /\ 2 * z # ZeroTime
  <2> HIDE DEF z, T
  <2>1. z > T
    BY DEF z, T
  <2> QED BY <1>1, <2>1
<1>3. CF!MinuteOf(z) = m /\ CF!HourOf(z) = h /\ CF!WeekdayOf(z) = n % 7
  BY AtClock DEF Reads
<1>4. CF!SaysNow(s, z)
  <2> HIDE DEF z
  <2>1. CASE s.kind = "daily"
    BY <1>3, <2>1 DEF CF!SaysNow
  <2>2. CASE s.kind = "weekly"
    BY <1>3, <2>2 DEF CF!SaysNow
  <2> QED BY <2>1, <2>2
<1>5. ASSUME NEW x \in T + 1 .. z - 1, CF!SaysNow(s, x) PROVE FALSE
  <2>1. x \in Nat /\ x > T /\ x < z
    <3> HIDE DEF z, T
    <3> QED BY <1>1
  <2>2. CF!MinuteOf(x) = m /\ CF!HourOf(x) = h /\ (s.kind = "weekly" => CF!WeekdayOf(x) = s.day)
    <3>1. CASE s.kind = "daily"
      BY <1>5, <3>1 DEF CF!SaysNow
    <3>2. CASE s.kind = "weekly"
      BY <1>5, <3>2 DEF CF!SaysNow
    <3> QED BY <3>1, <3>2
  <2>3. PICK a \in Nat, g \in 0 .. Hours - 1, k \in 0 .. Minutes - 1 : Reads(x, a, g, k)
    BY <2>1, ClockOf
  <2>4. x = At(a, h, m) /\ CF!WeekdayOf(x) = a % 7
    BY <2>2, <2>3, Zenon DEF Reads
  <2>5. a < n
    <3>1. At(a, h, m) < At(n, h, m)
      BY <2>1, <2>4
    <3> QED BY <3>1, LaterDay
  <2>6. At(a, h, m) > CF!ThisMinute(t)
    BY <2>1, <2>4
  <2>7. s.kind = "weekly" /\ s.day # a % 7
    BY <2>5, <2>6
  <2> QED BY <2>2, <2>4, <2>7, Zenon
<1> HIDE DEF z, T
<1>6. \A x \in T + 1 .. z - 1 : ~ CF!SaysNow(s, x)
  BY <1>5
<1>7. \A x \in CF!ThisMinute(t) + 1 .. CF!ThisMinute(2 * z) - 1 : ~ CF!SaysNow(s, x)
  BY <1>1, <1>6, Zenon DEF T
<1>8. CF!SaysNow(s, CF!ThisMinute(2 * z))
  BY <1>1, <1>4, Zenon
<1> QED BY <1>2, <1>7, <1>8, Zenon DEF FirstNamed, z

LEMMA DailyIsFirst ==
    ASSUME CF!ScheduleAssumption, NEW h \in CF!HourSet, NEW m \in CF!MinuteSet, NEW t \in Nat,
           NEW s, s.kind = "daily", s.hour = h, s.minute = m
    PROVE  FirstNamed(s, t, CF!DailyNext(h, m, t))
<1> DEFINE D == CF!DayLength
           T == CF!ThisMinute(t)
<1>1. h \in 0 .. Hours - 1 /\ m \in 0 .. Minutes - 1 /\ T \in Nat /\ (t = 2 * T \/ t = 2 * T + 1)
      /\ D \in Nat
  BY HalfMinutes, Lengths DEF CF!HourSet, CF!MinuteSet
<1>2. PICK p \in Nat : /\ CF!DailyFrom(t, h, m) = At(p, h, m)
                       /\ \A a \in Nat : a > p => At(a, h, m) > T
                       /\ \A a \in Nat : a < p => At(a, h, m) <= T
  BY <1>1, Today
<1>3. At(p, h, m) \in Nat
  BY <1>1, AtClock
<1>4. ASSUME NEW a \in Nat PROVE At(a, h, m) \in Nat
  BY <1>1, AtClock
<1>5. CASE 2 * At(p, h, m) <= t
  <2>1. At(p, h, m) <= T
    <3> HIDE DEF T
    <3> QED BY <1>1, <1>3, <1>5
  <2>2. At(p + 1, h, m) = At(p, h, m) + 1 * D /\ p + 1 \in Nat /\ p + 1 > p
    <3>1. At(p + 1, h, m) = At(p, h, m) + 1 * D
      <4> DEFINE one == 1
      <4>1. one \in Nat
        OBVIOUS
      <4> HIDE DEF one
      <4>2. At(p + one, h, m) = At(p, h, m) + one * D
        BY <1>1, <4>1, WholeDays
      <4> QED BY <4>2 DEF one
    <3> QED BY <3>1
  <2>3. CF!DailyNext(h, m, t) = 2 * At(p, h, m) + 2 * D
    BY <1>2, <1>5 DEF CF!DailyNext
  <2>4. CF!DailyNext(h, m, t) = 2 * At(p + 1, h, m)
    <3> HIDE DEF D, T
    <3> QED BY <1>1, <1>3, <2>2, <2>3
  <2>5. At(p + 1, h, m) > T
    BY <1>2, <2>2
  <2>6. ASSUME NEW a \in Nat, a < p + 1, At(a, h, m) > T PROVE FALSE
    <3>1. a = p \/ a < p
      BY <2>6
    <3> HIDE DEF T
    <3> QED BY <1>1, <1>2, <1>4, <2>1, <2>6, <3>1
  <2>7. FirstNamed(s, t, 2 * At(p + 1, h, m))
    BY <1>1, <2>2, <2>5, <2>6, ClockIsFirst
  <2> QED BY <2>4, <2>7, Zenon
<1>6. CASE ~ (2 * At(p, h, m) <= t)
  <2>1. At(p, h, m) > T
    <3> HIDE DEF T
    <3> QED BY <1>1, <1>3, <1>6
  <2>2. CF!DailyNext(h, m, t) = 2 * At(p, h, m)
    BY <1>2, <1>6 DEF CF!DailyNext
  <2>3. ASSUME NEW a \in Nat, a < p, At(a, h, m) > T PROVE FALSE
    <3> HIDE DEF T
    <3> QED BY <1>1, <1>2, <1>4, <2>3
  <2>4. FirstNamed(s, t, 2 * At(p, h, m))
    BY <1>1, <2>1, <2>3, ClockIsFirst
  <2> QED BY <2>2, <2>4, Zenon
<1> QED BY <1>5, <1>6

LEMMA WeeklyIsFirst ==
    ASSUME CF!ScheduleAssumption, NEW h \in CF!HourSet, NEW m \in CF!MinuteSet, NEW t \in Nat,
           NEW d \in 0 .. 6,
           NEW s, s.kind = "weekly", s.hour = h, s.minute = m, s.day = d
    PROVE  FirstNamed(s, t, CF!WeeklyNext(d, h, m, t))
<1> DEFINE D == CF!DayLength
           T == CF!ThisMinute(t)
<1>1. h \in 0 .. Hours - 1 /\ m \in 0 .. Minutes - 1 /\ T \in Nat /\ (t = 2 * T \/ t = 2 * T + 1)
      /\ D \in Nat
  BY HalfMinutes, Lengths DEF CF!HourSet, CF!MinuteSet
<1>2. PICK p \in Nat : /\ CF!DailyFrom(t, h, m) = At(p, h, m) /\ CF!WeekdayOf(T) = p % 7
                       /\ \A a \in Nat : a > p => At(a, h, m) > T
                       /\ \A a \in Nat : a < p => At(a, h, m) <= T
  BY <1>1, Today
<1> DEFINE u == (d - (p % 7) + 7) % 7
<1>3. u \in 0 .. 6 /\ (p + u) % 7 = d
  OBVIOUS
<1> HIDE DEF u
<1>4. /\ At(p + u, h, m) = At(p, h, m) + u * D /\ p + u \in Nat /\ u * D \in Nat
      /\ At(p + u + 7, h, m) = At(p + u, h, m) + 7 * D /\ p + u + 7 \in Nat
  <2>1. u \in Nat /\ p + u \in Nat /\ p + u + 7 \in Nat /\ 7 \in Nat
    BY <1>3
  <2>2. At(p + u, h, m) = At(p, h, m) + u * D /\ u * D \in Nat
    BY <1>1, <2>1, WholeDays
  <2>3. At((p + u) + 7, h, m) = At(p + u, h, m) + 7 * D
    BY <1>1, <2>1, WholeDays
  <2> QED BY <2>1, <2>2, <2>3
<1>5. ASSUME NEW a \in Nat PROVE At(a, h, m) \in Nat
  BY <1>1, AtClock
<1> DEFINE at == 2 * At(p + u, h, m)
<1>6. CF!WeeklyNext(d, h, m, t) = IF at <= t THEN at + 14 * D ELSE at
  <2>1. (d - CF!WeekdayOf(T) + 7) % 7 = u
    <3> HIDE DEF T
    <3>1. CF!WeekdayOf(T) = p % 7
      BY <1>2
    <3> QED BY <3>1 DEF u
  <2>2. CF!DailyFrom(t, h, m) + u * D = At(p + u, h, m)
    BY <1>2, <1>4, Zenon
  <2> QED BY <2>1, <2>2, Zenon DEF CF!WeeklyNext, CF!Passed
<1>7. ASSUME NEW a \in Nat, At(a, h, m) > T, a % 7 = d PROVE a >= p + u
  <2>1. a >= p
    BY <1>1, <1>2, <1>5, <1>7
  <2> QED BY <1>3, <1>7, <2>1
<1>8. CASE at <= t
  <2>1. At(p + u, h, m) <= T
    <3> HIDE DEF T
    <3> QED BY <1>1, <1>4, <1>5, <1>8
  <2>2. u = 0
    <3>1. ~ (p + u > p)
      BY <1>1, <1>2, <1>4, <1>5, <2>1
    <3> QED BY <1>3, <3>1
  <2>3. CF!WeeklyNext(d, h, m, t) = 2 * At(p + u + 7, h, m)
    <3>1. CF!WeeklyNext(d, h, m, t) = 2 * At(p + u, h, m) + 14 * D
      BY <1>6, <1>8, Zenon
    <3> HIDE DEF T, D
    <3> QED BY <1>1, <1>4, <1>5, <3>1
  <2>4. At(p + u + 7, h, m) > T /\ (p + u + 7) % 7 = d
    <3>1. p + u + 7 > p
      BY <1>3
    <3> QED BY <1>2, <1>3, <1>4, <3>1
  <2>5. ASSUME NEW a \in Nat, a < p + u + 7, At(a, h, m) > T PROVE a % 7 # d
    <3> SUFFICES ASSUME a % 7 = d PROVE FALSE
      OBVIOUS
    <3>1. a >= p + u
      BY <1>7, <2>5
    <3>2. a # p + u
      BY <1>1, <1>5, <2>1, <2>5
    <3> QED BY <1>3, <2>2, <2>5, <3>1, <3>2
  <2>6. FirstNamed(s, t, 2 * At(p + u + 7, h, m))
    <3>1. \A a \in Nat : a < p + u + 7 /\ At(a, h, m) > T => s.kind = "weekly" /\ s.day # a % 7
      BY <2>5
    <3> QED BY <1>1, <1>4, <2>4, <3>1, ClockIsFirst
  <2> QED BY <2>3, <2>6, Zenon
<1>9. CASE ~ (at <= t)
  <2>1. At(p + u, h, m) > T
    <3> HIDE DEF T
    <3> QED BY <1>1, <1>4, <1>5, <1>9
  <2>2. ASSUME NEW a \in Nat, a < p + u, At(a, h, m) > T PROVE a % 7 # d
    BY <1>3, <1>7, <2>2
  <2>3. FirstNamed(s, t, 2 * At(p + u, h, m))
    <3>1. \A a \in Nat : a < p + u /\ At(a, h, m) > T => s.kind = "weekly" /\ s.day # a % 7
      BY <2>2
    <3> QED BY <1>1, <1>3, <1>4, <2>1, <3>1, ClockIsFirst
  <2>4. CF!WeeklyNext(d, h, m, t) = 2 * At(p + u, h, m)
    BY <1>6, <1>9, Zenon
  <2> QED BY <2>3, <2>4, Zenon
<1> QED BY <1>8, <1>9

-----------------------------------------------------------------------------
(* Cron *)

LEMMA SimpleIsFirst ==
    ASSUME CF!ScheduleAssumption, NEW t \in Nat, NEW s, s.kind = "simple"
    PROVE  FirstNamed(s, t, CF!SimpleNext(s.minutes, s.hours, t))
<1> DEFINE D == CF!DayLength
           T == CF!ThisMinute(t)
           Named(n) == CF!MinuteOf(T + n) \in s.minutes /\ CF!HourOf(T + n) \in s.hours
           hits == {n \in 1 .. D : Named(n)}
           first == CF!SimpleNext(s.minutes, s.hours, t)
<1>1. /\ T \in Nat /\ (t = 2 * T \/ t = 2 * T + 1) /\ D \in Nat \ {0} /\ ZeroTime \notin Int
      /\ \A k \in Nat : CF!ThisMinute(t + 2 * k) = T + k
  BY HalfMinutes, Lengths DEF CF!ScheduleAssumption
<1>2. first = IF hits = {} THEN ZeroTime ELSE t + 2 * CF!Min(hits)
  BY Zenon DEF CF!SimpleNext
<1>3. ASSUME NEW n PROVE Named(n) <=> CF!SaysNow(s, T + n)
  BY Zenon DEF CF!SaysNow
<1>4. ASSUME NEW n \in hits PROVE n \in 1 .. D /\ n \in Nat /\ Named(n)
  BY <1>1
<1> HIDE DEF Named, T
<1>5. CASE hits = {}
  <2>1. first = ZeroTime
    BY <1>2, <1>5
  <2>2. ASSUME NEW n \in 1 .. 1 * D PROVE ~ CF!SaysNow(s, T + n)
    <3>1. n \in 1 .. D
      BY <1>1
    <3> QED BY <1>3, <1>5, <3>1
  <2> HIDE DEF hits
  <2>3. FirstNamed(s, t, first)
    <3> HIDE DEF first
    <3> QED BY <2>1, <2>2 DEF FirstNamed, T
  <2> QED BY <2>3
<1>6. CASE hits # {}
  <2> DEFINE k == CF!Min(hits)
  <2>1. k \in hits /\ \A n \in hits : k <= n
    <3>1. hits \subseteq Nat
      BY <1>4
    <3> HIDE DEF hits
    <3> QED BY <1>6, <3>1, Earliest
  <2>2. k \in 1 .. D /\ k \in Nat /\ Named(k) /\ k > 0
    BY <1>1, <1>4, <2>1
  <2>3. first = t + 2 * k
    BY <1>2, <1>6, Zenon
  <2> HIDE DEF k, hits, first
  <2>4. first \in Nat /\ first > t /\ CF!ThisMinute(first) = T + k /\ first # ZeroTime
    <3>1. CF!ThisMinute(first) = T + k
      BY <1>1, <2>2, <2>3, Zenon
    <3> QED BY <1>1, <2>2, <2>3, <3>1
  <2>5. CF!SaysNow(s, CF!ThisMinute(first))
    BY <1>3, <2>2, <2>4, Zenon
  <2>6. ASSUME NEW x \in T + 1 .. T + k - 1, CF!SaysNow(s, x) PROVE FALSE
    <3> DEFINE n == x - T
    <3>1. n \in 1 .. D /\ x = T + n /\ n < k
      BY <1>1, <2>2
    <3> HIDE DEF n
    <3>2. Named(n)
      BY <1>3, <2>6, <3>1, Zenon
    <3>3. n \in hits
      BY <3>1, <3>2, Zenon DEF hits
    <3>4. k <= n /\ n \in Nat
      BY <1>1, <2>1, <3>1, <3>3
    <3> QED BY <2>2, <3>1, <3>4
  <2>7. \A x \in CF!ThisMinute(t) + 1 .. CF!ThisMinute(first) - 1 : ~ CF!SaysNow(s, x)
    <3>1. \A x \in T + 1 .. T + k - 1 : ~ CF!SaysNow(s, x)
      BY <2>6
    <3>2. CF!ThisMinute(t) = T /\ CF!ThisMinute(first) = T + k
      BY <2>4 DEF T
    <3> HIDE DEF first
    <3> QED BY <1>1, <2>2, <3>1, <3>2
  <2>8. FirstNamed(s, t, first)
    BY <2>4, <2>5, <2>7 DEF FirstNamed
  <2> QED BY <2>8 DEF first
<1> QED BY <1>5, <1>6

-----------------------------------------------------------------------------
(* ParseCronStrict *)

LEMMA ValueInField ==
    ASSUME CF!ScheduleAssumption, NEW x \in Nat, NEW f \in CF!Fields
    PROVE  CF!ValueAt(f, x) \in CF!Low[f] .. CF!High[f]
<1>1. CASE f = "minute"
  <2>1. x % Minutes \in 0 .. Minutes - 1
    BY Lengths
  <2>2. CF!ValueAt(f, x) = x % Minutes /\ CF!Low[f] = 0 /\ CF!High[f] = Minutes - 1
    BY <1>1, Zenon DEF CF!ValueAt, CF!MinuteOf, CF!Low, CF!High
  <2> QED BY <2>1, <2>2, Zenon
<1>2. CASE f = "hour"
  <2>1. PICK a \in Nat : a = x \div Minutes
    BY Lengths, DivMod
  <2>2. a % Hours \in 0 .. Hours - 1
    BY Lengths
  <2>3. CF!ValueAt(f, x) = a % Hours /\ CF!Low[f] = 0 /\ CF!High[f] = Hours - 1
    BY <1>2, <2>1 DEF CF!ValueAt, CF!HourOf, CF!Low, CF!High
  <2> QED BY <2>2, <2>3, Zenon
<1>3. PICK d \in Nat : d = x \div CF!DayLength
  BY Lengths, DivMod
<1>4. CF!DayOf(x) \in 0 .. 14
  <2>1. CF!DayOf(x) = d % 15
    BY <1>3, Zenon DEF CF!DayOf, CF!Cycle
  <2> QED BY <2>1
<1>5. CF!MonthStart(CF!DayOf(x)) \in {0, 3, 7, 10}
      /\ CF!DayOf(x) - CF!MonthStart(CF!DayOf(x)) \in 0 .. 4
  <2>1. ASSUME NEW e \in 0 .. 14
        PROVE  CF!MonthStart(e) \in {0, 3, 7, 10} /\ e - CF!MonthStart(e) \in 0 .. 4
    <3>1. \E s \in {0, 3, 7, 10} : s <= e /\ \A r \in {0, 3, 7, 10} : r <= e => r <= s
      <4>1. CASE e < 3
        BY <4>1
      <4>2. CASE e >= 3 /\ e < 7
        BY <4>2
      <4>3. CASE e >= 7 /\ e < 10
        BY <4>3
      <4>4. CASE e >= 10
        BY <4>4
      <4> QED BY <4>1, <4>2, <4>3, <4>4
    <3>2. /\ CF!MonthStart(e) \in {0, 3, 7, 10} /\ CF!MonthStart(e) <= e
          /\ \A r \in {0, 3, 7, 10} : r <= e => r <= CF!MonthStart(e)
      BY <3>1, Zenon DEF CF!MonthStart
    <3> QED BY <3>2
  <2> QED BY <1>4, <2>1
<1>6. CASE f = "day"
  <2>1. CF!ValueAt(f, x) = CF!DayOf(x) - CF!MonthStart(CF!DayOf(x)) + 1
        /\ CF!Low[f] = 1 /\ CF!High[f] = 5
    BY <1>6 DEF CF!ValueAt, CF!DayOfMonth, CF!Low, CF!High
  <2> QED BY <1>4, <1>5, <2>1
<1>7. CASE f = "month"
  BY <1>7 DEF CF!ValueAt, CF!MonthOf, CF!Low, CF!High
<1>8. CASE f = "weekday"
  <2>1. CF!ValueAt(f, x) = d % 7 /\ CF!Low[f] = 0 /\ CF!High[f] = 6
    BY <1>3, <1>8 DEF CF!ValueAt, CF!WeekdayOf, CF!Low, CF!High
  <2> QED BY <2>1
<1> QED BY <1>1, <1>2, <1>6, <1>7, <1>8 DEF CF!Fields

LEMMA MatchMeans ==
    ASSUME CF!ScheduleAssumption, NEW s, s.kind = "full", s.fields \in Expressions,
           CF!ParseCronStrict(s.fields), NEW x \in Nat
    PROVE  /\ CF!Match(s.fields, x) => CF!SaysNow(s, x)
           /\ CF!SaysNow(s, x) /\ ~ CF!StepsOverSunday(s) => CF!Match(s.fields, x)
<1> DEFINE e == s.fields
<1>1. ASSUME NEW f \in CF!Fields, NEW i \in e[f]
      PROVE  /\ CF!MatchItem(f, i, CF!ValueAt(f, x)) => CF!ValueAt(f, x) \in CF!Says(f, i)
             /\ CF!ValueAt(f, x) \in CF!Says(f, i) => \/ CF!MatchItem(f, i, CF!ValueAt(f, x))
                                                      \/ CF!StepsOverSunday(s)
  <2>1. i \in CF!Items /\ CF!ItemAccepted(f, i)
    BY DEF CF!ScheduleAssumption, CF!ParseCronStrict
  <2>2. CF!ValueAt(f, x) \in CF!Low[f] .. CF!High[f]
    BY ValueInField
  <2>3. i.step > 0 /\ CF!OverSunday(f, i) => CF!StepsOverSunday(s)
    <3>1. CF!OverSunday(f, i) => f = "weekday"
      BY DEF CF!OverSunday
    <3> QED BY <3>1 DEF CF!StepsOverSunday
  <2> QED BY <2>1, <2>2, <2>3, ItemMeans, Zenon
<1>2. CF!Match(e, x) <=>
          \A f \in CF!Fields : \E i \in e[f] : CF!MatchItem(f, i, CF!ValueAt(f, x))
  BY Zenon DEF CF!Match, CF!MatchField
<1>3. CF!SaysNow(s, x) <=>
          \A f \in CF!Fields : \E i \in e[f] : CF!ValueAt(f, x) \in CF!Says(f, i)
  BY DEF CF!SaysNow
<1> QED BY <1>1, <1>2, <1>3, Zenon

LEMMA FullIsFirst ==
    ASSUME CF!ScheduleAssumption, NEW t \in Nat, NEW s, s.kind = "full",
           s.fields \in Expressions, CF!ParseCronStrict(s.fields)
    PROVE  FirstNamed(s, t, CF!FullNext(s.fields, t))
<1> DEFINE T == CF!ThisMinute(t)
           L == CF!YearLength * CF!DayLength
           S == {x \in T + 1 .. T + 1 + L - 1 : CF!Match(s.fields, x)}
           first == CF!FullNext(s.fields, t)
<1>1. /\ T \in Nat /\ (t = 2 * T \/ t = 2 * T + 1) /\ L \in Nat /\ ZeroTime \notin Int
  <2>1. T \in Nat /\ (t = 2 * T \/ t = 2 * T + 1) /\ ZeroTime \notin Int
    BY HalfMinutes DEF CF!ScheduleAssumption
  <2> QED BY <2>1, Lengths DEF CF!YearLength
<1>2. first = IF S = {} THEN ZeroTime ELSE 2 * CF!Min(S)
  BY Zenon DEF CF!FullNext, CF!FirstOf, CF!SearchedAhead
<1> HIDE DEF T, L, first
<1>3. ASSUME NEW x \in T + 1 .. T + L
      PROVE  /\ x \in S => CF!SaysNow(s, x)
             /\ CF!SaysNow(s, x) /\ ~ CF!StepsOverSunday(s) => x \in S
  <2>1. x \in Nat /\ x \in T + 1 .. T + 1 + L - 1
    BY <1>1
  <2> QED BY <2>1, MatchMeans
<1>4. S \subseteq T + 1 .. T + L
  BY <1>1
<1> HIDE DEF S
<1>5. CASE S = {}
  <2>1. first = ZeroTime
    BY <1>2, <1>5
  <2>2. ASSUME NEW n \in 1 .. L, ~ CF!StepsOverSunday(s) PROVE ~ CF!SaysNow(s, T + n)
    <3>1. T + n \in T + 1 .. T + L
      BY <1>1
    <3> QED BY <1>3, <1>5, <2>2, <3>1
  <2>3. FirstNamed(s, t, first)
    BY <2>1, <2>2 DEF FirstNamed, T, L
  <2> QED BY <2>3 DEF first
<1>6. CASE S # {}
  <2> DEFINE k == CF!Min(S)
  <2>1. k \in S /\ \A n \in S : k <= n
    <3>1. S \subseteq Nat
      BY <1>1, <1>4
    <3> QED BY <1>6, <3>1, Earliest
  <2>2. first = 2 * k
    BY <1>2, <1>6, Zenon
  <2> HIDE DEF k
  <2>3. k \in T + 1 .. T + L /\ k \in Nat
    BY <1>1, <1>4, <2>1
  <2>4. first \in Nat /\ first > t /\ CF!ThisMinute(first) = k /\ first # ZeroTime
    <3>1. CF!ThisMinute(2 * k) = k
      BY <2>3, HalfMinutes
    <3> QED BY <1>1, <2>2, <2>3, <3>1
  <2>5. CF!SaysNow(s, CF!ThisMinute(first))
    BY <1>3, <2>1, <2>3, <2>4, Zenon
  <2>6. ASSUME NEW x \in T + 1 .. k - 1, CF!SaysNow(s, x), ~ CF!StepsOverSunday(s) PROVE FALSE
    <3>1. x \in T + 1 .. T + L /\ x < k
      BY <1>1, <2>3
    <3>2. x \in S
      BY <1>3, <2>6, <3>1
    <3> QED BY <1>1, <2>1, <2>3, <3>1, <3>2
  <2>7. ~ CF!StepsOverSunday(s)
        => \A x \in CF!ThisMinute(t) + 1 .. CF!ThisMinute(first) - 1 : ~ CF!SaysNow(s, x)
    <3>1. ~ CF!StepsOverSunday(s) => \A x \in T + 1 .. k - 1 : ~ CF!SaysNow(s, x)
      BY <2>6
    <3> QED BY <2>4, <3>1 DEF T
  <2>8. FirstNamed(s, t, first)
    BY <2>4, <2>5, <2>7 DEF FirstNamed
  <2> QED BY <2>8 DEF first
<1> QED BY <1>5, <1>6 DEF first

-----------------------------------------------------------------------------
(* The schedule of a task *)

SchedOk(s) ==
    \/ s = CF!NoSched
    \/ s.kind = "full" /\ s.fields \in Expressions /\ CF!ParseCronStrict(s.fields)
    \/ s.kind = "daily" /\ s.hour \in CF!HourSet /\ s.minute \in CF!MinuteSet
    \/ /\ s.kind = "weekly" /\ s.hour \in CF!HourSet /\ s.minute \in CF!MinuteSet
       /\ s.day \in 0 .. 6
    \/ s.kind = "simple"

LEMMA AnswerIsFirst ==
    ASSUME CF!ScheduleAssumption, NEW s, SchedOk(s), s # CF!NoSched, NEW t \in Nat
    PROVE  FirstNamed(s, t, CF!NextOf(s, t))
<1>1. CASE s.kind = "full" /\ s.fields \in Expressions /\ CF!ParseCronStrict(s.fields)
  <2>1. CF!NextOf(s, t) = CF!FullNext(s.fields, t)
    BY <1>1 DEF CF!NextOf
  <2> QED BY <1>1, <2>1, FullIsFirst
<1>2. CASE s.kind = "daily" /\ s.hour \in CF!HourSet /\ s.minute \in CF!MinuteSet
  <2>1. CF!NextOf(s, t) = CF!DailyNext(s.hour, s.minute, t)
    BY <1>2 DEF CF!NextOf
  <2> QED BY <1>2, <2>1, DailyIsFirst
<1>3. CASE s.kind = "weekly" /\ s.hour \in CF!HourSet /\ s.minute \in CF!MinuteSet /\ s.day \in 0 .. 6
  <2>1. CF!NextOf(s, t) = CF!WeeklyNext(s.day, s.hour, s.minute, t)
    BY <1>3 DEF CF!NextOf
  <2> QED BY <1>3, <2>1, WeeklyIsFirst
<1>4. CASE s.kind = "simple"
  <2>1. CF!NextOf(s, t) = CF!SimpleNext(s.minutes, s.hours, t)
    BY <1>4 DEF CF!NextOf
  <2> QED BY <1>4, <2>1, SimpleIsFirst
<1> QED BY <1>1, <1>2, <1>3, <1>4 DEF SchedOk

SchedInv ==
    /\ SchedOk(sched) /\ asked \in Nat
    /\ next = ZeroTime \/ next \in Nat
    /\ sched = CF!NoSched => asked = 0 /\ next = ZeroTime
    /\ CF!Asked => FirstNamed(sched, asked, next)

LEMMA SchedInit == CF!Init => SchedInv
BY DEF CF!Init, SchedInv, SchedOk, CF!Asked, CF!NoSched

LEMMA SchedStep ==
    ASSUME CF!ScheduleAssumption, SchedInv, [CF!Next]_CF!vars
    PROVE  SchedInv'
<1>1. ASSUME sched = CF!NoSched, UNCHANGED <<asked, next>>, SchedOk(sched'), sched' # CF!NoSched
      PROVE  SchedInv'
  BY <1>1 DEF SchedInv, CF!Asked
<1>2. CASE CF!ParseCron
  <2>1. PICK e \in Expressions : CF!ParseCronStrict(e) /\ sched' = [kind |-> "full", fields |-> e]
    BY <1>2 DEF CF!ParseCron
  <2>2. sched'.kind = "full" /\ sched'.fields = e /\ sched' # CF!NoSched
    BY <2>1 DEF CF!NoSched
  <2> QED BY <1>1, <1>2, <2>1, <2>2 DEF CF!ParseCron, CF!Unscheduled, SchedOk
<1>3. CASE CF!Daily
  <2>1. PICK h \in CF!HourSet, m \in CF!MinuteSet :
            sched' = [kind |-> "daily", hour |-> h, minute |-> m]
    BY <1>3 DEF CF!Daily
  <2>2. sched'.kind = "daily" /\ sched'.hour = h /\ sched'.minute = m /\ sched' # CF!NoSched
    BY <2>1 DEF CF!NoSched
  <2> QED BY <1>1, <1>3, <2>1, <2>2 DEF CF!Daily, CF!Unscheduled, SchedOk
<1>4. CASE CF!Weekly
  <2>1. PICK d \in 0 .. 6, h \in CF!HourSet, m \in CF!MinuteSet :
            sched' = [kind |-> "weekly", day |-> d, hour |-> h, minute |-> m]
    BY <1>4 DEF CF!Weekly
  <2>2. sched'.kind = "weekly" /\ sched'.day = d /\ sched'.hour = h /\ sched'.minute = m
        /\ sched' # CF!NoSched
    BY <2>1 DEF CF!NoSched
  <2> QED BY <1>1, <1>4, <2>1, <2>2 DEF CF!Weekly, CF!Unscheduled, SchedOk
<1>5. CASE CF!Cron
  <2>1. sched'.kind = "simple" /\ sched' # CF!NoSched
    BY <1>5 DEF CF!Cron, CF!NoSched
  <2> QED BY <1>1, <1>5, <2>1 DEF CF!Cron, CF!Unscheduled, SchedOk
<1>6. ASSUME NEW t \in Nat, CF!Schedule(t) PROVE SchedInv'
  <2>1. sched # CF!NoSched /\ asked' = t /\ next' = CF!NextOf(sched, t) /\ sched' = sched
    BY <1>6 DEF CF!Schedule
  <2>2. FirstNamed(sched, t, CF!NextOf(sched, t))
    BY <2>1, AnswerIsFirst DEF SchedInv
  <2>3. FirstNamed(sched', asked', next')
    BY <2>1, <2>2, Zenon
  <2>4. next' = ZeroTime \/ next' \in Nat
    BY <2>3 DEF FirstNamed
  <2> QED BY <2>1, <2>3, <2>4 DEF SchedInv
<1>7. CASE CF!AddTask
  <2>1. PICK t \in 0 .. MaxAsked : CF!Schedule(t)
    BY <1>7 DEF CF!AddTask
  <2> QED BY <1>6, <2>1 DEF CF!ScheduleAssumption
<1>8. CASE CF!Advance
  <2>1. next \in Nat /\ CF!Schedule(next)
    BY <1>8 DEF CF!Advance, SchedInv
  <2> QED BY <1>6, <2>1
<1>9. CASE UNCHANGED CF!vars
  <2>1. sched' = sched /\ asked' = asked /\ next' = next
    BY <1>9 DEF CF!vars
  <2> QED BY <2>1 DEF SchedInv, CF!Asked
<1> QED BY <1>2, <1>3, <1>4, <1>5, <1>7, <1>8, <1>9 DEF CF!Next

(* A task runs next at the first minute its schedule names after the time it *)
(* was asked for, and it has no next run only when none of the minutes that  *)
(* are looked at is named.                                                   *)
THEOREM SchedulesAnswerTheFirst ==
    CF!ScheduleAssumption /\ CF!Spec => [](CF!NextIsTheEarliest /\ CF!LostOnlyIfNothingIsNamed)
<1> SUFFICES ASSUME CF!ScheduleAssumption
             PROVE  CF!Spec => [](CF!NextIsTheEarliest /\ CF!LostOnlyIfNothingIsNamed)
  OBVIOUS
<1>1. CF!Init => SchedInv
  BY SchedInit
<1>2. SchedInv /\ [CF!Next]_CF!vars => SchedInv'
  BY SchedStep
<1>3. SchedInv => CF!NextIsTheEarliest /\ CF!LostOnlyIfNothingIsNamed
  BY DEF SchedInv, FirstNamed, CF!NextIsTheEarliest, CF!LostOnlyIfNothingIsNamed
<1> QED BY <1>1, <1>2, <1>3, PTL DEF CF!Spec

-----------------------------------------------------------------------------
(* Services: the same of each of them.                                      *)

LEMMA ProbeIsService == ServicesSpec => HC!Spec
<1>1. ServicesInit => HC!Init
  BY DEF ServicesInit
<1>2. [ServicesNext]_everything => [HC!Next]_(HC!vars)
  BY DEF ServicesNext, everything, health, HC!vars
<1> QED BY <1>1, <1>2, PTL DEF ServicesSpec, everything, HC!Spec

LEMMA RegistryIsService == ServicesSpec => RR!Spec
<1>1. ServicesInit => RR!Init
  BY DEF ServicesInit
<1>2. [ServicesNext]_everything => [RR!Next]_(RR!vars)
  BY DEF ServicesNext, everything, registry, RR!vars
<1> QED BY <1>1, <1>2, PTL DEF ServicesSpec, everything, RR!Spec

LEMMA StorageIsService == ServicesSpec => ST!Spec
<1>1. ServicesInit => ST!Init
  BY DEF ServicesInit
<1>2. [ServicesNext]_everything => [ST!Next]_(ST!vars)
  BY DEF ServicesNext, everything, storage, ST!vars
<1> QED BY <1>1, <1>2, PTL DEF ServicesSpec, everything, ST!Spec

LEMMA TxIsService == ServicesSpec => RT!Spec
<1>1. ServicesInit => RT!Init
  BY DEF ServicesInit
<1>2. [ServicesNext]_everything => [RT!Next]_(RT!vars)
  BY DEF ServicesNext, everything, repository, RT!vars
<1> QED BY <1>1, <1>2, PTL DEF ServicesSpec, everything, RT!Spec

LEMMA UploadIsService == ServicesSpec => HT!Spec
<1>1. ServicesInit => HT!Init
  BY DEF ServicesInit
<1>2. [ServicesNext]_everything => [HT!Next]_(HT!vars)
  BY DEF ServicesNext, everything, http, HT!vars, HT!settings
<1> QED BY <1>1, <1>2, PTL DEF ServicesSpec, everything, HT!Spec

LEMMA TraceIsService == ServicesSpec => TR!Spec
<1>1. ServicesInit => TR!Init
  BY DEF ServicesInit
<1>2. [ServicesNext]_everything => [TR!Next]_(TR!vars)
  BY DEF ServicesNext, everything, trace, TR!vars, TR!installed, TR!exporters
<1> QED BY <1>1, <1>2, PTL DEF ServicesSpec, everything, TR!Spec

LEMMA CacheIsService == ServicesSpec => CS!Spec
<1>1. ServicesInit => CS!Init
  BY DEF ServicesInit
<1>2. [ServicesNext]_everything => [CS!Next]_(CS!vars)
  BY DEF ServicesNext, everything, caching, CS!vars
<1> QED BY <1>1, <1>2, PTL DEF ServicesSpec, everything, CS!Spec

LEMMA StreamIsService == ServicesSpec => SS!Spec
<1>1. ServicesInit => SS!Init
  BY DEF ServicesInit
<1>2. [ServicesNext]_everything => [SS!Next]_(SS!vars)
  BY DEF ServicesNext, everything, stream, SS!vars
<1> QED BY <1>1, <1>2, PTL DEF ServicesSpec, everything, SS!Spec

LEMMA CronIsService == ServicesSpec => CF!Spec
<1>1. ServicesInit => CF!Init
  BY DEF ServicesInit
<1>2. [ServicesNext]_everything => [CF!Next]_(CF!vars)
  BY DEF ServicesNext, everything, cron, CF!vars
<1> QED BY <1>1, <1>2, PTL DEF ServicesSpec, everything, CF!Spec

(* No two runs of one health check are in flight at once, whatever probes    *)
(* expire.                                                                   *)
THEOREM OneCheckRuns == ServicesSpec => OneCheckInFlight
BY ProbeIsService, OneCheckAtATime, PTL DEF OneCheckInFlight

(* What a registry accepted is in its engine when Apply returns, and once.   *)
THEOREM AcceptedStaysApplied == ServicesSpec => []AcceptedIsApplied
<1>1. RR!RegistryAssumption
  BY ServiceAssumption
<1> QED BY <1>1, RegistryIsService, AcceptedIsInTheEngine, PTL DEF AcceptedIsApplied

(* A path that was returned leads to the whole source, a failed upload leaves*)
(* no file that could be removed, and Get returns a file whole or not at all.*)
THEOREM StoredStaysWhole == ServicesSpec => []StoredIsWhole
<1>1. ST!StorageAssumption
  BY ServiceAssumption
<1> QED BY <1>1, StorageIsService, FilesAreWhole, PTL DEF StoredIsWhole

(* A transaction commits all that its nested calls meant or nothing, and     *)
(* reads what it wrote.                                                      *)
THEOREM TransactionsCommitWhole == ServicesSpec => []TransactionsAreWhole
<1>1. RT!RepoAssumption
  BY ServiceAssumption
<1> QED BY <1>1, TxIsService, TransactionsStayWhole, PTL DEF TransactionsAreWhole

(* An upload that succeeded wrote its whole body, with the settings that     *)
(* were asked for.                                                           *)
THEOREM UploadsStayWhole == ServicesSpec => []UploadIsWhole
<1>1. HT!UploadAssumption
  BY ServiceAssumption
<1> QED BY <1>1, UploadIsService, UploadsAreWhole, PTL DEF UploadIsWhole

(* However Init and Close overlap, the current provider was never asked to   *)
(* shut down; when they are over no other exporter runs but one whose        *)
(* shutdown was cut short; and calls that did not overlap leave the tracer of*)
(* the current provider.                                                     *)
THEOREM OneExporterIsLeft == ServicesSpec => []OneExporterRuns
<1>1. TR!TraceAssumption
  BY ServiceAssumption
<1> QED BY <1>1, TraceIsService, OneExporterStays, PTL DEF OneExporterRuns

(* A key that was there from the start of a deletion by pattern to its end   *)
(* is gone when that returns without an error.                               *)
THEOREM PatternsStayDeleted == ServicesSpec => PatternIsDeleted
<1>1. CS!CacheAssumption
  BY ServiceAssumption
<1> QED BY <1>1, CacheIsService, PatternsAreDeleted, PTL DEF PatternIsDeleted

(* A stream that says it is done sent all its items, in order.               *)
THEOREM DoneStaysAll == ServicesSpec => []DoneMeansAll
<1>1. SS!StreamAssumption
  BY ServiceAssumption
<1> QED BY <1>1, StreamIsService, StreamsAreWhole, PTL DEF DoneMeansAll

(* The next run of a task is the first its schedule names, and it has none   *)
(* only when nothing that is searched is named.                              *)
THEOREM NextStaysTheEarliest == ServicesSpec => []NextIsTheEarliest
<1>1. CF!ScheduleAssumption
  BY ServiceAssumption
<1> QED BY <1>1, CronIsService, SchedulesAnswerTheFirst, PTL DEF NextIsTheEarliest
=============================================================================
