---------------------------- MODULE HealthChecks ----------------------------
(***************************************************************************)
(* The health checks of router/router.go: probes that run the checks of a  *)
(* handler one after the other, each in a goroutine that a slot keeps from *)
(* running twice at a time, with a timeout for the slot and the answer.    *)
(*                                                                         *)
(* A check may ignore its context and return late, panic, or never return. *)
(***************************************************************************)
EXTENDS Integers

CONSTANTS
    Probes,     \* requests to /health or /readyz, each one at a time
    NumChecks,  \* enabled checks of the handler, run in their order
    MaxProbes   \* probes of each requester (bound)

VARIABLES
    pc,         \* where each probe is: "idle", "slot", "wait" or "done"
    on,         \* the check it is at, by its place
    expired,    \* checkCtx of this probe is done
    result,     \* the status it has for each check
    sent,       \* errCh of the current run: "none" or what was sent
    slot,       \* running of each check: the probe whose goroutine holds it
    check,      \* the goroutine of each check: "off", "running", "ended" or "sent"
    probes      \* probes begun so far

vars == <<pc, on, expired, result, sent, slot, check, probes>>

Checks == 1 .. NumChecks
Free == "free"
Outcomes == {"ok", "error", "timeout"}

TypeOK ==
    /\ pc \in [Probes -> {"idle", "slot", "wait", "done"}]
    /\ on \in [Probes -> 1 .. NumChecks + 1] /\ expired \in [Probes -> BOOLEAN]
    /\ result \in [Probes -> [Checks -> Outcomes \cup {"none"}]]
    /\ sent \in [Probes -> Outcomes \cup {"none"}]
    /\ slot \in [Checks -> Probes \X (1 .. MaxProbes) \cup {<<Free>>}]
    /\ check \in [Checks -> {"off", "running", "ended", "sent"}]

Init ==
    /\ pc = [p \in Probes |-> "idle"] /\ on = [p \in Probes |-> 1]
    /\ expired = [p \in Probes |-> FALSE]
    /\ result = [p \in Probes |-> [k \in Checks |-> "none"]]
    /\ sent = [p \in Probes |-> "none"]
    /\ slot = [k \in Checks |-> <<Free>>] /\ check = [k \in Checks |-> "off"]
    /\ probes = [p \in Probes |-> 0]

At(p) == on[p]
Run(p) == <<p, probes[p]>>      \* the probe's own run, and so its own errCh

(* runHealthChecks: a fresh context and a fresh errCh for each check.      *)
Probe(p) ==
    /\ pc[p] = "idle" /\ probes[p] < MaxProbes
    /\ probes' = [probes EXCEPT ![p] = @ + 1]
    /\ on' = [on EXCEPT ![p] = 1] /\ pc' = [pc EXCEPT ![p] = "slot"]
    /\ result' = [result EXCEPT ![p] = [k \in Checks |-> "none"]]
    /\ expired' = [expired EXCEPT ![p] = FALSE] /\ sent' = [sent EXCEPT ![p] = "none"]
    /\ UNCHANGED <<slot, check>>

(* checkCtx: its own timeout, or the request's context is cancelled.       *)
Expire(p) ==
    /\ pc[p] \in {"slot", "wait"} /\ ~ expired[p]
    /\ expired' = [expired EXCEPT ![p] = TRUE]
    /\ UNCHANGED <<pc, on, result, sent, slot, check, probes>>

SlotShared(p) == TRUE                           \* mutant: no semaphore
SlotFree(p) == slot[At(p)] = <<Free>>

(* The slot, when it is free, starts the goroutine; select may choose it   *)
(* although the context is done.                                           *)
TakeSlot(p) ==
    /\ pc[p] = "slot" /\ SlotFree(p)
    /\ slot' = [slot EXCEPT ![At(p)] = Run(p)]
    /\ check' = [check EXCEPT ![At(p)] = "running"]
    /\ pc' = [pc EXCEPT ![p] = "wait"]
    /\ UNCHANGED <<on, expired, result, sent, probes>>

(* The status of one check is known: the next one, or the answer.          *)
Record(p, s) ==
    /\ result' = [result EXCEPT ![p][At(p)] = s]
    /\ on' = [on EXCEPT ![p] = @ + 1]
    /\ pc' = [pc EXCEPT ![p] = IF At(p) = NumChecks THEN "done" ELSE "slot"]
    /\ expired' = [expired EXCEPT ![p] = FALSE] /\ sent' = [sent EXCEPT ![p] = "none"]

SlotForever(p) == pc[p] = "wait"                \* mutant: the slot is waited for without the context
Impatient(p) == pc[p] \in {"slot", "wait"}

(* No slot, or no answer, before the context was done.  A cancelled request*)
(* has "error" where a deadline has "timeout".                             *)
GiveUp(p) ==
    /\ Impatient(p) /\ expired[p]
    /\ \E s \in {"timeout", "error"} : Record(p, s)
    /\ UNCHANGED <<slot, check, probes>>

Receive(p) ==
    /\ pc[p] = "wait" /\ sent[p] # "none"
    /\ Record(p, sent[p])
    /\ UNCHANGED <<slot, check, probes>>

(* The probe that runs the goroutine of check k still waits for it.        *)
Waiting(k) == \E p \in Probes : slot[k] = Run(p) /\ pc[p] = "wait" /\ At(p) = k

SendNeedsReceiver(k) == Waiting(k)              \* mutant: errCh without a buffer
CanSend(k) == TRUE

(* Check returns or panics. *)
CheckEnds(k) ==
    /\ check[k] = "running"
    /\ check' = [check EXCEPT ![k] = "ended"]
    /\ UNCHANGED <<pc, on, expired, result, sent, slot, probes>>

(* nil, an error or the recovered panic goes into the buffer of a channel  *)
(* nobody may read any more ...                                            *)
Send(k) ==
    /\ check[k] = "ended" /\ CanSend(k)
    /\ check' = [check EXCEPT ![k] = "sent"]
    /\ \E s \in Outcomes :
          sent' = [p \in Probes |-> IF Waiting(k) /\ slot[k] = Run(p) THEN s ELSE sent[p]]
    /\ UNCHANGED <<pc, on, expired, result, slot, probes>>

(* ... and then the deferred release.                                      *)
Release(k) ==
    /\ check[k] = "sent"
    /\ slot' = [slot EXCEPT ![k] = <<Free>>] /\ check' = [check EXCEPT ![k] = "off"]
    /\ UNCHANGED <<pc, on, expired, result, sent, probes>>

Answer(p) ==
    /\ pc[p] = "done"
    /\ pc' = [pc EXCEPT ![p] = "idle"]
    /\ UNCHANGED <<on, expired, result, sent, slot, check, probes>>

Next ==
    \/ \E p \in Probes : \/ Probe(p) \/ Expire(p) \/ TakeSlot(p) \/ GiveUp(p)
                         \/ Receive(p) \/ Answer(p)
    \/ \E k \in Checks : CheckEnds(k) \/ Send(k) \/ Release(k)

(* Timers fire and goroutines that can go on do so; a check that has begun *)
(* need not return.                                                        *)
ProbeFairness ==
    /\ \A p \in Probes : /\ WF_vars(Expire(p)) /\ WF_vars(GiveUp(p) \/ Receive(p))
                         /\ WF_vars(Answer(p))
    /\ \A k \in Checks : WF_vars(Send(k)) /\ WF_vars(Release(k))

-----------------------------------------------------------------------------
(* The code's state has room for one goroutine of a check: a second one    *)
(* would start although the first still holds the slot.                    *)
OneCheckInFlight ==
    [][\A k \in Checks : slot'[k] # slot[k] /\ slot'[k] # <<Free>> => check[k] = "off"]_vars

(* Every probe is answered, also when a check never returns.               *)
ProbesAreAnswered == \A p \in Probes : pc[p] = "slot" ~> pc[p] = "idle"

(* A check that ends gives its slot back, also when the probe that started *)
(* it has long been answered.                                              *)
SlotsComeBack == \A k \in Checks : check[k] = "ended" ~> check[k] = "off"

Spec == Init /\ [][Next]_vars /\ ProbeFairness
=============================================================================
