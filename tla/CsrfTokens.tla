----------------------------- MODULE CsrfTokens -----------------------------
(***************************************************************************)
(* The single-use tokens of GenerateAPIToken and CSRFForAPI in             *)
(* middleware/csrf.go.  As in RateLimits, a token holds its age.           *)
(***************************************************************************)
EXTENDS Integers, FiniteSets

CONSTANTS
    Callers,
    Tokens,     \* tokens that are generated; random, so never the same (bound)
    TTL,        \* apiTokenTTL, in units of time
    Threshold,  \* CSRFForAPI cleans up only above this many tokens (256)
    NoToken

CsrfAssumption == TTL \in Nat /\ NoToken \notin Tokens

VARIABLES
    issued,     \* tokens that were generated
    stored,     \* the keys of apiTokens
    age,        \* token -> time since it was generated, TTL + 1 for longer
    pc,         \* where each request is
    tok,        \* the token it sends
    found,      \* whether the locked section found it
    passed      \* history: token -> requests it let through

vars == <<issued, stored, age, pc, tok, found, passed>>

TypeOK ==
    /\ stored \subseteq issued /\ issued \subseteq Tokens
    /\ age \in [Tokens -> 0 .. TTL + 1]
    /\ pc \in [Callers -> {"idle", "consumed", "next", "refused"}]
    /\ tok \in [Callers -> Tokens \cup {NoToken}] /\ found \in [Callers -> BOOLEAN]

Init ==
    /\ issued = {} /\ stored = {} /\ age = [t \in Tokens |-> 0]
    /\ pc = [c \in Callers |-> "idle"] /\ tok = [c \in Callers |-> NoToken]
    /\ found = [c \in Callers |-> FALSE] /\ passed = [t \in Tokens |-> 0]

Expired(t) == age[t] > TTL
CleanYoung(S) == {t \in S : age[t] < TTL}   \* mutant: tokens go a unit too early
CleanUp(S) == {t \in S : ~ Expired(t)}

GenerateAPIToken ==
    /\ \E t \in Tokens \ issued :
          /\ issued' = issued \cup {t} /\ stored' = CleanUp(stored) \cup {t}
    /\ UNCHANGED <<age, pc, tok, found, passed>>

(* The locked section: look up, delete, and clean up above the threshold.  *)
KeepsToken(t) == stored                     \* mutant: a token that was used stays
Deletes(t) == stored \ {t}

Consume(c, t) ==
    LET rest == Deletes(t) IN
    /\ pc[c] = "idle"
    /\ stored' = IF Cardinality(rest) > Threshold THEN CleanUp(rest) ELSE rest
    /\ found' = [found EXCEPT ![c] = t \in stored]
    /\ tok' = [tok EXCEPT ![c] = t]
    /\ pc' = [pc EXCEPT ![c] = "consumed"]
    /\ UNCHANGED <<issued, age, passed>>

(* After the unlock: the age is asked once more, by a later clock.         *)
Decide(c) ==
    LET ok == found[c] /\ ~ Expired(tok[c]) IN
    /\ pc[c] = "consumed"
    /\ pc' = [pc EXCEPT ![c] = IF ok THEN "next" ELSE "refused"]
    /\ passed' = IF ok THEN [passed EXCEPT ![tok[c]] = @ + 1] ELSE passed
    /\ UNCHANGED <<issued, stored, age, tok, found>>

Answered(c) ==
    /\ pc[c] \in {"next", "refused"}
    /\ pc' = [pc EXCEPT ![c] = "idle"] /\ tok' = [tok EXCEPT ![c] = NoToken]
    /\ found' = [found EXCEPT ![c] = FALSE]
    /\ UNCHANGED <<issued, stored, age, passed>>

Tick ==
    /\ age' = [t \in Tokens |-> IF t \in issued /\ age[t] <= TTL THEN age[t] + 1 ELSE age[t]]
    /\ UNCHANGED <<issued, stored, pc, tok, found, passed>>

Next ==
    \/ GenerateAPIToken \/ Tick
    \/ \E c \in Callers : Decide(c) \/ Answered(c) \/ \E t \in issued : Consume(c, t)

-----------------------------------------------------------------------------
(* A token lets at most one request through, also when two requests send it*)
(* at once, and none after its time; and the cleanups take nothing that is *)
(* still good: a token that was not sent yet is there until it expires.    *)
TokensSingleUse ==
    /\ \A t \in Tokens : passed[t] <= 1
    /\ \A t \in issued : Expired(t) \/ t \in stored \/ passed[t] = 1
          \/ \E c \in Callers : tok[c] = t

(* A refusal is final only for a token that was spent or is too old.       *)
RefusedWasSpent ==
    \A c \in Callers : pc[c] = "refused" =>
        \/ Expired(tok[c]) \/ passed[tok[c]] = 1
        \/ \E d \in Callers \ {c} : tok[d] = tok[c] /\ found[d]

Spec == Init /\ [][Next]_vars
=============================================================================
