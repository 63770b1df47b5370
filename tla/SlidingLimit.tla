---------------------------- MODULE SlidingLimit ----------------------------
(***************************************************************************)
(* RedisRateLimiter of middleware/ratelimit.go for one identifier: a       *)
(* sliding window kept in a sorted set, a script that is one step at the   *)
(* server, a Redis that fails before or after it ran the script, and the   *)
(* policy that decides then.                                               *)
(*                                                                         *)
(* The score of an entry is the clock of the process that asked, read      *)
(* before the call: a late script works with an old clock.  As in          *)
(* RateLimits, entries and clocks are kept as ages.  Members of the set are*)
(* taken to be distinct, which is what the code wants of math.random.      *)
(***************************************************************************)
EXTENDS Integers, Sums

CONSTANTS
    Callers,
    Rate, Window,
    Late        \* the longest time from reading the clock to running the script

SlidingAssumption == Rate \in Nat \ {0} /\ Late \in Nat /\ Window \in Nat /\ Window > Late

VARIABLES
    zset,       \* age of the score -> entries in the sorted set
    ttl,        \* what is left of the key's time to live
    redis,      \* "up", or "nil": database.GetRedis() returns nil
    failClosed, \* the policy
    pc,         \* where each request is
    clock,      \* the age of the clock it read
    strict,     \* requests during which the policy was always fail-closed
    counted,    \* requests whose entry went into the set
    admitted    \* history: age -> requests that the script let through

vars == <<zset, ttl, redis, failClosed, pc, clock, strict, counted, admitted>>
server == <<zset, ttl, admitted>>

Ages == 0 .. Window + Late
Recent == 0 .. Window - Late - 1
Decisions == {"next", "refused 429", "refused 503"}
Empty == [a \in Ages |-> 0]

TypeOK ==
    /\ zset \in [Ages -> 0 .. Rate] /\ ttl \in 0 .. Window
    /\ redis \in {"up", "nil"} /\ failClosed \in BOOLEAN
    /\ pc \in [Callers -> {"idle", "eval"} \cup Decisions]
    /\ clock \in [Callers -> 0 .. Late] /\ strict \subseteq Callers /\ counted \subseteq Callers

Init ==
    /\ zset = Empty /\ ttl = 0 /\ redis = "up" /\ failClosed \in BOOLEAN
    /\ pc = [c \in Callers |-> "idle"] /\ clock = [c \in Callers |-> 0]
    /\ strict = {} /\ counted = {} /\ admitted = [a \in Recent |-> 0]

-----------------------------------------------------------------------------
(* The script, for a process whose clock has age d. *)

TrimmedEarly(d) == [a \in Ages |-> IF a >= Window + d - 1 THEN 0 ELSE zset[a]]   \* mutant: off by one
Trimmed(d) == [a \in Ages |-> IF a >= Window + d THEN 0 ELSE zset[a]]

Script(c) ==
    LET kept == Trimmed(clock[c]) IN
    IF Total(kept, Window + Late) < Rate
    THEN /\ zset' = [kept EXCEPT ![clock[c]] = @ + 1] /\ ttl' = Window
         /\ counted' = counted \cup {c}
    ELSE zset' = kept /\ UNCHANGED <<ttl, counted>>

ScriptSaysYes(c) == Total(Trimmed(clock[c]), Window + Late) < Rate

(* What Allow makes of a failure, and redisLimitDecision of the answer: the*)
(* handler runs, 429 for a limit that is reached, 503 for a failure.       *)
OnFailureOpen == IF redis = "nil" THEN "next" ELSE IF failClosed THEN "refused 503" ELSE "next"
    \* mutant: a missing client always lets the request pass
OnFailure == IF failClosed THEN "refused 503" ELSE "next"

Decide(c, decision) == pc' = [pc EXCEPT ![c] = decision]

(* Allow takes the client once.  No client: the policy decides. *)
AllowNoClient(c) ==
    /\ pc[c] = "idle" /\ redis = "nil"
    /\ strict' = IF failClosed THEN strict \cup {c} ELSE strict \ {c}
    /\ Decide(c, OnFailure)
    /\ UNCHANGED <<server, redis, failClosed, clock, counted>>

AllowBegin(c) ==
    /\ pc[c] = "idle" /\ redis = "up"
    /\ strict' = IF failClosed THEN strict \cup {c} ELSE strict \ {c}
    /\ clock' = [clock EXCEPT ![c] = 0]
    /\ Decide(c, "eval")
    /\ UNCHANGED <<server, redis, failClosed, counted>>

AllowEval(c) ==
    /\ pc[c] = "eval"
    /\ Script(c)
    /\ admitted' = IF ScriptSaysYes(c) THEN [admitted EXCEPT ![0] = @ + 1] ELSE admitted
    /\ Decide(c, IF ScriptSaysYes(c) THEN "next" ELSE "refused 429")
    /\ UNCHANGED <<redis, failClosed, clock, strict>>

(* An error, or an answer that is no int64: the script may have run.       *)
AllowFails(c) ==
    /\ pc[c] = "eval"
    /\ \/ Script(c)
       \/ UNCHANGED <<zset, ttl, counted>>
    /\ Decide(c, OnFailure)
    /\ UNCHANGED <<redis, failClosed, clock, strict, admitted>>

Answered(c) ==
    /\ pc[c] \in Decisions /\ Decide(c, "idle")
    /\ counted' = counted \ {c} /\ strict' = strict \ {c}
    /\ clock' = [clock EXCEPT ![c] = 0]
    /\ UNCHANGED <<server, redis, failClosed>>

SetFailClosed ==
    /\ failClosed' = ~ failClosed
    /\ strict' = IF failClosed' THEN strict ELSE {}
    /\ UNCHANGED <<server, redis, pc, clock, counted>>

(* GetCount drops old entries by its own clock, of age d.                  *)
GetCount ==
    /\ redis = "up" /\ \E d \in 0 .. Late : zset' = Trimmed(d)
    /\ UNCHANGED <<ttl, redis, failClosed, pc, clock, strict, counted, admitted>>

(* DEL: the identifier starts anew. *)
Reset ==
    /\ redis = "up" /\ zset' = Empty /\ ttl' = 0 /\ admitted' = [a \in Recent |-> 0]
    /\ UNCHANGED <<redis, failClosed, pc, clock, strict, counted>>

(* Another part of the program initialises or closes the Redis manager.    *)
ClientSwaps ==
    /\ redis' = IF redis = "up" THEN "nil" ELSE "up"
    /\ UNCHANGED <<server, failClosed, pc, clock, strict, counted>>

Older(f) == [a \in DOMAIN f |-> IF a = 0 THEN 0 ELSE f[a - 1]]

(* PEXPIRE: the key goes when nothing was added for one Window.            *)
Tick ==
    /\ \A c \in Callers : pc[c] = "eval" => clock[c] < Late
    /\ clock' = [c \in Callers |-> IF pc[c] = "eval" THEN clock[c] + 1 ELSE clock[c]]
    /\ ttl' = IF ttl = 0 THEN 0 ELSE ttl - 1
    /\ zset' = IF ttl' = 0 THEN Empty ELSE Older(zset)
    /\ admitted' = Older(admitted)
    /\ UNCHANGED <<redis, failClosed, pc, strict, counted>>

Next ==
    \/ SetFailClosed \/ GetCount \/ Reset \/ ClientSwaps \/ Tick
    \/ \E c \in Callers : \/ AllowNoClient(c) \/ AllowBegin(c) \/ AllowEval(c)
                          \/ AllowFails(c) \/ Answered(c)

-----------------------------------------------------------------------------
(* No burst: whatever the delays, the failures and the other clocks, in any*)
(* Window less the longest delay the script lets at most Rate requests     *)
(* through (the comment on RateLimiter.Allow sends those who need this to  *)
(* the Redis limiter).                                                     *)
SlidingBound == Total(admitted, Window - Late - 1) <= Rate

(* A fail-closed limiter lets nothing through uncounted: a request during  *)
(* which the policy was fail-closed and that went on has its entry in the  *)
(* set, or had it until it aged or was reset (H4c).                        *)
ClosedLetsOnlyCountedThrough ==
    \A c \in Callers : pc[c] = "next" /\ c \in strict => c \in counted

Spec == Init /\ [][Next]_vars
=============================================================================
