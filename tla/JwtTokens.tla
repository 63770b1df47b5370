------------------------------ MODULE JwtTokens ------------------------------
(***************************************************************************)
(* jwt/jwt.go and AuthRequired of middleware/auth.go: tokens that are      *)
(* issued, parsed, revoked and refreshed against a blacklist in Redis that *)
(* fails before or after it stored an entry, or is not there at all.       *)
(*                                                                         *)
(* A token is its jti.  Signing is the library's: a token is valid while it*)
(* has not expired and the configured secret is the one it was signed with.*)
(* Secrets only move forward: one that was replaced does not come back.    *)
(* Any call may find no client or fail, so no variable says that Redis is  *)
(* down.                                                                   *)
(***************************************************************************)
EXTENDS Integers

CONSTANTS
    Callers,
    MaxTokens,  \* tokens that are issued (bound)
    Expire,     \* jwt.expire and jwt.refresh_expire, in units of time
    MaxSecrets, \* secrets the configuration goes through (bound)
    NoToken

VARIABLES
    left,       \* token -> what is left of its life
    signed,     \* token -> the number of its secret, 0 before it is issued
    blacklist,  \* token -> time to live of its entry, 0 without one
    secret,     \* the configured secret
    pc, op,     \* where each caller is, and what it called
    tok,        \* the token it works on
    span,       \* the ttl that Add computed
    revoked,    \* history: tokens whose revocation was acknowledged
    known,      \* caller -> whether its token was in revoked when it began
    replaced    \* history: tokens for which a refresh issued another

vars == <<left, signed, blacklist, secret, pc, op, tok, span, revoked, known, replaced>>
Tokens == 1 .. MaxTokens      \* the jtis, numbered as they are issued

JwtAssumption ==
    /\ MaxTokens \in Nat /\ Expire \in Nat /\ MaxSecrets \in Nat \ {0}
    /\ NoToken \notin Tokens

histories == <<revoked, known, replaced>>

Ops == {"ParseToken", "ParseOpen", "RefreshToken", "InvalidateToken"}

TypeOK ==
    /\ left \in [Tokens -> 0 .. Expire] /\ signed \in [Tokens -> 0 .. MaxSecrets]
    /\ blacklist \in [Tokens -> 0 .. Expire] /\ secret \in 1 .. MaxSecrets
    /\ pc \in [Callers -> {"idle", "check", "add", "set", "issue", "accepted"}]
    /\ op \in [Callers -> Ops] /\ tok \in [Callers -> Tokens \cup {NoToken}]
    /\ span \in [Callers -> 0 .. Expire]
    /\ revoked \subseteq Tokens /\ replaced \subseteq Tokens /\ known \in [Callers -> BOOLEAN]

Init ==
    /\ left = [t \in Tokens |-> 0] /\ signed = [t \in Tokens |-> 0]
    /\ blacklist = [t \in Tokens |-> 0]
    /\ secret = 1
    /\ pc = [c \in Callers |-> "idle"] /\ op = [c \in Callers |-> "ParseToken"]
    /\ tok = [c \in Callers |-> NoToken] /\ span = [c \in Callers |-> 0]
    /\ revoked = {} /\ replaced = {} /\ known = [c \in Callers |-> FALSE]

Issued == {t \in Tokens : signed[t] > 0}
SignatureValid(t) == signed[t] = secret
Valid(t) == SignatureValid(t) /\ left[t] > 0

Goto(c, where) == pc' = [pc EXCEPT ![c] = where]

(* The call is over; what the caller had in hand is forgotten. *)
Return(c) ==
    /\ Goto(c, "idle")
    /\ tok' = [tok EXCEPT ![c] = NoToken] /\ span' = [span EXCEPT ![c] = 0]
    /\ known' = [known EXCEPT ![c] = FALSE] /\ op' = [op EXCEPT ![c] = "ParseToken"]

Acknowledge(t) == revoked' = revoked \cup {t}

-----------------------------------------------------------------------------
(* generateTokenWithExpiry: a fresh jti under the secret of the moment.    *)
NewToken(t) ==
    /\ signed[t] = 0 /\ \A u \in Tokens : u < t => signed[u] # 0
    /\ signed' = [signed EXCEPT ![t] = secret] /\ left' = [left EXCEPT ![t] = Expire]

GenerateToken ==
    /\ \E t \in Tokens : NewToken(t)
    /\ UNCHANGED <<blacklist, secret, pc, op, tok, span, histories>>

(* Every function parses first.  RefreshToken and the two kinds of Parse   *)
(* refuse a token that is not valid; InvalidateToken does not ask whether  *)
(* it expired, and returns nil for one whose signature it cannot check.    *)
Call(c, o, t) ==
    /\ pc[c] = "idle" /\ t \in Issued
    /\ \/ o \in {"ParseToken", "ParseOpen", "RefreshToken"} /\ Valid(t) /\ Goto(c, "check")
       \/ o = "InvalidateToken" /\ SignatureValid(t) /\ Goto(c, "add")
       \/ o = "InvalidateTokenByID" /\ Goto(c, "add")
    /\ op' = [op EXCEPT ![c] = IF o = "InvalidateTokenByID" THEN "InvalidateToken" ELSE o]
    /\ tok' = [tok EXCEPT ![c] = t]
    /\ known' = [known EXCEPT ![c] = t \in revoked]
    /\ UNCHANGED <<left, signed, blacklist, secret, span, revoked, replaced>>

InvalidateUnsigned(c, t) ==
    /\ pc[c] = "idle" /\ t \in Issued /\ ~ SignatureValid(t)
    /\ Acknowledge(t)
    /\ UNCHANGED <<left, signed, blacklist, secret, pc, op, tok, span, known, replaced>>

-----------------------------------------------------------------------------
(* checkTokenBlacklist: EXISTS, or an error that the policy decides. *)

PassesAlways(c) == TRUE             \* mutant: fail open by default
PassesOnError(c) == op[c] = "ParseOpen"

Proceed(c) == Goto(c, IF op[c] = "RefreshToken" THEN "add" ELSE "accepted")

CheckFinds(c) ==
    /\ pc[c] = "check" /\ blacklist[tok[c]] > 0
    /\ Return(c)                    \* ErrTokenRevoked
    /\ UNCHANGED <<left, signed, blacklist, secret, revoked, replaced>>

CheckPasses(c) ==
    /\ pc[c] = "check" /\ blacklist[tok[c]] = 0
    /\ Proceed(c)
    /\ UNCHANGED <<left, signed, blacklist, secret, op, tok, span, histories>>

(* No client, or a call that failed or took longer than blacklistOpTimeout.*)
CheckFails(c) ==
    /\ pc[c] = "check"
    /\ IF PassesOnError(c) THEN Proceed(c) /\ UNCHANGED <<op, tok, span, known>> ELSE Return(c)
    /\ UNCHANGED <<left, signed, blacklist, secret, revoked, replaced>>

(* AuthRequired hands the claims on; the request goes its way. *)
Accepted(c) ==
    /\ pc[c] = "accepted" /\ Return(c)
    /\ UNCHANGED <<left, signed, blacklist, secret, revoked, replaced>>

-----------------------------------------------------------------------------
(* Add: the client, then the ttl, then SET with it.                        *)

(* nil: what a caller of Add does next.  Refresh issues, the others return *)
(* nil, which is the acknowledgement.                                      *)
AddOk(c) ==
    IF op[c] = "RefreshToken"
    THEN Goto(c, "issue") /\ UNCHANGED <<op, tok, span, histories>>
    ELSE Acknowledge(tok[c]) /\ Return(c) /\ UNCHANGED replaced

AddErrorSwallowed(c) == AddOk(c)    \* mutant: C9b, the error of Add is dropped
AddError(c) == Return(c) /\ UNCHANGED <<revoked, replaced>>

ShortSpan(c) == left[tok[c]] - 1    \* mutant: the entry goes before the token does
Span(c) == left[tok[c]]

AddNoClient(c) ==
    /\ pc[c] = "add"
    /\ AddError(c)                  \* ErrBlacklistUnavailable
    /\ UNCHANGED <<left, signed, blacklist, secret>>

AddExpired(c) ==
    /\ pc[c] = "add" /\ left[tok[c]] = 0
    /\ AddOk(c)
    /\ UNCHANGED <<left, signed, blacklist, secret>>

AddReads(c) ==
    /\ pc[c] = "add" /\ left[tok[c]] > 0
    /\ span' = [span EXCEPT ![c] = Span(c)]
    /\ Goto(c, "set")
    /\ UNCHANGED <<left, signed, blacklist, secret, op, tok, histories>>

Store(c) == blacklist' = [blacklist EXCEPT ![tok[c]] = span[c]]

AddSets(c) ==
    /\ pc[c] = "set" /\ Store(c) /\ AddOk(c)
    /\ UNCHANGED <<left, signed, secret>>

AddFails(c) ==
    /\ pc[c] = "set"
    /\ Store(c) \/ UNCHANGED blacklist
    /\ AddError(c)
    /\ UNCHANGED <<left, signed, secret>>

(* RefreshToken issues after the old token was revoked; when it cannot     *)
(* (secret, algorithm or expiry of the configuration), the old one is gone *)
(* and there is no new one.                                                *)
RefreshIssues(c) ==
    /\ pc[c] = "issue"
    /\ \E t \in Tokens : NewToken(t)
    /\ Acknowledge(tok[c]) /\ replaced' = replaced \cup {tok[c]} /\ Return(c)
    /\ UNCHANGED <<blacklist, secret>>

RefreshCannotIssue(c) ==
    /\ pc[c] = "issue" /\ Return(c)
    /\ UNCHANGED <<left, signed, blacklist, secret, revoked, replaced>>

-----------------------------------------------------------------------------
(* The environment *)

NewSecret ==
    /\ secret < MaxSecrets /\ secret' = secret + 1
    /\ UNCHANGED <<left, signed, blacklist, pc, op, tok, span, histories>>

Less(f) == [t \in Tokens |-> IF f[t] = 0 THEN 0 ELSE f[t] - 1]

Tick ==
    /\ \E t \in Tokens : left[t] + blacklist[t] > 0
    /\ left' = Less(left) /\ blacklist' = Less(blacklist)
    /\ UNCHANGED <<signed, secret, pc, op, tok, span, histories>>

Next ==
    \/ GenerateToken \/ NewSecret \/ Tick
    \/ \E c \in Callers :
          \/ \E t \in Tokens :
                InvalidateUnsigned(c, t) \/ \E o \in Ops \cup {"InvalidateTokenByID"} : Call(c, o, t)
          \/ CheckFinds(c) \/ CheckPasses(c) \/ CheckFails(c) \/ Accepted(c)
          \/ AddNoClient(c) \/ AddExpired(c) \/ AddReads(c) \/ AddSets(c) \/ AddFails(c)
          \/ RefreshIssues(c) \/ RefreshCannotIssue(c)

-----------------------------------------------------------------------------
(* A token whose revocation was acknowledged before a fail-closed ParseToken*)
(* began is not accepted by it, whatever Redis does meanwhile, unless the   *)
(* token expired while it was parsed.                                       *)
RevokedIsRefused ==
    \A c \in Callers : pc[c] = "accepted" /\ op[c] = "ParseToken" /\ known[c] =>
        left[tok[c]] = 0

(* When a refresh has issued a new token the old one is dead: its entry is *)
(* there, it expired, or its secret was replaced (C9b).  Two refreshes of  *)
(* one token that overlap may each issue one.                              *)
RefreshReplaces ==
    \A t \in replaced : blacklist[t] > 0 \/ ~ Valid(t)

Spec == Init /\ [][Next]_vars
=============================================================================
