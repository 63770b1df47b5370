-------------------------------- MODULE Guards --------------------------------
(* The guards in front of a handler: the limiters in memory and in Redis,    *)
(* the tokens of jwt and csrf, the chain of middlewares, and the limits of   *)
(* what an archive unpacks to.                                               *)
(* They share no state, so each behaviour is one of one of them, which part  *)
(* names, while the others stay as they are.                                 *)
EXTENDS Naturals

CONSTANTS
    Callers, NoCaller,
    Visitors, Slots, Handlers, Limiters, Rate, Window, NoLimiter,   \* limiters in memory
    SlideRate, SlideWindow, Late,                                   \* the limiter in Redis
    MaxTokens, Expire, MaxSecrets, NoToken,                         \* jwt
    ApiTokens, TTL, Threshold,                                      \* csrf
    MaxChain,                                                       \* the chain
    Paths, MaxEntry, MaxEntries, EntryLimit, TotalLimit             \* archives

VARIABLES
    part,
    visitors, life, slot, custom, holder, once, made, limitPc, has, letThrough,
    zset, ttl, redis, failClosed, slidePc, clock, strict, counted, slideAdmitted,
    left, signed, blacklist, secret, jwtPc, op, jwtTok, span, revoked, known, replaced,
    issued, stored, age, csrfPc, csrfTok, found, passed,
    chain, req, at, way, keys, body, answers, headers, inFlight, runs,
    work, archive, entriesDone, total, disk, packed, unlucky

RL == INSTANCE RateLimits WITH pc <- limitPc, admitted <- letThrough
SL == INSTANCE SlidingLimit WITH
          Rate <- SlideRate, Window <- SlideWindow, pc <- slidePc, admitted <- slideAdmitted
JT == INSTANCE JwtTokens WITH pc <- jwtPc, tok <- jwtTok
CT == INSTANCE CsrfTokens WITH Tokens <- ApiTokens, pc <- csrfPc, tok <- csrfTok
RC == INSTANCE RequestChain
AR == INSTANCE Archive WITH Names <- Paths, op <- work, at <- entriesDone,
          result <- packed

ASSUME GuardAssumption ==
    /\ RL!LimitAssumption /\ SL!SlidingAssumption
    /\ JT!JwtAssumption /\ CT!CsrfAssumption /\ RC!ChainAssumption
    /\ AR!ArchiveAssumption

limits == <<visitors, life, slot, custom, holder, once, made, limitPc, has, letThrough>>
slides == <<zset, ttl, redis, failClosed, slidePc, clock, strict, counted, slideAdmitted>>
tokens == <<left, signed, blacklist, secret, jwtPc, op, jwtTok, span, revoked, known, replaced>>
singles == <<issued, stored, age, csrfPc, csrfTok, found, passed>>
requests == <<chain, req, at, way, keys, body, answers, headers, inFlight, runs>>
archives == <<work, archive, entriesDone, total, disk, packed, unlucky>>

Parts == {"limits", "slides", "tokens", "singles", "requests", "archives"}

(* Where a part has many initial states, one will do while it stays there.   *)
Init ==
    /\ part \in Parts
    /\ RL!Init /\ JT!Init /\ CT!Init
    /\ SL!Init /\ (part # "slides" => ~ failClosed)
    /\ \/ part = "requests" /\ RC!Init
       \/ /\ part # "requests" /\ chain = <<>> /\ req = <<>> /\ at = 1 /\ way = "over"
          /\ keys = {} /\ body = "whole" /\ answers = <<>> /\ headers = {}
          /\ inFlight = 0 /\ runs = 0
    /\ \/ part = "archives" /\ AR!Init
       \/ /\ part # "archives" /\ work = "pack" /\ archive = <<>> /\ entriesDone = 0 /\ total = 0
          /\ packed = "none" /\ unlucky = FALSE /\ disk = [n \in Paths |-> AR!Absent]

Next ==
    /\ UNCHANGED part
    /\ \/ part = "limits" /\ RL!Next /\ UNCHANGED <<slides, tokens, singles, requests, archives>>
       \/ part = "slides" /\ SL!Next /\ UNCHANGED <<limits, tokens, singles, requests, archives>>
       \/ part = "tokens" /\ JT!Next /\ UNCHANGED <<limits, slides, singles, requests, archives>>
       \/ part = "singles" /\ CT!Next /\ UNCHANGED <<limits, slides, tokens, requests, archives>>
       \/ part = "requests" /\ RC!Next /\ UNCHANGED <<limits, slides, tokens, singles, archives>>
       \/ part = "archives" /\ AR!Next /\ UNCHANGED <<limits, slides, tokens, singles, requests>>

Spec == Init /\ [][Next]_<<part, limits, slides, tokens, singles, requests, archives>>

(* The properties of the parts, each stated and explained in its module; the *)
(* type invariants stand in the conjunctions.  Those of the chain and of the *)
(* archives ask what a request or a call does, so only where there is one.   *)
BurstBound == RL!TypeOK /\ RL!BurstBound
RefusedOnlyWhenFull == RL!RefusedOnlyWhenFull
LimitersCanBeStopped == RL!LimitersCanBeStopped
SlidingBound == SL!TypeOK /\ SL!SlidingBound /\ SL!ClosedLetsOnlyCountedThrough
RevokedIsRefused == JT!TypeOK /\ JT!RevokedIsRefused
RefreshReplaces == JT!RefreshReplaces
TokensSingleUse == CT!TypeOK /\ CT!TokensSingleUse /\ CT!RefusedWasSpent
HandlerIsGuarded == part = "requests" => RC!HandlerIsGuarded
AnsweredOnce == part = "requests" => RC!AnsweredOnce /\ RC!CredentialsNeedAnOrigin
LimitsHold == part = "archives" => AR!TypeOK /\ AR!LimitsHold /\ AR!WithinLimitsUnpacks
                                   /\ AR!OkIsComplete
=============================================================================
