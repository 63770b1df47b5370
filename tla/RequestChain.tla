---------------------------- MODULE RequestChain ----------------------------
(***************************************************************************)
(* One request on its way through a chain of the handlers of middleware/:  *)
(* recover.go, metrics.go, timeout.go, logger.go, cors.go, csrf.go and     *)
(* auth.go, in any order, around a handler that answers or panics before   *)
(* or after it began to write.                                             *)
(*                                                                         *)
(* Gin (external) calls the handlers in order.  Each either calls Next or  *)
(* aborts; what stands after Next runs on the way back, and of a handler   *)
(* that panicked only what was deferred.  ErrorFunc of CSRF is taken to    *)
(* abort, as the default one does.                                         *)
(***************************************************************************)
EXTENDS Integers, Sequences, Functions

CONSTANT MaxChain       \* handlers in front of the last one (bound)

ChainAssumption == MaxChain \in Nat

VARIABLES
    chain,      \* the handlers, in order
    req,        \* the request
    at,         \* the handler gin is in; Len(chain) + 1 is the last one
    way,        \* "down", "up", "panic" or "over"
    keys,       \* what was put into the context, and whose deadline is set
    body,       \* "whole", or "cut": what the next reader of the body finds
    answers,    \* status codes written
    headers,    \* response headers that matter
    inFlight,   \* the gauge http_requests_in_flight
    runs        \* how often the last handler ran

vars == <<chain, req, at, way, keys, body, answers, headers, inFlight, runs>>

Wrappers == {"Recover", "Metrics", "Timeout", "Logger"}
Guards == {"CORS", "CSRF", "DoubleSubmit", "AuthRequired", "RequireRoles"}
Middleware == Wrappers \cup Guards \cup {"CSRFExempt"}

Chains == {s \in UNION {[1 .. n -> Middleware] : n \in 0 .. MaxChain} : IsInjective(s)}
Has(s, m) == \E i \in DOMAIN s : s[i] = m

(* CORS: "*" is listed, after the others; credentials are allowed;         *)
(* development mode.                                                       *)
Configs == {{"star"}, {"credentials"}, {"star", "credentials"}, {"dev", "credentials"}}

(* What the handlers of a chain can tell apart.  "sent" is where the csrf  *)
(* token of the cookie comes: header first, then form, then JSON body;     *)
(* "nothing" also stands for another token, which comes in the header.     *)
(* What a safe method sends is not looked at.                              *)
(* "admin" and "staff" are valid tokens; "bad" has no or an invalid token. *)
Requests(s) ==
    LET cors == Has(s, "CORS")
        csrf == Has(s, "CSRF") \/ Has(s, "DoubleSubmit")
        auth == Has(s, "AuthRequired") \/ Has(s, "RequireRoles")
        cares == Has(s, "Recover") \/ Has(s, "Metrics") \/ Has(s, "Timeout")
    IN {r \in
        [method : {"GET"} \cup (IF csrf THEN {"POST"} ELSE {}) \cup (IF cors THEN {"OPTIONS"} ELSE {}),
         origin : IF cors THEN {"none", "listed", "foreign", "localhost"} ELSE {"none"},
         config : IF cors THEN Configs ELSE {{"credentials"}},
         cookie : IF csrf THEN BOOLEAN ELSE {FALSE},
         sent   : IF csrf THEN {"nothing", "header", "form", "json", "large json"} ELSE {"nothing"},
         token  : IF auth THEN {"bad", "staff", "admin"} ELSE {"bad"},
         does   : {"answers"} \cup (IF cares THEN {"panics", "writes and panics"} ELSE {})] :
        r.method = "POST" \/ r.sent = "nothing"}

Init ==
    /\ chain \in Chains /\ req \in Requests(chain)
    /\ at = 1 /\ way = "down" /\ keys = {} /\ body = "whole"
    /\ answers = <<>> /\ headers = {} /\ inFlight = 0 /\ runs = 0

Last == at = Len(chain) + 1
Entering(m) == way = "down" /\ ~ Last /\ chain[at] = m

GoOn == at' = at + 1 /\ way' = "down"                   \* c.Next()
Abort(code) ==                                          \* c.Abort() after an answer
    /\ answers' = Append(answers, code)
    /\ at' = at - 1 /\ way' = "up"

-----------------------------------------------------------------------------
(* The handlers around the others: what they do before Next                *)

(* readBodyBounded takes a prefix and puts it back in front of the rest.   *)
PrefixGone == "cut"             \* mutant: what the log has read is missing
AfterLogging == body

Entered(m) ==
    /\ Entering(m) /\ GoOn
    /\ UNCHANGED <<chain, req, answers, headers, runs>>

Recover == Entered("Recover") /\ UNCHANGED <<keys, body, inFlight>>

Metrics == Entered("Metrics") /\ inFlight' = inFlight + 1 /\ UNCHANGED <<keys, body>>

Timeout == Entered("Timeout") /\ keys' = keys \cup {"deadline"} /\ UNCHANGED <<body, inFlight>>

LoggerWithConfig == Entered("Logger") /\ body' = AfterLogging /\ UNCHANGED <<keys, inFlight>>

-----------------------------------------------------------------------------
(* CORSWithConfig *)

(* The origin that is allowed: none, an echo of the request's own, or "*". *)
AllowedOrigin ==
    LET o == req.origin IN
    IF o = "listed" THEN {"origin echo"}
    ELSE IF "star" \in req.config
    THEN IF o = "none" THEN {}
         ELSE IF "credentials" \in req.config THEN {"origin echo"} ELSE {"origin *"}
    ELSE IF "dev" \in req.config /\ o = "localhost" THEN {"origin echo"} ELSE {}

CredentialsAlways == "credentials" \in req.config   \* mutant: sent with any origin
Echoed == AllowedOrigin = {"origin echo"}
Credentials == "credentials" \in req.config /\ Echoed

CORS ==
    /\ Entering("CORS")
    /\ headers' = headers \cup AllowedOrigin
          \cup (IF Echoed THEN {"vary"} ELSE {})
          \cup (IF Credentials THEN {"credentials"} ELSE {})
    /\ IF req.method = "OPTIONS" THEN Abort(204) ELSE GoOn /\ UNCHANGED answers
    /\ UNCHANGED <<chain, req, keys, body, inFlight, runs>>

-----------------------------------------------------------------------------
(* CSRF, CSRFWithSkip, CSRFWithExempt, CSRFExempt, DoubleSubmitCookie *)

SafeMethod == req.method # "POST"

CSRFExempt ==
    /\ Entering("CSRFExempt") /\ GoOn
    /\ keys' = keys \cup {"csrf_exempt"}
    /\ UNCHANGED <<chain, req, body, answers, headers, inFlight, runs>>

(* SkipFunc: CSRFWithExempt asks for the mark, CSRFWithSkip for the path.  *)
CSRFSkips ==
    /\ Entering("CSRF") /\ "csrf_exempt" \in keys
    /\ GoOn
    /\ UNCHANGED <<chain, req, keys, body, answers, headers, inFlight, runs>>

(* A client without the cookie gets a new token, which it cannot send yet. *)
SentMatches == \/ req.sent \in {"header", "form"}
               \/ req.sent = "json" /\ body = "whole"
TokenMatchesAnything == SentMatches     \* mutant: the cookie is not asked
TokenMatches == req.cookie /\ SentMatches

CSRF ==
    /\ Entering("CSRF") /\ "csrf_exempt" \notin keys
    /\ headers' = IF req.cookie THEN headers ELSE headers \cup {"cookie"}
    /\ keys' = keys \cup {"csrf_token"}
    /\ IF SafeMethod \/ TokenMatches THEN GoOn /\ UNCHANGED answers
       ELSE Abort(IF req.sent = "large json" THEN 413 ELSE 400)
    /\ UNCHANGED <<chain, req, body, inFlight, runs>>

(* Only the header counts here. *)
DoubleSubmit ==
    /\ Entering("DoubleSubmit")
    /\ headers' = IF SafeMethod /\ ~ req.cookie THEN headers \cup {"cookie"} ELSE headers
    /\ keys' = IF SafeMethod THEN keys \cup {"csrf_token"} ELSE keys
    /\ IF SafeMethod \/ (req.cookie /\ req.sent = "header") THEN GoOn /\ UNCHANGED answers
       ELSE Abort(400)
    /\ UNCHANGED <<chain, req, body, inFlight, runs>>

-----------------------------------------------------------------------------
(* AuthRequired, RequireAuth and what is built from it *)

AuthRequired ==
    /\ Entering("AuthRequired")
    /\ IF req.token = "bad" THEN Abort(401) /\ UNCHANGED keys
       ELSE GoOn /\ keys' = keys \cup {"user"} /\ UNCHANGED answers
    /\ UNCHANGED <<chain, req, body, headers, inFlight, runs>>

RoleAsksToken == req.token = "admin"    \* mutant: the role is read from the token, not the context
RoleAllowed == "user" \in keys /\ req.token = "admin"

RequireRoles ==
    /\ Entering("RequireRoles")
    /\ IF RoleAllowed THEN GoOn /\ UNCHANGED answers
       ELSE Abort(IF "user" \in keys THEN 403 ELSE 401)
    /\ UNCHANGED <<chain, req, keys, body, headers, inFlight, runs>>

-----------------------------------------------------------------------------
(* The last handler, and the way back *)

Handler ==
    /\ way = "down" /\ Last
    /\ runs' = runs + 1
    /\ answers' = IF req.does = "panics" THEN answers ELSE Append(answers, 200)
    /\ way' = IF req.does = "answers" THEN "up" ELSE "panic"
    /\ at' = at - 1
    /\ UNCHANGED <<chain, req, keys, body, headers, inFlight>>

(* Recover answers 500 unless something was written, and aborts.           *)
RecoverWritesAgain == Append(answers, 500)      \* mutant: M-B
RecoverWrites == IF answers = <<>> THEN Append(answers, 500) ELSE answers

Leaving(S) ==
    /\ way \in {"up", "panic"} /\ at > 0 /\ chain[at] \in S
    /\ at' = at - 1
    /\ UNCHANGED <<chain, req, body, headers, runs>>

RecoverDefer ==
    /\ Leaving({"Recover"}) /\ way' = "up"
    /\ answers' = IF way = "panic" THEN RecoverWrites ELSE answers
    /\ UNCHANGED <<keys, inFlight>>

MetricsDefer ==
    /\ Leaving({"Metrics"}) /\ inFlight' = inFlight - 1
    /\ UNCHANGED <<way, keys, answers>>

TimeoutDefer ==
    /\ Leaving({"Timeout"}) /\ keys' = keys \ {"deadline"}
    /\ UNCHANGED <<way, answers, inFlight>>

Leave ==
    /\ Leaving(Middleware \ {"Recover", "Metrics", "Timeout"})
    /\ UNCHANGED <<way, keys, answers, inFlight>>

Over ==
    /\ way \in {"up", "panic"} /\ at = 0
    /\ way' = "over"
    /\ UNCHANGED <<chain, req, at, keys, body, answers, headers, inFlight, runs>>

Next ==
    \/ Recover \/ Metrics \/ Timeout \/ LoggerWithConfig
    \/ RecoverDefer \/ MetricsDefer \/ TimeoutDefer
    \/ CORS \/ CSRFExempt \/ CSRFSkips \/ CSRF \/ DoubleSubmit
    \/ AuthRequired \/ RequireRoles \/ Handler \/ Leave \/ Over

-----------------------------------------------------------------------------
Before(a, b) == \E i, j \in DOMAIN chain : i < j /\ chain[i] = a /\ chain[j] = b

(* The requests that every guard of the chain lets through. *)
Admitted ==
    /\ Has(chain, "CORS") => req.method # "OPTIONS"
    /\ Has(chain, "CSRF") => \/ SafeMethod
                             \/ Before("CSRFExempt", "CSRF")
                             \/ req.cookie /\ req.sent \in {"header", "form", "json"}
    /\ Has(chain, "DoubleSubmit") => SafeMethod \/ (req.cookie /\ req.sent = "header")
    /\ Has(chain, "AuthRequired") => req.token # "bad"
    /\ Has(chain, "RequireRoles") => Before("AuthRequired", "RequireRoles") /\ req.token = "admin"

(* Whatever the order of the chain, the handler runs once for a request    *)
(* that every guard lets through, and for no other: no preflight, no unsafe*)
(* request without the token of its cookie unless it was exempted before,  *)
(* no user without a valid token, no role before a user is known.          *)
HandlerIsGuarded ==
    /\ runs = 1 => Admitted
    /\ way = "over" => runs = IF Admitted THEN 1 ELSE 0

PanicsSilently == runs = 1 /\ req.does = "panics"

(* No request is answered twice.  One that is over was answered, unless its*)
(* handler panicked before it wrote and the chain has no Recover; the gauge*)
(* is back and no deadline is left, panic or not.                          *)
AnsweredOnce ==
    /\ Len(answers) <= 1
    /\ way = "over" => /\ Has(chain, "Recover") \/ ~ PanicsSilently => Len(answers) = 1
                       /\ inFlight = 0 /\ "deadline" \notin keys

(* Credentials are allowed only together with an echo of an origin that the*)
(* configuration admits, never with "*" (C7).                              *)
CredentialsNeedAnOrigin ==
    "credentials" \in headers =>
        /\ "origin echo" \in headers /\ "origin *" \notin headers /\ "vary" \in headers
        /\ \/ req.origin = "listed"
           \/ "star" \in req.config
           \/ "dev" \in req.config /\ req.origin = "localhost"

Spec == Init /\ [][Next]_vars
=============================================================================
