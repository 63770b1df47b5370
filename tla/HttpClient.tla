------------------------------ MODULE HttpClient ------------------------------
(***************************************************************************)
(* The HTTPClient of utils/http.go: its settings, changed while requests   *)
(* run, and Upload, whose body a goroutine writes into a pipe that the     *)
(* transport (net/http, external) reads.                                   *)
(*                                                                         *)
(* A write into an io.Pipe returns when it was read or either end closed.  *)
(* A server may answer before it has read the body; the transport closes   *)
(* the body of every request it was given, in its own time.                *)
(***************************************************************************)
EXTENDS Integers

CONSTANTS
    Callers,        \* callers of Upload, one upload at a time
    Parts,          \* files and fields of an upload, and the closing boundary
    MaxUploads      \* uploads of each caller (bound)

UploadAssumption == Parts \in Nat

VARIABLES
    cfg,            \* c.cfg: BlockPrivateNetworks, SkipTLSVerify and a Timeout
    transport,      \* c.transport, by the settings it was built from
    client,         \* c.client: its transport and its timeout
    asked,          \* history: what the setters were last called with
    pc,             \* where each caller is
    using,          \* the client its request was given to
    writer,         \* its goroutine: "off", "write", "close" or "done"
    werr,           \* errCh holds an error
    left,           \* parts still to write
    pipe,           \* "open", or the end that was closed: "reader", "eof" or "error"
    answer,         \* what the transport returned: "none", "ok", "refused", "failed", or "unsent"
    result,         \* of the last upload
    uploads         \* uploads begun so far

settings == <<cfg, transport, client, asked>>
vars == <<settings, pc, using, writer, werr, left, pipe, answer, result, uploads>>

Transport == [block : BOOLEAN, skip : BOOLEAN]
Client == [transport : Transport, timeout : BOOLEAN]

TypeOK ==
    /\ cfg \in [block : BOOLEAN, skip : BOOLEAN, timeout : BOOLEAN]
    /\ transport \in Transport /\ client \in Client
    /\ pc \in [Callers -> {"idle", "request", "do", "wait"}]
    /\ writer \in [Callers -> {"off", "write", "close", "done"}]
    /\ left \in [Callers -> 0 .. Parts] /\ werr \in [Callers -> BOOLEAN]
    /\ pipe \in [Callers -> {"open", "reader", "eof", "error"}]

Built(c) == [block |-> c.block, skip |-> c.skip]
Default == [block |-> FALSE, skip |-> FALSE, timeout |-> TRUE]

Init ==
    /\ cfg = Default /\ asked = Default /\ transport = Built(Default)
    /\ client = [transport |-> Built(Default), timeout |-> TRUE]
    /\ pc = [c \in Callers |-> "idle"] /\ using = [c \in Callers |-> client]
    /\ writer = [c \in Callers |-> "off"] /\ werr = [c \in Callers |-> FALSE]
    /\ left = [c \in Callers |-> 0] /\ pipe = [c \in Callers |-> "open"]
    /\ answer = [c \in Callers |-> "none"] /\ result = [c \in Callers |-> "none"]
    /\ uploads = [c \in Callers |-> 0]

-----------------------------------------------------------------------------
(* Settings, each under the mutex.                                         *)

Forgets(k, v) == UNCHANGED cfg                  \* mutant: the setting is not kept for the next rebuild
Keeps(k, v) == cfg' = [cfg EXCEPT ![k] = v]

(* The transport stays, and with it its connections.                       *)
SetTimeout(t) ==
    /\ t # client.timeout
    /\ Keeps("timeout", t) /\ asked' = [asked EXCEPT !.timeout = t]
    /\ client' = [transport |-> transport, timeout |-> t]
    /\ UNCHANGED <<transport, pc, using, writer, werr, left, pipe, answer, result, uploads>>

(* SetSkipTLS, SetBlockPrivateNetworks: a new pair; the idle connections of*)
(* the old transport are closed, a request that runs keeps it.             *)
Rebuild(k, v) ==
    /\ cfg[k] # v
    /\ cfg' = [cfg EXCEPT ![k] = v] /\ asked' = [asked EXCEPT ![k] = v]
    /\ transport' = Built(cfg')
    /\ client' = [transport |-> Built(cfg'), timeout |-> cfg.timeout]
    /\ UNCHANGED <<pc, using, writer, werr, left, pipe, answer, result, uploads>>

-----------------------------------------------------------------------------
(* Upload *)

(* A pipe, and the goroutine that writes into it.                          *)
Upload(c) ==
    /\ pc[c] = "idle" /\ uploads[c] < MaxUploads
    /\ pc' = [pc EXCEPT ![c] = "request"] /\ uploads' = [uploads EXCEPT ![c] = @ + 1]
    /\ writer' = [writer EXCEPT ![c] = "write"] /\ left' = [left EXCEPT ![c] = Parts]
    /\ pipe' = [pipe EXCEPT ![c] = "open"] /\ werr' = [werr EXCEPT ![c] = FALSE]
    /\ answer' = [answer EXCEPT ![c] = "none"] /\ result' = [result EXCEPT ![c] = "none"]
    /\ UNCHANGED <<settings, using>>

Abandon(c) == UNCHANGED pipe                    \* mutant: nobody tells the writer
CloseBoth(c) == pipe' = [pipe EXCEPT ![c] = IF @ = "open" THEN "reader" ELSE @]

(* http.NewRequest fails, over the URL: nobody will read the pipe.         *)
RequestRefused(c) ==
    /\ pc[c] = "request" /\ CloseBoth(c)
    /\ answer' = [answer EXCEPT ![c] = "unsent"] /\ pc' = [pc EXCEPT ![c] = "wait"]
    /\ UNCHANGED <<settings, using, writer, werr, left, result, uploads>>

(* do: the client of this moment.                                          *)
Do(c) ==
    /\ pc[c] = "request"
    /\ using' = [using EXCEPT ![c] = client] /\ pc' = [pc EXCEPT ![c] = "do"]
    /\ UNCHANGED <<settings, writer, werr, left, pipe, answer, result, uploads>>

(* The transport reads what the goroutine writes.                          *)
Transfer(c) ==
    /\ pc[c] = "do" /\ answer[c] = "none" /\ pipe[c] = "open"
    /\ writer[c] = "write" /\ left[c] > 0
    /\ left' = [left EXCEPT ![c] = @ - 1]
    /\ UNCHANGED <<settings, pc, using, writer, werr, pipe, answer, result, uploads>>

(* The server answers, early or not: below 400 with a body within the limit*)
(* or otherwise; or the connection breaks or the body of the pipe ends in  *)
(* an error.                                                               *)
Answers(c) ==
    /\ pc[c] = "do" /\ answer[c] = "none"
    /\ \E a \in {"ok", "refused", "failed"} :
          /\ pipe[c] = "error" => a = "failed"
          /\ answer' = [answer EXCEPT ![c] = a]
    /\ UNCHANGED <<settings, pc, using, writer, werr, left, pipe, result, uploads>>

(* client.Timeout, which also covers the body of the answer.               *)
TimesOut(c) ==
    /\ pc[c] = "do" /\ answer[c] = "none" /\ using[c].timeout
    /\ answer' = [answer EXCEPT ![c] = "failed"]
    /\ UNCHANGED <<settings, pc, using, writer, werr, left, pipe, result, uploads>>

TransportCloses(c) ==
    /\ answer[c] \notin {"none", "unsent"} /\ pc[c] \in {"do", "wait"} /\ pipe[c] = "open"
    /\ pipe' = [pipe EXCEPT ![c] = "reader"]
    /\ UNCHANGED <<settings, pc, using, writer, werr, left, answer, result, uploads>>

(* do returns: with an error the reader is closed here, too.               *)
DoReturns(c) ==
    /\ pc[c] = "do" /\ answer[c] # "none"
    /\ pc' = [pc EXCEPT ![c] = "wait"]
    /\ IF answer[c] # "ok" THEN CloseBoth(c) ELSE UNCHANGED pipe
    /\ UNCHANGED <<settings, using, writer, werr, left, answer, result, uploads>>

WriterForgotten(c) == TRUE                      \* mutant: errCh is not received from
WriterOver(c) == writer[c] = "done"

(* <-errCh *)
UploadReturns(c) ==
    /\ pc[c] = "wait" /\ WriterOver(c)
    /\ pc' = [pc EXCEPT ![c] = "idle"]
    /\ result' = [result EXCEPT ![c] = IF answer[c] = "ok" /\ ~ werr[c] THEN "ok" ELSE "error"]
    /\ UNCHANGED <<settings, using, writer, werr, left, pipe, answer, uploads>>

-----------------------------------------------------------------------------
(* writeMultipartUpload *)

(* The next part: its file cannot be read, or the pipe is closed.          *)
WriteFails(c) ==
    /\ writer[c] = "write" /\ left[c] > 0
    /\ \/ pipe[c] = "reader" /\ UNCHANGED pipe
       \/ pipe[c] = "open" /\ left[c] > 1 /\ pipe' = [pipe EXCEPT ![c] = "error"]
    /\ werr' = [werr EXCEPT ![c] = TRUE] /\ writer' = [writer EXCEPT ![c] = "done"]
    /\ UNCHANGED <<settings, pc, using, left, answer, result, uploads>>

(* Everything was read, the boundary last: pw.Close.                       *)
WriteEnds(c) ==
    /\ writer[c] = "write" /\ left[c] = 0
    /\ pipe' = [pipe EXCEPT ![c] = IF @ = "open" THEN "eof" ELSE @]
    /\ writer' = [writer EXCEPT ![c] = "done"]
    /\ UNCHANGED <<settings, pc, using, werr, left, answer, result, uploads>>

Next ==
    \/ \E t \in BOOLEAN : SetTimeout(t)
    \/ \E k \in {"block", "skip"}, v \in BOOLEAN : Rebuild(k, v)
    \/ \E c \in Callers :
          \/ Upload(c) \/ RequestRefused(c) \/ Do(c) \/ Transfer(c) \/ Answers(c) \/ TimesOut(c)
          \/ TransportCloses(c) \/ DoReturns(c) \/ UploadReturns(c) \/ WriteFails(c) \/ WriteEnds(c)

(* A goroutine that can go on does so, a timer fires, and the transport    *)
(* closes the body; a server need not answer, or read.                     *)
UploadFairness ==
    \A c \in Callers :
        /\ WF_vars(RequestRefused(c) \/ Do(c)) /\ WF_vars(TimesOut(c)) /\ WF_vars(TransportCloses(c))
        /\ WF_vars(DoReturns(c)) /\ WF_vars(UploadReturns(c))
        /\ WF_vars(pipe[c] = "reader" /\ WriteFails(c)) /\ WF_vars(WriteEnds(c))

-----------------------------------------------------------------------------
(* Whatever the order of the setters, the client and the transport have    *)
(* every setting made so far, and Close reaches the transport in use.      *)
ClientAsConfigured ==
    /\ transport = Built(asked) /\ client = [transport |-> transport, timeout |-> asked.timeout]

(* No upload returns before its goroutine is over, and one that succeeds   *)
(* was written to the end.                                                 *)
UploadIsWhole ==
    \A c \in Callers :
        /\ pc[c] = "idle" => writer[c] \in {"off", "done"}
        /\ result[c] = "ok" => left[c] = 0

(* An upload whose request cannot be made, or whose client has a timeout,  *)
(* returns, whatever the server does.                                      *)
UploadsReturn ==
    \A c \in Callers :
        (pc[c] = "wait" \/ (pc[c] = "do" /\ using[c].timeout)) ~> pc[c] = "idle"

Spec == Init /\ [][Next]_vars /\ UploadFairness
=============================================================================
