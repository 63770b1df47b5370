------------------------------- MODULE Storage -------------------------------
(***************************************************************************)
(* storage/storage.go: uploads to the local disk and to OSS (external) by  *)
(* several callers, with reads and deletions of what was uploaded, over a  *)
(* StorageManager whose instance may be replaced at any time.              *)
(*                                                                         *)
(* A unit of size stands for any number of bytes.  Every system call may   *)
(* fail, the source may fail while it is read, and what the header of a    *)
(* file claims of its size need not be true.                               *)
(***************************************************************************)
EXTENDS Integers, FiniteSets, FiniteSetsExt

CONSTANTS
    Callers,
    Limit,      \* MaxSizeBytes of the upload policy
    MaxRead,    \* maxReadBytes
    MaxSize,    \* size of the largest source (bound)
    MaxCalls    \* uploads of each caller (bound)

(* MaxSizeBytes = 0, the default, and maxReadBytes < 0 mean no limit, and  *)
(* take no part in the bounds here; 0 for maxReadBytes stands for 100 MB.  *)
StorageAssumption ==
    /\ Limit \in Nat \ {0} /\ MaxRead \in Nat \ {0} /\ MaxSize \in Nat /\ MaxCalls \in Nat

VARIABLES
    current,    \* m.current: "none", "local" or "oss"
    pc,         \* where the upload of each caller is
    store,      \* the instance it goes to
    job,        \* what it uploads
    copied,     \* units read from the source and written so far
    calls,      \* uploads begun so far: the name of a file is <<c, calls[c]>>
    files,      \* what is stored: the units of each name in each store
    given,      \* the job of every name that was returned
    litter,     \* names that an unlucky system call left behind
    gone,       \* names that Delete was called with
    got         \* the name and the units of the last Get

vars == <<current, pc, store, job, copied, calls, files, given, litter, gone, got>>
upload == <<pc, store, job, copied, calls>>

Stores == {"local", "oss"}
Never == MaxSize + 1
Whole(s) == [size |-> s, claims |-> s, breaks |-> Never, via |-> "bytes"]
Files == [size : 0 .. MaxSize, claims : {0, MaxSize}, breaks : 0 .. Never, via : {"file"}]
(* The bytes of UploadFromBytes are what they claim and can all be read.   *)
Jobs == {Whole(s) : s \in 0 .. MaxSize} \cup {j \in Files : j.breaks <= j.size \/ j.breaks = Never}
NoJob == Whole(0)
Names == Callers \X (1 .. MaxCalls)

TypeOK ==
    /\ current \in Stores \cup {"none"}
    /\ pc \in [Callers -> {"idle", "check", "copy", "close", "failed", "remove"}]
    /\ store \in [Callers -> Stores] /\ job \in [Callers -> Jobs]
    /\ copied \in [Callers -> 0 .. MaxSize] /\ calls \in [Callers -> 0 .. MaxCalls]
    /\ \A f \in files : f \in [name : Names, in : Stores, units : 0 .. MaxSize]
    /\ DOMAIN given \subseteq Names /\ litter \subseteq Names /\ gone \subseteq Names

Init ==
    /\ current = "none"
    /\ pc = [c \in Callers |-> "idle"] /\ store = [c \in Callers |-> "local"]
    /\ job = [c \in Callers |-> NoJob] /\ copied = [c \in Callers |-> 0]
    /\ calls = [c \in Callers |-> 0]
    /\ files = {} /\ given = <<>> /\ litter = {} /\ gone = {}
    /\ got = <<>>

Name(c) == <<c, calls[c]>>
Mine(c) == {f \in files : f.name = Name(c)}
Goto(c, where) == pc' = [pc EXCEPT ![c] = where]

-----------------------------------------------------------------------------
(* StorageManager: Init with either driver, or Set.  The old instance is   *)
(* neither closed nor waited for; an Init that fails changes nothing.      *)
Configure(s) ==
    /\ current # s /\ current' = s
    /\ UNCHANGED <<upload, files, given, litter, gone, got>>

-----------------------------------------------------------------------------
(* Upload and UploadFromBytes *)

(* GetStorage: the instance of this moment is used to the end.             *)
Upload(c, j) ==
    /\ pc[c] = "idle" /\ calls[c] < MaxCalls /\ current # "none"
    /\ store' = [store EXCEPT ![c] = current] /\ job' = [job EXCEPT ![c] = j]
    /\ copied' = [copied EXCEPT ![c] = 0] /\ calls' = [calls EXCEPT ![c] = @ + 1]
    /\ Goto(c, "check")
    /\ UNCHANGED <<current, files, given, litter, gone, got>>

(* Refused by its extension, directory or type, or a directory, a source or*)
(* a destination that cannot be created, opened or sniffed.                *)
Refuse(c) ==
    /\ pc[c] = "check" /\ Goto(c, "idle")
    /\ UNCHANGED <<current, store, job, copied, calls, files, given, litter, gone, got>>

ClaimsFit(j) == j.claims <= Limit

(* On the disk the file is there from now on, empty.                       *)
Create(c) ==
    /\ pc[c] = "check" /\ ClaimsFit(job[c])
    /\ files' = IF store[c] = "local"
                THEN files \cup {[name |-> Name(c), in |-> "local", units |-> 0]} ELSE files
    /\ Goto(c, "copy")
    /\ UNCHANGED <<current, store, job, copied, calls, given, litter, gone, got>>

(* enforceMaxReader: a file is measured while it is read.                  *)
Enforced(j) == j.via = "file"
AtLimit(j, n) == Enforced(j) /\ n >= Limit
HasMore(j, n) == n < j.size /\ n < j.breaks

ReadOver(j, n, k) == Enforced(j) /\ n + k > Limit + 1    \* mutant: off by one
ReadTooLong(j, n, k) == Enforced(j) /\ n + k > Limit

(* A Read returns some units that can be read; with the limit reached, the *)
(* probe reads one.                                                        *)
Copy(c) ==
    LET j == job[c] n == copied[c] IN
    /\ pc[c] = "copy" /\ HasMore(j, n)
    /\ \E k \in 1 .. Min({j.size, j.breaks}) - n :
          IF ReadTooLong(j, n, k) THEN Goto(c, "failed") /\ UNCHANGED <<copied, files>>
          ELSE \/ /\ copied' = [copied EXCEPT ![c] = n + k]
                  /\ files' = {IF f.name = Name(c) THEN [f EXCEPT !.units = n + k] ELSE f : f \in files}
                  /\ UNCHANGED pc
               \/ Goto(c, "failed") /\ UNCHANGED <<copied, files>>      \* write error
    /\ UNCHANGED <<current, store, job, calls, given, litter, gone, got>>

(* The end of the source.  The probe at the limit takes a failing source   *)
(* for one that has ended.                                                 *)
SourceEnds(j, n) == ~ HasMore(j, n) /\ (n < j.breaks \/ AtLimit(j, n))

EndCopy(c) ==
    LET j == job[c] n == copied[c] IN
    /\ pc[c] = "copy" /\ ~ HasMore(j, n)
    /\ Goto(c, IF SourceEnds(j, n) THEN "close" ELSE "failed")
    /\ UNCHANGED <<current, store, job, copied, calls, files, given, litter, gone, got>>

Return(c) ==
    /\ given' = [x \in DOMAIN given \cup {Name(c)} |-> IF x = Name(c) THEN job[c] ELSE given[x]]
    /\ Goto(c, "idle")

(* The disk: Close of the file may fail, and then the upload has failed.   *)
CloseFile(c) ==
    /\ store[c] = "local"
    /\ \/ pc[c] = "close" /\ Return(c)
       \/ pc[c] \in {"close", "failed"} /\ Goto(c, "remove") /\ UNCHANGED given
    /\ UNCHANGED <<current, store, job, copied, calls, files, litter, gone, got>>

RemoveNothing(c) == files                       \* mutant: the part that was written stays
RemoveMine(c) == files \ Mine(c)

(* The deferred removal; its own error is ignored.                         *)
Remove(c) ==
    /\ pc[c] = "remove" /\ Goto(c, "idle")
    /\ \/ files' = RemoveMine(c) /\ UNCHANGED litter
       \/ litter' = litter \cup {Name(c)} /\ UNCHANGED files
    /\ UNCHANGED <<current, store, job, copied, calls, given, gone, got>>

(* OSS: the object is there once the whole body was sent; a lost answer    *)
(* makes an error of it.                                                   *)
PutObject(c) ==
    /\ store[c] = "oss" /\ pc[c] = "close"
    /\ files' = files \cup {[name |-> Name(c), in |-> "oss", units |-> copied[c]]}
    /\ \/ Return(c) /\ UNCHANGED litter
       \/ Goto(c, "idle") /\ litter' = litter \cup {Name(c)} /\ UNCHANGED given
    /\ UNCHANGED <<current, store, job, copied, calls, gone, got>>

PutFails(c) ==
    /\ store[c] = "oss" /\ pc[c] \in {"close", "failed"} /\ Goto(c, "idle")
    /\ UNCHANGED <<current, store, job, copied, calls, files, given, litter, gone, got>>

-----------------------------------------------------------------------------
(* Get and Delete of a path that was returned, by anybody, at the current  *)
(* instance.                                                               *)

Stored(x) == {f \in files : f.name = x /\ f.in = current}

ReadCut(n) == Min({n, MaxRead})                 \* mutant: the reader stops at the limit
ReadUpTo(n) == Min({n, MaxRead + 1})

(* A file that is not there, or longer than the limit, is an error.        *)
Get(x) ==
    /\ got' = IF \E f \in Stored(x) : ReadUpTo(f.units) <= MaxRead
              THEN <<x, ReadUpTo((CHOOSE f \in Stored(x) : TRUE).units)>> ELSE <<>>
    /\ UNCHANGED <<current, upload, files, given, litter, gone>>

(* The path goes to the instance of now, which need not be where the file  *)
(* is; then there is nothing to remove.                                    *)
Delete(x) ==
    /\ files' = files \ Stored(x)
    /\ gone' = IF Stored(x) = {} THEN gone ELSE gone \cup {x}
    /\ UNCHANGED <<current, upload, given, litter, got>>

Next ==
    \/ \E s \in Stores : Configure(s)
    \/ \E c \in Callers :
          \/ \E j \in Jobs : Upload(c, j)
          \/ Refuse(c) \/ Create(c) \/ Copy(c) \/ EndCopy(c) \/ CloseFile(c) \/ Remove(c)
          \/ PutObject(c) \/ PutFails(c)
    \/ \E x \in DOMAIN given : Get(x) \/ Delete(x)

-----------------------------------------------------------------------------
(* A path that was returned leads to the whole source, within the limit,   *)
(* until it is deleted.  The one exception is a source that failed exactly *)
(* at the limit: the probe's error is dropped and the file is cut there.   *)
UploadedIsWhole ==
    \A x \in DOMAIN given \ gone :
        LET j == given[x]
            whole == IF j.via = "file" /\ j.breaks = Limit THEN Min({j.size, Limit}) ELSE j.size
        IN  /\ whole <= Limit
            /\ \E f \in files : f.name = x /\ f.units = whole

(* A file that no upload in progress writes and whose path nobody got is   *)
(* there only because its removal failed or the answer of OSS was lost.    *)
NothingHalfStays ==
    \A f \in files : \/ f.name \in DOMAIN given \cup litter
                     \/ \E c \in Callers : f.name = Name(c) /\ pc[c] # "idle"

(* Get returns a file whole or not at all.                                 *)
ReadIsWhole ==
    got # <<>> =>
        LET j == given[got[1]]
        IN  got[2] = j.size \/ (j.via = "file" /\ j.breaks = Limit /\ got[2] = Limit)

Spec == Init /\ [][Next]_vars
=============================================================================
