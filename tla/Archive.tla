------------------------------- MODULE Archive -------------------------------
(***************************************************************************)
(* compress/compress.go: unpacking of zip archives and gzip files within   *)
(* the limits of DecompressOptions, entry by entry, and packing.           *)
(*                                                                         *)
(* A unit of size stands for any number of bytes; every read, write, close *)
(* and removal may fail.  Limits of -1 mean none.  Units have no width:    *)
(* limit + 1 overflows at a MaxBytes of MaxInt64, which is left out.       *)
(***************************************************************************)
EXTENDS Integers, Sequences, FiniteSetsExt, Sums

CONSTANTS
    Names,          \* paths that entries are extracted to
    MaxEntry,       \* size of the largest entry (bound)
    MaxEntries,     \* entries of the longest archive (bound)
    EntryLimit,     \* MaxBytes after resolveLimit
    TotalLimit      \* MaxTotalBytes after resolveLimit

(* resolveLimit puts the default for 0.                                    *)
ArchiveAssumption ==
    /\ MaxEntry \in Nat \ {0} /\ MaxEntries \in Nat
    /\ EntryLimit \in Int \ {0} /\ TotalLimit \in Int \ {0}

VARIABLES
    op,         \* "unzip", "gunzip" or "pack"
    archive,    \* the entries: of the archive, or the files to pack
    at,         \* entries done so far
    total,      \* total of UnzipWithOptions
    disk,       \* what is at each path
    result,     \* "none", "ok" or "error"
    unlucky     \* a call failed that had no reason in the archive

vars == <<op, archive, at, total, disk, result, unlucky>>

Kinds == {"file", "dir", "refused"}     \* refused: a symlink, or a path outside
Entries == [name : Names, kind : {"file"}, size : 0 .. MaxEntry]
           \cup [name : Names, kind : {"dir", "refused"}, size : {0}]
File(state, n) == [state |-> state, units |-> n]
Absent == File("absent", 0)

TypeOK ==
    /\ op \in {"unzip", "gunzip", "pack"} /\ archive \in Seq(Entries)
    /\ at \in 0 .. Len(archive) /\ total \in Nat
    /\ disk \in [Names -> [state : {"absent", "before", "whole", "part"}, units : 0 .. MaxEntry]]
    /\ result \in {"none", "ok", "error"} /\ unlucky \in BOOLEAN

(* A gzip file is one entry; of what is packed only the files matter.      *)
Archives == UNION {[1 .. n -> Entries] : n \in 0 .. MaxEntries}
Single(a) == Len(a) = 1 /\ a[1].kind = "file"

Init ==
    /\ op \in {"unzip", "gunzip", "pack"} /\ archive \in Archives
    /\ op = "gunzip" => Single(archive)
    /\ op = "pack" => \A i \in DOMAIN archive : archive[i].kind = "file"
    /\ at = 0 /\ total = 0 /\ result = "none" /\ unlucky = FALSE
    /\ disk \in [Names -> {Absent, File("before", 1)}]

-----------------------------------------------------------------------------
Entry == archive[at + 1]
Working == result = "none" /\ at < Len(archive)

MinLimit(a, b) == IF a < 0 THEN b ELSE IF b < 0 THEN a ELSE Min({a, b})

(* The limit of this entry; -1 for none, 0 when the total is used up.      *)
EntryCap == MinLimit(EntryLimit, TotalLimit)     \* mutant: what was unpacked before is not counted
Cap == IF op = "gunzip" \/ TotalLimit <= 0 THEN EntryLimit
       ELSE MinLimit(EntryLimit, TotalLimit - total)

CopiesOnlyTo(n) == IF Cap < 0 THEN n ELSE Min({n, Cap})     \* mutant: the unit that would tell is not read
CopiesUpTo(n) == IF Cap < 0 THEN n ELSE Min({n, Cap + 1})
TooLong == Cap = 0 \/ (Cap > 0 /\ CopiesUpTo(Entry.size) > Cap)

Place(f) == disk' = [disk EXCEPT ![Entry.name] = f]

(* The entry is whole at its path, what was there before is overwritten.   *)
Extract ==
    /\ op # "pack" /\ Working /\ Entry.kind = "file" /\ ~ TooLong
    /\ Place(File("whole", CopiesUpTo(Entry.size)))
    /\ at' = at + 1 /\ total' = total + CopiesUpTo(Entry.size)
    /\ UNCHANGED <<op, archive, result, unlucky>>

Directory ==
    /\ op # "pack" /\ Working /\ Entry.kind = "dir"
    /\ at' = at + 1
    /\ UNCHANGED <<op, archive, total, disk, result, unlucky>>

Refuse ==
    /\ op # "pack" /\ Working /\ Entry.kind = "refused"
    /\ result' = "error"
    /\ UNCHANGED <<op, archive, at, total, disk, unlucky>>

LeavesPart == File("part", Entry.size)     \* mutant: the part that was copied stays
Cleans == Absent

(* Over the limit, or a copy or a close fails: the file that was created   *)
(* is removed again, and with it what was there before.                    *)
ExtractFails ==
    /\ op # "pack" /\ Working /\ Entry.kind = "file"
    /\ Place(Cleans) /\ result' = "error"
    /\ unlucky' = ~ TooLong
    /\ UNCHANGED <<op, archive, at, total>>

(* Nothing could be created; or the removal fails, too.                    *)
ExtractBreaks ==
    /\ op # "pack" /\ Working /\ Entry.kind # "refused"
    /\ \/ UNCHANGED disk
       \/ Entry.kind = "file" /\ Place(File("part", Entry.size))
    /\ result' = "error" /\ unlucky' = TRUE
    /\ UNCHANGED <<op, archive, at, total>>

-----------------------------------------------------------------------------
(* Zip and GzipCompressFile: the archive is finished whatever happened to  *)
(* its files, at a path of its own, and stays when the call has failed.    *)

PackFile ==
    /\ op = "pack" /\ Working
    /\ at' = at + 1 /\ total' = total + Entry.size
    /\ UNCHANGED <<op, archive, disk, result, unlucky>>

PackStops ==
    /\ op = "pack" /\ Working
    /\ unlucky' = TRUE /\ result' = "error"
    /\ UNCHANGED <<op, archive, at, total, disk>>

CloseIgnored(fails) == TRUE                     \* mutant: the error of a Close is not returned
CloseReturned(fails) == ~ fails

Finish ==
    /\ result = "none" /\ at = Len(archive)
    /\ \E fails \in IF op = "pack" THEN BOOLEAN ELSE {FALSE} :
          /\ unlucky' = fails /\ result' = IF CloseReturned(fails) THEN "ok" ELSE "error"
    /\ UNCHANGED <<op, archive, at, total, disk>>

Next == Extract \/ Directory \/ Refuse \/ ExtractFails \/ ExtractBreaks \/ PackFile
        \/ PackStops \/ Finish

-----------------------------------------------------------------------------
Size(n) == disk[n].units
Over(limit, n) == limit > 0 /\ n > limit
Sizes == [i \in 0 .. Len(archive) |-> IF i = 0 THEN 0 ELSE archive[i].size]
SizesOf(n) == Total(Sizes, n)

(* What is unpacked stays within the limits, the sum of all entries        *)
(* included, and a file is whole unless a removal failed.                  *)
LimitsHold ==
    /\ op = "unzip" => ~ Over(TotalLimit, total)
    /\ \A n \in Names : disk[n].state = "whole" =>
          /\ ~ Over(EntryLimit, Size(n))
          /\ \E i \in 1 .. at : archive[i].name = n /\ archive[i].size = Size(n)
    /\ \A n \in Names : disk[n].state = "part" => unlucky

(* An archive within the limits is refused by no accident of arithmetic,   *)
(* but for one: an entry, even an empty one, that comes after the total is *)
(* used up exactly.                                                        *)
WithinLimitsUnpacks ==
    op # "pack" /\ result = "error" /\ ~ unlucky =>
        \/ \E i \in DOMAIN archive : archive[i].kind = "refused" \/ Over(EntryLimit, archive[i].size)
        \/ Over(TotalLimit, SizesOf(Len(archive)))
        \/ TotalLimit > 0 /\ SizesOf(at) = TotalLimit /\ Entry.kind = "file"

(* Unpacking or packing that returns nil has done everything.              *)
OkIsComplete == result = "ok" => at = Len(archive) /\ ~ unlucky

Spec == Init /\ [][Next]_vars
=============================================================================
