------------------------------- MODULE RepoTx --------------------------------
(***************************************************************************)
(* The repositories of repository/repository.go over the connections of    *)
(* database/manager.go: reads and writes that join the transaction of their*)
(* handle or context, or else go to a replica and the master, nested       *)
(* transactions, and pages counted and listed in one transaction.          *)
(*                                                                         *)
(* The database (external) applies a transaction to the master when it is  *)
(* committed and lets a replica lag.  A savepoint is a frame of its own.   *)
(* No transaction asks for an isolation level, so whether its reads see one*)
(* snapshot is the default of the driver: they do with MySQL's, and with   *)
(* PostgreSQL's each statement sees what is committed by then.             *)
(***************************************************************************)
EXTENDS Integers, FiniteSets, Sequences, FiniteSetsExt

CONSTANTS
    Callers,
    Rows,               \* the ids of the rows
    Snapshots,          \* the driver's default: a transaction reads one snapshot
    MaxDepth,           \* transactions inside one another (bound)
    MaxPage, DefaultPageSize, MaxPageSize

RepoAssumption ==
    /\ MaxDepth \in Nat /\ IsFiniteSet(Rows) /\ Rows \subseteq Nat
    /\ MaxPage \in Nat \ {0} /\ DefaultPageSize \in Nat \ {0} /\ MaxPageSize \in Nat \ {0}

VARIABLES
    master, replica,    \* committed rows, and what the replica has of them
    frames,             \* of each caller: its transaction and its savepoints
    snap,               \* what was committed when its transaction began
    meant,              \* history: rows it created through the transaction
    page                \* its FindPage, if it is in one

vars == <<master, replica, frames, snap, meant, page>>

(* The txRepo that fn is given, another repository with a context from     *)
(* WithTx, and any repository with the context fn was called in.           *)
Handles == {"txRepo", "withTx", "plain"}
Frame == [adds : SUBSET Rows, dels : SUBSET Rows]
EmptyFrame == [adds |-> {}, dels |-> {}]
Modes == {"none", "master", "replica"}     \* UseMaster, UseReplica
NoPage == [conn |-> "none", base |-> {}, total |-> 0, page |-> 1, size |-> 1]
Free(c) == page[c].conn = "none"

TypeOK ==
    /\ master \subseteq Rows /\ replica \subseteq Rows
    /\ \A c \in Callers : frames[c] \in Seq(Frame) /\ Len(frames[c]) <= MaxDepth
    /\ snap \in [Callers -> SUBSET Rows] /\ meant \in [Callers -> SUBSET Rows]

Init ==
    /\ master = {} /\ replica = {}
    /\ frames = [c \in Callers |-> <<>>]
    /\ snap = [c \in Callers |-> {}] /\ meant = [c \in Callers |-> {}]
    /\ page = [c \in Callers |-> NoPage]

-----------------------------------------------------------------------------
(* Connections: the transaction of the context, then of the repository,    *)
(* then the manager's routing.                                             *)

Joins(c, h) == frames[c] # <<>> /\ h # "plain"

WriteToMaster(c, h) == IF Joins(c, h) /\ h = "txRepo" THEN "tx" ELSE "master"   \* mutant: the context is not asked
WriteConn(c, h) == IF Joins(c, h) THEN "tx" ELSE "master"

Route(mode) == IF mode = "master" THEN "master" ELSE "replica"
ReadRouted(c, h, mode) == IF mode = "none" /\ Joins(c, h) THEN "tx" ELSE Route(mode)    \* mutant: the mode comes first
ReadConn(c, h, mode) == IF Joins(c, h) THEN "tx" ELSE Route(mode)

Apply(rows, f) == (rows \ f.dels) \cup f.adds

(* Frame after frame is applied: a row stays unless a later one deletes it.*)
Kept(fs, i, r) == \A j \in i + 1 .. Len(fs) : r \notin fs[j].dels
Overlay(rows, fs) ==
    {r \in Rows : \/ r \in rows /\ Kept(fs, 0, r)
                  \/ \E i \in DOMAIN fs : r \in fs[i].adds /\ Kept(fs, i, r)}
Base(c) == IF Snapshots THEN snap[c] ELSE master
View(c, conn) == CASE conn = "tx" -> Overlay(Base(c), frames[c])
                   [] conn = "master" -> master
                   [] conn = "replica" -> replica

-----------------------------------------------------------------------------
(* Transactions *)

(* WithTransaction on the master, or a savepoint of the transaction joined.*)
Begin(c, h) ==
    /\ Free(c) /\ Len(frames[c]) < MaxDepth
    /\ frames[c] = <<>> \/ Joins(c, h)
    /\ frames' = [frames EXCEPT ![c] = Append(@, EmptyFrame)]
    /\ IF frames[c] = <<>> THEN snap' = [snap EXCEPT ![c] = master] /\ meant' = [meant EXCEPT ![c] = {}]
       ELSE UNCHANGED <<snap, meant>>
    /\ UNCHANGED <<master, replica, page>>

Merge(f, g) == [adds |-> (f.adds \ g.dels) \cup g.adds, dels |-> (f.dels \ g.adds) \cup g.dels]

(* fn returns nil: the frame goes into the one below, or into the master.  *)
Commit(c) ==
    LET fs == frames[c] n == Len(frames[c]) IN
    /\ Free(c) /\ n > 0
    /\ IF n = 1 THEN master' = Apply(master, fs[1]) /\ frames' = [frames EXCEPT ![c] = <<>>]
                     /\ meant' = [meant EXCEPT ![c] = {}]
       ELSE /\ frames' = [frames EXCEPT ![c] = Append(SubSeq(fs, 1, n - 2), Merge(fs[n - 1], fs[n]))]
            /\ UNCHANGED <<master, meant>>
    /\ UNCHANGED <<replica, snap, page>>

(* fn returns an error or panics, or the database refuses to commit.       *)
Rollback(c) ==
    LET fs == frames[c] n == Len(frames[c]) IN
    /\ Free(c) /\ n > 0
    /\ frames' = [frames EXCEPT ![c] = SubSeq(fs, 1, n - 1)]
    /\ meant' = [meant EXCEPT ![c] = IF n = 1 THEN {}
                  ELSE (@ \ fs[n].adds) \cup (fs[n].dels \cap Overlay({}, SubSeq(fs, 1, n - 1)))]
    /\ UNCHANGED <<master, replica, snap, page>>

-----------------------------------------------------------------------------
(* Operations *)

Fresh(r) == /\ r \notin master \cup replica
            /\ \A c \in Callers : \A i \in DOMAIN frames[c] : r \notin frames[c][i].adds \cup frames[c][i].dels

Write(c, h, add, del) ==
    IF WriteConn(c, h) = "tx"
    THEN /\ frames' = [frames EXCEPT ![c][Len(frames[c])] = Merge(@, [adds |-> add, dels |-> del])]
         /\ UNCHANGED master
    ELSE master' = (master \ del) \cup add /\ UNCHANGED frames

Create(c, h, r) ==
    /\ Free(c) /\ Fresh(r)
    /\ Write(c, h, {r}, {})
    /\ meant' = IF Joins(c, h) THEN [meant EXCEPT ![c] = @ \cup {r}] ELSE meant
    /\ UNCHANGED <<replica, snap, page>>

Delete(c, h, r) ==
    /\ Free(c) /\ r \in View(c, WriteConn(c, h))
    /\ Write(c, h, {}, {r})
    /\ meant' = IF Joins(c, h) THEN [meant EXCEPT ![c] = @ \ {r}] ELSE meant
    /\ UNCHANGED <<replica, snap, page>>

(* Any of the reads, one statement.                                        *)
FindWhere(c, h, mode) == View(c, ReadConn(c, h, mode))

(* Another process creates or deletes a row.                               *)
OthersWrite(r) ==
    /\ r \in master \/ Fresh(r)
    /\ master' = IF r \in master THEN master \ {r} ELSE master \cup {r}
    /\ UNCHANGED <<replica, frames, snap, meant, page>>

Replicate ==
    /\ replica # master /\ replica' = master
    /\ UNCHANGED <<master, frames, snap, meant, page>>

-----------------------------------------------------------------------------
(* FindPage: one transaction, two statements *)

NormalPage(p) == Max({1, Min({p, MaxPage})})
NormalSize(s) == IF s <= 0 THEN DefaultPageSize ELSE Min({s, MaxPageSize})
PageOffset(p, s) == (p - 1) * s

(* Count, in a transaction of its own or a savepoint of the one joined.    *)
PageCount(c, h, mode, p, s) ==
    LET conn == ReadConn(c, h, mode) IN
    /\ Free(c)
    /\ page' = [page EXCEPT ![c] = [conn |-> conn, base |-> View(c, conn),
                    total |-> Cardinality(View(c, conn)), page |-> NormalPage(p), size |-> NormalSize(s)]]
    /\ UNCHANGED <<master, replica, frames, snap, meant>>

(* What the list selects from: what Count did, if the driver gives one     *)
(* snapshot, or else what is there by now.                                 *)
Listed(c) == IF Snapshots THEN page[c].base ELSE View(c, page[c].conn)

(* Offset and Limit of the list: base is now the rows of the page.  The order *)
(* of the ids stands for the one asked for.                                  *)
Place(rows, r) == Cardinality({q \in rows : q <= r})
OnPage(rows, offset, size) == {r \in rows : Place(rows, r) \in offset + 1 .. offset + size}

PageList(c) ==
    LET g == page[c] IN
    /\ g.conn \notin {"none", "done"}
    /\ page' = [page EXCEPT ![c].conn = "done",
                            ![c].base = OnPage(Listed(c), PageOffset(g.page, g.size), g.size)]
    /\ UNCHANGED <<master, replica, frames, snap, meant>>

PageReturns(c) ==
    /\ page[c].conn = "done" /\ page' = [page EXCEPT ![c] = NoPage]
    /\ UNCHANGED <<master, replica, frames, snap, meant>>

Next ==
    \/ Replicate \/ \E r \in Rows : OthersWrite(r)
    \/ \E c \in Callers :
          \/ Commit(c) \/ Rollback(c) \/ PageList(c) \/ PageReturns(c)
          \/ \E h \in Handles :
                \/ Begin(c, h)
                \/ \E r \in Rows : Create(c, h, r) \/ Delete(c, h, r)
                \/ \E mode \in Modes, p \in 0 .. MaxPage + 1, s \in {0, 1, MaxPageSize + 1} :
                      PageCount(c, h, mode, p, s)

-----------------------------------------------------------------------------
(* What was created through a transaction, by any of the handles that join *)
(* it, is committed with it and never before.                              *)
TransactionsAreWhole ==
    \A c \in Callers : meant[c] \cap (master \cup replica) = {} /\ meant[c] \subseteq View(c, "tx")

(* A read that joins the transaction has its writes, whatever mode the     *)
(* context asks for and however far the replica lags.                      *)
ReadsSeeOwnWrites ==
    \A c \in Callers, h \in Handles, mode \in Modes :
        Joins(c, h) => meant[c] \subseteq FindWhere(c, h, mode)

(* The comment of FindPage: total and items are of one snapshot, so the    *)
(* items are as many as the total, the number and the size of the page say,*)
(* whatever is committed between the two statements.  Nothing but the      *)
(* driver's default makes it so.                                           *)
PageIsSnapshot ==
    \A c \in Callers : page[c].conn = "done" =>
        LET g == page[c]
        IN  Cardinality(g.base) = Min({g.size, Max({0, g.total - PageOffset(g.page, g.size)})})

Spec == Init /\ [][Next]_vars
=============================================================================
