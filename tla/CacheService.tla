----------------------------- MODULE CacheService -----------------------------
(***************************************************************************)
(* The cache of cache/cache.go: Set, Delete and DeleteByPattern on a Redis *)
(* (external) that may fail, with a client injected or looked up in each   *)
(* operation.                                                              *)
(*                                                                         *)
(* SCAN goes through the buckets of Redis with a cursor: it returns every  *)
(* key that is there all the time, and others or none of a bucket.         *)
(***************************************************************************)
EXTENDS Integers, FiniteSets

CONSTANTS
    Callers,
    Keys,           \* keys that match the pattern
    Buckets,        \* the last cursor before 0 comes back
    BucketOf        \* the bucket of each key, from 1 to Buckets

CacheAssumption == Buckets \in Nat /\ BucketOf \in [Keys -> 1 .. Buckets]

VARIABLES
    injected,       \* m.svc has a client of its own
    ready,          \* the client of database.GetRedis() is there
    cache,          \* keys in Redis
    cursor,         \* of each DeleteByPattern: the next bucket, or 0
    found,          \* keys of the last SCAN, not yet deleted
    since,          \* history: keys there since the call began
    result          \* of the last operation of each caller

vars == <<injected, ready, cache, cursor, found, since, result>>

TypeOK ==
    /\ injected \in BOOLEAN /\ ready \in BOOLEAN /\ cache \subseteq Keys
    /\ cursor \in [Callers -> 0 .. Buckets + 1]
    /\ found \in [Callers -> SUBSET Keys] /\ since \in [Callers -> SUBSET Keys]
    /\ result \in [Callers -> {"none", "ok", "error"}]

Init ==
    /\ injected \in BOOLEAN /\ ready = FALSE /\ cache = {}
    /\ cursor = [c \in Callers |-> 0] /\ found = [c \in Callers |-> {}]
    /\ since = [c \in Callers |-> {}] /\ result = [c \in Callers |-> "none"]

HasClient == injected \/ ready
Idle(c) == cursor[c] = 0

(* database.InitRedis and its Close: a cache made before works after.      *)
RedisReady(r) ==
    /\ ready # r /\ ready' = r
    /\ UNCHANGED <<injected, cache, cursor, found, since, result>>

(* InitWithRedis, or Init, while operations run with what they have.       *)
Reinit(i) ==
    /\ injected # i /\ injected' = i
    /\ UNCHANGED <<ready, cache, cursor, found, since, result>>

(* A key leaves Redis, by Delete or because it expires.                    *)
Forget(k) ==
    /\ k \in cache /\ cache' = cache \ {k}
    /\ since' = [c \in Callers |-> since[c] \ {k}]
    /\ UNCHANGED <<injected, ready, cursor, found, result>>

Set(c, k) ==
    /\ Idle(c) /\ HasClient /\ k \notin cache
    /\ cache' = cache \cup {k} /\ result' = [result EXCEPT ![c] = "ok"]
    /\ UNCHANGED <<injected, ready, cursor, found, since>>

(* ErrRedisNotReady.                                                       *)
NotReady(c) ==
    /\ Idle(c) /\ ~ HasClient
    /\ result' = [result EXCEPT ![c] = "error"]
    /\ UNCHANGED <<injected, ready, cache, cursor, found, since>>

-----------------------------------------------------------------------------
(* DeleteByPattern takes its client once and scans from cursor 0: here the *)
(* cursor of the next bucket, with 0 for a caller that is in no call.      *)

DeleteByPattern(c) ==
    /\ Idle(c) /\ HasClient
    /\ cursor' = [cursor EXCEPT ![c] = 1] /\ since' = [since EXCEPT ![c] = cache]
    /\ found' = [found EXCEPT ![c] = {}] /\ result' = [result EXCEPT ![c] = "none"]
    /\ UNCHANGED <<injected, ready, cache>>

Bucket(b) == {k \in cache : BucketOf[k] = b}

Scan(c) ==
    /\ cursor[c] \in 1 .. Buckets /\ found[c] = {}
    /\ found' = [found EXCEPT ![c] = Bucket(cursor[c])]
    /\ cursor' = [cursor EXCEPT ![c] = @ + 1]
    /\ UNCHANGED <<injected, ready, cache, since, result>>

Del(c) ==
    /\ found[c] # {}
    /\ cache' = cache \ found[c]
    /\ since' = [d \in Callers |-> since[d] \ found[c]]
    /\ found' = [found EXCEPT ![c] = {}]
    /\ UNCHANGED <<injected, ready, cursor, result>>

(* SCAN or DEL fails: what was deleted so far stays deleted.               *)
PatternFails(c) ==
    /\ ~ Idle(c)
    /\ cursor' = [cursor EXCEPT ![c] = 0] /\ found' = [found EXCEPT ![c] = {}]
    /\ result' = [result EXCEPT ![c] = "error"]
    /\ UNCHANGED <<injected, ready, cache, since>>

NothingFound(c) == cursor[c] > 1                \* mutant: a page without keys ends the scan
ScannedAll(c) == cursor[c] > Buckets

PatternDone(c) ==
    /\ ScannedAll(c) /\ found[c] = {}
    /\ cursor' = [cursor EXCEPT ![c] = 0] /\ result' = [result EXCEPT ![c] = "ok"]
    /\ UNCHANGED <<injected, ready, cache, found, since>>

Next ==
    \/ \E b \in BOOLEAN : RedisReady(b) \/ Reinit(b)
    \/ \E k \in Keys : Forget(k)
    \/ \E c \in Callers :
          \/ \E k \in Keys : Set(c, k)
          \/ NotReady(c) \/ DeleteByPattern(c) \/ Scan(c) \/ Del(c) \/ PatternFails(c) \/ PatternDone(c)

-----------------------------------------------------------------------------
(* When DeleteByPattern returns nil, no matching key has been there since  *)
(* it began; one that was set meanwhile may stay.                          *)
PatternIsDeleted ==
    [][\A c \in Callers : ~ Idle(c) /\ cursor'[c] = 0 /\ result'[c] = "ok"
          => since[c] = {}]_vars

Spec == Init /\ [][Next]_vars
=============================================================================
