---------------------------- MODULE RouteRegistry ----------------------------
(***************************************************************************)
(* The Registry of router/router.go: registrations by several goroutines   *)
(* and Apply, which freezes the registry, takes a snapshot under the mutex *)
(* and registers it in the engine outside of it, once.                     *)
(*                                                                         *)
(* An item is a middleware, a module, or a version with its modules.  The  *)
(* engine (gin, external) gives a route the middlewares used so far.       *)
(***************************************************************************)
EXTENDS Integers, FiniteSets, Sequences, SequencesExt

CONSTANTS
    Callers,
    Middlewares, Modules,
    Keys,       \* version strings, numbered as sort.Strings orders them
    Versions,   \* VersionedAPI objects
    KeyOf,      \* the version string of each
    Metrics,    \* the middleware that SetMetricsMiddleware is called with
    Nobody

RegistryAssumption ==
    /\ Keys \subseteq Nat /\ KeyOf \in [Versions -> Keys] /\ Nobody \notin Versions
    /\ Middlewares \cap Modules = {} /\ Metrics \notin Middlewares \cup Modules
    /\ Versions \cap (Middlewares \cup Modules \cup {Metrics}) = {}

VARIABLES
    global,     \* globalMiddlewares
    metrics,    \* metricsMiddleware, a set of at most one
    modules,    \* r.modules
    versions,   \* r.versions: the object under each key, or Nobody
    parts,      \* Modules of each VersionedAPI, which AddModule appends to
    applied,    \* r.applied
    once,       \* applyOnce: "new", "doing" or "done"
    pc,         \* where each caller is
    has,        \* AddModule: the slice it has read
    todo,       \* the snapshot: what Apply still has to register without version,
    groups,     \* and under each key
    used,       \* middlewares of the engine
    routes,     \* what the engine got: a module and the middlewares in front
    accepted,   \* history: registrations that were not refused
    broken      \* a module panicked in Apply

vars == <<global, metrics, modules, versions, parts, applied, once, pc, has, todo, groups,
          used, routes, accepted, broken>>
registry == <<global, metrics, modules, versions, parts>>
engine == <<used, routes>>
snapshot == <<todo, groups>>

Init ==
    /\ global = <<>> /\ metrics = {} /\ modules = <<>>
    /\ versions = [k \in Keys |-> Nobody] /\ parts = [v \in Versions |-> <<>>]
    /\ applied = FALSE /\ once = "new"
    /\ pc = [c \in Callers |-> "idle"] /\ has = [c \in Callers |-> <<>>]
    /\ todo = <<>> /\ groups = [k \in Keys |-> <<>>]
    /\ used = <<>> /\ routes = {} /\ accepted = {} /\ broken = FALSE

Goto(c, where) == pc' = [pc EXCEPT ![c] = where]

-----------------------------------------------------------------------------
(* Registrations: lockForMutation refuses them once Apply has begun.       *)

Accept(x) == accepted' = accepted \cup {x}

(* Each item is registered once in the model; registering it twice would   *)
(* only repeat it.                                                         *)
LockForMutation(c) ==
    /\ pc[c] = "idle" /\ ~ applied
    /\ UNCHANGED <<parts, applied, once, pc, has, snapshot, engine, broken>>

Registering(c, x) == LockForMutation(c) /\ x \notin accepted /\ Accept(x)

Use(c, m) ==
    /\ Registering(c, m)
    /\ global' = Append(global, m) /\ UNCHANGED <<metrics, modules, versions>>

RegisterModule(c, m) ==
    /\ Registering(c, m)
    /\ modules' = Append(modules, m) /\ UNCHANGED <<global, metrics, versions>>

(* A version replaces the one of the same name. *)
RegisterVersion(c, v) ==
    /\ Registering(c, v)
    /\ versions' = [versions EXCEPT ![KeyOf[v]] = v] /\ UNCHANGED <<global, metrics, modules>>

SetMetricsMiddleware(c) ==
    /\ \/ Registering(c, Metrics) /\ metrics' = {Metrics}
       \/ LockForMutation(c) /\ metrics' = {} /\ accepted' = accepted \ {Metrics}    \* nil
    /\ UNCHANGED <<global, modules, versions>>

(* AddModule has no lock: it reads the slice and stores it one longer, and *)
(* nothing tells it that Apply has begun.                                  *)
AddModuleReads(c, v, m) ==
    /\ pc[c] = "idle" /\ ~ Contains(parts[v], m)
    /\ has' = [has EXCEPT ![c] = <<v, Append(parts[v], m)>>]
    /\ Goto(c, "store")
    /\ UNCHANGED <<registry, applied, once, snapshot, engine, accepted, broken>>

AddModuleStores(c) ==
    /\ pc[c] = "store"
    /\ parts' = [parts EXCEPT ![has[c][1]] = has[c][2]]
    /\ has' = [has EXCEPT ![c] = <<>>] /\ Goto(c, "idle")
    /\ UNCHANGED <<global, metrics, modules, versions, applied, once, snapshot, engine, accepted, broken>>

-----------------------------------------------------------------------------
(* Apply *)

(* once.Do: the first caller goes on, the others wait until it is over.    *)
ApplyOnce(c) ==
    /\ pc[c] = "idle"
    /\ IF once = "new" THEN once' = "doing" /\ Goto(c, "snapshot")
       ELSE Goto(c, "wait") /\ UNCHANGED once
    /\ UNCHANGED <<registry, applied, has, snapshot, engine, accepted, broken>>

(* The snapshot: middlewares first, the metrics one in front, then modules;*)
(* and of every version its modules, to be taken in the order of the keys. *)
Group(k) == IF versions[k] = Nobody THEN <<>> ELSE parts[versions[k]]
InFront == IF metrics = {} THEN global ELSE <<Metrics>> \o global
Snapshot == InFront \o modules

FrozenLater == FALSE            \* mutant: the flag is set when the snapshot is registered
Frozen == TRUE

TakeSnapshot(c) ==
    /\ pc[c] = "snapshot"
    /\ applied' = Frozen
    /\ todo' = Snapshot /\ groups' = [k \in Keys |-> Group(k)]
    /\ Goto(c, "apply")
    /\ UNCHANGED <<registry, once, has, engine, accepted, broken>>

(* engine.Use, or module.Register: a route gets what is in use by then.    *)
Register(x) == routes' = routes \cup {<<x, used>>} /\ UNCHANGED used

ApplyOne(c) ==
    /\ pc[c] = "apply" /\ todo # <<>>
    /\ IF Head(todo) \in Modules THEN Register(Head(todo))
       ELSE used' = Append(used, Head(todo)) /\ UNCHANGED routes
    /\ todo' = Tail(todo)
    /\ UNCHANGED <<registry, applied, once, pc, has, groups, accepted, broken>>

(* The versions come after everything else.                                *)
AtKey(k) == todo = <<>> /\ groups[k] # <<>> /\ \A j \in Keys : j < k => groups[j] = <<>>

ApplyVersion(c, k) ==
    /\ pc[c] = "apply" /\ AtKey(k)
    /\ Register(Head(groups[k]))
    /\ groups' = [groups EXCEPT ![k] = Tail(@)]
    /\ UNCHANGED <<registry, applied, once, pc, has, todo, accepted, broken>>

(* A module panics, over a route that conflicts: the rest is not applied,  *)
(* and the once is spent.                                                  *)
ApplyPanics(c) ==
    /\ pc[c] = "apply"
    /\ (todo # <<>> /\ Head(todo) \in Modules) \/ \E k \in Keys : AtKey(k)
    /\ broken' = TRUE /\ once' = "done" /\ todo' = <<>> /\ groups' = [k \in Keys |-> <<>>]
    /\ Goto(c, "idle")
    /\ UNCHANGED <<registry, applied, has, engine, accepted>>

ApplyDone(c) ==
    /\ pc[c] = "apply" /\ todo = <<>> /\ \A k \in Keys : groups[k] = <<>>
    /\ once' = "done" /\ applied' = TRUE /\ Goto(c, "applied")
    /\ UNCHANGED <<registry, has, snapshot, engine, accepted, broken>>

WaitsForNothing(c) == TRUE      \* mutant: a second Apply does not wait for the first
OnceOver(c) == once = "done"

ApplyWaited(c) ==
    /\ pc[c] = "wait" /\ OnceOver(c)
    /\ Goto(c, "applied")
    /\ UNCHANGED <<registry, applied, once, has, snapshot, engine, accepted, broken>>

Return(c) ==
    /\ pc[c] = "applied" /\ Goto(c, "idle")
    /\ UNCHANGED <<registry, applied, once, has, snapshot, engine, accepted, broken>>

Next ==
    \E c \in Callers :
        \/ \E m \in Middlewares : Use(c, m)
        \/ \E m \in Modules : RegisterModule(c, m)
        \/ \E v \in Versions : RegisterVersion(c, v)
        \/ SetMetricsMiddleware(c)
        \/ \E v \in Versions, m \in Modules : AddModuleReads(c, v, m)
        \/ \E k \in Keys : ApplyVersion(c, k)
        \/ AddModuleStores(c) \/ ApplyOnce(c) \/ TakeSnapshot(c) \/ ApplyOne(c)
        \/ ApplyPanics(c) \/ ApplyDone(c) \/ ApplyWaited(c) \/ Return(c)

-----------------------------------------------------------------------------
(* An Apply that returns, the second one included, has put into the engine *)
(* every registration that was not refused, unless a module panicked; and  *)
(* no route of a module stands without a middleware that was accepted, or  *)
(* in front of the metrics.                                                *)
AcceptedIsApplied ==
    \A c \in Callers : pc[c] = "applied" /\ ~ broken =>
        /\ accepted \cap (Middlewares \cup {Metrics}) = ToSet(used)
        /\ \A m \in accepted \cap Modules : \E r \in routes : r[1] = m
        /\ \A r \in routes : r[2] = used
        /\ Metrics \in accepted => used[1] = Metrics

(* The engine gets everything once, whoever calls Apply and how often.     *)
AppliedOnce == \A i, j \in DOMAIN used : used[i] = used[j] => i = j

Spec == Init /\ [][Next]_vars
=============================================================================
