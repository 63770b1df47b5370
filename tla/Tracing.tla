------------------------------- MODULE Tracing -------------------------------
(***************************************************************************)
(* The process-wide tracer of trace/trace.go: Init and Close by several    *)
(* goroutines over three atomics, the OpenTelemetry global, the provider   *)
(* and the tracer, that are replaced one after the other.                  *)
(*                                                                         *)
(* A provider with an exporter runs a goroutine until it is shut down.  The*)
(* provider without one, and its tracer, are Noop; it shuts down at once.  *)
(*                                                                         *)
(* A shutdown has a deadline, and that of Close also the caller's context, *)
(* which may be over before it starts: what it cuts short is asked to end, *)
(* nobody can ask again, and whether its exporter ends is up to the library*)
(* (external).                                                             *)
(***************************************************************************)
EXTENDS Integers, FiniteSets

CONSTANTS Callers,
          MaxProviders      \* providers made (bound)

TraceAssumption == MaxProviders \in Nat

VARIABLES
    pc,         \* where each caller is
    mine,       \* the provider it installs
    old,        \* the provider it replaced
    provider,   \* tracerProviderPtr
    tracer,     \* the provider of tracerPtr
    global,     \* otel.SetTracerProvider
    made,       \* providers made so far
    live,       \* providers whose exporter runs
    cut,        \* those of them whose shutdown was cut short
    overlapped  \* history: two calls overlapped

installed == <<provider, tracer, global>>
exporters == <<made, live, cut>>
vars == <<pc, mine, old, installed, exporters, overlapped>>

Noop == 0
Providers == 0 .. MaxProviders

TypeOK ==
    /\ pc \in [Callers -> {"idle", "propagator", "global", "quiet", "swap", "swapLast", "tracer", "shutdown"}]
    /\ mine \in [Callers -> Providers] /\ old \in [Callers -> Providers]
    /\ {provider, tracer, global, made} \subseteq Providers /\ live \cup cut \subseteq Providers

Init ==
    /\ pc = [c \in Callers |-> "idle"]
    /\ mine = [c \in Callers |-> Noop] /\ old = [c \in Callers |-> Noop]
    /\ provider = Noop /\ tracer = Noop /\ global = Noop
    /\ made = 0 /\ live = {} /\ cut = {} /\ overlapped = FALSE

Goto(c, where) == pc' = [pc EXCEPT ![c] = where]
Begins(c) == /\ pc[c] = "idle"
             /\ overlapped' = (overlapped \/ \E d \in Callers : pc[d] # "idle")
Returns(c) ==               \* and its local variables are gone
    /\ Goto(c, "idle") /\ mine' = [mine EXCEPT ![c] = Noop] /\ old' = [old EXCEPT ![c] = Noop]

(* Init, enabled: the exporter and a provider of its own.  A bad ratio or  *)
(* exporter is refused before there is anything.                           *)
InitEnabled(c) ==
    /\ Begins(c) /\ made < MaxProviders
    /\ made' = made + 1 /\ mine' = [mine EXCEPT ![c] = made + 1]
    /\ live' = live \cup {made + 1} /\ Goto(c, "propagator")
    /\ UNCHANGED <<old, installed, cut>>

(* provider.Shutdown ends the exporter, or gives up on it.                 *)
Ends(p) == live' = live \ {p} /\ cut' = cut
CutShort(p) == p # Noop /\ cut' = cut \cup {p} /\ live' = live

(* An unknown propagator: the new provider is shut down again, and the     *)
(* error of that is dropped.                                               *)
BadPropagator(c) ==
    /\ pc[c] = "propagator" /\ Returns(c)
    /\ Ends(mine[c]) \/ CutShort(mine[c])
    /\ UNCHANGED <<installed, made, overlapped>>

(* Init, disabled: everything becomes Noop, the provider last.             *)
InitDisabled(c) ==
    /\ Begins(c) /\ mine' = [mine EXCEPT ![c] = Noop] /\ global' = Noop
    /\ Goto(c, "quiet")
    /\ UNCHANGED <<old, provider, tracer, exporters>>

StoreNoop(c) ==
    /\ pc[c] = "quiet" /\ tracer' = Noop /\ Goto(c, "swapLast")
    /\ UNCHANGED <<mine, old, provider, global, exporters, overlapped>>

(* Close leaves the OpenTelemetry global alone.                            *)
Close(c) ==
    /\ Begins(c) /\ mine' = [mine EXCEPT ![c] = Noop] /\ Goto(c, "swap")
    /\ UNCHANGED <<old, installed, exporters>>

SetGlobal(c) ==
    /\ pc[c] = "propagator" /\ global' = mine[c] /\ Goto(c, "swap")
    /\ UNCHANGED <<mine, old, provider, tracer, exporters, overlapped>>

TakesNothing(c) == old' = [old EXCEPT ![c] = Noop]      \* mutant: Store in place of Swap
TakesOld(c) == old' = [old EXCEPT ![c] = provider]

SwapProvider(c) ==
    /\ pc[c] \in {"swap", "swapLast"} /\ provider' = mine[c] /\ TakesOld(c)
    /\ Goto(c, IF pc[c] = "swap" THEN "tracer" ELSE "shutdown")
    /\ UNCHANGED <<mine, tracer, global, exporters, overlapped>>

StoreTracer(c) ==
    /\ pc[c] = "tracer" /\ tracer' = mine[c] /\ Goto(c, "shutdown")
    /\ UNCHANGED <<mine, old, provider, global, exporters, overlapped>>

(* shutdownProviderWithTimeout of what was replaced.  Close returns its    *)
(* error and Init drops it; neither tries again.                           *)
ShutdownOld(c) ==
    /\ pc[c] = "shutdown" /\ Returns(c)
    /\ Ends(old[c]) \/ CutShort(old[c])
    /\ UNCHANGED <<installed, made, overlapped>>

(* The library goes on without its caller and gets to the end after all.   *)
EndsLate(p) ==
    /\ p \in cut /\ live' = live \ {p} /\ cut' = cut \ {p}
    /\ UNCHANGED <<pc, mine, old, installed, made, overlapped>>

Next ==
    \/ \E p \in Providers : EndsLate(p)
    \/ \E c \in Callers :
        \/ InitEnabled(c) \/ BadPropagator(c) \/ InitDisabled(c) \/ StoreNoop(c) \/ Close(c)
        \/ SetGlobal(c) \/ SwapProvider(c) \/ StoreTracer(c) \/ ShutdownOld(c)

-----------------------------------------------------------------------------
(* However Init and Close overlap, the current provider was never asked to *)
(* shut down, not even in vain, and when they are over no other exporter   *)
(* runs but those whose shutdown was cut short.  Init drops the error of   *)
(* such a shutdown and returns nil, although the exporter may run on and   *)
(* nobody holds its provider any more; Close returns it.                   *)
OneExporterRuns ==
    /\ provider # Noop => provider \in live \ cut
    /\ (\A c \in Callers : pc[c] = "idle") => live \subseteq {provider} \cup cut

(* Calls that do not overlap leave a tracer of the current provider.       *)
TracerIsCurrent ==
    ~ overlapped /\ (\A c \in Callers : pc[c] = "idle") => tracer = provider

Spec == Init /\ [][Next]_vars
=============================================================================
