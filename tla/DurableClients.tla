--------------------------- MODULE DurableClients ---------------------------
(***************************************************************************)
(* The management clients of the durable middleware                         *)
(* (src/middleware/durabletask): one per gRPC target, made by the first     *)
(* invocation whose binding names the target, shared by the later ones, and *)
(* closed by Shutdown; and the fallback client of the middleware itself.    *)
(* A client is named after the invocation that dialled it.                  *)
(***************************************************************************)
EXTENDS FiniteSets

CONSTANTS
    Invocations,    \* invocations passing through the middleware
    Targets,        \* gRPC targets the host's bindings name
    NoOne           \* no invocation, no client, no target

\* Shutdown, as a holder of the mutex.
Shutter == "shutdown"

ASSUME NoOneAssumption ==
    /\ NoOne \notin Invocations \cup Targets
    /\ Shutter \notin Invocations \cup {NoOne}

VARIABLES
    at,         \* where each invocation is
    target,     \* the target its durable client binding names, if any
    holds,      \* the client in its context: of an invocation, "fallback"
                \* (whatever d.client is) or NoOne
    clients,    \* state of the client each invocation may have dialled
    cache,      \* bindingClients: target to client
    mu,         \* who holds the mutex
    fallback,   \* d.client: dialled by the middleware ("owned"), closed again
                \* ("closed"), or the app's or none at all ("kept")
    shut        \* progress of Shutdown

durableVars == <<at, target, holds, clients, cache, mu, fallback, shut>>

DurableInit ==
    /\ at = [i \in Invocations |-> "none"]
    /\ target = [i \in Invocations |-> NoOne]
    /\ holds = [i \in Invocations |-> NoOne]
    /\ clients = [i \in Invocations |-> "unused"]
    /\ cache = [t \in Targets |-> NoOne]
    /\ mu = NoOne
    /\ fallback \in {"kept", "owned"}
    /\ shut = "no"

\* Wrap: a replay gets no client, a binding without a usable target leaves the
\* fallback client, and any other binding goes to the cache.
Wrap(i) ==
    /\ at[i] = "none"
    /\ \/ /\ at' = [at EXCEPT ![i] = "runs"]
          /\ holds' = holds
          /\ target' = target
       \/ /\ at' = [at EXCEPT ![i] = "runs"]
          /\ holds' = [holds EXCEPT ![i] = "fallback"]
          /\ target' = target
       \/ /\ at' = [at EXCEPT ![i] = "wants"]
          /\ \E t \in Targets : target' = [target EXCEPT ![i] = t]
          /\ holds' = holds
    /\ UNCHANGED <<clients, cache, mu, fallback, shut>>

\* Mutant: the lookup does not take the mutex first.
LockUnguarded(i) ==
    /\ at[i] = "wants"
    /\ at' = [at EXCEPT ![i] = "locked"]
    /\ mu' = i
    /\ UNCHANGED <<target, holds, clients, cache, fallback, shut>>

Lock(i) ==
    /\ at[i] = "wants"
    /\ mu = NoOne
    /\ at' = [at EXCEPT ![i] = "locked"]
    /\ mu' = i
    /\ UNCHANGED <<target, holds, clients, cache, fallback, shut>>

Reuse(i) ==
    /\ at[i] = "locked"
    /\ cache[target[i]] # NoOne
    /\ holds' = [holds EXCEPT ![i] = cache[target[i]]]
    /\ at' = [at EXCEPT ![i] = "runs"]
    /\ mu' = NoOne
    /\ UNCHANGED <<target, clients, cache, fallback, shut>>

\* Dial may fail; then the invocation runs with the fallback client.
DialTarget(i) ==
    /\ at[i] = "locked"
    /\ cache[target[i]] = NoOne
    /\ \/ /\ clients' = [clients EXCEPT ![i] = "open"]
          /\ at' = [at EXCEPT ![i] = "dialled"]
          /\ UNCHANGED <<holds, mu>>
       \/ /\ holds' = [holds EXCEPT ![i] = "fallback"]
          /\ at' = [at EXCEPT ![i] = "runs"]
          /\ mu' = NoOne
          /\ UNCHANGED clients
    /\ UNCHANGED <<target, cache, fallback, shut>>

Store(i) ==
    /\ at[i] = "dialled"
    /\ cache' = [cache EXCEPT ![target[i]] = i]
    /\ holds' = [holds EXCEPT ![i] = i]
    /\ at' = [at EXCEPT ![i] = "runs"]
    /\ mu' = NoOne
    /\ UNCHANGED <<target, clients, fallback, shut>>

\* The handler has returned.
Leave(i) ==
    /\ at[i] = "runs"
    /\ at' = [at EXCEPT ![i] = "done"]
    /\ UNCHANGED <<target, holds, clients, cache, mu, fallback, shut>>

\* Shutdown closes the fallback client if it is the middleware's own, before
\* taking the mutex.
ShutFallback ==
    /\ shut = "no"
    /\ shut' = "closing"
    /\ fallback' = IF fallback = "owned" THEN "closed" ELSE fallback
    /\ UNCHANGED <<at, target, holds, clients, cache, mu>>

ShutLock ==
    /\ shut = "closing"
    /\ mu = NoOne
    /\ mu' = Shutter
    /\ shut' = "locked"
    /\ UNCHANGED <<at, target, holds, clients, cache, fallback>>

Cached == {cache[t] : t \in Targets} \ {NoOne}

ShutSweep ==
    /\ shut = "locked"
    /\ clients' = [i \in Invocations |-> IF i \in Cached THEN "closed" ELSE clients[i]]
    /\ cache' = [t \in Targets |-> NoOne]
    /\ mu' = NoOne
    /\ shut' = "swept"
    /\ UNCHANGED <<at, target, holds, fallback>>

ClientStep(i) == Lock(i) \/ Reuse(i) \/ DialTarget(i) \/ Store(i)

-----------------------------------------------------------------------------
\* A client is open exactly while the cache or the invocation that is dialling
\* it can still reach it, and no target's client is closed under it: a client
\* dialled before Shutdown took the mutex is closed by it, and one handed out
\* of the cache is never a closed one (durabletask.go: cachedClient, Shutdown).
ClientsAccounted ==
    \A i \in Invocations :
        clients[i] = "open" <=> i \in Cached \/ at[i] = "dialled"
=============================================================================
