------------------------------ MODULE Lifecycle ------------------------------
(***************************************************************************)
(* The main thread of a worker process: worker.Start from the command line  *)
(* to its return or to os.Exit, with the signal trap, the lifecycle hooks   *)
(* and the shutdown callbacks of the middleware.  One hook of the list is   *)
(* the embedded collector; the others start and stop in one step each.      *)
(***************************************************************************)
EXTENDS Integers, Sequences, HostClient, Collector

CONSTANTS
    Hooks,      \* the hooks the start options leave (a nil one is dropped), in
                \* order: "plain" or "collector"
    Middleware  \* middleware with a Shutdown, in order: "exporter" or "durable"

ASSUME HooksAssumption ==
    /\ Hooks \in Seq({"plain", "collector"})
    /\ \A i, j \in 1..Len(Hooks) :
         Hooks[i] = "collector" /\ Hooks[j] = "collector" => i = j
ASSUME MiddlewareAssumption == Middleware \in Seq({"exporter", "durable"})

VARIABLES
    pc,         \* where Start is
    ix,         \* the hook or shutdown callback Start is at
    up,         \* hooks whose Start has returned nil and that are not shut down
    downs,      \* the hooks shut down so far, in order
    sender,     \* the outbound sender: "none", "open" or "stopped"
    stream,     \* the event stream, as Recv sees it: "open" or "closed"
    trap,       \* the signal handler: "off", "armed" or "fired"
    flushed,    \* callbacks of the middleware that have run
    exit        \* how the process ended, "none" while it runs

lifecycleVars == <<pc, ix, up, downs, sender, stream, trap, flushed, exit>>

NHooks == Len(Hooks)

LifecycleInit ==
    /\ pc = "config"
    /\ ix = 0
    /\ up = {}
    /\ downs = <<>>
    /\ sender = "none"
    /\ stream = "open"
    /\ trap = "off"
    /\ flushed = 0
    /\ exit = "none"

Running == exit = "none"

Exit(how) == exit' = how /\ pc' = "end"

\* Every required argument is there, or the worker logs and exits.
ParseConfig ==
    /\ pc = "config"
    /\ \/ pc' = "dial" /\ UNCHANGED exit
       \/ Exit("failed")
    /\ UNCHANGED <<ix, up, downs, sender, stream, trap, flushed>>
    /\ UNCHANGED <<hostClientVars, collectorVars>>

Dialling ==
    /\ pc = "dial"
    /\ DialStep
    /\ UNCHANGED <<lifecycleVars, collectorVars>>

\* The stream is up and StartStream goes out before anything else; then the
\* sender, the log writer, the dispatcher and the HTTP proxy are set up.
Connected ==
    /\ pc = "dial"
    /\ \/ /\ dial = "opened"
          /\ pc' = "hooks" /\ ix' = 1 /\ sender' = "open" /\ UNCHANGED exit
       \/ /\ dial \in {"opened", "failed"}
          /\ Exit("failed") /\ UNCHANGED <<ix, sender>>
    /\ UNCHANGED <<up, downs, stream, trap, flushed>>
    /\ UNCHANGED <<hostClientVars, collectorVars>>

AtHook == pc = "hooks" /\ ix <= NHooks

HookStarted ==
    /\ up' = up \cup {ix}
    /\ ix' = ix + 1
    /\ UNCHANGED pc

\* The failing hook itself is not shut down: the unwinding starts below it.
HookFailed ==
    /\ pc' = "unwind"
    /\ ix' = ix - 1
    /\ UNCHANGED up

StartPlainHook ==
    /\ AtHook
    /\ Hooks[ix] = "plain"
    /\ HookStarted \/ HookFailed
    /\ UNCHANGED <<downs, sender, stream, trap, flushed, exit>>
    /\ UNCHANGED <<hostClientVars, collectorVars>>

StartCollectorHook ==
    /\ AtHook
    /\ Hooks[ix] = "collector"
    /\ CollectorStarting
    /\ UNCHANGED <<lifecycleVars, hostClientVars>>

\* A failed collector is an error with the FailFast option and a warning without.
CollectorHookReturns ==
    /\ AtHook
    /\ Hooks[ix] = "collector"
    /\ \/ StartSucceeded /\ HookStarted
       \/ StartFailed /\ (HookFailed \/ HookStarted)
    /\ UNCHANGED <<downs, sender, stream, trap, flushed, exit>>
    /\ UNCHANGED <<hostClientVars, collectorVars>>

\* The trap is armed only now: a signal before this point kills the process.
Serve ==
    /\ pc = "hooks"
    /\ ix > NHooks
    /\ pc' = "serve"
    /\ trap' = "armed"
    /\ UNCHANGED <<ix, up, downs, sender, stream, flushed, exit>>
    /\ UNCHANGED <<hostClientVars, collectorVars>>

Signal ==
    /\ Running
    /\ \/ /\ trap = "off"
          /\ Exit("killed")
          /\ UNCHANGED trap
       \/ /\ trap = "armed"
          /\ trap' = "fired"
          /\ UNCHANGED <<pc, exit>>
    /\ UNCHANGED <<ix, up, downs, sender, stream, flushed>>
    /\ UNCHANGED <<hostClientVars, collectorVars>>

\* The host closes the stream, by itself or because CloseSend told it to.
StreamCloses ==
    /\ Running
    /\ sender # "none"
    /\ stream = "open"
    /\ stream' = "closed"
    /\ UNCHANGED <<pc, ix, up, downs, sender, trap, flushed, exit>>
    /\ UNCHANGED <<hostClientVars, collectorVars>>

\* Mutant: the hooks are shut down before the middleware has flushed.
StopServingHooksFirst ==
    /\ pc = "serve"
    /\ stream = "closed"
    /\ pc' = "hookstops"
    /\ ix' = NHooks
    /\ sender' = "stopped"
    /\ UNCHANGED <<up, downs, stream, trap, flushed, exit>>
    /\ UNCHANGED <<hostClientVars, collectorVars>>

\* Recv has failed: the sender is stopped and waited for.
StopServing ==
    /\ pc = "serve"
    /\ stream = "closed"
    /\ pc' = "shutdowns"
    /\ ix' = 1
    /\ sender' = "stopped"
    /\ UNCHANGED <<up, downs, stream, trap, flushed, exit>>
    /\ UNCHANGED <<hostClientVars, collectorVars>>

AtShutdown(kind) == pc = "shutdowns" /\ ix <= Len(Middleware) /\ Middleware[ix] = kind

ShutdownReturns ==
    /\ flushed' = flushed + 1
    /\ ix' = ix + 1
    /\ UNCHANGED <<pc, up, downs, sender, stream, trap, exit>>

\* A callback's error is remembered and logged, and the next one runs.
FlushExporter ==
    /\ AtShutdown("exporter")
    /\ ShutdownReturns
    /\ UNCHANGED <<hostClientVars, collectorVars>>

ShutdownsDone ==
    /\ pc = "shutdowns"
    /\ ix > Len(Middleware)
    /\ pc' = "hookstops"
    /\ ix' = NHooks
    /\ UNCHANGED <<up, downs, sender, stream, trap, flushed, exit>>
    /\ UNCHANGED <<hostClientVars, collectorVars>>

\* shutdownLifecycleHooks, on the way out and on the way back from a failure.
StoppingHooks == pc \in {"unwind", "hookstops"} /\ ix >= 1

HookDown ==
    /\ up' = up \ {ix}
    /\ downs' = Append(downs, ix)
    /\ ix' = ix - 1
    /\ UNCHANGED <<pc, sender, stream, trap, flushed, exit>>

StopPlainHook ==
    /\ StoppingHooks
    /\ Hooks[ix] = "plain"
    /\ HookDown
    /\ UNCHANGED <<hostClientVars, collectorVars>>

StopCollectorHook ==
    /\ StoppingHooks
    /\ Hooks[ix] = "collector"
    /\ CollectorStopping
    /\ IF colPc' = "stopped" THEN HookDown ELSE UNCHANGED lifecycleVars
    /\ UNCHANGED hostClientVars

StartEnds ==
    /\ pc \in {"unwind", "hookstops"}
    /\ ix = 0
    /\ Exit(IF pc = "unwind" THEN "failed" ELSE "returned")
    /\ UNCHANGED <<ix, up, downs, sender, stream, trap, flushed>>
    /\ UNCHANGED <<hostClientVars, collectorVars>>

\* The steps of the main thread that involve nobody else.
StartStep ==
    \/ ParseConfig
    \/ Dialling
    \/ Connected
    \/ StartPlainHook
    \/ StartCollectorHook
    \/ CollectorHookReturns
    \/ Serve
    \/ StopServing
    \/ FlushExporter
    \/ ShutdownsDone
    \/ StopPlainHook
    \/ StopCollectorHook
    \/ StartEnds

\* What happens around it.
ProcessEnvironment ==
    \/ Signal
    \/ StreamCloses
    \/ Running /\ ConnMoves /\ UNCHANGED <<lifecycleVars, collectorVars>>
    \/ Running /\ CollectorRun /\ UNCHANGED <<lifecycleVars, hostClientVars>>
=============================================================================
