------------------------------- MODULE Worker -------------------------------
(***************************************************************************)
(* A worker process: the main thread (Lifecycle), the invocations it has    *)
(* spawned, which it does not wait for when it goes down, the durable       *)
(* clients they share and the records they log.                             *)
(***************************************************************************)
EXTENDS Lifecycle, DurableClients, LogPipeline

\* The invocations whose handler logs.
ASSUME WritersAssumption == Writers \subseteq Invocations

workerVars == <<lifecycleVars, hostClientVars, collectorVars, durableVars, logVars>>

processVars == <<lifecycleVars, hostClientVars, collectorVars>>

WorkerInit ==
    /\ LifecycleInit
    /\ HostClientInit
    /\ CollectorInit
    /\ DurableInit
    /\ LogInit

Start == StartStep /\ UNCHANGED <<durableVars, logVars>>

Environment == ProcessEnvironment /\ UNCHANGED <<durableVars, logVars>>

\* The host's WorkerInitRequest, handled on a goroutine of its own.  A host
\* initializes a worker once.
WorkerInitArrives ==
    /\ pc = "serve"
    /\ categories = NoCategories
    /\ \E c \in CategoryMaps : SetCategories(c)
    /\ UNCHANGED <<processVars, durableVars>>

\* The receive loop starts invocations while the stream is open and nothing
\* holds them back or stops them later, except the end of the process.
Invoke(i) ==
    /\ pc = "serve"
    /\ stream = "open"
    /\ Wrap(i)
    /\ UNCHANGED <<processVars, logVars>>

FindClient(i) ==
    /\ Running
    /\ ClientStep(i)
    /\ UNCHANGED <<processVars, logVars>>

\* A handler logs once, then returns.  The sender refuses once it is stopped,
\* and may do so as soon as the stream has failed.
LogRecord(i) ==
    /\ Running
    /\ i \in Writers
    /\ at[i] = "runs"
    /\ \/ \E rec \in RecordKinds : Filter(i, rec)
       \/ sender = "open" /\ Emit(i, TRUE)
       \/ (sender = "stopped" \/ stream = "closed") /\ Emit(i, FALSE)
       \/ Observe(i)
    /\ UNCHANGED <<processVars, durableVars>>

HandlerReturns(i) ==
    /\ Running
    /\ i \in Writers => stage[i] = "observed"
    /\ Leave(i)
    /\ UNCHANGED <<processVars, logVars>>

\* The durable middleware's Shutdown, a callback of the main thread's list.
ShutDurable ==
    /\ AtShutdown("durable")
    /\ \/ (ShutFallback \/ ShutLock) /\ UNCHANGED lifecycleVars
       \/ ShutSweep /\ ShutdownReturns
    /\ UNCHANGED <<hostClientVars, collectorVars, logVars>>

Dead ==
    /\ ~Running
    /\ UNCHANGED workerVars

WorkerNext ==
    \/ Start
    \/ ShutDurable
    \/ Environment
    \/ WorkerInitArrives
    \/ \E i \in Invocations :
         Invoke(i) \/ FindClient(i) \/ LogRecord(i) \/ HandlerReturns(i)
    \/ Dead

\* The main thread and the handlers keep running, and every bounded wait of the
\* main thread comes to its end.  After a signal CloseSend has half-closed the
\* stream, and the host ends its side.  Nothing else is assumed of the host, of
\* the signals or of the collector.
HostAnswersHalfClose == trap = "fired" /\ StreamCloses /\ UNCHANGED <<durableVars, logVars>>

WorkerFairness ==
    /\ WF_workerVars(Start)
    /\ WF_workerVars(ShutDurable)
    /\ WF_workerVars(HostAnswersHalfClose)
    /\ \A i \in Invocations : WF_workerVars(FindClient(i))

WorkerSpec == WorkerInit /\ [][WorkerNext]_workerVars /\ WorkerFairness

-----------------------------------------------------------------------------
\* A hook goes down only after every hook started later has gone down, every
\* started hook is down when Start ends, and on the regular way out the
\* middleware has flushed before the first hook is stopped: an exporter's last
\* batch still finds the collector (worker.go: startLifecycleHooks,
\* shutdownLifecycleHooks and the order of the shutdown in Start).
TeardownOrder ==
    /\ \A j, k \in DOMAIN downs : j < k => downs[k] < downs[j]
    /\ \A j \in DOMAIN downs, h \in up : h < downs[j]
    /\ exit \in {"returned", "failed"} => up = {}
    /\ pc = "hookstops" \/ exit = "returned" => flushed = Len(Middleware)
    /\ stopAsked => pc \notin {"serve", "shutdowns"}

\* A run goroutine whose start has failed or whose hook is down has been told to
\* stop, and has stopped unless a bounded wait gave up on it: the worker never
\* serves beside half a collector it has forgotten (otelcollector.go: start,
\* Shutdown).
NoOrphanCollector ==
    colPc \in {"failed", "stopped"} /\ run # "none" =>
        cancelled /\ (run = "exited" \/ abandoned)

\* A failed dial leaves no connection behind, and a stream is opened only on a
\* connection that was seen ready (hostclient.go: openEventStream).
DialIsClean ==
    /\ dial = "failed" => conn = "shutdown"
    /\ dial \in {"open", "opened"} => wasReady
    /\ sender = "open" => dial = "opened"

\* Once the stream is closed or a signal has been trapped while serving, Start
\* ends, whatever the collector does and whatever the invocations still in
\* flight are doing (worker.go: "cannot delay process exit indefinitely").
StartReturns ==
    (pc = "serve" /\ (stream = "closed" \/ trap = "fired")) ~> (exit # "none")
=============================================================================
