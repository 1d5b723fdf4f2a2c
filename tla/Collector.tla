------------------------------ MODULE Collector ------------------------------
(***************************************************************************)
(* The embedded OpenTelemetry Collector as a lifecycle hook                 *)
(* (src/otelcollector).  The caller starts a run goroutine and waits for    *)
(* readiness against a timeout; the goroutine reports its end once, on a    *)
(* channel of capacity one.  Whether and when otelcol's Run returns is the  *)
(* library's affair: it may fail, stop by itself, or never come back.       *)
(***************************************************************************)
EXTENDS Naturals

VARIABLES
    run,        \* the goroutine inside col.Run
    done,       \* the channel it reports on
    cancelled,  \* runCtx has been cancelled
    stopAsked,  \* col.Shutdown() has been called
    colPc,      \* where the calling thread is in start or Shutdown
    abandoned   \* history: a bounded wait gave up on the goroutine

collectorVars == <<run, done, cancelled, stopAsked, colPc, abandoned>>

CollectorInit ==
    /\ run = "none"
    /\ done = "empty"
    /\ cancelled = FALSE
    /\ stopAsked = FALSE
    /\ colPc = "idle"
    /\ abandoned = FALSE

\* Configuration and factories are resolved before any goroutine exists.
CollectorStart ==
    /\ colPc = "idle"
    /\ \/ colPc' = "failed" /\ UNCHANGED run
       \/ colPc' = "waiting" /\ run' = "starting"
    /\ UNCHANGED <<done, cancelled, stopAsked, abandoned>>

\* waitReady: the select takes any case that is ready.
ReadyByDone ==
    /\ colPc = "waiting"
    /\ done # "empty"
    /\ done' = "empty"
    /\ cancelled' = TRUE
    /\ colPc' = "failed"
    /\ UNCHANGED <<run, stopAsked, abandoned>>

\* Mutant: a failed start that reports failure at once, without cancelling
\* the goroutine it leaves behind.
ReadyTimesOutSilently ==
    /\ colPc = "waiting"
    /\ colPc' = "failed"
    /\ UNCHANGED <<run, done, cancelled, stopAsked, abandoned>>

ReadyTimesOut ==
    /\ colPc = "waiting"
    /\ cancelled' = TRUE
    /\ colPc' = "draining"
    /\ UNCHANGED <<run, done, stopAsked, abandoned>>

ReadyByTick ==
    /\ colPc = "waiting"
    /\ run = "running"
    /\ colPc' = "up"
    /\ UNCHANGED <<run, done, cancelled, stopAsked, abandoned>>

\* After a failure with the goroutine alive: wait for it, for a while.
Drain ==
    /\ colPc = "draining"
    /\ \/ done # "empty" /\ done' = "empty" /\ UNCHANGED abandoned
       \/ abandoned' = TRUE /\ UNCHANGED done
    /\ colPc' = "failed"
    /\ UNCHANGED <<run, cancelled, stopAsked>>

\* Shutdown of a started collector; without one it is a no-op.
CollectorStop ==
    /\ \/ colPc = "up" /\ stopAsked' = TRUE /\ colPc' = "stopping"
       \/ colPc = "failed" /\ colPc' = "stopped" /\ UNCHANGED stopAsked
    /\ UNCHANGED <<run, done, cancelled, abandoned>>

\* Mutant: the wait for the goroutine is not bounded by the context.
CollectorStopWaits ==
    /\ colPc = "stopping"
    /\ done # "empty"
    /\ done' = "empty"
    /\ cancelled' = TRUE
    /\ colPc' = "stopped"
    /\ UNCHANGED <<run, stopAsked, abandoned>>

CollectorStopEnds ==
    /\ colPc = "stopping"
    /\ \/ done # "empty" /\ done' = "empty" /\ UNCHANGED abandoned
       \/ abandoned' = TRUE /\ UNCHANGED done
    /\ cancelled' = TRUE
    /\ colPc' = "stopped"
    /\ UNCHANGED <<run, stopAsked>>

\* The run goroutine.
RunReady ==
    /\ run = "starting"
    /\ run' = "running"
    /\ UNCHANGED <<done, cancelled, stopAsked, colPc, abandoned>>

RunEnds ==
    /\ run \in {"starting", "running"}
    /\ run' = "exited"
    /\ \/ done' = "error"
       \/ done' = "nil" /\ (cancelled \/ stopAsked)
    /\ UNCHANGED <<cancelled, stopAsked, colPc, abandoned>>

CollectorStarting ==
    \/ CollectorStart
    \/ ReadyByDone
    \/ ReadyTimesOut
    \/ ReadyByTick
    \/ Drain

CollectorStopping == CollectorStop \/ CollectorStopEnds

CollectorRun == RunReady \/ RunEnds

\* The start is over, with a collector or without.
StartSucceeded == colPc = "up"
StartFailed == colPc = "failed"
=============================================================================
