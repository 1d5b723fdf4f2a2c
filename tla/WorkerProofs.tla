---------------------------- MODULE WorkerProofs ----------------------------
(***************************************************************************)
(* Proofs about a worker process, for any list of hooks and middleware and  *)
(* any number of invocations and targets: how it goes down, what it leaves  *)
(* of its collector and its connection, that the durable clients it dials   *)
(* are accounted for, and, for any category maps, that the log filter is    *)
(* the documented one and what becomes of a record.                         *)
(***************************************************************************)
EXTENDS Worker, SequenceTheorems, WellFoundedInduction, TLAPS

-----------------------------------------------------------------------------
(* The durable clients.  What the rest of the process does is a stutter.    *)

DurableStep ==
    \/ \E i \in Invocations : Wrap(i) \/ ClientStep(i) \/ Leave(i)
    \/ ShutFallback
    \/ ShutLock
    \/ ShutSweep
    \/ UNCHANGED durableVars

\* Every step of the process is a step of its durable clients or leaves them
\* alone.
LEMMA StepOfClients == [WorkerNext]_workerVars => DurableStep
<1> SUFFICES ASSUME [WorkerNext]_workerVars PROVE DurableStep
    OBVIOUS
<1>1. CASE Start \/ Environment \/ WorkerInitArrives \/ Dead \/ UNCHANGED workerVars
    BY <1>1 DEF Start, Environment, WorkerInitArrives, Dead, workerVars, DurableStep
<1>2. CASE ShutDurable
    BY <1>2 DEF ShutDurable, DurableStep
<1>3. ASSUME NEW i \in Invocations,
             Invoke(i) \/ FindClient(i) \/ LogRecord(i) \/ HandlerReturns(i)
      PROVE  DurableStep
    BY <1>3 DEF Invoke, FindClient, LogRecord, HandlerReturns, DurableStep
<1> QED
    BY <1>1, <1>2, <1>3 DEF WorkerNext

DurableTypeOK ==
    /\ at \in [Invocations -> {"none", "runs", "wants", "locked", "dialled", "done"}]
    /\ target \in [Invocations -> Targets \cup {NoOne}]
    /\ clients \in [Invocations -> {"unused", "open", "closed"}]
    /\ cache \in [Targets -> Invocations \cup {NoOne}]

\* The mutex is held by whoever is between Lock and Unlock.
MutexHeld ==
    /\ \A i \in Invocations : at[i] \in {"locked", "dialled"} => mu = i
    /\ shut = "locked" => mu = Shutter

\* Whoever needs the cache has a target, and whoever has dialled it found no
\* client for it in the cache.
DialsOnce ==
    \A i \in Invocations :
        /\ at[i] \in {"wants", "locked", "dialled"} => target[i] \in Targets
        /\ at[i] = "dialled" => cache[target[i]] = NoOne

ClientsInv ==
    /\ DurableTypeOK
    /\ MutexHeld
    /\ DialsOnce
    /\ ClientsAccounted

\* Before anything runs no client is open.
LEMMA ClientsInvInit == WorkerInit => ClientsInv
BY DEF WorkerInit, DurableInit, ClientsInv, DurableTypeOK, MutexHeld, DialsOnce,
       ClientsAccounted, Cached

\* What does not touch the cache, the clients or who is dialling keeps the
\* accounts.
LEMMA SameAccounts ==
    ASSUME ClientsAccounted, UNCHANGED <<cache, clients>>,
           \A i \in Invocations : at'[i] = "dialled" <=> at[i] = "dialled"
    PROVE  ClientsAccounted'
BY DEF ClientsAccounted, Cached

\* cachedClient under the mutex and Shutdown's sweep keep the accounts.
LEMMA ClientsInvStep == ClientsInv /\ DurableStep => ClientsInv'
<1> SUFFICES ASSUME ClientsInv, DurableStep PROVE ClientsInv'
    OBVIOUS
<1> USE NoOneAssumption DEF ClientsInv
<1>1. ASSUME NEW i \in Invocations, Wrap(i) PROVE ClientsInv'
  <2>1. DurableTypeOK' /\ MutexHeld' /\ DialsOnce'
      BY <1>1 DEF Wrap, DurableTypeOK, MutexHeld, DialsOnce
  <2>2. \A j \in Invocations : at'[j] = "dialled" <=> at[j] = "dialled"
      BY <1>1 DEF Wrap, DurableTypeOK
  <2>3. ClientsAccounted'
      BY <1>1, <2>2, SameAccounts DEF Wrap
  <2> QED BY <2>1, <2>3
<1>2. ASSUME NEW i \in Invocations, Lock(i) PROVE ClientsInv'
  <2>1. DurableTypeOK' /\ MutexHeld' /\ DialsOnce'
      BY <1>2 DEF Lock, DurableTypeOK, MutexHeld, DialsOnce
  <2>2. \A j \in Invocations : at'[j] = "dialled" <=> at[j] = "dialled"
      BY <1>2 DEF Lock, DurableTypeOK
  <2>3. ClientsAccounted'
      BY <1>2, <2>2, SameAccounts DEF Lock
  <2> QED BY <2>1, <2>3
<1>3. ASSUME NEW i \in Invocations, Reuse(i) PROVE ClientsInv'
  <2>1. DurableTypeOK' /\ MutexHeld' /\ DialsOnce'
      BY <1>3 DEF Reuse, DurableTypeOK, MutexHeld, DialsOnce
  <2>2. \A j \in Invocations : at'[j] = "dialled" <=> at[j] = "dialled"
      BY <1>3 DEF Reuse, DurableTypeOK
  <2>3. ClientsAccounted'
      BY <1>3, <2>2, SameAccounts DEF Reuse
  <2> QED BY <2>1, <2>3
<1>4. ASSUME NEW i \in Invocations, DialTarget(i) PROVE ClientsInv'
  <2>1. DurableTypeOK' /\ MutexHeld' /\ DialsOnce'
      BY <1>4 DEF DialTarget, DurableTypeOK, MutexHeld, DialsOnce
  <2>2. ClientsAccounted'
      BY <1>4 DEF DialTarget, DurableTypeOK, ClientsAccounted, Cached
  <2> QED BY <2>1, <2>2
<1>5. ASSUME NEW i \in Invocations, Store(i) PROVE ClientsInv'
  <2>1. target[i] \in Targets /\ cache[target[i]] = NoOne
      BY <1>5 DEF Store, DialsOnce
  <2>2. DurableTypeOK' /\ MutexHeld' /\ DialsOnce'
      BY <1>5, <2>1 DEF Store, DurableTypeOK, MutexHeld, DialsOnce
  <2>3. Cached' = Cached \cup {i}
      BY <1>5, <2>1 DEF Store, DurableTypeOK, Cached
  <2>4. ClientsAccounted'
      BY <1>5, <2>3 DEF Store, DurableTypeOK, ClientsAccounted
  <2> QED BY <2>2, <2>4
<1>6. ASSUME NEW i \in Invocations, Leave(i) PROVE ClientsInv'
  <2>1. DurableTypeOK' /\ MutexHeld' /\ DialsOnce'
      BY <1>6 DEF Leave, DurableTypeOK, MutexHeld, DialsOnce
  <2>2. \A j \in Invocations : at'[j] = "dialled" <=> at[j] = "dialled"
      BY <1>6 DEF Leave, DurableTypeOK
  <2>3. ClientsAccounted'
      BY <1>6, <2>2, SameAccounts DEF Leave
  <2> QED BY <2>1, <2>3
<1>7. CASE ShutFallback
  <2>1. DurableTypeOK' /\ MutexHeld' /\ DialsOnce'
      BY <1>7 DEF ShutFallback, DurableTypeOK, MutexHeld, DialsOnce
  <2>2. ClientsAccounted'
      BY <1>7, SameAccounts DEF ShutFallback
  <2> QED BY <2>1, <2>2
<1>8. CASE ShutLock
  <2>1. DurableTypeOK' /\ MutexHeld' /\ DialsOnce'
      BY <1>8 DEF ShutLock, DurableTypeOK, MutexHeld, DialsOnce
  <2>2. ClientsAccounted'
      BY <1>8, SameAccounts DEF ShutLock
  <2> QED BY <2>1, <2>2
<1>9. CASE ShutSweep
  <2>1. \A i \in Invocations : at[i] \notin {"locked", "dialled"}
      BY <1>9 DEF ShutSweep, MutexHeld
  <2>2. DurableTypeOK' /\ MutexHeld' /\ DialsOnce'
      BY <1>9, <2>1 DEF ShutSweep, DurableTypeOK, MutexHeld, DialsOnce
  <2>3. Cached' \cap Invocations = {}
      BY <1>9 DEF ShutSweep, Cached
  <2>4. ClientsAccounted'
      BY <1>9, <2>1, <2>3 DEF ShutSweep, ClientsAccounted
  <2> QED BY <2>2, <2>4
<1>10. CASE UNCHANGED durableVars
    BY <1>10 DEF durableVars, DurableTypeOK, MutexHeld, DialsOnce, ClientsAccounted, Cached
<1> QED
    BY <1>1, <1>2, <1>3, <1>4, <1>5, <1>6, <1>7, <1>8, <1>9, <1>10
    DEF DurableStep, ClientStep

\* cachedClient and Durable.Shutdown: however invocations, the dial and the
\* shutdown interleave, a client is open exactly while the cache or the
\* invocation that is dialling it can reach it.
THEOREM ClientsAreAccountedFor == WorkerSpec => []ClientsAccounted
<1>1. ClientsInv /\ [WorkerNext]_workerVars => ClientsInv'
    BY StepOfClients, ClientsInvStep
<1>2. ClientsInv => ClientsAccounted
    BY DEF ClientsInv
<1> QED
    BY <1>1, <1>2, ClientsInvInit, PTL DEF WorkerSpec

-----------------------------------------------------------------------------
(* Going down in order.                                                     *)

ExitFollowsEnd == exit # "none" <=> pc = "end"

\* Which hooks are up, by where Start is.
Standing ==
    /\ pc \in {"config", "dial"} => up = {} /\ downs = <<>>
    /\ pc = "hooks" => ix \in 1..(NHooks + 1) /\ up = 1..(ix - 1) /\ downs = <<>>
    /\ pc \in {"serve", "shutdowns"} => up = 1..NHooks /\ downs = <<>>
    /\ pc \in {"unwind", "hookstops"} => ix \in 0..NHooks /\ up = 1..ix
    /\ exit \in {"returned", "failed"} => up = {}

\* The hooks that are down went down from the last to the first, and Start is
\* below all of them.
Descending ==
    /\ downs \in Seq(1..NHooks)
    /\ \A j, k \in DOMAIN downs : j < k => downs[k] < downs[j]
    /\ \A j \in DOMAIN downs, h \in up : h < downs[j]
    /\ pc \in {"unwind", "hookstops"} => \A j \in DOMAIN downs : ix < downs[j]

\* The callbacks of the middleware run one by one between the stream's end and
\* the first hook's.
Flushing ==
    /\ pc \in {"config", "dial", "hooks", "serve"} => flushed = 0
    /\ pc = "shutdowns" => ix \in 1..(Len(Middleware) + 1) /\ flushed = ix - 1
    /\ pc = "hookstops" \/ exit = "returned" => flushed = Len(Middleware)

\* The collector is asked to stop by nobody but the hooks' shutdown.
StoppedLate == stopAsked => pc \in {"unwind", "hookstops", "end"}

TeardownInv ==
    /\ ExitFollowsEnd
    /\ Standing
    /\ Descending
    /\ Flushing
    /\ StoppedLate

\* The hooks and the middleware are finite in number.
LEMMA LengthsAreNaturals == NHooks \in Nat /\ Len(Middleware) \in Nat
BY HooksAssumption, MiddlewareAssumption DEF NHooks

\* The invariant holds before the command line is parsed.
LEMMA TeardownInvInit == WorkerInit => TeardownInv
BY LengthsAreNaturals
DEF WorkerInit, LifecycleInit, CollectorInit, TeardownInv, ExitFollowsEnd, Standing,
    Descending, Flushing, StoppedLate

\* What a step that neither moves Start nor asks the collector to stop keeps.
LEMMA SameTeardown ==
    ASSUME TeardownInv, UNCHANGED <<pc, ix, up, downs, flushed, exit, stopAsked>>
    PROVE  TeardownInv'
BY DEF TeardownInv, ExitFollowsEnd, Standing, Descending, Flushing, StoppedLate

\* One hook after another goes down (shutdownLifecycleHooks).
LEMMA HookDownStep ==
    ASSUME TeardownInv, StoppingHooks, HookDown
    PROVE  TeardownInv'
<1> USE LengthsAreNaturals DEF TeardownInv
<1>1. /\ pc \in {"unwind", "hookstops"} /\ pc' = pc
      /\ ix \in 1..NHooks /\ up = 1..ix
      /\ exit' = exit /\ flushed' = flushed /\ exit = "none"
    BY DEF StoppingHooks, HookDown, Standing, ExitFollowsEnd
<1>2. up' = 1..(ix - 1) /\ ix' = ix - 1 /\ downs' = Append(downs, ix)
    BY <1>1 DEF HookDown
<1>3. ExitFollowsEnd' /\ Standing' /\ StoppedLate'
    BY <1>1, <1>2 DEF ExitFollowsEnd, Standing, StoppedLate
<1>4. Flushing'
    BY <1>1 DEF Flushing
<1>5. /\ downs \in Seq(1..NHooks)
      /\ \A j \in DOMAIN downs : ix < downs[j]
      /\ \A j, k \in DOMAIN downs : j < k => downs[k] < downs[j]
    BY <1>1 DEF Descending
<1>6. /\ downs' \in Seq(1..NHooks)
      /\ DOMAIN downs' = 1..(Len(downs) + 1)
      /\ \A j \in 1..Len(downs) : j \in DOMAIN downs /\ downs'[j] = downs[j]
      /\ downs'[Len(downs) + 1] = ix
      /\ Len(downs) \in Nat
    BY <1>1, <1>2, <1>5
<1>7. \A j \in DOMAIN downs' : downs'[j] \in Int /\ ix - 1 < downs'[j]
  <2> TAKE j \in DOMAIN downs'
  <2>1. CASE j \in 1..Len(downs)
    <3>1. downs'[j] \in 1..NHooks /\ ix < downs'[j]
        BY <2>1, <1>5, <1>6
    <3> QED BY <3>1, <1>1
  <2>2. CASE j = Len(downs) + 1
    <3>1. downs'[j] = ix
        BY <2>2, <1>6
    <3> QED BY <3>1, <1>1
  <2> QED BY <2>1, <2>2, <1>6
<1>8. \A j, k \in DOMAIN downs' : j < k => downs'[k] < downs'[j]
  <2> TAKE j, k \in DOMAIN downs'
  <2> HAVE j < k
  <2>1. j \in 1..Len(downs) /\ downs'[j] = downs[j] /\ j \in DOMAIN downs
      BY <1>6
  <2>2. CASE k = Len(downs) + 1
      BY <2>1, <2>2, <1>5, <1>6
  <2>3. CASE k # Len(downs) + 1
    <3>1. k \in 1..Len(downs)
        BY <2>3, <1>6
    <3>2. k \in DOMAIN downs /\ downs'[k] = downs[k]
        BY <3>1, <1>6
    <3> QED BY <2>1, <3>2, <1>5
  <2> QED BY <2>2, <2>3
<1>9. \A j \in DOMAIN downs', h \in up' : h < downs'[j]
    BY <1>1, <1>2, <1>7
<1>10. Descending'
    BY <1>1, <1>2, <1>6, <1>7, <1>8, <1>9 DEF Descending
<1> QED BY <1>3, <1>4, <1>10

\* Everything that happens around Start, the signal included.
LEMMA TeardownEnvironment == TeardownInv /\ ProcessEnvironment => TeardownInv'
<1> SUFFICES ASSUME TeardownInv, ProcessEnvironment PROVE TeardownInv'
    OBVIOUS
<1>1. CASE Signal
  <2>1. CASE trap = "off"
      BY <1>1, <2>1 DEF Signal, Exit, Running, collectorVars, TeardownInv, ExitFollowsEnd,
         Standing, Descending, Flushing, StoppedLate
  <2>2. CASE trap # "off"
      BY <1>1, <2>2, SameTeardown DEF Signal, collectorVars
  <2> QED BY <2>1, <2>2
<1>2. CASE StreamCloses
    BY <1>2, SameTeardown DEF StreamCloses, collectorVars
<1>3. CASE Running /\ ConnMoves /\ UNCHANGED <<lifecycleVars, collectorVars>>
    BY <1>3, SameTeardown DEF lifecycleVars, collectorVars
<1>4. CASE Running /\ CollectorRun /\ UNCHANGED <<lifecycleVars, hostClientVars>>
    BY <1>4, SameTeardown DEF lifecycleVars, CollectorRun, RunReady, RunEnds
<1> QED
    BY <1>1, <1>2, <1>3, <1>4 DEF ProcessEnvironment

\* Every step of the main thread.
LEMMA TeardownStart == TeardownInv /\ StartStep => TeardownInv'
<1> SUFFICES ASSUME TeardownInv, StartStep PROVE TeardownInv'
    OBVIOUS
<1> USE LengthsAreNaturals
<1>1. CASE ParseConfig
    BY <1>1 DEF ParseConfig, Exit, collectorVars, TeardownInv, ExitFollowsEnd, Standing,
       Descending, Flushing, StoppedLate
<1>2. CASE Dialling
    BY <1>2, SameTeardown DEF Dialling, lifecycleVars, collectorVars
<1>3. CASE Connected
  <2>1. /\ pc = "dial" /\ up = {} /\ downs = <<>> /\ flushed = 0 /\ exit = "none"
        /\ UNCHANGED <<up, downs, flushed, stopAsked>> /\ ~stopAsked
      BY <1>3 DEF Connected, collectorVars, TeardownInv, ExitFollowsEnd, Standing, Flushing,
         StoppedLate
  <2>2. CASE pc' = "hooks" /\ ix' = 1 /\ exit' = exit
    <3>1. 1..(ix' - 1) = {} /\ ix' \in 1..(NHooks + 1)
        BY <2>2
    <3> QED
        BY <2>1, <2>2, <3>1 DEF TeardownInv, ExitFollowsEnd, Standing, Descending, Flushing,
           StoppedLate
  <2>3. CASE Exit("failed")
      BY <2>1, <2>3 DEF Exit, TeardownInv, ExitFollowsEnd, Standing, Descending, Flushing,
         StoppedLate
  <2> QED BY <1>3, <2>2, <2>3 DEF Connected
<1>4. ASSUME AtHook, HookStarted, UNCHANGED <<downs, flushed, exit, stopAsked>>
      PROVE  TeardownInv'
  <2>1. /\ pc = "hooks" /\ ix \in 1..NHooks /\ up = 1..(ix - 1) /\ downs = <<>>
        /\ exit = "none"
      BY <1>4 DEF AtHook, TeardownInv, Standing, ExitFollowsEnd
  <2>2. up' = 1..ix /\ ix' = ix + 1 /\ pc' = pc
      BY <1>4, <2>1 DEF HookStarted
  <2> QED
      BY <1>4, <2>1, <2>2 DEF TeardownInv, ExitFollowsEnd, Standing, Descending, Flushing,
         StoppedLate
<1>5. ASSUME AtHook, HookFailed, UNCHANGED <<downs, flushed, exit, stopAsked>>
      PROVE  TeardownInv'
    BY <1>5 DEF AtHook, HookFailed, TeardownInv, ExitFollowsEnd, Standing, Descending,
       Flushing, StoppedLate
<1>6. CASE StartPlainHook
    BY <1>6, <1>4, <1>5 DEF StartPlainHook, collectorVars
<1>7. CASE StartCollectorHook
    BY <1>7, SameTeardown
    DEF StartCollectorHook, lifecycleVars, CollectorStarting, CollectorStart, ReadyByDone,
        ReadyTimesOut, ReadyByTick, Drain
<1>8. CASE CollectorHookReturns
    BY <1>8, <1>4, <1>5 DEF CollectorHookReturns, collectorVars
<1>9. CASE Serve
    BY <1>9 DEF Serve, collectorVars, TeardownInv, ExitFollowsEnd, Standing, Descending,
       Flushing, StoppedLate
<1>10. CASE StopServing
    BY <1>10 DEF StopServing, collectorVars, TeardownInv, ExitFollowsEnd, Standing,
       Descending, Flushing, StoppedLate
<1>11. CASE FlushExporter
    BY <1>11 DEF FlushExporter, AtShutdown, ShutdownReturns, collectorVars, TeardownInv,
       ExitFollowsEnd, Standing, Descending, Flushing, StoppedLate
<1>12. CASE ShutdownsDone
    BY <1>12 DEF ShutdownsDone, collectorVars, TeardownInv, ExitFollowsEnd, Standing,
       Descending, Flushing, StoppedLate
<1>13. CASE StopPlainHook
    BY <1>13, HookDownStep DEF StopPlainHook
<1>14. CASE StopCollectorHook
  <2>1. CASE colPc' = "stopped"
      BY <1>14, <2>1, HookDownStep DEF StopCollectorHook
  <2>2. CASE colPc' # "stopped"
      BY <1>14, <2>2 DEF StopCollectorHook, StoppingHooks, lifecycleVars, TeardownInv,
         ExitFollowsEnd, Standing, Descending, Flushing, StoppedLate
  <2> QED BY <2>1, <2>2
<1>15. CASE StartEnds
    BY <1>15 DEF StartEnds, Exit, collectorVars, TeardownInv, ExitFollowsEnd, Standing,
       Descending, Flushing, StoppedLate
<1> QED
    BY <1>1, <1>2, <1>3, <1>6, <1>7, <1>8, <1>9, <1>10, <1>11, <1>12, <1>13, <1>14, <1>15
    DEF StartStep

\* The durable middleware's Shutdown is one of the callbacks.
LEMMA TeardownShutDurable == TeardownInv /\ ShutDurable => TeardownInv'
<1> SUFFICES ASSUME TeardownInv, ShutDurable PROVE TeardownInv'
    OBVIOUS
<1>1. CASE UNCHANGED lifecycleVars
    BY <1>1, SameTeardown DEF ShutDurable, lifecycleVars, collectorVars
<1>2. CASE ShutdownReturns
    BY <1>2, LengthsAreNaturals DEF ShutDurable, AtShutdown, ShutdownReturns, collectorVars,
       TeardownInv, ExitFollowsEnd, Standing, Descending, Flushing, StoppedLate
<1> QED BY <1>1, <1>2 DEF ShutDurable

\* Every step of the process.
LEMMA TeardownInvStep == TeardownInv /\ [WorkerNext]_workerVars => TeardownInv'
<1> SUFFICES ASSUME TeardownInv, [WorkerNext]_workerVars PROVE TeardownInv'
    OBVIOUS
<1>1. CASE Start
    BY <1>1, TeardownStart DEF Start
<1>2. CASE ShutDurable
    BY <1>2, TeardownShutDurable
<1>3. CASE Environment
    BY <1>3, TeardownEnvironment DEF Environment
<1>4. CASE WorkerInitArrives \/ Dead \/ UNCHANGED workerVars
    BY <1>4, SameTeardown
    DEF WorkerInitArrives, Dead, workerVars, processVars, lifecycleVars, collectorVars
<1>5. ASSUME NEW i \in Invocations,
             Invoke(i) \/ FindClient(i) \/ LogRecord(i) \/ HandlerReturns(i)
      PROVE  TeardownInv'
    BY <1>5, SameTeardown
    DEF Invoke, FindClient, LogRecord, HandlerReturns, processVars, lifecycleVars,
        collectorVars
<1> QED
    BY <1>1, <1>2, <1>3, <1>4, <1>5 DEF WorkerNext

\* startLifecycleHooks, shutdownLifecycleHooks and the end of Start: hooks go
\* down in reverse order, none that was started is left up, and the middleware
\* has flushed before the first of them, whichever hook failed or stopped.
THEOREM HooksGoDownInOrder == WorkerSpec => []TeardownOrder
<1>1. TeardownInv => TeardownOrder
    BY DEF TeardownInv, TeardownOrder, Standing, Descending, Flushing, StoppedLate
<1> QED
    BY <1>1, TeardownInvInit, TeardownInvStep, PTL DEF WorkerSpec

-----------------------------------------------------------------------------
(* What a failed or finished start leaves behind.                           *)

\* The run goroutine reports when it is over, exists only after a start, and is
\* told to stop before anybody waits for its end.
RunInv ==
    /\ done # "empty" => run = "exited"
    /\ colPc = "idle" => run = "none"
    /\ colPc = "draining" => cancelled
    /\ NoOrphanCollector

\* What does not touch the collector keeps what is known of its run.
LEMMA SameRun ==
    ASSUME RunInv, UNCHANGED collectorVars
    PROVE  RunInv'
BY DEF RunInv, NoOrphanCollector, collectorVars

\* otelcollector's start, Shutdown and run goroutine.
LEMMA RunInvCollector ==
    ASSUME RunInv, CollectorStarting \/ CollectorStopping \/ CollectorRun
    PROVE  RunInv'
<1> USE DEF RunInv, NoOrphanCollector
<1>1. CASE CollectorStart
    BY <1>1 DEF CollectorStart
<1>2. CASE ReadyByDone
    BY <1>2 DEF ReadyByDone
<1>3. CASE ReadyTimesOut
    BY <1>3 DEF ReadyTimesOut
<1>4. CASE ReadyByTick
    BY <1>4 DEF ReadyByTick
<1>5. CASE Drain
    BY <1>5 DEF Drain
<1>6. CASE CollectorStop
    BY <1>6 DEF CollectorStop
<1>7. CASE CollectorStopEnds
    BY <1>7 DEF CollectorStopEnds
<1>8. CASE RunReady
    BY <1>8 DEF RunReady
<1>9. CASE RunEnds
    BY <1>9 DEF RunEnds
<1> QED
    BY <1>1, <1>2, <1>3, <1>4, <1>5, <1>6, <1>7, <1>8, <1>9
    DEF CollectorStarting, CollectorStopping, CollectorRun

\* Of the connection DialIsClean is enough as it stands.
LEMMA SameDial ==
    ASSUME DialIsClean, UNCHANGED <<conn, dial, wasReady, sender>>
    PROVE  DialIsClean'
BY DEF DialIsClean

\* Every step keeps both.
LEMMA LeftoversStep == RunInv /\ DialIsClean /\ [WorkerNext]_workerVars => RunInv' /\ DialIsClean'
<1> SUFFICES ASSUME RunInv, DialIsClean, [WorkerNext]_workerVars PROVE RunInv' /\ DialIsClean'
    OBVIOUS
<1>1. CASE UNCHANGED <<hostClientVars, collectorVars>> /\ sender' = sender
    BY <1>1, SameRun, SameDial DEF hostClientVars
<1>2. CASE Dialling
  <2>1. RunInv'
      BY <1>2, SameRun DEF Dialling
  <2>2. sender' = sender
      BY <1>2 DEF Dialling, lifecycleVars
  <2>3. DialIsClean'
      BY <1>2, <2>2 DEF Dialling, DialIsClean, DialStep, DialBegin, DialLook,
         DialWakes, DialTimesOut, OpenStream, DialFails
  <2> QED BY <2>1, <2>3
<1>3. CASE Connected
  <2>1. RunInv' /\ UNCHANGED <<conn, dial, wasReady>>
      BY <1>3, SameRun DEF Connected, hostClientVars
  <2>2. sender' = sender \/ dial = "opened"
      BY <1>3 DEF Connected
  <2> QED BY <2>1, <2>2 DEF DialIsClean
<1>4. CASE StopServing
  <2>1. RunInv' /\ UNCHANGED <<conn, dial, wasReady>> /\ sender' = "stopped"
      BY <1>4, SameRun DEF StopServing, hostClientVars
  <2> QED BY <2>1 DEF DialIsClean
<1>5. CASE StartCollectorHook
    BY <1>5, RunInvCollector, SameDial
    DEF StartCollectorHook, lifecycleVars, hostClientVars
<1>6. CASE StopCollectorHook
    BY <1>6, RunInvCollector, SameDial
    DEF StopCollectorHook, HookDown, lifecycleVars, hostClientVars
<1>7. CASE Running /\ ConnMoves /\ UNCHANGED <<lifecycleVars, collectorVars>>
  <2>1. RunInv' /\ UNCHANGED <<dial, wasReady, sender>>
      BY <1>7, SameRun DEF lifecycleVars, ConnMoves
  <2> QED
      BY <1>7, <2>1 DEF ConnMoves, DialIsClean
<1>8. CASE Running /\ CollectorRun /\ UNCHANGED <<lifecycleVars, hostClientVars>>
    BY <1>8, RunInvCollector, SameDial DEF lifecycleVars, hostClientVars
<1>9. CASE Start
  <2>1. CASE ParseConfig
      BY <2>1, <1>1 DEF ParseConfig
  <2>2. CASE StartPlainHook
      BY <2>2, <1>1 DEF StartPlainHook
  <2>3. CASE CollectorHookReturns
      BY <2>3, <1>1 DEF CollectorHookReturns
  <2>4. CASE Serve
      BY <2>4, <1>1 DEF Serve
  <2>5. CASE FlushExporter
      BY <2>5, <1>1 DEF FlushExporter, ShutdownReturns
  <2>6. CASE ShutdownsDone
      BY <2>6, <1>1 DEF ShutdownsDone
  <2>7. CASE StopPlainHook
      BY <2>7, <1>1 DEF StopPlainHook, HookDown
  <2>8. CASE StartEnds
      BY <2>8, <1>1 DEF StartEnds
  <2> QED
      BY <1>2, <1>3, <1>4, <1>5, <1>6, <1>9, <2>1, <2>2, <2>3, <2>4, <2>5, <2>6, <2>7, <2>8
      DEF Start, StartStep
<1>10. CASE Environment
  <2>1. CASE Signal
      BY <2>1, <1>1 DEF Signal
  <2>2. CASE StreamCloses
      BY <2>2, <1>1 DEF StreamCloses
  <2> QED
      BY <1>7, <1>8, <1>10, <2>1, <2>2 DEF Environment, ProcessEnvironment
<1>11. CASE ShutDurable
    BY <1>11, <1>1 DEF ShutDurable, ShutdownReturns, lifecycleVars
<1>12. CASE WorkerInitArrives \/ Dead \/ UNCHANGED workerVars
    BY <1>12, <1>1 DEF WorkerInitArrives, Dead, workerVars, processVars, lifecycleVars
<1>13. ASSUME NEW i \in Invocations,
              Invoke(i) \/ FindClient(i) \/ LogRecord(i) \/ HandlerReturns(i)
       PROVE  RunInv' /\ DialIsClean'
    BY <1>13, <1>1
    DEF Invoke, FindClient, LogRecord, HandlerReturns, processVars, lifecycleVars
<1> QED
    BY <1>9, <1>10, <1>11, <1>12, <1>13 DEF WorkerNext

\* Nothing of a collector runs before start.
LEMMA LeftoversInit == WorkerInit => RunInv /\ DialIsClean
BY DEF WorkerInit, HostClientInit, CollectorInit, LifecycleInit, RunInv, NoOrphanCollector,
       DialIsClean

\* otelcollector's start and Shutdown: whatever otelcol's Run does and whichever
\* wait gives up first, no run goroutine is left without having been told to
\* stop.
THEOREM NoCollectorIsOrphaned == WorkerSpec => []NoOrphanCollector
<1>1. RunInv => NoOrphanCollector
    BY DEF RunInv
<1> QED
    BY <1>1, LeftoversInit, LeftoversStep, PTL DEF WorkerSpec

\* openEventStream and waitForReady: however the connection moves against the
\* deadline, a failed dial leaves it closed and a stream was opened on one that
\* was seen ready.
THEOREM DialsAreClean == WorkerSpec => []DialIsClean
<1> QED
    BY LeftoversInit, LeftoversStep, PTL DEF WorkerSpec

-----------------------------------------------------------------------------
(* The log filter: the code's search is the documented one.                *)

\* A set of naturals has a least element: the least-number principle as a set
\* of naturals, not an operator, states it.
LEMMA LeastNatural ==
    ASSUME NEW T \in SUBSET Nat, T # {}
    PROVE  \E x \in T : \A y \in T : x <= y
<1> DEFINE R == {ss \in Nat \X Nat : ss[1] < ss[2]}
<1>1. IsWellFoundedOn(R, Nat)
    BY NatLessThanWellFounded DEF OpToRel
<1> HIDE DEF R
<1>2. PICK x \in T : \A y \in T : ~(<<y, x>> \in R)
    BY <1>1, WFMin
<1>3. ASSUME NEW y \in T, y < x PROVE FALSE
  <2>1. <<y, x>> \in R
      BY <1>3 DEF R
  <2> QED
      BY <1>2, <2>1
<1> QED
    BY <1>3

\* Two prefixes of a category of the same length are the same.
LEMMA PrefixesByLength ==
    ASSUME NEW k \in Seq(STRING), NEW l \in Seq(STRING), NEW c \in Seq(STRING)
    PROVE  /\ IsPrefix(k, c) => Len(k) <= Len(c)
           /\ IsPrefix(c, c)
           /\ IsPrefix(k, c) /\ IsPrefix(l, c) /\ Len(k) = Len(l) => k = l
           /\ k # EmptyKey => Len(k) >= 1
           /\ Len(k) \in Nat /\ Len(c) \in Nat
<1>1. Len(k) \in Nat /\ Len(c) \in Nat
    BY LenProperties
<1>2. IsPrefix(k, c) => Len(k) <= Len(c)
    BY DEF IsPrefix
<1>3. IsPrefix(c, c)
    BY <1>1 DEF IsPrefix
<1>4. ASSUME IsPrefix(k, c), IsPrefix(l, c), Len(k) = Len(l) PROVE k = l
  <2>1. \A i \in 1..Len(k) : k[i] = c[i]
    <3>1. SubSeq(k, 1, Len(k)) = SubSeq(c, 1, Len(k))
        BY <1>4 DEF IsPrefix
    <3> QED
        BY <1>1, <1>2, <1>4, <3>1
  <2>2. \A i \in 1..Len(l) : l[i] = c[i]
    <3>1. SubSeq(l, 1, Len(l)) = SubSeq(c, 1, Len(l))
        BY <1>4 DEF IsPrefix
    <3> QED
        BY <1>1, <1>2, <1>4, <3>1
  <2> QED
      BY <1>4, <2>1, <2>2, SeqEqual
<1>5. k # EmptyKey => Len(k) >= 1
    BY <1>1, EmptySeq DEF EmptyKey
<1> QED
    BY <1>1, <1>2, <1>3, <1>4, <1>5

IsFilter(cats) ==
    DOMAIN cats \subseteq Seq(STRING) /\ \A k \in DOMAIN cats : cats[k] \in Int

\* bestKey of matchCategoryThreshold: the longest of the prefix keys.
LEMMA LongestPrefixIsLongest ==
    ASSUME NEW cats, IsFilter(cats), NEW c \in Seq(STRING), PrefixKeys(cats, c) # {}
    PROVE  /\ LongestPrefix(cats, c) \in PrefixKeys(cats, c)
           /\ \A l \in PrefixKeys(cats, c) : Len(l) <= Len(LongestPrefix(cats, c))
<1> DEFINE T == {Len(c) - Len(k) : k \in PrefixKeys(cats, c)}
<1>1. \A k \in PrefixKeys(cats, c) : Len(k) \in Nat /\ Len(c) \in Nat /\ Len(k) <= Len(c)
    BY PrefixesByLength DEF PrefixKeys, IsFilter
<1>2. T \in SUBSET Nat /\ T # {}
    BY <1>1
<1>3. PICK x \in T : \A y \in T : x <= y
  <2> HIDE DEF T
  <2> QED
      BY <1>2, LeastNatural
<1>4. PICK k \in PrefixKeys(cats, c) : x = Len(c) - Len(k)
    OBVIOUS
<1>5. \A l \in PrefixKeys(cats, c) : Len(l) <= Len(k)
  <2>1. \A l \in PrefixKeys(cats, c) : x <= Len(c) - Len(l)
      BY <1>3
  <2> QED
      BY <1>1, <1>4, <2>1
<1> QED
    BY <1>4, <1>5 DEF LongestPrefix

Applies(cats, l, c) ==
    l \in DOMAIN cats /\ IsPrefix(l, c) /\ (l = EmptyKey => c = EmptyKey)

\* The key matchCategoryThreshold ends on is the one that governs, and the only
\* one; it falls back to Information when none does.
LEMMA ThresholdOfGoverningKey ==
    ASSUME NEW cats, IsFilter(cats), NEW c \in Seq(STRING)
    PROVE  \/ \E k \in DOMAIN cats :
                 /\ matchCategoryThreshold(cats, c) = cats[k]
                 /\ \A l \in DOMAIN cats : Governs(cats, l, c) <=> l = k
           \/ /\ matchCategoryThreshold(cats, c) = Information
              /\ \A l \in DOMAIN cats : ~Governs(cats, l, c)
<1>1. \A l \in DOMAIN cats : Governs(cats, l, c) <=>
         IF \E m \in DOMAIN cats : Applies(cats, m, c)
           THEN Applies(cats, l, c)
                /\ \A m \in DOMAIN cats : Applies(cats, m, c) => Len(m) <= Len(l)
           ELSE l = IF WorkerKey \in DOMAIN cats THEN WorkerKey ELSE EmptyKey
    BY DEF Governs, Applies
<1>2. \A l \in DOMAIN cats : l \in Seq(STRING)
    BY DEF IsFilter
<1>3. Len(WorkerKey) = 1
    BY DEF WorkerKey
<1>4. ASSUME NEW k \in DOMAIN cats, Applies(cats, k, c),
             \A m \in DOMAIN cats : Applies(cats, m, c) => Len(m) <= Len(k)
      PROVE  \A l \in DOMAIN cats : Governs(cats, l, c) <=> l = k
  <2>1. ASSUME NEW l \in DOMAIN cats, Governs(cats, l, c) PROVE l = k
    <3>1. Applies(cats, l, c) /\ Len(k) <= Len(l) /\ Len(l) <= Len(k)
        BY <1>1, <1>4, <2>1
    <3>2. Len(k) \in Nat /\ Len(l) \in Nat
        BY <1>2, LenProperties
    <3>3. Len(l) = Len(k)
        BY <3>1, <3>2
    <3> QED
        BY <1>2, <1>4, <3>1, <3>3, PrefixesByLength DEF Applies
  <2> QED
      BY <1>1, <1>4, <2>1
<1>5. CASE c \in DOMAIN cats
  <2>1. Applies(cats, c, c)
      BY <1>5, PrefixesByLength DEF Applies
  <2>2. \A m \in DOMAIN cats : Applies(cats, m, c) => Len(m) <= Len(c)
      BY <1>2, PrefixesByLength DEF Applies
  <2> QED
      BY <1>4, <1>5, <2>1, <2>2 DEF matchCategoryThreshold
<1>6. ASSUME c \notin DOMAIN cats, NEW l \in DOMAIN cats
      PROVE  Applies(cats, l, c) <=>
                 l \in PrefixKeys(cats, c) \/ (l = WorkerKey /\ IsPrefix(l, c))
  <2>1. l # c
      BY <1>6
  <2>2. EmptyKey \in DOMAIN cats /\ c = EmptyKey => FALSE
      BY <1>6
  <2>3. WorkerKey # EmptyKey
      BY DEF WorkerKey, EmptyKey
  <2>4. Applies(cats, l, c) <=> IsPrefix(l, c) /\ l # EmptyKey
      BY <1>6, <2>2 DEF Applies
  <2> QED
      BY <2>1, <2>3, <2>4 DEF PrefixKeys
<1>7. CASE c \notin DOMAIN cats /\ PrefixKeys(cats, c) # {}
  <2> DEFINE p == LongestPrefix(cats, c)
  <2>1. p \in PrefixKeys(cats, c) /\ \A l \in PrefixKeys(cats, c) : Len(l) <= Len(p)
      BY <1>7, LongestPrefixIsLongest
  <2> HIDE DEF p
  <2>2. p \in DOMAIN cats /\ p # EmptyKey /\ Applies(cats, p, c)
      BY <1>6, <1>7, <2>1 DEF PrefixKeys
  <2>3. Len(p) >= 1
      BY <1>2, <2>2, PrefixesByLength
  <2>4. \A m \in DOMAIN cats : Applies(cats, m, c) => Len(m) <= Len(p)
      BY <1>3, <1>6, <1>7, <2>1, <2>3
  <2>5. matchCategoryThreshold(cats, c) = cats[p]
      BY <1>7 DEF matchCategoryThreshold, p
  <2> QED
      BY <1>4, <2>2, <2>4, <2>5
<1>8. CASE c \notin DOMAIN cats /\ PrefixKeys(cats, c) = {} /\ WorkerKey \in DOMAIN cats
  <2>1. \A l \in DOMAIN cats : Applies(cats, l, c) => l = WorkerKey
      BY <1>6, <1>8
  <2>2. \A l \in DOMAIN cats : Governs(cats, l, c) <=> l = WorkerKey
    <3>1. CASE Applies(cats, WorkerKey, c)
        BY <1>3, <1>4, <1>8, <2>1, <3>1
    <3>2. CASE ~Applies(cats, WorkerKey, c)
        BY <1>1, <1>8, <2>1, <3>2
    <3> QED
        BY <3>1, <3>2
  <2> QED
      BY <1>8, <2>2 DEF matchCategoryThreshold
<1>9. CASE c \notin DOMAIN cats /\ PrefixKeys(cats, c) = {} /\ WorkerKey \notin DOMAIN cats
  <2>1. \A l \in DOMAIN cats : ~Applies(cats, l, c)
      BY <1>6, <1>9
  <2>2. \A l \in DOMAIN cats : Governs(cats, l, c) <=> l = EmptyKey
      BY <1>1, <1>9, <2>1
  <2> QED
      BY <1>9, <2>2 DEF matchCategoryThreshold
<1> QED
    BY <1>5, <1>7, <1>8, <1>9

Filters == CategoryMaps \cup {NoCategories}

\* Each configuration of the host's log categories is a filter.
LEMMA FiltersAreFilters == \A cats \in Filters : IsFilter(cats)
BY LogAssumption DEF Filters, IsFilter, NoCategories

\* Writer.allowed passes exactly the records that the documented matching
\* (exact key, longest dotted prefix, catch-alls, Information) does not reject.
THEOREM FilterIsAsDocumented ==
    \A cats \in Filters, rec \in RecordKinds : allowed(cats, rec) <=> ~Rejects(cats, rec)
<1> SUFFICES ASSUME NEW cats \in Filters, NEW rec \in RecordKinds
             PROVE  allowed(cats, rec) <=> ~Rejects(cats, rec)
    OBVIOUS
<1> DEFINE c == rec[1]
<1>1. IsFilter(cats) /\ c \in Seq(STRING) /\ rec[2] \in Int
    BY FiltersAreFilters, LogAssumption
<1>2. CASE DOMAIN cats = {}
    BY <1>2 DEF allowed, Rejects
<1>3. CASE DOMAIN cats # {}
  <2>1. allowed(cats, rec) <=> rec[2] >= matchCategoryThreshold(cats, c)
      BY <1>3 DEF allowed
  <2>2. Rejects(cats, rec) <=>
           IF \E k \in DOMAIN cats : Governs(cats, k, c)
             THEN \E k \in DOMAIN cats : Governs(cats, k, c) /\ rec[2] < cats[k]
             ELSE rec[2] < Information
      BY <1>3 DEF Rejects
  <2> HIDE DEF c
  <2>3. CASE \E k \in DOMAIN cats :
               /\ matchCategoryThreshold(cats, c) = cats[k]
               /\ \A l \in DOMAIN cats : Governs(cats, l, c) <=> l = k
    <3>1. PICK k \in DOMAIN cats :
             /\ matchCategoryThreshold(cats, c) = cats[k]
             /\ \A l \in DOMAIN cats : Governs(cats, l, c) <=> l = k
        BY <2>3
    <3>2. cats[k] \in Int
        BY <1>1 DEF IsFilter
    <3> QED
        BY <1>1, <2>1, <2>2, <3>1, <3>2
  <2>4. CASE /\ matchCategoryThreshold(cats, c) = Information
             /\ \A l \in DOMAIN cats : ~Governs(cats, l, c)
      BY <1>1, <2>1, <2>2, <2>4 DEF Information
  <2> QED
      BY <1>1, <2>3, <2>4, ThresholdOfGoverningKey
<1> QED
    BY <1>2, <1>3

-----------------------------------------------------------------------------
(* The records.  What the rest of the process does is a stutter.           *)

LogStep ==
    \/ \E c \in CategoryMaps : SetCategories(c)
    \/ \E w \in Writers :
          \/ \E rec \in RecordKinds : Filter(w, rec)
          \/ \E accepted \in BOOLEAN : Emit(w, accepted)
          \/ Observe(w)
    \/ UNCHANGED logVars

\* Every step of the process is a step of its log or leaves it alone.
LEMMA StepOfLog == [WorkerNext]_workerVars => LogStep
<1> SUFFICES ASSUME [WorkerNext]_workerVars PROVE LogStep
    OBVIOUS
<1>1. CASE Start \/ ShutDurable \/ Environment \/ Dead \/ UNCHANGED workerVars
    BY <1>1 DEF Start, ShutDurable, Environment, Dead, workerVars, LogStep
<1>2. CASE WorkerInitArrives
    BY <1>2 DEF WorkerInitArrives, LogStep
<1>3. ASSUME NEW i \in Invocations, LogRecord(i)
      PROVE  LogStep
    BY <1>3 DEF LogRecord, LogStep
<1>4. ASSUME NEW i \in Invocations, Invoke(i) \/ FindClient(i) \/ HandlerReturns(i)
      PROVE  LogStep
    BY <1>4 DEF Invoke, FindClient, HandlerReturns, LogStep
<1> QED
    BY <1>1, <1>2, <1>3, <1>4 DEF WorkerNext

LogTypeOK ==
    /\ categories \in Filters
    /\ stage \in [Writers -> {"idle", "filtered", "sent", "observed"}]
    /\ record \in [Writers -> RecordKinds \cup {NoRecord}]
    /\ judgedBy \in [Writers -> Filters]
    /\ sink \in [Writers -> {"none", "dropped", "wire", "stderr"}]

\* A record between the filter and the sender is one its filter lets pass.
JudgedOnce == \A w \in Writers : stage[w] = "filtered" => ~Rejects(judgedBy[w], record[w])

LogInv == LogTypeOK /\ JudgedOnce /\ RecordsAccounted

\* No record is queued before the worker starts.
LEMMA LogInvInit == WorkerInit => LogInv
BY DEF WorkerInit, LogInit, LogInv, LogTypeOK, JudgedOnce, RecordsAccounted, Filters

\* A record is judged by the map installed at that moment; a later map changes
\* neither its verdict nor where it goes.
LEMMA LogInvStep == LogInv /\ LogStep => LogInv'
<1> SUFFICES ASSUME LogInv, LogStep PROVE LogInv'
    OBVIOUS
<1> USE DEF LogInv
<1>1. ASSUME NEW c \in CategoryMaps, SetCategories(c) PROVE LogInv'
  <2>1. c \in Filters
      BY DEF Filters
  <2> QED
      BY <1>1, <2>1 DEF SetCategories, LogTypeOK, JudgedOnce, RecordsAccounted
<1>2. ASSUME NEW w \in Writers, NEW rec \in RecordKinds, Filter(w, rec) PROVE LogInv'
  <2>1. categories \in Filters /\ (allowed(categories, rec) <=> ~Rejects(categories, rec))
      BY FilterIsAsDocumented DEF LogTypeOK
  <2>2. LogTypeOK'
      BY <1>2 DEF Filter, LogTypeOK
  <2>3. /\ record'[w] = rec /\ judgedBy'[w] = categories
        /\ \A v \in Writers : v # w => /\ record'[v] = record[v] /\ judgedBy'[v] = judgedBy[v]
                                      /\ stage'[v] = stage[v] /\ sink'[v] = sink[v]
      BY <1>2 DEF Filter, LogTypeOK
  <2>4. CASE allowed(categories, rec)
    <3>1. stage'[w] = "filtered" /\ ~Rejects(categories, rec)
        BY <1>2, <2>1, <2>4 DEF Filter, LogTypeOK
    <3> QED
        BY <2>2, <2>3, <3>1 DEF JudgedOnce, RecordsAccounted
  <2>5. CASE ~allowed(categories, rec)
    <3>1. stage'[w] = "sent" /\ sink'[w] = "dropped" /\ Rejects(categories, rec)
        BY <1>2, <2>1, <2>5 DEF Filter, LogTypeOK
    <3> QED
        BY <2>2, <2>3, <3>1 DEF JudgedOnce, RecordsAccounted
  <2> QED
      BY <2>4, <2>5
<1>3. ASSUME NEW w \in Writers, NEW accepted \in BOOLEAN, Emit(w, accepted) PROVE LogInv'
  <2>1. LogTypeOK'
      BY <1>3 DEF Emit, LogTypeOK
  <2>2. /\ record' = record /\ judgedBy' = judgedBy
        /\ stage[w] = "filtered" /\ stage'[w] = "sent" /\ sink'[w] \in {"wire", "stderr"}
        /\ \A v \in Writers : v # w => stage'[v] = stage[v] /\ sink'[v] = sink[v]
      BY <1>3 DEF Emit, LogTypeOK
  <2> QED
      BY <2>1, <2>2 DEF JudgedOnce, RecordsAccounted
<1>4. ASSUME NEW w \in Writers, Observe(w) PROVE LogInv'
  <2>1. LogTypeOK'
      BY <1>4 DEF Observe, LogTypeOK
  <2>2. /\ record' = record /\ judgedBy' = judgedBy /\ sink' = sink
        /\ stage[w] = "sent" /\ stage'[w] = "observed"
        /\ \A v \in Writers : v # w => stage'[v] = stage[v]
      BY <1>4 DEF Observe, LogTypeOK
  <2> QED
      BY <2>1, <2>2 DEF JudgedOnce, RecordsAccounted
<1>5. CASE UNCHANGED logVars
    BY <1>5 DEF logVars, LogTypeOK, JudgedOnce, RecordsAccounted
<1> QED
    BY <1>1, <1>2, <1>3, <1>4, <1>5 DEF LogStep

\* Writer.Write, SetCategories and the observers: whatever filter is installed
\* whenever, and whenever the sender stops, a record is dropped because the
\* filter that judged it rejects it, or it is on the wire or on stderr.
THEOREM NoRecordIsLost == WorkerSpec => []RecordsAccounted
<1>1. LogInv => RecordsAccounted
    BY DEF LogInv
<1>2. LogInv /\ [WorkerNext]_workerVars => LogInv'
    BY StepOfLog, LogInvStep
<1> QED
    BY <1>1, <1>2, LogInvInit, PTL DEF WorkerSpec
=============================================================================
