-------------------------------- MODULE Proxy --------------------------------
(***************************************************************************)
(* proxy/main.go: the process that stands in for the user's binary while a *)
(* container is a placeholder, and that becomes a bridge between the host  *)
(* and the real worker (the child) when it is specialized.                 *)
(*                                                                         *)
(* Goroutines: the receive loop (run, handleHostMessage), one specialize   *)
(* goroutine per FunctionEnvironmentReloadRequest, the child's EventStream *)
(* handler, the response loop (bridge) and the monitor of the child.  The  *)
(* host and the child are other processes; a host message is its number in *)
(* hostOut, a message to or from the child the number it is about.         *)
(***************************************************************************)
EXTENDS Naturals, Sequences, FiniteSets, SequencesExt

CONSTANTS
    MaxMessages,  \* bound: how many messages the host sends
    MaxReloads    \* bound: how many of them are reload requests

ASSUME ProxyAssumption == MaxMessages \in Nat /\ MaxReloads \in Nat

\* "other" stands for what the placeholder has no case for (function load,
\* invocation, ...); heartbeat, metadata and status are answered in place.
Answered == {"heartbeat", "metadata", "status"}
Kinds == {"init", "reload", "terminate", "other"} \cup Answered
Numbers == 1..MaxMessages
None == 0
StartStream == None   \* the child's first message is about no host message

VARIABLES
    hostOut,          \* kinds of the messages the host has sent, in order
    next,             \* number of the message the receive loop is on
    runPc,            \* the receive loop
    fate,             \* what became of each host message
    toHost,           \* numbers of the messages answered to the host
    savedInitRequest, savedReloadRequestId,
    isSpecializing, childStream,             \* Proxy fields
    childConnected, childInitDone, noChildMode,  \* closed channels
    specPc,           \* the specialize goroutine of each reload message
    child,            \* the child process
    toChild,          \* everything sent to the child, in order
    handled,          \* how the child has dealt with each of toChild
    childOut,         \* messages the child sent and the bridge has not read
    bridge,           \* the response loop is running
    exited            \* why the proxy process ended, or "no"

hostVars == <<hostOut>>
runVars == <<next, runPc, fate>>
savedVars == <<savedInitRequest, savedReloadRequestId>>
chanVars == <<childConnected, childInitDone, noChildMode>>
childVars == <<child, toChild, handled, childOut>>
vars == <<hostVars, runVars, toHost, savedVars, isSpecializing, childStream,
          chanVars, specPc, childVars, bridge, exited>>

SpecPcs == {"idle", "stat", "close", "clear", "await", "replay", "reply", "end"}

TypeOK ==
    /\ hostOut \in Seq(Kinds) /\ Len(hostOut) <= MaxMessages
    /\ next \in 1..(MaxMessages + 1)
    /\ runPc \in {"recv", "forward", "wait", "placeholder"}
    /\ fate \in [Numbers -> {"none", "local", "child", "failed"}]
    /\ toHost \in Seq(Numbers)
    /\ savedInitRequest \in Numbers \cup {None}
    /\ savedReloadRequestId \in Numbers \cup {None}
    /\ isSpecializing \in BOOLEAN /\ childStream \in BOOLEAN
    /\ childConnected \in BOOLEAN /\ childInitDone \in BOOLEAN
    /\ noChildMode \in BOOLEAN
    /\ specPc \in [Numbers -> SpecPcs]
    /\ child \in {"none", "started", "connecting", "connected", "dead"}
    /\ toChild \in Seq(Numbers \cup {None})
    /\ handled \in SUBSET Nat
    /\ childOut \in Seq(Numbers \cup {StartStream})
    /\ bridge \in BOOLEAN
    /\ exited \in {"no", "terminated", "eof", "child", "panic", "fatal"}

Init ==
    /\ hostOut = <<>>
    /\ next = 1 /\ runPc = "recv" /\ fate = [n \in Numbers |-> "none"]
    /\ toHost = <<>>
    /\ savedInitRequest = None /\ savedReloadRequestId = None
    /\ isSpecializing = FALSE /\ childStream = FALSE
    /\ childConnected = FALSE /\ childInitDone = FALSE /\ noChildMode = FALSE
    /\ specPc = [n \in Numbers |-> "idle"]
    /\ child = "none" /\ toChild = <<>> /\ handled = {} /\ childOut = <<>>
    /\ bridge = FALSE
    /\ exited = "no"

Running == exited = "no"
Exit(why) == exited' = why

-----------------------------------------------------------------------------
(* The host (external).  It initializes the worker first and once, and     *)
(* does not wait for an answer before it sends its next message.           *)

Reloads == {n \in DOMAIN hostOut : hostOut[n] = "reload"}

HostSends(kind) ==
    /\ Running
    /\ Len(hostOut) < MaxMessages
    /\ kind = "init" <=> hostOut = <<>>
    /\ kind = "reload" => Cardinality(Reloads) < MaxReloads
    /\ hostOut' = Append(hostOut, kind)
    /\ UNCHANGED <<runVars, toHost, savedVars, isSpecializing, childStream,
                   chanVars, specPc, childVars, bridge, exited>>

-----------------------------------------------------------------------------
(* run and handleHostMessage.                                              *)

Kind == hostOut[next]

\* Mutant: heartbeats are still answered in place after specialization.
TakeMessage_LocalHeartbeat ==
    /\ Running
    /\ runPc = "recv"
    /\ next <= Len(hostOut)
    /\ runPc' = IF Kind = "heartbeat" THEN "placeholder"
                ELSE IF childStream THEN "forward"
                ELSE IF isSpecializing THEN "wait" ELSE "placeholder"
    /\ UNCHANGED <<hostVars, next, fate, toHost, savedVars, isSpecializing,
                   childStream, chanVars, specPc, childVars, bridge, exited>>

\* Recv returns a message; the two fields are read under p.mutex.
TakeMessage ==
    /\ Running
    /\ runPc = "recv"
    /\ next <= Len(hostOut)
    /\ runPc' = IF childStream THEN "forward"
                ELSE IF isSpecializing THEN "wait" ELSE "placeholder"
    /\ UNCHANGED <<hostVars, next, fate, toHost, savedVars, isSpecializing,
                   childStream, chanVars, specPc, childVars, bridge, exited>>

\* The select of a message that arrives during specialization.
WaitEnds ==
    /\ Running
    /\ runPc = "wait"
    /\ \/ childInitDone /\ runPc' = "forward"
       \/ noChildMode /\ runPc' = "placeholder"
    /\ UNCHANGED <<hostVars, next, fate, toHost, savedVars, isSpecializing,
                   childStream, chanVars, specPc, childVars, bridge, exited>>

Finish(f) ==
    /\ fate' = [fate EXCEPT ![next] = f]
    /\ next' = next + 1
    /\ runPc' = "recv"

\* Mutant: a send that reported an error late is repeated.
ForwardToChild_Twice ==
    /\ Running
    /\ runPc = "forward"
    /\ \/ /\ child # "dead"
          /\ toChild' = toChild \o <<next, next>>
          /\ Finish("child")
       \/ /\ child = "dead"
          /\ Finish("failed")
          /\ UNCHANGED toChild
    /\ UNCHANGED <<hostVars, toHost, savedVars, isSpecializing, childStream,
                   chanVars, specPc, child, handled, childOut, bridge, exited>>

\* p.childStream.Send(msg) returns; an error is only logged.
ForwardToChild ==
    /\ Running
    /\ runPc = "forward"
    /\ \/ /\ child # "dead"
          /\ toChild' = Append(toChild, next)
          /\ Finish("child")
       \/ /\ child = "dead"
          /\ Finish("failed")
          /\ UNCHANGED toChild
    /\ UNCHANGED <<hostVars, toHost, savedVars, isSpecializing, childStream,
                   chanVars, specPc, child, handled, childOut, bridge, exited>>

\* The placeholder switch: what it does with each kind of message.
PlaceholderAnswers ==
    /\ Running
    /\ runPc = "placeholder"
    /\ Kind \in Answered \cup {"init"}
    /\ savedInitRequest' = IF Kind = "init" THEN next ELSE savedInitRequest
    /\ toHost' = Append(toHost, next)
    /\ Finish("local")
    /\ UNCHANGED <<hostVars, savedReloadRequestId, isSpecializing, childStream,
                   chanVars, specPc, childVars, bridge, exited>>

\* Mutant: the request id of the reload is not kept.
PlaceholderReloads_NoId ==
    /\ Running
    /\ runPc = "placeholder"
    /\ Kind = "reload"
    /\ isSpecializing' = TRUE
    /\ specPc' = [specPc EXCEPT ![next] = "stat"]
    /\ Finish("local")
    /\ UNCHANGED <<hostVars, toHost, savedVars, childStream, chanVars,
                   childVars, bridge, exited>>

PlaceholderReloads ==
    /\ Running
    /\ runPc = "placeholder"
    /\ Kind = "reload"
    /\ isSpecializing' = TRUE
    /\ savedReloadRequestId' = next
    /\ specPc' = [specPc EXCEPT ![next] = "stat"]
    /\ Finish("local")
    /\ UNCHANGED <<hostVars, toHost, savedInitRequest, childStream, chanVars,
                   childVars, bridge, exited>>

PlaceholderTerminates ==
    /\ Running
    /\ runPc = "placeholder"
    /\ Kind = "terminate"
    /\ Exit("terminated")
    /\ UNCHANGED <<hostVars, runVars, toHost, savedVars, isSpecializing,
                   childStream, chanVars, specPc, childVars, bridge>>

PlaceholderIgnores ==
    /\ Running
    /\ runPc = "placeholder"
    /\ Kind = "other"
    /\ Finish("local")
    /\ UNCHANGED <<hostVars, toHost, savedVars, isSpecializing, childStream,
                   chanVars, specPc, childVars, bridge, exited>>

\* Recv returns io.EOF or an error: run returns, or log.Fatalf.
HostStreamEnds ==
    /\ Running
    /\ runPc = "recv"
    /\ Exit("eof")
    /\ UNCHANGED <<hostVars, runVars, toHost, savedVars, isSpecializing,
                   childStream, chanVars, specPc, childVars, bridge>>

-----------------------------------------------------------------------------
(* specialize, the goroutine of reload message n.                          *)

\* The app binary is missing (answer: Success) or not executable (answer:
\* Failure); the answer carries whatever request id is saved now.
NoUsableBinary(n) ==
    /\ Running
    /\ specPc[n] = "stat"
    /\ toHost' = Append(toHost, savedReloadRequestId)
    /\ specPc' = [specPc EXCEPT ![n] = "close"]
    /\ UNCHANGED <<hostVars, runVars, savedVars, isSpecializing, childStream,
                   chanVars, childVars, bridge, exited>>

\* Mutant: the waiting receive loop is not told that there is no child.
CloseNoChildMode_Not(n) ==
    /\ Running
    /\ specPc[n] = "close"
    /\ specPc' = [specPc EXCEPT ![n] = "clear"]
    /\ UNCHANGED <<hostVars, runVars, toHost, savedVars, isSpecializing,
                   childStream, chanVars, childVars, bridge, exited>>

\* close(p.noChildMode), which panics when it is closed already.
CloseNoChildMode(n) ==
    /\ Running
    /\ specPc[n] = "close"
    /\ \/ /\ ~noChildMode
          /\ noChildMode' = TRUE
          /\ specPc' = [specPc EXCEPT ![n] = "clear"]
          /\ UNCHANGED exited
       \/ /\ noChildMode
          /\ Exit("panic")
          /\ UNCHANGED <<noChildMode, specPc>>
    /\ UNCHANGED <<hostVars, runVars, toHost, savedVars, isSpecializing,
                   childStream, childConnected, childInitDone, childVars, bridge>>

ClearSpecializing(n) ==
    /\ Running
    /\ specPc[n] = "clear"
    /\ isSpecializing' = FALSE
    /\ specPc' = [specPc EXCEPT ![n] = "end"]
    /\ UNCHANGED <<hostVars, runVars, toHost, savedVars, childStream, chanVars,
                   childVars, bridge, exited>>

\* cmd.Start(); a failure is fatal.
StartChild(n) ==
    /\ Running
    /\ specPc[n] = "stat"
    /\ \/ /\ child' = "started"
          /\ specPc' = [specPc EXCEPT ![n] = "await"]
          /\ UNCHANGED exited
       \/ /\ Exit("fatal")
          /\ UNCHANGED <<child, specPc>>
    /\ UNCHANGED <<hostVars, runVars, toHost, savedVars, isSpecializing,
                   childStream, chanVars, toChild, handled, childOut, bridge>>

\* <-p.childConnected: the replay of WorkerInitRequest begins.
ChildIsConnected(n) ==
    /\ Running
    /\ specPc[n] = "await"
    /\ childConnected
    /\ specPc' = [specPc EXCEPT ![n] = "replay"]
    /\ UNCHANGED <<hostVars, runVars, toHost, savedVars, isSpecializing,
                   childStream, chanVars, childVars, bridge, exited>>

\* Mutant: the init request is replayed again after a late error.
ReplayInit_Twice(n) ==
    /\ Running
    /\ specPc[n] = "replay"
    /\ toChild' = IF child = "dead" THEN toChild
                  ELSE toChild \o <<savedInitRequest, savedInitRequest>>
    /\ bridge' = TRUE
    /\ specPc' = [specPc EXCEPT ![n] = "reply"]
    /\ UNCHANGED <<hostVars, runVars, toHost, savedVars, isSpecializing,
                   childStream, chanVars, child, handled, childOut, exited>>

\* Mutant: the response loop is only started after the reload response.
ReplayInit_NoBridge(n) ==
    /\ Running
    /\ specPc[n] = "replay"
    /\ toChild' = IF child = "dead" THEN toChild
                  ELSE Append(toChild, savedInitRequest)
    /\ specPc' = [specPc EXCEPT ![n] = "reply"]
    /\ UNCHANGED <<hostVars, runVars, toHost, savedVars, isSpecializing,
                   childStream, chanVars, child, handled, childOut, bridge,
                   exited>>

\* p.childStream.Send(p.savedInitRequest) returns, its error ignored; the
\* response loop is started.
ReplayInit(n) ==
    /\ Running
    /\ specPc[n] = "replay"
    /\ toChild' = IF child = "dead" THEN toChild
                  ELSE Append(toChild, savedInitRequest)
    /\ bridge' = TRUE
    /\ specPc' = [specPc EXCEPT ![n] = "reply"]
    /\ UNCHANGED <<hostVars, runVars, toHost, savedVars, isSpecializing,
                   childStream, chanVars, child, handled, childOut, exited>>

\* Mutant: the reload is answered without waiting for the child's init.
ReplyToReload_NoWait(n) ==
    /\ Running
    /\ specPc[n] = "reply"
    /\ toHost' = Append(toHost, savedReloadRequestId)
    /\ specPc' = [specPc EXCEPT ![n] = "end"]
    /\ UNCHANGED <<hostVars, runVars, savedVars, isSpecializing, childStream,
                   chanVars, childVars, bridge, exited>>

\* <-p.childInitDone, then FunctionEnvironmentReloadResponse.
ReplyToReload(n) ==
    /\ Running
    /\ specPc[n] = "reply"
    /\ childInitDone
    /\ toHost' = Append(toHost, savedReloadRequestId)
    /\ specPc' = [specPc EXCEPT ![n] = "end"]
    /\ UNCHANGED <<hostVars, runVars, savedVars, isSpecializing, childStream,
                   chanVars, childVars, bridge, exited>>

-----------------------------------------------------------------------------
(* EventStream, the response loop and the monitor.                         *)

\* The child connects: p.childStream = stream ...
EventStream ==
    /\ Running
    /\ child = "started"
    /\ childStream' = TRUE
    /\ child' = "connecting"
    /\ childOut' = Append(childOut, StartStream)
    /\ UNCHANGED <<hostVars, runVars, toHost, savedVars, isSpecializing,
                   chanVars, specPc, toChild, handled, bridge, exited>>

\* ... then close(p.childConnected).
EventStreamSignals ==
    /\ Running
    /\ child = "connecting"
    /\ childConnected' = TRUE
    /\ child' = "connected"
    /\ UNCHANGED <<hostVars, runVars, toHost, savedVars, isSpecializing,
                   childStream, childInitDone, noChildMode, specPc, toChild,
                   handled, childOut, bridge, exited>>

\* The child (external) works on its messages concurrently.  It answers the
\* init request; other messages it may have no answer for.
ChildHandles(k) ==
    /\ Running
    /\ child \in {"connecting", "connected"}
    /\ k \in DOMAIN toChild \ handled
    /\ handled' = handled \cup {k}
    /\ \/ childOut' = Append(childOut, toChild[k])
       \/ hostOut[toChild[k]] # "init" /\ UNCHANGED childOut
    /\ UNCHANGED <<hostVars, runVars, toHost, savedVars, isSpecializing,
                   childStream, chanVars, specPc, child, toChild, bridge, exited>>

\* Mutant: the child's WorkerInitResponse is forwarded like the rest.
BridgeForwards_InitToo ==
    /\ Running
    /\ bridge
    /\ childOut # <<>>
    /\ childOut' = Tail(childOut)
    /\ LET m == Head(childOut) IN
          /\ toHost' = IF m = StartStream THEN toHost ELSE Append(toHost, m)
          /\ childInitDone' = (childInitDone
                               \/ (m # StartStream /\ hostOut[m] = "init"))
    /\ UNCHANGED <<hostVars, runVars, savedVars, isSpecializing, childStream,
                   childConnected, noChildMode, specPc, child, toChild, handled,
                   bridge, exited>>

\* One round of the response loop: StartStream is dropped, the
\* WorkerInitResponse is kept for the reload response and closes
\* childInitDone (a panic if it is closed), the rest goes to the host.
BridgeForwards ==
    /\ Running
    /\ bridge
    /\ childOut # <<>>
    /\ childOut' = Tail(childOut)
    /\ LET m == Head(childOut) IN
          \/ /\ m = StartStream
             /\ UNCHANGED <<childInitDone, toHost, exited>>
          \/ /\ m # StartStream /\ hostOut[m] = "init"
             /\ \/ ~childInitDone /\ childInitDone' = TRUE /\ UNCHANGED exited
                \/ childInitDone /\ Exit("panic") /\ UNCHANGED childInitDone
             /\ UNCHANGED toHost
          \/ /\ m # StartStream /\ hostOut[m] # "init"
             /\ toHost' = Append(toHost, m)
             /\ UNCHANGED <<childInitDone, exited>>
    /\ UNCHANGED <<hostVars, runVars, savedVars, isSpecializing, childStream,
                   childConnected, noChildMode, specPc, child, toChild, handled,
                   bridge>>

\* The child dies (crash, or its own clean end).
ChildDies ==
    /\ Running
    /\ child \in {"started", "connecting", "connected"}
    /\ child' = "dead"
    /\ UNCHANGED <<hostVars, runVars, toHost, savedVars, isSpecializing,
                   childStream, chanVars, specPc, toChild, handled, childOut,
                   bridge, exited>>

\* The monitor: cmd.Wait returned, the proxy exits with the child's code.
MonitorExits ==
    /\ Running
    /\ child = "dead"
    /\ Exit("child")
    /\ UNCHANGED <<hostVars, runVars, toHost, savedVars, isSpecializing,
                   childStream, chanVars, specPc, childVars, bridge>>

-----------------------------------------------------------------------------
RunSteps ==
    \/ TakeMessage
    \/ WaitEnds
    \/ ForwardToChild
    \/ PlaceholderAnswers
    \/ PlaceholderReloads
    \/ PlaceholderTerminates
    \/ PlaceholderIgnores

Specialize(n) ==
    \/ NoUsableBinary(n)
    \/ CloseNoChildMode(n)
    \/ ClearSpecializing(n)
    \/ StartChild(n)
    \/ ChildIsConnected(n)
    \/ ReplayInit(n)
    \/ ReplyToReload(n)

ChildSteps ==
    \/ EventStream
    \/ EventStreamSignals
    \/ \E k \in DOMAIN toChild : ChildHandles(k)

Next ==
    \/ \E kind \in Kinds : HostSends(kind)
    \/ RunSteps
    \/ HostStreamEnds
    \/ \E n \in Numbers : Specialize(n)
    \/ ChildSteps
    \/ BridgeForwards
    \/ ChildDies
    \/ MonitorExits

\* The proxy's goroutines run.  The child is assumed to connect and to
\* answer, or to die: nothing in the proxy bounds its wait for it.
Fairness ==
    /\ WF_vars(RunSteps)
    /\ \A n \in Numbers : WF_vars(Specialize(n))
    /\ WF_vars(ChildSteps)
    /\ WF_vars(BridgeForwards)
    /\ WF_vars(MonitorExits)

Spec == Init /\ [][Next]_vars /\ Fairness

-----------------------------------------------------------------------------
\* proxy/README.md: after specialization "every message from the host goes
\* to the child".  Once one message went to the child, no later one is
\* answered or swallowed by the placeholder.
ForwardingIsFinal ==
    \A m, n \in Numbers :
        fate[m] \in {"child", "failed"} /\ fate[n] = "local" => n < m

\* The bridge keeps the host's order: apart from the replayed init request
\* the child gets the host's messages in the order they were sent, once each.
ChildGetsHostOrder ==
    \A j, k \in DOMAIN toChild :
        j < k /\ toChild[j] # savedInitRequest /\ toChild[k] # savedInitRequest
        => toChild[j] < toChild[k]

\* No host message is answered twice: the init request is answered by the
\* placeholder and replayed to the child, whose answer must not get through;
\* the reload request is answered once, with or without a child.
AnsweredAtMostOnce ==
    \A j, k \in DOMAIN toHost : toHost[j] = toHost[k] => j = k

\* The reload request is answered only when the app is there and initialized
\* or there is none: a host that got the answer never talks to a worker that
\* is still starting.
ReloadAnswerMeansReady ==
    \A n \in Numbers :
        n \in ToSet(toHost) /\ hostOut[n] = "reload"
        => childInitDone \/ child = "none"

\* With one reload request no channel is closed twice.
NoPanic == exited # "panic"

\* Every host message is dealt with, or the process ends.
EveryMessageDealtWith ==
    \A n \in Numbers : n <= Len(hostOut) ~> fate[n] # "none" \/ ~Running

\* Specialization ends: every reload request the placeholder took up is
\* answered, or the process ends (and the host restarts it).
ReloadIsAnswered ==
    \A n \in Numbers :
        specPc[n] = "stat" ~> n \in ToSet(toHost) \/ ~Running

-----------------------------------------------------------------------------
(* A statement of the source's comments that the code does not live up to. *)

\* main.go:215-218: a host message waits, which "ensures the child has
\* received its WorkerInitRequest and responded before any host messages
\* (like FunctionsMetadataRequest) reach it".
InitReachesChildFirst ==
    \A k \in DOMAIN toChild :
        hostOut[toChild[k]] # "init" => childInitDone
=============================================================================
