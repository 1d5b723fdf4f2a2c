----------------------------- MODULE Dispatcher -----------------------------
(***************************************************************************)
(* worker.handleBidiStream and Dispatcher.processRequestMessage: every      *)
(* message of the host is worked on by a goroutine of its own, and its      *)
(* response goes out through send.  The outbound path is the one Outbound   *)
(* promises (Sender implements it), an HTTP-triggered invocation the one    *)
(* Invocation promises (HttpProxy implements it).                           *)
(*                                                                         *)
(* A message is its number in the order the host sent them; of its content  *)
(* the kind and the function id are kept.  Payloads, capabilities and       *)
(* metadata are left out: what the handlers do with them shows in the       *)
(* status of the response only.                                             *)
(***************************************************************************)
EXTENDS Naturals, Sequences, SequencesExt

CONSTANTS
    MaxMessages,   \* bound: how many messages the host sends
    FunctionIds,   \* the ids the host may name
    Style,         \* the registered functions, and how each gets its argument
    HTTPProxy      \* whether the loopback HTTP server was started

\* "stateless" stands for WorkerStatusRequest and, in a worker that is not a
\* placeholder, FunctionEnvironmentReloadRequest; "terminate" also for what
\* the dispatcher has no case for.
Kinds == {"init", "metadata", "load", "invocation", "stateless", "terminate"}
Registered == DOMAIN Style
\* "legacy": the argument is a trigger model or a type of the user's;
\* "client": such a trigger, and a ClientFactory that replaces the argument;
\* "generic": the payload of a GenericTrigger.
Styles == {"http", "legacy", "client", "generic"}

ASSUME DispatcherAssumption ==
    /\ MaxMessages \in Nat
    /\ Registered \subseteq FunctionIds
    /\ \A f \in Registered : Style[f] \in Styles
    /\ HTTPProxy \in BOOLEAN

Messages == 1..MaxMessages
NoContent == [kind |-> "none"]
Contents == [kind : Kinds \ {"load", "invocation"}]
            \cup [kind : {"load", "invocation"}, func : FunctionIds]

Outcomes == {"returned", "failed"}   \* failed: an error or a panic
Verdicts == {"Success", "Failure"}
Excuses == {"no verdict"}   \* a disconnect and a timeout end alike here

VARIABLES
    content,    \* what the host has sent
    early,      \* invocations it sent without waiting for their load
    received,   \* how many messages Recv has returned
    recvPc,     \* the receive loop: "recv" or "ended"
    pc,         \* the goroutine of each message
    categories, \* the host's log categories are installed in the writer
    loaded,     \* the keys of Dispatcher.LoadedFunctions
    result,     \* the status in the response of each message
    ended,      \* how the user's function ended (gRPC-body path)
    accepted, refused, delivered, link,   \* the outbound path
    phase, verdict, answer                \* the HTTP rendezvous

hostVars == <<content, early, received, recvPc>>
workerVars == <<categories, loaded>>
outVars == <<accepted, refused, delivered, link>>
rdvVars == <<phase, verdict, answer>>
vars == <<hostVars, pc, workerVars, result, ended, outVars, rdvVars>>

Out == INSTANCE Outbound
Rdv == INSTANCE Invocation WITH Invocations <- Messages

Kind(m) == content[m].kind
Func(m) == content[m].func
Sent == {m \in Messages : content[m] # NoContent}
Requests == {m \in Sent : Kind(m) = "invocation"}

Pcs == {"waiting", "process", "factory", "run", "rendezvous", "reply",
        "end", "silent"}

TypeOK ==
    /\ content \in [Messages -> Contents \cup {NoContent}]
    /\ early \subseteq Sent
    /\ received \in 0..MaxMessages
    /\ recvPc \in {"recv", "ended"}
    /\ pc \in [Messages -> Pcs]
    /\ categories \in BOOLEAN
    /\ loaded \subseteq Registered
    /\ result \in [Messages -> Verdicts \cup {"none"}]
    /\ \A m \in Messages : pc[m] \in {"reply", "end"} => result[m] # "none"
    /\ ended \in [Messages -> Outcomes \cup {"none"}]
    /\ ToSet(accepted) \cup refused \subseteq Messages

Init ==
    /\ content = [m \in Messages |-> NoContent]
    /\ early = {} /\ received = 0 /\ recvPc = "recv"
    /\ pc = [m \in Messages |-> "waiting"]
    /\ categories = FALSE
    /\ loaded = {}
    /\ result = [m \in Messages |-> "none"]
    /\ ended = [m \in Messages |-> "none"]
    /\ Out!OutboundInit
    /\ Rdv!InvocationInit

-----------------------------------------------------------------------------
(* The host (external).  worker.go:277-279: "control-plane sequencing (init *)
(* before load, load before invocation, terminate last) is enforced by the  *)
(* host", which waits for the response each step depends on.  To see what   *)
(* the worker does otherwise, an invocation need not wait for the response  *)
(* to the load of its function.                                             *)

HostHas(c) ==
    \E k \in DOMAIN delivered :
        content[delivered[k]] = c /\ result[delivered[k]] = "Success"

InOrder(c) ==
    /\ c.kind = "init" <=> Sent = {}
    /\ c.kind # "init" => HostHas([kind |-> "init"])
    /\ c.kind = "invocation" =>
          \E m \in Sent : content[m] = [kind |-> "load", func |-> c.func]
    /\ \A m \in Sent : Kind(m) # "terminate"

HostSends(c) ==
    /\ recvPc = "recv"
    /\ InOrder(c)
    /\ \E m \in Messages \ Sent :
          /\ \A n \in Messages : n < m => n \in Sent
          /\ content' = [content EXCEPT ![m] = c]
          /\ early' = IF /\ c.kind = "invocation"
                         /\ ~HostHas([kind |-> "load", func |-> c.func])
                      THEN early \cup {m} ELSE early
    /\ UNCHANGED <<received, recvPc, pc, workerVars, result, ended, outVars,
                   rdvVars>>

-----------------------------------------------------------------------------
(* handleBidiStream.                                                       *)

\* Mutant: the receive loop works on one message at a time.
Receive_OneAtATime(m) ==
    /\ recvPc = "recv"
    /\ m = received + 1 /\ m \in Sent
    /\ \A n \in 1..received : pc[n] \in {"end", "silent"}
    /\ received' = m
    /\ pc' = [pc EXCEPT ![m] = "process"]
    /\ UNCHANGED <<content, early, recvPc, workerVars, result, ended, outVars, rdvVars>>

\* Recv returns the next message; a goroutine is started for it.
Receive(m) ==
    /\ recvPc = "recv"
    /\ m = received + 1 /\ m \in Sent
    /\ received' = m
    /\ pc' = [pc EXCEPT ![m] = "process"]
    /\ UNCHANGED <<content, early, recvPc, workerVars, result, ended, outVars, rdvVars>>

\* Recv returns io.EOF or an error; Start stops the sender.
ReceiveEnds ==
    /\ recvPc = "recv"
    /\ recvPc' = "ended"
    /\ \/ Out!BeginClose
       \/ link # "open" /\ UNCHANGED outVars
    /\ UNCHANGED <<content, early, received, pc, workerVars, result, ended, rdvVars>>

\* send(respMsg): an error is only logged.
Send(m) ==
    /\ pc[m] = "reply"
    /\ pc' = [pc EXCEPT ![m] = "end"]
    /\ Out!Accept(m) \/ Out!Refuse(m)
    /\ UNCHANGED <<hostVars, workerVars, result, ended, rdvVars>>

\* The outbound path delivers or goes down on its own account.
OutboundStep ==
    /\ Out!Deliver \/ Out!Close
    /\ UNCHANGED <<hostVars, pc, workerVars, result, ended, rdvVars>>

-----------------------------------------------------------------------------
(* processRequestMessage, on the goroutine of message m.                   *)

Respond(m, status) ==
    /\ result' = [result EXCEPT ![m] = status]
    /\ pc' = [pc EXCEPT ![m] = "reply"]

\* No message goes back: (nil, nil), an error or a panic, which are logged.
StaySilent(m) ==
    /\ pc' = [pc EXCEPT ![m] = "silent"]
    /\ UNCHANGED result

\* SetCategories, then the response with capabilities and configuration.
handleWorkerInitRequest(m) ==
    /\ pc[m] = "process" /\ Kind(m) = "init"
    /\ categories' = TRUE
    /\ Respond(m, "Success")
    /\ UNCHANGED <<hostVars, loaded, ended, outVars, rdvVars>>

\* A binding that cannot be marshalled fails the whole response.
handleFunctionsMetadataRequest(m) ==
    /\ pc[m] = "process" /\ Kind(m) = "metadata"
    /\ \E status \in Verdicts : Respond(m, status)
    /\ UNCHANGED <<hostVars, workerVars, ended, outVars, rdvVars>>

\* Mutant: the response does not wait for the Store.
handleFunctionLoadRequest_NoStore(m) ==
    /\ pc[m] = "process" /\ Kind(m) = "load"
    /\ Respond(m, IF Func(m) \in Registered THEN "Success" ELSE "Failure")
    /\ UNCHANGED <<hostVars, workerVars, ended, outVars, rdvVars>>

handleFunctionLoadRequest(m) ==
    /\ pc[m] = "process" /\ Kind(m) = "load"
    /\ \/ /\ Func(m) \notin Registered
          /\ Respond(m, "Failure")
          /\ UNCHANGED loaded
       \/ /\ Func(m) \in Registered
          /\ loaded' = loaded \cup {Func(m)}
          /\ Respond(m, "Success")
    /\ UNCHANGED <<hostVars, categories, ended, outVars, rdvVars>>

\* WorkerStatus and FunctionEnvironmentReload change nothing.
handleStateless(m) ==
    /\ pc[m] = "process" /\ Kind(m) = "stateless"
    /\ Respond(m, "Success")
    /\ UNCHANGED <<hostVars, workerVars, ended, outVars, rdvVars>>

\* WorkerTerminate and the default case of the switch.
handleUnanswered(m) ==
    /\ pc[m] = "process" /\ Kind(m) = "terminate"
    /\ StaySilent(m)
    /\ UNCHANGED <<hostVars, workerVars, ended, outVars, rdvVars>>

(* handleInvocationRequest, step by step.                                  *)

NotLoaded(m) ==
    /\ pc[m] = "process" /\ Kind(m) = "invocation"
    /\ Func(m) \notin loaded
    /\ StaySilent(m)
    /\ UNCHANGED <<hostVars, workerVars, ended, outVars, rdvVars>>

\* The HTTP streaming path: notifyGRPCArrival is entered.
NotifyGRPCArrival(m) ==
    /\ pc[m] = "process" /\ Kind(m) = "invocation"
    /\ Func(m) \in loaded
    /\ HTTPProxy /\ Style[Func(m)] = "http"
    /\ Rdv!Trigger(m)
    /\ pc' = [pc EXCEPT ![m] = "rendezvous"]
    /\ UNCHANGED <<hostVars, workerVars, result, ended, outVars>>

\* The user's handler ends on the goroutine of the HTTP request.
HttpHandlerEnds(m) ==
    /\ \E v \in Verdicts : Rdv!Conclude(m, v)
    /\ UNCHANGED <<hostVars, pc, workerVars, result, ended, outVars>>

\* Mutant: an error of the rendezvous is swallowed.
NotifyReturns_ErrorIgnored(m) ==
    /\ pc[m] = "rendezvous"
    /\ Rdv!Answer(m)
    /\ Respond(m, IF answer'[m] = "Failure" THEN "Failure" ELSE "Success")
    /\ UNCHANGED <<hostVars, workerVars, ended, outVars>>

\* Mutant: the response is built without replacing the missing status.
NotifyReturns_NoStatus(m) ==
    /\ pc[m] = "rendezvous"
    /\ Rdv!Answer(m)
    /\ Respond(m, answer'[m])
    /\ UNCHANGED <<hostVars, workerVars, ended, outVars>>

\* notifyGRPCArrival returns; an error becomes a Failure response.
NotifyReturns(m) ==
    /\ pc[m] = "rendezvous"
    /\ Rdv!Answer(m)
    /\ Respond(m, IF answer'[m] \in Verdicts THEN answer'[m] ELSE "Failure")
    /\ UNCHANGED <<hostVars, workerVars, ended, outVars>>

\* convertToTypeValue runs the UnmarshalJSON of a registered type, and sets an
\* int into a field of a named type, without a recover of its own.
ConversionMayPanic(m) == Style[Func(m)] \in {"legacy", "client"}

\* The gRPC-body path: FromProto binds the arguments or fails the invocation,
\* or the conversion panics.  decodeGenericInput recovers, and an HTTP function,
\* which gets here when the request carries its URL, binds an http.Request.
Bind(m) ==
    /\ pc[m] = "process" /\ Kind(m) = "invocation"
    /\ Func(m) \in loaded
    /\ \/ Respond(m, "Failure")
       \/ ConversionMayPanic(m) /\ StaySilent(m)
       \/ /\ pc' = [pc EXCEPT ![m] =
                      IF Style[Func(m)] = "client" THEN "factory" ELSE "run"]
          /\ UNCHANGED result
    /\ UNCHANGED <<hostVars, workerVars, ended, outVars, rdvVars>>

\* The ClientFactory makes the argument, or returns an error, or panics.
MakeClient(m) ==
    /\ pc[m] = "factory"
    /\ \/ pc' = [pc EXCEPT ![m] = "run"] /\ UNCHANGED result
       \/ StaySilent(m)
    /\ UNCHANGED <<hostVars, workerVars, ended, outVars, rdvVars>>

statusFromInvocation(outcome) ==
    IF outcome = "returned" THEN "Success" ELSE "Failure"

\* Mutant: encodeReturnValue does not recover from a panicking marshaler.
RunUserInvocation_EncodePanics(m, outcome) ==
    /\ pc[m] = "run"
    /\ ended' = [ended EXCEPT ![m] = outcome]
    /\ \/ Respond(m, statusFromInvocation(outcome))
       \/ outcome = "failed" /\ StaySilent(m)
       \/ outcome = "returned" /\ Style[Func(m)] # "http" /\ StaySilent(m)
    /\ UNCHANGED <<hostVars, workerVars, outVars, rdvVars>>

\* The middleware chain ends.  statusFromInvocation reads the text of the
\* user's error after runUserInvocation's recover is gone: an Error method that
\* panics ends the goroutine.  The response of a function that returned still
\* fails when its return value cannot be encoded, its marshaler panicking
\* included: encodeReturnValue recovers (HTTP responses can always be encoded).
RunUserInvocation(m, outcome) ==
    /\ pc[m] = "run"
    /\ ended' = [ended EXCEPT ![m] = outcome]
    /\ \/ Respond(m, statusFromInvocation(outcome))
       \/ outcome = "failed" /\ StaySilent(m)
       \/ /\ outcome = "returned" /\ Style[Func(m)] # "http"
          /\ Respond(m, "Failure")
    /\ UNCHANGED <<hostVars, workerVars, outVars, rdvVars>>

-----------------------------------------------------------------------------
\* The steps the worker takes by itself.
Process(m) ==
    \/ handleWorkerInitRequest(m)
    \/ handleFunctionsMetadataRequest(m)
    \/ handleFunctionLoadRequest(m)
    \/ handleStateless(m)
    \/ handleUnanswered(m)
    \/ NotLoaded(m)
    \/ NotifyGRPCArrival(m)
    \/ NotifyReturns(m)
    \/ Bind(m)
    \/ Send(m)

Next ==
    \/ \E m \in Messages :
          \/ Receive(m)
          \/ Process(m)
          \/ MakeClient(m)
          \/ \E outcome \in Outcomes : RunUserInvocation(m, outcome)
          \/ HttpHandlerEnds(m)
    \/ \E c \in Contents : HostSends(c)
    \/ ReceiveEnds
    \/ OutboundStep

\* Goroutines run, the receive loop drains the stream, the outbound path and
\* the rendezvous keep their promises.  The host, the end of the stream, the
\* client factory and the user's code are not assumed to do anything.
Fairness ==
    /\ WF_vars(\E m \in Messages : Receive(m))
    /\ \A m \in Messages : WF_vars(Process(m))
    /\ WF_vars(Out!Behind /\ OutboundStep)
    /\ WF_vars(link = "closing" /\ Out!Close
               /\ UNCHANGED <<hostVars, pc, workerVars, result, ended, rdvVars>>)

Spec == Init /\ [][Next]_vars /\ Fairness

-----------------------------------------------------------------------------
(* The properties.                                                         *)

\* A host that waits for the responses it depends on never finds the worker
\* behind them, although every message runs on its own goroutine: a load or
\* an invocation works with the host's log categories, and an invocation
\* with a loaded function.
ControlPlaneOrdered ==
    \A m \in Sent :
        /\ Kind(m) \in {"load", "invocation"} => categories
        /\ Kind(m) = "invocation" /\ m \notin early => Func(m) \in loaded

\* An invocation is reported as a Success only if the user's function ran
\* for it and came to a regular end, on either path.
SuccessIsEarned ==
    \A m \in Requests :
        result[m] = "Success" => ended[m] = "returned" \/ verdict[m] = "Success"

\* Which invocations of a loaded function may be left without a response:
\* one whose error could not be read, or one whose argument could not be made
\* (a conversion that panics, a ClientFactory that fails), which a generic
\* payload and an http.Request always can.  A function that returned is
\* answered whatever its result does, and so is a trigger that was handed to
\* the HTTP proxy whatever becomes of the request.
SilenceHasACause ==
    \A m \in Requests \ early : pc[m] = "silent" =>
        /\ phase[m] = "new"
        /\ \/ ended[m] = "failed"
           \/ ended[m] = "none" /\ Style[Func(m)] \in {"legacy", "client"}

\* Every message that has a response gets it to the host unless the stream
\* ends or its own user code does not return: one that hangs holds up
\* nobody else ("health pings, env reloads, terminate, and concurrent
\* invocations don't queue behind" it).
EveryRequestAnswered ==
    \A m \in Messages :
        m \in Sent ~>
            \/ m \in ToSet(delivered)
            \/ pc[m] \in {"factory", "run", "silent"}
            \/ recvPc = "ended" \/ link = "closed"
=============================================================================
