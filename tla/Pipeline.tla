------------------------------ MODULE Pipeline ------------------------------
(***************************************************************************)
(* One invocation on the gRPC-body path: handleInvocationRequest of         *)
(* worker/handlers.go with the chain of sdk.App.Compose around the handler, *)
(* step by step, and what otelfunc and durabletask do in it.  Invocations   *)
(* of proxied HTTP functions are those of HttpProxy.                        *)
(*                                                                         *)
(* A request names its function and has inputs, trigger metadata and trace  *)
(* context; its script is what user code will do with it: plain, what a     *)
(* user's middleware does; paints and sets, whether the handler puts        *)
(* "user.key" on the span and on the outbound attributes; end, value and    *)
(* writes, how the handler ends.                                            *)
(***************************************************************************)
EXTENDS Registration, Conversion, Telemetry, Orchestration

CONSTANT OtelConfigs   \* the configuration of each otelfunc middleware, by name

VARIABLES
    request,     \* the invocation in flight, or the last
    phase,       \* "idle", "down", "handler", "up", "flush", "unwound", "answered", "silent"
    depth,       \* position in the chain
    input,       \* mc.InputString
    arguments,   \* args, by binding name
    context,     \* what the innermost ctx carries: client, span, metadata
    spans,       \* the span each otelfunc middleware started, by its position
    outbound,    \* mc.outboundTraceAttrs
    returned,    \* mc.returnValue: set, type and content
    verdict,     \* "none", "ok", "error" or "panic"
    answer       \* the InvocationResponse

invocationVars == <<request, phase, depth, input, arguments, context, spans, outbound,
                    returned, verdict, answer>>

NoSpans == [i \in {} |-> 0]
NothingReturned == [set |-> FALSE, type |-> "", content |-> ""]
NoAnswer == [status |-> "none", source |-> "", value |-> Zero, outbound |-> NoFields]
NoRequest == [function |-> <<"", "">>]

PipelineInit ==
    /\ request = NoRequest /\ phase = "idle" /\ depth = 0 /\ input = ""
    /\ arguments = NoFields /\ context = [client |-> "none", span |-> 0]
    /\ spans = NoSpans /\ outbound = NoFields /\ returned = NothingReturned
    /\ verdict = "none" /\ answer = NoAnswer

Function == loaded[request.function].function
IsOtel(i) == middlewares[i] \in DOMAIN OtelConfigs
Otel(i) == Middleware(OtelConfigs[middlewares[i]])

-----------------------------------------------------------------------------
(* Before the chain.                                                        *)

TriggerName(f) ==
    LET in == InBindings(f)
    IN IF in = {} THEN "" ELSE f.bindings[CHOOSE k \in in : \A l \in in : k <= l].name

\* Text and JSON as a string, bytes as they are; anything else is no payload.
Payload(d) == IF d.variant \in {"string", "bytes", "json"} THEN d.content ELSE ""

\* extractTriggerInput: the first input of the trigger that has data.
TriggerInput(f, r) ==
    LET its == SelectSeq(r.inputs, LAMBDA i : /\ TriggerName(f) \in {"", i.name}
                                             /\ i.data # NoData)
    IN IF its = <<>> THEN "" ELSE Payload(its[1].data)

\* populateBindingInputs: the other inputs, by name.
BindingInputs(f, r) ==
    LET others == {k \in DOMAIN r.inputs :
                      /\ r.inputs[k].name \notin {"", TriggerName(f)}
                      /\ Payload(r.inputs[k].data) # "" \/ Is(r.inputs[k].data, "bytes")}
    IN [n \in {r.inputs[k].name : k \in others} |->
           Payload(r.inputs[CHOOSE k \in others :
               /\ r.inputs[k].name = n
               /\ \A j \in others : r.inputs[j].name = n => j <= k].data)]

\* buildMiddlewareContext, then FromProto.
Answer(status, source, value, attrs) ==
    [status |-> status, source |-> source, value |-> value, outbound |-> attrs]

\* Only generic decoding recovers: the argument of a Blob handler is of any type,
\* with an UnmarshalJSON of its own, and SQLChange has a field of a named int.
ConversionMayPanic(r) ==
    LET l == loaded[r.function] IN
    /\ l.function.type \in {"blobTrigger", "sqlTrigger"}
    /\ \E i \in DOMAIN r.inputs : LET n == r.inputs[i].name IN
          n \in DOMAIN l.fields /\ ~l.fields[n].generic

InvocationArrives(r) ==
    /\ phase \in {"idle", "answered", "silent"}
    /\ r.function \in DOMAIN loaded
    /\ LET l == loaded[r.function]
           bound == FromProto(r.inputs, l.fields, l.function.handler, r.metadata)
       IN /\ ~(proxy /\ l.function.type = "httpTrigger")
          /\ request' = r
          /\ input' = TriggerInput(l.function, r)
          /\ context' = [client |-> "none", span |-> 0,
                         flat |-> flattenTriggerMetadata(r.metadata),
                         values |-> IF IsGeneric(l.function.bindings[1])
                                    THEN genericTriggerMetadata(r.metadata) ELSE NoFields]
          /\ \/ /\ bound.ok
                /\ phase' = IF l.function.factory THEN "factory" ELSE "down"
                /\ arguments' = bound.of /\ answer' = NoAnswer
             \/ /\ ~bound.ok
                /\ phase' = "answered"
                /\ arguments' = NoFields
                /\ answer' = Answer("Failure", "Binding conversion", Zero, NoFields)
             \/ /\ ConversionMayPanic(r)
                /\ phase' = "silent"
                /\ arguments' = NoFields /\ answer' = NoAnswer
    /\ depth' = 1
    /\ spans' = NoSpans /\ outbound' = NoFields /\ returned' = NothingReturned
    /\ verdict' = "none"

\* A client factory that fails ends the invocation without an answer; else
\* its client replaces the trigger argument.
ClientFactory ==
    /\ phase = "factory"
    /\ \/ /\ phase' = "silent"
          /\ UNCHANGED arguments
       \/ /\ phase' = "down"
          /\ arguments' = Assigned(arguments, "blob", Value("client", ""))
    /\ UNCHANGED <<request, depth, input, context, spans, outbound, returned, verdict, answer>>

-----------------------------------------------------------------------------
(* Down the chain, in the order of Use.                                     *)

Enters == phase = "down" /\ depth <= Len(middlewares)

EnterOtel ==
    /\ Enters /\ IsOtel(depth)
    /\ depth' = depth + 1
    /\ IF Otel(depth).enabled
       THEN /\ spans' = Assigned(spans, depth,
                               StartSpan(request.trace, Function.type, Otel(depth)))
            /\ context' = [context EXCEPT !.span = depth]
       ELSE UNCHANGED <<spans, context>>
    /\ UNCHANGED <<request, phase, input, arguments, outbound, returned, verdict, answer>>

\* Durable.Wrap: the client of the binding, or the process's own, if any.
EnterDurable ==
    /\ Enters /\ middlewares[depth] = "durable"
    /\ depth' = depth + 1
    /\ LET given == BindingInputs(Function, request) IN
       context' = IF Function.type = "orchestrationTrigger" THEN context
                  ELSE IF "durableClient" \in DOMAIN given /\ given["durableClient"] = "object"
                  THEN [context EXCEPT !.client = "binding"]
                  ELSE context
    /\ UNCHANGED <<request, phase, input, arguments, spans, outbound, returned, verdict, answer>>

\* A user's middleware passes on, passes on another input, or answers itself.
EnterPlain ==
    /\ Enters /\ middlewares[depth] = "plain"
    /\ \/ /\ request.script.plain \in {"continues", "replaces input"}
          /\ input' = IF request.script.plain = "continues" THEN input ELSE ""
          /\ depth' = depth + 1
          /\ UNCHANGED <<phase, returned, verdict>>
       \/ /\ request.script.plain = "answers"
          /\ returned' = [set |-> TRUE, type |-> "text", content |-> "text"]
          /\ verdict' = "ok" /\ phase' = "up" /\ depth' = depth - 1
          /\ UNCHANGED input
       \/ /\ request.script.plain = "panics"
          /\ verdict' = "panic" /\ phase' = "unwound"
          /\ UNCHANGED <<depth, input, returned>>
    /\ UNCHANGED <<request, arguments, context, spans, outbound, answer>>

AtHandler == phase = "down" /\ depth = Len(middlewares) + 1

\* What the handler writes on the innermost span and on the invocation.
Paint(attrs) ==
    spans' = IF context.span = 0 THEN spans
             ELSE [spans EXCEPT ![context.span].attrs = @ \cup attrs]

\* A panic leaves through the chain to runUserInvocation, and nothing that
\* otelfunc does after next runs.
HandlerEnds(end) ==
    /\ verdict' = end
    /\ phase' = IF end = "panic" THEN "unwound" ELSE "up"
    /\ depth' = depth - 1

RunHandler ==
    /\ AtHandler /\ Function.type # "orchestrationTrigger"
    /\ Paint(IF request.script.paints THEN {"user.key"} ELSE {})
    /\ outbound' = IF request.script.sets THEN Assigned(outbound, "user.key", "explicit")
                   ELSE outbound
    /\ HandlerEnds(request.script.end)
    /\ returned' = IF request.script.end = "panic" \/ request.script.value.type = "" THEN returned
                   ELSE [set |-> TRUE, type |-> request.script.value.type,
                         content |-> request.script.value.content]
    /\ UNCHANGED <<request, input, arguments, context, answer>>

\* The orchestrator adapter replays the turn it finds in the invocation;
\* annotateTurnSpan notes the turn on the innermost span.
Encoded == IF input = "turn" THEN turn ELSE [NoTurn EXCEPT !.form = "empty request"]

RunOrchestrator ==
    /\ AtHandler /\ Function.type = "orchestrationTrigger"
    /\ LET result == loadAndRun(Encoded) IN
       /\ HandlerEnds(IF result = Failed THEN "error" ELSE "ok")
       /\ Paint(IF result = Failed THEN {}
                ELSE {"durabletask.task.instance_id", "durabletask.action_count"})
       /\ returned' = IF result = Failed THEN returned
                      ELSE [set |-> TRUE, type |-> "text", content |-> "response"]
    /\ UNCHANGED <<request, input, arguments, context, outbound, answer>>

-----------------------------------------------------------------------------
(* Up the chain.                                                            *)

\* The error of user code is of any type, and its Error() may panic: when
\* otelfunc takes its text, and that is a panic of user code like another, or in
\* statusFromInvocation, when the recover of runUserInvocation is behind, and
\* then there is no answer.
ErrorTextPanics ==
    /\ phase = "up" /\ verdict = "error" /\ Function.type # "orchestrationTrigger"
    /\ \/ /\ depth \in DOMAIN spans
          /\ phase' = "unwound" /\ verdict' = "panic"
       \/ /\ depth = 0
          /\ phase' = "silent" /\ UNCHANGED verdict
    /\ UNCHANGED <<request, depth, input, arguments, context, spans, outbound, returned, answer>>

OtelSkipsOnError ==   \* Mutant: a failed handler is returned at once
    IF verdict = "error" THEN "up" ELSE "flush"
AfterNext == "flush"

\* Wrap after next: the error on the span, the harvest, the end of the span.
OtelReturns ==
    /\ phase = "up" /\ depth \in DOMAIN spans
    /\ spans' = [spans EXCEPT ![depth].state = "ended", ![depth].error = verdict = "error"]
    /\ outbound' = Harvest(outbound, spans[depth])
    /\ phase' = AfterNext
    /\ depth' = IF phase' = "up" THEN depth - 1 ELSE depth
    /\ UNCHANGED <<request, input, arguments, context, returned, verdict, answer>>

\* ForceFlush of the tracer, then of a logger of its own.
OtelFlushes ==
    /\ phase = "flush"
    /\ spans' = [spans EXCEPT ![depth].state =
                    IF spans[depth].tracer.flushes THEN "flushed" ELSE "ended"]
    /\ phase' = "up" /\ depth' = depth - 1
    /\ UNCHANGED <<request, input, arguments, context, outbound, returned, verdict, answer>>

OthersReturn ==
    /\ phase = "up" /\ depth > 0 /\ depth \notin DOMAIN spans
    /\ depth' = depth - 1
    /\ UNCHANGED <<request, phase, input, arguments, context, spans, outbound, returned,
                   verdict, answer>>

\* runUserInvocation has returned or recovered.
Writes == "$return" \in DOMAIN loaded[request.function].fields

Encoding ==
    IF Writes THEN Value("http", encodeHTTPResponse(request.script.writes))
    ELSE IF verdict = "ok" /\ returned.set THEN encodeReturnValue(returned.type, returned.content)
    ELSE Value("none", "")

AnswerInvocation ==
    /\ \/ phase = "unwound"
       \/ phase = "up" /\ depth = 0
    /\ phase' = "answered"
    /\ answer' = IF verdict # "ok" THEN Answer("Failure", "User function", Encoding, outbound)
                 ELSE IF ~Encoding.ok
                 THEN Answer("Failure", "Binding conversion", Zero, outbound)
                 ELSE Answer("Success", "", Encoding, outbound)
    /\ UNCHANGED <<request, depth, input, arguments, context, spans, outbound, returned, verdict>>
=============================================================================
