----------------------------- MODULE Application -----------------------------
(***************************************************************************)
(* An application on the worker: what its main registers, what the host is  *)
(* told, and the invocations the host then sends, orchestrator turns among  *)
(* them.  Composes Registration, HostConfiguration, Pipeline (with          *)
(* Conversion and Telemetry) and Orchestration.                             *)
(***************************************************************************)
EXTENDS Pipeline, HostConfiguration

CONSTANT
    Scenarios   \* by name: the calls main may make, in any order, whether it
                \* mutates its property map; the requests, whether WorkerInit
                \* asks for host.json, and the disks

IsList(s) == Len(s) \in Nat /\ DOMAIN s = 1..Len(s)
IsRegistering(c) == c.call \in {"typed", "Blob", "GenericTrigger"}
IsDurable(c) == c.call \in {"Orchestrator", "Activity"}

\* A call says what it calls, and has the arguments that takes; what the Append
\* option appends is a binding.
CallOK(c) ==
    /\ "call" \in DOMAIN c
    /\ c.call = "Use" => "middleware" \in DOMAIN c
    /\ IsDurable(c) => "name" \in DOMAIN c
    /\ IsRegistering(c) =>
          /\ {"name", "opts"} \subseteq DOMAIN c /\ IsList(c.opts)
          /\ \A i \in DOMAIN c.opts :
                c.opts[i].option = "Append" => DOMAIN c.opts[i].binding = DOMAIN HTTPOutput
    /\ c.call = "typed" => "method" \in DOMAIN c /\ c.method \in DOMAIN TypedModels
    /\ c.call = "GenericTrigger" => "trigger" \in DOMAIN c /\ c.trigger.dataType # "none"

\* The inputs of a request are a list, and a disk holds text.
ASSUME ScenariosAssumption ==
    \A s \in DOMAIN Scenarios :
        /\ \A c \in Scenarios[s].calls : CallOK(c)
        /\ \A r \in Scenarios[s].requests : IsList(r.inputs)
        /\ \A d \in Scenarios[s].disks : d.units \in Seq(STRING)

VARIABLE scenario   \* which of them is run

applicationVars == <<scenario, registrationVars, configurationVars, orchestrationVars,
                   invocationVars>>

Init ==
    /\ scenario \in DOMAIN Scenarios
    /\ RegistrationInit /\ ConfigurationInit(Scenarios[scenario].disks)
    /\ PipelineInit /\ OrchestrationInit

\* Bound: main makes each of the scenario's calls once, and the invocations
\* begin when it has made all it will make.
Main ==
    /\ \/ \E c \in Scenarios[scenario].calls :
            /\ \A i \in DOMAIN program : program[i].id # c.id
            /\ Call(c)
       \/ /\ Scenarios[scenario].mutates
          /\ CallerMutates
       \/ Start
    /\ UNCHANGED <<scenario, configurationVars, orchestrationVars, invocationVars>>

\* Bound: the control plane has said all it says before the first invocation;
\* Dispatcher has it interleaved with invocations.
Settled == told.rounds = MetadataRounds /\ Len(answers) = MaxInits

Control ==
    /\ phase = "idle"
    /\ \/ /\ HandleWorkerInit
          /\ \E asked \in Scenarios[scenario].asks : AnswerConfiguration(asked)
       \/ /\ HandleFunctionsMetadata
          /\ UNCHANGED configurationVars
       \/ /\ \E f \in {r.function : r \in Scenarios[scenario].requests} :
                f \notin DOMAIN loaded /\ HandleFunctionLoad(f)
          /\ UNCHANGED configurationVars
    /\ UNCHANGED <<scenario, orchestrationVars, invocationVars>>

Site ==
    /\ \E d \in Scenarios[scenario].disks : Deploy(d)
    /\ UNCHANGED <<scenario, registrationVars, orchestrationVars, invocationVars>>

\* Bound: one invocation, unless it is a turn.
IsTurn(r) == r.function[2] = "orchestrationTrigger"
Arrives ==
    \E r \in Scenarios[scenario].requests :
        /\ Settled
        /\ InvocationArrives(r)
        /\ IF IsTurn(r) THEN turn # NoTurn /\ reply = NoReply ELSE phase = "idle"

Invocation ==
    /\ Arrives \/ ClientFactory \/ EnterOtel \/ EnterDurable \/ EnterPlain
       \/ RunHandler \/ RunOrchestrator
       \/ ErrorTextPanics \/ OtelReturns \/ OtelFlushes \/ OthersReturn
    /\ UNCHANGED <<scenario, registrationVars, configurationVars, orchestrationVars>>

\* The answer of a turn is the response of the replay, if it has one.
Answers ==
    /\ AnswerInvocation
    /\ IF IsTurn(request)
       THEN HostTakesAnswer(IF answer'.status = "Success" /\ input = "turn"
                            THEN loadAndRun(turn) ELSE Failed)
       ELSE UNCHANGED orchestrationVars
    /\ UNCHANGED <<scenario, registrationVars, configurationVars>>

\* The host dispatches a turn once the orchestrator is loaded.
Host ==
    /\ Settled
    /\ \E f \in DOMAIN loaded : f[2] = "orchestrationTrigger"
    /\ \/ \E withheld \in BOOLEAN : HostDispatches(withheld)
       \/ HostSendsMessages \/ HostLosesAnswer \/ HostStores \/ HostFails
       \/ \E a \in DOMAIN Tasks : TaskCompletes(a)
    /\ UNCHANGED <<scenario, registrationVars, configurationVars, invocationVars>>

Next == Main \/ Control \/ Site \/ Invocation \/ Answers \/ Host

Spec == Init /\ [][Next]_applicationVars

-----------------------------------------------------------------------------
(* What the host was told.                                                  *)

\* The type of the trigger a call registers, and the value that a field of it
\* must have: the last option's, else the default.
ModelOf(c) == IF c.call = "typed" THEN TypedModels[c.method] ELSE BlobModel
TypeOf(c) ==
    IF c.call = "GenericTrigger" THEN c.trigger.type
    ELSE IF IsDurable(c) THEN DurableModels[c.call].type
    ELSE ModelOf(c).type

Sets(o, f) == o.option \notin {"WithRetry", "ClientInput", "Append"} /\ f \in OptionFields(o)
AskedFor(c, f) ==
    LET setting == {i \in DOMAIN c.opts : Sets(c.opts[i], f)}
        last == CHOOSE i \in setting : \A j \in setting : j <= i
    IN IF setting = {} THEN ModelOf(c).cfg[f] ELSE OptionValue(c.opts[last])

\* A property is as it was at the call; what is empty may be left out.
SaysWhatWasAsked(c, raw) ==
    IF c.call = "GenericTrigger"
    THEN \A p \in DOMAIN c.trigger.properties :
            raw[p] = IF c.trigger.properties[p] = "shared" THEN c.property
                     ELSE c.trigger.properties[p]
    ELSE \A f \in DOMAIN ModelOf(c).cfg :
            IF AskedFor(c, f) = "" /\ f \in ModelOf(c).omit THEN f \notin DOMAIN raw
            ELSE raw[f] = AskedFor(c, f)

\* Every function main registered is in the metadata once, with the bindings
\* as they were at its call; a durable function is there from the moment the
\* middleware is used, and none can be provided after that.
FunctionsAsRegistered ==
    told.rounds > 0 /\ ~told.failed =>
        LET used == \E i \in DOMAIN program :
                        program[i].call = "Use" /\ program[i].middleware = "durable"
            made == {i \in DOMAIN program :
                        \/ IsRegistering(program[i])
                        \/ used /\ IsDurable(program[i])}
            of(i) == {d \in told.functions : d.id = <<program[i].name, TypeOf(program[i])>>}
        IN /\ \A i \in made : Cardinality(of(i)) = 1
           /\ Cardinality(told.functions) = Cardinality(made)
           /\ \A i \in made : IsRegistering(program[i]) =>
                 \A d \in of(i) : SaysWhatWasAsked(program[i], d.raw[1])

\* A capability is the proxy's, else that of the last middleware that
\* advertises it, else the worker's own.
CapabilitiesAsUsed ==
    told.capabilities # NoFields =>
        LET users(k) == {i \in DOMAIN program :
                program[i].call = "Use" /\ k \in DOMAIN Advertises[program[i].middleware]}
            last(k) == CHOOSE i \in users(k) : \A j \in users(k) : j <= i
        IN \A k \in DOMAIN told.capabilities :
              told.capabilities[k] =
                  IF proxy /\ k \in DOMAIN ProxyCapabilities THEN ProxyCapabilities[k]
                  ELSE IF users(k) # {} THEN Advertises[program[last(k)].middleware][k]
                  ELSE BaseCapabilities[k]

\* Whatever is deployed, a host that asks always gets the same answer; what it
\* gets fits the limit and is JSON that normalizing again leaves alone.
ReadOnce ==
    \A i, j \in DOMAIN answers :
        answers[i] # NotRead /\ answers[j] # NotRead => answers[i] = answers[j]
ConfigurationFrozen ==
    /\ ReadOnce
    /\ \A i \in DOMAIN answers : Good(answers[i]) =>
          /\ Bytes(answers[i].content) <= MaxBytes
          /\ normalizeHostConfiguration(answers[i].content) = answers[i]

\* handleWorkerInitRequest and handleFunctionsMetadataRequest: the host learns
\* the application as main set it up, not as it was changed later.
HostToldTheTruth == FunctionsAsRegistered /\ CapabilitiesAsUsed /\ ConfigurationFrozen

-----------------------------------------------------------------------------
(* What the handler gets.                                                   *)

Inputs(n) == {i \in DOMAIN request.inputs : request.inputs[i].name = n}

\* A decoded value is what was sent: a number may have been sent as one, null
\* decodes to nil or to the zero value.
IsDecoded(v, e) ==
    \/ v.of = e.content
    \/ v.of = "number" /\ e.variant \in {"int", "double"}
    \/ v \in {Zero, Value("nil", "")} /\ e.content = "null"

\* A message has the body that was sent, unless that is empty or no text, and
\* in each field the metadata that is given for it, unless that is empty or does
\* not fit, and no other field is filled; any other struct is what a JSON object
\* says.
Fitting(kind) ==
    IF kind = "string" THEN {"string", "bytes", "json"}
    ELSE IF kind = "int64" THEN {"int", "json"} ELSE {}
IsDecodedMessage(v, m, e, given) ==
    IF v.as = "message"
    THEN /\ DOMAIN v.of.fields = DOMAIN m.fields \cap DOMAIN given
         /\ m.body => \/ v.of.body = Value("bytes", e.content)
                      \/ /\ v.of.body = Zero
                         /\ e.content = "" \/ e.variant \notin {"string", "bytes", "json"}
         /\ \A f \in DOMAIN v.of.fields : given[f].variant \in Fitting(m.fields[f]) =>
               \/ v.of.fields[f].of = given[f].content
               \/ v.of.fields[f] = Zero /\ given[f].content \in {"", "0", "null"}
    ELSE /\ ~m.body
         /\ \/ v.of = e.content
            \/ v = Zero /\ ~(e.variant \in {"string", "json"} /\ e.content = "object")

\* An element of a batch is given the item of a metadata array that has its index
\* and, where the array ends before it, what was sent for the whole batch, if
\* anything: never the item of another element.
ItemsAt(i) ==
    LET md == request.metadata
        reaches(f) == IsArrayOf(md, f) /\ i <= Len(ArrayItems(md[ArrayName[f]]))
    IN [f \in {g \in DOMAIN ArrayName : reaches(g) \/ g \in DOMAIN md} |->
           IF reaches(f) THEN ArrayItems(md[ArrayName[f]])[i] ELSE md[f]]

\* An argument is its input, decoded, a batch element by element, unless a client
\* factory has replaced it.
IsDelivered(n, d, a) ==
    LET l == loaded[request.function]
        m == Targets[l.function.handler.in[l.fields[n].position]]
        inOrder == a.as = "batch" /\ DOMAIN a.of = DOMAIN d.items
    IN \/ a.as = "client"
       \/ /\ l.fields[n].generic
          /\ IF d.variant \notin Collections THEN IsDecoded(a, d)
             ELSE \/ a.as = "custom" /\ a.of = "array"
                  \/ inOrder /\ \A i \in DOMAIN a.of : IsDecoded(a.of[i], Elements(d)[i])
       \/ /\ ~l.fields[n].generic
          /\ m.kind = "request" /\ Is(d, "http") =>
                /\ a.of.body = d.content
                /\ d.items # <<>> => a.of.method = d.items[1]
          /\ m.kind = "struct" => IsDecodedMessage(a, m, d, request.metadata)
          /\ m.kind = "slice of struct" /\ d.variant \in Collections =>
                /\ inOrder
                /\ \A i \in DOMAIN a.of :
                      IsDecodedMessage(a.of[i], m, Elements(d)[i], ItemsAt(i))

\* FromProto: user code runs only on a payload that is there and is whole. A
\* generic handler has its one input; of a repeated input of a typed handler it
\* is the last.
PayloadDelivered ==
    phase \in {"down", "up", "flush", "unwound"} =>
        \A n \in DOMAIN arguments :
            /\ IsGeneric(Function.bindings[1]) /\ n = TriggerName(Function) =>
                  /\ Cardinality(Inputs(n)) = 1
                  /\ arguments[n].as \notin {"zero", "error"}
                     \/ \A i \in Inputs(n) : IsNull(request.inputs[i].data)
            /\ \A i \in Inputs(n) : (\A j \in Inputs(n) : j <= i) =>
                  IsDelivered(n, request.inputs[i].data, arguments[n])

-----------------------------------------------------------------------------
(* What the host and the telemetry get.                                     *)

\* otelfunc: once an invocation is answered its spans are over and flushed, if
\* its user code returned; the host gets what the user wrote and none of what
\* the worker put on the span itself.
TelemetryBeforeAnswer ==
    phase = "answered" =>
        /\ verdict # "panic" => \A i \in DOMAIN spans :
              /\ spans[i].state # "open"
              /\ spans[i].tracer.flushes => spans[i].state = "flushed"
              /\ spans[i].error = (verdict = "error")
              /\ "user.key" \in spans[i].attrs => "user.key" \in DOMAIN answer.outbound
        /\ DOMAIN answer.outbound \cap workerSetSpanAttributeKeys = {}
        /\ "user.key" \in DOMAIN outbound /\ request.script.sets =>
              answer.outbound["user.key"] = "explicit"

\* otelfunc/middleware.go:501-505 says the middleware traces every function
\* invocation, harvests and flushes before it returns. A panic leaves Wrap
\* between Start and End.
EverySpanEnds ==
    phase = "answered" => \A i \in DOMAIN spans : spans[i].state # "open"

\* runner.go: however turns are delivered again, whatever history the host
\* withholds, the history schedules each task of an execution once, and each
\* child is one instance, told from its siblings.
NoWorkRepeated ==
    /\ \A i, j \in DOMAIN history :
          history[i].kind = "TaskScheduled" /\ history[i] = history[j] => i = j
    /\ \A m, n \in started :
          m.generation = n.generation =>
              /\ m.action = n.action => m = n
              /\ m.kind = "child" /\ n.kind = "child" /\ m.id = n.id => m.action = n.action
=============================================================================
