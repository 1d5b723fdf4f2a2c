# Verification of the Azure Functions Go worker

TLA+ models of the concurrent core of the worker, model-checked with TLC on
small instances and, where it matters most, proved with TLAPS for every value
of the constants. Paths below are relative to the repository.

## 1. The system

The Functions host starts the user's binary, which contains the worker. Host
and worker exchange `StreamingMessage`s over one bidirectional gRPC stream;
for HTTP triggers the host forwards the HTTP request itself to a loopback
server inside the worker. On Flex Consumption a second program, the proxy,
stands in while no binary is deployed and then bridges host and worker.

| component | state | operations | talks to |
| --- | --- | --- | --- |
| Receive loop and dispatcher (`worker/worker.go`, `worker/dispatcher.go`, `worker/handlers.go`) | `LoadedFunctions`, one goroutine per message | init, metadata, load, invocation, status, terminate, environment reload | `send`, the HTTP proxy, user code |
| HTTP proxy (`worker/http_proxy.go`) | `pending`: id -> slot with two one-element channels | `handle` (HTTP goroutine), `notifyGRPCArrival` (dispatch goroutine) | dispatcher, net/http, user code |
| Outbound sender (`worker/grpc.go`) | queue of 256, `closed`, `stopChan`, `finished` | `send`, `stop`, the sender goroutine | every goroutine that answers or logs |
| Log pipeline (`worker/log/*`) | category filter, bootstrap buffer, observers | `Write`, `SetCategories`, handlers | `send`, stderr |
| Start and shutdown (`worker/worker.go`) | lifecycle hooks started so far | `Start`, signal handling, hooks in reverse | all of the above |
| Placeholder proxy (`proxy/main.go`) | saved init request, `isSpecializing`, child stream, three close-once channels | receive loop, `specialize`, `EventStream`, response loop, monitor | host, child process |
| Host configuration (`worker/host_configuration*.go`) | a once-only snapshot of host.json | read, decode, normalize | dispatcher |
| Conversions (`worker/converter.go`, `worker/generic.go`, `worker/http_*.go`) | none | `FromProto`, encoding of results | dispatcher |
| SDK (`sdk/*`) | registered functions, middleware, capabilities, factories, shutdown hooks | registration, `Use`, `Compose`, `RunShutdowns` | dispatcher |
| Host client (`internal/hostclient`) | connection state | open the stream with a readiness deadline | gRPC |
| Durable tasks (`middleware/durabletask`) | client cache, registry | `Wrap`, `cachedClient`, `Shutdown`, replay | gRPC sidecar |
| OpenTelemetry (`middleware/otelfunc`, `otelcollector`) | spans, collector process | span per invocation; start, readiness, shutdown | lifecycle hooks |
| Blob trigger (`triggers/blob`) | client cache | `ClientFactory` | dispatcher |

What is hard about it:

- **Interleaving.** Every host message has its own goroutine; one HTTP
  invocation has two, started in either order by two transports; the sender is
  shared by all of them; the proxy has five kinds of goroutine.
- **Timers against late events.** Two independent 4-minute timers in the
  rendezvous; a select takes any ready case.
- **Failure of one step of several.** A stream that breaks with messages
  queued, a child process that dies during specialization, a client that
  disconnects before its trigger.
- **Shutdown races.** `stop` against senders in the blocking select, a
  termination signal against the sender.
- **Registration is a program.** main calls the SDK in an order nobody checked;
  what a middleware provides is taken once, at `Use`, and what the host is told
  is computed later.
- **At-least-once turns.** The host replays orchestrators, redelivers turns and
  may lose their answers; the worker keeps nothing between turns.
- **Trust in the host's order.** Nothing in the worker enforces "init before
  load, load before invocation"; what does the worker have to do so that a
  host that waits for responses is right to?

What makes each component correct:

- rendezvous: both sides meet in one slot; the host is told what the handler
  came to, once; the handler runs at most once; no goroutine and no slot leaks;
- sender: order is kept, a caller gets exactly one result, nobody blocks for
  ever, stopping terminates;
- dispatcher: a response is not sent before its effect; every failure becomes
  a response; one hanging invocation delays nobody;
- proxy: each host message is dealt with once and in order, by the placeholder
  or by the child; the reload is answered only when the child is ready;
- process: hooks go up in order and down in reverse, the middleware flushes
  before the first hook goes down, and the way out always ends; no connection,
  collector goroutine, durable client or log record is lost sight of;
- application: the host is told what main registered, the handler gets what the
  host sent, telemetry is out before the answer is, and no task of an
  orchestration is scheduled twice.

`PROJECT.json` lists the hazards at their lines with the properties that cover
each.

## 2. Modules

```
Invocation (abstract)   <== HttpProxy ----- MCHttpProxy
     ^                        ^
     |                  HttpProxyProofs
 Dispatcher ---- MCDispatcher, DispatcherProofs
     |
     v
Outbound (abstract)     <== Sender ---- SenderProofs

Proxy ---- ProxyProofs

HostClient  Collector                 Bindings  PayloadTypes
       \     /                                \   /
     Lifecycle   DurableClients   LogPipeline  Registration  Conversion  Telemetry  Orchestration
            \         |           /                    \         |          |        /
                   Worker                                       Pipeline
                   /    \                                           |
            MCWorker    WorkerProofs       HostConfiguration -- Application -- MCApplication
                                                   |                |
                                       HostConfigurationProofs -- RegistrationProofs
                                                                    |
                                                            ApplicationProofs
```

`<==` reads "implemented by". `Dispatcher` is composed with the two abstract
specifications instead of the detailed ones, so that its state space stays
small; that this is sound is what the refinements are for.

### HttpProxy

The two goroutines of each invocation and the slots they meet in. A slot is
named after the goroutine that allocates it, which makes pointer identity
expressible: a goroutine can hold a slot that has left the map. `pending` is
the map, `held` the local variable of each goroutine, `grpc` and `done` the
contents of the channels. One action per step between two synchronizations:
`HttpArrive`, the three cases of the select (`HttpPaired`, `HttpAbandoned`,
`HttpTimesOut`), `HandlerEnds`, `HttpReplies`, `HttpRemoves`, and for the gRPC
side `GrpcArrive`, `GrpcOffers`, `GrpcResult`, `GrpcTimesOut`. The client may
disconnect at any moment; the middleware chain returns, fails or panics. An error
whose text panics (`StatusPanics`) takes the goroutine away between the chain and
its send, its slot still in the map: the trigger waits out its timer.
Timers are untimed: a started timer may fire at any later step, because the two
timers start at unrelated instants and nothing relates 4 minutes to the
duration of a handler.

### Sender

`sendFn` in its three steps (flag, probe, blocking select), the sender
goroutine, `stopFn`, and the end of `worker.Start` that calls it. Callers are
dispatch goroutines that send log records (with the `Writer`'s stderr fallback)
and then their response. The stream may break and a signal may half-close it at
any moment.

### Dispatcher

`handleBidiStream` and every case of `processRequestMessage`. A message is its
number; kind and function id are kept, payloads are not. The handler of an
invocation is modelled step by step: lookup, HTTP path or argument binding,
client factory, user code, response. Where nothing recovers, a panic in what the
user supplied leaves the invocation silent: in the conversion of a registered
type (`ConversionMayPanic`), in the client factory, and in the text of the
handler's error, which `statusFromInvocation` reads when `runUserInvocation` and
its recover have returned. A result whose encoding panics is answered, because
`encodeReturnValue` has a recover of its own (`worker/converter.go:502-507`), and
so has `decodeGenericInput`. `WorkerStatusRequest` and
`FunctionEnvironmentReloadRequest` change nothing and share an action, as do
`WorkerTerminate` and the default case, which answer nothing. The host keeps
the order that `worker/worker.go:277-279` relies on, except that an invocation
may be sent *early*, before its load is answered; the properties say what holds
for those.

### Proxy

The receive loop, one `specialize` goroutine per reload, the `EventStream`
handler, the response loop and the monitor, with host and child as environment.
Fields are read under the mutex and used after it is released, as in the code.
The decision at process start to exec the app directly comes before any of this
and is left out.

### Worker

One process from its command line to its end. `Lifecycle` is the main thread,
`worker.Start`: dialling (`HostClient`), hooks up, the signal trap, the end of
the receive loop, the stop of the sender, the callbacks of the middleware, hooks
down. One hook may be the embedded collector (`Collector`), with its run
goroutine, its done channel and the bounded waits on it; the others start and
stop in one step. `DurableClients` has the mutex and the cache of the durable
middleware, with invocations dialling against `Shutdown`; `LogPipeline` a user
record between the category filter, the sender or its stderr fallback, and the
observers. `Worker` composes them: invocations start while the stream is open
and are not waited for when the process goes down, as in the code. What the
sender does inside is `Sender`'s; here it is open or stopped.

### Application

What main registers and what becomes of it. `Registration` has one action per
SDK call, `Bindings` the table of triggers and of the options that apply to each,
`PayloadTypes` the check of a generic handler's types. A call that panics ends
the process. `HandleWorkerInit`, `HandleFunctionsMetadata` and
`HandleFunctionLoad` are what the host is told; the caller may change the
property map it handed over at any time (`CallerMutates`). `HostConfiguration`
is the snapshot of host.json, read from one of many disks and normalized as a
sequence of JSON tokens.

`Pipeline` is one invocation on the gRPC-body path: arguments (`Conversion`),
client factory, each middleware on the way down, the handler, each middleware on
the way up, the answer. An otelfunc middleware starts, ends, harvests and
flushes its span (`Telemetry`); the durable one chooses a client; a user's
middleware passes on, changes the input, answers itself or panics. The text of an
error may panic (`ErrorTextPanics`), inside the chain where otelfunc records it, or
outside it where the status is built, and so may the conversion of a registered
type that gets another kind of value than its field has (`ConversionMayPanic`).
`Orchestration` is the runner of the durable middleware with the host around it:
it dispatches turns, again if an answer was lost or refused, and sends the
messages of an answer before it has stored the history.

`Conversion` works on classes of values. A payload has the variant of its oneof
and what JSON makes of its content (an object, a quoted string, not JSON, two
values, nothing); a Go type has its kind. That is all the control of
`converter.go` and `generic.go` looks at. A collection that goes to a slice with a
decoder of its own is one JSON array first (`genericCollectionJSON`), which an
element that is not JSON spoils.

`PayloadDelivered` says of a message which of its fields are set, not only what
they hold: a field whose metadata was sent, in the array of a batch at the
message's own index or, past the array's end, as the scalar of that name, and no
other. A request's method and body are those that were sent.

### Invocation and Outbound

What the dispatcher may rely on. `Invocation`: a trigger that was handed over
gets one answer, the verdict of its handler or an excuse; the handler ends at
most once. `Outbound`: messages are accepted or refused, refused only when the
path is going down; accepted ones are delivered in order until it is down.

## 3. Runs

| run | module, configuration | asks |
| --- | --- | --- |
| `http_rendezvous` | MCHttpProxy, MCHttpProxy.cfg | Two invocations forwarded once each, and a request without header: `SidesMeet`, `SendsNeverBlock`, `RemovesOwnSlot`, `ImplementsInvocation`, `SlotsReclaimed`, `HandlerGoroutinesEnd` |
| `http_repeated_forward` | MCHttpProxy, MCHttpProxyRepeated.cfg | One invocation whose request arrives three times: `AnswerIsVerdict`, `HandlerRunsOnce`, `RunsOnlyIfInvoked` |
| `sender` | Sender, Sender.cfg | Two callers, three messages each, a queue of two: `WireIsPrefix`, `ResultsAreExclusive`, `ImplementsOutbound`, `LateSendsRefused`, `CallersReturn`, `StopCompletes` |
| `dispatcher` | MCDispatcher, MCDispatcher.cfg | Four messages, an HTTP function, one with a client factory, one unknown: `ControlPlaneOrdered`, `SuccessIsEarned`, `SilenceHasACause`, `EveryRequestAnswered` |
| `proxy` | Proxy, Proxy.cfg | Four host messages around one reload: `ForwardingIsFinal`, `ChildGetsHostOrder`, `AnsweredAtMostOnce`, `ReloadAnswerMeansReady`, `NoPanic`, `EveryMessageDealtWith`, `ReloadIsAnswered` |
| `worker` | MCWorker, MCWorker.cfg | A plain hook and the collector, an exporter and the durable middleware, two invocations with one target, one log record: `TeardownOrder`, `NoOrphanCollector`, `DialIsClean`, `ClientsAccounted`, `RecordsAccounted`, `StartReturns` |
| `functions` | MCApplication, MCApplication.cfg | Nine small applications (below): `HostToldTheTruth`, `PayloadDelivered`, `TelemetryBeforeAnswer`, `NoWorkRepeated` |
| `otel_panic` | MCApplication, MCApplicationPanic.cfg | violation of `EverySpanEnds` |
| `http_disconnect` | MCHttpProxy, MCHttpProxyDisconnect.cfg | violation of `DisconnectUnblocks` |
| `http_timeout` | MCHttpProxy, MCHttpProxyTimeout.cfg | violation of `TimeoutCapsOnlyTheJoin` |
| `sender_drain` | Sender, SenderDrain.cfg | violation of `FinalLogsDrain` |
| `proxy_init_order` | Proxy, ProxyInitOrder.cfg | violation of `InitReachesChildFirst` |

The runs of HttpProxy, Sender, Dispatcher and Proxy also check their module's
type invariant. Deadlock is not checked: every one of these systems may
legitimately come to rest when the host sends nothing more, and an application
also when its main panics.

The applications of `functions`, each named for what it is about:

| scenario | what main and the host do |
| --- | --- |
| `metadata` | typed, batch, generic and durable functions in every order, `Use` between them, with the caller changing its property map |
| `capabilities` | middlewares that advertise, override and advertise nothing, a nil one, and the HTTP proxy |
| `panics` | eleven registrations that panic alone or after another, and a binding that cannot be encoded |
| `configuration` | every way of reading host.json, redeployed between two requests |
| `generic` | a generic function under two otelfunc middlewares (one disabled) and a user's; inputs missing, repeated, null, malformed |
| `batch` | a generic and a typed batch, metadata arrays of other lengths |
| `http` | an HTTP function with a durable client, on the gRPC-body path |
| `blob` | a client factory that succeeds, fails or is not there |
| `orchestration` | turns through the chain, redelivered, without history, across ContinueAsNew |

### What the violation runs show

1. **A disconnect does not unblock a later trigger.**
   `worker/http_proxy.go:261-265` says the Failure is pushed "to unblock it
   immediately" if gRPC arrives later, but line 283 removes the slot from the
   map right after; a later trigger allocates a new one and waits out its timer.
   A trigger that already holds the slot is unblocked.
2. **The timeout caps the handler, too.** `worker/http_proxy.go:44-47` says the
   timeout is for the join and the handler "can run as long as the underlying
   request stays open". The gRPC side waits for the handler's *result* under
   the same timer, so the host is told of a timeout while the handler runs on.
3. **Final logs need not drain.** `worker/worker.go:183-184` says they do; the
   sender's select may take `stopChan` with messages still queued.
4. **A message can reach the child before its init request.**
   `proxy/main.go:215-218` says a waiting message ensures the opposite;
   `EventStream` publishes the child stream before `specialize` replays the
   init request, and a message taken up in between is forwarded at once.

5. **A panic leaves its span open.** `middleware/otelfunc/middleware.go:499-510`
   says the middleware runs the handler, records, harvests and flushes before it
   returns; lines 455-463 do so after `next` without a defer. The panic is
   recovered outside the chain (`worker/invocation.go:33-38`), the invocation is
   answered and its span is neither ended nor flushed, which on a plan that
   freezes the process between invocations loses the trace of exactly the
   invocation that failed.

Where the code differs from what it says and the models follow the code:

**An error whose text panics is never answered.** `worker/handlers.go:449-451`
says a panicking handler gets a Failure "instead of leaving the host to time
out the invocation", and `worker/worker.go:302-307` that the outer recover
"only fires for panics that originate outside user code".
`statusFromInvocation` (`worker/invocation.go:70`, called at
`worker/handlers.go:464`) calls the user's `Error()` after the recover of
`runUserInvocation` has gone; a typed nil pointer returned as an error is
enough. The panic ends in `handleBidiStream`, which logs it, and no response
is sent. `SilenceHasACause` has this as one of the three causes of silence, beside
a conversion that panics and a client factory. The same call is made on the HTTP
path (`StatusPanics`), where the trigger is answered by its timer, and inside
otelfunc (`ErrorTextPanics`), where the recover still catches it.

Also: `worker/converter.go:310-321` says a natural variant that is empty falls through
to JSON, which the Bool case at 333-337 does not do (modelled as it is);
`worker/log/handlers.go:122-126` says observers see the fully qualified shape,
but inline attributes are qualified for the RpcLog only (276-279);
one binding that cannot be encoded fails the whole metadata answer
(`worker/handlers.go:121-125`); a durable client keeps the URLs and query of the
binding that dialled it first, because the cache is keyed by target only
(`middleware/durabletask/durabletask.go:261`). And texts only:
`worker/handlers.go:306-308` says a Go error would be fatal to
`handleBidiStream`, which logs it and goes on; `proxy/README.md:12` says a
missing binary outside placeholder mode is fatal, where `proxy/main.go:93-96`
runs as a no-op worker.

### Bounds, and why they are enough

- Rendezvous: goroutines of different invocations share only the map; two
  invocations show every interference the map allows, three requests of one id
  show every order of a first, a second and a late one. The proofs of section 5
  remove the bound.
- Sender: a queue of two with six messages is full, empty and partly filled in
  the course of a run, and both callers can be blocked at once.
- Dispatcher: four messages allow init, load, an invocation and one message
  beside it, which is what concurrency between two messages needs.
- Proxy: init, reload and two more messages, before, during or after the
  specialization. `MaxReloads = 1` is the host's contract
  (`proxy/main.go:329`: a later deployment recycles the container); with two,
  `noChildMode` is closed twice and `NoPanic` fails, and a reload answered
  without a child no longer means readiness (`ReloadAnswerMeansReady`).

- Process: two invocations and `Shutdown` are every pair of contenders for the
  durable mutex; one record meets one of two filters and one stop of the
  sender; one plain hook before the collector gives a hook to unwind past a
  failing one. The hook and client properties are proved without bound.
- Application: `MaxCalls = 4` calls, each of the scenario's once, so that any
  call comes before and after any other and a second panicking one;
  `MetadataRounds = 2` shows that an answer does not change; `MaxInits = 2` that
  the snapshot does not. `MaxBytes = 16` stands for 65,536 and `MaxDepth = 2` for
  64: files just within and just beyond both limits are among the disks. One
  invocation per behaviour, because `Pipeline` keeps nothing between two (turns
  excepted, whose state is the host's); the control plane has answered before it
  (`Settled`), as `Dispatcher` interleaves the two. `Generations = 2` and
  `MaxRedeliveries = 1` give a turn redelivered in the first and in the last
  execution, with two stages of two tasks each. What
  section 5 proves holds for any value of these constants; `Settled` and the one
  invocation at a time remain.

## 4. Fairness

Weak fairness is assumed of what the Go runtime schedules: a goroutine that can
run eventually does, a started timer eventually fires, `client.Send` returns.
A caller blocked on a full queue gets strong fairness, because Go's channels
serve their waiters in order. Nothing is assumed of the host, of the
client, of the user's handler and client factory, nor of signals, stops and
stream errors. In `Dispatcher` the outbound path and the rendezvous have the
fairness their abstract specifications state, which `ImplementsOutbound` and
`ImplementsInvocation` show the detailed ones provide. In `Proxy` the child is
assumed to connect and answer or to die: nothing in the proxy bounds its wait
for it, so `ReloadIsAnswered` does not hold without that, and a child that hangs
leaves the reload unanswered for ever. What is checked is a child that answers or
dies at any point.

In `Worker` the main thread, the durable mutex and the bounded waits go on, and
the host ends a stream that was half-closed after a signal; nothing is assumed
of the collector's run goroutine, of handlers or of further signals, so that
`StartReturns` says the way out ends whatever they do. A callback or plain hook
is assumed to return: the 10-second context it is given bounds only one that
looks at it. `Application` has safety properties only and states no fairness.

## 5. Proofs

Every safety property that a passing run checks is proved for all values of the
constants; so are the steps of the two refinements. No theorem uses fairness. The
assumptions on constants, each checked by TLC in the runs:

| module | assumed | because |
| --- | --- | --- |
| HttpProxy | goroutine names are distinct, the two nils are not names | the model's own names |
| Sender | a caller sends at least one message, the queue holds at least one | `outboundQueueSize` is 256 |
| Dispatcher | registered functions are among the host's, each in one of the three styles | how the argument is bound decides the path (`worker/invocation.go`) |
| Worker | at most one collector hook; "nobody" and the shutdown thread are not invocations; log writers are invocations | an application asks for one collector (`otelcollector.WithCollector`); the model's own names |
| LogPipeline | categories and keys are sequences of strings, thresholds and levels integers | `RpcLog_Category`, `Level` |
| Registration | "nil" advertises nothing | `Use` skips a nil middleware (`sdk/middleware.go`) |
| Application | a call has the arguments its method takes, its options are a list and what an option appends is a binding; the inputs of a request are a list; a disk holds text | the Go signatures of the SDK's methods, `InvocationRequest.input_data` |
| HostConfiguration | sizes and the limit are natural numbers, the tokens of JSON have a size | `maxHostConfigurationBytes`, a size is a number of bytes |
| Orchestration | the user's names for children differ and none has the form `<parent>:<id>` | otherwise the user asked for one instance twice; `runner.go` fills in only names that are empty |
| Proxy | three theorems state `MaxReloads <= 1` as a hypothesis | the container is specialized once (`proxy/main.go:329`); they are false with two |

**HttpProxyProofs** proves `TypeOK`, `AnswerIsVerdict`, `HandlerRunsOnce` and
`RunsOnlyIfInvoked`, even when requests are forwarded more than once. None is
inductive: that the handler runs once rests on the arrival in a slot being
*fresh*, put there once by the gRPC goroutine that holds the slot and not yet
consumed by any handler of the invocation (`ArrivalIsFresh`), which needs that
slots of different invocations never mix (`Keyed`); that an answer is a verdict
needs that what is in transit is one (`TransitIsVerdict`). `IInv` is the
conjunction.

**HttpProxyProofs**, the refinement: every step of the two goroutines is a step
of `Invocation` or leaves it unchanged (`RendezvousIsInvocation`). The
end of the handler is `Conclude`, which is allowed once: that is where
`HandlerRunsOnce` is needed; the receipt of a result is `Answer` with the
verdict `TransitIsVerdict` provides. A handler whose error cannot be read has
ended without one; to the host its invocation is one that timed out.

**HttpProxyProofs**, the slots: `SidesMeet`, `SendsNeverBlock` and `RemovesOwnSlot`
for invocations that are forwarded once. The argument is about ownership of
the slot in the map: until one of the two goroutines returns, both hold the
slot in the map (`Joined`); afterwards a slot in the map still has a goroutine
at work (`Owned`). The hard step is `GrpcResult`, the one return that does not
remove the slot: the result comes from an HTTP goroutine that is past its send
(`ResultHasSender`) and either is still to remove the slot or has removed it
(`LeftBehind`); a goroutine that goes without a result (`StatusPanics`) leaves its
slot to the gRPC side, which still waits in it (`PairedInSlot`, `PeerWaits`); a
late trigger cannot be mistaken for it because the slot it
allocates is new (`Allocated`). The steps are first reduced to three shapes (a
goroutine starts, goes on, leaves), so that each conjunct has a short proof.

**SenderProofs** proves `TypeOK`, `WireIsPrefix`, `ResultsAreExclusive`,
`LateSendsRefused` and that every step of the sender is a step of `Outbound` or
is not seen there (`SenderIsAnOutboundPath`). That the wire is a prefix of what
was accepted says nothing about what comes next: `Conveyor` says that while the
sender runs, wire, the message inside `Send` and the queue are, end to end, what
was accepted; when it exits it may lose the message it holds and the rest stays.
A message is the number its caller is at, and `Accounts` says which of the
smaller numbers have an outcome, which is why a message cannot have two. A late
send is refused because the flags rise in one order (`FlagsRise`): the path is
marked closed before the sender is gone.

**DispatcherProofs** proves `TypeOK`, `ControlPlaneOrdered`, `SuccessIsEarned`
and `SilenceHasACause`, and uses of the outbound path and the rendezvous
only what `Outbound` and `Invocation` promise. The link between what the host
has seen and what the worker has done is `EffectsFirst`: a goroutine has its
successful result only after the categories are installed, or the function is
loaded. `ControlPlaneOrdered` then follows from the host waiting for responses.
`SilenceIsExplained` rests on how far a silent goroutine can have come: before it
runs the user's code nothing of its invocation has ended, and its trigger has not
gone to the rendezvous (`NothingEndedYet`), so that a silent one has failed or
never had its argument, and never is one that returned.

**ProxyProofs** has two invariants. `BridgeInv` holds for any number of reload
requests and gives `TypeOK`, `ForwardingIsFinal` and `ChildGetsHostOrder`: a
forwarded message needs the child's stream (`ForwardsByStream`), which needs a
child, which a `specialize` goroutine has started (`ChildIsStarted`), and what
the child got are, but for the replayed init request, forwarded messages in
their order (`ChildMessages`). `SingleReloadInv` is about a container that is
specialized once and gives `AnsweredAtMostOnce`, `ReloadAnswerMeansReady` and
`NoPanic`: there is one `specialize` goroutine and its steps before the fork and
before the replay exclude what comes after (`OneSpecialize`), every message
passes the child at most once (`OnceThroughChild`), and an answer at the host
has exactly one origin (`AnswersAccounted`). The init request is the delicate
message: it is the only one that both the placeholder and the child answer, and
the child's answer is swallowed once (`childInitDone`).

**WorkerProofs**, the process. `HooksGoDownInOrder`: the invariant says which
hooks are up at each place of `Start` (`Standing`: those below the one it is at),
that those down went from the last to the first and all lie above (`Descending`),
how far the callbacks are (`Flushing`) and that nobody else stops the collector
(`StoppedLate`); the one hard step is a hook going down, the same on the regular
way out and after a failed start. `ClientsAreAccountedFor`: the accounts are
inductive together with the mutex (`MutexHeld`) and with the fact that whoever
has dialled found no client for its target (`DialsOnce`), so that a store never
drops one. `NoCollectorIsOrphaned` needs that the goroutine's report means its
end, and that a wait for it begins after the cancellation. `DialsAreClean` is
inductive as it stands.

**WorkerProofs**, the log. `FilterIsAsDocumented`: for any category map and any
record, with keys of any length, `Writer.allowed` lets through what the
documented rule does not reject. It rests on two facts: a non-empty set of
prefixes of a category has a longest one (`LongestPrefixIsLongest`, by the
least-number principle on the distance to the category's length), and two
prefixes of one length are equal, so that the governing key is unique
(`ThresholdOfGoverningKey`). The proof found an error in the specification of
the rule: an empty category has the empty key as an *exact* match, which comes
before the catch-all "Worker"; `Governs` now says so. `NoRecordIsLost` adds that
a record between filter and sender was passed by the map that judged it
(`JudgedOnce`), whatever is installed meanwhile.

**HostConfigurationProofs** is about `normalizeHostConfiguration` on any text. The
passes over the tokens are recursive functions; two lemmas make them tractable,
`Induction` (a set of numbers with 0 that is closed under successor has them all,
from the least-number principle) and `Recursion` (a loop that has a value after
every step exists as a function). They give `LoopInvariant`, that a loop keeps what
each of its steps keeps, which is used of the decoder, the comma pass, the byte count
and `json.Compact`: the text that the last accepts has only JSON tokens and no comma
before a closer (`JsonIsClean`), and such a text goes through the passes unchanged
(`CleanIsKept`). So what is accepted fits the limit and is a fixed point of the
normalization (`NormalFormIsKept`).

**RegistrationProofs** proves `HostToldTheTruth` in its three parts.
`CapabilitiesAreThoseUsed`: the App's map is, for each key, the value of the last
middleware used that has it (`CapabilitiesMerged`), and nothing is told before
`Start` freezes it (`CapabilitiesTold`). `ConfigurationIsFrozen`: every answer
with host.json is the snapshot (`SnapshotInv`), so that all are the same
(`ConfigurationIsReadOnce`), and the snapshot is normal.
`FunctionsAreThoseRegistered` has the longest argument. Its invariant relates the
App to the log of main's calls: the functions are exactly those of the calls that
count, one for each, where a durable call counts from the moment the middleware is
used (`NamesInv`, which needs that `Use` seals the provider, and that what was
provided until then is one entry per call, `ProvidedInv`); and the first binding
of each holds the value of the last option that set a field, or, for a generic
trigger, the properties as they were at its call (`RegisteredInv`, `Faithful`).
That options compose to this is `AppliedKeeps`, by induction on the options. The
metadata then says of every function what was asked (`Reported`), whatever the
caller does to its map afterwards: a generic trigger's map was copied
(`SnapshotBinding`), and a typed one has none. That main may no longer register
when the host asks (`stage = "serving"`) keeps a later call from making the answer
stale. The invariants were checked on the `functions` run before they were proved.

**ApplicationProofs** has three results, each on the part of the state it is about.
`NoWorkIsRepeated`: two facts about lost answers carry it. A turn in the worker's
hands is about the history that is still stored, or has it withheld, and its new
events are the head of the inbox (`TurnIsCurrent`); and an answer is a function
of the turn (`ReplyIsReplay`). A replay on a full history never schedules what the
history has; one on a withheld history fails, because only the first turn of an
execution brings `ExecutionStarted` (`InboxFits`), and this is what
`checkHistoryPresent` looks at: with the check dropped, the step that stores is
not provable. `MessagesOfTasks` says a message is determined by its task and
execution, for which the generated child name must depend on the action.
`TelemetryPrecedesAnswer`: on the way up every span above the current middleware
is over, that is ended, marked with the error and flushed (`SpansInOrder`), and
the worker's own attributes never enter what goes out (`OutboundInOrder`).
`PayloadIsDelivered`: from its conversion to its answer an invocation has the
arguments that `FromProto` made of its request, but for the one a client factory
replaces (`DeliveryInv`); what is loaded is what was registered, and a load
changes it only between invocations (`LoadedInv`). The rest is about single
conversions, for every type and content: a generic function's trigger name is
bound to the trigger alone, because registration rejects a second binding of that
name (`GenericFieldIsTriggers`), so that a missing, repeated or malformed input
fails the conversion; a generic value is its input, raw or decoded
(`ScalarIsSent`, `GenericIsSent`); and a message, alone or at its index in a batch,
has the body that was sent and in each field the metadata that was given for it
(`MessageIsSent`, `BatchIsSent`); a request has its body and method (`RequestIsSent`). Stating this for every kind of input showed what
the code does beside the obvious: a message whose body arrives as a number gets
the empty body (`decodeProto` to bytes has no case for it), and a field whose
metadata is `null`, empty or zero its zero value.

Only model-checked:

- the liveness properties and the fairness part of `ImplementsInvocation` and
  `ImplementsOutbound`, which are outside the prover's reach;
- all violations.

## 6. Not modelled

Listeners, command-line flags, build information and dependency listings; the
wording of logs and errors; the log handlers that format a record and the
bootstrap buffer in front of the writer; protobuf encoding and generated code.
The syntax of numbers, JSON, URLs and dates is a class of value that decodes or
does not. Attribute values of spans are left out, their keys are kept. What
grpc-go does when `CloseSend` overlaps `Send`, or when two goroutines send on one
stream, is inside that library; the models show where the code can get there
(`InitReachesChildFirst`, `SignalCloseSend`). So are otelcol's `Run`, the replay
engine of durabletask-go and the Azure clients, modelled from how the code uses
them. The management operations of the durable client are single calls to the
host. In `Dispatcher`, `FromProto` remains a choice between success and failure:
`Pipeline` has it in full. Samples and tests are not part of the system.

## 7. What is left

1. The bootstrap buffer's hand-over to the writer, and the cache of blob service
   clients, within the `worker` run.
2. `Application` has one invocation at a time and no load during it; `Dispatcher`
   interleaves both, with a conversion that may succeed or fail. One composition
   of the two would show `PayloadDelivered` next to a load of the same function.
