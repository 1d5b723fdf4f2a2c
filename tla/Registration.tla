---------------------------- MODULE Registration ----------------------------
(***************************************************************************)
(* The user's main function up to worker.Start, and what the host is told   *)
(* of it afterwards: sdk/app.go, sdk/middleware.go, sdk/generic.go,         *)
(* sdk/factories.go and the registration half of middleware/durabletask,    *)
(* then handleWorkerInitRequest, handleFunctionsMetadataRequest and         *)
(* handleFunctionLoadRequest of worker/handlers.go.                         *)
(*                                                                         *)
(* main makes some of the calls in Calls; a call that panics ends the       *)
(* process.  program logs the calls that returned, each with the caller's   *)
(* property map as it was at the time.                                      *)
(***************************************************************************)
EXTENDS Bindings, PayloadTypes, TLC

CONSTANTS
    Calls,          \* the registration calls main may make
    MaxCalls,       \* bound: how many it makes
    Advertises,     \* the capabilities of each middleware that may be used
    MetadataRounds  \* bound: how often the host asks for the metadata

\* "nil" is a middleware that is not there; Use skips it.
ASSUME NilAssumption == Advertises["nil"] = NoFields

VARIABLES
    program,      \* the calls that have returned
    stage,        \* "main", "serving" or "panicked"
    property,     \* the value in the property map the caller owns
    registered,   \* App.registeredFunctions
    middlewares, capabilities,   \* of the App
    provided, closed,            \* of the durable middleware
    orchestrators,               \* its task registry
    factories,    \* sdk.clientFactories
    proxy,        \* the loopback HTTP server runs
    told,         \* what the host has been answered
    loaded        \* Dispatcher.LoadedFunctions

registryVars == <<registered, middlewares, capabilities, provided, closed,
                  orchestrators, factories>>
registrationVars == <<program, stage, property, registryVars, proxy, told, loaded>>

\* A property map is shared with the caller until it is snapshotted.
Shared == [queue |-> "shared"]
Snapshot(properties) ==
    [p \in DOMAIN properties |->
        IF properties[p] = "shared" THEN property ELSE properties[p]]

RegistrationInit ==
    /\ program = <<>> /\ stage = "main" /\ property = "old"
    /\ registered = <<>>
    /\ middlewares = <<>> /\ capabilities = NoFields
    /\ provided = <<>> /\ closed = FALSE /\ orchestrators = {}
    /\ factories = {}
    /\ proxy = FALSE
    /\ told = [capabilities |-> NoFields, functions |-> {}, failed |-> FALSE, rounds |-> 0]
    /\ loaded = <<>>

-----------------------------------------------------------------------------
(* Validation of generic triggers.                                          *)

\* TLA+ strings are not taken apart, so these sets stand for the tests of a
\* suffix and of a pattern.
TriggerTypes == {TypedModels[m].type : m \in DOMAIN TypedModels}
    \cup {DurableModels[m].type : m \in DOMAIN DurableModels} \cup {"customTrigger"}
ValidNames == {"req", "timer", "docs", "changes", "event", "message", "blob",
               "context", "input", "item", "durableClient"}

HandlerRejected(h, cardinality) ==
    LET T == h.in[2]  R == h.out[1] IN
    \/ h.in = <<>> \/ h.variadic \/ Len(h.in) # 2
    \/ h.in[1] # "context"
    \/ Len(h.out) \notin {1, 2} \/ Last(h.out) # "error"
    \/ Len(h.out) = 2 /\ R = "error"
    \/ T \in {"context", "writer"}
    \/ PayloadRejected(T)
    \/ Len(h.out) = 2 /\ ResultRejected(R)
    \/ /\ cardinality = "many"
       /\ Kind(Base(T)) # "slice"

BindingRejected(bs, k) ==
    LET b == bs[k]
        isReturn == b.name = "$return" /\ b.direction = "out"
    IN \/ ~isReturn /\ b.name \notin ValidNames
       \/ \E j \in 1..(k - 1) : bs[j].name = b.name
       \/ b.type = ""
       \/ k > 1 /\ b.type \in TriggerTypes
       \/ b.direction # "in" /\ ~isReturn
       \/ MarshalFails(b)

RegistrationRejected(rf) ==
    LET trigger == rf.bindings[1] IN
    \/ trigger.type \notin TriggerTypes \/ trigger.type = "httpTrigger"
    \/ trigger.type # rf.type \/ trigger.direction # "in"
    \/ HandlerRejected(rf.handler, trigger.generic.cardinality)
    \/ \E k \in DOMAIN rf.bindings : BindingRejected(rf.bindings, k)

\* A binding with the values its property map has now.
Current(b) == IF IsGeneric(b) THEN [b EXCEPT !.generic.properties = Snapshot(@)] ELSE b

SnapshotBinding(b) == Current(b)

-----------------------------------------------------------------------------
(* registerFunction.                                                        *)

FunctionId(rf) == <<rf.name, rf.type>>   \* HashFunctionID, taken as injective

\* Options run on the function before it is stored.
ApplyOption(rf, o) ==
    IF o.option = "WithRetry" THEN [rf EXCEPT !.retry = o.value]
    ELSE IF o.option = "ClientInput"
         THEN [rf EXCEPT !.bindings = Append(@, DurableClientBinding)]
    ELSE IF o.option = "Append" THEN [rf EXCEPT !.bindings = Append(@, o.binding)]
    ELSE [rf EXCEPT !.bindings[1] = WithOption(@, o)]

Applied(rf, opts) ==
    LET after[i \in 0..Len(opts)] == IF i = 0 THEN rf ELSE ApplyOption(after[i - 1], opts[i])
    IN after[Len(opts)]

\* What registerFunction stores: one function, none when it panics.
NewFunction(name, handler, binding, opts, known) ==
    LET fresh ==
            [name |-> name, type |-> binding.type, handler |-> handler, retry |-> "",
             bindings |-> <<binding>> \o (IF binding.type = "httpTrigger"
                                         THEN <<HTTPOutput>> ELSE <<>>),
             factory |-> FALSE]
        rf == Applied(fresh, opts)
    IN IF \/ IsGeneric(binding) /\ HandlerRejected(handler, binding.generic.cardinality)
          \/ \E k \in DOMAIN opts : OptionPanics(opts[k], binding)
          \/ IsGeneric(binding) /\ RegistrationRejected(rf)
          \/ FunctionId(rf) \in DOMAIN known
       THEN {}
       ELSE IF IsGeneric(binding)
            THEN {[rf EXCEPT !.bindings = [k \in DOMAIN @ |-> SnapshotBinding(@[k])]]}
            ELSE {rf}

Handler(in, out) == [in |-> in, out |-> out, variadic |-> FALSE]

\* The compiler fixes the signature of every typed handler.
HandlerOf(method) ==
    IF method = "HTTP" THEN Handler(<<"writer", "request">>, <<>>)
    ELSE Handler(<<"context", method>>, <<"error">>)

RegisterTyped(c) ==
    NewFunction(c.name, HandlerOf(c.method), ToBinding(TypedModels[c.method]), c.opts,
                registered)

\* Blob checks the signature by reflection and takes the factory registered
\* so far; without one it logs a warning only.
RegisterBlob(c) ==
    LET h == c.handler IN
    IF Len(h.in) # 2 \/ h.in[1] # "context" \/ h.out # <<"error">> THEN {}
    ELSE {[rf EXCEPT !.factory = "blobTrigger" \in factories] :
              rf \in NewFunction(c.name, h, ToBinding(TypedModels["Blob"]), c.opts, registered)}

RegisterGeneric(c) ==
    LET g == c.trigger IN
    NewFunction(c.name, c.handler,
                GenericBinding(g.name, g.type, g.dataType, g.cardinality, g.properties),
                c.opts, registered)

With(known, rf) == Assigned(known, FunctionId(rf), rf)

\* app.Use hands every function the durable middleware provides to
\* registerFunction, in order: the functions then known, none after a panic,
\* which a second function of one name and type causes like one that was known.
RegisterProvided ==
    LET new(k) == LET fr == provided[k] IN
                  NewFunction(fr.name, fr.handler, fr.binding, <<>>, registered)
        ids(k) == {FunctionId(rf) : rf \in new(k)}
        all == UNION {new(k) : k \in DOMAIN provided}
        added == [f \in {FunctionId(rf) : rf \in all} |->
                     CHOOSE rf \in all : FunctionId(rf) = f]
    IN IF \E k \in DOMAIN provided :
             new(k) = {} \/ \E j \in DOMAIN provided : j # k /\ ids(j) = ids(k)
       THEN {} ELSE {Merge(registered, added)}

-----------------------------------------------------------------------------
(* The calls main makes.                                                    *)

Returned(c) ==
    /\ program' = Append(program, Merge(c, [property |-> property]))
    /\ UNCHANGED stage

PanicsOut ==
    /\ stage' = "panicked"
    /\ UNCHANGED <<program, registryVars>>

\* An App method: HTTP, Timer, ..., Blob, GenericTrigger.
Registers(c, new) ==
    \/ /\ new = {}
       /\ PanicsOut
    \/ /\ \E rf \in new : registered' = With(registered, rf)
       /\ Returned(c)
       /\ UNCHANGED <<middlewares, capabilities, provided, closed, orchestrators, factories>>

CallRegister(c) ==
    \/ c.call = "typed" /\ Registers(c, RegisterTyped(c))
    \/ c.call = "Blob" /\ Registers(c, RegisterBlob(c))
    \/ c.call = "GenericTrigger" /\ Registers(c, RegisterGeneric(c))

CallRegisterClientFactory(c) ==
    /\ c.call = "RegisterClientFactory"
    /\ IF c.name \in factories THEN PanicsOut
       ELSE /\ factories' = factories \cup {c.name}
            /\ Returned(c)
            /\ UNCHANGED <<registered, middlewares, capabilities, provided, closed,
                           orchestrators>>

\* Durable.Orchestrator and Durable.Activity: the middleware must not have
\* been handed to app.Use.  The adapters have fixed shapes of their own.
ActivityRejected(h) ==
    \/ Len(h.in) \notin {1, 2} \/ h.in[1] # "context"
    \/ Len(h.out) \notin {1, 2} \/ Last(h.out) # "error"

CallDurable(c) ==
    /\ c.call \in {"Orchestrator", "Activity"}
    /\ IF \/ closed
          \/ c.call = "Orchestrator" /\ c.name \in orchestrators
          \/ c.call = "Activity" /\ ActivityRejected(c.handler)
       THEN PanicsOut
       ELSE /\ provided' = Append(provided,
                  [name |-> c.name, binding |-> ToBinding(DurableModels[c.call]),
                   handler |-> IF c.call = "Orchestrator"
                               THEN Handler(<<"context", "string">>, <<"string", "error">>)
                               ELSE Handler(<<"context", "bytes">>, <<"any", "error">>)])
            /\ orchestrators' = IF c.call = "Orchestrator" THEN orchestrators \cup {c.name}
                                ELSE orchestrators
            /\ Returned(c)
            /\ UNCHANGED <<registered, middlewares, capabilities, closed, factories>>

SealForgotten(c) == closed   \* Mutant: the provider stays open

\* app.Use seals a provider before what it provided is registered.
Seal(c) == closed \/ c.middleware = "durable"

CallUse(c) ==
    /\ c.call = "Use"
    /\ LET alls == IF c.middleware = "durable" THEN RegisterProvided ELSE {registered} IN
       IF c.middleware = "nil" THEN Returned(c) /\ UNCHANGED registryVars
       ELSE IF alls = {} THEN PanicsOut
       ELSE /\ middlewares' = Append(middlewares, c.middleware)
            /\ capabilities' = Merge(capabilities, Advertises[c.middleware])
            /\ closed' = Seal(c)
            /\ registered' \in alls
            /\ Returned(c)
            /\ UNCHANGED <<provided, orchestrators, factories>>

Call(c) ==
    /\ stage = "main" /\ Len(program) < MaxCalls
    /\ CallRegister(c) \/ CallRegisterClientFactory(c) \/ CallDurable(c) \/ CallUse(c)
    /\ UNCHANGED <<property, proxy, told, loaded>>

\* The caller goes on using its property map.
CallerMutates ==
    /\ property = "old"
    /\ property' = "new"
    /\ UNCHANGED <<program, stage, registryVars, proxy, told, loaded>>

\* worker.Start; the loopback server needs an HTTP function and a listener.
Start ==
    /\ stage = "main"
    /\ stage' = "serving"
    /\ \/ proxy' = FALSE
       \/ /\ \E f \in DOMAIN registered : registered[f].type = "httpTrigger"
          /\ proxy' = TRUE
    /\ UNCHANGED <<program, property, registryVars, told, loaded>>

-----------------------------------------------------------------------------
(* What the host is told.                                                   *)

BaseCapabilities == ("RawHttpBodyBytes" :> "true") @@ ("WorkerStatus" :> "true")
ProxyCapabilities == ("HttpUri" :> "url") @@ ("RequiresRouteParameters" :> "true")

\* The application's capabilities win over the base, the proxy's over both.
HandleWorkerInit ==
    /\ stage = "serving"
    /\ told' = [told EXCEPT !.capabilities =
          Merge(Merge(BaseCapabilities, capabilities),
                IF proxy THEN ProxyCapabilities ELSE NoFields)]
    /\ UNCHANGED <<program, stage, property, registryVars, proxy, loaded>>

\* The raw bindings are marshalled anew on every request, so a map that is
\* still shared shows the caller's latest value.
Describe(rf) ==
    [id |-> FunctionId(rf), retry |-> rf.retry,
     raw |-> [k \in DOMAIN rf.bindings |-> MarshalJSON(Current(rf.bindings[k]))]]

\* One binding that cannot be marshalled fails the whole response.
HandleFunctionsMetadata ==
    /\ told.capabilities # NoFields /\ told.rounds < MetadataRounds
    /\ LET fails == \E f \in DOMAIN registered :
               \E k \in DOMAIN registered[f].bindings : MarshalFails(registered[f].bindings[k])
       IN told' = [told EXCEPT !.rounds = @ + 1, !.failed = fails,
              !.functions = IF fails THEN {}
                            ELSE {Describe(registered[f]) : f \in DOMAIN registered}]
    /\ UNCHANGED <<program, stage, property, registryVars, proxy, loaded>>

\* The input bindings, and the positions the payload may go to, by index.
InBindings(rf) == {k \in DOMAIN rf.bindings : rf.bindings[k].direction = "in"}
DataArguments(h) == {i \in DOMAIN h.in : h.in[i] \notin {"context", "writer"}}
Rank(S, i) == Cardinality({j \in S : j <= i})

\* The k-th input binding gets the k-th position, later bindings none; the last
\* of a name overrides, "$return" of the writer too.
Fields(rf) ==
    LET in == InBindings(rf)
        args == DataArguments(rf.handler)
        writers == {i \in DOMAIN rf.handler.in : rf.handler.in[i] = "writer"}
        bound == {k \in in : Rank(in, k) <= Cardinality(args)}
        last(n) == CHOOSE k \in bound : /\ rf.bindings[k].name = n
                                        /\ \A l \in bound : rf.bindings[l].name = n => l <= k
        field(k) == [position |-> CHOOSE i \in args : Rank(args, i) = Rank(in, k),
                     generic |-> IsGeneric(rf.bindings[k])]
    IN Merge([n \in (IF writers = {} THEN {} ELSE {"$return"}) |->
                 [position |-> CHOOSE i \in writers : \A j \in writers : i <= j,
                  generic |-> FALSE]],
             [n \in {rf.bindings[k].name : k \in bound} |-> field(last(n))])

\* The host loads what the metadata named.
HandleFunctionLoad(f) ==
    /\ f \in {d.id : d \in told.functions} \cap DOMAIN registered
    /\ loaded' = Assigned(loaded, f,
                          [function |-> registered[f], fields |-> Fields(registered[f])])
    /\ UNCHANGED <<program, stage, property, registryVars, proxy, told>>
=============================================================================
