----------------------------- MODULE Telemetry ------------------------------
(***************************************************************************)
(* middleware/otelfunc: how Middleware resolves its providers from options  *)
(* and environment, and what its Wrap puts on the span of an invocation and *)
(* harvests from it.                                                        *)
(*                                                                         *)
(* A configuration: tp, lp - a provider is handed over; exporters,          *)
(* logExporters - exporters are; otlp - the OTLP endpoint is "absent", its  *)
(* exporter "builds" or "fails"; global, globalLP - the global provider is  *)
(* "noop" or "real"; flusher - "unset", "given" or "none"; flushable - the   *)
(* provider that is not the middleware's own has a ForceFlush; env - the     *)
(* variables with a usable value.                                           *)
(***************************************************************************)
EXTENDS Naturals, FiniteSets, SequencesExt

isDisabledByEnv(c) == "AZURE_FUNCTIONS_WORKER_OPENTELEMETRY_DISABLED" \in c.env

\* The provider of the first source that has one; whether it is owned.
FirstSource(handed, exporters, otlp, global) ==
    IF handed THEN [from |-> "user", owned |-> FALSE]
    ELSE IF exporters THEN [from |-> "exporters", owned |-> TRUE]
    ELSE IF otlp = "builds" THEN [from |-> "otlp", owned |-> TRUE]
    ELSE IF global = "real" THEN [from |-> "global", owned |-> FALSE]
    ELSE [from |-> "none", owned |-> FALSE]

TracerProvider(c) == FirstSource(c.tp, c.exporters, c.otlp, c.global)
LoggerProvider(c) == FirstSource(c.lp, c.logExporters, c.otlp, c.globalLP)

\* armResourceIDFromEnv and serviceNameFromEnv.
ResourceID(env) ==
    IF {"WEBSITE_SITE_NAME", "WEBSITE_RESOURCE_GROUP", "WEBSITE_OWNER_NAME"} \subseteq env
    THEN {"cloud.resource_id"} ELSE {}
ServiceName(env) ==
    IF {"OTEL_SERVICE_NAME", "WEBSITE_SITE_NAME"} \cap env # {} THEN {"service.name"} ELSE {}
buildDefaultResource(env) ==
    {"cloud.provider", "cloud.platform", "deployment.environment.name"}
    \cup (IF "REGION_NAME" \in env THEN {"cloud.region"} ELSE {})
    \cup ResourceID(env) \cup ServiceName(env)

\* Middleware: a pass-through when disabled, or when nobody asked for
\* telemetry; what it owns is shut down and, for logs, flushed by it.
Middleware(c) ==
    LET tp == TracerProvider(c)  lp == LoggerProvider(c)
        off == isDisabledByEnv(c) \/ tp.from = "none"
    IN [enabled |-> ~off,
        ownsTracer |-> ~isDisabledByEnv(c) /\ tp.owned,
        ownsLogger |-> ~off /\ lp.owned,
        bridges |-> ~off /\ lp.from # "none",
        flushes |-> ~off /\ (c.flusher = "given"
                             \/ (c.flusher = "unset" /\ (tp.owned \/ c.flushable))),
        resource |-> IF ~isDisabledByEnv(c) /\ tp.owned THEN buildDefaultResource(c.env) ELSE {}]

Capabilities(c) ==
    IF Middleware(c).enabled
    THEN [WorkerOpenTelemetryEnabled |-> "true", WorkerOpenTelemetrySchemaVersion |-> "1.37.0"]
    ELSE [k \in {} |-> ""]

-----------------------------------------------------------------------------
(* The span of an invocation.                                               *)

classifyTrigger ==
    [httpTrigger |-> "http", timerTrigger |-> "timer",
     blobTrigger |-> "datasource", cosmosDBTrigger |-> "datasource", sqlTrigger |-> "datasource",
     eventHubTrigger |-> "pubsub", serviceBusTrigger |-> "pubsub",
     serviceBusQueueTrigger |-> "pubsub", serviceBusTopicTrigger |-> "pubsub",
     eventGridTrigger |-> "pubsub", queueTrigger |-> "pubsub"]
TriggerClass(t) == IF t \in DOMAIN classifyTrigger THEN classifyTrigger[t] ELSE "other"

\* Host attributes that are promoted; a ProcessId must be a number.
Promoted == [ProcessId |-> "process.pid", HostInstanceId |-> "faas.instance",
             LiveLogs |-> "azure.functions.live_logs_session_id"]
hostAttrs(attributes) ==
    {Promoted[a] : a \in {b \in DOMAIN attributes \cap DOMAIN Promoted :
        attributes[b] # "" /\ (b = "ProcessId" => attributes[b] = "number")}}

workerSetSpanAttributeKeys ==
    {"faas.invocation_id", "faas.name", "faas.trigger"} \cup {Promoted[a] : a \in DOMAIN Promoted}

\* traceContextCarrier, buildInboundBaggage: what cannot be parsed is dropped.
Inbound(tc) ==
    [parent |-> tc.traceParent,
     baggage |-> {m \in tc.baggage : m # "malformed"}]

StartSpan(tc, trigger, tracer) ==
    [state |-> "open", tracer |-> tracer, inbound |-> Inbound(tc), class |-> TriggerClass(trigger),
     attrs |-> {"faas.invocation_id", "faas.name", "faas.trigger"} \cup hostAttrs(tc.attributes),
     error |-> FALSE]

\* harvestSpanAttributesToOutbound: what the user put on the span, unless
\* the key was already set on the invocation.
Harvest(outbound, span) ==
    [k \in DOMAIN outbound \cup (span.attrs \ workerSetSpanAttributeKeys) |->
        IF k \in DOMAIN outbound THEN outbound[k] ELSE "harvested"]
=============================================================================
