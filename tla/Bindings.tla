------------------------------ MODULE Bindings ------------------------------
(***************************************************************************)
(* Package sdk/bindings and the options of sdk/options.go: what a trigger   *)
(* registration turns into, and the JSON object the host is sent for it.    *)
(* A binding is its name, type, direction and the fields of its typed       *)
(* configuration; "" is the zero value of a field, whatever its Go type.    *)
(***************************************************************************)
EXTENDS Naturals, FiniteSets, SequencesExt

\* A registration method with its default field values; fields not listed
\* under "set" start as zero, those under "omit" are "omitempty".
Model(type, name, fields, omit, set) ==
    [type |-> type, name |-> name, omit |-> omit,
     cfg |-> [f \in fields |-> IF f \in DOMAIN set THEN set[f] ELSE ""]]

NoFields == [f \in {} |-> ""]

EventHubFields == {"eventHubName", "connection", "consumerGroup", "cardinality", "dataType"}
EventHubModel(cardinality) ==
    Model("eventHubTrigger", "message", EventHubFields, {"consumerGroup", "cardinality"},
          [consumerGroup |-> "$Default", cardinality |-> cardinality, dataType |-> "binary"])

\* Queue and topic triggers share one binding struct and one trigger type.
ServiceBusFields == {"queueName", "topicName", "subscriptionName", "connection",
                     "isSessionsEnabled", "cardinality", "dataType"}
ServiceBusModel(cardinality) ==
    Model("serviceBusTrigger", "message", ServiceBusFields,
          ServiceBusFields \ {"connection", "dataType"},
          [cardinality |-> cardinality, dataType |-> "binary"])

CosmosLease == {"leaseContainerName", "leaseDatabaseName", "leaseConnection",
    "createLeaseContainerIfNotExists", "leasesContainerThroughput", "leaseContainerPrefix",
    "leaseRenewInterval", "leaseAcquireInterval", "leaseExpirationInterval"}
CosmosOmitted == CosmosLease \cup {"feedPollDelay", "maxItemsPerInvocation",
    "startFromBeginning", "startFromTime", "preferredLocations"}
CosmosModel ==
    Model("cosmosDBTrigger", "docs",
          CosmosOmitted \cup {"databaseName", "containerName", "connection"},
          CosmosOmitted, NoFields)

HTTPModel ==
    Model("httpTrigger", "req", {"authLevel", "methods", "route"}, {"route"},
          [authLevel |-> "anonymous", methods |-> "GET,POST", route |-> "name"])
TimerModel == Model("timerTrigger", "timer", {"schedule"}, {}, NoFields)
SQLModel ==
    Model("sqlTrigger", "changes", {"tableName", "connectionStringSetting", "leasesTableName"},
          {"leasesTableName"}, NoFields)
EventGridModel == Model("eventGridTrigger", "event", {}, {}, NoFields)
QueueModel ==
    Model("queueTrigger", "message", {"queueName", "connection"}, {"queueName", "connection"},
          NoFields)
BlobModel ==
    Model("blobTrigger", "blob", {"path", "connection", "source"}, {"source"}, NoFields)

\* The binding of each registration method of App.
TypedModels ==
    [HTTP |-> HTTPModel, Timer |-> TimerModel, CosmosDB |-> CosmosModel, SQL |-> SQLModel,
     EventGrid |-> EventGridModel, Queue |-> QueueModel,
     EventHub |-> EventHubModel("one"), EventHubBatch |-> EventHubModel("many"),
     ServiceBusQueue |-> ServiceBusModel("one"), ServiceBusQueueBatch |-> ServiceBusModel("many"),
     ServiceBusTopic |-> ServiceBusModel("one"), ServiceBusTopicBatch |-> ServiceBusModel("many"),
     Blob |-> BlobModel]

\* The durable bindings carry no configuration of their own.
DurableModels ==
    [Orchestrator |-> Model("orchestrationTrigger", "context", {}, {}, NoFields),
     Activity |-> Model("activityTrigger", "input", {}, {}, NoFields)]

NoGeneric == [properties |-> NoFields, cardinality |-> "", dataType |-> "none"]

ToBinding(m) ==
    [name |-> m.name, type |-> m.type, direction |-> "in", cfg |-> m.cfg,
     omit |-> m.omit, generic |-> NoGeneric]

ReturnBinding == ToBinding(Model("http", "$return", {}, {}, NoFields))
HTTPOutput == [ReturnBinding EXCEPT !.direction = "out"]
DurableClientBinding ==
    ToBinding(Model("durableClient", "durableClient", {}, {}, NoFields))

\* GenericTrigger.ToBinding keeps the caller's property map.
GenericBinding(name, type, dataType, cardinality, properties) ==
    [ToBinding(Model(type, name, {}, {}, NoFields)) EXCEPT
        !.generic = [properties |-> properties, cardinality |-> cardinality,
                     dataType |-> dataType]]
IsGeneric(b) == b.generic.dataType # "none"

-----------------------------------------------------------------------------
(* sdk/options.go: an option writes a field of the trigger binding if the   *)
(* trigger's typed configuration has it, and does nothing otherwise.        *)

\* The fields an option writes, by its name; the lease and feed options of
\* CosmosDB are one option per field.
OptionFields(o) ==
    IF o.option = "WithConnection" THEN {"connection", "connectionStringSetting"}
    ELSE {o.field}

\* Durations are truncated to milliseconds, empty locations filtered out.
OptionValue(o) ==
    IF o.option = "WithDuration" /\ o.value = "less than 1ms" THEN ""
    ELSE IF o.option = "WithPreferredLocations" THEN
         (IF o.value \in {"", ","} THEN "" ELSE o.value)
    ELSE o.value

\* A panic here is raised before the field is written.
CardinalityPanics(o, b) ==
    /\ o.option = "WithCardinality"
    /\ "cardinality" \in DOMAIN b.cfg
    /\ \/ o.value \notin {"one", "many"}
       \/ b.cfg["cardinality"] \notin {"", o.value}

\* WithTable("") panics when the option is built, whatever the trigger.
TablePanics(o) == o.option = "WithTable" /\ o.value = ""

OptionPanics(o, b) == TablePanics(o) \/ CardinalityPanics(o, b)

WithOption(b, o) ==
    [b EXCEPT !.cfg = [f \in DOMAIN @ |->
        IF f \in OptionFields(o) THEN OptionValue(o) ELSE @[f]]]

-----------------------------------------------------------------------------
(* Binding.MarshalJSON and marshalGeneric: the object sent to the host.     *)

Reserved == {"name", "type", "direction", "dataType", "cardinality"}

\* Property names are compared without case; "DataType" stands for another
\* spelling of a reserved one, "Queue" for one of "queue".
Canonical(p) == IF p = "DataType" THEN "dataType" ELSE IF p = "Queue" THEN "queue" ELSE p

MarshalFails(b) ==
    /\ IsGeneric(b)
    /\ LET g == b.generic  P == DOMAIN g.properties IN
       \/ DOMAIN b.cfg # {}
       \/ g.dataType \notin {"", "string", "binary"}
       \/ g.cardinality \notin {"", "one", "many"}
       \/ \E p \in P : Canonical(p) \in Reserved \cup {""}
       \/ \E p, q \in P : p # q /\ Canonical(p) = Canonical(q)
       \/ \E p \in P : g.properties[p] = "unencodable"

Merge(f, g) == [x \in DOMAIN f \cup DOMAIN g |-> IF x \in DOMAIN g THEN g[x] ELSE f[x]]

\* Assignment to a key of a map.
Assigned(f, k, v) == [x \in DOMAIN f \cup {k} |-> IF x = k THEN v ELSE f[x]]

MarshalJSON(b) ==
    LET base == [name |-> b.name, type |-> b.type, direction |-> b.direction]
        kept == {f \in DOMAIN b.cfg : b.cfg[f] # "" \/ f \notin b.omit}
        described == {k \in {"dataType", "cardinality"} : b.generic[k] # ""}
    IN IF IsGeneric(b)
       THEN Merge(Merge(base, [k \in described |-> b.generic[k]]), b.generic.properties)
       ELSE Merge(base, [f \in kept |-> b.cfg[f]])
=============================================================================
