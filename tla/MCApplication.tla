--------------------------- MODULE MCApplication ---------------------------
(* Small applications for TLC: the types, calls, requests and host.json      *)
(* files of nine scenarios.                                                  *)
EXTENDS Application

GoType(kind, elem, methods) ==
    [kind |-> kind, elem |-> elem, key |-> "text", fields |-> {}, methods |-> methods]
MCTypes ==
    [text |-> GoType("string", "", {}), raw |-> GoType("bytes", "", {}),
     number |-> GoType("int", "", {}), any |-> GoType("interface", "", {}),
     order |-> [GoType("struct", "", {}) EXCEPT !.fields = {"text"}],
     orderPtr |-> GoType("ptr", "order", {}), orders |-> GoType("slice", "orderPtr", {}),
     money |-> GoType("struct", "", {"marshal", "unmarshal"}),
     basket |-> GoType("slice", "order", {"unmarshal"}),
     channel |-> GoType("chan", "text", {}), loop |-> GoType("ptr", "loop", {}),
     badKey |-> [GoType("map", "text", {}) EXCEPT !.key = "order"]]

-----------------------------------------------------------------------------
Option(option, field, value) == [option |-> option, field |-> field, value |-> value]
Typed(id, method, name, opts) ==
    [id |-> id, call |-> "typed", method |-> method, name |-> name, opts |-> opts]
Trigger(name, cardinality, properties) ==
    [name |-> name, type |-> "customTrigger", dataType |-> "", cardinality |-> cardinality,
     properties |-> properties]
Generic(id, name, trigger, in, out) ==
    [id |-> id, call |-> "GenericTrigger", name |-> name, trigger |-> trigger,
     handler |-> Handler(<<"context", in>>, out), opts |-> <<>>]
Uses(middleware) == [id |-> middleware, call |-> "Use", middleware |-> middleware]

Hello == Typed("hello", "HTTP", "hello",
               <<Option("WithAuth", "authLevel", "function"), Option("ClientInput", "", "")>>)
Events == Typed("events", "EventHubBatch", "events",
                <<Option("WithConnection", "connection", "hub"),
                  Option("WithCardinality", "cardinality", "many"),
                  Option("WithConnection", "connection", "hub 2"),
                  Option("WithRetry", "retry", "fixed")>>)
Items == Generic("items", "items", Trigger("item", "many", Shared), "orders", <<"text", "error">>)
Item == Generic("item", "item", Trigger("item", "", Shared), "order", <<"orderPtr", "error">>)
Basket == Generic("basket", "basket", Trigger("item", "many", Shared), "basket", <<"error">>)
Unencodable ==
    [GenericBinding("item", "extra", "", "", [queue |-> "unencodable"]) EXCEPT !.type = "extra"]
Tick == Typed("tick", "Timer", "tick", <<[option |-> "Append", field |-> "", value |-> "", binding |-> Unencodable]>>)
Picture == [id |-> "picture", call |-> "Blob", name |-> "picture", opts |-> <<>>,
            handler |-> Handler(<<"context", "client">>, <<"error">>)]
BlobClients == [id |-> "factory", call |-> "RegisterClientFactory", name |-> "blobTrigger"]
Flow == [id |-> "flow", call |-> "Orchestrator", name |-> "flow"]
Act == [id |-> "act", call |-> "Activity", name |-> "act",
        handler |-> Handler(<<"context", "text">>, <<"text", "error">>)]

\* Each of these panics, at once or after another.
Panicking ==
    {Typed("one", "EventHub", "one", <<Option("WithCardinality", "cardinality", "many")>>),
     Typed("again", "HTTP", "hello", <<>>),
     Typed("table", "SQL", "table", <<Option("WithTable", "tableName", "")>>),
     Generic("channel", "channel", Trigger("item", "", Shared), "channel", <<"error">>),
     Generic("loop", "loop", Trigger("item", "", Shared), "loop", <<"error">>),
     Generic("key", "key", Trigger("item", "", Shared), "badKey", <<"error">>),
     Generic("scalar", "scalar", Trigger("item", "many", Shared), "order", <<"error">>),
     Generic("reserved", "reserved", Trigger("item", "", [DataType |-> "x"]), "order",
             <<"error">>),
     [BlobClients EXCEPT !.id = "factory again"],
     [Act EXCEPT !.id = "bad activity", !.handler = Handler(<<"text">>, <<"error">>)],
     [Picture EXCEPT !.id = "bad blob", !.handler = Handler(<<"context">>, <<"error">>)]}

MCAdvertises ==
    [durable |-> NoFields, nil |-> NoFields,
     plain |-> ("WorkerStatus" :> "false") @@ ("HttpUri" :> "mine"),
     otel |-> Capabilities([env |-> {}, tp |-> FALSE, exporters |-> TRUE, otlp |-> "absent",
                            global |-> "noop", lp |-> FALSE, logExporters |-> FALSE,
                            globalLP |-> "noop", flushable |-> FALSE, flusher |-> "unset"])
              @@ ("WorkerStatus" :> "otel"),
     off |-> NoFields]
MCOtelConfigs ==
    LET on == [env |-> {"WEBSITE_SITE_NAME"}, tp |-> FALSE, exporters |-> TRUE, otlp |-> "absent",
               global |-> "noop", lp |-> FALSE, logExporters |-> FALSE, globalLP |-> "noop",
               flushable |-> FALSE, flusher |-> "unset"]
    IN [otel |-> on, off |-> [on EXCEPT !.exporters = FALSE]]

-----------------------------------------------------------------------------
Script == [plain |-> "continues", paints |-> TRUE, sets |-> FALSE, end |-> "ok",
           value |-> [type |-> "", content |-> ""], writes |-> <<>>]
Returns(type, content) == [Script EXCEPT !.value = [type |-> type, content |-> content]]
Trace == [traceParent |-> "parent", baggage |-> {"member", "malformed"},
          attributes |-> [ProcessId |-> "number", HostInstanceId |-> "host"]]
Input(name, data) == [name |-> name, data |-> data]
Request(function, inputs, metadata, script) ==
    [function |-> function, inputs |-> inputs, metadata |-> metadata, trace |-> Trace,
     script |-> script]

Scripts ==
    {Returns("order", "object"), Returns("text", "not UTF-8"),
     [Script EXCEPT !.end = "error", !.sets = TRUE], [Script EXCEPT !.end = "panic"], [Script EXCEPT !.sets = TRUE]}
    \cup {[Script EXCEPT !.plain = p] : p \in {"replaces input", "answers", "panics"}}

ItemId == <<"item", "customTrigger">>
ItemData == {Data("json", "object"), Data("json", "null"), Data("json", "text"),
             Data("http", "object"), NoData}
ItemRequests ==
    {Request(ItemId, <<Input("item", Data("json", "object"))>>, NoFields, s) : s \in Scripts}
    \cup {Request(ItemId, ins, NoFields, Script) :
            ins \in {<<>>, <<Input("other", Data("json", "object"))>>}
                    \cup {<<Input("item", d)>> : d \in ItemData}
                    \cup {<<Input("item", d), Input("item", Data("json", "object"))>> :
                             d \in ItemData}}

Batch == Many("strings", <<"object", "null", "text">>)
ItemsRequests ==
    {Request(<<name, "customTrigger">>, <<Input("item", d)>>, NoFields, Script) :
        name \in {"items", "basket"},
        d \in {Many("strings", <<"object", "null">>), Batch, Data("json", "array"),
               Many("strings", <<>>)}}

EventIds == {[x \in {} |-> NoData],
             "idArray" :> Many("strings", <<"e1", "e2", "e3">>),
             "idArray" :> Many("strings", <<"e1", "e2">>),
             ("id" :> Data("string", "all")) @@ ("idArray" :> Many("json array", <<"quoted">>))}
EventRequests ==
    {Request(<<"events", "eventHubTrigger">>, <<Input("message", d)>>, md, Script) :
        d \in {Batch, Many("byteses", <<"text", "", "object">>)}, md \in EventIds}

Http == Data("http", "object")
HelloRequests ==
    {Request(<<"hello", "httpTrigger">>, <<Input("req", d)>>, NoFields, Script) :
        d \in {[Http EXCEPT !.items = <<"malformed">>], [Http EXCEPT !.items = <<"POST">>]}}
    \cup {Request(<<"hello", "httpTrigger">>,
             <<Input("req", Http), Input("durableClient", Data("json", client))>>, NoFields, s) :
        client \in {"object", "text"},
        s \in {[Script EXCEPT !.writes = <<"201", "202">>],
               [Script EXCEPT !.end = "error"]}}
PictureRequests ==
    {Request(<<"picture", "blobTrigger">>, ins, NoFields, Script) :
        ins \in {<<>>, <<Input("blob", Data("json", "object"))>>}}
TurnRequests ==
    {Request(<<"flow", "orchestrationTrigger">>, <<Input("context", Data("string", "turn"))>>,
             NoFields, [Script EXCEPT !.plain = p]) : p \in {"continues", "replaces input"}}

-----------------------------------------------------------------------------
Disk == [root |-> "set", open |-> "", stat |-> "", dir |-> TRUE, bom |-> "none",
         units |-> <<"{", "}">>, close |-> ""]
Holding(bom, units) == [Disk EXCEPT !.bom = bom, !.units = units]
Pair == <<"str", ":", "num">>
MCDisks ==
    {Disk, [Disk EXCEPT !.root = "unset"], [Disk EXCEPT !.close = "fails"]}
    \cup {[Disk EXCEPT !.open = o, !.stat = s, !.dir = FALSE] :
            o \in {"NotExist", "NotDir"}, s \in {"", "NotExist", "Permission"}}
    \cup {[Disk EXCEPT !.open = o] : o \in {"NotExist", "NotDir", "Permission", "other"}}
    \cup {Holding("none", u) : u \in
            {<<>>, <<"num">>, <<"[", "]">>, <<"{", "malformed">>, <<"{", "fault">>,
             <<"{", "//", "}", " ">>, <<"{", "open comment", "}">>,
             <<"{">> \o Pair \o <<",", " ", "}">>, <<"{">> \o Pair \o <<",", ",", "}">>,
             <<"{", ",", "}">>, <<"{">> \o Pair \o <<",">> \o Pair \o <<"}">>,
             <<"{", "str", ":", "[", "num", ",", "/**/", "]", ",", "}">>,
             <<"{", "str", ":", "[", "[", "]", "]", "}">>,
             <<"{", "str", ":", "astral", "}">>,
             <<"{">> \o Pair \o <<",">> \o Pair \o <<",">> \o Pair \o <<"}">>}}
    \cup {Holding("utf16le", u) : u \in
            {<<"{", "}">>, <<"{", "high", "low", "}">>, <<"{", "high", "}">>, <<"{", "cut">>}}

MCSize == [u \in {"{", "}", "[", "]", ",", ":", "num", " "} |-> 1]
          @@ [u \in {"str", "//", "/**/", "open comment", "astral"} |-> 4]

-----------------------------------------------------------------------------
Scenario(calls, requests) ==
    [calls |-> calls, requests |-> requests, disks |-> {Disk}, asks |-> {FALSE},
     mutates |-> FALSE]
MCScenarios ==
    [metadata |-> [Scenario({Items, Flow, Act, Uses("durable"), Events}, {})
                      EXCEPT !.mutates = TRUE],
     capabilities |-> Scenario({Hello, Uses("nil"), Uses("otel"), Uses("plain"),
                                Uses("durable")}, {}),
     panics |-> Scenario(Panicking \cup {Hello, BlobClients, Tick, Uses("durable")}, {}),
     configuration |-> [Scenario({}, {}) EXCEPT !.disks = MCDisks, !.asks = BOOLEAN],
     generic |-> Scenario({Item, Uses("otel"), Uses("plain"), Uses("off")}, ItemRequests),
     batch |-> Scenario({Items, Basket, Events, Uses("otel")}, ItemsRequests \cup EventRequests),
     http |-> Scenario({Hello, Uses("durable"), Uses("otel")}, HelloRequests),
     blob |-> Scenario({Picture, BlobClients}, PictureRequests),
     orchestration |-> Scenario({Flow, Uses("durable"), Uses("otel"), Uses("plain")},
                                TurnRequests)]

MCCalls == UNION {MCScenarios[s].calls : s \in DOMAIN MCScenarios}
MCTasks ==
    <<[kind |-> "activity", id |-> "", stage |-> 1], [kind |-> "child", id |-> "named", stage |-> 1],
      [kind |-> "child", id |-> "", stage |-> 2], [kind |-> "child", id |-> "", stage |-> 2]>>
=============================================================================
