----------------------------- MODULE Conversion -----------------------------
(***************************************************************************)
(* worker/converter.go and worker/generic.go: how the TypedData of an       *)
(* invocation becomes the argument of the handler, and its result the       *)
(* TypedData of the response.                                               *)
(*                                                                         *)
(* A TypedData is the variant of its oneof and a content.  Of a content it  *)
(* matters what JSON makes of it: JsonKinds are the contents that are one   *)
(* JSON value of that kind, "text" is none, "two" is two of them, "" is     *)
(* empty.  A collection, a JSON array in metadata, and the method of an HTTP *)
(* request are in items.                                                    *)
(***************************************************************************)
EXTENDS PayloadTypes, SequencesExt

JsonKinds == {"object", "array", "quoted", "number", "true", "null"}
Scalars == {"string", "json", "bytes", "int", "double"}
Collections == {"strings", "byteses", "ints", "doubles"}
ElementOf == [strings |-> "string", byteses |-> "bytes", ints |-> "int", doubles |-> "double"]

Data(variant, content) == [variant |-> variant, content |-> content, items |-> <<>>]
Many(variant, items) == [variant |-> variant, content |-> "", items |-> items]
NoData == Data("nil", "")
Is(d, variant) == d.variant = variant
\* The getter of a oneof: "" when another variant is set.
Get(d, variant) == IF Is(d, variant) THEN d.content ELSE ""

Value(as, of) == [ok |-> TRUE, as |-> as, of |-> of]
Zero == Value("zero", "")
Fails == [ok |-> FALSE, as |-> "error", of |-> ""]

\* json.Unmarshal of a content into a Go kind.
JsonFits(content, kind) ==
    \/ content = "null"
    \/ content \in JsonKinds /\ kind = "interface"
    \/ content = "object" /\ kind \in {"struct", "map"}
    \/ content = "array" /\ kind \in {"slice", "array"}
    \/ content = "quoted" /\ kind = "string"
    \/ content = "number" /\ kind \in {"int", "int64", "float64", "number"}
    \/ content = "true" /\ kind = "bool"
Unmarshal(content, kind) ==
    IF ~JsonFits(content, kind) THEN Fails
    ELSE IF content = "null" THEN Zero ELSE Value("json", content)

Elements(d) ==
    IF d.variant \notin Collections THEN <<>>
    ELSE [i \in DOMAIN d.items |-> Data(ElementOf[d.variant], d.items[i])]

-----------------------------------------------------------------------------
(* The legacy triggers.                                                     *)

\* The request an HTTP function gets; a method that was not sent is GET, a
\* body of any other kind than text, bytes or JSON is empty (""), and a URL or
\* method that does not parse is an error.
RpcHttpToRequest(d) ==
    IF d.items = <<"malformed">> THEN Fails
    ELSE Value("request", [method |-> IF d.items = <<>> THEN "GET" ELSE d.items[1],
                           body |-> d.content])

Nonzero(d, variant) == Get(d, variant) \notin {"", "0"}

\* decodeProto: the natural variant for the kind first, then JSON, text and
\* bytes; what fits nothing is the zero value, without an error.  A bool is
\* settled by its natural variants alone.
Natural(d, kind) ==
    \/ kind \in {"string", "bytes", "bool"} /\ Get(d, "string") # ""
    \/ kind = "bytes" /\ Get(d, "bytes") # ""
    \/ kind \in {"int", "int64"} /\ Nonzero(d, "int")
    \/ kind = "float64" /\ Nonzero(d, "double")

decodeProto(d, kind) ==
    IF Natural(d, kind) THEN Value(kind, d.content)
    ELSE IF kind = "request" /\ Is(d, "http") THEN RpcHttpToRequest(d)
    ELSE IF kind = "bool" THEN Value("bool", IF Nonzero(d, "int") THEN "true" ELSE "false")
    ELSE IF Get(d, "json") # "" /\ kind # "bytes" THEN Unmarshal(d.content, kind)
    ELSE IF Get(d, "string") # "" /\ kind \in {"slice", "map"} THEN Unmarshal(d.content, kind)
    ELSE IF Get(d, "string") # "" /\ kind = "struct" /\ JsonFits(d.content, kind)
         THEN Unmarshal(d.content, kind)
    ELSE IF Is(d, "bytes") /\ kind \in {"string", "bytes"} THEN Value(kind, d.content)
    ELSE IF Get(d, "json") # "" THEN Value("bytes", d.content)
    ELSE Zero

\* A message struct: whether a field takes the body (azfunc:"data"), and the
\* kind of each field filled from the trigger metadata.
Message(body, fields) == [kind |-> "struct", body |-> body, fields |-> fields]
QueueLike == Message(TRUE, [id |-> "string", count |-> "int64"])
Plain == Message(FALSE, [id |-> "string"])
Target(kind) == [kind |-> kind, body |-> FALSE, fields |-> <<>>]
SliceOf(m) == [m EXCEPT !.kind = "slice of struct"]

\* What the argument of each typed handler is.
Targets ==
    [request |-> Target("request"), Timer |-> Plain, EventGrid |-> Plain, Queue |-> QueueLike,
     EventHub |-> QueueLike, EventHubBatch |-> SliceOf(QueueLike),
     ServiceBusQueue |-> QueueLike, ServiceBusQueueBatch |-> SliceOf(QueueLike),
     ServiceBusTopic |-> QueueLike, ServiceBusTopicBatch |-> SliceOf(QueueLike),
     CosmosDB |-> SliceOf(Plain), SQL |-> SliceOf(Plain),
     string |-> Target("string"), bytes |-> Target("bytes"), any |-> Target("interface"),
     client |-> Message(FALSE, <<>>)]

\* Trigger metadata is a TypedData by name; XArray carries the X of each
\* element of a batch, as a collection or as a JSON array.
ArrayName == [id |-> "idArray", count |-> "countArray"]
IsArrayOf(md, f) == f \in DOMAIN ArrayName /\ ArrayName[f] \in DOMAIN md
ArrayItems(d) ==
    IF d.variant \in Collections THEN Elements(d)
    ELSE IF Is(d, "json array") THEN [i \in DOMAIN d.items |-> Data("json", d.items[i])]
    ELSE <<>>

collectionMetadataAtClamped(md, i) ==   \* Mutant: past its end, an array's last item
    LET items(f) == ArrayItems(md[ArrayName[f]])
        fromArray == {f \in DOMAIN ArrayName : IsArrayOf(md, f) /\ items(f) # <<>>}
        scalar == DOMAIN md \cap DOMAIN ArrayName
    IN [f \in fromArray \cup scalar |->
           IF f \in fromArray THEN items(f)[IF i <= Len(items(f)) THEN i ELSE Len(items(f))]
           ELSE md[f]]

collectionMetadataAt(md, i) ==
    LET fromArray == {f \in DOMAIN ArrayName :
                         IsArrayOf(md, f) /\ i <= Len(ArrayItems(md[ArrayName[f]]))}
        scalar == DOMAIN md \cap DOMAIN ArrayName
    IN [f \in fromArray \cup scalar |->
           IF f \in fromArray THEN ArrayItems(md[ArrayName[f]])[i] ELSE md[f]]

\* One message: the whole struct from JSON unless the body has a field of its
\* own, else field by field, else like any other value.
convertMessage(m, d, md) ==
    LET whole == IF Get(d, "json") # "" THEN Get(d, "json") ELSE Get(d, "string")
        filled == DOMAIN m.fields \cap DOMAIN md
        field(f) == decodeProto(md[f], m.fields[f])
        body == decodeProto(d, "bytes")
    IN IF ~m.body /\ JsonFits(whole, "struct") THEN Unmarshal(whole, "struct")
       ELSE IF \E f \in filled : ~field(f).ok THEN Fails
       ELSE IF m.body \/ filled # {}
            THEN Value("message", [body |-> IF m.body THEN body ELSE Zero,
                                   fields |-> [f \in filled |-> field(f)]])
       ELSE decodeProto(d, "struct")

\* A batch keeps empty elements in place, each with the metadata of its index.
convertToTypeValue(m, d, md) ==
    LET decoded == [i \in DOMAIN Elements(d) |->
                       convertMessage(m, Elements(d)[i], collectionMetadataAt(md, i))]
    IN IF m.kind = "struct" THEN convertMessage(m, d, md)
       ELSE IF m.kind # "slice of struct" THEN decodeProto(d, m.kind)
       ELSE IF d.variant \notin Collections THEN decodeProto(d, "slice")
       ELSE IF \E i \in DOMAIN decoded : ~decoded[i].ok THEN Fails
       ELSE Value("batch", decoded)

-----------------------------------------------------------------------------
(* Generic triggers: raw or JSON, nothing in between.                       *)

IsNull(d) == d.variant \in {"string", "json", "bytes"} /\ d.content = "null"

\* A custom UnmarshalJSON takes any one JSON value.
decodeGenericJSON(b, content) ==
    IF Has(b, "unmarshal")
    THEN (IF content \in JsonKinds THEN Value("custom", content) ELSE Fails)
    ELSE Unmarshal(content, Kind(b))

decodeGenericScalar(t, d) ==
    LET b == Base(t) IN
    IF d.variant \notin Scalars THEN Fails
    ELSE IF IsRaw(b) THEN Value(Kind(b), d.content)
    ELSE IF IsNull(d) /\ Kind(t) = "ptr" THEN Value("nil", "")
    ELSE IF IsNull(d) /\ Kind(b) \notin {"map", "slice", "interface"} THEN Fails
    ELSE decodeGenericJSON(b, IF d.variant \in {"int", "double"} THEN "number" ELSE d.content)

\* genericCollectionJSON: raw elements can always be put in the one array that a
\* custom decoder of the slice gets, others if each is one JSON value.
genericCollectionJSON(element, d) ==
    \/ IsRaw(Base(element))
    \/ d.variant \in {"ints", "doubles"}
    \/ \A i \in DOMAIN d.items : d.items[i] \in JsonKinds

decodeGenericInput(t, d) ==
    LET b == Base(t)
        decoded == [i \in DOMAIN Elements(d) |-> decodeGenericScalar(Elem(b), Elements(d)[i])]
    IN IF d.variant \notin Collections THEN decodeGenericScalar(t, d)
       ELSE IF Kind(b) # "slice" THEN Fails
       ELSE IF Has(b, "unmarshal")
            THEN (IF genericCollectionJSON(Elem(b), d) THEN Value("custom", "array") ELSE Fails)
       ELSE IF \E i \in DOMAIN decoded : ~decoded[i].ok THEN Fails
       ELSE Value("batch", decoded)

\* What Metadata handlers see: only texts in the flat map; everything but
\* HTTP and other unsupported variants for generic triggers.
flattenTriggerMetadata(md) ==
    [f \in {g \in DOMAIN md : Get(md[g], "string") # ""} |-> md[f].content]
genericTriggerMetadata(md) ==
    [f \in {g \in DOMAIN md : md[g].variant \in Scalars \cup Collections} |-> md[f]]

-----------------------------------------------------------------------------
(* FromProto: the inputs of one request to the arguments they are bound to. *)

FromProtoMissing(inputs, fields, handler, md) ==   \* Mutant: a missing input is not noticed
    LET for(n) == {k \in DOMAIN inputs : inputs[k].name = n}
        bound == {n \in DOMAIN fields : n # "$return"}
        value(n, d) == IF fields[n].generic /\ d # NoData
                       THEN decodeGenericInput(handler.in[fields[n].position], d)
                       ELSE IF fields[n].generic THEN Zero
                       ELSE convertToTypeValue(Targets[handler.in[fields[n].position]], d, md)
        last(n) == CHOOSE k \in for(n) : \A j \in for(n) : j <= k
    IN IF \E n \in bound : \E k \in for(n) : ~value(n, inputs[k].data).ok THEN Fails
       ELSE Value("arguments",
                  [n \in bound |-> IF for(n) = {} THEN Zero
                                   ELSE value(n, inputs[last(n)].data)])

\* Missing and repeated inputs are errors for generic bindings only; a typed
\* argument without input keeps its zero value, a repeated one its last.
FromProto(inputs, fields, handler, md) ==
    LET for(n) == {k \in DOMAIN inputs : inputs[k].name = n}
        bound == {n \in DOMAIN fields : n # "$return"}
        type(n) == handler.in[fields[n].position]
        value(n, d) == IF fields[n].generic THEN
                           (IF d = NoData THEN Fails ELSE decodeGenericInput(type(n), d))
                       ELSE convertToTypeValue(Targets[type(n)], d, md)
        rejected(n) ==
            \/ fields[n].generic /\ Cardinality(for(n)) # 1
            \/ \E k \in for(n) : ~value(n, inputs[k].data).ok
        last(n) == CHOOSE k \in for(n) : \A j \in for(n) : j <= k
    IN IF \E n \in bound : rejected(n) THEN Fails
       ELSE Value("arguments",
                  [n \in bound |-> IF for(n) = {} THEN Zero
                                   ELSE value(n, inputs[last(n)].data)])

-----------------------------------------------------------------------------
(* The response.                                                            *)

\* encodeReturnValue of a value of type t: a nil pointer or interface sends
\* nothing, a marshaler comes before the raw forms, the rest is JSON.  A
\* value behind a pointer is addressable.
encodeReturnValue(t, content) ==
    LET b == Base(t)
        marshals == Marshals(b) \/ (Kind(t) = "ptr" /\ Has(b, "ptrMarshal"))
    IN IF content = "nil" THEN Value("none", "")
       ELSE IF ~marshals /\ IsText(b)
            THEN (IF content = "not UTF-8" THEN Fails ELSE Value("string", content))
       ELSE IF ~marshals /\ IsBytes(b) THEN Value("bytes", content)
       ELSE IF content \in {"not UTF-8", "unencodable"} THEN Fails
       ELSE Value("json", content)

\* ResponseWriterProxy keeps the last status set.
encodeHTTPResponse(writes) ==
    [status |-> IF writes = <<>> THEN "200" ELSE Last(writes), variant |-> "http"]
=============================================================================
