---------------------------- MODULE PayloadTypes ----------------------------
(***************************************************************************)
(* Package internal/bindingtype: which Go types a generic trigger's payload *)
(* and result may have, and how they travel.  Types is a sample of Go       *)
(* types; each is its kind, the type it is built from (elem, key, fields),  *)
(* and the methods its values or pointers have: "marshal" and "ptrMarshal", *)
(* "unmarshal", "keyText" and "keyUnmarshal" for encoding.TextMarshaler.    *)
(***************************************************************************)
EXTENDS Naturals, FiniteSets

CONSTANT Types

TypeNames == DOMAIN Types
Kind(t) == Types[t].kind
Elem(t) == Types[t].elem
Has(t, m) == m \in Types[t].methods

\* json.Number is of kind "number", never text; a byte slice of kind "bytes".
IsText(t) == Kind(t) = "string"
IsBytes(t) == Kind(t) = "bytes"
IsRaw(t) == IsText(t) \/ IsBytes(t)
Marshals(t) == Has(t, "marshal")

\* All that Next leads to from t, in as many steps as there are types.
Reach(t, Next(_)) ==
    LET after[n \in 0..Cardinality(TypeNames)] ==
            IF n = 0 THEN {t}
            ELSE LET before == after[n - 1] IN before \cup UNION {Next(u) : u \in before}
    IN after[Cardinality(TypeNames)]

Pointee(t) == IF Kind(t) = "ptr" THEN {Elem(t)} ELSE {}

\* A pointer-only cycle such as "type P *P" has no base.
Bases(t) == {b \in Reach(t, Pointee) : Kind(b) # "ptr"}
HasBase(t) == Bases(t) # {}
Base(t) == CHOOSE b \in Bases(t) : TRUE

Containers == {"slice", "array", "map"}

\* What rejectPointerCycles visits: everything, whatever encoding/json ignores.
Parts(t) ==
    Pointee(t)
    \cup (IF Kind(t) \in Containers THEN {Elem(t)} ELSE {})
    \cup (IF Kind(t) = "map" THEN {Types[t].key} ELSE {})
    \cup Types[t].fields
HasPointerCycle(t) == \E u \in Reach(t, Parts) : ~HasBase(u)

\* A type with a codec of its own is not looked into.  A returned value is not
\* addressable, what it contains may be.
HasCodec(root, role, t) ==
    IF role = "payload" THEN Has(t, "unmarshal")
    ELSE Marshals(t) \/ (t # root /\ Has(t, "ptrMarshal"))
IsTextKey(role, k) ==
    Has(k, IF role = "payload" THEN "keyUnmarshal" ELSE "keyText")

\* validateShape: a struct is left to encoding/json.
ShapeRejects(root, role) ==
    LET Inside(t) ==
            IF Kind(t) = "ptr" THEN Pointee(t)
            ELSE IF Kind(t) \in Containers /\ ~HasCodec(root, role, t) THEN {Elem(t)}
            ELSE {}
        Rejects(b) ==
            \/ Kind(b) = "chan"
            \/ role = "payload" /\ Kind(b) = "interface" /\ Has(b, "methods")
            \/ /\ Kind(b) = "map"
               /\ Kind(Types[b].key) \notin {"string", "number", "int"}
               /\ ~IsTextKey(role, Types[b].key)
    IN \E t \in Reach(root, Inside) :
          \/ ~HasBase(t)
          \/ Kind(t) # "ptr" /\ ~HasCodec(root, role, t) /\ Rejects(t)

PayloadRejected(t) == HasPointerCycle(t) \/ ShapeRejects(t, "payload")

ResultRejected(t) == ShapeRejects(t, "result")
=============================================================================
