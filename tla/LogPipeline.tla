----------------------------- MODULE LogPipeline -----------------------------
(***************************************************************************)
(* A user log record on its way through src/worker/log: the category filter *)
(* the host installs, the outbound sender, the stderr fallback when it       *)
(* refuses, and the observers.  A category is the sequence of its dotted    *)
(* parts, so a prefix up to a dot is a prefix of the sequence and the       *)
(* longer key is the longer sequence.                                       *)
(***************************************************************************)
EXTENDS Integers, Sequences, SequencesExt, FiniteSets

CONSTANTS
    Writers,        \* goroutines that each write one record
    CategoryMaps,   \* the log_categories maps a WorkerInitRequest may carry
    RecordKinds     \* the <<category, level>> pairs written

\* A key and a category are sequences of dotted parts, a level is a number.
ASSUME LogAssumption ==
    /\ \A cats \in CategoryMaps :
          DOMAIN cats \subseteq Seq(STRING) /\ \A k \in DOMAIN cats : cats[k] \in Int
    /\ \A rec \in RecordKinds : rec[1] \in Seq(STRING) /\ rec[2] \in Int

VARIABLES
    categories,     \* the installed map; the empty one means no filter
    stage,          \* per writer: "idle", "filtered", "sent" or "observed"
    record,         \* what it writes
    judgedBy,       \* history: the map its record was judged by
    sink            \* where the record went: "none", "dropped", "wire" or "stderr"

logVars == <<categories, stage, record, judgedBy, sink>>

Information == 2    \* RpcLog_Information
WorkerKey == <<"Worker">>
EmptyKey == <<>>
NoRecord == <<EmptyKey, Information>>
NoCategories == [k \in {} |-> Information]

LogInit ==
    /\ categories = NoCategories
    /\ stage = [w \in Writers |-> "idle"]
    /\ record = [w \in Writers |-> NoRecord]
    /\ judgedBy = [w \in Writers |-> NoCategories]
    /\ sink = [w \in Writers |-> "none"]

\* The keys matchCategoryThreshold looks for by prefix: the two catch-alls and
\* the category itself are not among them.
PrefixKeys(cats, category) ==
    {k \in DOMAIN cats \ {EmptyKey, WorkerKey, category} : IsPrefix(k, category)}

LongestPrefix(cats, category) ==
    CHOOSE k \in PrefixKeys(cats, category) :
        \A l \in PrefixKeys(cats, category) : Len(l) <= Len(k)

matchCategoryThreshold(cats, category) ==
    IF category \in DOMAIN cats THEN cats[category]
    ELSE IF PrefixKeys(cats, category) # {} THEN cats[LongestPrefix(cats, category)]
    ELSE IF WorkerKey \in DOMAIN cats THEN cats[WorkerKey]
    ELSE IF EmptyKey \in DOMAIN cats THEN cats[EmptyKey]
    ELSE Information

allowed(cats, rec) ==
    DOMAIN cats = {} \/ rec[2] >= matchCategoryThreshold(cats, rec[1])

\* WorkerInit replaces the map; a record judged earlier keeps its verdict.
SetCategories(c) ==
    /\ categories' = c
    /\ UNCHANGED <<stage, record, judgedBy, sink>>

Filter(w, rec) ==
    /\ stage[w] = "idle"
    /\ record' = [record EXCEPT ![w] = rec]
    /\ judgedBy' = [judgedBy EXCEPT ![w] = categories]
    /\ IF allowed(categories, rec)
         THEN stage' = [stage EXCEPT ![w] = "filtered"] /\ UNCHANGED sink
         ELSE /\ stage' = [stage EXCEPT ![w] = "sent"]
              /\ sink' = [sink EXCEPT ![w] = "dropped"]
    /\ UNCHANGED categories

\* Mutant: a refused record is not written to stderr.
EmitNoFallback(w, accepted) ==
    /\ stage[w] = "filtered"
    /\ stage' = [stage EXCEPT ![w] = "sent"]
    /\ sink' = [sink EXCEPT ![w] = IF accepted THEN "wire" ELSE "none"]
    /\ UNCHANGED <<categories, record, judgedBy>>

\* Write: the sender takes the record, or it goes to the stderr fallback.
Emit(w, accepted) ==
    /\ stage[w] = "filtered"
    /\ stage' = [stage EXCEPT ![w] = "sent"]
    /\ sink' = [sink EXCEPT ![w] = IF accepted THEN "wire" ELSE "stderr"]
    /\ UNCHANGED <<categories, record, judgedBy>>

\* The observers see every record, filtered or not, after the RpcLog.
Observe(w) ==
    /\ stage[w] = "sent"
    /\ stage' = [stage EXCEPT ![w] = "observed"]
    /\ UNCHANGED <<categories, record, judgedBy, sink>>

-----------------------------------------------------------------------------
\* The most specific key of a filter that applies to a category, as the
\* documentation of SetCategories and of matchCategoryThreshold words it: the
\* longest one, a catch-all last; "" is no catch-all for the category "".
Governs(cats, k, category) ==
    LET applies(l) == /\ l \in DOMAIN cats /\ IsPrefix(l, category)
                      /\ l = EmptyKey => category = EmptyKey
    IN  IF \E l \in DOMAIN cats : applies(l)
          THEN applies(k) /\ \A l \in DOMAIN cats : applies(l) => Len(l) <= Len(k)
          ELSE k = IF WorkerKey \in DOMAIN cats THEN WorkerKey ELSE EmptyKey

Rejects(cats, rec) ==
    /\ DOMAIN cats # {}
    /\ LET governing == {k \in DOMAIN cats : Governs(cats, k, rec[1])}
       IN  IF governing = {} THEN rec[2] < Information
           ELSE \E k \in governing : rec[2] < cats[k]

\* No record is lost between a filter that is swapped, a sender that is being
\* stopped and the fallback: those the filter in force at their judgement
\* rejects are dropped, and every other one has reached the wire or stderr
\* before an observer sees it (writer.go: Write, allowed, fallback).
RecordsAccounted ==
    \A w \in Writers :
        stage[w] \in {"sent", "observed"} =>
            IF Rejects(judgedBy[w], record[w])
              THEN sink[w] = "dropped"
              ELSE sink[w] \in {"wire", "stderr"}
=============================================================================
