------------------------------ MODULE MCWorker ------------------------------
(* Instance of Worker for TLC. *)
EXTENDS Worker

CONSTANTS i1, i2

MCHooks == <<"plain", "collector">>
MCMiddleware == <<"exporter", "durable">>

\* Without a filter the record passes; of the two filters each rejects it by the
\* key that governs and would let it pass by another: the longer prefix, and the
\* first of the two catch-alls.
Function == <<"Function">>
UserF == <<"Function", "f", "User">>
MCCategoryMaps ==
    { [k \in {Function, <<"Function", "f">>} |-> IF k = Function THEN 1 ELSE 6],
      [k \in {WorkerKey, EmptyKey} |-> IF k = EmptyKey THEN 1 ELSE 4] }
MCRecordKinds == { <<UserF, 3>> }
=============================================================================
