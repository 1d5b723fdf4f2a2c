--------------------------- MODULE HttpProxyProofs ---------------------------
(***************************************************************************)
(* Proofs about HttpProxy, for any number of invocations and requests and  *)
(* any assignment of correlation headers.                                  *)
(***************************************************************************)
EXTENDS HttpProxy, TLAPS

\* The invocation a goroutine, or the slot named after it, belongs to.
IdFor(g) == IF g \in Requests THEN IdOf[g] ELSE g

Live(g) == pc[g] \notin {"idle", "end"}

-----------------------------------------------------------------------------
(* The inductive invariant.                                                *)

\* Slots never cross invocations, and a goroutine at work holds one.
Keyed ==
    /\ \A i \in Invocations : pending[i] # NoSlot => IdFor(pending[i]) = i
    /\ \A g \in Goroutines : held[g] # NoSlot => IdFor(held[g]) = IdFor(g)
    /\ \A g \in Goroutines : Live(g) => held[g] # NoSlot /\ IdFor(g) \in Invocations

\* Where an HTTP goroutine is tells whether it has a status.
StatusFits ==
    \A r \in Requests :
        /\ pc[r] \in {"idle", "select", "handler"} => status[r] = "none"
        /\ pc[r] \in {"reply", "remove"} => status[r] \notin {"none", Lost}

\* A buffered arrival was put there by the gRPC goroutine that holds the
\* slot, and no handler has run for it yet: this is what makes the handler
\* run once.
ArrivalIsFresh ==
    \A s \in Slots : grpc[s] = "arrival" =>
        /\ IdFor(s) \in Invocations
        /\ pc[IdFor(s)] \in {"select2", "end"}
        /\ held[IdFor(s)] = s
        /\ \A r \in RequestsFor(IdFor(s)) : ~Ran(r)

\* A handler runs only after its invocation was offered.
RunsAfterOffer ==
    \A r \in Requests : Ran(r) =>
        IdOf[r] \in Invocations /\ pc[IdOf[r]] \in {"select2", "end"}

\* A verdict in transit is the status of a request of the slot's invocation.
TransitIsVerdict ==
    \A s \in Slots : done[s] \in Verdicts =>
        \E r \in RequestsFor(IdFor(s)) : status[r] = done[s]

IInv ==
    /\ TypeOK
    /\ Keyed
    /\ StatusFits
    /\ ArrivalIsFresh
    /\ RunsAfterOffer
    /\ HandlerRunsOnce
    /\ TransitIsVerdict
    /\ AnswerIsVerdict

-----------------------------------------------------------------------------
\* The initial state satisfies the invariant.
LEMMA InitIInv == Init => IInv
  <1> SUFFICES ASSUME Init PROVE IInv
    OBVIOUS
  <1> USE Identities DEF Init, Goroutines, Slots, Verdicts, Disconnected, Expired, Lost
  <1>1. TypeOK
    BY DEF TypeOK, HttpPcs, GrpcPcs
  <1>2. Keyed
    BY DEF Keyed, Live
  <1>3. StatusFits /\ RunsAfterOffer /\ HandlerRunsOnce
    BY DEF StatusFits, RunsAfterOffer, HandlerRunsOnce, Ran
  <1>4. ArrivalIsFresh /\ TransitIsVerdict /\ AnswerIsVerdict
    BY DEF ArrivalIsFresh, TransitIsVerdict, AnswerIsVerdict
  <1> QED
    BY <1>1, <1>2, <1>3, <1>4 DEF IInv

(* Lemmas about a state of the invariant.                                  *)

\* A goroutine at work holds a slot of its own invocation.
LEMMA HoldsSlot ==
    ASSUME TypeOK, Keyed, NEW g \in Goroutines, Live(g)
    PROVE  held[g] \in Slots /\ IdFor(held[g]) = IdFor(g)
  BY Identities DEF TypeOK, Keyed

\* The same for a gRPC goroutine.
LEMMA GrpcHoldsSlot ==
    ASSUME TypeOK, Keyed, NEW i \in Invocations, Live(i)
    PROVE  held[i] \in Slots /\ IdFor(held[i]) = i
  <1>1. i \in Goroutines /\ IdFor(i) = i
    BY Identities DEF Goroutines, IdFor
  <1> QED
    BY <1>1, HoldsSlot

\* The same for an HTTP goroutine.
LEMMA HttpHoldsSlot ==
    ASSUME TypeOK, Keyed, NEW r \in Requests, Live(r)
    PROVE  /\ held[r] \in Slots /\ IdFor(held[r]) = IdOf[r]
           /\ IdOf[r] \in Invocations
  <1>1. r \in Goroutines /\ IdFor(r) = IdOf[r]
    BY DEF Goroutines, IdFor
  <1> QED
    BY <1>1, HoldsSlot DEF Keyed

-----------------------------------------------------------------------------
(* Every step preserves each conjunct.                                     *)

\* Results are typed because a goroutine that replies has a status.
LEMMA StepTypeOK ==
    ASSUME TypeOK /\ Keyed /\ StatusFits, [Next]_vars PROVE TypeOK'
  <1> USE Identities DEF Goroutines, Slots, Goto, TypeOK, HttpPcs, GrpcPcs
  <1>1. ASSUME NEW r \in Requests, HttpArrive(r) PROVE TypeOK'
    BY <1>1 DEF HttpArrive, getOrCreatePending
  <1>2. ASSUME NEW r \in Requests, ClientDisconnects(r) PROVE TypeOK'
    BY <1>2 DEF ClientDisconnects
  <1>3. ASSUME NEW r \in Requests, HttpPaired(r) PROVE TypeOK'
    BY <1>3 DEF HttpPaired
  <1>4. ASSUME NEW r \in Requests, HttpAbandoned(r) PROVE TypeOK'
    BY <1>4 DEF HttpAbandoned
  <1>5. ASSUME NEW r \in Requests, HttpTimesOut(r) PROVE TypeOK'
    BY <1>5 DEF HttpTimesOut, deletePending
  <1>6. ASSUME NEW r \in Requests, NEW o \in Outcomes, HandlerEnds(r, o) PROVE TypeOK'
    BY <1>6 DEF HandlerEnds, statusFromInvocation, Verdicts
  <1>7. ASSUME NEW r \in Requests, HttpReplies(r) PROVE TypeOK'
    <2>1. held[r] \in Slots
      BY <1>7, HttpHoldsSlot DEF HttpReplies, Live
    <2>2. status[r] \in Verdicts \cup {Disconnected}
      BY <1>7 DEF HttpReplies, StatusFits
    <2> QED
      BY <1>7, <2>1, <2>2 DEF HttpReplies
  <1>8. ASSUME NEW r \in Requests, HttpRemoves(r) PROVE TypeOK'
    BY <1>8 DEF HttpRemoves, deletePending
  <1>9. ASSUME NEW i \in Invocations, GrpcArrive(i) PROVE TypeOK'
    BY <1>9 DEF GrpcArrive, getOrCreatePending
  <1>10. ASSUME NEW i \in Invocations, GrpcOffers(i) PROVE TypeOK'
    BY <1>10 DEF GrpcOffers
  <1>11. ASSUME NEW i \in Invocations, GrpcResult(i) PROVE TypeOK'
    <2>1. held[i] \in Slots
      BY <1>11, GrpcHoldsSlot DEF GrpcResult, Live
    <2> QED
      BY <1>11, <2>1 DEF GrpcResult
  <1>12. ASSUME NEW i \in Invocations, GrpcTimesOut(i) PROVE TypeOK'
    BY <1>12 DEF GrpcTimesOut, deletePending
  <1>13. ASSUME NEW r \in Requests, StatusPanics(r) PROVE TypeOK'
    BY <1>13 DEF StatusPanics
  <1>14. CASE UNCHANGED vars
    BY <1>14 DEF vars
  <1> QED
    BY ONLY [Next]_vars, <1>1, <1>2, <1>3, <1>4, <1>5, <1>6, <1>7, <1>8, <1>9, <1>10, <1>11, <1>12, <1>13, <1>14
       DEF Next, HttpSteps, GrpcSteps

\* getOrCreatePending keeps the slots of different invocations apart.
LEMMA StepKeyed ==
    ASSUME TypeOK /\ Keyed, [Next]_vars PROVE Keyed'
  <1> USE Identities DEF Goroutines, Slots, Goto, TypeOK, HttpPcs, GrpcPcs, Keyed, IdFor, Live
  <1>1. ASSUME NEW r \in Requests, HttpArrive(r) PROVE Keyed'
    BY <1>1 DEF HttpArrive, getOrCreatePending
  <1>2. ASSUME NEW r \in Requests, ClientDisconnects(r) PROVE Keyed'
    BY <1>2 DEF ClientDisconnects
  <1>3. ASSUME NEW r \in Requests, HttpPaired(r) PROVE Keyed'
    BY <1>3 DEF HttpPaired
  <1>4. ASSUME NEW r \in Requests, HttpAbandoned(r) PROVE Keyed'
    BY <1>4 DEF HttpAbandoned
  <1>5. ASSUME NEW r \in Requests, HttpTimesOut(r) PROVE Keyed'
    BY <1>5 DEF HttpTimesOut, deletePending
  <1>6. ASSUME NEW r \in Requests, NEW o \in Outcomes, HandlerEnds(r, o) PROVE Keyed'
    BY <1>6 DEF HandlerEnds, statusFromInvocation
  <1>7. ASSUME NEW r \in Requests, HttpReplies(r) PROVE Keyed'
    BY <1>7 DEF HttpReplies
  <1>8. ASSUME NEW r \in Requests, HttpRemoves(r) PROVE Keyed'
    BY <1>8 DEF HttpRemoves, deletePending
  <1>9. ASSUME NEW i \in Invocations, GrpcArrive(i) PROVE Keyed'
    BY <1>9 DEF GrpcArrive, getOrCreatePending
  <1>10. ASSUME NEW i \in Invocations, GrpcOffers(i) PROVE Keyed'
    BY <1>10 DEF GrpcOffers
  <1>11. ASSUME NEW i \in Invocations, GrpcResult(i) PROVE Keyed'
    BY <1>11 DEF GrpcResult
  <1>12. ASSUME NEW i \in Invocations, GrpcTimesOut(i) PROVE Keyed'
    BY <1>12 DEF GrpcTimesOut, deletePending
  <1>13. ASSUME NEW r \in Requests, StatusPanics(r) PROVE Keyed'
    BY <1>13 DEF StatusPanics
  <1>14. CASE UNCHANGED vars
    BY <1>14 DEF vars
  <1> QED
    BY ONLY [Next]_vars, <1>1, <1>2, <1>3, <1>4, <1>5, <1>6, <1>7, <1>8, <1>9, <1>10, <1>11, <1>12, <1>13, <1>14
       DEF Next, HttpSteps, GrpcSteps

\* A status is computed as the goroutine leaves its select or its handler.
LEMMA StepStatusFits ==
    ASSUME TypeOK /\ StatusFits, [Next]_vars PROVE StatusFits'
  <1> USE Identities DEF Goroutines, Slots, Goto, TypeOK, HttpPcs, GrpcPcs, StatusFits, Disconnected, Lost, Verdicts
  <1>1. ASSUME NEW r \in Requests, HttpArrive(r) PROVE StatusFits'
    BY <1>1 DEF HttpArrive, getOrCreatePending
  <1>2. ASSUME NEW r \in Requests, ClientDisconnects(r) PROVE StatusFits'
    BY <1>2 DEF ClientDisconnects
  <1>3. ASSUME NEW r \in Requests, HttpPaired(r) PROVE StatusFits'
    BY <1>3 DEF HttpPaired
  <1>4. ASSUME NEW r \in Requests, HttpAbandoned(r) PROVE StatusFits'
    BY <1>4 DEF HttpAbandoned
  <1>5. ASSUME NEW r \in Requests, HttpTimesOut(r) PROVE StatusFits'
    BY <1>5 DEF HttpTimesOut, deletePending
  <1>6. ASSUME NEW r \in Requests, NEW o \in Outcomes, HandlerEnds(r, o) PROVE StatusFits'
    BY <1>6 DEF HandlerEnds, statusFromInvocation
  <1>7. ASSUME NEW r \in Requests, HttpReplies(r) PROVE StatusFits'
    BY <1>7 DEF HttpReplies
  <1>8. ASSUME NEW r \in Requests, HttpRemoves(r) PROVE StatusFits'
    BY <1>8 DEF HttpRemoves, deletePending
  <1>9. ASSUME NEW i \in Invocations, GrpcArrive(i) PROVE StatusFits'
    BY <1>9 DEF GrpcArrive, getOrCreatePending
  <1>10. ASSUME NEW i \in Invocations, GrpcOffers(i) PROVE StatusFits'
    BY <1>10 DEF GrpcOffers
  <1>11. ASSUME NEW i \in Invocations, GrpcResult(i) PROVE StatusFits'
    BY <1>11 DEF GrpcResult
  <1>12. ASSUME NEW i \in Invocations, GrpcTimesOut(i) PROVE StatusFits'
    BY <1>12 DEF GrpcTimesOut, deletePending
  <1>13. ASSUME NEW r \in Requests, StatusPanics(r) PROVE StatusFits'
    BY <1>13 DEF StatusPanics
  <1>14. CASE UNCHANGED vars
    BY <1>14 DEF vars
  <1> QED
    BY ONLY [Next]_vars, <1>1, <1>2, <1>3, <1>4, <1>5, <1>6, <1>7, <1>8, <1>9, <1>10, <1>11, <1>12, <1>13, <1>14
       DEF Next, HttpSteps, GrpcSteps

\* An arrival is put once, by its gRPC goroutine, and is gone once a handler
\* has taken it.
LEMMA StepArrivalIsFresh ==
    ASSUME TypeOK /\ Keyed /\ StatusFits /\ ArrivalIsFresh /\ RunsAfterOffer, [Next]_vars PROVE ArrivalIsFresh'
  <1> USE Identities DEF Goroutines, Slots, Goto, TypeOK, HttpPcs, GrpcPcs, Keyed, IdFor, Live, StatusFits, ArrivalIsFresh, RunsAfterOffer, Ran, RequestsFor, Verdicts, Disconnected, Lost
  <1>1. ASSUME NEW r \in Requests, HttpArrive(r) PROVE ArrivalIsFresh'
    BY <1>1 DEF HttpArrive, getOrCreatePending
  <1>2. ASSUME NEW r \in Requests, ClientDisconnects(r) PROVE ArrivalIsFresh'
    BY <1>2 DEF ClientDisconnects
  <1>3. ASSUME NEW r \in Requests, HttpPaired(r) PROVE ArrivalIsFresh'
    BY <1>3 DEF HttpPaired
  <1>4. ASSUME NEW r \in Requests, HttpAbandoned(r) PROVE ArrivalIsFresh'
    BY <1>4 DEF HttpAbandoned
  <1>5. ASSUME NEW r \in Requests, HttpTimesOut(r) PROVE ArrivalIsFresh'
    BY <1>5 DEF HttpTimesOut, deletePending
  <1>6. ASSUME NEW r \in Requests, NEW o \in Outcomes, HandlerEnds(r, o) PROVE ArrivalIsFresh'
    BY <1>6 DEF HandlerEnds, statusFromInvocation
  <1>7. ASSUME NEW r \in Requests, HttpReplies(r) PROVE ArrivalIsFresh'
    BY <1>7 DEF HttpReplies
  <1>8. ASSUME NEW r \in Requests, HttpRemoves(r) PROVE ArrivalIsFresh'
    BY <1>8 DEF HttpRemoves, deletePending
  <1>9. ASSUME NEW i \in Invocations, GrpcArrive(i) PROVE ArrivalIsFresh'
    BY <1>9 DEF GrpcArrive, getOrCreatePending
  <1>10. ASSUME NEW i \in Invocations, GrpcOffers(i) PROVE ArrivalIsFresh'
    BY <1>10 DEF GrpcOffers
  <1>11. ASSUME NEW i \in Invocations, GrpcResult(i) PROVE ArrivalIsFresh'
    BY <1>11 DEF GrpcResult
  <1>12. ASSUME NEW i \in Invocations, GrpcTimesOut(i) PROVE ArrivalIsFresh'
    BY <1>12 DEF GrpcTimesOut, deletePending
  <1>13. ASSUME NEW r \in Requests, StatusPanics(r) PROVE ArrivalIsFresh'
    BY <1>13 DEF StatusPanics
  <1>14. CASE UNCHANGED vars
    BY <1>14 DEF vars
  <1> QED
    BY ONLY [Next]_vars, <1>1, <1>2, <1>3, <1>4, <1>5, <1>6, <1>7, <1>8, <1>9, <1>10, <1>11, <1>12, <1>13, <1>14
       DEF Next, HttpSteps, GrpcSteps

\* A handler starts by taking an arrival, and gRPC goroutines do not go back.
LEMMA StepRunsAfterOffer ==
    ASSUME TypeOK /\ Keyed /\ StatusFits /\ ArrivalIsFresh /\ RunsAfterOffer, [Next]_vars PROVE RunsAfterOffer'
  <1> USE Identities DEF Goroutines, Slots, Goto, TypeOK, HttpPcs, GrpcPcs, Keyed, IdFor, Live, StatusFits, ArrivalIsFresh, RunsAfterOffer, Ran, Verdicts, Disconnected, Lost
  <1>1. ASSUME NEW r \in Requests, HttpArrive(r) PROVE RunsAfterOffer'
    BY <1>1 DEF HttpArrive, getOrCreatePending
  <1>2. ASSUME NEW r \in Requests, ClientDisconnects(r) PROVE RunsAfterOffer'
    BY <1>2 DEF ClientDisconnects
  <1>3. ASSUME NEW r \in Requests, HttpPaired(r) PROVE RunsAfterOffer'
    BY <1>3 DEF HttpPaired
  <1>4. ASSUME NEW r \in Requests, HttpAbandoned(r) PROVE RunsAfterOffer'
    BY <1>4 DEF HttpAbandoned
  <1>5. ASSUME NEW r \in Requests, HttpTimesOut(r) PROVE RunsAfterOffer'
    BY <1>5 DEF HttpTimesOut, deletePending
  <1>6. ASSUME NEW r \in Requests, NEW o \in Outcomes, HandlerEnds(r, o) PROVE RunsAfterOffer'
    BY <1>6 DEF HandlerEnds, statusFromInvocation
  <1>7. ASSUME NEW r \in Requests, HttpReplies(r) PROVE RunsAfterOffer'
    BY <1>7 DEF HttpReplies
  <1>8. ASSUME NEW r \in Requests, HttpRemoves(r) PROVE RunsAfterOffer'
    BY <1>8 DEF HttpRemoves, deletePending
  <1>9. ASSUME NEW i \in Invocations, GrpcArrive(i) PROVE RunsAfterOffer'
    BY <1>9 DEF GrpcArrive, getOrCreatePending
  <1>10. ASSUME NEW i \in Invocations, GrpcOffers(i) PROVE RunsAfterOffer'
    BY <1>10 DEF GrpcOffers
  <1>11. ASSUME NEW i \in Invocations, GrpcResult(i) PROVE RunsAfterOffer'
    BY <1>11 DEF GrpcResult
  <1>12. ASSUME NEW i \in Invocations, GrpcTimesOut(i) PROVE RunsAfterOffer'
    BY <1>12 DEF GrpcTimesOut, deletePending
  <1>13. ASSUME NEW r \in Requests, StatusPanics(r) PROVE RunsAfterOffer'
    BY <1>13 DEF StatusPanics
  <1>14. CASE UNCHANGED vars
    BY <1>14 DEF vars
  <1> QED
    BY ONLY [Next]_vars, <1>1, <1>2, <1>3, <1>4, <1>5, <1>6, <1>7, <1>8, <1>9, <1>10, <1>11, <1>12, <1>13, <1>14
       DEF Next, HttpSteps, GrpcSteps

\* The handler that takes an arrival is the first of its invocation.
LEMMA StepHandlerRunsOnce ==
    ASSUME TypeOK /\ Keyed /\ StatusFits /\ ArrivalIsFresh /\ HandlerRunsOnce, [Next]_vars PROVE HandlerRunsOnce'
  <1> USE Identities DEF Goroutines, Slots, Goto, TypeOK, HttpPcs, GrpcPcs, Keyed, IdFor, Live, StatusFits, ArrivalIsFresh, HandlerRunsOnce, RequestsFor, Ran, Verdicts, Disconnected, Lost
  <1>1. ASSUME NEW r \in Requests, HttpArrive(r) PROVE HandlerRunsOnce'
    BY <1>1 DEF HttpArrive, getOrCreatePending
  <1>2. ASSUME NEW r \in Requests, ClientDisconnects(r) PROVE HandlerRunsOnce'
    BY <1>2 DEF ClientDisconnects
  <1>3. ASSUME NEW r \in Requests, HttpPaired(r) PROVE HandlerRunsOnce'
    BY <1>3 DEF HttpPaired
  <1>4. ASSUME NEW r \in Requests, HttpAbandoned(r) PROVE HandlerRunsOnce'
    BY <1>4 DEF HttpAbandoned
  <1>5. ASSUME NEW r \in Requests, HttpTimesOut(r) PROVE HandlerRunsOnce'
    BY <1>5 DEF HttpTimesOut, deletePending
  <1>6. ASSUME NEW r \in Requests, NEW o \in Outcomes, HandlerEnds(r, o) PROVE HandlerRunsOnce'
    BY <1>6 DEF HandlerEnds, statusFromInvocation
  <1>7. ASSUME NEW r \in Requests, HttpReplies(r) PROVE HandlerRunsOnce'
    BY <1>7 DEF HttpReplies
  <1>8. ASSUME NEW r \in Requests, HttpRemoves(r) PROVE HandlerRunsOnce'
    BY <1>8 DEF HttpRemoves, deletePending
  <1>9. ASSUME NEW i \in Invocations, GrpcArrive(i) PROVE HandlerRunsOnce'
    BY <1>9 DEF GrpcArrive, getOrCreatePending
  <1>10. ASSUME NEW i \in Invocations, GrpcOffers(i) PROVE HandlerRunsOnce'
    BY <1>10 DEF GrpcOffers
  <1>11. ASSUME NEW i \in Invocations, GrpcResult(i) PROVE HandlerRunsOnce'
    BY <1>11 DEF GrpcResult
  <1>12. ASSUME NEW i \in Invocations, GrpcTimesOut(i) PROVE HandlerRunsOnce'
    BY <1>12 DEF GrpcTimesOut, deletePending
  <1>13. ASSUME NEW r \in Requests, StatusPanics(r) PROVE HandlerRunsOnce'
    BY <1>13 DEF StatusPanics
  <1>14. CASE UNCHANGED vars
    BY <1>14 DEF vars
  <1> QED
    BY ONLY [Next]_vars, <1>1, <1>2, <1>3, <1>4, <1>5, <1>6, <1>7, <1>8, <1>9, <1>10, <1>11, <1>12, <1>13, <1>14
       DEF Next, HttpSteps, GrpcSteps

\* HttpReplies puts the status of its own request.
LEMMA StepTransitIsVerdict ==
    ASSUME TypeOK /\ Keyed /\ StatusFits /\ TransitIsVerdict, [Next]_vars PROVE TransitIsVerdict'
  <1> USE Identities DEF Goroutines, Slots, Goto, TypeOK, HttpPcs, GrpcPcs, Keyed, IdFor, Live, StatusFits, TransitIsVerdict, RequestsFor, Verdicts, Disconnected, Lost
  <1>1. ASSUME NEW r \in Requests, HttpArrive(r) PROVE TransitIsVerdict'
    BY <1>1 DEF HttpArrive, getOrCreatePending
  <1>2. ASSUME NEW r \in Requests, ClientDisconnects(r) PROVE TransitIsVerdict'
    BY <1>2 DEF ClientDisconnects
  <1>3. ASSUME NEW r \in Requests, HttpPaired(r) PROVE TransitIsVerdict'
    BY <1>3 DEF HttpPaired
  <1>4. ASSUME NEW r \in Requests, HttpAbandoned(r) PROVE TransitIsVerdict'
    BY <1>4 DEF HttpAbandoned
  <1>5. ASSUME NEW r \in Requests, HttpTimesOut(r) PROVE TransitIsVerdict'
    BY <1>5 DEF HttpTimesOut, deletePending
  <1>6. ASSUME NEW r \in Requests, NEW o \in Outcomes, HandlerEnds(r, o) PROVE TransitIsVerdict'
    BY <1>6 DEF HandlerEnds, statusFromInvocation
  <1>7. ASSUME NEW r \in Requests, HttpReplies(r) PROVE TransitIsVerdict'
    BY <1>7 DEF HttpReplies
  <1>8. ASSUME NEW r \in Requests, HttpRemoves(r) PROVE TransitIsVerdict'
    BY <1>8 DEF HttpRemoves, deletePending
  <1>9. ASSUME NEW i \in Invocations, GrpcArrive(i) PROVE TransitIsVerdict'
    BY <1>9 DEF GrpcArrive, getOrCreatePending
  <1>10. ASSUME NEW i \in Invocations, GrpcOffers(i) PROVE TransitIsVerdict'
    BY <1>10 DEF GrpcOffers
  <1>11. ASSUME NEW i \in Invocations, GrpcResult(i) PROVE TransitIsVerdict'
    BY <1>11 DEF GrpcResult
  <1>12. ASSUME NEW i \in Invocations, GrpcTimesOut(i) PROVE TransitIsVerdict'
    BY <1>12 DEF GrpcTimesOut, deletePending
  <1>13. ASSUME NEW r \in Requests, StatusPanics(r) PROVE TransitIsVerdict'
    BY <1>13 DEF StatusPanics
  <1>14. CASE UNCHANGED vars
    BY <1>14 DEF vars
  <1> QED
    BY ONLY [Next]_vars, <1>1, <1>2, <1>3, <1>4, <1>5, <1>6, <1>7, <1>8, <1>9, <1>10, <1>11, <1>12, <1>13, <1>14
       DEF Next, HttpSteps, GrpcSteps

\* GrpcResult hands on what is in its slot.
LEMMA StepAnswerIsVerdict ==
    ASSUME TypeOK /\ Keyed /\ StatusFits /\ TransitIsVerdict /\ AnswerIsVerdict, [Next]_vars PROVE AnswerIsVerdict'
  <1> USE DEF Goto, TypeOK, AnswerIsVerdict, StatusFits
  <1>1. ASSUME NEW r \in Requests, HttpArrive(r) PROVE AnswerIsVerdict'
    BY <1>1 DEF HttpArrive, getOrCreatePending
  <1>2. ASSUME NEW r \in Requests, ClientDisconnects(r) PROVE AnswerIsVerdict'
    BY <1>2 DEF ClientDisconnects
  <1>3. ASSUME NEW r \in Requests, HttpPaired(r) PROVE AnswerIsVerdict'
    BY <1>3 DEF HttpPaired
  <1>4. ASSUME NEW r \in Requests, HttpAbandoned(r) PROVE AnswerIsVerdict'
    BY <1>4 DEF HttpAbandoned, Verdicts, RequestsFor
  <1>5. ASSUME NEW r \in Requests, HttpTimesOut(r) PROVE AnswerIsVerdict'
    BY <1>5 DEF HttpTimesOut, deletePending
  <1>6. ASSUME NEW r \in Requests, NEW o \in Outcomes, HandlerEnds(r, o) PROVE AnswerIsVerdict'
    BY <1>6 DEF HandlerEnds, Verdicts, RequestsFor
  <1>7. ASSUME NEW r \in Requests, HttpReplies(r) PROVE AnswerIsVerdict'
    BY <1>7 DEF HttpReplies
  <1>8. ASSUME NEW r \in Requests, HttpRemoves(r) PROVE AnswerIsVerdict'
    BY <1>8 DEF HttpRemoves, deletePending
  <1>9. ASSUME NEW i \in Invocations, GrpcArrive(i) PROVE AnswerIsVerdict'
    BY <1>9 DEF GrpcArrive, getOrCreatePending
  <1>10. ASSUME NEW i \in Invocations, GrpcOffers(i) PROVE AnswerIsVerdict'
    BY <1>10 DEF GrpcOffers
  <1>11. ASSUME NEW i \in Invocations, GrpcResult(i) PROVE AnswerIsVerdict'
    <2>1. held[i] \in Slots /\ IdFor(held[i]) = i
      BY <1>11, GrpcHoldsSlot DEF GrpcResult, Live
    <2>2. done[held[i]] \in Verdicts =>
             \E q \in RequestsFor(i) : status[q] = done[held[i]]
      BY <2>1 DEF TransitIsVerdict
    <2> QED
      BY <1>11, <2>2 DEF GrpcResult
  <1>12. ASSUME NEW i \in Invocations, GrpcTimesOut(i) PROVE AnswerIsVerdict'
    BY <1>12 DEF GrpcTimesOut, Expired, Verdicts
  <1>13. ASSUME NEW r \in Requests, StatusPanics(r) PROVE AnswerIsVerdict'
    BY <1>13 DEF StatusPanics, Verdicts, RequestsFor
  <1>14. CASE UNCHANGED vars
    BY <1>14 DEF vars
  <1> QED
    BY ONLY [Next]_vars, <1>1, <1>2, <1>3, <1>4, <1>5, <1>6, <1>7, <1>8, <1>9, <1>10, <1>11, <1>12, <1>13, <1>14
       DEF Next, HttpSteps, GrpcSteps

\* The invariant is inductive.
LEMMA StepIInv == IInv /\ [Next]_vars => IInv'
  <1> SUFFICES ASSUME IInv, [Next]_vars PROVE IInv'
    OBVIOUS
  <1> QED
    BY StepTypeOK, StepKeyed, StepStatusFits, StepArrivalIsFresh,
       StepRunsAfterOffer, StepHandlerRunsOnce, StepTransitIsVerdict,
       StepAnswerIsVerdict
    DEF IInv

\* The invariant holds in every reachable state.
LEMMA Inductive == Spec => []IInv
  BY InitIInv, StepIInv, PTL DEF Spec

\* Type correctness of the rendezvous.
THEOREM TypeCorrect == Spec => []TypeOK
  <1>1. IInv => TypeOK
    BY DEF IInv
  <1> QED
    BY <1>1, Inductive, PTL

\* The host is told what the user's code produced, for any number of
\* invocations and however often a request is forwarded.
THEOREM AnswersAreVerdicts == Spec => []AnswerIsVerdict
  <1>1. IInv => AnswerIsVerdict
    BY DEF IInv
  <1> QED
    BY <1>1, Inductive, PTL

\* The user's handler runs at most once per invocation, however often the
\* HTTP request is forwarded.
THEOREM HandlersRunOnce == Spec => []HandlerRunsOnce
  <1>1. IInv => HandlerRunsOnce
    BY DEF IInv
  <1> QED
    BY <1>1, Inductive, PTL

\* No handler runs without its InvocationRequest.
THEOREM HandlersAreInvoked == Spec => []RunsOnlyIfInvoked
  <1>1. IInv => RunsOnlyIfInvoked
    BY DEF IInv, RunsAfterOffer, RunsOnlyIfInvoked
  <1> QED
    BY <1>1, Inductive, PTL

-----------------------------------------------------------------------------
(* The two sides of an invocation meet: what holds of the slots when the   *)
(* host keeps its contract and forwards the HTTP request of an invocation  *)
(* once.                                                                   *)

\* The goroutines that work for invocation i.
Party(i) == RequestsFor(i) \cup {i}

-----------------------------------------------------------------------------
(* The inductive invariant, on top of IInv.                                *)

\* A slot in use was allocated by a goroutine that has started.
Allocated ==
    /\ \A g \in Goroutines : held[g] # NoSlot => pc[held[g]] # "idle"
    /\ \A i \in Invocations : pending[i] # NoSlot => pc[pending[i]] # "idle"

\* Until one of them returns, all goroutines of an invocation hold the slot
\* that is in the map.
Joined ==
    \A i \in Invocations :
        ForwardedOnce(i) /\ (\A h \in Party(i) : pc[h] # "end")
        => \A g \in Party(i) : Live(g) => held[g] = pending[i]

\* A slot in the map has a goroutine at work, and is the slot of all that are.
Owned ==
    \A i \in Invocations :
        ForwardedOnce(i) /\ pending[i] # NoSlot
        => /\ \A g \in Party(i) : Live(g) => held[g] = pending[i]
           /\ \E g \in Party(i) : Live(g)

\* Once the HTTP side has returned, the slot it shared is out of the map,
\* unless it unwound.
LeftBehind ==
    \A i \in Invocations : \A r \in RequestsFor(i) :
        /\ ForwardedOnce(i) /\ pc[r] = "end" /\ status[r] # Lost
        /\ Live(i) /\ held[r] = held[i]
        => pending[i] = NoSlot

\* A result in a slot comes from an HTTP goroutine that is past its send.
ResultHasSender ==
    \A s \in Slots : done[s] # "empty" =>
        \E r \in Requests : /\ held[r] = s
                            /\ pc[r] \in {"remove", "end"}
                            /\ status[r] # Lost

\* A handler runs in the slot its arrival came from.
PairedInSlot ==
    \A r \in Requests : pc[r] = "handler" => held[r] = held[IdOf[r]]

\* While the HTTP side has not sent, the gRPC side of a slot in the map waits
\* for it: an HTTP goroutine that unwinds leaves the slot to it.
PeerWaits ==
    \A i \in Invocations : \A r \in RequestsFor(i) :
        /\ ForwardedOnce(i) /\ pending[i] # NoSlot
        /\ pc[r] \in {"select", "handler", "reply"} /\ held[r] = held[i]
        => pc[i] # "end"

SInv ==
    /\ Allocated
    /\ Joined
    /\ Owned
    /\ LeftBehind
    /\ ResultHasSender
    /\ PairedInSlot
    /\ PeerWaits

-----------------------------------------------------------------------------
(* The shapes of a step: a goroutine starts, goes on, or returns and takes  *)
(* the slot of its invocation out of the map.  Three steps are different:   *)
(* a request without a header only returns, notifyGRPCArrival returns with a*)
(* result while the HTTP side is left to remove the slot, and an HTTP       *)
(* goroutine that unwinds leaves it to the gRPC side.                       *)

Starts(g) ==
    /\ pc[g] = "idle"
    /\ IdFor(g) \in Invocations
    /\ getOrCreatePending(g, IdFor(g))
    /\ \E label \in {"select", "offer"} : Goto(g, label)
    /\ UNCHANGED status

GoesOn(g) ==
    /\ Live(g) /\ pc[g] # "remove"
    /\ \E label \in (HttpPcs \cup GrpcPcs) \ {"idle", "end"} : Goto(g, label)
    /\ UNCHANGED <<pending, held>>
    /\ \A r \in Requests : r # g => status'[r] = status[r]

Leaves(g) ==
    /\ Live(g)
    /\ IdFor(g) \in Invocations
    /\ deletePending(IdFor(g))
    /\ Goto(g, "end")
    /\ UNCHANGED <<held, status>>

Rejected(r) ==
    /\ r \in Requests /\ IdOf[r] = NoHeader
    /\ Goto(r, "end")
    /\ UNCHANGED <<pending, held, done, status>>

\* Every step has one of the shapes.
LEMMA Shapes ==
    ASSUME IInv, [Next]_vars
    PROVE  \/ \E g \in Goroutines : Starts(g) \/ GoesOn(g) \/ Leaves(g)
           \/ \E r \in Requests : Rejected(r)
           \/ \E i \in Invocations : GrpcResult(i)
           \/ \E r \in Requests : StatusPanics(r)
           \/ UNCHANGED <<pending, held, pc, done, status>>
  <1> USE Identities DEF Goroutines, IdFor, Goto
  <1>1. ASSUME NEW r \in Requests, HttpArrive(r) PROVE Starts(r) \/ Rejected(r)
    BY <1>1 DEF HttpArrive, Starts, Rejected
  <1>2. ASSUME NEW r \in Requests,
               HttpPaired(r) \/ HttpAbandoned(r) \/ HttpReplies(r)
               \/ (\E outcome \in Outcomes : HandlerEnds(r, outcome))
        PROVE  GoesOn(r)
    BY <1>2 DEF HttpPaired, HttpAbandoned, HttpReplies, HandlerEnds, GoesOn,
       Live, HttpPcs, IInv, TypeOK
  <1>3. ASSUME NEW r \in Requests, HttpTimesOut(r) \/ HttpRemoves(r)
        PROVE  Leaves(r)
    <2>1. Live(r)
      BY <1>3 DEF HttpTimesOut, HttpRemoves, Live
    <2>2. IdOf[r] \in Invocations
      BY <2>1, HttpHoldsSlot DEF IInv
    <2> QED
      BY <1>3, <2>1, <2>2 DEF HttpTimesOut, HttpRemoves, Leaves
  <1>4. ASSUME NEW i \in Invocations, GrpcArrive(i) PROVE Starts(i)
    BY <1>4 DEF GrpcArrive, Starts
  <1>5. ASSUME NEW i \in Invocations, GrpcOffers(i) PROVE GoesOn(i)
    BY <1>5 DEF GrpcOffers, GoesOn, Live, GrpcPcs
  <1>6. ASSUME NEW i \in Invocations, GrpcTimesOut(i) PROVE Leaves(i)
    BY <1>6 DEF GrpcTimesOut, Leaves, Live
  <1>7. ASSUME NEW r \in Requests, ClientDisconnects(r)
        PROVE  UNCHANGED <<pending, held, pc, done, status>>
    BY <1>7 DEF ClientDisconnects
  <1>8. CASE UNCHANGED vars
    BY <1>8 DEF vars
  <1> QED
    BY <1>1, <1>2, <1>3, <1>4, <1>5, <1>6, <1>7, <1>8
       DEF Next, HttpSteps, GrpcSteps

-----------------------------------------------------------------------------
(* Every step preserves each conjunct.                                     *)

\* Initially no slot is in use.
LEMMA InitSInv == Init => SInv
  BY Identities DEF Init, SInv, Allocated, Joined, Owned, LeftBehind,
     ResultHasSender, PairedInSlot, PeerWaits, Party, RequestsFor, Goroutines,
     Slots, Live

\* A goroutine never goes back to "idle", and allocates as it leaves it.
LEMMA StepAllocated ==
    ASSUME IInv, Allocated, [Next]_vars PROVE Allocated'
  <1> USE Identities DEF IInv, TypeOK, Goroutines, Slots, Goto, Allocated
  <1>1. ASSUME NEW g \in Goroutines, Starts(g) PROVE Allocated'
    BY <1>1 DEF Starts, getOrCreatePending
  <1>2. ASSUME NEW g \in Goroutines, GoesOn(g) PROVE Allocated'
    BY <1>2 DEF GoesOn
  <1>3. ASSUME NEW g \in Goroutines, Leaves(g) PROVE Allocated'
    BY <1>3 DEF Leaves, deletePending
  <1>4. ASSUME NEW r \in Requests, Rejected(r) PROVE Allocated'
    BY <1>4 DEF Rejected
  <1>5. ASSUME NEW i \in Invocations, GrpcResult(i) PROVE Allocated'
    BY <1>5 DEF GrpcResult
  <1>6. CASE UNCHANGED <<pending, held, pc, done, status>>
    BY <1>6
  <1>7. ASSUME NEW r \in Requests, StatusPanics(r) PROVE Allocated'
    BY <1>7 DEF StatusPanics
  <1> QED
    BY ONLY IInv, [Next]_vars, Shapes, <1>1, <1>2, <1>3, <1>4, <1>5, <1>6, <1>7

\* A goroutine that starts takes the slot in the map; without one, no other
\* goroutine of the invocation is at work.
LEMMA StepJoined ==
    ASSUME IInv, Joined, Owned, [Next]_vars PROVE Joined'
  <1> USE Identities DEF IInv, TypeOK, Goroutines, Slots, Goto, Joined, Live,
          Party, RequestsFor, IdFor
  <1>1. ASSUME NEW g \in Goroutines, Starts(g) PROVE Joined'
    BY <1>1 DEF Starts, getOrCreatePending, Owned, ForwardedOnce, Keyed
  <1>2. ASSUME NEW g \in Goroutines, GoesOn(g) PROVE Joined'
    BY <1>2 DEF GoesOn
  <1>3. ASSUME NEW g \in Goroutines, Leaves(g) PROVE Joined'
    BY <1>3 DEF Leaves, deletePending
  <1>4. ASSUME NEW r \in Requests, Rejected(r) PROVE Joined'
    BY <1>4 DEF Rejected
  <1>5. ASSUME NEW i \in Invocations, GrpcResult(i) PROVE Joined'
    BY <1>5 DEF GrpcResult
  <1>6. CASE UNCHANGED <<pending, held, pc, done, status>>
    BY <1>6
  <1>7. ASSUME NEW r \in Requests, StatusPanics(r) PROVE Joined'
    BY <1>7 DEF StatusPanics
  <1> QED
    BY ONLY IInv, [Next]_vars, Shapes, <1>1, <1>2, <1>3, <1>4, <1>5, <1>6, <1>7

\* notifyGRPCArrival returns with a result only while the HTTP side is still
\* to remove the slot, or has removed it.
LEMMA StepOwned ==
    ASSUME IInv, SInv, [Next]_vars PROVE Owned'
  <1> USE Identities DEF IInv, TypeOK, Goroutines, Slots, Goto, Owned, Live,
          Party, RequestsFor, IdFor
  <1>1. ASSUME NEW g \in Goroutines, Starts(g) PROVE Owned'
    BY <1>1 DEF Starts, getOrCreatePending, SInv, Joined, ForwardedOnce, Keyed
  <1>2. ASSUME NEW g \in Goroutines, GoesOn(g) PROVE Owned'
    BY <1>2 DEF GoesOn, SInv
  <1>3. ASSUME NEW g \in Goroutines, Leaves(g) PROVE Owned'
    BY <1>3 DEF Leaves, deletePending, SInv
  <1>4. ASSUME NEW r \in Requests, Rejected(r) PROVE Owned'
    BY <1>4 DEF Rejected, SInv
  <1>5. ASSUME NEW i \in Invocations, GrpcResult(i) PROVE Owned'
    <2>1. held[i] \in Slots /\ IdFor(held[i]) = i
      BY <1>5, GrpcHoldsSlot DEF GrpcResult
    <2>2. PICK r \in Requests :
             held[r] = held[i] /\ pc[r] \in {"remove", "end"} /\ status[r] # Lost
      BY <1>5, <2>1 DEF GrpcResult, SInv, ResultHasSender
    <2>3. r \in RequestsFor(i)
      BY <2>1, <2>2 DEF Keyed
    <2>4. ForwardedOnce(i) /\ pc[r] = "end" => pending[i] = NoSlot
      BY <1>5, <2>2, <2>3 DEF GrpcResult, SInv, LeftBehind
    <2> QED
      BY <1>5, <2>2, <2>3, <2>4 DEF GrpcResult, SInv
  <1>6. CASE UNCHANGED <<pending, held, pc, done, status>>
    BY <1>6 DEF SInv
  <1>7. ASSUME NEW r \in Requests, StatusPanics(r) PROVE Owned'
    <2>1. ASSUME NEW i \in Invocations, r \in RequestsFor(i), ForwardedOnce(i),
                 pending[i] # NoSlot
          PROVE  pc[i] = "select2"
      <3>1. pc[i] \in {"select2", "end"}
        BY <1>7, <2>1 DEF StatusPanics, RunsAfterOffer, Ran
      <3>2. pc[i] # "end"
        BY <1>7, <2>1 DEF StatusPanics, SInv, PairedInSlot, PeerWaits
      <3> QED
        BY <3>1, <3>2
    <2> QED
      BY <1>7, <2>1 DEF StatusPanics, SInv
  <1> QED
    BY ONLY IInv, [Next]_vars, Shapes, <1>1, <1>2, <1>3, <1>4, <1>5, <1>6, <1>7

\* A gRPC goroutine that starts after the HTTP side has returned allocates a
\* slot nobody holds.
LEMMA StepLeftBehind ==
    ASSUME IInv, SInv, [Next]_vars PROVE LeftBehind'
  <1> USE Identities DEF IInv, TypeOK, Goroutines, Slots, Goto, LeftBehind,
          Live, Party, RequestsFor, IdFor
  <1>1. ASSUME NEW g \in Goroutines, Starts(g) PROVE LeftBehind'
    <2> SUFFICES ASSUME NEW i \in Invocations, NEW r \in RequestsFor(i),
                        ForwardedOnce(i), pc'[r] = "end", status'[r] # Lost,
                        Live(i)', held'[r] = held'[i]
                 PROVE  pending'[i] = NoSlot
      BY DEF ForwardedOnce
    <2>1. r # g /\ pc[r] = "end" /\ held'[r] = held[r] /\ status[r] # Lost
      BY <1>1 DEF Starts, getOrCreatePending
    <2>2. CASE g = i
      <3>1. pending[i] = NoSlot
        BY <1>1, <2>1, <2>2 DEF Starts, SInv, Owned, ForwardedOnce
      <3>2. held'[i] = i /\ held[r] # i
        BY <1>1, <2>2, <3>1 DEF Starts, getOrCreatePending, SInv, Allocated
      <3> QED
        BY <2>1, <3>2
    <2>3. CASE g # i
      <3>1. IdFor(g) # i
        BY <1>1, <2>1, <2>3 DEF Starts, ForwardedOnce
      <3> QED
        BY <1>1, <2>1, <2>3, <3>1 DEF Starts, getOrCreatePending, SInv
    <2> QED
      BY <2>2, <2>3
  <1>2. ASSUME NEW g \in Goroutines, GoesOn(g) PROVE LeftBehind'
    BY <1>2 DEF GoesOn, SInv
  <1>3. ASSUME NEW g \in Goroutines, Leaves(g) PROVE LeftBehind'
    BY <1>3 DEF Leaves, deletePending, SInv
  <1>4. ASSUME NEW r \in Requests, Rejected(r) PROVE LeftBehind'
    BY <1>4 DEF Rejected, SInv
  <1>5. ASSUME NEW i \in Invocations, GrpcResult(i) PROVE LeftBehind'
    BY <1>5 DEF GrpcResult, SInv
  <1>6. CASE UNCHANGED <<pending, held, pc, done, status>>
    BY <1>6 DEF SInv
  <1>7. ASSUME NEW r \in Requests, StatusPanics(r) PROVE LeftBehind'
    BY <1>7 DEF StatusPanics, SInv
  <1> QED
    BY ONLY IInv, [Next]_vars, Shapes, <1>1, <1>2, <1>3, <1>4, <1>5, <1>6, <1>7

\* Only HttpReplies puts a result, and its goroutine keeps its slot.
LEMMA StepResultHasSender ==
    ASSUME IInv, ResultHasSender, [Next]_vars PROVE ResultHasSender'
  <1> USE Identities DEF IInv, TypeOK, Goroutines, Slots, Goto, ResultHasSender
  <1>1. ASSUME done' = done,
               \A r \in Requests : pc[r] \in {"remove", "end"} =>
                  /\ pc'[r] \in {"remove", "end"} /\ held'[r] = held[r]
                  /\ status'[r] = status[r]
        PROVE  ResultHasSender'
    BY <1>1
  <1>2. ASSUME NEW r \in Requests, HttpReplies(r) PROVE ResultHasSender'
    BY <1>2 DEF HttpReplies, StatusFits
  <1>3. ASSUME NEW i \in Invocations, GrpcResult(i) PROVE ResultHasSender'
    BY <1>3 DEF GrpcResult
  <1>4. ASSUME NEW r \in Requests,
               HttpArrive(r) \/ ClientDisconnects(r) \/ HttpPaired(r)
               \/ HttpAbandoned(r) \/ HttpTimesOut(r) \/ HttpRemoves(r)
               \/ (\E outcome \in Outcomes : HandlerEnds(r, outcome))
               \/ StatusPanics(r)
        PROVE  ResultHasSender'
    BY <1>1, <1>4 DEF HttpArrive, ClientDisconnects, HttpPaired, HttpAbandoned,
       HttpTimesOut, HttpRemoves, HandlerEnds, StatusPanics, getOrCreatePending
  <1>5. ASSUME NEW i \in Invocations,
               GrpcArrive(i) \/ GrpcOffers(i) \/ GrpcTimesOut(i)
        PROVE  ResultHasSender'
    BY <1>1, <1>5 DEF GrpcArrive, GrpcOffers, GrpcTimesOut, getOrCreatePending
  <1>6. CASE UNCHANGED vars
    BY <1>1, <1>6 DEF vars
  <1> QED
    BY ONLY [Next]_vars, <1>2, <1>3, <1>4, <1>5, <1>6
       DEF Next, HttpSteps, GrpcSteps

\* An arrival is in the slot of its gRPC goroutine, which keeps it.
LEMMA StepPairedInSlot ==
    ASSUME IInv, PairedInSlot, [Next]_vars PROVE PairedInSlot'
  <1> USE Identities DEF IInv, TypeOK, Goroutines, Slots, Goto, PairedInSlot
  <1>1. \A r \in Requests : pc[r] = "handler" =>
           IdOf[r] \in Invocations /\ pc[IdOf[r]] \in {"select2", "end"}
    BY DEF RunsAfterOffer, Ran
  <1>2. ASSUME held' = held,
               \A r \in Requests : pc'[r] = "handler" => pc[r] = "handler"
        PROVE  PairedInSlot'
    BY <1>2
  <1>3. ASSUME NEW r \in Requests, HttpPaired(r) PROVE PairedInSlot'
    <2>1. held[r] \in Slots /\ IdFor(held[r]) = IdOf[r] /\ IdOf[r] \in Invocations
      BY <1>3, HttpHoldsSlot DEF HttpPaired, Live
    <2>2. held[IdOf[r]] = held[r]
      BY <1>3, <2>1 DEF HttpPaired, ArrivalIsFresh
    <2> QED
      BY <1>3, <2>2 DEF HttpPaired
  <1>4. ASSUME NEW r \in Requests, HttpArrive(r) PROVE PairedInSlot'
    BY <1>1, <1>4 DEF HttpArrive, getOrCreatePending
  <1>5. ASSUME NEW r \in Requests,
               ClientDisconnects(r) \/ HttpAbandoned(r) \/ HttpTimesOut(r)
               \/ HttpReplies(r) \/ HttpRemoves(r) \/ StatusPanics(r)
               \/ (\E outcome \in Outcomes : HandlerEnds(r, outcome))
        PROVE  PairedInSlot'
    BY <1>2, <1>5 DEF ClientDisconnects, HttpAbandoned, HttpTimesOut, HttpReplies,
       HttpRemoves, StatusPanics, HandlerEnds
  <1>6. ASSUME NEW i \in Invocations, GrpcArrive(i) PROVE PairedInSlot'
    BY <1>1, <1>6 DEF GrpcArrive, getOrCreatePending
  <1>7. ASSUME NEW i \in Invocations, GrpcOffers(i) \/ GrpcResult(i) \/ GrpcTimesOut(i)
        PROVE  PairedInSlot'
    BY <1>2, <1>7 DEF GrpcOffers, GrpcResult, GrpcTimesOut
  <1>8. CASE UNCHANGED vars
    BY <1>2, <1>8 DEF vars
  <1> QED
    BY ONLY [Next]_vars, <1>3, <1>4, <1>5, <1>6, <1>7, <1>8
       DEF Next, HttpSteps, GrpcSteps

\* notifyGRPCArrival returns with a result that was sent, or takes the slot
\* out of the map.
LEMMA StepPeerWaits ==
    ASSUME IInv, SInv, [Next]_vars PROVE PeerWaits'
  <1> USE Identities DEF IInv, TypeOK, Goroutines, Slots, Goto, PeerWaits, Live,
          RequestsFor, IdFor
  <1>1. ASSUME NEW g \in Goroutines, Starts(g) PROVE PeerWaits'
    <2> SUFFICES ASSUME NEW i \in Invocations, NEW r \in RequestsFor(i),
                        ForwardedOnce(i), pending'[i] # NoSlot,
                        pc'[r] \in {"select", "handler", "reply"},
                        held'[r] = held'[i], pc'[i] = "end"
                 PROVE  FALSE
      BY DEF ForwardedOnce
    <2>1. g # i /\ pc[i] = "end" /\ held'[i] = held[i]
      BY <1>1 DEF Starts, getOrCreatePending
    <2>2. CASE g = r
      <3>1. pending[i] = NoSlot
        BY <1>1, <2>1, <2>2 DEF Starts, SInv, Owned, Party, ForwardedOnce
      <3>2. held'[r] = r /\ held[i] # r
        BY <1>1, <2>1, <2>2, <3>1 DEF Starts, getOrCreatePending, SInv, Allocated
      <3> QED
        BY <2>1, <3>2
    <2>3. CASE g # r
      <3>1. IdFor(g) # i
        BY <1>1, <2>1, <2>3 DEF Starts, ForwardedOnce
      <3> QED
        BY <1>1, <2>1, <2>3, <3>1 DEF Starts, getOrCreatePending, SInv
    <2> QED
      BY <2>2, <2>3
  <1>2. ASSUME NEW g \in Goroutines, GoesOn(g) PROVE PeerWaits'
    BY <1>2 DEF GoesOn, SInv, HttpPcs, GrpcPcs
  <1>3. ASSUME NEW g \in Goroutines, Leaves(g) PROVE PeerWaits'
    BY <1>3 DEF Leaves, deletePending, SInv
  <1>4. ASSUME NEW r \in Requests, Rejected(r) PROVE PeerWaits'
    BY <1>4 DEF Rejected, SInv
  <1>5. ASSUME NEW i \in Invocations, GrpcResult(i) PROVE PeerWaits'
    <2>1. held[i] \in Slots /\ IdFor(held[i]) = i
      BY <1>5, GrpcHoldsSlot DEF GrpcResult
    <2>2. PICK q \in Requests : held[q] = held[i] /\ pc[q] \in {"remove", "end"}
      BY <1>5, <2>1 DEF GrpcResult, SInv, ResultHasSender
    <2>3. q \in RequestsFor(i)
      BY <2>1, <2>2 DEF Keyed
    <2>4. ForwardedOnce(i) =>
             \A r \in RequestsFor(i) : pc[r] \notin {"select", "handler", "reply"}
      BY <2>2, <2>3 DEF ForwardedOnce
    <2> QED
      BY <1>5, <2>4 DEF GrpcResult, SInv, ForwardedOnce
  <1>6. CASE UNCHANGED <<pending, held, pc, done, status>>
    BY <1>6 DEF SInv
  <1>7. ASSUME NEW r \in Requests, StatusPanics(r) PROVE PeerWaits'
    BY <1>7 DEF StatusPanics, SInv
  <1> QED
    BY ONLY IInv, [Next]_vars, Shapes, <1>1, <1>2, <1>3, <1>4, <1>5, <1>6, <1>7

\* The slots keep their invariant.
LEMMA InductiveSlots == Spec => [](IInv /\ SInv)
  <1>1. IInv /\ SInv /\ [Next]_vars => SInv'
    BY StepAllocated, StepJoined, StepOwned, StepLeftBehind,
       StepResultHasSender, StepPairedInSlot, StepPeerWaits DEF SInv
  <1> QED
    BY <1>1, InitSInv, Inductive, PTL DEF Spec

-----------------------------------------------------------------------------
\* When both sides of an invocation wait, they wait in the same slot.
THEOREM SidesAlwaysMeet == Spec => []SidesMeet
  <1>1. IInv /\ SInv => SidesMeet
    <2> SUFFICES ASSUME IInv, SInv, NEW i \in Invocations,
                        NEW r \in RequestsFor(i), ForwardedOnce(i),
                        pc[i] \in {"offer", "select2"},
                        pc[r] \in {"select", "handler", "reply"}
                 PROVE  held[r] = held[i] /\ pending[i] = held[i]
      BY DEF SidesMeet
    <2>1. \A h \in Party(i) : h = i \/ h = r
      BY DEF Party, ForwardedOnce
    <2>2. Live(i) /\ Live(r)
      BY DEF Live
    <2> QED
      BY <2>1, <2>2 DEF SInv, Joined, Party, Live
  <1> QED
    BY <1>1, InductiveSlots, PTL

\* A buffer of one is enough: no send of the rendezvous ever blocks.
THEOREM NoSendBlocks == Spec => []SendsNeverBlock
  <1>1. IInv /\ SInv => SendsNeverBlock
    <2> SUFFICES ASSUME IInv, SInv, NEW i \in Invocations, ForwardedOnce(i)
                 PROVE  /\ pc[i] = "offer" => grpc[held[i]] = "empty"
                        /\ \A r \in RequestsFor(i) :
                              pc[r] = "reply" => done[held[r]] = "empty"
      BY DEF SendsNeverBlock
    <2>1. ASSUME pc[i] = "offer" PROVE grpc[held[i]] = "empty"
      <3>1. held[i] \in Slots /\ IdFor(held[i]) = i
        BY <2>1, GrpcHoldsSlot DEF IInv, Live
      <3> QED
        BY <2>1, <3>1 DEF IInv, TypeOK, ArrivalIsFresh
    <2>2. ASSUME NEW r \in RequestsFor(i), pc[r] = "reply"
          PROVE  done[held[r]] = "empty"
      <3>1. held[r] \in Slots /\ IdFor(held[r]) = i
        BY <2>2, HttpHoldsSlot DEF IInv, Live, RequestsFor
      <3>2. ASSUME NEW q \in Requests, held[q] = held[r],
                   pc[q] \in {"remove", "end"}
            PROVE  FALSE
        <4>1. IdOf[q] = i
          BY <3>1, <3>2, Identities DEF IInv, Keyed, IdFor, Goroutines, Slots
        <4> QED
          BY <2>2, <3>2, <4>1 DEF ForwardedOnce, RequestsFor
      <3> QED
        BY <3>1, <3>2 DEF SInv, ResultHasSender
    <2> QED
      BY <2>1, <2>2
  <1> QED
    BY <1>1, InductiveSlots, PTL

\* Nobody's slot is taken out of the map by a goroutine that does not hold it.
THEOREM RemovalsAreOwn == Spec => RemovesOwnSlot
  <1> DEFINE Removal(i) ==
        ForwardedOnce(i) /\ pending[i] # NoSlot /\ pending'[i] = NoSlot
        => \E g \in RequestsFor(i) \cup {i} :
              pc[g] # "end" /\ pc'[g] = "end" /\ held[g] = pending[i]
  <1>1. IInv /\ SInv /\ [Next]_vars => [\A i \in Invocations : Removal(i)]_vars
    <2> SUFFICES ASSUME IInv, SInv, [Next]_vars, NEW i \in Invocations,
                        ForwardedOnce(i), pending[i] # NoSlot,
                        pending'[i] = NoSlot
                 PROVE  \E g \in Party(i) :
                           pc[g] # "end" /\ pc'[g] = "end" /\ held[g] = pending[i]
      BY DEF Party
    <2>1. PICK g \in Goroutines : Leaves(g) /\ IdFor(g) = i
      BY Shapes, Identities
         DEF Starts, GoesOn, Leaves, Rejected, GrpcResult, StatusPanics,
             getOrCreatePending, deletePending, IInv, TypeOK, Goroutines, Slots
    <2>2. g \in Party(i)
      BY <2>1, Identities DEF Party, RequestsFor, IdFor, Goroutines
    <2>3. Live(g) /\ pc'[g] = "end"
      BY <2>1 DEF Leaves, Goto, IInv, TypeOK
    <2> QED
      BY <2>2, <2>3 DEF SInv, Owned, Live
  <1> QED
    BY <1>1, InductiveSlots, PTL DEF Spec, RemovesOwnSlot

-----------------------------------------------------------------------------
(* The steps of HttpProxy are steps of Invocation: the safety part of      *)
(* ImplementsInvocation.  That the answer comes at all rests on fairness and*)
(* is left to TLC.                                                         *)
-----------------------------------------------------------------------------
(* The verdict of an invocation.                                           *)

\* An invocation without a request that came to a verdict has none.
LEMMA NoVerdict ==
    ASSUME NEW i \in Invocations,
           \A r \in RequestsFor(i) : status[r] \notin Verdicts
    PROVE  VerdictOf(i) = "none"
  BY DEF VerdictOf, Verdicts

\* A handler runs once, so the verdict of one request is the invocation's.
LEMMA VerdictOfRequest ==
    ASSUME HandlerRunsOnce, NEW i \in Invocations, NEW r \in RequestsFor(i),
           status[r] \in Verdicts
    PROVE  VerdictOf(i) = status[r]
  <1>1. \A q \in RequestsFor(i) : status[q] \in Verdicts => q = r
    BY DEF HandlerRunsOnce, Ran, RequestsFor
  <1>2. CASE status[r] = "Success"
    BY <1>2 DEF VerdictOf
  <1>3. CASE status[r] = "Failure"
    <2>1. \A q \in RequestsFor(i) : status[q] # "Success"
      BY <1>1, <1>3 DEF Verdicts
    <2> QED
      BY <1>3, <2>1 DEF VerdictOf
  <1> QED
    BY <1>2, <1>3 DEF Verdicts

\* The verdict of an invocation depends on the statuses only.
LEMMA SameVerdict ==
    ASSUME NEW i \in Invocations, status' = status
    PROVE  VerdictOf(i)' = VerdictOf(i)
  BY DEF VerdictOf, RequestsFor

-----------------------------------------------------------------------------
(* Steps of HttpProxy as steps of Invocation.                              *)

\* What does not touch the gRPC goroutines, the verdicts and the answers is
\* not seen.
LEMMA Unseen ==
    ASSUME \A i \in Invocations : pc'[i] = pc[i],
           \A i \in Invocations : VerdictOf(i)' = VerdictOf(i),
           answer' = answer
    PROVE  UNCHANGED Promise!invocationVars
  <1>1. \A i \in Invocations : PhaseOf(i)' = PhaseOf(i)
    BY DEF PhaseOf
  <1> QED
    BY <1>1 DEF Promise!invocationVars

\* The steps of an HTTP goroutine, the end of the handler with a status excepted.
LEMMA HttpStepsUnseen ==
    ASSUME IInv, NEW r \in Requests,
           HttpArrive(r) \/ ClientDisconnects(r) \/ HttpSteps(r) \/ StatusPanics(r)
    PROVE  UNCHANGED Promise!invocationVars
  <1>1. \A i \in Invocations : pc'[i] = pc[i]
    BY Identities DEF IInv, TypeOK, Goroutines, HttpArrive, ClientDisconnects,
       HttpSteps, HttpPaired, HttpAbandoned, HttpTimesOut, HttpReplies,
       HttpRemoves, StatusPanics, Goto
  <1>2. answer' = answer
    BY DEF HttpArrive, ClientDisconnects, HttpSteps, HttpPaired, HttpAbandoned,
       HttpTimesOut, HttpReplies, HttpRemoves, StatusPanics
  <1>3. ASSUME NEW i \in Invocations PROVE VerdictOf(i)' = VerdictOf(i)
    <2>1. CASE status' = status
      BY <2>1, SameVerdict
    <2>2. CASE HttpAbandoned(r) \/ StatusPanics(r)
      <3>1. /\ \E v \in {Disconnected, Lost} : status' = [status EXCEPT ![r] = v]
            /\ status[r] = "none"
        BY <2>2 DEF HttpAbandoned, StatusPanics, IInv, StatusFits
      <3>2. \A v \in Verdicts :
               v \in {status'[q] : q \in RequestsFor(i)}
               <=> v \in {status[q] : q \in RequestsFor(i)}
        BY <3>1 DEF IInv, TypeOK, Verdicts, Disconnected, Lost, RequestsFor
      <3> QED
        BY <3>2 DEF VerdictOf, Verdicts, RequestsFor
    <2> QED
      BY <2>1, <2>2 DEF HttpArrive, ClientDisconnects, HttpSteps, HttpPaired,
         HttpTimesOut, HttpReplies, HttpRemoves
  <1> QED
    BY <1>1, <1>2, <1>3, Unseen

\* The end of the handler concludes its invocation.
LEMMA HandlerEndsConcludes ==
    ASSUME IInv, IInv', NEW r \in Requests, NEW outcome \in Outcomes,
           HandlerEnds(r, outcome)
    PROVE  \E i \in Invocations, v \in Verdicts : Promise!Conclude(i, v)
  <1> DEFINE i == IdOf[r]
             v == statusFromInvocation(outcome)
  <1>1. Ran(r) /\ status[r] = "none"
    BY DEF HandlerEnds, Ran, IInv, StatusFits
  <1>2. i \in Invocations /\ pc[i] \in {"select2", "end"} /\ r \in RequestsFor(i)
    BY <1>1 DEF IInv, RunsAfterOffer, RequestsFor
  <1>3. v \in Verdicts
    BY DEF statusFromInvocation, Verdicts
  <1>4. status' = [status EXCEPT ![r] = v] /\ answer' = answer
    BY DEF HandlerEnds
  <1>5. \A j \in Invocations : PhaseOf(j)' = PhaseOf(j)
    <2>1. \A j \in Invocations : pc'[j] = pc[j]
      BY Identities DEF HandlerEnds, Goto, IInv, TypeOK, Goroutines
    <2> QED
      BY <2>1 DEF PhaseOf
  <1>6. VerdictOf(i) = "none"
    <2>1. \A q \in RequestsFor(i) : status[q] \notin Verdicts
      BY <1>1 DEF IInv, HandlerRunsOnce, Ran, RequestsFor, Verdicts
    <2> QED
      BY <1>2, <2>1, NoVerdict
  <1>7. VerdictOf(i)' = v
    <2>1. status'[r] = v
      BY <1>4 DEF IInv, TypeOK
    <2>2. HandlerRunsOnce'
      BY DEF IInv
    <2>3. (VerdictOf(i) = status[r])'
      BY <1>2, <1>3, <2>1, <2>2
         DEF VerdictOf, Verdicts, RequestsFor, HandlerRunsOnce, Ran
    <2> QED
      BY <2>1, <2>3
  <1>8. \A j \in Invocations : j # i => VerdictOf(j)' = VerdictOf(j)
    BY <1>4 DEF VerdictOf, RequestsFor, IInv, TypeOK
  <1>9. PhaseOf(i) # "new"
    BY <1>2 DEF PhaseOf
  <1>10. Promise!Conclude(i, v)
    BY <1>2, <1>4, <1>5, <1>6, <1>7, <1>8, <1>9 DEF Promise!Conclude
  <1> QED
    BY <1>2, <1>3, <1>10

\* The steps of a gRPC goroutine: the trigger, the offer nobody sees, and
\* the answer, with a verdict or an excuse.
LEMMA GrpcStepsSeen ==
    ASSUME IInv, NEW i \in Invocations, GrpcArrive(i) \/ GrpcSteps(i)
    PROVE  \/ Promise!Trigger(i)
           \/ Promise!Answer(i)
           \/ UNCHANGED Promise!invocationVars
  <1> i \in Goroutines /\ pc \in [Goroutines -> HttpPcs \cup GrpcPcs]
    BY DEF Goroutines, IInv, TypeOK
  <1>1. status' = status
    BY DEF GrpcArrive, GrpcSteps, GrpcOffers, GrpcResult, GrpcTimesOut
  <1>2. \A j \in Invocations : VerdictOf(j)' = VerdictOf(j)
    BY <1>1, SameVerdict
  <1>3. CASE GrpcArrive(i)
    <2>1. [j \in Invocations |-> PhaseOf(j)]' =
             [[j \in Invocations |-> PhaseOf(j)] EXCEPT ![i] = "triggered"]
      BY <1>3 DEF GrpcArrive, Goto, PhaseOf, Goroutines
    <2>2. PhaseOf(i) = "new" /\ answer' = answer
      BY <1>3 DEF GrpcArrive, PhaseOf
    <2> QED
      BY <1>2, <2>1, <2>2 DEF Promise!Trigger
  <1>4. CASE GrpcOffers(i)
    <2>1. \A j \in Invocations : PhaseOf(j)' = PhaseOf(j)
      BY <1>4 DEF GrpcOffers, Goto, PhaseOf, Goroutines
    <2>2. answer' = answer
      BY <1>4 DEF GrpcOffers
    <2> QED
      BY <1>2, <2>1, <2>2 DEF Promise!invocationVars
  <1>5. ASSUME pc[i] = "select2", Goto(i, "end"),
               NEW a \in {Disconnected, Expired} \cup ({VerdictOf(i)} \ {"none"}),
               answer' = [answer EXCEPT ![i] = a]
        PROVE  Promise!Answer(i)
    <2>1. [j \in Invocations |-> PhaseOf(j)]' =
             [[j \in Invocations |-> PhaseOf(j)] EXCEPT ![i] = "answered"]
      BY <1>5 DEF Goto, PhaseOf, Goroutines
    <2>2. PhaseOf(i) = "triggered"
      BY <1>5 DEF PhaseOf
    <2> QED
      BY <1>2, <1>5, <2>1, <2>2 DEF Promise!Answer
  <1>6. CASE GrpcResult(i)
    <2> DEFINE a == done[held[i]]
    <2>1. held[i] \in Slots /\ IdFor(held[i]) = i
      BY <1>6, GrpcHoldsSlot DEF GrpcResult, Live, IInv
    <2>2. CASE a \in Verdicts
      <3>1. PICK r \in RequestsFor(i) : status[r] = a
        BY <2>1, <2>2 DEF IInv, TransitIsVerdict
      <3>2. VerdictOf(i) = a
        BY <2>2, <3>1, VerdictOfRequest DEF IInv
      <3> QED
        BY <1>5, <1>6, <2>2, <3>2 DEF GrpcResult, Verdicts
    <2>3. CASE a = Disconnected
      BY <1>5, <1>6, <2>3 DEF GrpcResult
    <2> QED
      BY <1>6, <2>1, <2>2, <2>3 DEF GrpcResult, IInv, TypeOK
  <1>7. CASE GrpcTimesOut(i)
    BY <1>5, <1>7 DEF GrpcTimesOut
  <1> QED
    BY <1>3, <1>4, <1>6, <1>7 DEF GrpcSteps

-----------------------------------------------------------------------------
\* An HTTP-triggered invocation is answered at most once, with the verdict of
\* its one handler run or with an excuse: every step of the two goroutines is
\* a step of the abstract invocation or is not seen there.
THEOREM RendezvousIsInvocation == Spec => Promise!InvocationSafety
  <1>1. Init => Promise!InvocationInit
    BY NoVerdict
       DEF Init, Promise!InvocationInit, PhaseOf, Verdicts, Goroutines, RequestsFor
  <1>2. IInv /\ IInv' /\ [Next]_vars
        => [Promise!InvocationNext]_(Promise!invocationVars)
    <2> SUFFICES ASSUME IInv, IInv', [Next]_vars
                 PROVE  [Promise!InvocationNext]_(Promise!invocationVars)
      OBVIOUS
    <2>1. ASSUME NEW r \in Requests,
                 HttpArrive(r) \/ ClientDisconnects(r) \/ HttpSteps(r) \/ StatusPanics(r)
          PROVE  UNCHANGED Promise!invocationVars
      BY <2>1, HttpStepsUnseen
    <2>2. ASSUME NEW r \in Requests, NEW outcome \in Outcomes,
                 HandlerEnds(r, outcome)
          PROVE  Promise!InvocationNext
      BY <2>2, HandlerEndsConcludes DEF Promise!InvocationNext
    <2>3. ASSUME NEW i \in Invocations, GrpcArrive(i) \/ GrpcSteps(i)
          PROVE  [Promise!InvocationNext]_(Promise!invocationVars)
      BY <2>3, GrpcStepsSeen DEF Promise!InvocationNext
    <2>4. CASE UNCHANGED vars
      <3>1. \A i \in Invocations : VerdictOf(i)' = VerdictOf(i)
        BY <2>4, SameVerdict DEF vars
      <3> QED
        BY <2>4, <3>1, Unseen DEF vars
    <2> QED
      BY <2>1, <2>2, <2>3, <2>4 DEF Next
  <1> QED
    BY <1>1, <1>2, Inductive, PTL DEF Spec, Promise!InvocationSafety
=============================================================================
