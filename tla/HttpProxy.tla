------------------------------ MODULE HttpProxy ------------------------------
(***************************************************************************)
(* The rendezvous of worker/http_proxy.go.  For one HTTP-triggered         *)
(* invocation the host sends two things: an InvocationRequest on the gRPC  *)
(* stream and the HTTP request itself, forwarded to the worker's loopback  *)
(* server.  Two goroutines that may start in either order meet in a slot   *)
(* of the map `pending': the gRPC goroutine hands the function over on     *)
(* slot.grpc, the HTTP goroutine runs the user handler and hands the       *)
(* status back on slot.done.  Both channels hold one element.              *)
(*                                                                         *)
(* A slot is named after the goroutine that allocates it (each goroutine   *)
(* calls getOrCreatePending once), so pointer identity is equality here:   *)
(* a goroutine can go on holding a slot that left the map.                 *)
(*                                                                         *)
(* Time is abstracted to "a started timer may fire at any later step": the *)
(* 4-minute timers of the two sides start at unrelated instants.           *)
(***************************************************************************)
EXTENDS Naturals, FiniteSets

CONSTANTS
    Invocations,  \* invocation ids; the gRPC goroutine of i is called i
    Requests,     \* HTTP requests reaching the loopback server
    NoSlot,       \* the nil *pendingHTTPInvocation
    NoHeader,     \* a request without the x-ms-invocation-id header
    IdOf          \* the correlation header of each request

Goroutines == Invocations \cup Requests
Slots == Goroutines

ASSUME Identities ==
    /\ Invocations \cap Requests = {}
    /\ NoSlot \notin Slots
    /\ NoHeader \notin Invocations
    /\ IdOf \in [Requests -> Invocations \cup {NoHeader}]

\* The requests that carry invocation i.  The host forwards one; nothing in
\* the worker enforces it.
RequestsFor(i) == {r \in Requests : IdOf[r] = i}
ForwardedOnce(i) == \A r, q \in RequestsFor(i) : r = q

Outcomes == {"returned", "error", "panic"}      \* of a middleware chain
Verdicts == {"Success", "Failure"}              \* StatusResult of user code
Disconnected == "disconnected"                  \* Failure, no handler ran
Expired == "timed out"                          \* the error of the gRPC side
Lost == "lost"                                  \* a handler ran, to no status

VARIABLES
    pending,    \* httpProxy.pending: id -> slot in the map, or NoSlot
    held,       \* the local variable `pending' of each goroutine
    grpc,       \* contents of slot.grpc: the arrival, or nothing
    done,       \* contents of slot.done: a status, or nothing
    pc,         \* control state of each goroutine
    cancelled,  \* requests whose r.Context() is done
    status,     \* the status computed by an HTTP goroutine
    answer      \* what notifyGRPCArrival returned for an invocation

vars == <<pending, held, grpc, done, pc, cancelled, status, answer>>

\* "select" is the HTTP goroutine's three-way wait, "select2" the gRPC one.
HttpPcs == {"idle", "select", "handler", "reply", "remove", "end"}
GrpcPcs == {"idle", "offer", "select2", "end"}

TypeOK ==
    /\ pending \in [Invocations -> Slots \cup {NoSlot}]
    /\ held \in [Goroutines -> Slots \cup {NoSlot}]
    /\ grpc \in [Slots -> {"empty", "arrival"}]
    /\ done \in [Slots -> Verdicts \cup {Disconnected, "empty"}]
    /\ pc \in [Goroutines -> HttpPcs \cup GrpcPcs]
    /\ \A r \in Requests : pc[r] \in HttpPcs
    /\ \A i \in Invocations : pc[i] \in GrpcPcs
    /\ cancelled \in SUBSET Requests
    /\ status \in [Requests -> Verdicts \cup {Disconnected, Lost, "none"}]
    /\ answer \in [Invocations -> Verdicts \cup {Disconnected, Expired, "none"}]

Init ==
    /\ pending = [i \in Invocations |-> NoSlot]
    /\ held = [g \in Goroutines |-> NoSlot]
    /\ grpc = [s \in Slots |-> "empty"]
    /\ done = [s \in Slots |-> "empty"]
    /\ pc = [g \in Goroutines |-> "idle"]
    /\ cancelled = {}
    /\ status = [r \in Requests |-> "none"]
    /\ answer = [i \in Invocations |-> "none"]

-----------------------------------------------------------------------------
(* The two operations on the map, each one critical section of p.mu.       *)

\* Mutant: the lookup that should precede the allocation is missing.
getOrCreatePending_NoLookup(g, i) ==
    /\ pending' = [pending EXCEPT ![i] = g]
    /\ held' = [held EXCEPT ![g] = g]

\* Mutant: one slot for whoever comes, instead of one per invocation id.
getOrCreatePending_NotKeyed(g, i) ==
    LET used == {pending[j] : j \in Invocations} \ {NoSlot}
        s == IF used = {} THEN g ELSE CHOOSE t \in used : TRUE
    IN  /\ pending' = [pending EXCEPT ![i] = s]
        /\ held' = [held EXCEPT ![g] = s]

getOrCreatePending(g, i) ==
    LET s == IF pending[i] = NoSlot THEN g ELSE pending[i]
    IN  /\ pending' = [pending EXCEPT ![i] = s]
        /\ held' = [held EXCEPT ![g] = s]

\* Mutant: the whole map is reset.
deletePending_All(i) == pending' = [j \in Invocations |-> NoSlot]

deletePending(i) == pending' = [pending EXCEPT ![i] = NoSlot]

Goto(g, label) == pc' = [pc EXCEPT ![g] = label]

-----------------------------------------------------------------------------
(* httpProxy.handle, one goroutine per HTTP request.                       *)

\* The request arrives: 400 without the correlation header, else a slot.
HttpArrive(r) ==
    /\ pc[r] = "idle"
    /\ \/ /\ IdOf[r] = NoHeader
          /\ Goto(r, "end")
          /\ UNCHANGED <<pending, held>>
       \/ /\ IdOf[r] # NoHeader
          /\ getOrCreatePending(r, IdOf[r])
          /\ Goto(r, "select")
    /\ UNCHANGED <<grpc, done, cancelled, status, answer>>

\* The client goes away (or the host's reverse proxy gives up): r.Context()
\* is cancelled while the request is being served.
ClientDisconnects(r) ==
    /\ pc[r] \notin {"idle", "end"}
    /\ r \notin cancelled
    /\ cancelled' = cancelled \cup {r}
    /\ UNCHANGED <<pending, held, grpc, done, pc, status, answer>>

\* Mutant: a receive that does not wait for the gRPC side.
HttpPaired_NoWait(r) ==
    /\ pc[r] = "select"
    /\ grpc' = [grpc EXCEPT ![held[r]] = "empty"]
    /\ Goto(r, "handler")
    /\ UNCHANGED <<pending, held, done, cancelled, status, answer>>

\* Mutant: the arrival is looked at, not received.
HttpPaired_Peek(r) ==
    /\ pc[r] = "select"
    /\ grpc[held[r]] = "arrival"
    /\ Goto(r, "handler")
    /\ UNCHANGED <<pending, held, grpc, done, cancelled, status, answer>>

\* case arrival = <-pending.grpc: the user handler starts.
HttpPaired(r) ==
    /\ pc[r] = "select"
    /\ grpc[held[r]] = "arrival"
    /\ grpc' = [grpc EXCEPT ![held[r]] = "empty"]
    /\ Goto(r, "handler")
    /\ UNCHANGED <<pending, held, done, cancelled, status, answer>>

\* Mutant: an httpResult without a status.
HttpAbandoned_NilStatus(r) ==
    /\ pc[r] = "select"
    /\ r \in cancelled
    /\ Goto(r, "reply")
    /\ UNCHANGED <<pending, held, grpc, done, cancelled, status, answer>>

\* case <-r.Context().Done(): a Failure is to be pushed for the gRPC side.
HttpAbandoned(r) ==
    /\ pc[r] = "select"
    /\ r \in cancelled
    /\ status' = [status EXCEPT ![r] = Disconnected]
    /\ Goto(r, "reply")
    /\ UNCHANGED <<pending, held, grpc, done, cancelled, answer>>

\* Mutant: the slot stays in the map.
HttpTimesOut_KeepsSlot(r) ==
    /\ pc[r] = "select"
    /\ Goto(r, "end")
    /\ UNCHANGED <<pending, held, grpc, done, cancelled, status, answer>>

\* case <-timeout.C: the slot is dropped and the client gets a 504.
HttpTimesOut(r) ==
    /\ pc[r] = "select"
    /\ deletePending(IdOf[r])
    /\ Goto(r, "end")
    /\ UNCHANGED <<held, grpc, done, cancelled, status, answer>>

\* Panics and errors are both Failures; an HTTP handler itself returns none.
statusFromInvocation(outcome) ==
    IF outcome = "returned" THEN "Success" ELSE "Failure"

\* The middleware chain ends, whether or not the client is still there.
HandlerEnds(r, outcome) ==
    /\ pc[r] = "handler"
    /\ status' = [status EXCEPT ![r] = statusFromInvocation(outcome)]
    /\ Goto(r, "reply")
    /\ UNCHANGED <<pending, held, grpc, done, cancelled, answer>>

\* The chain ends with an error whose Error method panics: statusFromInvocation
\* calls it after the recover of runUserInvocation, so that the goroutine
\* unwinds to net/http without a send and with its slot in the map.
StatusPanics(r) ==
    /\ pc[r] = "handler"
    /\ status' = [status EXCEPT ![r] = Lost]
    /\ Goto(r, "end")
    /\ UNCHANGED <<pending, held, grpc, done, cancelled, answer>>

\* Mutant: slot.done is unbuffered, the send needs a receiver.
HttpReplies_Unbuffered(r) ==
    /\ pc[r] = "reply"
    /\ pc[IdOf[r]] = "select2" /\ held[IdOf[r]] = held[r]
    /\ done' = [done EXCEPT ![held[r]] = status[r]]
    /\ Goto(r, "remove")
    /\ UNCHANGED <<pending, held, grpc, cancelled, status, answer>>

\* pending.done <- httpResult{...}; blocks while the channel is full.
HttpReplies(r) ==
    /\ pc[r] = "reply"
    /\ done[held[r]] = "empty"
    /\ done' = [done EXCEPT ![held[r]] = status[r]]
    /\ Goto(r, "remove")
    /\ UNCHANGED <<pending, held, grpc, cancelled, status, answer>>

\* p.deletePending(invocationID), then handle returns.
HttpRemoves(r) ==
    /\ pc[r] = "remove"
    /\ deletePending(IdOf[r])
    /\ Goto(r, "end")
    /\ UNCHANGED <<held, grpc, done, cancelled, status, answer>>

-----------------------------------------------------------------------------
(* notifyGRPCArrival, on the dispatch goroutine of the InvocationRequest.  *)

GrpcArrive(i) ==
    /\ pc[i] = "idle"
    /\ getOrCreatePending(i, i)
    /\ Goto(i, "offer")
    /\ UNCHANGED <<grpc, done, cancelled, status, answer>>

\* pending.grpc <- grpcArrival{...}; blocks while the channel is full.
GrpcOffers(i) ==
    /\ pc[i] = "offer"
    /\ grpc[held[i]] = "empty"
    /\ grpc' = [grpc EXCEPT ![held[i]] = "arrival"]
    /\ Goto(i, "select2")
    /\ UNCHANGED <<pending, held, done, cancelled, status, answer>>

\* Mutant: the status of the result is ignored.
GrpcResult_AlwaysSuccess(i) ==
    /\ pc[i] = "select2"
    /\ done[held[i]] # "empty"
    /\ answer' = [answer EXCEPT ![i] = "Success"]
    /\ done' = [done EXCEPT ![held[i]] = "empty"]
    /\ Goto(i, "end")
    /\ UNCHANGED <<pending, held, grpc, cancelled, status>>

\* case result := <-pending.done
GrpcResult(i) ==
    /\ pc[i] = "select2"
    /\ done[held[i]] # "empty"
    /\ answer' = [answer EXCEPT ![i] = done[held[i]]]
    /\ done' = [done EXCEPT ![held[i]] = "empty"]
    /\ Goto(i, "end")
    /\ UNCHANGED <<pending, held, grpc, cancelled, status>>

\* Mutant: no timer on the gRPC side.
GrpcTimesOut_Never(i) == FALSE

\* Mutant: the slot stays in the map.
GrpcTimesOut_KeepsSlot(i) ==
    /\ pc[i] = "select2"
    /\ answer' = [answer EXCEPT ![i] = Expired]
    /\ Goto(i, "end")
    /\ UNCHANGED <<pending, held, grpc, done, cancelled, status>>

\* case <-timeout.C: the caller turns the error into a Failure response.
GrpcTimesOut(i) ==
    /\ pc[i] = "select2"
    /\ deletePending(i)
    /\ answer' = [answer EXCEPT ![i] = Expired]
    /\ Goto(i, "end")
    /\ UNCHANGED <<held, grpc, done, cancelled, status>>

-----------------------------------------------------------------------------
HttpSteps(r) ==
    \/ HttpPaired(r)
    \/ HttpAbandoned(r)
    \/ HttpTimesOut(r)
    \/ HttpReplies(r)
    \/ HttpRemoves(r)

GrpcSteps(i) ==
    \/ GrpcOffers(i)
    \/ GrpcResult(i)
    \/ GrpcTimesOut(i)

Next ==
    \/ \E r \in Requests :
          \/ HttpArrive(r)
          \/ ClientDisconnects(r)
          \/ HttpSteps(r)
          \/ \E outcome \in Outcomes : HandlerEnds(r, outcome)
          \/ StatusPanics(r)
    \/ \E i \in Invocations : GrpcArrive(i) \/ GrpcSteps(i)

\* Running goroutines and started timers make progress.  Nothing is assumed
\* of the environment: either arrival, a disconnect and the return of the
\* user's handler may never happen.
Fairness ==
    /\ \A r \in Requests : WF_vars(HttpSteps(r))
    /\ \A i \in Invocations : WF_vars(GrpcSteps(i))

Spec == Init /\ [][Next]_vars /\ Fairness

-----------------------------------------------------------------------------
(* Safety.                                                                 *)

\* The handler has been started for request r (it may have ended since).
Ran(r) == pc[r] = "handler" \/ status[r] \in Verdicts \cup {Lost}

\* The status the host is told is the one the user's code produced: an
\* answer Success or Failure is the verdict of a handler of that very
\* invocation, never of another one, and never made up.
AnswerIsVerdict ==
    \A i \in Invocations :
        answer[i] \in Verdicts => \E r \in RequestsFor(i) : status[r] = answer[i]

\* The user's handler runs at most once per InvocationRequest, however many
\* HTTP requests carry the id and whichever side gives up first.
HandlerRunsOnce ==
    \A r, q \in Requests :
        Ran(r) /\ Ran(q) /\ IdOf[r] = IdOf[q] => r = q

\* No handler runs for an invocation the host has not asked for on the gRPC
\* stream (getOrCreatePending keys the two sides by the same id).
RunsOnlyIfInvoked ==
    \A r \in Requests : Ran(r) => pc[IdOf[r]] \in {"select2", "end"}

\* When both sides of an invocation wait, they wait in the same slot, the
\* one in the map: neither can sit out its 4 minutes next to the other.
SidesMeet ==
    \A i \in Invocations : \A r \in RequestsFor(i) :
        /\ ForwardedOnce(i)
        /\ pc[i] \in {"offer", "select2"}
        /\ pc[r] \in {"select", "handler", "reply"}
        => held[r] = held[i] /\ pending[i] = held[i]

\* "Buffered channels of size 1 mean that whichever side arrives first never
\* blocks on the send": a goroutine about to send finds room.
SendsNeverBlock ==
    \A i \in Invocations : ForwardedOnce(i) =>
        /\ pc[i] = "offer" => grpc[held[i]] = "empty"
        /\ \A r \in RequestsFor(i) : pc[r] = "reply" => done[held[r]] = "empty"

\* A step takes a slot out of the map only on behalf of a goroutine that
\* holds it: nobody's rendezvous is removed under a waiting other side.
RemovesOwnSlot ==
    [][\A i \in Invocations :
          ForwardedOnce(i) /\ pending[i] # NoSlot /\ pending'[i] = NoSlot
          => \E g \in RequestsFor(i) \cup {i} :
                pc[g] # "end" /\ pc'[g] = "end" /\ held[g] = pending[i]]_vars

(* Liveness.                                                               *)

\* The map is emptied again, whatever the peer and the handler do.
SlotsReclaimed ==
    \A i \in Invocations :
        pending[i] # NoSlot ~> pending[i] = NoSlot

\* A goroutine whose handler has ended gets rid of its result and returns,
\* also when the gRPC side gave up long before.
HandlerGoroutinesEnd ==
    \A r \in Requests :
        ForwardedOnce(IdOf[r]) => (pc[r] = "reply" ~> pc[r] = "end")

-----------------------------------------------------------------------------
(* What the two goroutines achieve together.                               *)

PhaseOf(i) ==
    IF pc[i] = "idle" THEN "new"
    ELSE IF pc[i] = "end" THEN "answered" ELSE "triggered"

VerdictOf(i) ==
    LET verdicts == {status[r] : r \in RequestsFor(i)}
    IN  IF "Success" \in verdicts THEN "Success"
        ELSE IF "Failure" \in verdicts THEN "Failure" ELSE "none"

Promise == INSTANCE Invocation WITH
    Excuses <- {Disconnected, Expired},
    phase <- [i \in Invocations |-> PhaseOf(i)],
    verdict <- [i \in Invocations |-> VerdictOf(i)]

\* The rendezvous implements an invocation without slots, channels and
\* timers: once the function is handed over, notifyGRPCArrival returns, with
\* the one verdict its handler came to or with an excuse, even when the HTTP
\* request never comes or the handler never returns.
ImplementsInvocation == Promise!InvocationSpec

-----------------------------------------------------------------------------
(* Statements of the source's comments that the code does not live up to.  *)

\* http_proxy.go:261-265: after a disconnect "push a Failure status now to
\* unblock it immediately" if gRPC arrives later.  A trigger that arrives
\* after the abandoned request's goroutine has returned must not be left to
\* the 4-minute timeout.
DisconnectUnblocks ==
    \A i \in Invocations : \A r \in RequestsFor(i) :
        [](/\ status[r] = Disconnected
           /\ pc[r] = "end"
           /\ pc[i] = "idle"
           => [](answer[i] # Expired))

\* http_proxy.go:44-47: the timeout caps the join only, "the HTTP handler
\* itself can run as long as the underlying request stays open".  No trigger
\* is given up while its handler is running on an open request.
TimeoutCapsOnlyTheJoin ==
    [][\A i \in Invocations : \A r \in RequestsFor(i) :
          pc[r] = "handler" /\ r \notin cancelled /\ answer[i] = "none"
          => answer'[i] # Expired]_vars
=============================================================================
