--------------------------- MODULE DispatcherProofs ---------------------------
(***************************************************************************)
(* Proofs about the dispatcher, for any number of messages, any registered *)
(* functions and any interleaving of their goroutines: a host that waits   *)
(* for the responses it depends on is never ahead of the worker, a Success *)
(* is earned, and an invocation is left without a response for one of two  *)
(* causes only.  They use of the outbound path and of the HTTP rendezvous  *)
(* no more than Outbound and Invocation promise.                           *)
(***************************************************************************)
EXTENDS Dispatcher, SequenceTheorems, TLAPS

USE DispatcherAssumption DEF Verdicts, Excuses

-----------------------------------------------------------------------------
(* The inductive invariant.                                                *)

\* What travels on the outbound path are messages of the host.
PathTypeOK ==
    /\ accepted \in Seq(Messages)
    /\ delivered \in Seq(Messages)
    /\ refused \subseteq Messages

\* The answer of the rendezvous is the handler's verdict or an excuse.
RendezvousTypeOK ==
    /\ phase \in [Messages -> {"new", "triggered", "answered"}]
    /\ verdict \in [Messages -> Verdicts \cup {"none"}]
    /\ answer \in [Messages -> Verdicts \cup Excuses \cup {"none"}]

\* A goroutine runs for a message the host has sent, has a result once it
\* has a response, and reaches the user's code only for an invocation of a
\* loaded function.
GoroutinesOK ==
    \A m \in Messages :
        /\ pc[m] # "waiting" => m \in Sent /\ m <= received
        /\ result[m] # "none" <=> pc[m] \in {"reply", "end"}
        /\ pc[m] \in {"factory", "run", "rendezvous"} =>
              Kind(m) = "invocation" /\ Func(m) \in loaded
        /\ pc[m] = "factory" => Style[Func(m)] = "client"

\* Before it has reached the rendezvous or the end of the user's code, a
\* goroutine has left no trace of either.
NothingEndedYet ==
    \A m \in Messages :
        /\ pc[m] \in {"waiting", "process", "factory", "run"} => phase[m] = "new"
        /\ pc[m] \in {"waiting", "process", "factory", "run", "rendezvous"} =>
              ended[m] = "none"

\* A successful response to init or load comes after what it promises.
EffectsFirst ==
    \A m \in Sent : result[m] = "Success" =>
        /\ Kind(m) = "init" => categories
        /\ Kind(m) = "load" => Func(m) \in loaded

DispatcherInv ==
    /\ TypeOK
    /\ PathTypeOK
    /\ RendezvousTypeOK
    /\ GoroutinesOK
    /\ NothingEndedYet
    /\ EffectsFirst
    /\ ControlPlaneOrdered
    /\ SuccessIsEarned
    /\ SilenceHasACause

\* Before the host has sent anything there is nothing to be wrong about.
LEMMA DispatcherInvInit == Init => DispatcherInv
<1> SUFFICES ASSUME Init PROVE DispatcherInv
    OBVIOUS
<1>1. Sent = {}
    BY DEF Init, Sent
<1>2. PathTypeOK /\ ToSet(accepted) = {}
    BY EmptySeq DEF Init, PathTypeOK, Out!OutboundInit, ToSet
<1>3. RendezvousTypeOK
    BY DEF Init, RendezvousTypeOK, Rdv!InvocationInit
<1>4. TypeOK
  <2>1. 0 \in 0..MaxMessages /\ refused = {}
      BY DEF Init, Out!OutboundInit
  <2> QED
      BY <1>1, <1>2, <2>1 DEF Init, TypeOK, Pcs
<1>5. GoroutinesOK /\ NothingEndedYet
    BY DEF Init, GoroutinesOK, NothingEndedYet, Rdv!InvocationInit
<1> QED
    BY <1>1, <1>2, <1>3, <1>4, <1>5
    DEF DispatcherInv, EffectsFirst, ControlPlaneOrdered, SuccessIsEarned,
        SilenceHasACause, Requests

-----------------------------------------------------------------------------
(* What the two abstract components keep.                                  *)

\* Every operation of the outbound path keeps its type.
LEMMA PathStaysTyped ==
    ASSUME PathTypeOK,
           \/ \E m \in Messages : Out!Accept(m) \/ Out!Refuse(m)
           \/ Out!Deliver \/ Out!Close \/ Out!BeginClose
           \/ UNCHANGED outVars
    PROVE  PathTypeOK'
<1>1. CASE Out!Deliver
  <2>1. Len(delivered) + 1 \in 1..Len(accepted)
      BY <1>1, LenProperties DEF Out!Deliver, Out!Behind, PathTypeOK
  <2>2. accepted[Len(delivered) + 1] \in Messages
      BY <2>1, ElementOfSeq DEF PathTypeOK
  <2> QED
      BY <1>1, <2>2, AppendProperties DEF Out!Deliver, PathTypeOK
<1>2. ASSUME NEW m \in Messages, Out!Accept(m) PROVE PathTypeOK'
    BY <1>2, AppendProperties DEF Out!Accept, PathTypeOK
<1>3. ASSUME NEW m \in Messages, Out!Refuse(m) PROVE PathTypeOK'
    BY <1>3 DEF Out!Refuse, PathTypeOK
<1> QED
    BY <1>1, <1>2, <1>3 DEF Out!Close, Out!BeginClose, outVars, PathTypeOK

\* The ranges of the two sequences, as TypeOK states them.
LEMMA PathElements ==
    ASSUME PathTypeOK
    PROVE  ToSet(accepted) \cup refused \subseteq Messages
           /\ \A k \in DOMAIN delivered : delivered[k] \in Messages
BY LenProperties, ElementOfSeq DEF PathTypeOK, ToSet

\* What the host has a successful response for, the worker has done.
LEMMA HostHasIsDone ==
    ASSUME DispatcherInv, NEW c \in Contents, HostHas(c)
    PROVE  /\ c.kind = "init" => categories
           /\ c.kind = "load" => c.func \in loaded
<1>1. PICK k \in DOMAIN delivered :
         content[delivered[k]] = c /\ result[delivered[k]] = "Success"
    BY DEF HostHas
<1>2. delivered[k] \in Messages
    BY PathElements DEF DispatcherInv
<1>3. c # NoContent
    BY DEF Contents, NoContent, Kinds
<1>4. delivered[k] \in Sent
    BY <1>1, <1>2, <1>3 DEF Sent
<1> QED
    BY <1>1, <1>4 DEF DispatcherInv, EffectsFirst, Kind, Func

-----------------------------------------------------------------------------
(* The host and the receive loop.                                          *)

\* The host sends what its earlier responses allow.
LEMMA HostSendsKeepsInv ==
    ASSUME DispatcherInv, NEW c \in Contents, HostSends(c)
    PROVE  DispatcherInv'
<1> USE DEF DispatcherInv
<1>1. PICK m \in Messages \ Sent :
         /\ content' = [content EXCEPT ![m] = c]
         /\ early' = IF c.kind = "invocation" /\ ~HostHas([kind |-> "load", func |-> c.func])
                     THEN early \cup {m} ELSE early
    BY DEF HostSends
<1>2. UNCHANGED <<received, recvPc, pc, workerVars, result, ended, outVars, rdvVars>>
    BY DEF HostSends
<1>3. content' \in [Messages -> Contents \cup {NoContent}] /\ content'[m] = c
      /\ \A n \in Messages : n # m => content'[n] = content[n]
    BY <1>1 DEF TypeOK
<1>4. c # NoContent
    BY DEF Contents, NoContent, Kinds
<1>5. Sent' = Sent \cup {m} /\ m \notin Sent
    BY <1>1, <1>3, <1>4 DEF Sent
<1>6. early' \subseteq Sent' /\ early \subseteq early'
    BY <1>1, <1>5 DEF TypeOK
<1>7. TypeOK'
    BY <1>2, <1>3, <1>6 DEF TypeOK, workerVars, outVars
<1>8. pc[m] = "waiting" /\ result[m] = "none"
    BY <1>5 DEF GoroutinesOK, TypeOK
<1>9. \A n \in Sent : n # m /\ Kind(n)' = Kind(n) /\ Func(n)' = Func(n)
    BY <1>3, <1>5 DEF Sent, Kind, Func
<1>10. PathTypeOK' /\ RendezvousTypeOK'
    BY <1>2 DEF PathTypeOK, RendezvousTypeOK, outVars, rdvVars
<1>11. GoroutinesOK' /\ NothingEndedYet'
    BY <1>2, <1>5, <1>8, <1>9 DEF GoroutinesOK, NothingEndedYet, workerVars, rdvVars
<1>12. EffectsFirst'
    BY <1>2, <1>5, <1>8, <1>9 DEF EffectsFirst, workerVars
<1>13. ControlPlaneOrdered'
  <2>1. Kind(m)' = c.kind /\ Func(m)' = c.func
      BY <1>3 DEF Kind, Func
  <2>2. ASSUME c.kind \in {"load", "invocation"} PROVE categories
    <3>1. HostHas([kind |-> "init"])
        BY <2>2 DEF HostSends, InOrder
    <3>2. [kind |-> "init"] \in Contents
        BY DEF Contents, Kinds
    <3> QED
        BY <3>1, <3>2, HostHasIsDone
  <2>3. ASSUME c.kind = "invocation", m \notin early' PROVE c.func \in loaded
    <3>1. HostHas([kind |-> "load", func |-> c.func])
        BY <1>1, <2>3
    <3>2. [kind |-> "load", func |-> c.func] \in Contents
        BY <2>3 DEF Contents, Kinds
    <3> QED
        BY <3>1, <3>2, HostHasIsDone
  <2> QED
      BY <1>2, <1>5, <1>6, <1>9, <2>1, <2>2, <2>3 DEF ControlPlaneOrdered, workerVars
<1>14. SuccessIsEarned'
    BY <1>2, <1>5, <1>8, <1>9 DEF SuccessIsEarned, Requests, rdvVars
<1>15. SilenceHasACause'
    BY <1>2, <1>5, <1>6, <1>8, <1>9 DEF SilenceHasACause, Requests, rdvVars
<1> QED
    BY <1>7, <1>10, <1>11, <1>12, <1>13, <1>14, <1>15

-----------------------------------------------------------------------------
(* The goroutines.                                                         *)

\* The goroutine of m goes to p and has the result r there.
Goes(m, p, r) ==
    /\ pc' = [pc EXCEPT ![m] = p]
    /\ result' = [result EXCEPT ![m] = r]

\* What a step of the goroutine of m has to respect: p and r are where it
\* goes and the result it has there.  Nobody's load is undone, no other
\* goroutine is touched, and a result is given only for a reason.
LEMMA GoroutineKeepsInv ==
    ASSUME DispatcherInv,
           NEW m \in Messages, m \in Sent, NEW p \in Pcs, NEW r \in Verdicts \cup {"none"},
           Goes(m, p, r),
           UNCHANGED <<content, early>>,
           received' \in 0..MaxMessages, received <= received', m <= received',
           recvPc' \in {"recv", "ended"},
           ended' \in [Messages -> Outcomes \cup {"none"}],
           \A n \in Messages : n # m => ended'[n] = ended[n],
           categories' \in BOOLEAN, categories => categories',
           loaded' \subseteq Registered, loaded \subseteq loaded',
           PathTypeOK', RendezvousTypeOK',
           \A n \in Messages : verdict[n] = "Success" => verdict'[n] = "Success",
           \A n \in Messages : n # m => phase'[n] = phase[n],
           p \in {"waiting", "process", "factory", "run"} => phase'[m] = "new",
           p \in {"waiting", "process", "factory", "run", "rendezvous"} =>
               ended'[m] = "none",
           r # "none" <=> p \in {"reply", "end"},
           p \in {"factory", "run", "rendezvous"} =>
               Kind(m) = "invocation" /\ Func(m) \in loaded,
           p = "factory" => Style[Func(m)] = "client",
           r = "Success" =>
               /\ Kind(m) = "init" => categories'
               /\ Kind(m) = "load" => Func(m) \in loaded'
               /\ Kind(m) = "invocation" =>
                     ended'[m] = "returned" \/ verdict'[m] = "Success",
           p = "silent" /\ m \in Requests \ early =>
               /\ phase'[m] = "new"
               /\ \/ ended'[m] = "failed"
                  \/ ended'[m] = "none" /\ Style[Func(m)] \in {"legacy", "client"}
    PROVE  DispatcherInv'
<1> USE DEF DispatcherInv, Goes
<1>1. Sent' = Sent /\ Requests' = Requests
    BY DEF Sent, Requests, Kind
<1>2. \A n : Kind(n)' = Kind(n) /\ Func(n)' = Func(n)
    BY DEF Kind, Func
<1>3. /\ pc' \in [Messages -> Pcs] /\ pc'[m] = p
      /\ result' \in [Messages -> Verdicts \cup {"none"}] /\ result'[m] = r
      /\ \A n \in Messages : n # m => pc'[n] = pc[n] /\ result'[n] = result[n]
    BY DEF TypeOK
<1>4. (ToSet(accepted) \cup refused \subseteq Messages)'
    BY LenProperties, ElementOfSeq DEF PathTypeOK, ToSet
<1>5. GoroutinesOK'
    BY <1>1, <1>2, <1>3 DEF GoroutinesOK, TypeOK, Messages
<1>6. TypeOK'
  <2>1. \A n \in Messages : pc'[n] \in {"reply", "end"} => result'[n] # "none"
      BY <1>5 DEF GoroutinesOK
  <2> QED
      BY <1>1, <1>3, <1>4, <2>1 DEF TypeOK
<1>7. EffectsFirst'
    BY <1>1, <1>2, <1>3 DEF EffectsFirst, Sent
<1>8. ControlPlaneOrdered'
    BY <1>1, <1>2 DEF ControlPlaneOrdered
<1>9. SuccessIsEarned'
    BY <1>1, <1>2, <1>3 DEF SuccessIsEarned, Requests, Sent
<1>10. SilenceHasACause'
    BY <1>1, <1>2, <1>3 DEF SilenceHasACause, Requests, Sent
<1>11. NothingEndedYet'
    BY <1>3 DEF NothingEndedYet
<1> QED
    BY <1>5, <1>6, <1>7, <1>8, <1>9, <1>10, <1>11

\* The steps of processRequestMessage that touch neither the outbound path
\* nor the rendezvous.
LEMMA HandlerKeepsInv ==
    ASSUME DispatcherInv, NEW m \in Messages,
           \/ handleWorkerInitRequest(m) \/ handleFunctionsMetadataRequest(m)
           \/ handleFunctionLoadRequest(m) \/ handleStateless(m)
           \/ handleUnanswered(m) \/ NotLoaded(m) \/ Bind(m) \/ MakeClient(m)
    PROVE  DispatcherInv'
<1> USE DEF DispatcherInv
<1>1. /\ m \in Sent /\ m <= received /\ result[m] = "none"
      /\ phase[m] = "new" /\ ended[m] = "none"
    BY DEF GoroutinesOK, NothingEndedYet, TypeOK, handleWorkerInitRequest,
           handleFunctionsMetadataRequest, handleFunctionLoadRequest, handleStateless,
           handleUnanswered, NotLoaded, Bind, MakeClient
<1>2. \A q : pc' = [pc EXCEPT ![m] = q] /\ UNCHANGED result => Goes(m, q, "none")
    BY <1>1 DEF TypeOK, Goes
<1>3. UNCHANGED <<hostVars, ended, outVars, rdvVars>>
    BY DEF handleWorkerInitRequest, handleFunctionsMetadataRequest,
           handleFunctionLoadRequest, handleStateless, handleUnanswered, NotLoaded,
           Bind, MakeClient
<1>4. /\ PathTypeOK' /\ RendezvousTypeOK'
      /\ \A n \in Messages :
            verdict'[n] = verdict[n] /\ phase'[n] = phase[n] /\ ended'[n] = ended[n]
    BY <1>3 DEF PathTypeOK, RendezvousTypeOK, outVars, rdvVars
<1>5. /\ UNCHANGED <<content, early>> /\ received' \in 0..MaxMessages
      /\ received <= received' /\ m <= received'
      /\ recvPc' \in {"recv", "ended"}
      /\ ended' \in [Messages -> Outcomes \cup {"none"}]
    BY <1>1, <1>3 DEF hostVars, TypeOK
<1>6. categories \in BOOLEAN /\ loaded \subseteq Registered
    BY DEF TypeOK
<1>7. CASE handleWorkerInitRequest(m)
  <2>1. Goes(m, "reply", "Success") /\ categories' = TRUE /\ loaded' = loaded
      BY <1>7 DEF handleWorkerInitRequest, Respond, Goes
  <2> QED
      BY <1>1, <1>4, <1>5, <1>6, <1>7, <2>1, GoroutineKeepsInv
      DEF handleWorkerInitRequest, Pcs
<1>8. ASSUME NEW status \in Verdicts, Kind(m) \notin {"init", "load"},
             status = "Success" => Kind(m) # "invocation",
             Respond(m, status), UNCHANGED workerVars
      PROVE  DispatcherInv'
  <2>1. Goes(m, "reply", status)
      BY <1>8 DEF Respond, Goes
  <2> QED
      BY <1>1, <1>4, <1>5, <1>6, <1>8, <2>1, GoroutineKeepsInv DEF Pcs, workerVars
<1>9. CASE handleFunctionLoadRequest(m)
  <2>1. CASE Func(m) \in Registered /\ loaded' = loaded \cup {Func(m)} /\ Respond(m, "Success")
    <3>1. Goes(m, "reply", "Success")
        BY <2>1 DEF Respond, Goes
    <3> QED
        BY <1>1, <1>4, <1>5, <1>6, <1>9, <2>1, <3>1, GoroutineKeepsInv
        DEF handleFunctionLoadRequest, Pcs
  <2>2. CASE Respond(m, "Failure") /\ UNCHANGED loaded
    <3>1. Goes(m, "reply", "Failure")
        BY <2>2 DEF Respond, Goes
    <3> QED
        BY <1>1, <1>4, <1>5, <1>6, <1>9, <2>2, <3>1, GoroutineKeepsInv
        DEF handleFunctionLoadRequest, Pcs
  <2> QED
      BY <1>9, <2>1, <2>2 DEF handleFunctionLoadRequest
<1>10. ASSUME StaySilent(m), UNCHANGED workerVars,
              m \in Requests \ early => Style[Func(m)] \in {"legacy", "client"}
       PROVE  DispatcherInv'
  <2>1. Goes(m, "silent", "none")
      BY <1>2, <1>10 DEF StaySilent
  <2> QED
      BY <1>1, <1>4, <1>5, <1>6, <1>10, <2>1, GoroutineKeepsInv DEF Pcs, workerVars
<1>11. ASSUME NEW q \in {"factory", "run"}, pc' = [pc EXCEPT ![m] = q],
              UNCHANGED <<result, workerVars>>,
              Kind(m) = "invocation" /\ Func(m) \in loaded,
              q = "factory" => Style[Func(m)] = "client"
       PROVE  DispatcherInv'
  <2>1. Goes(m, q, "none")
      BY <1>2, <1>11
  <2> QED
      BY <1>1, <1>4, <1>5, <1>6, <1>11, <2>1, GoroutineKeepsInv DEF Pcs, workerVars
<1>12. CASE handleFunctionsMetadataRequest(m) \/ handleStateless(m)
    BY <1>8, <1>12 DEF handleFunctionsMetadataRequest, handleStateless
<1>13. CASE handleUnanswered(m)
    BY <1>10, <1>13 DEF handleUnanswered, Requests
<1>14. CASE NotLoaded(m)
  <2>1. m \in early
      BY <1>1, <1>14 DEF NotLoaded, ControlPlaneOrdered
  <2> QED
      BY <1>10, <1>14, <2>1 DEF NotLoaded
<1>15. CASE Bind(m)
    BY <1>8, <1>10, <1>11, <1>15 DEF Bind, ConversionMayPanic
<1>16. CASE MakeClient(m)
  <2>1. /\ Kind(m) = "invocation" /\ Func(m) \in loaded
        /\ Style[Func(m)] = "client"
      BY <1>16 DEF MakeClient, GoroutinesOK
  <2> QED
      BY <1>10, <1>11, <1>16, <2>1 DEF MakeClient
<1> QED
    BY <1>7, <1>9, <1>12, <1>13, <1>14, <1>15, <1>16

\* The user's function, and the rendezvous that stands for it.
LEMMA InvocationKeepsInv ==
    ASSUME DispatcherInv, NEW m \in Messages,
           \/ \E outcome \in Outcomes : RunUserInvocation(m, outcome)
           \/ NotifyGRPCArrival(m) \/ NotifyReturns(m)
    PROVE  DispatcherInv'
<1> USE DEF DispatcherInv
<1>1. m \in Sent /\ m <= received /\ result[m] = "none"
    BY DEF GoroutinesOK, TypeOK, RunUserInvocation, NotifyGRPCArrival, NotifyReturns
<1>2. UNCHANGED <<hostVars, workerVars, outVars>>
    BY DEF RunUserInvocation, NotifyGRPCArrival, NotifyReturns
<1>3. /\ PathTypeOK' /\ UNCHANGED <<content, early>> /\ received' \in 0..MaxMessages
      /\ received <= received' /\ m <= received'
      /\ recvPc' \in {"recv", "ended"}
      /\ categories' = categories /\ categories \in BOOLEAN
      /\ loaded' = loaded /\ loaded \subseteq Registered
    BY <1>1, <1>2 DEF PathTypeOK, hostVars, workerVars, outVars, TypeOK
<1>4. ASSUME NEW outcome \in Outcomes, RunUserInvocation(m, outcome) PROVE DispatcherInv'
  <2>1. /\ Kind(m) = "invocation"
        /\ ended' = [ended EXCEPT ![m] = outcome]
        /\ RendezvousTypeOK' /\ verdict' = verdict
        /\ phase' = phase /\ phase[m] = "new"
      BY <1>4 DEF RunUserInvocation, GoroutinesOK, NothingEndedYet, rdvVars,
                  RendezvousTypeOK
  <2>2. /\ ended' \in [Messages -> Outcomes \cup {"none"}] /\ ended'[m] = outcome
        /\ \A n \in Messages : n # m => ended'[n] = ended[n]
      BY <2>1 DEF TypeOK
  <2>3. ASSUME NEW status \in Verdicts, Respond(m, status),
               status = "Success" => outcome = "returned"
        PROVE  DispatcherInv'
    <3>1. Goes(m, "reply", status)
        BY <2>3 DEF Respond, Goes
    <3> QED
        BY <1>1, <1>3, <2>1, <2>2, <2>3, <3>1, GoroutineKeepsInv DEF Pcs
  <2>4. CASE outcome = "failed" /\ StaySilent(m)
    <3>1. Goes(m, "silent", "none")
        BY <1>1, <2>4 DEF StaySilent, Goes, TypeOK
    <3> QED
        BY <1>1, <1>3, <2>1, <2>2, <2>4, <3>1, GoroutineKeepsInv DEF Pcs
  <2> QED
      BY <1>4, <2>3, <2>4 DEF RunUserInvocation, statusFromInvocation
<1>5. CASE NotifyGRPCArrival(m)
  <2>1. /\ RendezvousTypeOK' /\ verdict' = verdict
        /\ ended' = ended /\ ended \in [Messages -> Outcomes \cup {"none"}]
        /\ \A n \in Messages : n # m => phase'[n] = phase[n]
        /\ ended[m] = "none"
      BY <1>5 DEF NotifyGRPCArrival, Rdv!Trigger, RendezvousTypeOK, NothingEndedYet, TypeOK
  <2>2. Goes(m, "rendezvous", "none") /\ Kind(m) = "invocation" /\ Func(m) \in loaded
      BY <1>1, <1>5 DEF NotifyGRPCArrival, TypeOK, Goes
  <2> QED
      BY <1>1, <1>3, <2>1, <2>2, GoroutineKeepsInv DEF Pcs
<1>6. CASE NotifyReturns(m)
  <2>1. PICK a \in Excuses \cup ({verdict[m]} \ {"none"}) :
           answer' = [answer EXCEPT ![m] = a]
      BY <1>6 DEF NotifyReturns, Rdv!Answer
  <2>2. /\ RendezvousTypeOK' /\ verdict' = verdict /\ answer'[m] = a
        /\ ended' = ended /\ ended \in [Messages -> Outcomes \cup {"none"}]
        /\ \A n \in Messages : n # m => phase'[n] = phase[n]
      BY <1>6, <2>1 DEF NotifyReturns, Rdv!Answer, RendezvousTypeOK, TypeOK
  <2>3. PICK status \in Verdicts :
           Goes(m, "reply", status) /\ (status = "Success" => verdict[m] = "Success")
      BY <1>6, <2>1, <2>2 DEF NotifyReturns, Respond, Goes
  <2>4. Kind(m) = "invocation"
      BY <1>6 DEF NotifyReturns, GoroutinesOK
  <2> QED
      BY <1>1, <1>3, <2>2, <2>3, <2>4, GoroutineKeepsInv DEF Pcs
<1> QED
    BY <1>4, <1>5, <1>6

\* Receiving a message starts its goroutine; its response is sent at its end.
LEMMA ReceiveAndSendKeepInv ==
    ASSUME DispatcherInv, NEW m \in Messages, Receive(m) \/ Send(m)
    PROVE  DispatcherInv'
<1> USE DEF DispatcherInv
<1>1. UNCHANGED <<content, early, recvPc, workerVars, result, ended, rdvVars>>
    BY DEF Receive, Send, hostVars
<1>2. /\ recvPc' \in {"recv", "ended"} /\ RendezvousTypeOK'
      /\ verdict' = verdict /\ phase' = phase
      /\ categories' = categories /\ categories \in BOOLEAN
      /\ loaded' = loaded /\ loaded \subseteq Registered
      /\ ended' = ended /\ ended \in [Messages -> Outcomes \cup {"none"}]
    BY <1>1 DEF RendezvousTypeOK, workerVars, rdvVars, TypeOK
<1>3. PathTypeOK'
    BY PathStaysTyped DEF Receive, Send
<1>4. CASE Receive(m)
  <2>1. /\ m \in Sent /\ received' = m /\ received <= m
        /\ received' \in 0..MaxMessages /\ pc[m] = "waiting"
        /\ phase[m] = "new" /\ ended[m] = "none"
      BY <1>4 DEF Receive, GoroutinesOK, NothingEndedYet, TypeOK, Messages
  <2>2. Goes(m, "process", "none")
      BY <1>1, <1>4, <2>1 DEF Receive, Goes, GoroutinesOK, TypeOK
  <2> QED
      BY <1>1, <1>2, <1>3, <2>1, <2>2, GoroutineKeepsInv DEF Pcs, Messages
<1>5. CASE Send(m)
  <2>1. /\ m \in Sent /\ m <= received /\ received' = received
        /\ received \in 0..MaxMessages /\ result[m] \in Verdicts
      BY <1>5 DEF Send, GoroutinesOK, TypeOK, hostVars
  <2>2. Goes(m, "end", result[m])
      BY <1>1, <1>5 DEF Send, Goes, TypeOK
  <2>3. result[m] = "Success" =>
            /\ Kind(m) = "init" => categories
            /\ Kind(m) = "load" => Func(m) \in loaded
            /\ Kind(m) = "invocation" => ended[m] = "returned" \/ verdict[m] = "Success"
      BY <2>1 DEF EffectsFirst, SuccessIsEarned, Requests
  <2> QED
      BY <1>1, <1>2, <1>3, <2>1, <2>2, <2>3, GoroutineKeepsInv DEF Pcs
<1> QED
    BY <1>4, <1>5

-----------------------------------------------------------------------------
(* The remaining steps, and the invariant of the specification.            *)

\* What leaves the messages, their goroutines and the worker's state alone,
\* and takes back no verdict, keeps the invariant.
LEMMA SurroundingsKeepInv ==
    ASSUME DispatcherInv,
           UNCHANGED <<content, early, received, pc, workerVars, result, ended>>,
           recvPc' \in {"recv", "ended"},
           PathTypeOK', RendezvousTypeOK', UNCHANGED phase,
           \A n \in Messages : verdict[n] = "Success" => verdict'[n] = "Success"
    PROVE  DispatcherInv'
<1> USE DEF DispatcherInv
<1>1. Sent' = Sent /\ Requests' = Requests
    BY DEF Sent, Requests, Kind
<1>2. \A n : Kind(n)' = Kind(n) /\ Func(n)' = Func(n)
    BY DEF Kind, Func
<1>3. (ToSet(accepted) \cup refused \subseteq Messages)'
    BY LenProperties, ElementOfSeq DEF PathTypeOK, ToSet
<1>4. TypeOK'
    BY <1>1, <1>3 DEF TypeOK, workerVars
<1>5. GoroutinesOK' /\ NothingEndedYet' /\ EffectsFirst' /\ ControlPlaneOrdered'
    BY <1>1, <1>2
    DEF GoroutinesOK, NothingEndedYet, EffectsFirst, ControlPlaneOrdered, workerVars
<1>6. SuccessIsEarned' /\ SilenceHasACause'
    BY <1>1, <1>2 DEF SuccessIsEarned, SilenceHasACause, Requests, Sent
<1> QED
    BY <1>4, <1>5, <1>6

\* The end of a proxied handler or of the receive loop, and what only the path does.
LEMMA OtherStepsKeepInv ==
    ASSUME DispatcherInv,
           \/ \E m \in Messages : HttpHandlerEnds(m)
           \/ ReceiveEnds \/ OutboundStep \/ UNCHANGED vars
    PROVE  DispatcherInv'
<1> USE DEF DispatcherInv
<1>1. ASSUME NEW m \in Messages, HttpHandlerEnds(m) PROVE DispatcherInv'
  <2>1. PICK v \in Verdicts : Rdv!Conclude(m, v)
      BY <1>1 DEF HttpHandlerEnds
  <2>2. /\ RendezvousTypeOK' /\ phase' = phase
        /\ \A n \in Messages : verdict[n] = "Success" => verdict'[n] = "Success"
      BY <2>1 DEF Rdv!Conclude, RendezvousTypeOK
  <2>3. PathTypeOK' /\ recvPc' \in {"recv", "ended"}
      BY <1>1 DEF HttpHandlerEnds, PathTypeOK, outVars, hostVars, TypeOK
  <2> QED
      BY <1>1, <2>2, <2>3, SurroundingsKeepInv DEF HttpHandlerEnds, hostVars
<1>2. CASE ReceiveEnds \/ OutboundStep
  <2>1. PathTypeOK'
      BY <1>2, PathStaysTyped DEF ReceiveEnds, OutboundStep
  <2>2. /\ RendezvousTypeOK' /\ verdict' = verdict /\ phase' = phase
        /\ recvPc' \in {"recv", "ended"}
      BY <1>2 DEF ReceiveEnds, OutboundStep, RendezvousTypeOK, rdvVars, hostVars, TypeOK
  <2>3. UNCHANGED <<content, early, received, pc, workerVars, result, ended>>
      BY <1>2 DEF ReceiveEnds, OutboundStep, hostVars
  <2> QED
      BY <2>1, <2>2, <2>3, SurroundingsKeepInv
<1>3. CASE UNCHANGED vars
  <2>1. UNCHANGED <<hostVars, pc, workerVars, result, ended, outVars, rdvVars>>
      BY <1>3 DEF vars
  <2>2. PathTypeOK' /\ RendezvousTypeOK' /\ recvPc' \in {"recv", "ended"}
      BY <2>1 DEF PathTypeOK, RendezvousTypeOK, outVars, rdvVars, hostVars, TypeOK
  <2> QED
      BY <2>1, <2>2, SurroundingsKeepInv DEF hostVars, rdvVars
<1> QED
    BY <1>1, <1>2, <1>3

\* Every step of the dispatcher keeps the invariant.
LEMMA DispatcherInvStep == DispatcherInv /\ [Next]_vars => DispatcherInv'
<1> SUFFICES ASSUME DispatcherInv, [Next]_vars PROVE DispatcherInv'
    OBVIOUS
<1>1. ASSUME NEW m \in Messages, Process(m) PROVE DispatcherInv'
    BY <1>1, HandlerKeepsInv, InvocationKeepsInv, ReceiveAndSendKeepInv DEF Process
<1> QED
    BY <1>1, HostSendsKeepsInv, HandlerKeepsInv, InvocationKeepsInv,
       ReceiveAndSendKeepInv, OtherStepsKeepInv
    DEF Next

\* The inductive invariant holds in every reachable state.
THEOREM DispatcherInvHolds == Spec => []DispatcherInv
BY DispatcherInvInit, DispatcherInvStep, PTL DEF Spec

-----------------------------------------------------------------------------
(* The properties.                                                         *)

\* The variables keep their types, and what has a response has a result.
THEOREM DispatcherTypeCorrect == Spec => []TypeOK
BY DispatcherInvHolds, PTL DEF DispatcherInv

\* Although every message runs on a goroutine of its own, a load or an
\* invocation finds the host's log categories installed, and an invocation
\* that waited for its load finds the function loaded.
THEOREM HostNeverFindsWorkerBehind == Spec => []ControlPlaneOrdered
BY DispatcherInvHolds, PTL DEF DispatcherInv

\* A Success is reported only for a function that ran to a regular end.
THEOREM NoUnearnedSuccess == Spec => []SuccessIsEarned
BY DispatcherInvHolds, PTL DEF DispatcherInv

\* An invocation of a loaded function is left without a response only when
\* the text of its error could not be read or its argument could not be made;
\* never once its function has returned or its trigger was handed to the HTTP
\* proxy, and never for the payload of a generic binding.
THEOREM SilenceIsExplained == Spec => []SilenceHasACause
BY DispatcherInvHolds, PTL DEF DispatcherInv
=============================================================================
