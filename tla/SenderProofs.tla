----------------------------- MODULE SenderProofs -----------------------------
(***************************************************************************)
(* Proofs about the outbound path, for any callers, any number of messages *)
(* and any capacity of the queue: what reaches the host is a prefix of what *)
(* was accepted, every send has one outcome, a send that begins after the  *)
(* sender has exited is refused, and every step is one of Outbound's.      *)
(***************************************************************************)
EXTENDS Sender, SequenceTheorems, TLAPS

USE SenderAssumption

-----------------------------------------------------------------------------
(* The inductive invariant.                                                *)

\* The flags are raised in one order only: stop marks the path closed before
\* it closes stopChan, and the sender marks it closed before it exits.
FlagsRise ==
    /\ mainPc = "close" \/ stopped \/ senderPc \in {"exiting", "exited"} => closed
    /\ finished <=> senderPc = "exited"

\* How many accepted messages have left the queue.
Taken == IF senderPc = "send" THEN Len(wire) + 1 ELSE Len(wire)

\* While the sender runs, wire, the message inside Send and the queue are,
\* one after the other, exactly what was accepted.  When it exits it may
\* lose the message it holds and leaves the queue as it is.
Conveyor ==
    /\ Len(wire) <= Len(enqueued)
    /\ \A k \in 1..Len(wire) : wire[k] = enqueued[k]
    /\ senderPc = "send" =>
          Len(wire) < Len(enqueued) /\ current = enqueued[Len(wire) + 1]
    /\ senderPc \in {"select", "send"} =>
          /\ Len(enqueued) = Taken + Len(queue)
          /\ \A k \in 1..Len(queue) : queue[k] = enqueued[Taken + k]

\* A caller has an outcome for every message before the one it is on, and
\* for none after it; stderr has the refused log records and nothing else.
Accounts ==
    /\ \A c \in Callers : callerPc[c] # "idle" => index[c] <= MessagesPerCaller
    /\ \A k \in 1..Len(enqueued) : enqueued[k][2] < index[enqueued[k][1]]
    /\ \A m \in refused : m[2] < index[m[1]]
    /\ \A k \in 1..Len(enqueued) : enqueued[k] \notin refused
    /\ \A m \in refused : IsLog(m) => m \in stderr
    /\ stderr \subseteq refused

SenderInv == TypeOK /\ FlagsRise /\ Conveyor /\ Accounts

\* Nothing is queued, sent or refused before the first caller begins.
LEMMA SenderInvInit == Init => SenderInv
<1> SUFFICES ASSUME Init PROVE SenderInv
    OBVIOUS
<1>1. <<>> \in Seq(Messages) /\ Len(<<>>) = 0
    BY EmptySeq
<1>2. TypeOK
  <2>1. 1 \in 1..(MessagesPerCaller + 1) /\ 0 <= outboundQueueSize
      OBVIOUS
  <2> QED
      BY <1>1, <2>1 DEF Init, TypeOK
<1>3. /\ Len(wire) = 0 /\ Len(enqueued) = 0 /\ Len(queue) = 0
      /\ senderPc = "select" /\ Taken = 0
    BY <1>1 DEF Init, Taken
<1>4. Conveyor
    BY <1>3 DEF Conveyor
<1>5. FlagsRise /\ Accounts
    BY <1>3 DEF Init, FlagsRise, Accounts
<1> QED
    BY <1>2, <1>4, <1>5 DEF SenderInv

-----------------------------------------------------------------------------
(* What one call of sendFn does to the accounts.                           *)

\* The message a caller is on has no outcome yet.
LEMMA CurrentIsNew ==
    ASSUME SenderInv, NEW c \in Callers, index[c] <= MessagesPerCaller
    PROVE  /\ Message(c) \in Messages
           /\ Message(c) \notin refused
           /\ \A k \in 1..Len(enqueued) : enqueued[k] # Message(c)
<1>1. index[c] \in 1..MessagesPerCaller
    BY DEF SenderInv, TypeOK
<1>2. Message(c) \in Messages /\ Message(c)[1] = c /\ Message(c)[2] = index[c]
    BY <1>1 DEF Message, Messages
<1>3. ~(index[c] < index[c])
    BY <1>1
<1> QED
    BY <1>2, <1>3 DEF SenderInv, Accounts

\* A caller that goes on to its next message leaves the earlier ones behind.
LEMMA CallerMovesOn ==
    ASSUME SenderInv, NEW c \in Callers, index' = [index EXCEPT ![c] = @ + 1],
           NEW m \in Messages
    PROVE  /\ m[2] < index[m[1]] => m[2] < index'[m[1]]
           /\ m = Message(c) => m[2] < index'[m[1]]
<1>1. PICK d \in Callers, k \in 1..MessagesPerCaller : m = <<d, k>>
    BY DEF Messages
<1>2. index[d] \in Nat /\ index'[d] = IF d = c THEN index[d] + 1 ELSE index[d]
    BY DEF SenderInv, TypeOK
<1>3. m[1] = d /\ m[2] = k
    BY <1>1
<1>4. m = Message(c) => d = c /\ k = index[c]
    BY <1>1 DEF Message
<1> QED
    BY <1>2, <1>3, <1>4

\* A refusal is one outcome for the message its caller was on.
LEMMA RefuseKeepsInv ==
    ASSUME SenderInv, NEW c \in Callers, index[c] <= MessagesPerCaller, Refuse(c)
    PROVE  SenderInv'
<1> USE DEF SenderInv
<1>1. Message(c) \in Messages /\ Message(c)[1] = c /\ Message(c)[2] = index[c]
    BY CurrentIsNew DEF Message
<1>2. TypeOK'
    BY <1>1 DEF Refuse, TypeOK, senderVars, flagVars, hostVars
<1>3. FlagsRise' /\ Conveyor'
    BY DEF Refuse, FlagsRise, Conveyor, Taken, senderVars, flagVars
<1>4. index' = [index EXCEPT ![c] = @ + 1] /\ refused' = refused \cup {Message(c)}
      /\ enqueued' = enqueued
    BY DEF Refuse
<1>6. \A k \in 1..Len(enqueued) : enqueued[k] \in Messages
    BY DEF TypeOK
<1>7. \A k \in 1..Len(enqueued)' : enqueued'[k][2] < index'[enqueued'[k][1]]
    BY <1>4, <1>6, CallerMovesOn DEF Accounts
<1>8. \A m \in refused' : m[2] < index'[m[1]]
    BY <1>1, <1>4, CallerMovesOn DEF Accounts, TypeOK
<1>9. \A k \in 1..Len(enqueued)' : enqueued'[k] \notin refused'
    BY CurrentIsNew DEF Refuse, Accounts
<1>10. \A d \in Callers : callerPc'[d] # "idle" => index'[d] <= MessagesPerCaller
    BY DEF Refuse, Accounts, TypeOK
<1>11. /\ \A m \in refused' : IsLog(m) => m \in stderr'
       /\ stderr' \subseteq refused'
    BY DEF Refuse, Accounts
<1> QED
    BY <1>2, <1>3, <1>7, <1>8, <1>9, <1>10, <1>11 DEF Accounts

\* An accepted message is the last of both the queue and the accepted ones.
LEMMA EnqueueKeepsInv ==
    ASSUME SenderInv, NEW c \in Callers, SendEnqueues(c)
    PROVE  SenderInv'
<1> USE DEF SenderInv
<1>0. index[c] <= MessagesPerCaller
    BY DEF SendEnqueues, Accounts
<1>1. Message(c) \in Messages /\ Message(c)[1] = c /\ Message(c)[2] = index[c]
    BY <1>0, CurrentIsNew DEF Message
<1>2. /\ queue' \in Seq(Messages) /\ Len(queue') = Len(queue) + 1
      /\ queue'[Len(queue) + 1] = Message(c)
      /\ \A k \in 1..Len(queue) : queue'[k] = queue[k]
    BY <1>1, AppendProperties DEF SendEnqueues, TypeOK
<1>3. /\ enqueued' \in Seq(Messages) /\ Len(enqueued') = Len(enqueued) + 1
      /\ enqueued'[Len(enqueued) + 1] = Message(c)
      /\ \A k \in 1..Len(enqueued) : enqueued'[k] = enqueued[k]
    BY <1>1, AppendProperties DEF SendEnqueues, TypeOK
<1>4. Len(queue) \in Nat /\ Len(enqueued) \in Nat /\ Len(wire) \in Nat
    BY LenProperties DEF TypeOK
<1>5. TypeOK'
    BY <1>0, <1>2, <1>3, <1>4 DEF SendEnqueues, TypeOK, flagVars, hostVars
<1>6. FlagsRise'
    BY DEF SendEnqueues, FlagsRise, flagVars
<1>7. Conveyor'
  <2>1. Taken' = Taken /\ Taken \in Nat /\ wire' = wire /\ senderPc' = senderPc
        /\ current' = current
      BY <1>4 DEF SendEnqueues, Taken
  <2>2. /\ Len(wire) <= Len(enqueued')
        /\ \A k \in 1..Len(wire) : wire[k] = enqueued'[k]
        /\ senderPc = "send" => /\ Len(wire) < Len(enqueued')
                                /\ current = enqueued'[Len(wire) + 1]
      BY <1>3, <1>4 DEF Conveyor
  <2>3. ASSUME senderPc \in {"select", "send"}
        PROVE  /\ Len(enqueued') = Taken + Len(queue')
               /\ \A k \in 1..Len(queue') : queue'[k] = enqueued'[Taken + k]
    <3>1. Len(enqueued) = Taken + Len(queue)
        BY <2>3 DEF Conveyor
    <3>2. ASSUME NEW k \in 1..Len(queue) PROVE queue'[k] = enqueued'[Taken + k]
      <4>1. Taken + k \in 1..Len(enqueued) /\ queue[k] = enqueued[Taken + k]
          BY <1>4, <2>1, <2>3, <3>1 DEF Conveyor
      <4> QED
          BY <1>2, <1>3, <4>1
    <3>3. queue'[Len(queue) + 1] = enqueued'[Taken + (Len(queue) + 1)]
      <4>1. Taken + (Len(queue) + 1) = Len(enqueued) + 1
          BY <1>4, <2>1, <3>1
      <4> QED
          BY <1>2, <1>3, <4>1
    <3>4. 1..Len(queue') = (1..Len(queue)) \cup {Len(queue) + 1}
        BY <1>2, <1>4
    <3>5. Len(enqueued') = Taken + Len(queue')
        BY <1>2, <1>3, <1>4, <2>1, <3>1
    <3> QED
        BY <3>2, <3>3, <3>4, <3>5
  <2> QED
      BY <2>1, <2>2, <2>3 DEF Conveyor
<1>8. Accounts'
  <2>1. index' = [index EXCEPT ![c] = @ + 1] /\ refused' = refused /\ stderr' = stderr
        /\ callerPc' = [callerPc EXCEPT ![c] = "idle"]
      BY DEF SendEnqueues
  <2>3. \A k \in 1..Len(enqueued) : enqueued[k] \in Messages
      BY DEF TypeOK
  <2>4. ASSUME NEW k \in 1..Len(enqueued')
        PROVE  enqueued'[k][2] < index'[enqueued'[k][1]]
    <3>1. CASE k \in 1..Len(enqueued)
        BY <1>3, <2>1, <2>3, <3>1, CallerMovesOn DEF Accounts
    <3>2. CASE k = Len(enqueued) + 1
        BY <1>1, <1>3, <2>1, <3>2, CallerMovesOn
    <3> QED
        BY <1>3, <1>4, <2>4, <3>1, <3>2
  <2>5. \A m \in refused' : m[2] < index'[m[1]]
      BY <2>1, CallerMovesOn DEF Accounts, TypeOK
  <2>6. \A k \in 1..Len(enqueued') : enqueued'[k] \notin refused'
      BY <1>0, <1>3, <1>4, <2>1, CurrentIsNew DEF Accounts
  <2>7. \A d \in Callers : callerPc'[d] # "idle" => index'[d] <= MessagesPerCaller
      BY <2>1 DEF Accounts, TypeOK
  <2> QED
      BY <2>1, <2>4, <2>5, <2>6, <2>7 DEF Accounts
<1> QED
    BY <1>5, <1>6, <1>7, <1>8
-----------------------------------------------------------------------------
(* The other steps, and the invariant of the specification.                *)

\* The accounts change only when a call of send ends.
LEMMA SameAccounts ==
    ASSUME Accounts, UNCHANGED <<index, enqueued, refused, stderr>>,
           \A c \in Callers : callerPc'[c] # "idle" => index[c] <= MessagesPerCaller
    PROVE  Accounts'
BY DEF Accounts

\* A call of sendFn, from whatever line it is on.
LEMMA CallerKeepsInv ==
    ASSUME SenderInv, NEW c \in Callers, SendBegins(c) \/ SendSteps(c)
    PROVE  SenderInv'
<1>1. CASE Refuse(c) /\ index[c] <= MessagesPerCaller
    BY <1>1, RefuseKeepsInv
<1>2. CASE SendEnqueues(c)
    BY <1>2, EnqueueKeepsInv
<1>3. ASSUME index[c] <= MessagesPerCaller,
             NEW pc \in {"probe", "select"}, callerPc' = [callerPc EXCEPT ![c] = pc],
             UNCHANGED <<senderVars, flagVars, hostVars, mainPc,
                         index, enqueued, refused, stderr>>
      PROVE  SenderInv'
  <2>1. TypeOK'
      BY <1>3 DEF SenderInv, TypeOK, senderVars, flagVars, hostVars
  <2>2. FlagsRise' /\ Conveyor'
      BY <1>3 DEF SenderInv, FlagsRise, Conveyor, Taken, senderVars, flagVars
  <2>3. Accounts'
      BY <1>3, SameAccounts DEF SenderInv, TypeOK, Accounts
  <2> QED
      BY <2>1, <2>2, <2>3 DEF SenderInv
<1> QED
    BY <1>1, <1>2, <1>3
    DEF SendBegins, SendSteps, SendProbes, SendReleased, SenderInv, Accounts

\* The sender goroutine moves messages on, one at a time.
LEMMA SenderKeepsInv ==
    ASSUME SenderInv, SenderSteps
    PROVE  SenderInv'
<1> USE DEF SenderInv
<1>1. Len(queue) \in Nat /\ Len(enqueued) \in Nat /\ Len(wire) \in Nat
    BY LenProperties DEF TypeOK
<1>2. UNCHANGED callerVars => Accounts'
    BY SameAccounts DEF callerVars, Accounts
<1>3. CASE SenderStops
    BY <1>2, <1>3
    DEF SenderStops, TypeOK, FlagsRise, Conveyor, Taken, callerVars, hostVars
<1>4. CASE SenderTakes
  <2>1. /\ Head(queue) \in Messages /\ Head(queue) = queue[1]
        /\ Tail(queue) \in Seq(Messages) /\ Len(Tail(queue)) = Len(queue) - 1
        /\ \A k \in 1..Len(Tail(queue)) : Tail(queue)[k] = queue[k + 1]
        /\ Len(queue) > 0
      BY <1>1, <1>4, HeadTailProperties, EmptySeq DEF SenderTakes, TypeOK
  <2>2. TypeOK' /\ FlagsRise'
      BY <1>1, <1>4, <2>1
      DEF SenderTakes, TypeOK, FlagsRise, flagVars, callerVars, hostVars
  <2>3. Conveyor'
    <3>1. Taken = Len(wire) /\ Taken' = Len(wire) + 1
        BY <1>4 DEF SenderTakes, Taken
    <3>2. Len(enqueued) = Len(wire) + Len(queue) /\ queue[1] = enqueued[Len(wire) + 1]
        BY <1>1, <1>4, <2>1, <3>1 DEF SenderTakes, Conveyor
    <3>3. ASSUME NEW k \in 1..Len(Tail(queue))
          PROVE  Tail(queue)[k] = enqueued[(Len(wire) + 1) + k]
      <4>1. k + 1 \in 1..Len(queue) /\ Len(wire) + (k + 1) = (Len(wire) + 1) + k
          BY <1>1, <2>1
      <4> QED
          BY <1>4, <2>1, <3>1, <4>1 DEF SenderTakes, Conveyor
    <3>4. Len(enqueued) = (Len(wire) + 1) + Len(Tail(queue))
        BY <1>1, <2>1, <3>2
    <3> QED
        BY <1>1, <1>4, <2>1, <3>1, <3>2, <3>3, <3>4
        DEF SenderTakes, Conveyor, callerVars
  <2> QED
      BY <1>2, <1>4, <2>2, <2>3 DEF SenderTakes
<1>5. CASE SendSucceeds
  <2>1. current \in Messages /\ current = enqueued[Len(wire) + 1]
        /\ Len(wire) < Len(enqueued)
      BY <1>1, <1>5 DEF SendSucceeds, TypeOK, Conveyor
  <2>2. /\ wire' \in Seq(Messages) /\ Len(wire') = Len(wire) + 1
        /\ wire'[Len(wire) + 1] = current
        /\ \A k \in 1..Len(wire) : wire'[k] = wire[k]
      BY <1>5, <2>1, AppendProperties DEF SendSucceeds, TypeOK
  <2>3. TypeOK' /\ FlagsRise'
      BY <1>5, <2>2
      DEF SendSucceeds, TypeOK, FlagsRise, flagVars, callerVars, hostVars
  <2>4. Conveyor'
    <3>1. Taken = Len(wire) + 1 /\ Taken' = Len(wire) + 1
        BY <1>5, <2>2 DEF SendSucceeds, Taken
    <3>2. \A k \in 1..Len(wire') : wire'[k] = enqueued[k]
        BY <1>1, <2>1, <2>2 DEF Conveyor
    <3> QED
        BY <1>1, <1>5, <2>1, <2>2, <3>1, <3>2 DEF SendSucceeds, Conveyor, callerVars
  <2> QED
      BY <1>2, <1>5, <2>3, <2>4 DEF SendSucceeds
<1>6. CASE SendFails
    BY <1>2, <1>6
    DEF SendFails, TypeOK, FlagsRise, Conveyor, Taken, callerVars, hostVars
<1>7. CASE SenderExits
    BY <1>2, <1>7
    DEF SenderExits, TypeOK, FlagsRise, Conveyor, Taken, callerVars, hostVars
<1> QED
    BY <1>3, <1>4, <1>5, <1>6, <1>7 DEF SenderSteps

\* Start, the stream and the signal handler only raise flags.
LEMMA MainKeepsInv ==
    ASSUME SenderInv,
           MainSteps \/ ReceiveLoopEnds \/ StreamBreaks \/ SignalCloseSend
    PROVE  SenderInv'
<1>1. UNCHANGED <<senderVars, callerVars>>
    BY DEF MainSteps, StopMarksClosed, StopClosesChannel, StartContinues,
           ReceiveLoopEnds, StreamBreaks, SignalCloseSend
<1>2. TypeOK'
  <2>1. closed' \in BOOLEAN /\ stopped' \in BOOLEAN /\ finished' \in BOOLEAN
      BY DEF MainSteps, StopMarksClosed, StopClosesChannel, StartContinues,
             ReceiveLoopEnds, StreamBreaks, SignalCloseSend, flagVars, SenderInv, TypeOK
  <2>2. streamUp' \in BOOLEAN /\ halfClosed' \in BOOLEAN
      BY DEF MainSteps, StopMarksClosed, StopClosesChannel, StartContinues,
             ReceiveLoopEnds, StreamBreaks, SignalCloseSend, hostVars, SenderInv, TypeOK
  <2>3. mainPc' \in {mainPc, "stop", "close", "await", "returned"}
      BY DEF MainSteps, StopMarksClosed, StopClosesChannel, StartContinues,
             ReceiveLoopEnds, StreamBreaks, SignalCloseSend
  <2> QED
      BY <1>1, <2>1, <2>2, <2>3 DEF SenderInv, TypeOK, senderVars, callerVars
<1>5. FlagsRise'
    BY <1>1
    DEF SenderInv, FlagsRise, MainSteps, StopMarksClosed, StopClosesChannel,
        StartContinues, ReceiveLoopEnds, StreamBreaks, SignalCloseSend,
        senderVars, callerVars, flagVars, hostVars
<1>3. Conveyor'
    BY <1>1 DEF SenderInv, Conveyor, Taken, senderVars, callerVars
<1>4. Accounts'
    BY <1>1, SameAccounts DEF SenderInv, Accounts, callerVars
<1> QED
    BY <1>2, <1>3, <1>4, <1>5 DEF SenderInv

\* Every step of a caller, the sender or main keeps the invariant.
LEMMA SenderInvStep == SenderInv /\ [Next]_vars => SenderInv'
<1> SUFFICES ASSUME SenderInv, [Next]_vars PROVE SenderInv'
    OBVIOUS
<1>1. CASE UNCHANGED vars
  <2>1. UNCHANGED <<senderVars, flagVars, callerVars, hostVars, mainPc>>
      BY <1>1 DEF vars
  <2>2. TypeOK' /\ FlagsRise'
      BY <2>1 DEF senderVars, flagVars, callerVars, hostVars, SenderInv, TypeOK, FlagsRise
  <2>3. Conveyor' /\ Accounts'
    <3>1. UNCHANGED <<queue, current, senderPc, wire, enqueued>>
        BY <2>1 DEF senderVars, callerVars
    <3>2. Conveyor'
        BY <3>1 DEF SenderInv, Conveyor, Taken
    <3>3. Accounts'
        BY <2>1, SameAccounts DEF callerVars, SenderInv, Accounts
    <3> QED
        BY <3>2, <3>3
  <2> QED
      BY <2>2, <2>3 DEF SenderInv
<1> QED
    BY <1>1, CallerKeepsInv, SenderKeepsInv, MainKeepsInv DEF Next

\* The inductive invariant holds in every reachable state.
THEOREM SenderInvHolds == Spec => []SenderInv
BY SenderInvInit, SenderInvStep, PTL DEF Spec

-----------------------------------------------------------------------------
(* The properties.                                                         *)

\* The variables keep their types, the queue its capacity.
THEOREM SenderTypeCorrect == Spec => []TypeOK
BY SenderInvHolds, PTL DEF SenderInv

\* What the host gets is a prefix of what send accepted, whatever stop,
\* errors of the stream and signals do.
THEOREM HostGetsAPrefix == Spec => []WireIsPrefix
<1>1. ASSUME SenderInv PROVE WireIsPrefix
  <2>1. /\ wire \in Seq(Messages) /\ enqueued \in Seq(Messages)
        /\ Len(wire) <= Len(enqueued) /\ Len(wire) \in Nat /\ Len(enqueued) \in Nat
        /\ \A k \in 1..Len(wire) : wire[k] = enqueued[k]
      BY <1>1, LenProperties DEF SenderInv, TypeOK, Conveyor
  <2>2. SubSeq(wire, 1, Len(wire)) = SubSeq(enqueued, 1, Len(wire))
      BY <2>1
  <2> QED
      BY <2>1, <2>2 DEF WireIsPrefix, IsPrefix
<1> QED
    BY <1>1, SenderInvHolds, PTL

\* Every send has one outcome, and a refused log record is on stderr and not
\* on the wire.
THEOREM SendsHaveOneOutcome == Spec => []ResultsAreExclusive
<1>1. ASSUME SenderInv PROVE ResultsAreExclusive
  <2>1. DOMAIN enqueued = 1..Len(enqueued) /\ DOMAIN wire = 1..Len(wire)
        /\ Len(wire) \in Nat /\ Len(enqueued) \in Nat
      BY <1>1, LenProperties DEF SenderInv, TypeOK
  <2>2. \A m \in refused : m \notin ToSet(enqueued) /\ (IsLog(m) => m \in stderr)
      BY <1>1, <2>1 DEF SenderInv, Accounts, ToSet
  <2>3. ASSUME NEW k \in 1..Len(wire) PROVE wire[k] \notin stderr
      BY <1>1, <2>1 DEF SenderInv, Accounts, Conveyor
  <2>4. stderr \cap ToSet(wire) = {}
      BY <2>1, <2>3 DEF ToSet
  <2> QED
      BY <2>2, <2>4 DEF ResultsAreExclusive
<1> QED
    BY <1>1, SenderInvHolds, PTL

\* Once the sender has exited, a send that begins is refused at once: the
\* flag the fast path reads was raised before.
THEOREM NoSendAfterExit == Spec => LateSendsRefused
<1>1. ASSUME SenderInv, [Next]_vars, NEW c \in Callers, finished, callerPc[c] = "idle"
      PROVE  callerPc'[c] = "idle"
  <2>1. closed
      BY <1>1 DEF SenderInv, FlagsRise
  <2>2. ASSUME NEW d \in Callers, Refuse(d) PROVE callerPc'[c] = "idle"
      BY <1>1, <2>2 DEF Refuse, SenderInv, TypeOK
  <2>3. ASSUME NEW d \in Callers, SendBegins(d) \/ SendSteps(d) PROVE callerPc'[c] = "idle"
    <3>1. CASE d = c
        BY <1>1, <2>1, <2>2, <2>3, <3>1
        DEF SendBegins, SendSteps, SendProbes, SendEnqueues, SendReleased
    <3>2. CASE d # c
        BY <1>1, <2>2, <2>3, <3>2
        DEF SendBegins, SendSteps, SendProbes, SendEnqueues, SendReleased,
            SenderInv, TypeOK
    <3> QED
        BY <3>1, <3>2
  <2>4. CASE SenderSteps
      BY <1>1, <2>4 DEF SenderSteps, SenderStops, SenderTakes, SendSucceeds, SendFails,
                        SenderExits, callerVars
  <2>5. CASE MainSteps \/ ReceiveLoopEnds \/ StreamBreaks \/ SignalCloseSend
      BY <1>1, <2>5 DEF MainSteps, StopMarksClosed, StopClosesChannel, StartContinues,
                        ReceiveLoopEnds, StreamBreaks, SignalCloseSend, callerVars
  <2>6. CASE UNCHANGED vars
      BY <1>1, <2>6 DEF vars, callerVars
  <2> QED
      BY <1>1, <2>3, <2>4, <2>5, <2>6 DEF Next
<1>2. SenderInv /\ [Next]_vars
      => [\A c \in Callers : finished /\ callerPc[c] = "idle" => callerPc'[c] = "idle"]_vars
    BY <1>1
<1> QED
    BY <1>2, SenderInvHolds, PTL DEF Spec, LateSendsRefused

-----------------------------------------------------------------------------
(* The refinement.  Every step of the queue, the flags and the goroutines  *)
(* is one of the abstract path or leaves it alone; its fairness is left to *)
(* TLC.                                                                    *)

\* Where the abstract path is, as the flags and the sender say it.
pathLink == IF senderPc \in {"exiting", "exited"} THEN "closed"
            ELSE IF closed THEN "closing" ELSE "open"

\* The sender starts as an open path that holds nothing.
LEMMA StartsOpen == Init => Path!OutboundInit
BY DEF Init, Path!OutboundInit

\* The message of a caller has no outcome on the abstract path either.
LEMMA CurrentIsNewThere ==
    ASSUME SenderInv, NEW c \in Callers, index[c] <= MessagesPerCaller
    PROVE  Message(c) \in Messages /\ Path!New(Message(c))
<1>1. DOMAIN enqueued = 1..Len(enqueued)
    BY LenProperties DEF SenderInv, TypeOK
<1> QED
    BY <1>1, CurrentIsNew DEF Path!New

\* A call of send is refused only once the path is going down.
LEMMA CallerRefines ==
    ASSUME SenderInv, NEW c \in Callers, SendBegins(c) \/ SendSteps(c)
    PROVE  Path!OutboundNext \/ UNCHANGED Path!outboundVars
<1>0. index[c] <= MessagesPerCaller
    BY DEF SendBegins, SendSteps, SendProbes, SendEnqueues, SendReleased,
           SenderInv, Accounts
<1>1. ASSUME Refuse(c), closed \/ stopped \/ finished PROVE Path!Refuse(Message(c))
  <2>1. pathLink # "open"
      BY <1>1 DEF pathLink, SenderInv, FlagsRise
  <2>2. pathLink' = pathLink
      BY <1>1 DEF Refuse, pathLink, senderVars, flagVars
  <2> QED
      BY <1>0, <1>1, <2>1, <2>2, CurrentIsNewThere
      DEF Refuse, Path!Refuse, senderVars, pathLink
<1>2. ASSUME SendEnqueues(c) PROVE Path!Accept(Message(c))
  <2>1. pathLink' = pathLink
      BY <1>2 DEF SendEnqueues, pathLink, flagVars
  <2> QED
      BY <1>0, <1>2, <2>1, CurrentIsNewThere DEF SendEnqueues, Path!Accept, pathLink
<1>3. ASSUME UNCHANGED <<senderVars, flagVars, enqueued, refused>>
      PROVE  UNCHANGED Path!outboundVars
    BY <1>3 DEF Path!outboundVars, senderVars, flagVars
<1>4. Path!Refuse(Message(c)) \/ Path!Accept(Message(c)) \/ UNCHANGED Path!outboundVars
    BY <1>1, <1>2, <1>3 DEF SendBegins, SendSteps, SendProbes, SendReleased
<1> QED
    BY <1>0, <1>4, CurrentIsNewThere DEF Path!OutboundNext

\* The sender delivers the next accepted message, or takes the path down.
LEMMA SenderRefines ==
    ASSUME SenderInv, SenderSteps
    PROVE  Path!OutboundNext \/ UNCHANGED Path!outboundVars
<1> USE DEF SenderInv
<1>1. CASE SenderStops \/ SendFails
  <2>1. pathLink # "closed" /\ pathLink' = "closed"
      BY <1>1 DEF SenderStops, SendFails, pathLink
  <2>2. Path!Close
      BY <1>1, <2>1 DEF SenderStops, SendFails, Path!Close, callerVars, pathLink
  <2> QED
      BY <2>2 DEF Path!OutboundNext
<1>2. CASE SenderTakes \/ SenderExits
  <2>1. pathLink' = pathLink
      BY <1>2 DEF SenderTakes, SenderExits, pathLink, flagVars
  <2> QED
      BY <1>2, <2>1
      DEF SenderTakes, SenderExits, Path!outboundVars, callerVars, pathLink
<1>3. CASE SendSucceeds
  <2>1. pathLink # "closed" /\ pathLink' = pathLink
      BY <1>3 DEF SendSucceeds, pathLink, flagVars
  <2>2. Len(wire) < Len(enqueued) /\ current = enqueued[Len(wire) + 1]
      BY <1>3 DEF SendSucceeds, Conveyor
  <2>3. Path!Deliver
      BY <1>3, <2>1, <2>2
      DEF SendSucceeds, Path!Deliver, Path!Behind, callerVars, pathLink
  <2> QED
      BY <2>3 DEF Path!OutboundNext
<1> QED
    BY <1>1, <1>2, <1>3 DEF SenderSteps

\* The main goroutine, the stream and the signal begin to close it at most.
LEMMA MainRefines ==
    ASSUME SenderInv,
           MainSteps \/ ReceiveLoopEnds \/ StreamBreaks \/ SignalCloseSend
    PROVE  Path!OutboundNext \/ UNCHANGED Path!outboundVars
<1>1. UNCHANGED <<senderVars, callerVars>>
    BY DEF MainSteps, StopMarksClosed, StopClosesChannel, StartContinues,
           ReceiveLoopEnds, StreamBreaks, SignalCloseSend
<1>2. closed' = closed \/ closed' = TRUE
    BY DEF MainSteps, StopMarksClosed, StopClosesChannel, StartContinues,
           ReceiveLoopEnds, StreamBreaks, SignalCloseSend, flagVars
<1>3. pathLink' = pathLink \/ (pathLink = "open" /\ pathLink' = "closing")
    BY <1>1, <1>2 DEF pathLink, senderVars
<1>4. UNCHANGED Path!outboundVars \/ Path!BeginClose
    BY <1>1, <1>3
    DEF Path!outboundVars, Path!BeginClose, senderVars, callerVars, pathLink
<1> QED
    BY <1>4 DEF Path!OutboundNext

\* A step of the sender is a step of the path, or changes nothing of it.
LEMMA StepRefines ==
    SenderInv /\ [Next]_vars => [Path!OutboundNext]_Path!outboundVars
<1> SUFFICES ASSUME SenderInv, [Next]_vars
             PROVE  Path!OutboundNext \/ UNCHANGED Path!outboundVars
    OBVIOUS
<1>1. CASE UNCHANGED vars
    BY <1>1 DEF vars, senderVars, flagVars, callerVars, Path!outboundVars
<1> QED
    BY <1>1, CallerRefines, SenderRefines, MainRefines DEF Next

\* Queue, flags and sender goroutine take only steps of the path the other
\* components build on: nothing is refused while it is open, and what is
\* delivered is the next accepted message.
THEOREM SenderIsAnOutboundPath ==
    Spec => Path!OutboundInit /\ [][Path!OutboundNext]_Path!outboundVars
BY StartsOpen, StepRefines, SenderInvHolds, PTL DEF Spec
=============================================================================
