----------------------------- MODULE ProxyProofs -----------------------------
(***************************************************************************)
(* Proofs about the placeholder proxy, for any number of host messages.    *)
(* The first invariant and what follows from it (forwarding is final, the  *)
(* child gets the host's order) hold for any number of reload requests.    *)
(* The second one is about a container that is specialized once: no message *)
(* is answered twice, no channel is closed twice, and the reload request is *)
(* answered when the app is there or there is none.                        *)
(***************************************************************************)
EXTENDS Proxy, SequenceTheorems, FiniteSetTheorems, TLAPS

USE ProxyAssumption DEF Numbers, None, StartStream

-----------------------------------------------------------------------------
(* The bridge: the invariant for any number of reload requests.            *)

\* The host's first message, and no other, is the init request.
HostStartsWithInit == \A n \in 1..Len(hostOut) : hostOut[n] = "init" <=> n = 1

\* The receive loop deals with the messages in order, with the first one
\* before anything else happens.
LoopInOrder ==
    /\ next <= Len(hostOut) + 1
    /\ runPc # "recv" => next <= Len(hostOut)
    /\ \A n \in Numbers : fate[n] # "none" <=> n < next
    /\ savedInitRequest = IF next > 1 THEN 1 ELSE None
    /\ next = 1 => runPc \in {"recv", "placeholder"} /\ ~isSpecializing

\* A specialize goroutine belongs to a reload request the placeholder took.
SpecializesReloads ==
    \A n \in Numbers : specPc[n] # "idle" =>
        fate[n] = "local" /\ hostOut[n] = "reload" /\ savedReloadRequestId # None

\* There is a child only because a specialize goroutine started it, and a
\* stream, messages from it and its init response only because it connected.
ChildIsStarted ==
    /\ child # "none" =>
          \E n \in Numbers : specPc[n] \in {"await", "replay", "reply", "end"}
    /\ childStream => child # "none"
    /\ child \in {"connecting", "connected"} \/ childOut # <<>> \/ childInitDone
          => childStream

\* What is forwarded is forwarded because the child's stream is there, and
\* the receive loop does not get back to the placeholder.
ForwardsByStream ==
    /\ runPc = "forward" => childStream
    /\ \A n \in Numbers : fate[n] \in {"child", "failed"} =>
          childStream /\ runPc \in {"recv", "forward"}

\* The child has the replayed init request and forwarded messages, in order.
ChildMessages ==
    /\ \A k \in 1..Len(toChild) : toChild[k] \in 1..(next - 1)
    /\ \A k \in 1..Len(toChild) : toChild[k] # 1 => fate[toChild[k]] = "child"
    /\ \A j, k \in 1..Len(toChild) :
          j < k /\ toChild[j] # 1 /\ toChild[k] # 1 => toChild[j] < toChild[k]

BridgeInv ==
    /\ TypeOK
    /\ HostStartsWithInit
    /\ LoopInOrder
    /\ SpecializesReloads
    /\ ChildIsStarted
    /\ ForwardsByStream
    /\ ChildMessages
    /\ ForwardingIsFinal

-----------------------------------------------------------------------------
(* A container that is specialized once: the invariant for one reload.     *)

OneReload ==
    \A m, n \in 1..Len(hostOut) : hostOut[m] = "reload" /\ hostOut[n] = "reload" => m = n

\* The specialize goroutine is the only one: its request id is the saved
\* one, and the steps before the fork and the replay have not been done.
OneSpecialize ==
    /\ \A n \in Numbers : specPc[n] # "idle" => savedReloadRequestId = n
    /\ \A n \in Numbers : specPc[n] \in {"stat", "close", "clear"} => child = "none"
    /\ \A n \in Numbers : specPc[n] = "end" => child = "none" \/ childInitDone
    /\ noChildMode => \E n \in Numbers : specPc[n] \in {"clear", "end"}
    /\ \A k \in 1..Len(toChild) : toChild[k] = 1 =>
          \E n \in Numbers : specPc[n] \in {"reply", "end"}

Handled(m) == \E k \in handled : k \in 1..Len(toChild) /\ toChild[k] = m

\* Every message goes to the child once and comes back at most once.
OnceThroughChild ==
    /\ \A j, k \in 1..Len(toChild) : toChild[j] = toChild[k] => j = k
    /\ \A i \in 1..Len(childOut) : childOut[i] # StartStream => Handled(childOut[i])
    /\ \A i, j \in 1..Len(childOut) :
          childOut[i] = childOut[j] /\ childOut[i] # StartStream => i = j
    /\ childInitDone => Handled(1) /\ \A i \in 1..Len(childOut) : childOut[i] # 1

\* What the host got an answer to was answered by the placeholder, by the
\* specialize goroutine or by the child, and is not answered again.
AnswersAccounted ==
    /\ \A j \in 1..Len(toHost) : toHost[j] < next
    /\ \A j \in 1..Len(toHost) :
          fate[toHost[j]] = "local" /\ hostOut[toHost[j]] = "reload" =>
              specPc[toHost[j]] \in {"close", "clear", "end"}
    /\ \A j \in 1..Len(toHost) : fate[toHost[j]] # "local" => Handled(toHost[j])
    /\ \A i \in 1..Len(childOut), j \in 1..Len(toHost) :
          childOut[i] = toHost[j] => childOut[i] = 1
    /\ AnsweredAtMostOnce

SingleReloadInv ==
    /\ OneReload
    /\ OneSpecialize
    /\ OnceThroughChild
    /\ AnswersAccounted
    /\ NoPanic

-----------------------------------------------------------------------------
(* The bridge: the proof.                                                  *)

\* Appending to a sequence, in the form the proofs below use it.
LEMMA Appended ==
    ASSUME NEW S, NEW s \in Seq(S), NEW e \in S
    PROVE  /\ Append(s, e) \in Seq(S)
           /\ Len(s) \in Nat
           /\ Len(Append(s, e)) = Len(s) + 1
           /\ 1..Len(Append(s, e)) = (1..Len(s)) \cup {Len(s) + 1}
           /\ \A k \in 1..Len(s) : Append(s, e)[k] = s[k]
           /\ Append(s, e)[Len(s) + 1] = e
<1>1. Len(s) \in Nat /\ Len(Append(s, e)) = Len(s) + 1
    BY LenProperties, AppendProperties
<1> QED
    BY <1>1, AppendProperties

\* The proxy starts with no child and nothing forwarded.
LEMMA BridgeInvInit == Init => BridgeInv
<1> SUFFICES ASSUME Init PROVE BridgeInv
    OBVIOUS
<1>1. /\ <<>> \in Seq(Kinds) /\ <<>> \in Seq(Numbers)
      /\ <<>> \in Seq(Numbers \cup {None}) /\ Len(<<>>) = 0
    BY EmptySeq
<1>2. TypeOK
  <2>1. 1 \in 1..(MaxMessages + 1) /\ 0 <= MaxMessages
      OBVIOUS
  <2> QED
      BY <1>1, <2>1 DEF Init, TypeOK, SpecPcs
<1>3. Len(hostOut) = 0 /\ Len(toChild) = 0
    BY <1>1 DEF Init
<1>4. HostStartsWithInit /\ LoopInOrder /\ ChildMessages
    BY <1>3 DEF Init, HostStartsWithInit, LoopInOrder, ChildMessages
<1>5. SpecializesReloads /\ ChildIsStarted /\ ForwardsByStream /\ ForwardingIsFinal
    BY DEF Init, SpecializesReloads, ChildIsStarted, ForwardsByStream, ForwardingIsFinal
<1> QED
    BY <1>2, <1>4, <1>5 DEF BridgeInv

\* A host message is only ever added: the kinds of the others stay.
LEMMA HostSendsKeepsBridge ==
    ASSUME BridgeInv, NEW kind \in Kinds, HostSends(kind)
    PROVE  BridgeInv'
<1> USE DEF BridgeInv
<1>1. UNCHANGED <<runVars, toHost, savedVars, isSpecializing, childStream,
                  chanVars, specPc, childVars, bridge, exited>>
    BY DEF HostSends
<1>2. /\ hostOut' \in Seq(Kinds) /\ Len(hostOut) \in Nat
      /\ Len(hostOut') = Len(hostOut) + 1 /\ Len(hostOut') <= MaxMessages
      /\ 1..Len(hostOut') = (1..Len(hostOut)) \cup {Len(hostOut) + 1}
      /\ \A n \in 1..Len(hostOut) : hostOut'[n] = hostOut[n]
      /\ hostOut'[Len(hostOut) + 1] = kind
    BY Appended DEF HostSends, TypeOK
<1>3. TypeOK'
    BY <1>1, <1>2
    DEF TypeOK, runVars, savedVars, chanVars, childVars
<1>4. HostStartsWithInit'
  <2>1. hostOut = <<>> <=> Len(hostOut) = 0
      BY EmptySeq DEF TypeOK
  <2> QED
      BY <1>2, <2>1 DEF HostSends, HostStartsWithInit
<1>5. LoopInOrder'
    BY <1>1, <1>2 DEF LoopInOrder, TypeOK, runVars, savedVars
<1>6. SpecializesReloads'
  <2>1. \A n \in Numbers : specPc[n] # "idle" => n \in 1..Len(hostOut)
      BY <1>2 DEF SpecializesReloads, LoopInOrder, TypeOK
  <2> QED
      BY <1>1, <1>2, <2>1 DEF SpecializesReloads, runVars, savedVars
<1>7. ChildIsStarted' /\ ForwardsByStream' /\ ChildMessages' /\ ForwardingIsFinal'
    BY <1>1
    DEF ChildIsStarted, ForwardsByStream, ChildMessages, ForwardingIsFinal,
        runVars, savedVars, chanVars, childVars
<1> QED
    BY <1>3, <1>4, <1>5, <1>6, <1>7

\* The receive loop decides where a message goes.
LEMMA LoopDecidesKeepsBridge ==
    ASSUME BridgeInv, TakeMessage \/ WaitEnds
    PROVE  BridgeInv'
<1> USE DEF BridgeInv
<1>1. UNCHANGED <<hostVars, next, fate, toHost, savedVars, isSpecializing,
                  childStream, chanVars, specPc, childVars, bridge, exited>>
    BY DEF TakeMessage, WaitEnds
<1>2. /\ runPc' \in {"forward", "wait", "placeholder"}
      /\ runPc' = "forward" => childStream
      /\ childStream /\ runPc = "recv" => runPc' = "forward"
      /\ runPc \in {"recv", "wait"} /\ next <= Len(hostOut)
    BY DEF TakeMessage, WaitEnds, ChildIsStarted, LoopInOrder, TypeOK
<1>3. TypeOK' /\ HostStartsWithInit'
    BY <1>1, <1>2
    DEF TypeOK, HostStartsWithInit, hostVars, savedVars, chanVars, childVars
<1>4. next = 1 => runPc' = "placeholder"
  <2>1. ASSUME next = 1 PROVE ~childStream /\ ~isSpecializing /\ runPc = "recv"
    <3>1. \A n \in Numbers : specPc[n] = "idle"
        BY <2>1 DEF LoopInOrder, SpecializesReloads, TypeOK
    <3> QED
        BY <1>2, <2>1, <3>1 DEF ChildIsStarted, LoopInOrder
  <2> QED
      BY <2>1 DEF TakeMessage, WaitEnds
<1>5. LoopInOrder'
    BY <1>1, <1>2, <1>4 DEF LoopInOrder, TypeOK, hostVars, savedVars
<1>6. ForwardsByStream'
    BY <1>1, <1>2 DEF ForwardsByStream
<1>7. SpecializesReloads' /\ ChildIsStarted' /\ ChildMessages' /\ ForwardingIsFinal'
    BY <1>1
    DEF SpecializesReloads, ChildIsStarted, ChildMessages, ForwardingIsFinal,
        hostVars, savedVars, chanVars, childVars
<1> QED
    BY <1>3, <1>5, <1>6, <1>7

\* The receive loop is done with a message: f is what became of it.
LEMMA FinishKeepsLoop ==
    ASSUME BridgeInv, NEW f \in {"local", "child", "failed"},
           next <= Len(hostOut), Finish(f), hostOut' = hostOut,
           savedInitRequest' = IF next = 1 THEN 1 ELSE savedInitRequest
    PROVE  /\ LoopInOrder'
           /\ next \in Numbers /\ next' = next + 1 /\ next' \in 1..(MaxMessages + 1)
           /\ runPc' = "recv"
           /\ fate' \in [Numbers -> {"none", "local", "child", "failed"}]
           /\ fate'[next] = f /\ fate[next] = "none"
           /\ \A n \in Numbers : n # next => fate'[n] = fate[n]
<1> USE DEF BridgeInv
<1>1. /\ next \in Nat /\ Len(hostOut) \in Nat /\ Len(hostOut) <= MaxMessages
      /\ next \in Numbers
    BY LenProperties DEF TypeOK
<1>2. /\ next' = next + 1 /\ runPc' = "recv"
      /\ fate' \in [Numbers -> {"none", "local", "child", "failed"}]
      /\ fate'[next] = f /\ \A n \in Numbers : n # next => fate'[n] = fate[n]
    BY <1>1 DEF Finish, TypeOK
<1>3. fate[next] = "none"
    BY <1>1 DEF LoopInOrder
<1>4. \A n \in Numbers : fate'[n] # "none" <=> n < next'
    BY <1>1, <1>2 DEF LoopInOrder
<1>5. savedInitRequest' = IF next' > 1 THEN 1 ELSE None
    BY <1>1, <1>2 DEF LoopInOrder
<1>6. next' # 1 /\ next' <= Len(hostOut') + 1
    BY <1>1, <1>2
<1> QED
    BY <1>1, <1>2, <1>3, <1>4, <1>5, <1>6 DEF LoopInOrder

\* What the placeholder does with a message in place leaves the child alone.
LEMMA PlaceholderKeepsBridge ==
    ASSUME BridgeInv, PlaceholderAnswers \/ PlaceholderReloads \/ PlaceholderIgnores
    PROVE  BridgeInv'
<1> USE DEF BridgeInv
<1>1. /\ UNCHANGED <<hostVars, childStream, chanVars, childVars, bridge, exited>>
      /\ Finish("local") /\ runPc = "placeholder"
    BY DEF PlaceholderAnswers, PlaceholderReloads, PlaceholderIgnores
<1>2. next <= Len(hostOut) /\ hostOut[next] \in Kinds
      /\ next \in 1..Len(hostOut)
    BY <1>1, ElementOfSeq, LenProperties DEF LoopInOrder, TypeOK
<1>3. savedInitRequest' = IF next = 1 THEN 1 ELSE savedInitRequest
    BY <1>2
    DEF PlaceholderAnswers, PlaceholderReloads, PlaceholderIgnores, savedVars, Kind,
        HostStartsWithInit
<1>4. /\ LoopInOrder' /\ next \in Numbers /\ next' = next + 1
      /\ next' \in 1..(MaxMessages + 1) /\ runPc' = "recv"
      /\ fate' \in [Numbers -> {"none", "local", "child", "failed"}]
      /\ fate'[next] = "local" /\ fate[next] = "none"
      /\ \A n \in Numbers : n # next => fate'[n] = fate[n]
    BY <1>1, <1>2, <1>3, FinishKeepsLoop DEF hostVars
<1>5. \A n \in Numbers : fate[n] \notin {"child", "failed"}
    BY <1>1 DEF ForwardsByStream
<1>13. /\ isSpecializing' \in BOOLEAN
       /\ savedReloadRequestId' \in {savedReloadRequestId, next}
       /\ savedReloadRequestId # None => savedReloadRequestId' # None
  <2>1. savedReloadRequestId' \in {savedReloadRequestId, next}
      BY DEF PlaceholderAnswers, PlaceholderReloads, PlaceholderIgnores, savedVars
  <2>2. isSpecializing' \in BOOLEAN
      BY DEF PlaceholderAnswers, PlaceholderReloads, PlaceholderIgnores, TypeOK
  <2> QED
      BY <1>4, <2>1, <2>2
<1>6. /\ specPc' \in [Numbers -> SpecPcs]
      /\ \A n \in Numbers : n # next => specPc'[n] = specPc[n]
      /\ specPc[next] = "idle"
      /\ specPc'[next] # "idle" =>
            hostOut[next] = "reload" /\ savedReloadRequestId' = next
    BY <1>4
    DEF PlaceholderAnswers, PlaceholderReloads, PlaceholderIgnores, TypeOK, SpecPcs,
        SpecializesReloads, Kind
<1>7. TypeOK'
  <2>1. toHost' \in Seq(Numbers)
    <3>1. toHost' = Append(toHost, next) \/ toHost' = toHost
        BY DEF PlaceholderAnswers, PlaceholderReloads, PlaceholderIgnores
    <3>2. toHost \in Seq(Numbers)
        BY DEF TypeOK
    <3> QED
        BY <1>4, <3>1, <3>2, AppendProperties
  <2>2. savedInitRequest' \in Numbers \cup {None} /\ savedReloadRequestId' \in Numbers \cup {None}
      BY <1>3, <1>4, <1>13 DEF TypeOK
  <2> QED
      BY <1>1, <1>4, <1>6, <1>13, <2>1, <2>2 DEF TypeOK, hostVars, chanVars, childVars
<1>8. HostStartsWithInit'
    BY <1>1 DEF HostStartsWithInit, hostVars
<1>9. SpecializesReloads'
    BY <1>1, <1>4, <1>6, <1>13 DEF SpecializesReloads, hostVars
<1>10. ChildIsStarted'
    BY <1>1, <1>6 DEF ChildIsStarted, chanVars, childVars
<1>11. ForwardsByStream' /\ ForwardingIsFinal'
    BY <1>4, <1>5 DEF ForwardsByStream, ForwardingIsFinal
<1>12. ChildMessages'
  <2>1. \A k \in 1..Len(toChild) : toChild[k] \in Numbers /\ toChild[k] < next
      BY <1>4 DEF ChildMessages, TypeOK
  <2> QED
      BY <1>1, <1>4, <2>1 DEF ChildMessages, childVars
<1> QED
    BY <1>4, <1>7, <1>8, <1>9, <1>10, <1>11, <1>12

\* A forwarded message is the last the child got, and the highest.
LEMMA ForwardKeepsBridge ==
    ASSUME BridgeInv, ForwardToChild
    PROVE  BridgeInv'
<1> USE DEF BridgeInv
<1>1. /\ UNCHANGED <<hostVars, toHost, savedVars, isSpecializing, childStream,
                     chanVars, specPc, child, handled, childOut, bridge, exited>>
      /\ runPc = "forward"
    BY DEF ForwardToChild
<1>2. PICK f \in {"child", "failed"} :
         /\ Finish(f)
         /\ \/ f = "child" /\ toChild' = Append(toChild, next)
            \/ toChild' = toChild
    BY DEF ForwardToChild
<1>3. next <= Len(hostOut) /\ next # 1 /\ childStream
    BY <1>1 DEF LoopInOrder, ForwardsByStream
<1>4. /\ LoopInOrder' /\ next \in Numbers /\ next' = next + 1
      /\ next' \in 1..(MaxMessages + 1) /\ runPc' = "recv"
      /\ fate' \in [Numbers -> {"none", "local", "child", "failed"}]
      /\ fate'[next] = f /\ fate[next] = "none"
      /\ \A n \in Numbers : n # next => fate'[n] = fate[n]
    BY <1>1, <1>2, <1>3, FinishKeepsLoop DEF hostVars, savedVars
<1>5. \A k \in 1..Len(toChild) : toChild[k] \in Numbers /\ toChild[k] < next
    BY <1>4 DEF ChildMessages, TypeOK
<1>6. /\ Len(toChild) \in Nat
      /\ Append(toChild, next) \in Seq(Numbers \cup {None})
      /\ 1..Len(Append(toChild, next)) = (1..Len(toChild)) \cup {Len(toChild) + 1}
      /\ \A k \in 1..Len(toChild) : Append(toChild, next)[k] = toChild[k]
      /\ Append(toChild, next)[Len(toChild) + 1] = next
  <2>1. toChild \in Seq(Numbers \cup {None}) /\ next \in Numbers \cup {None}
      BY <1>4 DEF TypeOK
  <2> QED
      BY <2>1, Appended
<1>7. TypeOK' /\ HostStartsWithInit'
  <2>1. toChild' \in Seq(Numbers \cup {None})
      BY <1>2, <1>6 DEF TypeOK
  <2> QED
      BY <1>1, <1>4, <2>1 DEF TypeOK, HostStartsWithInit, hostVars, savedVars, chanVars
<1>8. SpecializesReloads' /\ ChildIsStarted'
    BY <1>1, <1>4 DEF SpecializesReloads, ChildIsStarted, hostVars, savedVars, chanVars
<1>9. ForwardsByStream' /\ ForwardingIsFinal'
  <2>1. \A n \in Numbers : fate[n] = "local" => n < next
      BY DEF LoopInOrder
  <2> QED
      BY <1>1, <1>2, <1>3, <1>4, <2>1 DEF ForwardsByStream, ForwardingIsFinal
<1>10. ChildMessages'
  <2>1. CASE toChild' = toChild
      BY <1>4, <1>5, <2>1 DEF ChildMessages
  <2>2. CASE f = "child" /\ toChild' = Append(toChild, next)
    <3>1. \A k \in 1..Len(toChild') :
             \/ k \in 1..Len(toChild) /\ toChild'[k] = toChild[k]
             \/ k = Len(toChild) + 1 /\ toChild'[k] = next
        BY <1>6, <2>2
    <3>2. \A k \in 1..Len(toChild') : toChild'[k] \in 1..(next' - 1)
        BY <1>4, <1>5, <3>1
    <3>3. \A k \in 1..Len(toChild') : toChild'[k] # 1 => fate'[toChild'[k]] = "child"
        BY <1>4, <1>5, <2>2, <3>1 DEF ChildMessages
    <3>4. \A j, k \in 1..Len(toChild') :
             j < k /\ toChild'[j] # 1 /\ toChild'[k] # 1 => toChild'[j] < toChild'[k]
        BY <1>5, <1>6, <3>1 DEF ChildMessages
    <3> QED
        BY <3>2, <3>3, <3>4 DEF ChildMessages
  <2> QED
      BY <1>2, <2>1, <2>2
<1> QED
    BY <1>4, <1>7, <1>8, <1>9, <1>10

\* The specialize goroutines: they add at most the init request to what the
\* child has, and nothing the receive loop reads but isSpecializing.
LEMMA SpecializeKeepsBridge ==
    ASSUME BridgeInv, NEW n \in Numbers, Specialize(n)
    PROVE  BridgeInv'
<1> USE DEF BridgeInv
<1>1. /\ UNCHANGED <<hostVars, runVars, savedVars, childStream, childConnected,
                     childInitDone, handled, childOut>>
      /\ specPc[n] # "idle"
    BY DEF Specialize, NoUsableBinary, CloseNoChildMode, ClearSpecializing, StartChild,
           ChildIsConnected, ReplayInit, ReplyToReload, chanVars, childVars
<1>2. /\ fate[n] = "local" /\ hostOut[n] = "reload" /\ savedReloadRequestId \in Numbers
      /\ n < next /\ n # 1 /\ savedInitRequest = 1 /\ 1 \in Numbers
  <2>1. /\ fate[n] = "local" /\ hostOut[n] = "reload" /\ savedReloadRequestId # None
        /\ n < next /\ n \in 1..Len(hostOut)
      BY <1>1, LenProperties DEF SpecializesReloads, LoopInOrder, TypeOK
  <2>2. n # 1
      BY <2>1 DEF HostStartsWithInit
  <2> QED
      BY <2>1, <2>2 DEF LoopInOrder, TypeOK
<1>3. /\ noChildMode' \in BOOLEAN /\ bridge' \in BOOLEAN
      /\ exited' \in {"no", "terminated", "eof", "child", "panic", "fatal"}
    BY DEF Specialize, NoUsableBinary, CloseNoChildMode, ClearSpecializing, StartChild,
           ChildIsConnected, ReplayInit, ReplyToReload, chanVars, childVars, TypeOK, Exit
<1>4. isSpecializing' \in BOOLEAN /\ (isSpecializing' => isSpecializing)
  <2>1. isSpecializing' \in BOOLEAN
      BY DEF Specialize, NoUsableBinary, CloseNoChildMode, ClearSpecializing, StartChild,
             ChildIsConnected, ReplayInit, ReplyToReload, TypeOK
  <2>2. isSpecializing' => isSpecializing
      BY DEF Specialize, NoUsableBinary, CloseNoChildMode, ClearSpecializing, StartChild,
             ChildIsConnected, ReplayInit, ReplyToReload
  <2> QED
      BY <2>1, <2>2
<1>5. toHost' \in Seq(Numbers)
  <2>1. toHost' = Append(toHost, savedReloadRequestId) \/ toHost' = toHost
      BY DEF Specialize, NoUsableBinary, CloseNoChildMode, ClearSpecializing, StartChild,
             ChildIsConnected, ReplayInit, ReplyToReload
  <2>2. toHost \in Seq(Numbers) /\ savedReloadRequestId \in Numbers
      BY <1>2 DEF TypeOK
  <2>3. Append(toHost, savedReloadRequestId) \in Seq(Numbers)
      BY <2>2, AppendProperties
  <2> QED
      BY <2>1, <2>2, <2>3
<1>6. /\ specPc' \in [Numbers -> SpecPcs] /\ child' \in {child, "started"}
      /\ \A m \in Numbers : m # n => specPc'[m] = specPc[m]
      /\ specPc'[n] # "idle"
    BY DEF Specialize, NoUsableBinary, CloseNoChildMode, ClearSpecializing, StartChild,
           ChildIsConnected, ReplayInit, ReplyToReload, childVars, TypeOK, SpecPcs
<1>7. /\ specPc[n] \in {"await", "replay", "reply", "end"} =>
            specPc'[n] \in {"await", "replay", "reply", "end"}
      /\ child' # child => specPc'[n] = "await" /\ child' = "started"
    BY DEF Specialize, NoUsableBinary, CloseNoChildMode, ClearSpecializing, StartChild,
           ChildIsConnected, ReplayInit, ReplyToReload, childVars, TypeOK
<1>8. toChild' = toChild \/ toChild' = Append(toChild, 1)
    BY <1>2
    DEF Specialize, NoUsableBinary, CloseNoChildMode, ClearSpecializing, StartChild,
        ChildIsConnected, ReplayInit, ReplyToReload, childVars
<1>9. /\ Append(toChild, 1) \in Seq(Numbers \cup {None}) /\ Len(toChild) \in Nat
      /\ 1..Len(Append(toChild, 1)) = (1..Len(toChild)) \cup {Len(toChild) + 1}
      /\ \A k \in 1..Len(toChild) : Append(toChild, 1)[k] = toChild[k]
      /\ Append(toChild, 1)[Len(toChild) + 1] = 1
  <2>1. toChild \in Seq(Numbers \cup {None}) /\ 1 \in Numbers \cup {None}
      BY <1>2 DEF TypeOK
  <2> QED
      BY <2>1, Appended
<1>10. TypeOK'
    BY <1>1, <1>3, <1>4, <1>5, <1>6, <1>8, <1>9
    DEF TypeOK, hostVars, runVars, savedVars
<1>11. HostStartsWithInit' /\ LoopInOrder' /\ ForwardsByStream' /\ ForwardingIsFinal'
    BY <1>1, <1>4
    DEF HostStartsWithInit, LoopInOrder, ForwardsByStream, ForwardingIsFinal,
        hostVars, runVars, savedVars
<1>12. SpecializesReloads'
    BY <1>1, <1>2, <1>6 DEF SpecializesReloads, hostVars, runVars, savedVars
<1>13. ChildIsStarted'
  <2>1. childStream' => child' # "none"
      BY <1>1, <1>6 DEF ChildIsStarted
  <2>2. child' \in {"connecting", "connected"} \/ childOut' # <<>> \/ childInitDone'
            => childStream'
      BY <1>1, <1>6 DEF ChildIsStarted
  <2>3. ASSUME child' # "none"
        PROVE  \E m \in Numbers : specPc'[m] \in {"await", "replay", "reply", "end"}
      BY <1>6, <1>7, <2>3 DEF ChildIsStarted
  <2> QED
      BY <2>1, <2>2, <2>3 DEF ChildIsStarted
<1>14. ChildMessages'
  <2>1. CASE toChild' = toChild
      BY <1>1, <2>1 DEF ChildMessages, runVars
  <2>2. CASE toChild' = Append(toChild, 1)
    <3>1. \A k \in 1..Len(toChild') :
             \/ k \in 1..Len(toChild) /\ toChild'[k] = toChild[k]
             \/ k = Len(toChild) + 1 /\ toChild'[k] = 1
        BY <1>9, <2>2
    <3>2. 1 \in 1..(next - 1) /\ next' = next /\ fate' = fate
        BY <1>1, <1>2 DEF runVars, TypeOK
    <3> QED
        BY <3>1, <3>2 DEF ChildMessages
  <2> QED
      BY <1>8, <2>1, <2>2
<1> QED
    BY <1>10, <1>11, <1>12, <1>13, <1>14

\* The child connects, works and dies; the response loop reads from it.
LEMMA ChildKeepsBridge ==
    ASSUME BridgeInv, ChildSteps \/ BridgeForwards \/ ChildDies
    PROVE  BridgeInv'
<1> USE DEF BridgeInv
<1>1. UNCHANGED <<hostVars, runVars, savedVars, isSpecializing, noChildMode, specPc,
                  toChild, bridge>>
    BY DEF ChildSteps, EventStream, EventStreamSignals, ChildHandles, BridgeForwards,
           ChildDies, chanVars
<1>2. /\ childStream' \in BOOLEAN /\ childConnected' \in BOOLEAN
      /\ childInitDone' \in BOOLEAN
    BY DEF ChildSteps, EventStream, EventStreamSignals, ChildHandles, BridgeForwards,
           ChildDies, chanVars, TypeOK
<1>3. /\ child' \in {"connecting", "connected", "dead", child} /\ child # "none"
      /\ childStream => childStream'
      /\ child' \in {"connecting", "connected"} \/ childOut' # <<>> \/ childInitDone'
            => childStream'
  <2>1. CASE EventStream
      BY <2>1 DEF EventStream, TypeOK
  <2>2. CASE EventStreamSignals \/ ChildDies
      BY <2>2 DEF EventStreamSignals, ChildDies, ChildIsStarted, chanVars
  <2>3. ASSUME NEW k \in DOMAIN toChild, ChildHandles(k)
        PROVE  /\ child' = child /\ child \in {"connecting", "connected"}
               /\ childStream' = childStream /\ childStream
      BY <2>3 DEF ChildHandles, ChildIsStarted
  <2>4. CASE BridgeForwards
      BY <2>4 DEF BridgeForwards, ChildIsStarted
  <2> QED
      BY <2>1, <2>2, <2>3, <2>4 DEF ChildSteps
<1>4. childOut' \in Seq(Numbers \cup {None}) /\ toHost' \in Seq(Numbers)
      /\ handled' \in SUBSET Nat
  <2>1. CASE EventStream
      BY <2>1, AppendProperties DEF EventStream, TypeOK
  <2>2. CASE EventStreamSignals \/ ChildDies
      BY <2>2 DEF EventStreamSignals, ChildDies, TypeOK
  <2>3. ASSUME NEW k \in DOMAIN toChild, ChildHandles(k)
        PROVE  childOut' \in Seq(Numbers \cup {None}) /\ toHost' \in Seq(Numbers)
               /\ handled' \in SUBSET Nat
    <3>1. toChild \in Seq(Numbers \cup {None}) /\ childOut \in Seq(Numbers \cup {None})
        BY DEF TypeOK
    <3>2. k \in Nat /\ toChild[k] \in Numbers \cup {None}
        BY <3>1, LenProperties, ElementOfSeq
    <3>3. Append(childOut, toChild[k]) \in Seq(Numbers \cup {None})
        BY <3>1, <3>2, AppendProperties
    <3> QED
        BY <2>3, <3>1, <3>2, <3>3 DEF ChildHandles, TypeOK
  <2>4. CASE BridgeForwards
    <3>1. Head(childOut) \in Numbers \cup {None} /\ Tail(childOut) \in Seq(Numbers \cup {None})
        BY <2>4, HeadTailProperties DEF BridgeForwards, TypeOK
    <3>2. toHost' = toHost \/ (Head(childOut) # None /\ toHost' = Append(toHost, Head(childOut)))
        BY <2>4 DEF BridgeForwards
    <3>3. toHost' \in Seq(Numbers)
      <4>1. toHost \in Seq(Numbers)
          BY DEF TypeOK
      <4>2. ASSUME Head(childOut) # None PROVE Append(toHost, Head(childOut)) \in Seq(Numbers)
        <5>1. Head(childOut) \in Numbers
            BY <3>1, <4>2
        <5> QED
            BY <4>1, <5>1, AppendProperties
      <4> QED
          BY <3>2, <4>1, <4>2
    <3> QED
        BY <2>4, <3>1, <3>3 DEF BridgeForwards, TypeOK
  <2> QED
      BY <2>1, <2>2, <2>3, <2>4 DEF ChildSteps
<1>5. exited' \in {"no", "terminated", "eof", "child", "panic", "fatal"}
    BY DEF ChildSteps, EventStream, EventStreamSignals, ChildHandles, BridgeForwards,
           ChildDies, TypeOK, Exit
<1>6. TypeOK'
    BY <1>1, <1>2, <1>3, <1>4, <1>5 DEF TypeOK, hostVars, runVars, savedVars
<1>7. HostStartsWithInit' /\ LoopInOrder' /\ SpecializesReloads'
    BY <1>1
    DEF HostStartsWithInit, LoopInOrder, SpecializesReloads, hostVars, runVars, savedVars
<1>8. ChildIsStarted'
    BY <1>1, <1>3 DEF ChildIsStarted
<1>9. ForwardsByStream' /\ ForwardingIsFinal' /\ ChildMessages'
    BY <1>1, <1>3 DEF ForwardsByStream, ForwardingIsFinal, ChildMessages, runVars
<1> QED
    BY <1>6, <1>7, <1>8, <1>9

\* The ends of the process leave everything else as it is.
LEMMA ExitKeepsBridge ==
    ASSUME BridgeInv,
           PlaceholderTerminates \/ HostStreamEnds \/ MonitorExits \/ UNCHANGED vars
    PROVE  BridgeInv'
<1> USE DEF BridgeInv
<1>1. /\ UNCHANGED <<hostVars, runVars, toHost, savedVars, isSpecializing, childStream,
                     chanVars, specPc, childVars, bridge>>
      /\ exited' \in {exited, "terminated", "eof", "child"}
    BY DEF PlaceholderTerminates, HostStreamEnds, MonitorExits, Exit, vars
<1>2. TypeOK'
    BY <1>1 DEF TypeOK, hostVars, runVars, savedVars, chanVars, childVars
<1>3. HostStartsWithInit' /\ LoopInOrder' /\ SpecializesReloads'
    BY <1>1
    DEF HostStartsWithInit, LoopInOrder, SpecializesReloads, hostVars, runVars, savedVars
<1>4. ChildIsStarted' /\ ForwardsByStream' /\ ForwardingIsFinal' /\ ChildMessages'
    BY <1>1
    DEF ChildIsStarted, ForwardsByStream, ForwardingIsFinal, ChildMessages, runVars,
        chanVars, childVars
<1> QED
    BY <1>2, <1>3, <1>4

\* Every step of the proxy, the host and the children keeps the invariant.
LEMMA BridgeInvStep == BridgeInv /\ [Next]_vars => BridgeInv'
BY HostSendsKeepsBridge, LoopDecidesKeepsBridge, PlaceholderKeepsBridge,
   ForwardKeepsBridge, SpecializeKeepsBridge, ChildKeepsBridge, ExitKeepsBridge
DEF Next, RunSteps

\* The invariant of the bridge holds in every reachable state.
THEOREM BridgeInvHolds == Spec => []BridgeInv
BY BridgeInvInit, BridgeInvStep, PTL DEF Spec

-----------------------------------------------------------------------------
(* One reload: the proof.                                                  *)

\* There is one specialize goroutine, and a message number is where the
\* sequences say it is.
LEMMA SingleFacts ==
    ASSUME BridgeInv, SingleReloadInv
    PROVE  /\ \A m, n \in Numbers : specPc[m] # "idle" /\ specPc[n] # "idle" => m = n
           /\ \A j \in 1..Len(toHost) : toHost[j] \in Numbers
           /\ \A k \in 1..Len(toChild) : toChild[k] \in Numbers /\ toChild[k] < next
           /\ Len(toHost) \in Nat /\ Len(toChild) \in Nat /\ Len(childOut) \in Nat
           /\ Len(hostOut) \in Nat
           /\ DOMAIN toHost = 1..Len(toHost) /\ DOMAIN toChild = 1..Len(toChild)
           /\ \A n \in Numbers : n < next => n \in 1..Len(hostOut)
<1>1. \A m, n \in Numbers : specPc[m] # "idle" /\ specPc[n] # "idle" => m = n
    BY DEF SingleReloadInv, OneSpecialize
<1>2. /\ hostOut \in Seq(Kinds) /\ toHost \in Seq(Numbers)
      /\ toChild \in Seq(Numbers \cup {None}) /\ childOut \in Seq(Numbers \cup {None})
      /\ next \in 1..(MaxMessages + 1)
    BY DEF BridgeInv, TypeOK
<1>3. /\ Len(toHost) \in Nat /\ Len(toChild) \in Nat /\ Len(childOut) \in Nat
      /\ Len(hostOut) \in Nat
      /\ DOMAIN toHost = 1..Len(toHost) /\ DOMAIN toChild = 1..Len(toChild)
    BY <1>2, LenProperties
<1>4. \A j \in 1..Len(toHost) : toHost[j] \in Numbers
    BY <1>2, ElementOfSeq
<1>5. \A k \in 1..Len(toChild) : toChild[k] \in Numbers /\ toChild[k] < next
    BY <1>2 DEF BridgeInv, ChildMessages
<1>6. \A n \in Numbers : n < next => n \in 1..Len(hostOut)
    BY <1>2, <1>3 DEF BridgeInv, LoopInOrder
<1> QED
    BY <1>1, <1>3, <1>4, <1>5, <1>6

\* No reload has been asked for when the proxy starts.
LEMMA SingleInit == Init => SingleReloadInv
<1> SUFFICES ASSUME Init PROVE SingleReloadInv
    OBVIOUS
<1>1. /\ Len(hostOut) = 0 /\ Len(toChild) = 0 /\ Len(toHost) = 0 /\ Len(childOut) = 0
      /\ DOMAIN toHost = {}
    BY EmptySeq DEF Init
<1>2. OneReload /\ OneSpecialize /\ OnceThroughChild
    BY <1>1 DEF Init, OneReload, OneSpecialize, OnceThroughChild
<1>3. AnswersAccounted /\ NoPanic
    BY <1>1 DEF Init, AnswersAccounted, AnsweredAtMostOnce, NoPanic
<1> QED
    BY <1>2, <1>3 DEF SingleReloadInv

\* A second reload request is not sent to a container that is specialized
\* once.
LEMMA HostSendsKeepsSingle ==
    ASSUME MaxReloads <= 1, BridgeInv, SingleReloadInv, NEW kind \in Kinds, HostSends(kind)
    PROVE  SingleReloadInv'
<1> USE DEF SingleReloadInv
<1>1. UNCHANGED <<runVars, toHost, savedVars, isSpecializing, childStream,
                  chanVars, specPc, childVars, bridge, exited>>
    BY DEF HostSends
<1>2. /\ Len(hostOut) \in Nat
      /\ 1..Len(hostOut') = (1..Len(hostOut)) \cup {Len(hostOut) + 1}
      /\ \A n \in 1..Len(hostOut) : hostOut'[n] = hostOut[n]
      /\ hostOut'[Len(hostOut) + 1] = kind
    BY Appended DEF HostSends, BridgeInv, TypeOK
<1>3. OneReload'
  <2>1. ASSUME kind = "reload" PROVE \A n \in 1..Len(hostOut) : hostOut[n] # "reload"
    <3>1. Reloads \subseteq 1..Len(hostOut)
        BY LenProperties DEF Reloads, BridgeInv, TypeOK
    <3>2. IsFiniteSet(Reloads)
      <4>1. IsFiniteSet(1..Len(hostOut))
          BY <1>2, FS_Interval
      <4> QED
          BY <3>1, <4>1, FS_Subset
    <3>3. Cardinality(Reloads) \in Nat /\ Cardinality(Reloads) < 1
        BY <2>1, <3>2, FS_CardinalityType DEF HostSends
    <3>4. Reloads = {}
        BY <3>2, <3>3, FS_EmptySet
    <3> QED
        BY <3>4, LenProperties DEF Reloads, BridgeInv, TypeOK
  <2> QED
      BY <1>2, <2>1 DEF OneReload
<1>4. OneSpecialize' /\ NoPanic'
    BY <1>1 DEF OneSpecialize, NoPanic, savedVars, chanVars, childVars
<1>5. OnceThroughChild'
    BY <1>1 DEF OnceThroughChild, Handled, chanVars, childVars
<1>6. AnswersAccounted'
  <2>1. \A j \in 1..Len(toHost) : hostOut'[toHost[j]] = hostOut[toHost[j]]
      BY <1>2, SingleFacts DEF AnswersAccounted
  <2> QED
      BY <1>1, <2>1
      DEF AnswersAccounted, AnsweredAtMostOnce, Handled, runVars, childVars
<1> QED
    BY <1>3, <1>4, <1>5, <1>6

\* Steps that move none of the messages and start no goroutine.
LEMMA QuietKeepsSingle ==
    ASSUME BridgeInv, SingleReloadInv,
           \/ TakeMessage \/ WaitEnds \/ PlaceholderTerminates \/ HostStreamEnds
           \/ MonitorExits \/ EventStreamSignals \/ ChildDies \/ UNCHANGED vars
    PROVE  SingleReloadInv'
<1> USE DEF SingleReloadInv
<1>1. /\ UNCHANGED <<hostVars, next, fate, toHost, savedVars, childInitDone, noChildMode,
                     specPc, toChild, handled, childOut>>
      /\ child' = "none" <=> child = "none"
      /\ exited' \in {exited, "terminated", "eof", "child"}
    BY DEF TakeMessage, WaitEnds, PlaceholderTerminates, HostStreamEnds, MonitorExits,
           EventStreamSignals, ChildDies, vars, runVars, chanVars, childVars, Exit
<1>2. OneReload' /\ NoPanic'
    BY <1>1 DEF OneReload, NoPanic, hostVars
<1>3. OneSpecialize'
    BY <1>1 DEF OneSpecialize, savedVars
<1>4. OnceThroughChild'
    BY <1>1 DEF OnceThroughChild, Handled
<1>5. AnswersAccounted'
    BY <1>1 DEF AnswersAccounted, AnsweredAtMostOnce, Handled, hostVars
<1> QED
    BY <1>2, <1>3, <1>4, <1>5

\* An answer to a message that had none.
LEMMA NewAnswer ==
    ASSUME BridgeInv, AnsweredAtMostOnce, NEW m \in Numbers, toHost' = Append(toHost, m),
           \A j \in 1..Len(toHost) : toHost[j] # m
    PROVE  /\ AnsweredAtMostOnce'
           /\ \A j \in 1..Len(toHost') :
                 toHost'[j] = m \/ (j \in 1..Len(toHost) /\ toHost'[j] = toHost[j])
<1>1. /\ toHost' \in Seq(Numbers) /\ Len(toHost) \in Nat
      /\ 1..Len(toHost') = (1..Len(toHost)) \cup {Len(toHost) + 1}
      /\ \A j \in 1..Len(toHost) : toHost'[j] = toHost[j]
      /\ toHost'[Len(toHost) + 1] = m
  <2>1. toHost \in Seq(Numbers)
      BY DEF BridgeInv, TypeOK
  <2> QED
      BY <2>1, Appended
<1>2. DOMAIN toHost = 1..Len(toHost) /\ DOMAIN toHost' = 1..Len(toHost')
    BY <1>1, LenProperties DEF BridgeInv, TypeOK
<1> QED
    BY <1>1, <1>2 DEF AnsweredAtMostOnce

\* The placeholder answers a message for the first time, or takes up the
\* reload request.
LEMMA PlaceholderKeepsSingle ==
    ASSUME BridgeInv, SingleReloadInv,
           PlaceholderAnswers \/ PlaceholderReloads \/ PlaceholderIgnores
    PROVE  SingleReloadInv'
<1> USE DEF SingleReloadInv
<1>1. /\ UNCHANGED <<hostVars, childStream, chanVars, childVars, bridge, exited>>
      /\ Finish("local") /\ runPc = "placeholder"
    BY DEF PlaceholderAnswers, PlaceholderReloads, PlaceholderIgnores
<1>2. next \in Numbers /\ next \in 1..Len(hostOut) /\ fate[next] = "none"
  <2>1. next <= Len(hostOut) /\ Len(hostOut) <= MaxMessages /\ next \in Nat /\ next >= 1
      BY <1>1 DEF BridgeInv, LoopInOrder, TypeOK
  <2>2. next \in Numbers /\ next \in 1..Len(hostOut)
      BY <2>1, SingleFacts
  <2> QED
      BY <2>1, <2>2 DEF BridgeInv, LoopInOrder
<1>3. /\ next' = next + 1 /\ fate'[next] = "local"
      /\ \A n \in Numbers : n # next => fate'[n] = fate[n]
    BY <1>1, <1>2 DEF Finish, BridgeInv, TypeOK
<1>4. OneReload' /\ NoPanic' /\ OnceThroughChild'
    BY <1>1
    DEF OneReload, NoPanic, OnceThroughChild, Handled, hostVars, chanVars, childVars
<1>5. specPc[next] = "idle"
    BY <1>2 DEF BridgeInv, SpecializesReloads
<1>6. \A j \in 1..Len(toHost) : toHost[j] \in Numbers /\ toHost[j] < next /\ toHost[j] # next
    BY <1>2, SingleFacts DEF AnswersAccounted
<1>7. \A m : Handled(m)' <=> Handled(m)
    BY <1>1 DEF Handled, childVars
<1>8. \A i \in 1..Len(childOut) : childOut[i] # next
  <2>1. \A k \in 1..Len(toChild) : toChild[k] # next
      BY <1>2, SingleFacts
  <2> QED
      BY <1>2, <2>1 DEF OnceThroughChild, Handled
<1>9. CASE PlaceholderAnswers
  <2>1. OneSpecialize'
      BY <1>1, <1>9 DEF PlaceholderAnswers, OneSpecialize, chanVars, childVars
  <2>2. /\ AnsweredAtMostOnce'
        /\ \A j \in 1..Len(toHost') :
              toHost'[j] = next \/ (j \in 1..Len(toHost) /\ toHost'[j] = toHost[j])
      BY <1>2, <1>6, <1>9, NewAnswer DEF PlaceholderAnswers, AnswersAccounted
  <2>3. hostOut[next] # "reload" /\ hostOut' = hostOut /\ specPc' = specPc
        /\ childOut' = childOut
      BY <1>1, <1>9 DEF PlaceholderAnswers, Kind, Answered, hostVars, childVars
  <2>4. \A j \in 1..Len(toHost') : toHost'[j] < next'
      BY <1>2, <1>3, <1>6, <2>2
  <2>5. ASSUME NEW j \in 1..Len(toHost'), fate'[toHost'[j]] = "local",
               hostOut'[toHost'[j]] = "reload"
        PROVE  specPc'[toHost'[j]] \in {"close", "clear", "end"}
    <3>1. toHost'[j] # next
        BY <2>3, <2>5
    <3>2. j \in 1..Len(toHost) /\ toHost'[j] = toHost[j]
        BY <2>2, <3>1
    <3>3. fate[toHost[j]] = "local" /\ hostOut[toHost[j]] = "reload"
        BY <1>3, <1>6, <2>3, <2>5, <3>2
    <3> QED
        BY <2>3, <3>2, <3>3 DEF AnswersAccounted
  <2>6. ASSUME NEW j \in 1..Len(toHost'), fate'[toHost'[j]] # "local"
        PROVE  Handled(toHost[j])'
    <3>1. toHost'[j] # next
        BY <1>3, <2>6
    <3>2. j \in 1..Len(toHost) /\ toHost'[j] = toHost[j]
        BY <2>2, <3>1
    <3>3. fate[toHost[j]] # "local"
        BY <1>3, <1>6, <2>6, <3>2
    <3>4. Handled(toHost[j])
        BY <3>2, <3>3 DEF AnswersAccounted
    <3> QED
        BY <1>1, <3>2, <3>4 DEF Handled, childVars
  <2>7. \A i \in 1..Len(childOut'), j \in 1..Len(toHost') :
           childOut'[i] = toHost'[j] => childOut'[i] = 1
      BY <1>8, <2>2, <2>3 DEF AnswersAccounted
  <2>8. AnswersAccounted'
      BY <2>2, <2>4, <2>5, <2>6, <2>7 DEF AnswersAccounted
  <2> QED
      BY <1>4, <2>1, <2>8
<1>10. ASSUME UNCHANGED toHost,
              \A n \in Numbers : n # next => specPc'[n] = specPc[n]
       PROVE  AnswersAccounted'
  <2>1. hostOut' = hostOut /\ childOut' = childOut
      BY <1>1 DEF hostVars, childVars
  <2>2. \A j \in 1..Len(toHost) : toHost[j] < next'
      BY <1>2, <1>3, <1>6
  <2> QED
      BY <1>3, <1>6, <1>7, <1>10, <2>1, <2>2 DEF AnswersAccounted, AnsweredAtMostOnce
<1>11. CASE PlaceholderReloads
  <2>1. hostOut[next] = "reload" /\ specPc' = [specPc EXCEPT ![next] = "stat"]
        /\ savedReloadRequestId' = next /\ toHost' = toHost
      BY <1>11 DEF PlaceholderReloads, Kind
  <2>2. ASSUME NEW n \in Numbers PROVE specPc[n] = "idle"
    <3>1. SUFFICES ASSUME specPc[n] # "idle" PROVE FALSE
        OBVIOUS
    <3>2. fate[n] = "local" /\ hostOut[n] = "reload"
        BY <3>1 DEF BridgeInv, SpecializesReloads
    <3>3. n \in 1..Len(hostOut)
        BY <3>2, SingleFacts DEF BridgeInv, LoopInOrder
    <3> QED
        BY <1>2, <2>1, <3>2, <3>3 DEF OneReload
  <2>3. /\ specPc' \in [Numbers -> SpecPcs] /\ specPc'[next] = "stat"
        /\ \A n \in Numbers : n # next => specPc'[n] = specPc[n] /\ specPc'[n] = "idle"
      BY <1>2, <2>1, <2>2 DEF BridgeInv, TypeOK, SpecPcs
  <2>4. /\ child' = "none" /\ ~noChildMode' /\ toChild' = toChild
        /\ \A k \in 1..Len(toChild) : toChild[k] # 1
      BY <1>1, <2>2 DEF BridgeInv, ChildIsStarted, OneSpecialize, chanVars, childVars
  <2>5. OneSpecialize'
      BY <2>1, <2>3, <2>4 DEF OneSpecialize
  <2> QED
      BY <1>4, <1>10, <2>1, <2>3, <2>5
<1>12. CASE PlaceholderIgnores
  <2>1. UNCHANGED <<toHost, specPc, savedReloadRequestId>>
      BY <1>12 DEF PlaceholderIgnores, savedVars
  <2>2. OneSpecialize'
      BY <1>1, <2>1 DEF OneSpecialize, chanVars, childVars
  <2> QED
      BY <1>4, <1>10, <2>1, <2>2
<1> QED
    BY <1>9, <1>11, <1>12

\* A message is forwarded once: the child has seen only earlier ones.
LEMMA ForwardKeepsSingle ==
    ASSUME BridgeInv, SingleReloadInv, ForwardToChild
    PROVE  SingleReloadInv'
<1> USE DEF SingleReloadInv
<1>1. /\ UNCHANGED <<hostVars, toHost, savedVars, isSpecializing, childStream,
                     chanVars, specPc, child, handled, childOut, bridge, exited>>
      /\ runPc = "forward"
    BY DEF ForwardToChild
<1>2. PICK f \in {"child", "failed"} :
         /\ Finish(f)
         /\ \/ f = "child" /\ toChild' = Append(toChild, next)
            \/ toChild' = toChild
    BY DEF ForwardToChild
<1>3. /\ next \in Numbers /\ next' = next + 1 /\ next # 1
      /\ fate'[next] = f /\ \A n \in Numbers : n # next => fate'[n] = fate[n]
  <2>1. next <= Len(hostOut) /\ next # 1
      BY <1>1 DEF BridgeInv, LoopInOrder
  <2> QED
      BY <1>1, <1>2, <2>1, FinishKeepsLoop DEF hostVars, savedVars
<1>4. /\ Len(toChild) \in Nat
      /\ 1..Len(Append(toChild, next)) = (1..Len(toChild)) \cup {Len(toChild) + 1}
      /\ \A k \in 1..Len(toChild) : Append(toChild, next)[k] = toChild[k]
      /\ Append(toChild, next)[Len(toChild) + 1] = next
  <2>1. toChild \in Seq(Numbers \cup {None}) /\ next \in Numbers \cup {None}
      BY <1>3 DEF BridgeInv, TypeOK
  <2> QED
      BY <2>1, Appended
<1>5. /\ \A k \in 1..Len(toChild) : k \in 1..Len(toChild') /\ toChild'[k] = toChild[k]
      /\ \A k \in 1..Len(toChild') :
            k \in 1..Len(toChild) \/ (k = Len(toChild) + 1 /\ toChild'[k] = next)
    BY <1>2, <1>4
<1>6. OneReload' /\ NoPanic'
    BY <1>1 DEF OneReload, NoPanic, hostVars
<1>7. OneSpecialize'
    BY <1>1, <1>3, <1>5 DEF OneSpecialize, savedVars, chanVars
<1>8. \A m : Handled(m) => Handled(m)'
    BY <1>1, <1>5 DEF Handled
<1>9. OnceThroughChild'
  <2>1. \A k \in 1..Len(toChild) : toChild[k] # next
      BY <1>3, SingleFacts
  <2>2. \A j, k \in 1..Len(toChild') : toChild'[j] = toChild'[k] => j = k
      BY <1>5, <2>1 DEF OnceThroughChild
  <2> QED
      BY <1>1, <1>8, <2>2 DEF OnceThroughChild, chanVars
<1>10. AnswersAccounted'
  <2>1. \A j \in 1..Len(toHost) : toHost[j] \in Numbers /\ toHost[j] < next /\ toHost[j] # next
      BY <1>3, SingleFacts DEF AnswersAccounted
  <2>2. \A j \in 1..Len(toHost) : toHost[j] < next'
      BY <1>3, <2>1
  <2> QED
      BY <1>1, <1>3, <1>8, <2>1, <2>2 DEF AnswersAccounted, AnsweredAtMostOnce, hostVars
<1> QED
    BY <1>6, <1>7, <1>9, <1>10

\* The specialize goroutine answers once, closes noChildMode once and
\* replays the init request once.
LEMMA SpecializeKeepsSingle ==
    ASSUME BridgeInv, SingleReloadInv, NEW n \in Numbers, Specialize(n)
    PROVE  SingleReloadInv'
<1> USE DEF SingleReloadInv
<1>1. /\ UNCHANGED <<hostVars, runVars, savedVars, childInitDone, handled, childOut>>
      /\ specPc[n] # "idle"
    BY DEF Specialize, NoUsableBinary, CloseNoChildMode, ClearSpecializing, StartChild,
           ChildIsConnected, ReplayInit, ReplyToReload, chanVars, childVars
<1>2. /\ fate[n] = "local" /\ hostOut[n] = "reload" /\ savedReloadRequestId = n
      /\ n < next /\ n # 1 /\ savedInitRequest = 1
  <2>1. /\ fate[n] = "local" /\ hostOut[n] = "reload" /\ savedReloadRequestId = n
        /\ n < next /\ n \in 1..Len(hostOut)
      BY <1>1, SingleFacts DEF OneSpecialize, BridgeInv, SpecializesReloads, LoopInOrder
  <2>2. n # 1
      BY <2>1 DEF BridgeInv, HostStartsWithInit
  <2> QED
      BY <2>1, <2>2 DEF BridgeInv, LoopInOrder, TypeOK
<1>3. \A m \in Numbers : m # n => specPc[m] = "idle"
    BY <1>1, SingleFacts
<1>4. OneReload'
    BY <1>1 DEF OneReload, hostVars
<1>5. \A i \in 1..Len(childOut) : childOut[i] # n
  <2>1. \A k \in 1..Len(toChild) : toChild[k] # n
      BY <1>2 DEF BridgeInv, ChildMessages
  <2> QED
      BY <2>1 DEF OnceThroughChild, Handled
<1>6. ASSUME toHost' = Append(toHost, n), UNCHANGED <<toChild, childInitDone>>,
             specPc[n] \in {"stat", "reply"}, specPc'[n] \in {"close", "end"}
      PROVE  AnswersAccounted'
  <2>1. \A j \in 1..Len(toHost) : toHost[j] # n
      BY <1>2, <1>6 DEF AnswersAccounted
  <2>2. /\ AnsweredAtMostOnce'
        /\ \A j \in 1..Len(toHost') :
              toHost'[j] = n \/ (j \in 1..Len(toHost) /\ toHost'[j] = toHost[j])
      BY <1>6, <2>1, NewAnswer DEF AnswersAccounted
  <2>3. next' = next /\ fate' = fate /\ hostOut' = hostOut
      BY <1>1 DEF runVars, hostVars
  <2>4. ASSUME NEW j \in 1..Len(toHost'), fate'[toHost'[j]] = "local",
               hostOut'[toHost'[j]] = "reload"
        PROVE  specPc'[toHost'[j]] \in {"close", "clear", "end"}
    <3>1. CASE toHost'[j] = n
        BY <1>6, <3>1
    <3>2. CASE toHost'[j] # n
      <4>1. j \in 1..Len(toHost) /\ toHost'[j] = toHost[j] /\ toHost[j] \in Numbers
          BY <2>2, <3>2, SingleFacts
      <4>2. specPc[toHost[j]] \in {"close", "clear", "end"}
          BY <2>3, <2>4, <4>1 DEF AnswersAccounted
      <4> QED
          BY <1>3, <3>2, <4>1, <4>2
    <3> QED
        BY <3>1, <3>2
  <2>5. \A m : Handled(m)' <=> Handled(m)
      BY <1>1, <1>6 DEF Handled
  <2>6. \A j \in 1..Len(toHost') : toHost'[j] < next'
      BY <1>2, <2>2, <2>3 DEF AnswersAccounted
  <2>7. ASSUME NEW j \in 1..Len(toHost'), fate'[toHost'[j]] # "local"
        PROVE  Handled(toHost[j])'
    <3>1. j \in 1..Len(toHost) /\ toHost'[j] = toHost[j]
        BY <1>2, <2>2, <2>3, <2>7
    <3>2. Handled(toHost[j])
        BY <2>3, <2>7, <3>1 DEF AnswersAccounted
    <3> QED
        BY <1>1, <1>6, <3>1, <3>2 DEF Handled
  <2>8. \A i \in 1..Len(childOut'), j \in 1..Len(toHost') :
           childOut'[i] = toHost'[j] => childOut'[i] = 1
      BY <1>1, <1>5, <2>2 DEF AnswersAccounted
  <2> QED
      BY <2>2, <2>4, <2>6, <2>7, <2>8 DEF AnswersAccounted
<1>7. ASSUME UNCHANGED toHost, \A m \in Numbers : m # n => specPc'[m] = specPc[m],
             specPc[n] \in {"close", "clear", "end"} =>
                 specPc'[n] \in {"close", "clear", "end"},
             \A m : Handled(m) => Handled(m)'
      PROVE  AnswersAccounted'
  <2>1. \A j \in 1..Len(toHost) : specPc[toHost[j]] \in {"close", "clear", "end"} =>
            specPc'[toHost[j]] \in {"close", "clear", "end"}
      BY <1>7, SingleFacts
  <2> QED
      BY <1>1, <1>7, <2>1
      DEF AnswersAccounted, AnsweredAtMostOnce, hostVars, runVars
<1>8. ASSUME UNCHANGED toChild
      PROVE  OnceThroughChild' /\ \A m : Handled(m) => Handled(m)'
    BY <1>1, <1>8 DEF OnceThroughChild, Handled
<1>9. /\ specPc' \in [Numbers -> SpecPcs]
      /\ \A m \in Numbers : m # n => specPc'[m] = specPc[m] /\ specPc'[m] = "idle"
      /\ savedReloadRequestId' = n
  <2>1. /\ specPc' \in [Numbers -> SpecPcs]
        /\ \A m \in Numbers : m # n => specPc'[m] = specPc[m]
      BY DEF Specialize, NoUsableBinary, CloseNoChildMode, ClearSpecializing, StartChild,
             ChildIsConnected, ReplayInit, ReplyToReload, BridgeInv, TypeOK, SpecPcs
  <2> QED
      BY <1>1, <1>2, <1>3, <2>1 DEF savedVars
<1>10. CASE NoUsableBinary(n)
  <2>1. /\ toHost' = Append(toHost, n) /\ specPc[n] = "stat" /\ specPc'[n] = "close"
        /\ UNCHANGED <<toChild, child, childInitDone, noChildMode, exited>>
      BY <1>2, <1>10 DEF NoUsableBinary, chanVars, childVars, BridgeInv, TypeOK
  <2>2. OneSpecialize'
      BY <1>3, <1>9, <2>1 DEF OneSpecialize
  <2> QED
      BY <1>4, <1>6, <1>8, <2>1, <2>2 DEF NoPanic
<1>11. CASE CloseNoChildMode(n)
  <2>1. ~noChildMode
      BY <1>3, <1>11 DEF CloseNoChildMode, OneSpecialize
  <2>2. /\ specPc[n] = "close" /\ specPc'[n] = "clear"
        /\ UNCHANGED <<toHost, toChild, child, childInitDone, exited>>
      BY <1>11, <2>1 DEF CloseNoChildMode, childVars, BridgeInv, TypeOK
  <2>3. OneSpecialize'
      BY <1>3, <1>9, <2>2 DEF OneSpecialize
  <2> QED
      BY <1>4, <1>7, <1>8, <1>9, <2>2, <2>3 DEF NoPanic
<1>12. CASE ClearSpecializing(n)
  <2>1. /\ specPc[n] = "clear" /\ specPc'[n] = "end"
        /\ UNCHANGED <<toHost, toChild, child, childInitDone, noChildMode, exited>>
      BY <1>12 DEF ClearSpecializing, chanVars, childVars, BridgeInv, TypeOK
  <2>2. OneSpecialize'
      BY <1>3, <1>9, <2>1 DEF OneSpecialize
  <2> QED
      BY <1>4, <1>7, <1>8, <1>9, <2>1, <2>2 DEF NoPanic
<1>13. CASE StartChild(n)
  <2>1. /\ specPc[n] = "stat"
        /\ UNCHANGED <<toHost, toChild, childInitDone, noChildMode>>
        /\ (specPc'[n] = "await" /\ exited' = exited) \/ (specPc' = specPc /\ child' = child)
        /\ exited' \in {exited, "fatal"}
      BY <1>13 DEF StartChild, chanVars, childVars, BridgeInv, TypeOK, Exit
  <2>2. OneSpecialize'
      BY <1>3, <1>9, <2>1 DEF OneSpecialize
  <2> QED
      BY <1>4, <1>7, <1>8, <1>9, <2>1, <2>2 DEF NoPanic
<1>14. CASE ChildIsConnected(n)
  <2>1. /\ specPc[n] = "await" /\ specPc'[n] = "replay"
        /\ UNCHANGED <<toHost, toChild, child, childInitDone, noChildMode, exited>>
      BY <1>14 DEF ChildIsConnected, chanVars, childVars, BridgeInv, TypeOK
  <2>2. OneSpecialize'
      BY <1>3, <1>9, <2>1 DEF OneSpecialize
  <2> QED
      BY <1>4, <1>7, <1>8, <1>9, <2>1, <2>2 DEF NoPanic
<1>15. CASE ReplayInit(n)
  <2>1. /\ specPc[n] = "replay" /\ specPc'[n] = "reply"
        /\ toChild' \in {toChild, Append(toChild, 1)}
        /\ UNCHANGED <<toHost, child, childInitDone, noChildMode, exited>>
      BY <1>2, <1>15 DEF ReplayInit, chanVars, BridgeInv, TypeOK
  <2>2. \A k \in 1..Len(toChild) : toChild[k] # 1
      BY <1>3, <2>1 DEF OneSpecialize
  <2>3. /\ \A k \in 1..Len(toChild) : k \in 1..Len(toChild') /\ toChild'[k] = toChild[k]
        /\ \A k \in 1..Len(toChild') :
              k \in 1..Len(toChild) \/ (k = Len(toChild) + 1 /\ toChild'[k] = 1)
    <3>1. toChild \in Seq(Numbers \cup {None}) /\ 1 \in Numbers \cup {None}
        BY <1>2 DEF BridgeInv, TypeOK
    <3>2. /\ 1..Len(Append(toChild, 1)) = (1..Len(toChild)) \cup {Len(toChild) + 1}
          /\ \A k \in 1..Len(toChild) : Append(toChild, 1)[k] = toChild[k]
          /\ Append(toChild, 1)[Len(toChild) + 1] = 1
        BY <3>1, Appended
    <3> QED
        BY <2>1, <3>2
  <2>4. \A m : Handled(m) => Handled(m)'
      BY <1>1, <2>3 DEF Handled
  <2>5. OnceThroughChild'
    <3>1. \A j, k \in 1..Len(toChild') : toChild'[j] = toChild'[k] => j = k
        BY <2>2, <2>3 DEF OnceThroughChild
    <3> QED
        BY <1>1, <2>4, <3>1 DEF OnceThroughChild
  <2>6. OneSpecialize'
      BY <1>3, <1>9, <2>1 DEF OneSpecialize
  <2> QED
      BY <1>4, <1>7, <1>9, <2>1, <2>4, <2>5, <2>6 DEF NoPanic
<1>16. CASE ReplyToReload(n)
  <2>1. /\ toHost' = Append(toHost, n) /\ specPc[n] = "reply" /\ specPc'[n] = "end"
        /\ childInitDone
        /\ UNCHANGED <<toChild, child, childInitDone, noChildMode, exited>>
      BY <1>2, <1>16 DEF ReplyToReload, chanVars, childVars, BridgeInv, TypeOK
  <2>2. OneSpecialize'
      BY <1>3, <1>9, <2>1 DEF OneSpecialize
  <2> QED
      BY <1>4, <1>6, <1>8, <2>1, <2>2 DEF NoPanic
<1> QED
    BY <1>10, <1>11, <1>12, <1>13, <1>14, <1>15, <1>16 DEF Specialize

\* The child connects: its first message is about no host message.
LEMMA ConnectKeepsSingle ==
    ASSUME BridgeInv, SingleReloadInv, EventStream
    PROVE  SingleReloadInv'
<1> USE DEF SingleReloadInv
<1>1. /\ UNCHANGED <<hostVars, runVars, toHost, savedVars, chanVars, specPc, toChild,
                     handled, exited>>
      /\ child # "none" /\ childOut' = Append(childOut, None)
    BY DEF EventStream
<1>2. /\ Len(childOut) \in Nat
      /\ 1..Len(childOut') = (1..Len(childOut)) \cup {Len(childOut) + 1}
      /\ \A i \in 1..Len(childOut) : childOut'[i] = childOut[i]
      /\ childOut'[Len(childOut) + 1] = None
  <2>1. childOut \in Seq(Numbers \cup {None})
      BY DEF BridgeInv, TypeOK
  <2> QED
      BY <1>1, <2>1, Appended
<1>3. \A i \in 1..Len(childOut') : childOut'[i] # None =>
         i \in 1..Len(childOut) /\ childOut'[i] = childOut[i]
    BY <1>2
<1>4. OneReload' /\ NoPanic'
    BY <1>1 DEF OneReload, NoPanic, hostVars
<1>5. OneSpecialize'
  <2>1. child' # "none"
      BY DEF EventStream
  <2> QED
      BY <1>1, <2>1 DEF OneSpecialize, savedVars, chanVars
<1>6. \A m : Handled(m)' <=> Handled(m)
    BY <1>1 DEF Handled
<1>7. OnceThroughChild'
  <2>1. \A i \in 1..Len(childOut') : childOut'[i] # None => Handled(childOut[i])'
      BY <1>1, <1>3 DEF OnceThroughChild, Handled
  <2>2. \A i, j \in 1..Len(childOut') :
           childOut'[i] = childOut'[j] /\ childOut'[i] # None => i = j
      BY <1>3 DEF OnceThroughChild
  <2>3. childInitDone' => \A i \in 1..Len(childOut') : childOut'[i] # 1
      BY <1>1, <1>3 DEF OnceThroughChild, chanVars
  <2> QED
      BY <1>1, <1>6, <2>1, <2>2, <2>3 DEF OnceThroughChild, chanVars
<1>8. AnswersAccounted'
  <2>1. \A i \in 1..Len(childOut'), j \in 1..Len(toHost) :
           childOut'[i] = toHost[j] => childOut'[i] = 1
      BY <1>3, SingleFacts DEF AnswersAccounted
  <2> QED
      BY <1>1, <1>6, <2>1 DEF AnswersAccounted, AnsweredAtMostOnce, hostVars, runVars
<1> QED
    BY <1>4, <1>5, <1>7, <1>8

\* The child deals with each of its messages once: the answer it may send is
\* the first about that message.
LEMMA ChildHandlesKeepsSingle ==
    ASSUME BridgeInv, SingleReloadInv, NEW k \in DOMAIN toChild, ChildHandles(k)
    PROVE  SingleReloadInv'
<1> USE DEF SingleReloadInv
<1> DEFINE m == toChild[k]
<1>1. /\ UNCHANGED <<hostVars, runVars, toHost, savedVars, chanVars, specPc, child,
                     toChild, exited>>
      /\ k \notin handled /\ handled' = handled \cup {k}
      /\ childOut' = Append(childOut, m) \/ childOut' = childOut
    BY DEF ChildHandles
<1>2. k \in 1..Len(toChild) /\ m \in Numbers /\ m # None
  <2>1. k \in 1..Len(toChild) /\ m \in Numbers
      BY SingleFacts
  <2> QED
      BY <2>1
<1>3. ~Handled(m)
    BY <1>1, <1>2 DEF Handled, OnceThroughChild
<1>4. \A i \in 1..Len(childOut) : childOut[i] # m
    BY <1>2, <1>3 DEF OnceThroughChild
<1>5. m = 1 => ~childInitDone
    BY <1>3 DEF OnceThroughChild
<1>6. \A j \in 1..Len(toHost) : toHost[j] = m => m = 1
  <2>1. m # 1 => fate[m] = "child"
      BY <1>2 DEF BridgeInv, ChildMessages
  <2> QED
      BY <1>3, <2>1 DEF AnswersAccounted
<1>7. \A x : Handled(x) => Handled(x)'
    BY <1>1 DEF Handled
<1>8. Handled(toChild[k])'
    BY <1>1, <1>2 DEF Handled
<1>9. \A i \in 1..Len(childOut') :
         \/ i \in 1..Len(childOut) /\ childOut'[i] = childOut[i]
         \/ i = Len(childOut) + 1 /\ childOut'[i] = m
  <2>1. childOut \in Seq(Numbers \cup {None}) /\ m \in Numbers \cup {None}
      BY <1>2 DEF BridgeInv, TypeOK
  <2>2. /\ 1..Len(Append(childOut, m)) = (1..Len(childOut)) \cup {Len(childOut) + 1}
        /\ \A i \in 1..Len(childOut) : Append(childOut, m)[i] = childOut[i]
        /\ Append(childOut, m)[Len(childOut) + 1] = m
    <3> HIDE DEF m
    <3> QED
        BY <2>1, Appended
  <2> QED
      BY <1>1, <2>2
<1>10. OneReload' /\ NoPanic'
    BY <1>1 DEF OneReload, NoPanic, hostVars
<1>11. OneSpecialize'
    BY <1>1 DEF OneSpecialize, savedVars, chanVars
<1> HIDE DEF m
<1>12. OnceThroughChild'
  <2>1. ASSUME NEW i \in 1..Len(childOut'), childOut'[i] # None PROVE Handled(childOut[i])'
    <3>1. CASE i \in 1..Len(childOut) /\ childOut'[i] = childOut[i]
      <4>1. Handled(childOut[i])
          BY <2>1, <3>1 DEF OnceThroughChild
      <4> QED
          BY <1>1, <3>1, <4>1 DEF Handled
    <3>2. CASE childOut'[i] = m
        BY <1>1, <1>8, <3>2 DEF Handled, m
    <3> QED
        BY <1>9, <3>1, <3>2
  <2>2. \A i, j \in 1..Len(childOut') :
           childOut'[i] = childOut'[j] /\ childOut'[i] # None => i = j
      BY <1>4, <1>9 DEF OnceThroughChild
  <2>3. childInitDone' => Handled(1)' /\ \A i \in 1..Len(childOut') : childOut'[i] # 1
      BY <1>1, <1>5, <1>7, <1>9 DEF OnceThroughChild, chanVars
  <2> QED
      BY <1>1, <2>1, <2>2, <2>3 DEF OnceThroughChild
<1>13. AnswersAccounted'
  <2>1. \A i \in 1..Len(childOut'), j \in 1..Len(toHost) :
           childOut'[i] = toHost[j] => childOut'[i] = 1
      BY <1>6, <1>9 DEF AnswersAccounted
  <2> QED
      BY <1>1, <1>7, <2>1 DEF AnswersAccounted, AnsweredAtMostOnce, hostVars, runVars
<1> QED
    BY <1>10, <1>11, <1>12, <1>13

\* The response loop keeps the init response to itself and forwards the rest:
\* nothing with the number of what it read is left behind it.
LEMMA BridgeForwardsKeepsSingle ==
    ASSUME BridgeInv, SingleReloadInv, BridgeForwards
    PROVE  SingleReloadInv'
<1> USE DEF SingleReloadInv
<1> DEFINE m == Head(childOut)
<1>1. /\ UNCHANGED <<hostVars, runVars, savedVars, noChildMode, specPc, child, toChild,
                     handled>>
      /\ childOut # <<>> /\ childOut' = Tail(childOut)
    BY DEF BridgeForwards
<1>2. /\ 1 \in 1..Len(childOut) /\ m = childOut[1] /\ m \in Numbers \cup {None}
      /\ \A i \in 1..Len(childOut') : i + 1 \in 1..Len(childOut) /\ i + 1 # 1
                                       /\ childOut'[i] = childOut[i + 1]
    BY <1>1, HeadTailProperties, EmptySeq, LenProperties DEF BridgeInv, TypeOK
<1>3. m # None => Handled(m) /\ \A i \in 1..Len(childOut') : childOut'[i] # m
    BY <1>2 DEF OnceThroughChild
<1>4. m # None => hostOut[m] = "init" <=> m = 1
    BY <1>2, <1>3, SingleFacts DEF BridgeInv, HostStartsWithInit, Handled
<1>5. \A x : Handled(x)' <=> Handled(x)
    BY <1>1 DEF Handled
<1>6. OneReload'
    BY <1>1 DEF OneReload, hostVars
<1>7. \A i \in 1..Len(childOut') : childOut'[i] # None => Handled(childOut[i])'
  <2>1. ASSUME NEW i \in 1..Len(childOut'), childOut'[i] # None PROVE Handled(childOut[i + 1])
      BY <1>2, <2>1 DEF OnceThroughChild
  <2> QED
      BY <1>1, <1>2, <2>1 DEF Handled
<1>8. \A i, j \in 1..Len(childOut') :
         childOut'[i] = childOut'[j] /\ childOut'[i] # None => i = j
  <2>1. ASSUME NEW i \in 1..Len(childOut'), NEW j \in 1..Len(childOut'),
               childOut'[i] = childOut'[j], childOut'[i] # None
        PROVE  i + 1 = j + 1
      BY <1>2, <2>1 DEF OnceThroughChild
  <2> QED
      BY <2>1
<1>9. \A i \in 1..Len(childOut'), j \in 1..Len(toHost) :
         childOut'[i] = toHost[j] => childOut'[i] = 1
    BY <1>2 DEF AnswersAccounted
<1>10. childInitDone => m # 1 /\ \A i \in 1..Len(childOut') : childOut'[i] # 1
    BY <1>2 DEF OnceThroughChild
<1>11. CASE m = None \/ m = 1
  <2>1. /\ toHost' = toHost /\ exited' = exited
        /\ childInitDone => childInitDone'
        /\ childInitDone' => childInitDone \/ m = 1
    <3>1. CASE m = None
      <4>1. UNCHANGED <<childInitDone, toHost, exited>>
          BY <3>1 DEF BridgeForwards
      <4> QED
          BY <4>1
    <3>2. CASE m # None /\ m = 1
      <4>1. hostOut[m] = "init" /\ ~childInitDone
          BY <1>4, <1>10, <3>2
      <4>2. toHost' = toHost /\ exited' = exited
          BY <3>2, <4>1 DEF BridgeForwards
      <4> QED
          BY <3>2, <4>1, <4>2
    <3> QED
        BY <1>11, <3>1, <3>2
  <2>2. OneSpecialize' /\ NoPanic'
      BY <1>1, <2>1 DEF OneSpecialize, NoPanic, savedVars
  <2>3. OnceThroughChild'
    <3>1. ASSUME childInitDone'
          PROVE  Handled(1)' /\ \A i \in 1..Len(childOut') : childOut'[i] # 1
      <4>1. CASE childInitDone
          BY <1>5, <1>10, <4>1 DEF OnceThroughChild
      <4>2. CASE m = 1
        <5>1. Handled(1) /\ \A i \in 1..Len(childOut') : childOut'[i] # 1
            BY <1>3, <4>2
        <5> QED
            BY <1>5, <5>1
      <4> QED
          BY <2>1, <3>1, <4>1, <4>2
    <3> QED
        BY <1>1, <1>7, <1>8, <3>1 DEF OnceThroughChild
  <2>4. AnswersAccounted'
      BY <1>1, <1>5, <1>9, <2>1
      DEF AnswersAccounted, AnsweredAtMostOnce, hostVars, runVars
  <2> QED
      BY <1>6, <2>2, <2>3, <2>4
<1>12. CASE m # None /\ m # 1
  <2>1. toHost' = Append(toHost, m) /\ childInitDone' = childInitDone /\ exited' = exited
      BY <1>4, <1>12 DEF BridgeForwards
  <2>2. m \in Numbers /\ m < next /\ fate[m] = "child"
      BY <1>3, <1>12, SingleFacts DEF BridgeInv, ChildMessages, Handled
  <2>3. \A j \in 1..Len(toHost) : toHost[j] # m
      BY <1>2, <1>12 DEF AnswersAccounted
  <2> HIDE DEF m
  <2>4. /\ AnsweredAtMostOnce'
        /\ \A j \in 1..Len(toHost') :
              toHost'[j] = m \/ (j \in 1..Len(toHost) /\ toHost'[j] = toHost[j])
      BY <2>1, <2>2, <2>3, NewAnswer DEF AnswersAccounted
  <2>5. OneSpecialize' /\ NoPanic'
      BY <1>1, <2>1 DEF OneSpecialize, NoPanic, savedVars
  <2>6. OnceThroughChild'
    <3>1. childInitDone' => Handled(1)' /\ \A i \in 1..Len(childOut') : childOut'[i] # 1
        BY <1>5, <1>10, <2>1 DEF OnceThroughChild
    <3> QED
        BY <1>1, <1>7, <1>8, <3>1 DEF OnceThroughChild
  <2>7. \A j \in 1..Len(toHost') : toHost'[j] < next'
      BY <1>1, <2>2, <2>4 DEF AnswersAccounted, runVars
  <2>8. \A j \in 1..Len(toHost') :
           fate'[toHost'[j]] = "local" /\ hostOut'[toHost'[j]] = "reload" =>
               specPc'[toHost'[j]] \in {"close", "clear", "end"}
      BY <1>1, <2>2, <2>4 DEF AnswersAccounted, runVars, hostVars
  <2>9. ASSUME NEW j \in 1..Len(toHost'), fate'[toHost'[j]] # "local"
        PROVE  Handled(toHost[j])'
    <3>1. CASE toHost'[j] = m
        BY <1>1, <1>3, <1>12, <3>1 DEF Handled
    <3>2. CASE j \in 1..Len(toHost) /\ toHost'[j] = toHost[j]
      <4>1. Handled(toHost[j])
          BY <1>1, <2>9, <3>2 DEF AnswersAccounted, runVars
      <4> QED
          BY <1>1, <3>2, <4>1 DEF Handled
    <3> QED
        BY <2>4, <3>1, <3>2
  <2>10. \A i \in 1..Len(childOut'), j \in 1..Len(toHost') :
            childOut'[i] = toHost'[j] => childOut'[i] = 1
      BY <1>3, <1>9, <1>12, <2>4
  <2> QED
      BY <1>6, <2>4, <2>5, <2>6, <2>7, <2>8, <2>9, <2>10 DEF AnswersAccounted
<1> QED
    BY <1>11, <1>12

\* Every step keeps what holds while the host reloads at most once.
LEMMA SingleInvStep ==
    ASSUME MaxReloads <= 1, BridgeInv, SingleReloadInv, [Next]_vars
    PROVE  SingleReloadInv'
BY HostSendsKeepsSingle, QuietKeepsSingle, PlaceholderKeepsSingle, ForwardKeepsSingle,
   SpecializeKeepsSingle, ConnectKeepsSingle, ChildHandlesKeepsSingle,
   BridgeForwardsKeepsSingle
DEF Next, RunSteps, ChildSteps

\* The invariant of a container that is specialized once holds in every
\* reachable state.
THEOREM SingleReloadInvHolds ==
    ASSUME MaxReloads <= 1
    PROVE  Spec => []SingleReloadInv
<1>1. BridgeInv /\ SingleReloadInv /\ [Next]_vars => SingleReloadInv'
    BY SingleInvStep
<1> QED
    BY <1>1, SingleInit, BridgeInvHolds, PTL DEF Spec

-----------------------------------------------------------------------------
(* What the invariants say, whatever the number of reload requests.        *)

\* The types of the proxy's fields, of its goroutines and of the two streams.
THEOREM ProxyTypeCorrect == Spec => []TypeOK
<1>1. BridgeInv => TypeOK
    BY DEF BridgeInv
<1> QED
    BY <1>1, BridgeInvHolds, PTL

\* handleHostMessage: childStream is never unset, so once a message went to
\* the child no later one gets to the placeholder's switch.
THEOREM ForwardingIsNeverUndone == Spec => []ForwardingIsFinal
<1>1. BridgeInv => ForwardingIsFinal
    BY DEF BridgeInv
<1> QED
    BY <1>1, BridgeInvHolds, PTL

\* The bridge to the child: the one receive loop forwards the host's messages
\* in order, and the specialize goroutine only adds the init request.
THEOREM ChildSeesHostOrder == Spec => []ChildGetsHostOrder
<1>1. ASSUME BridgeInv PROVE ChildGetsHostOrder
  <2>1. DOMAIN toChild = 1..Len(toChild)
      BY <1>1, LenProperties DEF BridgeInv, TypeOK
  <2>2. ASSUME NEW k \in 1..Len(toChild) PROVE savedInitRequest = 1
    <3>1. toChild[k] \in 1..(next - 1) /\ next \in Nat
        BY <1>1 DEF BridgeInv, ChildMessages, TypeOK
    <3>2. next > 1
        BY <3>1
    <3> QED
        BY <1>1, <3>2 DEF BridgeInv, LoopInOrder
  <2> QED
      BY <1>1, <2>1, <2>2 DEF BridgeInv, ChildMessages, ChildGetsHostOrder
<1> QED
    BY <1>1, BridgeInvHolds, PTL

-----------------------------------------------------------------------------
(* What they say of a container that is specialized once.                  *)

\* The init request is answered by the placeholder alone though the child
\* gets it too; the reload request by the specialize goroutine; everything
\* forwarded at most once by the child.
THEOREM NothingAnsweredTwice ==
    ASSUME MaxReloads <= 1
    PROVE  Spec => []AnsweredAtMostOnce
<1>1. SingleReloadInv => AnsweredAtMostOnce
    BY DEF SingleReloadInv, AnswersAccounted
<1> QED
    BY <1>1, SingleReloadInvHolds, PTL

\* close(p.noChildMode) and close(p.childInitDone) each run at most once.
THEOREM NoChannelClosedTwice ==
    ASSUME MaxReloads <= 1
    PROVE  Spec => []NoPanic
<1>1. SingleReloadInv => NoPanic
    BY DEF SingleReloadInv
<1> QED
    BY <1>1, SingleReloadInvHolds, PTL

\* specialize: FunctionEnvironmentReloadResponse is sent when the child has
\* answered the init request, or when there is no child.
THEOREM ReloadAnsweredWhenReady ==
    ASSUME MaxReloads <= 1
    PROVE  Spec => []ReloadAnswerMeansReady
<1>1. ASSUME BridgeInv, SingleReloadInv PROVE ReloadAnswerMeansReady
  <2> SUFFICES ASSUME NEW n \in Numbers, n \in ToSet(toHost), hostOut[n] = "reload"
               PROVE  childInitDone \/ child = "none"
      BY DEF ReloadAnswerMeansReady
  <2>1. PICK j \in 1..Len(toHost) : toHost[j] = n
      BY <1>1, SingleFacts DEF ToSet
  <2>2. n < next /\ n \in 1..Len(hostOut) /\ n # 1
    <3>1. n < next /\ n \in 1..Len(hostOut)
        BY <1>1, <2>1, SingleFacts DEF SingleReloadInv, AnswersAccounted
    <3> QED
        BY <1>1, <3>1 DEF BridgeInv, HostStartsWithInit
  <2>3. CASE fate[n] = "local"
      BY <1>1, <2>1, <2>3 DEF SingleReloadInv, AnswersAccounted, OneSpecialize
  <2>4. CASE fate[n] # "local"
    <3>1. fate[n] = "child"
        BY <1>1, <2>1, <2>2, <2>4
        DEF SingleReloadInv, AnswersAccounted, Handled, BridgeInv, ChildMessages
    <3>2. PICK m \in Numbers : specPc[m] # "idle"
        BY <1>1, <3>1 DEF BridgeInv, ForwardsByStream, ChildIsStarted
    <3>3. fate[m] = "local" /\ hostOut[m] = "reload" /\ m \in 1..Len(hostOut)
        BY <1>1, <3>2, SingleFacts DEF BridgeInv, SpecializesReloads, LoopInOrder
    <3> QED
        BY <1>1, <2>2, <3>1, <3>3 DEF SingleReloadInv, OneReload
  <2> QED
      BY <2>3, <2>4
<1> QED
    BY <1>1, BridgeInvHolds, SingleReloadInvHolds, PTL
=============================================================================
