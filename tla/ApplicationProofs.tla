-------------------------- MODULE ApplicationProofs --------------------------
(***************************************************************************)
(* Proofs about an application on the worker, for any application: however  *)
(* the host dispatches turns of an orchestration, and delivers them again   *)
(* when it has lost their answers, no work of the orchestration is repeated; *)
(* the spans of an invocation are ended and flushed before its answer; and  *)
(* its handler gets the payload that was sent, or does not run.             *)
(***************************************************************************)
EXTENDS RegistrationProofs, FiniteSetTheorems

-----------------------------------------------------------------------------
(* The orchestration.  What the rest of the application does is a stutter.  *)

OrchestrationStep ==
    \/ \E withheld \in BOOLEAN : HostDispatches(withheld)
    \/ HostTakesAnswer(loadAndRun(turn))
    \/ HostTakesAnswer(Failed)
    \/ HostSendsMessages \/ HostLosesAnswer \/ HostStores \/ HostFails
    \/ \E a \in DOMAIN Tasks : TaskCompletes(a)
    \/ UNCHANGED orchestrationVars

\* The answer of a turn is the response of its replay, or a failure.
LEMMA StepOfOrchestration == [Next]_applicationVars => OrchestrationStep
<1> SUFFICES ASSUME [Next]_applicationVars PROVE OrchestrationStep
    OBVIOUS
<1>1. CASE Main \/ Control \/ Site \/ Invocation
    BY <1>1 DEF Main, Control, Site, Invocation, OrchestrationStep
<1>2. CASE Answers
    BY <1>2 DEF Answers, OrchestrationStep
<1>3. CASE Host
    BY <1>3 DEF Host, OrchestrationStep
<1>4. CASE UNCHANGED applicationVars
    BY <1>4 DEF applicationVars, OrchestrationStep
<1> QED
    BY <1>1, <1>2, <1>3, <1>4 DEF Next

\* What the host's extension keeps and sends.
HistoryEvents == [kind : {"ExecutionStarted", "TaskScheduled", "TaskCompleted"}, action : Nat]

OrchestrationTypeOK ==
    /\ history \in Seq(HistoryEvents) /\ inbox \in Seq(HistoryEvents)
    /\ turn.past \in Seq(HistoryEvents) /\ turn.new \in Seq(HistoryEvents)
    /\ generation \in Nat

\* Only the first turn of an execution has ExecutionStarted among its new
\* events, and it has nothing else.
InboxFits ==
    /\ \A i \in 1..Len(inbox) : inbox[i].kind # "TaskScheduled"
    /\ history = <<>> => inbox \in {<<ExecutionStarted>>, <<>>}
    /\ history # <<>> => \A i \in 1..Len(inbox) : inbox[i].kind # "ExecutionStarted"

\* A turn in the worker's hands is about the history that is still stored, or
\* has it withheld; its new events have not left the inbox.
TurnIsCurrent ==
    turn # NoTurn =>
        /\ turn.past \in {history, <<>>}
        /\ turn.new # <<>> /\ Len(turn.new) <= Len(inbox)
        /\ \A i \in 1..Len(turn.new) : turn.new[i] = inbox[i]

ReplyIsReplay ==
    /\ reply \in {NoReply, Failed, loadAndRun(turn)}
    /\ turn = NoTurn => reply = NoReply

\* The message for an action is a function of the action.
IdOf(a) ==
    IF Tasks[a].kind = "child" /\ Tasks[a].id = "" THEN ChildId(a) ELSE <<Tasks[a].id, 0>>
MessagesOfTasks ==
    \A m \in started : \E a \in DOMAIN Tasks :
        m = [generation |-> m.generation, action |-> a, kind |-> Tasks[a].kind, id |-> IdOf(a)]

ScheduledOnce ==
    \A i, j \in DOMAIN history :
        history[i].kind = "TaskScheduled" /\ history[i] = history[j] => i = j

OrchestrationInv ==
    /\ OrchestrationTypeOK
    /\ InboxFits
    /\ TurnIsCurrent
    /\ ReplyIsReplay
    /\ MessagesOfTasks
    /\ ScheduledOnce

-----------------------------------------------------------------------------
(* Lemmas about the replay and about sequences.                            *)

\* A finite set as a sequence has each of its elements once.
LEMMA SequenceOfSet ==
    ASSUME NEW S, IsFiniteSet(S)
    PROVE  /\ SetToSeq(S) \in Seq(S)
           /\ \A i, j \in 1..Len(SetToSeq(S)) :
                 SetToSeq(S)[i] = SetToSeq(S)[j] => i = j
<1> DEFINE n == Cardinality(S)
<1>1. n \in Nat /\ \E f : f \in Bijection(1..n, S)
    BY FS_CardinalityType DEF ExistsBijection
<1>2. \E f \in [1..n -> S] : IsInjective(f)
    BY <1>1 DEF Bijection, Injection, IsInjective
<1>3. SetToSeq(S) \in [1..n -> S] /\ IsInjective(SetToSeq(S))
    BY <1>2 DEF SetToSeq
<1> HIDE DEF n
<1>4. SetToSeq(S) \in Seq(S)
    BY <1>1, <1>3, SeqDef
<1> QED
    BY <1>3, <1>4, LenProperties DEF IsInjective

\* The tasks are numbered from 1, and each is an activity or a child.
LEMMA TaskFacts ==
    /\ DOMAIN Tasks = 1..Len(Tasks) /\ Len(Tasks) \in Nat
    /\ \A a \in DOMAIN Tasks : a \in Nat /\ a # 0 /\ Tasks[a].kind \in {"activity", "child"}
<1>1. Tasks \in Seq([kind : {"activity", "child"}, id : STRING, stage : Nat])
    BY TasksAssumption
<1>2. DOMAIN Tasks = 1..Len(Tasks) /\ Len(Tasks) \in Nat
    BY <1>1, LenProperties
<1>3. ASSUME NEW a \in DOMAIN Tasks PROVE Tasks[a].kind \in {"activity", "child"}
  <2>1. Tasks[a] \in [kind : {"activity", "child"}, id : STRING, stage : Nat]
      BY <1>1, <1>2, <1>3, ElementOfSeq
  <2> QED
      BY <2>1
<1> QED
    BY <1>2, <1>3

\* The task executor and assignSubOrchestrationIDs: an answer ends the
\* execution, or its actions are tasks that the events do not schedule yet.
LEMMA ActionsOfTurn ==
    ASSUME NEW t, loadAndRun(t).kind = "actions"
    PROVE  /\ checkHistoryPresent(t.past, t.new)
           /\ \/ \A x \in loadAndRun(t).actions : x.kind = "end"
              \/ \A x \in loadAndRun(t).actions :
                    /\ x.action \in DOMAIN Tasks
                    /\ x.kind = Tasks[x.action].kind /\ x.kind # "end"
                    /\ x.id = IdOf(x.action)
                    /\ Event("TaskScheduled", x.action) \notin ToSet(t.past \o t.new)
<1> DEFINE events == t.past \o t.new
           R == Replay(events)
<1>1. /\ checkHistoryPresent(t.past, t.new)
      /\ loadAndRun(t).actions = assignSubOrchestrationIDs(R)
    BY DEF loadAndRun, Failed
<1> HIDE DEF events, R
<1>2. \A x \in assignSubOrchestrationIDs(R) : \E y \in R :
         x = [y EXCEPT !.id = IF y.kind = "child" /\ y.id = "" THEN ChildId(y.action)
                              ELSE <<y.id, 0>>]
    BY DEF assignSubOrchestrationIDs
<1>3. \/ R = {[action |-> Len(Tasks) + 1, kind |-> "end", id |-> ""]}
      \/ \A y \in R : \E a \in DOMAIN Tasks :
            /\ y = [action |-> a, kind |-> Tasks[a].kind, id |-> Tasks[a].id]
            /\ Event("TaskScheduled", a) \notin ToSet(events)
    BY DEF Replay, R
<1>4. CASE R = {[action |-> Len(Tasks) + 1, kind |-> "end", id |-> ""]}
  <2>1. ASSUME NEW x \in assignSubOrchestrationIDs(R) PROVE x.kind = "end"
    <3>1. PICK y \in R : x = [y EXCEPT !.id = IF y.kind = "child" /\ y.id = ""
                                              THEN ChildId(y.action) ELSE <<y.id, 0>>]
        BY <1>2
    <3>2. y = [action |-> Len(Tasks) + 1, kind |-> "end", id |-> ""]
        BY <1>4
    <3> QED
        BY <3>1, <3>2
  <2> QED
      BY <1>1, <2>1
<1>5. CASE \A y \in R : \E a \in DOMAIN Tasks :
            /\ y = [action |-> a, kind |-> Tasks[a].kind, id |-> Tasks[a].id]
            /\ Event("TaskScheduled", a) \notin ToSet(events)
  <2>1. ASSUME NEW x \in assignSubOrchestrationIDs(R)
        PROVE  /\ x.action \in DOMAIN Tasks
               /\ x.kind = Tasks[x.action].kind /\ x.kind # "end"
               /\ x.id = IdOf(x.action)
               /\ Event("TaskScheduled", x.action) \notin ToSet(events)
    <3>1. PICK y \in R : x = [y EXCEPT !.id = IF y.kind = "child" /\ y.id = ""
                                              THEN ChildId(y.action) ELSE <<y.id, 0>>]
        BY <1>2
    <3>2. PICK a \in DOMAIN Tasks :
             /\ y = [action |-> a, kind |-> Tasks[a].kind, id |-> Tasks[a].id]
             /\ Event("TaskScheduled", a) \notin ToSet(events)
        BY <1>5
    <3>3. x.action = a /\ x.kind = Tasks[a].kind /\ x.id = IdOf(a)
        BY <3>1, <3>2 DEF IdOf
    <3> QED
        BY <3>2, <3>3, TaskFacts
  <2> QED
      BY <1>1, <2>1 DEF events
<1> QED
    BY <1>3, <1>4, <1>5

Once(s, K) == \A i, j \in 1..Len(s) : s[i] \in K /\ s[i] = s[j] => i = j

\* Two sequences that have the elements of K once each and share none.
LEMMA OnceInConcatenation ==
    ASSUME NEW S, NEW s \in Seq(S), NEW t \in Seq(S), NEW K, Once(s, K), Once(t, K),
           \A i \in 1..Len(s), j \in 1..Len(t) : s[i] \in K => s[i] # t[j]
    PROVE  Once(s \o t, K)
<1>1. /\ Len(s) \in Nat /\ Len(t) \in Nat /\ Len(s \o t) = Len(s) + Len(t)
      /\ \A i \in 1..(Len(s) + Len(t)) :
            (s \o t)[i] = IF i <= Len(s) THEN s[i] ELSE t[i - Len(s)]
    BY LenProperties, ConcatProperties
<1> SUFFICES ASSUME NEW i \in 1..(Len(s) + Len(t)), NEW j \in 1..(Len(s) + Len(t)),
                    (s \o t)[i] \in K, (s \o t)[i] = (s \o t)[j]
             PROVE  i = j
    BY <1>1 DEF Once
<1>2. CASE i <= Len(s) /\ j <= Len(s)
    BY <1>1, <1>2 DEF Once
<1>3. CASE i > Len(s) /\ j > Len(s)
  <2>1. /\ i - Len(s) \in 1..Len(t) /\ j - Len(s) \in 1..Len(t)
        /\ (s \o t)[i] = t[i - Len(s)] /\ (s \o t)[j] = t[j - Len(s)]
      BY <1>1, <1>3
  <2>2. i - Len(s) = j - Len(s)
      BY <2>1 DEF Once
  <2> QED
      BY <1>1, <2>2
<1>4. CASE i <= Len(s) /\ j > Len(s)
  <2>1. i \in 1..Len(s) /\ j - Len(s) \in 1..Len(t) /\ s[i] = t[j - Len(s)] /\ s[i] \in K
      BY <1>1, <1>4
  <2> QED
      BY <2>1
<1>5. CASE i > Len(s) /\ j <= Len(s)
  <2>1. j \in 1..Len(s) /\ i - Len(s) \in 1..Len(t) /\ s[j] = t[i - Len(s)] /\ s[j] \in K
      BY <1>1, <1>5
  <2> QED
      BY <2>1
<1> QED
    BY <1>1, <1>2, <1>3, <1>4, <1>5

-----------------------------------------------------------------------------
(* The steps.                                                              *)

\* The extension starts one execution, whose history is empty.
LEMMA OrchestrationInvInit == Init => OrchestrationInv
<1> SUFFICES ASSUME Init PROVE OrchestrationInv
    OBVIOUS
<1>1. /\ history = <<>> /\ inbox = <<ExecutionStarted>> /\ turn = NoTurn
      /\ reply = NoReply /\ started = {} /\ generation = 1
    BY DEF Init, OrchestrationInit
<1>2. <<>> \in Seq(HistoryEvents) /\ Len(<<>>) = 0 /\ DOMAIN <<>> = {}
    BY EmptySeq
<1>3. ExecutionStarted \in HistoryEvents /\ <<ExecutionStarted>> \in Seq(HistoryEvents)
  <2>1. ExecutionStarted \in HistoryEvents
      BY DEF ExecutionStarted, Event, HistoryEvents
  <2> HIDE DEF HistoryEvents
  <2> QED
      BY <2>1
<1>4. OrchestrationTypeOK
  <2>1. turn.past = <<>> /\ turn.new = <<>>
      BY <1>1 DEF NoTurn
  <2> HIDE DEF HistoryEvents
  <2> QED
      BY <1>1, <1>2, <1>3, <2>1 DEF OrchestrationTypeOK
<1>5. InboxFits
  <2>1. Len(inbox) = 1 /\ inbox[1] = ExecutionStarted
      BY <1>1
  <2>2. ExecutionStarted.kind # "TaskScheduled"
      BY DEF ExecutionStarted, Event
  <2>3. 1..1 = {1}
      OBVIOUS
  <2> QED
      BY <1>1, <2>1, <2>2, <2>3 DEF InboxFits
<1>6. TurnIsCurrent /\ ReplyIsReplay /\ MessagesOfTasks /\ ScheduledOnce
    BY <1>1, <1>2 DEF TurnIsCurrent, ReplyIsReplay, MessagesOfTasks, ScheduledOnce
<1> QED
    BY <1>4, <1>5, <1>6 DEF OrchestrationInv

\* What the host does to the turn and the reply alone.
LEMMA TurnKeepsOrchestration ==
    ASSUME OrchestrationInv,
           \/ \E withheld \in BOOLEAN : HostDispatches(withheld)
           \/ HostTakesAnswer(loadAndRun(turn)) \/ HostTakesAnswer(Failed)
           \/ HostLosesAnswer \/ HostFails \/ UNCHANGED orchestrationVars
    PROVE  OrchestrationInv'
<1> USE DEF OrchestrationInv
<1>1. UNCHANGED <<history, inbox, started, generation>>
    BY DEF HostDispatches, HostTakesAnswer, HostLosesAnswer, HostFails, orchestrationVars
<1>2. <<>> \in Seq(HistoryEvents)
    BY EmptySeq
<1>3. InboxFits' /\ MessagesOfTasks' /\ ScheduledOnce'
    BY <1>1 DEF InboxFits, MessagesOfTasks, ScheduledOnce
<1>4. ASSUME NEW withheld \in BOOLEAN, HostDispatches(withheld)
      PROVE  OrchestrationTypeOK' /\ TurnIsCurrent' /\ ReplyIsReplay'
  <2>1. /\ turn' = [past |-> IF withheld THEN <<>> ELSE history, new |-> inbox,
                    form |-> "request"]
        /\ reply' = NoReply /\ inbox # <<>>
      BY <1>4 DEF HostDispatches
  <2>2. turn'.past \in {history, <<>>} /\ turn'.new = inbox
      BY <2>1
  <2>3. OrchestrationTypeOK'
    <3> HIDE DEF HistoryEvents
    <3> QED
        BY <1>1, <1>2, <2>2 DEF OrchestrationTypeOK
  <2>4. TurnIsCurrent'
    <3>1. Len(inbox) \in Nat
        BY LenProperties DEF OrchestrationTypeOK
    <3> QED
        BY <1>1, <2>1, <2>2, <3>1 DEF TurnIsCurrent
  <2>5. turn' # NoTurn
      BY <2>1 DEF NoTurn
  <2> QED
      BY <2>1, <2>3, <2>4, <2>5 DEF ReplyIsReplay
<1>5. CASE HostTakesAnswer(loadAndRun(turn)) \/ HostTakesAnswer(Failed)
  <2>1. turn' = turn /\ turn # NoTurn /\ reply' \in {loadAndRun(turn), Failed}
      BY <1>5 DEF HostTakesAnswer
  <2> QED
      BY <1>1, <1>3, <2>1 DEF OrchestrationTypeOK, TurnIsCurrent, ReplyIsReplay
<1>6. CASE HostLosesAnswer \/ HostFails
  <2>1. turn' = NoTurn /\ reply' = NoReply
      BY <1>6 DEF HostLosesAnswer, HostFails
  <2>2. turn'.past = <<>> /\ turn'.new = <<>>
      BY <2>1 DEF NoTurn
  <2> HIDE DEF HistoryEvents
  <2> QED
      BY <1>1, <1>2, <1>3, <2>1, <2>2
      DEF OrchestrationTypeOK, TurnIsCurrent, ReplyIsReplay
<1>7. CASE UNCHANGED orchestrationVars
    BY <1>1, <1>3, <1>7
    DEF OrchestrationTypeOK, TurnIsCurrent, ReplyIsReplay, orchestrationVars
<1> QED
    BY <1>3, <1>4, <1>5, <1>6, <1>7

\* A task completes while a turn may be out: the event queues up behind it.
LEMMA CompletionKeepsOrchestration ==
    ASSUME OrchestrationInv, NEW a \in DOMAIN Tasks, TaskCompletes(a)
    PROVE  OrchestrationInv'
<1> USE DEF OrchestrationInv
<1> DEFINE e == Event("TaskCompleted", a)
<1>1. /\ UNCHANGED <<history, turn, reply, started, generation>>
      /\ inbox' = Append(inbox, e)
    BY DEF TaskCompletes
<1>2. history # <<>>
  <2>1. Event("TaskScheduled", a) \in ToSet(history)
      BY DEF TaskCompletes
  <2>2. ToSet(<<>>) = {}
      BY DEF ToSet
  <2> QED
      BY <2>1, <2>2
<1>3. e \in HistoryEvents /\ e.kind = "TaskCompleted"
    BY TaskFacts DEF Event, HistoryEvents
<1> HIDE DEF e
<1>4. /\ inbox' \in Seq(HistoryEvents) /\ Len(inbox) \in Nat /\ Len(inbox') = Len(inbox) + 1
      /\ \A k \in 1..Len(inbox) : k \in 1..Len(inbox') /\ inbox'[k] = inbox[k]
      /\ \A k \in 1..Len(inbox') : k \in 1..Len(inbox) \/ inbox'[k] = e
  <2>1. inbox \in Seq(HistoryEvents)
      BY DEF OrchestrationTypeOK
  <2> HIDE DEF HistoryEvents
  <2> QED
      BY <1>1, <1>3, <2>1, AppendedEvent
<1>5. OrchestrationTypeOK'
    BY <1>1, <1>4 DEF OrchestrationTypeOK
<1>6. InboxFits'
    BY <1>1, <1>2, <1>3, <1>4 DEF InboxFits
<1>7. TurnIsCurrent'
  <2>1. ASSUME turn # NoTurn
        PROVE  Len(turn.new) <= Len(inbox') /\ \A i \in 1..Len(turn.new) : turn.new[i] = inbox'[i]
    <3>1. Len(turn.new) \in Nat
        BY LenProperties DEF OrchestrationTypeOK
    <3> QED
        BY <1>4, <2>1, <3>1 DEF TurnIsCurrent
  <2> QED
      BY <1>1, <2>1 DEF TurnIsCurrent
<1>8. ReplyIsReplay' /\ MessagesOfTasks' /\ ScheduledOnce'
    BY <1>1 DEF ReplyIsReplay, MessagesOfTasks, ScheduledOnce
<1> QED
    BY <1>5, <1>6, <1>7, <1>8

\* What the host sends for and stores is the answer to the turn it dispatched.
LEMMA AnswerIsOfTurn ==
    ASSUME OrchestrationInv, reply.kind = "actions"
    PROVE  turn # NoTurn /\ reply = loadAndRun(turn)
<1>1. reply # NoReply /\ reply # Failed
    BY DEF NoReply, Failed
<1> QED
    BY <1>1 DEF OrchestrationInv, ReplyIsReplay

\* The messages go out, once more for an answer that had been lost.
LEMMA SendsKeepsOrchestration ==
    ASSUME OrchestrationInv, HostSendsMessages
    PROVE  OrchestrationInv'
<1> USE DEF OrchestrationInv
<1>1. /\ UNCHANGED <<history, inbox, turn, reply, generation>>
      /\ reply.kind = "actions" /\ started' = started \cup Messages
    BY DEF HostSendsMessages
<1>2. reply = loadAndRun(turn)
    BY <1>1, AnswerIsOfTurn
<1>3. ASSUME NEW m \in Messages
      PROVE  \E a \in DOMAIN Tasks :
                m = [generation |-> m.generation, action |-> a, kind |-> Tasks[a].kind,
                     id |-> IdOf(a)]
  <2>1. PICK x \in reply.actions : x.kind # "end" /\ m = TaskMessage(x)
      BY <1>3 DEF Messages
  <2>2. /\ x.action \in DOMAIN Tasks
        /\ x.kind = Tasks[x.action].kind /\ x.id = IdOf(x.action)
      BY <1>1, <1>2, <2>1, ActionsOfTurn
  <2>3. m = [generation |-> m.generation, action |-> x.action,
             kind |-> Tasks[x.action].kind, id |-> IdOf(x.action)]
      BY <2>1, <2>2 DEF TaskMessage
  <2> QED
      BY <2>2, <2>3
<1>4. MessagesOfTasks'
    BY <1>1, <1>3 DEF MessagesOfTasks
<1>5. OrchestrationTypeOK' /\ InboxFits' /\ TurnIsCurrent' /\ ReplyIsReplay' /\ ScheduledOnce'
    BY <1>1 DEF OrchestrationTypeOK, InboxFits, TurnIsCurrent, ReplyIsReplay, ScheduledOnce
<1> QED
    BY <1>4, <1>5

\* The host stores an answer that goes on: the history grows by what the turn
\* was about and by the tasks it schedules, and that is all the inbox loses.
LEMMA StoresGoingOn ==
    ASSUME OrchestrationInv, HostStores, ~Ends
    PROVE  OrchestrationInv'
<1> USE DEF OrchestrationInv
<1> DEFINE S == {Event("TaskScheduled", x.action) : x \in reply.actions}
           q == SetToSeq(S)
           K == {e \in HistoryEvents : e.kind = "TaskScheduled"}
           seen == history \o turn.new
<1>1. /\ reply.kind = "actions" /\ turn' = NoTurn /\ reply' = NoReply
      /\ history' = seen \o q
      /\ inbox' = SubSeq(inbox, Len(turn.new) + 1, Len(inbox))
      /\ UNCHANGED <<started, generation>>
    BY DEF HostStores
<1>2. turn # NoTurn /\ reply = loadAndRun(turn)
    BY <1>1, AnswerIsOfTurn
<1>3. /\ turn.past \in {history, <<>>} /\ turn.new # <<>> /\ Len(turn.new) <= Len(inbox)
      /\ \A i \in 1..Len(turn.new) : turn.new[i] = inbox[i]
    BY <1>2 DEF TurnIsCurrent
<1>4. /\ history \in Seq(HistoryEvents) /\ turn.new \in Seq(HistoryEvents)
      /\ inbox \in Seq(HistoryEvents)
    BY DEF OrchestrationTypeOK
<1>5. /\ Len(history) \in Nat /\ Len(turn.new) \in Nat /\ Len(turn.new) > 0
      /\ Len(inbox) \in Nat
      /\ DOMAIN history = 1..Len(history) /\ DOMAIN turn.new = 1..Len(turn.new)
  <2> HIDE DEF HistoryEvents
  <2> QED
      BY <1>3, <1>4, LenProperties, EmptySeq
\* runner.go, checkHistoryPresent: a turn with its history withheld is refused.
<1>6. turn.past = history
  <2>1. CASE turn.past = <<>>
    <3>1. PICK i \in 1..Len(turn.new) : turn.new[i].kind = "ExecutionStarted"
        BY <1>1, <1>2, <1>5, <2>1, ActionsOfTurn DEF checkHistoryPresent
    <3>2. i \in 1..Len(inbox) /\ inbox[i].kind = "ExecutionStarted"
        BY <1>3, <1>5, <3>1
    <3> QED
        BY <2>1, <3>2 DEF InboxFits
  <2> QED
      BY <1>3, <2>1
<1>7. \A x \in reply.actions :
         x.action \in DOMAIN Tasks /\ Event("TaskScheduled", x.action) \notin ToSet(seen)
    BY <1>1, <1>2, <1>6, ActionsOfTurn DEF Ends
<1>8. S \subseteq HistoryEvents /\ \A e \in S : e \notin ToSet(seen)
  <2>1. ASSUME NEW e \in S PROVE e \in HistoryEvents /\ e \notin ToSet(seen)
    <3>1. PICK x \in reply.actions : e = Event("TaskScheduled", x.action)
        BY <2>1
    <3>2. x.action \in Nat /\ e \notin ToSet(seen)
        BY <1>7, <3>1, TaskFacts
    <3> QED
        BY <3>1, <3>2 DEF Event, HistoryEvents
  <2> QED
      BY <2>1
<1>9. IsFiniteSet(S)
  <2> DEFINE U == {Event("TaskScheduled", a) : a \in 1..Len(Tasks)}
             f == [a \in 1..Len(Tasks) |-> Event("TaskScheduled", a)]
  <2>1. f \in Surjection(1..Len(Tasks), U)
      BY DEF Surjection
  <2>2. IsFiniteSet(1..Len(Tasks))
      BY TaskFacts, FS_Interval
  <2>3. IsFiniteSet(U)
    <3> HIDE DEF f, U
    <3> QED
        BY <2>1, <2>2, FS_Surjection
  <2>4. S \in SUBSET U
      BY <1>7, TaskFacts
  <2> HIDE DEF U, S
  <2> QED
      BY <2>3, <2>4, FS_Subset
<1>10. q \in Seq(S) /\ \A i, j \in 1..Len(q) : q[i] = q[j] => i = j
  <2> HIDE DEF S
  <2> QED
      BY <1>9, SequenceOfSet
<1> HIDE DEF q
<1>11. q \in Seq(HistoryEvents) /\ Len(q) \in Nat /\ \A j \in 1..Len(q) : q[j] \in S
  <2> HIDE DEF S, HistoryEvents
  <2> QED
      BY <1>8, <1>10, SeqMonotonic, ElementOfSeq, LenProperties
<1>12. /\ seen \in Seq(HistoryEvents) /\ Len(seen) = Len(history) + Len(turn.new)
       /\ DOMAIN seen = 1..Len(seen)
  <2> HIDE DEF HistoryEvents
  <2>1. seen \in Seq(HistoryEvents) /\ Len(seen) = Len(history) + Len(turn.new)
      BY <1>4, ConcatProperties
  <2> HIDE DEF seen
  <2> QED
      BY <2>1, LenProperties
<1>13. Once(seen, K)
  <2>1. Once(history, K)
      BY <1>5 DEF Once, ScheduledOnce
  <2>2. \A j \in 1..Len(turn.new) : turn.new[j] \notin K
      BY <1>3, <1>5 DEF InboxFits
  <2>3. Once(turn.new, K) /\ \A i \in 1..Len(history), j \in 1..Len(turn.new) :
                                history[i] \in K => history[i] # turn.new[j]
      BY <2>2 DEF Once
  <2> HIDE DEF K, HistoryEvents
  <2> QED
      BY <1>4, <2>1, <2>3, OnceInConcatenation
<1> HIDE DEF seen
<1>14. Once(seen \o q, K)
  <2>1. Once(q, K)
      BY <1>10 DEF Once
  <2>2. \A i \in 1..Len(seen), j \in 1..Len(q) : seen[i] \in K => seen[i] # q[j]
      BY <1>8, <1>11, <1>12 DEF ToSet
  <2> HIDE DEF K, HistoryEvents, S
  <2> QED
      BY <1>11, <1>12, <1>13, <2>1, <2>2, OnceInConcatenation
<1>15. /\ history' \in Seq(HistoryEvents) /\ history' # <<>>
       /\ DOMAIN history' = 1..Len(history')
  <2> HIDE DEF HistoryEvents
  <2>1. history' \in Seq(HistoryEvents) /\ Len(history') = Len(seen) + Len(q)
      BY <1>1, <1>11, <1>12, ConcatProperties
  <2>2. Len(history') > 0
      BY <1>5, <1>11, <1>12, <2>1
  <2> QED
      BY <2>1, <2>2, LenProperties, EmptySeq
<1>16. /\ inbox' \in Seq(HistoryEvents)
       /\ Len(inbox') = Len(inbox) - Len(turn.new)
       /\ \A i \in 1..Len(inbox') : inbox'[i] = inbox[Len(turn.new) + i]
  <2> DEFINE m == Len(turn.new) + 1
  <2>1. m \in Int /\ Len(inbox) \in Int /\ \A i \in m..Len(inbox) : i \in 1..Len(inbox)
      BY <1>5
  <2>2. \A i \in m..Len(inbox) : inbox[i] \in HistoryEvents
    <3> HIDE DEF HistoryEvents, m
    <3> QED
        BY <1>4, <2>1, ElementOfSeq
  <2>3. inbox' = SubSeq(inbox, m, Len(inbox))
      BY <1>1
  <2> HIDE DEF HistoryEvents, m
  <2>4. /\ inbox' \in Seq(HistoryEvents)
        /\ Len(inbox') = IF m <= Len(inbox) THEN Len(inbox) - m + 1 ELSE 0
        /\ \A i \in 1..Len(inbox) - m + 1 : inbox'[i] = inbox[m + i - 1]
      BY <2>1, <2>2, <2>3, SubSeqProperties
  <2>5. Len(inbox') = Len(inbox) - Len(turn.new)
    <3>1. m = Len(turn.new) + 1
        BY DEF m
    <3>2. CASE Len(turn.new) = Len(inbox)
        BY <1>5, <2>4, <3>1, <3>2
    <3>3. CASE Len(turn.new) < Len(inbox)
      <4>1. m <= Len(inbox) /\ Len(inbox) - m + 1 = Len(inbox) - Len(turn.new)
          BY <1>5, <3>1, <3>3
      <4> QED
          BY <2>4, <4>1
    <3>4. Len(turn.new) <= Len(inbox)
        BY <1>3
    <3> QED
        BY <1>5, <3>2, <3>3, <3>4
  <2>6. ASSUME NEW i \in 1..Len(inbox')
        PROVE  inbox'[i] = inbox[Len(turn.new) + i]
    <3>1. i \in 1..Len(inbox) - m + 1 /\ m + i - 1 = Len(turn.new) + i
        BY <1>5, <2>5 DEF m
    <3> QED
        BY <2>4, <3>1
  <2> QED
      BY <2>4, <2>5, <2>6
<1>17. \A i \in 1..Len(inbox') : Len(turn.new) + i \in 1..Len(inbox)
    BY <1>5, <1>16
<1>18. InboxFits'
  <2>1. \A i \in 1..Len(inbox') : inbox'[i].kind # "TaskScheduled"
      BY <1>16, <1>17 DEF InboxFits
  <2>2. \A i \in 1..Len(inbox') : inbox'[i].kind # "ExecutionStarted"
    <3>1. CASE history # <<>>
        BY <1>16, <1>17, <3>1 DEF InboxFits
    <3>2. CASE history = <<>>
      <4>1. inbox \in {<<ExecutionStarted>>, <<>>}
          BY <3>2 DEF InboxFits
      <4>2. Len(inbox) <= 1
        <5>1. CASE inbox = <<>>
            BY <5>1
        <5>2. CASE inbox = <<ExecutionStarted>>
            BY <5>2
        <5> QED
            BY <4>1, <5>1, <5>2
      <4>3. Len(inbox') = 0
          BY <1>3, <1>5, <1>16, <4>2
      <4> QED
          BY <4>3
    <3> QED
        BY <3>1, <3>2
  <2> QED
      BY <1>15, <2>1, <2>2 DEF InboxFits
<1>19. OrchestrationTypeOK' /\ TurnIsCurrent' /\ ReplyIsReplay' /\ MessagesOfTasks'
  <2>1. turn'.past = <<>> /\ turn'.new = <<>>
      BY <1>1 DEF NoTurn
  <2> HIDE DEF HistoryEvents
  <2>2. <<>> \in Seq(HistoryEvents)
      BY EmptySeq
  <2> QED
      BY <1>1, <1>15, <1>16, <2>1, <2>2
      DEF OrchestrationTypeOK, TurnIsCurrent, ReplyIsReplay, MessagesOfTasks
<1>20. ScheduledOnce'
  <2>1. \A i \in 1..Len(history') : history'[i] \in HistoryEvents
    <3> HIDE DEF HistoryEvents
    <3> QED
        BY <1>15, ElementOfSeq
  <2> QED
      BY <1>1, <1>14, <1>15, <2>1 DEF Once, ScheduledOnce
<1> QED
    BY <1>18, <1>19, <1>20

\* The host stores an answer that ends the execution: the next one starts anew.
LEMMA StoresTheEnd ==
    ASSUME OrchestrationInv, HostStores, Ends
    PROVE  OrchestrationInv'
<1> USE DEF OrchestrationInv
<1>1. /\ history' = <<>> /\ inbox' \in {<<ExecutionStarted>>, <<>>}
      /\ turn' = NoTurn /\ reply' = NoReply /\ started' = started
      /\ generation' \in {generation, generation + 1}
    BY DEF HostStores
<1>2. ExecutionStarted \in HistoryEvents
    BY DEF ExecutionStarted, Event, HistoryEvents
<1>3. OrchestrationTypeOK'
  <2>1. turn'.past = <<>> /\ turn'.new = <<>>
      BY <1>1 DEF NoTurn
  <2>2. generation' \in Nat
      BY <1>1 DEF OrchestrationTypeOK
  <2> HIDE DEF HistoryEvents
  <2>3. <<>> \in Seq(HistoryEvents) /\ <<ExecutionStarted>> \in Seq(HistoryEvents)
      BY <1>2, EmptySeq
  <2> QED
      BY <1>1, <2>1, <2>2, <2>3 DEF OrchestrationTypeOK
<1>4. InboxFits'
  <2>1. ExecutionStarted.kind # "TaskScheduled"
      BY DEF ExecutionStarted, Event
  <2>2. \A i \in 1..Len(inbox') : inbox'[i] = ExecutionStarted
      BY <1>1
  <2> QED
      BY <1>1, <2>1, <2>2 DEF InboxFits
<1>5. TurnIsCurrent' /\ ReplyIsReplay' /\ MessagesOfTasks' /\ ScheduledOnce'
    BY <1>1 DEF TurnIsCurrent, ReplyIsReplay, MessagesOfTasks, ScheduledOnce
<1> QED
    BY <1>3, <1>4, <1>5

\* Every step of the host, the store or the worker keeps the invariant.
LEMMA OrchestrationInvStep ==
    ASSUME OrchestrationInv, [Next]_applicationVars
    PROVE  OrchestrationInv'
    BY StepOfOrchestration, TurnKeepsOrchestration, CompletionKeepsOrchestration,
       SendsKeepsOrchestration, StoresGoingOn, StoresTheEnd DEF OrchestrationStep

\* runner.go, whole: the inductive invariant of the turns.
THEOREM OrchestrationInvHolds == Spec => []OrchestrationInv
    BY OrchestrationInvInit, OrchestrationInvStep, PTL DEF Spec

\* middleware/durabletask/runner.go: for any tasks, executions and deliveries,
\* a history schedules each task once, and the messages for it are one message.
THEOREM NoWorkIsRepeated == Spec => []NoWorkRepeated
<1>1. ASSUME OrchestrationInv PROVE NoWorkRepeated
  <2> USE <1>1 DEF OrchestrationInv
  <2>1. \A i, j \in DOMAIN history :
           history[i].kind = "TaskScheduled" /\ history[i] = history[j] => i = j
      BY DEF ScheduledOnce
  <2>2. ASSUME NEW m \in started, NEW n \in started, m.generation = n.generation
        PROVE  /\ m.action = n.action => m = n
               /\ m.kind = "child" /\ n.kind = "child" /\ m.id = n.id => m.action = n.action
    <3>1. PICK a \in DOMAIN Tasks :
             m = [generation |-> m.generation, action |-> a, kind |-> Tasks[a].kind,
                  id |-> IdOf(a)]
        BY DEF MessagesOfTasks
    <3>2. PICK b \in DOMAIN Tasks :
             n = [generation |-> n.generation, action |-> b, kind |-> Tasks[b].kind,
                  id |-> IdOf(b)]
        BY DEF MessagesOfTasks
    <3>3. m.action = a /\ m.kind = Tasks[a].kind /\ m.id = IdOf(a)
        BY <3>1
    <3>4. n.action = b /\ n.kind = Tasks[b].kind /\ n.id = IdOf(b)
        BY <3>2
    <3>5. ASSUME Tasks[a].kind = "child", Tasks[b].kind = "child", IdOf(a) = IdOf(b)
          PROVE  a = b
      <4>1. a # 0 /\ b # 0
          BY TaskFacts
      <4>2. CASE Tasks[a].id = "" /\ Tasks[b].id = ""
          BY <3>5, <4>2 DEF IdOf, ChildId
      <4>3. CASE Tasks[a].id # "" /\ Tasks[b].id # ""
          BY <3>5, <4>3, TasksAssumption DEF IdOf
      <4>4. CASE (Tasks[a].id = "") # (Tasks[b].id = "")
          BY <3>5, <4>1, <4>4 DEF IdOf, ChildId
      <4> QED
          BY <4>2, <4>3, <4>4
    <3> QED
        BY <2>2, <3>1, <3>2, <3>3, <3>4, <3>5
  <2> QED
      BY <2>1, <2>2 DEF NoWorkRepeated
<1> QED
    BY <1>1, OrchestrationInvHolds, PTL

-----------------------------------------------------------------------------
(* An invocation and its spans.  What main, the control plane and the host   *)
(* do is a stutter of it.                                                    *)

InvocationStep ==
    \/ \E r : InvocationArrives(r)
    \/ ClientFactory \/ EnterOtel \/ EnterDurable \/ EnterPlain
    \/ RunHandler \/ RunOrchestrator
    \/ ErrorTextPanics \/ OtelReturns \/ OtelFlushes \/ OthersReturn
    \/ AnswerInvocation
    \/ UNCHANGED invocationVars

\* What an application does to an invocation is one step of its chain.
LEMMA StepOfInvocation == [Next]_applicationVars => InvocationStep
<1> SUFFICES ASSUME [Next]_applicationVars PROVE InvocationStep
    OBVIOUS
<1>1. CASE Main \/ Control \/ Site \/ Host
    BY <1>1 DEF Main, Control, Site, Host, InvocationStep
<1>2. CASE Invocation
    BY <1>2 DEF Invocation, Arrives, InvocationStep
<1>3. CASE Answers
    BY <1>3 DEF Answers, InvocationStep
<1>4. CASE UNCHANGED applicationVars
    BY <1>4 DEF applicationVars, InvocationStep
<1> QED
    BY <1>1, <1>2, <1>3, <1>4 DEF Next

SpanFields == {"state", "tracer", "inbound", "class", "attrs", "error"}
SpansTypeOK ==
    /\ depth \in Nat
    /\ \A i \in DOMAIN spans : i \in Nat /\ i > 0 /\ DOMAIN spans[i] = SpanFields

\* What Wrap has done to a span after next: to all above depth on the way up,
\* and to that at depth but for the flush.
Harvested(span) ==
    /\ span.error = (verdict = "error")
    /\ "user.key" \in span.attrs => "user.key" \in DOMAIN outbound
Over(span) ==
    /\ Harvested(span)
    /\ span.state # "open"
    /\ span.tracer.flushes => span.state = "flushed"

SpansInOrder ==
    /\ phase \in {"factory", "down"} => depth > 0 /\ \A i \in DOMAIN spans : i < depth
    /\ phase \in {"up", "flush"} => \A i \in DOMAIN spans : i > depth => Over(spans[i])
    /\ phase = "flush" => depth \in DOMAIN spans /\ Harvested(spans[depth])
    /\ phase = "unwound" => verdict = "panic"
    /\ phase = "answered" /\ verdict # "panic" => \A i \in DOMAIN spans : Over(spans[i])

OutboundInOrder ==
    /\ DOMAIN outbound \cap workerSetSpanAttributeKeys = {}
    /\ phase = "answered" => answer.outbound = outbound
    /\ phase # "idle" /\ request.script.sets =>
          /\ "user.key" \in DOMAIN outbound => outbound["user.key"] = "explicit"
          /\ \A i \in DOMAIN spans :
                "user.key" \in spans[i].attrs => "user.key" \in DOMAIN outbound

TelemetryInv == SpansTypeOK /\ SpansInOrder /\ OutboundInOrder

\* What the worker puts on a span itself is never the user's.
LEMMA UserKeys ==
    /\ "user.key" \notin workerSetSpanAttributeKeys
    /\ \A tc, trigger, tracer :
          LET span == StartSpan(tc, trigger, tracer) IN
          /\ DOMAIN span = SpanFields
          /\ "user.key" \notin span.attrs
<1>1. \A a \in DOMAIN Promoted : Promoted[a] # "user.key"
    BY DEF Promoted
<1>2. ASSUME NEW tc PROVE "user.key" \notin hostAttrs(tc.attributes)
    BY <1>1 DEF hostAttrs
<1>3. "user.key" \notin workerSetSpanAttributeKeys
    BY <1>1 DEF workerSetSpanAttributeKeys
<1> QED
    BY <1>2, <1>3 DEF StartSpan, SpanFields

\* No span is open before the first invocation.
LEMMA TelemetryInvInit == Init => TelemetryInv
<1> SUFFICES ASSUME Init PROVE TelemetryInv
    OBVIOUS
<1>1. phase = "idle" /\ depth = 0 /\ spans = NoSpans /\ outbound = NoFields
    BY DEF Init, PipelineInit
<1>2. DOMAIN NoSpans = {} /\ DOMAIN NoFields = {}
    BY DEF NoSpans, NoFields
<1> QED
    BY <1>1, <1>2 DEF TelemetryInv, SpansTypeOK, SpansInOrder, OutboundInOrder

\* The arrival, and a client factory that runs before the chain.
LEMMA ArrivalKeepsTelemetry ==
    ASSUME TelemetryInv, (\E r : InvocationArrives(r)) \/ ClientFactory
    PROVE  TelemetryInv'
<1>1. CASE \E r : InvocationArrives(r)
  <2>1. PICK r : InvocationArrives(r)
      BY <1>1
  <2> DEFINE failed == Answer("Failure", "Binding conversion", Zero, NoFields)
  <2>2. /\ depth' = 1 /\ spans' = NoSpans /\ outbound' = NoFields
        /\ \/ phase' \in {"factory", "down"}
           \/ phase' = "silent"
           \/ phase' = "answered" /\ answer'.outbound = NoFields
    <3>1. depth' = 1 /\ spans' = NoSpans /\ outbound' = NoFields
        BY <2>1 DEF InvocationArrives
    <3>2. \/ phase' \in {"factory", "down", "silent"}
          \/ phase' = "answered" /\ answer' = failed
        BY <2>1 DEF InvocationArrives
    <3>3. failed.outbound = NoFields
        BY DEF Answer
    <3> QED
        BY <3>1, <3>2, <3>3
  <2>3. DOMAIN NoSpans = {} /\ DOMAIN NoFields = {}
      BY DEF NoSpans, NoFields
  <2> QED
      BY <2>2, <2>3 DEF TelemetryInv, SpansTypeOK, SpansInOrder, OutboundInOrder
<1>2. CASE ClientFactory
  <2>1. /\ phase = "factory" /\ phase' \in {"down", "silent"}
        /\ UNCHANGED <<request, depth, spans, outbound, verdict, answer>>
      BY <1>2 DEF ClientFactory
  <2> QED
      BY <2>1 DEF TelemetryInv, SpansTypeOK, SpansInOrder, OutboundInOrder
<1> QED
    BY <1>1, <1>2

\* Wrap before next: a span is opened at the depth that is left behind.
LEMMA DescentKeepsTelemetry ==
    ASSUME TelemetryInv, EnterOtel \/ EnterDurable \/ EnterPlain
    PROVE  TelemetryInv'
<1> USE DEF TelemetryInv
<1>1. CASE EnterOtel
  <2>1. /\ phase = "down" /\ phase' = "down" /\ depth' = depth + 1
        /\ UNCHANGED <<request, outbound, verdict, answer>>
      BY <1>1 DEF EnterOtel, Enters
  <2> DEFINE span == StartSpan(request.trace, Function.type, Otel(depth))
  <2>2. spans' = spans \/ spans' = Assigned(spans, depth, span)
      BY <1>1 DEF EnterOtel
  <2>3. DOMAIN span = SpanFields /\ "user.key" \notin span.attrs
      BY UserKeys
  <2> HIDE DEF span
  <2>4. \A i \in DOMAIN spans' :
           \/ i \in DOMAIN spans /\ spans'[i] = spans[i]
           \/ i = depth /\ spans'[i] = span
      BY <2>2 DEF Assigned
  <2>5. SpansTypeOK'
      BY <2>1, <2>3, <2>4 DEF SpansTypeOK, SpansInOrder
  <2>6. SpansInOrder'
      BY <2>1, <2>4 DEF SpansTypeOK, SpansInOrder
  <2>7. OutboundInOrder'
      BY <2>1, <2>3, <2>4 DEF OutboundInOrder
  <2> QED
      BY <2>5, <2>6, <2>7
<1>2. CASE EnterDurable
  <2>1. /\ phase = "down" /\ phase' = "down" /\ depth' = depth + 1
        /\ UNCHANGED <<request, spans, outbound, verdict, answer>>
      BY <1>2 DEF EnterDurable, Enters
  <2> QED
      BY <2>1 DEF SpansTypeOK, SpansInOrder, OutboundInOrder
<1>3. CASE EnterPlain
  <2>1. /\ phase = "down" /\ UNCHANGED <<request, spans, outbound, answer>>
        /\ \/ phase' = "down" /\ depth' = depth + 1
           \/ phase' = "up" /\ depth' = depth - 1
           \/ phase' = "unwound" /\ verdict' = "panic" /\ depth' = depth
      BY <1>3 DEF EnterPlain, Enters
  <2> QED
      BY <2>1 DEF SpansTypeOK, SpansInOrder, OutboundInOrder
<1> QED
    BY <1>1, <1>2, <1>3

\* What user code puts on a span it puts on one that is not yet harvested.
LEMMA PaintedSpans ==
    ASSUME SpansTypeOK, NEW attrs, Paint(attrs)
    PROVE  /\ DOMAIN spans' = DOMAIN spans
           /\ \A i \in DOMAIN spans :
                 /\ DOMAIN spans'[i] = SpanFields
                 /\ spans'[i].attrs \subseteq spans[i].attrs \cup attrs
<1>1. CASE context.span = 0
    BY <1>1 DEF Paint, SpansTypeOK
<1>2. CASE context.span # 0
    BY <1>2 DEF Paint, SpansTypeOK, SpanFields
<1> QED
    BY <1>1, <1>2

\* The handler paints spans that are open, and ends or panics.
LEMMA HandlerKeepsTelemetry ==
    ASSUME TelemetryInv, RunHandler \/ RunOrchestrator
    PROVE  TelemetryInv'
<1> USE DEF TelemetryInv
<1>1. /\ phase = "down" /\ UNCHANGED <<request, answer>> /\ depth' = depth - 1
      /\ \/ phase' = "unwound" /\ verdict' = "panic"
         \/ phase' = "up"
    BY DEF RunHandler, RunOrchestrator, HandlerEnds, AtHandler
<1>2. /\ DOMAIN spans' = DOMAIN spans
      /\ \A i \in DOMAIN spans : DOMAIN spans'[i] = SpanFields
    BY PaintedSpans DEF RunHandler, RunOrchestrator
<1>3. SpansTypeOK' /\ SpansInOrder'
    BY <1>1, <1>2 DEF SpansTypeOK, SpansInOrder
<1>4. CASE RunHandler
  <2>1. \/ ~request.script.sets /\ outbound' = outbound
        \/ request.script.sets /\ outbound' = Assigned(outbound, "user.key", "explicit")
      BY <1>4 DEF RunHandler
  <2>2. CASE ~request.script.sets /\ outbound' = outbound
      BY <1>1, <1>3, <2>2 DEF OutboundInOrder
  <2>3. CASE request.script.sets /\ outbound' = Assigned(outbound, "user.key", "explicit")
    <3>1. /\ DOMAIN outbound' = DOMAIN outbound \cup {"user.key"}
          /\ outbound'["user.key"] = "explicit"
        BY <2>3 DEF Assigned
    <3> QED
        BY <1>1, <1>3, <3>1, UserKeys DEF OutboundInOrder
  <2> QED
      BY <2>1, <2>2, <2>3
<1>5. CASE RunOrchestrator
  <2> DEFINE noted == {"durabletask.task.instance_id", "durabletask.action_count"}
  <2>1. outbound' = outbound /\ (Paint({}) \/ Paint(noted))
      BY <1>5 DEF RunOrchestrator
  <2>2. \A i \in DOMAIN spans : spans'[i].attrs \subseteq spans[i].attrs \cup noted
      BY <2>1, PaintedSpans
  <2>3. \A i \in DOMAIN spans : "user.key" \in spans'[i].attrs => "user.key" \in spans[i].attrs
      BY <2>2
  <2>4. OutboundInOrder'
      BY <1>1, <1>2, <2>1, <2>3 DEF OutboundInOrder
  <2> QED
      BY <1>3, <2>4
<1> QED
    BY <1>4, <1>5

\* Wrap after next.
LEMMA ReturnKeepsTelemetry ==
    ASSUME TelemetryInv, OtelReturns
    PROVE  TelemetryInv'
<1> USE DEF TelemetryInv
<1>1. /\ phase = "up" /\ depth \in DOMAIN spans
      /\ spans' = [spans EXCEPT ![depth].state = "ended", ![depth].error = verdict = "error"]
      /\ outbound' = Harvest(outbound, spans[depth])
      /\ phase' = "flush" /\ depth' = depth
      /\ UNCHANGED <<request, verdict, answer>>
    BY DEF OtelReturns, AfterNext
<1>2. /\ DOMAIN spans' = DOMAIN spans
      /\ \A i \in DOMAIN spans : i # depth => spans'[i] = spans[i]
      /\ spans'[depth] = [spans[depth] EXCEPT !.state = "ended", !.error = verdict = "error"]
    BY <1>1
<1>3. /\ DOMAIN spans'[depth] = SpanFields
      /\ spans'[depth].attrs = spans[depth].attrs
      /\ spans'[depth].error = (verdict = "error")
    BY <1>1, <1>2 DEF SpansTypeOK, SpanFields
<1>4. /\ DOMAIN outbound' = DOMAIN outbound \cup (spans[depth].attrs \ workerSetSpanAttributeKeys)
      /\ \A k \in DOMAIN outbound : outbound'[k] = outbound[k]
    BY <1>1 DEF Harvest
<1>5. SpansTypeOK'
    BY <1>1, <1>2, <1>3 DEF SpansTypeOK
<1>6. SpansInOrder'
  <2>1. Harvested(spans[depth])'
      BY <1>1, <1>3, <1>4, UserKeys DEF Harvested
  <2>2. ASSUME NEW i \in DOMAIN spans, i > depth PROVE Over(spans[i])'
    <3>1. spans'[i] = spans[i] /\ Over(spans[i])
        BY <1>1, <1>2, <2>2 DEF SpansInOrder, SpansTypeOK
    <3> QED
        BY <1>1, <1>4, <3>1 DEF Over, Harvested
  <2> QED
      BY <1>1, <1>2, <2>1, <2>2 DEF SpansInOrder
<1>7. OutboundInOrder'
  <2>1. DOMAIN outbound' \cap workerSetSpanAttributeKeys = {}
      BY <1>4 DEF OutboundInOrder
  <2>2. ASSUME request.script.sets
        PROVE  /\ "user.key" \in DOMAIN outbound' => outbound'["user.key"] = "explicit"
               /\ \A i \in DOMAIN spans' :
                     "user.key" \in spans'[i].attrs => "user.key" \in DOMAIN outbound'
    <3>1. \A i \in DOMAIN spans' : spans'[i].attrs = spans[i].attrs
        BY <1>2, <1>3
    <3> QED
        BY <1>1, <1>2, <1>4, <2>2, <3>1 DEF OutboundInOrder
  <2> QED
      BY <1>1, <2>1, <2>2 DEF OutboundInOrder
<1> QED
    BY <1>5, <1>6, <1>7

\* The flush, what is not a span on the way up, and a panic there.
LEMMA AscentKeepsTelemetry ==
    ASSUME TelemetryInv, OtelFlushes \/ OthersReturn \/ ErrorTextPanics
    PROVE  TelemetryInv'
<1> USE DEF TelemetryInv
<1>1. CASE OtelFlushes
  <2> DEFINE final == IF spans[depth].tracer.flushes THEN "flushed" ELSE "ended"
  <2>1. /\ phase = "flush" /\ phase' = "up" /\ depth' = depth - 1
        /\ spans' = [spans EXCEPT ![depth].state = final]
        /\ UNCHANGED <<request, outbound, verdict, answer>>
      BY <1>1 DEF OtelFlushes
  <2>2. /\ final # "open"
        /\ spans[depth].tracer.flushes => final = "flushed"
      OBVIOUS
  <2> HIDE DEF final
  <2>3. depth \in DOMAIN spans /\ Harvested(spans[depth])
      BY <2>1 DEF SpansInOrder
  <2>4. /\ DOMAIN spans' = DOMAIN spans
        /\ \A i \in DOMAIN spans : i # depth => spans'[i] = spans[i]
        /\ spans'[depth] = [spans[depth] EXCEPT !.state = final]
      BY <2>1, <2>3
  <2>5. /\ DOMAIN spans'[depth] = SpanFields
        /\ spans'[depth].attrs = spans[depth].attrs
        /\ spans'[depth].error = spans[depth].error
        /\ spans'[depth].tracer = spans[depth].tracer
        /\ spans'[depth].state = final
      BY <2>3, <2>4 DEF SpansTypeOK, SpanFields
  <2>6. SpansTypeOK'
      BY <2>1, <2>3, <2>4, <2>5 DEF SpansTypeOK
  <2>7. ASSUME NEW i \in DOMAIN spans, i = depth PROVE Over(spans[i])'
      BY <2>1, <2>2, <2>3, <2>5, <2>7 DEF Over, Harvested
  <2>8. ASSUME NEW i \in DOMAIN spans, i > depth PROVE Over(spans[i])'
    <3>1. spans'[i] = spans[i] /\ Over(spans[i])
        BY <2>1, <2>3, <2>4, <2>8 DEF SpansInOrder, SpansTypeOK
    <3> QED
        BY <2>1, <3>1 DEF Over, Harvested
  <2>9. SpansInOrder'
    <3>1. \A i \in DOMAIN spans : i > depth - 1 => i = depth \/ i > depth
        BY DEF SpansTypeOK
    <3> QED
        BY <2>1, <2>4, <2>7, <2>8, <3>1 DEF SpansInOrder
  <2>10. OutboundInOrder'
    <3>1. \A i \in DOMAIN spans' : spans'[i].attrs = spans[i].attrs
        BY <2>4, <2>5
    <3> QED
        BY <2>1, <2>4, <3>1 DEF OutboundInOrder
  <2> QED
      BY <2>6, <2>9, <2>10
<1>2. CASE OthersReturn
  <2>1. /\ phase = "up" /\ depth > 0 /\ depth \notin DOMAIN spans /\ depth' = depth - 1
        /\ UNCHANGED <<phase, request, spans, outbound, verdict, answer>>
      BY <1>2 DEF OthersReturn
  <2>2. SpansTypeOK' /\ OutboundInOrder'
      BY <2>1 DEF SpansTypeOK, OutboundInOrder
  <2>3. \A i \in DOMAIN spans : i > depth - 1 => i > depth
      BY <2>1 DEF SpansTypeOK
  <2>4. SpansInOrder'
      BY <2>1, <2>3 DEF SpansInOrder, Over, Harvested
  <2> QED
      BY <2>2, <2>4
<1>3. CASE ErrorTextPanics
  <2>1. /\ UNCHANGED <<request, depth, spans, outbound, answer>>
        /\ \/ phase' = "unwound" /\ verdict' = "panic"
           \/ phase' = "silent"
        /\ phase # "idle"
      BY <1>3 DEF ErrorTextPanics
  <2> QED
      BY <2>1 DEF SpansTypeOK, SpansInOrder, OutboundInOrder
<1> QED
    BY <1>1, <1>2, <1>3

\* AnswerInvocation: the spans are over by then, unless user code panicked.
LEMMA AnswerKeepsTelemetry ==
    ASSUME TelemetryInv, AnswerInvocation
    PROVE  TelemetryInv'
<1> USE DEF TelemetryInv
<1>1. /\ phase = "unwound" \/ (phase = "up" /\ depth = 0)
      /\ phase' = "answered"
      /\ UNCHANGED <<request, depth, spans, outbound, verdict>>
    BY DEF AnswerInvocation
<1>2. answer'.outbound = outbound
    BY DEF AnswerInvocation, Answer
<1>3. verdict # "panic" => \A i \in DOMAIN spans : Over(spans[i])
    BY <1>1 DEF SpansInOrder, SpansTypeOK
<1> QED
    BY <1>1, <1>2, <1>3 DEF SpansTypeOK, SpansInOrder, OutboundInOrder, Over, Harvested

\* Every step of the chain keeps what is known of the spans.
LEMMA TelemetryInvStep ==
    ASSUME TelemetryInv, [Next]_applicationVars
    PROVE  TelemetryInv'
<1>1. CASE UNCHANGED invocationVars
    BY <1>1 DEF invocationVars, TelemetryInv, SpansTypeOK, SpansInOrder, OutboundInOrder,
                Over, Harvested
<1> QED
    BY <1>1, StepOfInvocation, ArrivalKeepsTelemetry, DescentKeepsTelemetry,
       HandlerKeepsTelemetry, ReturnKeepsTelemetry, AscentKeepsTelemetry,
       AnswerKeepsTelemetry DEF InvocationStep

\* middleware/otelfunc, Wrap: for any application, chain of middlewares and
\* user code, an answered invocation whose user code returned has its spans
\* ended, marked and flushed, and the host has what the user put on them.
THEOREM TelemetryPrecedesAnswer == Spec => []TelemetryBeforeAnswer
<1>1. ASSUME TelemetryInv PROVE TelemetryBeforeAnswer
    BY <1>1 DEF TelemetryInv, SpansInOrder, OutboundInOrder, Over, Harvested,
                TelemetryBeforeAnswer
<1> QED
    BY <1>1, TelemetryInvInit, TelemetryInvStep, PTL DEF Spec

-----------------------------------------------------------------------------
(* What the handler gets: the conversions.                                  *)

\* json.Unmarshal gives the zero value for null only.
LEMMA UnmarshalFacts ==
    ASSUME NEW content, NEW kind, Unmarshal(content, kind).ok
    PROVE  \/ Unmarshal(content, kind) = Zero /\ content = "null"
           \/ Unmarshal(content, kind) = Value("json", content) /\ content # "null"
    BY DEF Unmarshal, Fails

\* decodeProto never makes a batch or a message.
LEMMA DecodedKinds ==
    ASSUME NEW d, NEW kind
    PROVE  decodeProto(d, kind).as \notin {"batch", "message"}
<1> DEFINE v == decodeProto(d, kind)
<1>1. \A content : Unmarshal(content, kind).as \in {"error", "zero", "json"}
    BY DEF Unmarshal, Fails, Zero, Value
<1>2. RpcHttpToRequest(d).as \in {"error", "request"}
    BY DEF RpcHttpToRequest, Fails, Value
<1>3. \A as, of : Value(as, of).as = as
    BY DEF Value
<1>4. Natural(d, kind) => kind \in {"string", "bytes", "bool", "int", "int64", "float64"}
    BY DEF Natural
<1>5. Zero.as = "zero"
    BY DEF Zero, Value
<1> HIDE DEF Natural
<1> QED
    BY <1>1, <1>2, <1>3, <1>4, <1>5 DEF decodeProto

\* A body is what was sent, unless that is empty or no text.
IsBodyOf(b, e) ==
    \/ b = Value("bytes", e.content)
    \/ b = Zero /\ (e.content = "" \/ e.variant \notin {"string", "bytes", "json"})
LEMMA BodyIsSent ==
    ASSUME NEW e
    PROVE  IsBodyOf(decodeProto(e, "bytes"), e)
<1> DEFINE b == decodeProto(e, "bytes")
<1>1. CASE e.variant \in {"string", "bytes", "json"} /\ e.content # ""
    BY <1>1 DEF IsBodyOf, decodeProto, Natural, Nonzero, Get, Is
<1>2. CASE e.content = ""
    BY <1>2 DEF IsBodyOf, decodeProto, Natural, Nonzero, Get, Is
<1>3. CASE e.variant \notin {"string", "bytes", "json"}
    BY <1>3 DEF IsBodyOf, decodeProto, Natural, Nonzero, Get, Is
<1> QED
    BY <1>1, <1>2, <1>3

\* A field of a message is the metadata item, unless that is empty or null.
LEMMA FieldIsSent ==
    ASSUME NEW d, NEW kind, d.variant \in Fitting(kind), decodeProto(d, kind).ok
    PROVE  \/ decodeProto(d, kind).of = d.content
           \/ decodeProto(d, kind) = Zero /\ d.content \in {"", "0", "null"}
<1> DEFINE w == decodeProto(d, kind)
<1>0. \A as, of : Value(as, of).of = of
    BY DEF Value
<1>1. CASE kind = "string"
  <2>1. d.variant \in {"string", "bytes", "json"}
      BY <1>1 DEF Fitting
  <2>2. CASE Is(d, "json") /\ d.content # ""
    <3>1. w = Unmarshal(d.content, kind)
        BY <1>1, <2>2 DEF decodeProto, Natural, Nonzero, Get, Is
    <3>2. \/ w = Zero /\ d.content = "null"
          \/ w = Value("json", d.content)
        BY <3>1, UnmarshalFacts
    <3> QED
        BY <1>0, <3>2
  <2>3. CASE Is(d, "string") /\ d.content # ""
      BY <1>0, <1>1, <2>3 DEF decodeProto, Natural, Nonzero, Get, Is
  <2>4. CASE Is(d, "bytes")
      BY <1>0, <1>1, <2>4 DEF decodeProto, Natural, Nonzero, Get, Is
  <2>5. CASE Is(d, "json") /\ d.content = ""
      BY <1>1, <2>5 DEF decodeProto, Natural, Nonzero, Get, Is
  <2>6. CASE Is(d, "string") /\ d.content = ""
      BY <1>1, <2>6 DEF decodeProto, Natural, Nonzero, Get, Is
  <2> QED
      BY <2>1, <2>2, <2>3, <2>4, <2>5, <2>6 DEF Is
<1>2. CASE kind = "int64"
  <2>1. d.variant \in {"int", "json"}
      BY <1>2 DEF Fitting
  <2>2. CASE Is(d, "json") /\ d.content # ""
    <3>1. w = Unmarshal(d.content, kind)
        BY <1>2, <2>2 DEF decodeProto, Natural, Nonzero, Get, Is
    <3>2. \/ w = Zero /\ d.content = "null"
          \/ w = Value("json", d.content)
        BY <3>1, UnmarshalFacts
    <3> QED
        BY <1>0, <3>2
  <2>3. CASE Is(d, "json") /\ d.content = ""
      BY <1>2, <2>3 DEF decodeProto, Natural, Nonzero, Get, Is
  <2>4. CASE Is(d, "int") /\ d.content \in {"", "0"}
      BY <1>2, <2>4 DEF decodeProto, Natural, Nonzero, Get, Is
  <2>5. CASE Is(d, "int") /\ d.content \notin {"", "0"}
      BY <1>0, <1>2, <2>5 DEF decodeProto, Natural, Nonzero, Get, Is
  <2> QED
      BY <2>1, <2>2, <2>3, <2>4, <2>5 DEF Is
<1>3. CASE kind \notin {"string", "int64"}
    BY <1>3 DEF Fitting
<1> QED
    BY <1>1, <1>2, <1>3

\* convertMessage: a message has the body that was sent and, in its fields, the
\* metadata that is given to it.
LEMMA MessageIsSent ==
    ASSUME NEW m, NEW e, NEW md, NEW given, convertMessage(m, e, md).ok,
           DOMAIN m.fields \cap DOMAIN given = DOMAIN m.fields \cap DOMAIN md,
           \A f \in DOMAIN m.fields \cap DOMAIN md : given[f] = md[f]
    PROVE  IsDecodedMessage(convertMessage(m, e, md), m, e, given)
<1>a. IsBodyOf(decodeProto(e, "bytes"), e)
    BY BodyIsSent
<1> DEFINE v == convertMessage(m, e, md)
           whole == IF Get(e, "json") # "" THEN Get(e, "json") ELSE Get(e, "string")
           filled == DOMAIN m.fields \cap DOMAIN md
           field(f) == decodeProto(md[f], m.fields[f])
           body == decodeProto(e, "bytes")
           message == Value("message", [body |-> IF m.body THEN body ELSE Zero,
                                        fields |-> [f \in filled |-> field(f)]])
<1>0. v.ok
    OBVIOUS
<1>1. v = IF ~m.body /\ JsonFits(whole, "struct") THEN Unmarshal(whole, "struct")
          ELSE IF \E f \in filled : ~field(f).ok THEN Fails
          ELSE IF m.body \/ filled # {} THEN message
          ELSE decodeProto(e, "struct")
    BY DEF convertMessage
<1>2. whole = IF e.variant \in {"string", "json"} THEN e.content ELSE ""
    BY DEF Get, Is
<1>3. ~JsonFits("", "struct") /\ JsonFits("object", "struct") /\ JsonFits("null", "struct")
    BY DEF JsonFits
<1>4. message.as = "message" /\ message.of.body = (IF m.body THEN body ELSE Zero)
      /\ message.of.fields = [f \in filled |-> field(f)]
    BY DEF Value
<1>5. ~Fails.ok
    BY DEF Fails
<1>6. /\ \A as, of : Value(as, of).as = as /\ Value(as, of).of = of
      /\ Zero.as = "zero"
    BY DEF Value, Zero
<1> HIDE DEF v, whole, field, message
<1>7. CASE v = message /\ \A f \in filled : field(f).ok
  <2>1. m.body => IsBodyOf(v.of.body, e)
      BY <1>a, <1>4, <1>7
  <2>a. DOMAIN v.of.fields = DOMAIN m.fields \cap DOMAIN given
      BY <1>4, <1>7
  <2>2. ASSUME NEW f \in DOMAIN v.of.fields
        PROVE  given[f].variant \in Fitting(m.fields[f]) =>
                  \/ v.of.fields[f].of = given[f].content
                  \/ v.of.fields[f] = Zero /\ given[f].content \in {"", "0", "null"}
    <3>1. f \in filled /\ given[f] = md[f]
        BY <2>a
    <3>2. v.of.fields[f] = field(f) /\ field(f).ok
        BY <1>4, <1>7, <3>1
    <3>3. PICK item, kind : item = md[f] /\ kind = m.fields[f]
        OBVIOUS
    <3>4. decodeProto(item, kind).ok /\ v.of.fields[f] = decodeProto(item, kind)
        BY <3>2, <3>3 DEF field
    <3>5. item.variant \in Fitting(kind) =>
             \/ decodeProto(item, kind).of = item.content
             \/ decodeProto(item, kind) = Zero /\ item.content \in {"", "0", "null"}
        BY <3>4, FieldIsSent
    <3> QED
        BY <3>1, <3>2, <3>3, <3>4, <3>5
  <2>3. v.as = "message"
      BY <1>4, <1>7
  <2> QED
      BY <2>1, <2>a, <2>2, <2>3 DEF IsDecodedMessage, IsBodyOf, v
<1>8. CASE ~m.body /\ v = Unmarshal(whole, "struct") /\ JsonFits(whole, "struct")
  <2>1. whole = e.content
      BY <1>2, <1>3, <1>8
  <2>2. \/ v = Zero /\ e.content = "null"
        \/ v = Value("json", e.content)
      BY <1>0, <1>8, <2>1, UnmarshalFacts
  <2>3. v.as # "message" /\ (v.of = e.content \/ (v = Zero /\ e.content = "null"))
      BY <1>6, <2>2
  <2> QED
      BY <1>8, <2>3 DEF IsDecodedMessage, v
<1>9. CASE ~m.body /\ v = decodeProto(e, "struct")
  <2>1. v.as # "message"
      BY <1>9, DecodedKinds
  <2>2. CASE \/ Is(e, "string") /\ JsonFits(e.content, "struct")
             \/ Is(e, "json") /\ e.content # ""
    <3>1. v = Unmarshal(e.content, "struct")
      <4>1. e.content # ""
          BY <1>3, <2>2
      <4> QED
          BY <1>9, <2>2, <4>1 DEF decodeProto, Natural, Get, Is, Nonzero
    <3>2. \/ v = Zero /\ e.content = "null"
          \/ v = Value("json", e.content)
        BY <1>0, <3>1, UnmarshalFacts
    <3> QED
        BY <1>6, <1>9, <2>1, <3>2 DEF IsDecodedMessage, v
  <2>3. CASE /\ ~(Is(e, "string") /\ JsonFits(e.content, "struct"))
             /\ ~(Is(e, "json") /\ e.content # "")
    <3>1. v = Zero
        BY <1>9, <2>3 DEF decodeProto, Natural, Get, Is, Nonzero
    <3>2. ~(e.variant \in {"string", "json"} /\ e.content = "object")
        BY <1>3, <2>3 DEF Is
    <3> QED
        BY <1>9, <2>1, <3>1, <3>2 DEF IsDecodedMessage, v
  <2> QED
      BY <2>2, <2>3
<1> QED
    BY <1>0, <1>1, <1>5, <1>7, <1>8, <1>9 DEF v

\* RpcHttpToRequest: the body and, when it was sent, the method.
LEMMA RequestIsSent ==
    ASSUME NEW m, NEW d, NEW md, m.kind = "request", Is(d, "http"),
           convertToTypeValue(m, d, md).ok
    PROVE  LET v == convertToTypeValue(m, d, md) IN
           v.of.body = d.content /\ (d.items # <<>> => v.of.method = d.items[1])
<1>1. convertToTypeValue(m, d, md) = RpcHttpToRequest(d)
    BY DEF convertToTypeValue, decodeProto, Natural, Is
<1>2. ~Fails.ok
    BY DEF Fails
<1> QED
    BY <1>1, <1>2 DEF RpcHttpToRequest, Value

\* convertToTypeValue: the elements of a batch of messages, in their order, each
\* with the metadata of its own index.
LEMMA BatchIsSent ==
    ASSUME NEW m, NEW d, convertToTypeValue(m, d, request.metadata).ok,
           m.kind = "slice of struct", d.variant \in Collections
    PROVE  LET v == convertToTypeValue(m, d, request.metadata) IN
           /\ v.as = "batch" /\ DOMAIN v.of = DOMAIN d.items
           /\ \A i \in DOMAIN v.of : IsDecodedMessage(v.of[i], m, Elements(d)[i], ItemsAt(i))
<1> DEFINE v == convertToTypeValue(m, d, request.metadata)
           one(i) == convertMessage(m, Elements(d)[i], collectionMetadataAt(request.metadata, i))
           decoded == [i \in DOMAIN Elements(d) |-> one(i)]
<1>1. (\A i \in DOMAIN decoded : decoded[i].ok) /\ v = Value("batch", decoded)
  <2>1. v = IF \E i \in DOMAIN decoded : ~decoded[i].ok THEN Fails ELSE Value("batch", decoded)
      BY DEF convertToTypeValue
  <2>2. v.ok /\ ~Fails.ok
      BY DEF Fails
  <2> HIDE DEF v, decoded
  <2> QED
      BY <2>1, <2>2
<1>2. DOMAIN Elements(d) = DOMAIN d.items
    BY DEF Elements
<1>3. v.as = "batch" /\ v.of = decoded
  <2>1. \A as, of : Value(as, of).as = as /\ Value(as, of).of = of
      BY DEF Value
  <2>2. v = Value("batch", decoded)
      BY <1>1
  <2> HIDE DEF v, decoded
  <2> QED
      BY <2>1, <2>2
<1> HIDE DEF v
<1>4. DOMAIN v.of = DOMAIN d.items /\ \A i \in DOMAIN v.of : v.of[i] = one(i) /\ one(i).ok
    BY <1>1, <1>2, <1>3
<1>5. ASSUME NEW i \in DOMAIN v.of
      PROVE  IsDecodedMessage(v.of[i], m, Elements(d)[i], ItemsAt(i))
  <2>1. PICK md, given, e : /\ md = collectionMetadataAt(request.metadata, i)
                            /\ given = ItemsAt(i) /\ e = Elements(d)[i]
      OBVIOUS
  <2>2. /\ DOMAIN m.fields \cap DOMAIN given = DOMAIN m.fields \cap DOMAIN md
        /\ \A f \in DOMAIN m.fields \cap DOMAIN md : given[f] = md[f]
      BY <2>1 DEF ItemsAt, collectionMetadataAt
  <2>3. convertMessage(m, e, md).ok /\ v.of[i] = convertMessage(m, e, md)
      BY <1>4, <2>1
  <2>4. IsDecodedMessage(convertMessage(m, e, md), m, e, given)
      BY <2>2, <2>3, MessageIsSent
  <2> QED
      BY <2>1, <2>3, <2>4
<1> QED
    BY <1>3, <1>4, <1>5 DEF v

\* decodeGenericInput: one value, raw or as JSON.
LEMMA ScalarIsSent ==
    ASSUME NEW t, NEW d, decodeGenericScalar(t, d).ok
    PROVE  /\ IsDecoded(decodeGenericScalar(t, d), d)
           /\ decodeGenericScalar(t, d).as \notin {"batch", "error"}
           /\ decodeGenericScalar(t, d).as = "zero" => IsNull(d)
<1> DEFINE v == decodeGenericScalar(t, d)
           b == Base(t)
           content == IF d.variant \in {"int", "double"} THEN "number" ELSE d.content
<1>1. \A as, of : Value(as, of).as = as /\ Value(as, of).of = of
    BY DEF Value
<1>2. \/ IsRaw(b) /\ v = Value(Kind(b), d.content)
      \/ IsNull(d) /\ v = Value("nil", "")
      \/ d.variant \in Scalars /\ v = decodeGenericJSON(b, content)
    BY DEF decodeGenericScalar, Fails
<1>3. CASE IsRaw(b) /\ v = Value(Kind(b), d.content)
  <2>1. v.as \in {"string", "bytes"} /\ v.of = d.content
    <3> HIDE DEF v, b
    <3> QED
        BY <1>1, <1>3 DEF IsRaw, IsText, IsBytes
  <2> QED
      BY <2>1 DEF IsDecoded
<1>4. CASE IsNull(d) /\ v = Value("nil", "")
  <2>1. v = Value("nil", "") /\ v.as = "nil" /\ d.content = "null"
    <3> HIDE DEF v
    <3> QED
        BY <1>1, <1>4 DEF IsNull
  <2> QED
      BY <2>1 DEF IsDecoded
<1>5. CASE d.variant \in Scalars /\ v = decodeGenericJSON(b, content)
  <2> HIDE DEF v, b, content
  <2>1. v.ok
      BY DEF v
  <2>2. \/ v = Value("custom", content)
        \/ v = Zero /\ content = "null"
        \/ v = Value("json", content)
    <3>1. CASE Has(b, "unmarshal")
        BY <1>5, <2>1, <3>1 DEF decodeGenericJSON, Fails
    <3>2. CASE ~Has(b, "unmarshal")
      <4>1. v = Unmarshal(content, Kind(b))
          BY <1>5, <3>2 DEF decodeGenericJSON
      <4> QED
          BY <2>1, <4>1, UnmarshalFacts
    <3> QED
        BY <3>1, <3>2
  <2>3. \/ content = d.content
        \/ content = "number" /\ d.variant \in {"int", "double"}
      BY DEF content
  <2>4. CASE v = Zero /\ content = "null"
    <3>1. d.content = "null" /\ d.variant \in {"string", "json", "bytes"}
        BY <1>5, <2>3, <2>4 DEF content, Scalars
    <3>2. Zero.as = "zero"
        BY DEF Zero, Value
    <3> QED
        BY <2>4, <3>1, <3>2 DEF IsDecoded, IsNull, v
  <2>5. CASE v.of = content /\ v.as \in {"custom", "json"}
      BY <2>3, <2>5 DEF IsDecoded, v
  <2> QED
      BY <1>1, <2>2, <2>4, <2>5 DEF v
<1>6. \/ IsRaw(b) /\ v = Value(Kind(b), d.content)
      \/ IsNull(d) /\ v = Value("nil", "")
      \/ d.variant \in Scalars /\ v = decodeGenericJSON(b, content)
    BY <1>2
<1> QED
    BY <1>3, <1>4, <1>5, <1>6

\* What a generic handler's argument is of its one input.
IsGenericValue(v, d) ==
    /\ v.as \notin {"zero", "error"} \/ IsNull(d)
    /\ IF d.variant \notin Collections THEN IsDecoded(v, d)
       ELSE \/ v.as = "custom" /\ v.of = "array"
            \/ /\ v.as = "batch" /\ DOMAIN v.of = DOMAIN d.items
               /\ \A i \in DOMAIN v.of : IsDecoded(v.of[i], Elements(d)[i])
LEMMA GenericIsSent ==
    ASSUME NEW t, NEW d, decodeGenericInput(t, d).ok
    PROVE  IsGenericValue(decodeGenericInput(t, d), d)
<1> DEFINE v == decodeGenericInput(t, d)
           b == Base(t)
           one(i) == decodeGenericScalar(Elem(b), Elements(d)[i])
           decoded == [i \in DOMAIN Elements(d) |-> one(i)]
<1>1. \A as, of : Value(as, of).as = as /\ Value(as, of).of = of
    BY DEF Value
<1>2. \/ d.variant \notin Collections /\ v = decodeGenericScalar(t, d)
      \/ d.variant \in Collections /\ v = Value("custom", "array")
      \/ /\ d.variant \in Collections /\ v = Value("batch", decoded)
         /\ \A i \in DOMAIN decoded : decoded[i].ok
  <2> HIDE DEF one
  <2> QED
      BY DEF decodeGenericInput, Fails, one
<1> HIDE DEF v, b
<1>3. CASE d.variant \notin Collections /\ v = decodeGenericScalar(t, d)
  <2>1. decodeGenericScalar(t, d).ok
      BY <1>3 DEF v
  <2>2. /\ IsDecoded(v, d) /\ v.as \notin {"batch", "error"}
        /\ v.as = "zero" => IsNull(d)
      BY <1>3, <2>1, ScalarIsSent
  <2> QED
      BY <1>3, <2>2 DEF IsGenericValue, v
<1>4. CASE d.variant \in Collections /\ v = Value("custom", "array")
  <2>1. v.as = "custom" /\ v.of = "array"
      BY <1>1, <1>4
  <2> QED
      BY <1>4, <2>1 DEF IsGenericValue, v
<1>5. CASE /\ d.variant \in Collections /\ v = Value("batch", decoded)
           /\ \A i \in DOMAIN decoded : decoded[i].ok
  <2>1. v.as = "batch" /\ v.of = decoded
      BY <1>1, <1>5
  <2>2. DOMAIN decoded = DOMAIN d.items
      BY <1>5 DEF Elements
  <2>3. ASSUME NEW i \in DOMAIN decoded PROVE IsDecoded(decoded[i], Elements(d)[i])
    <3>1. decoded[i] = one(i) /\ one(i).ok
        BY <1>5
    <3>2. IsDecoded(one(i), Elements(d)[i])
        BY <3>1, ScalarIsSent
    <3> QED
        BY <3>1, <3>2
  <2> HIDE DEF decoded
  <2> QED
      BY <1>5, <2>1, <2>2, <2>3 DEF IsGenericValue, v
<1> QED
    BY <1>2, <1>3, <1>4, <1>5

\* FromProto: an argument comes from the last input of its name, which for a
\* generic handler is the only one.
InputsNamed(inputs, n) == {k \in DOMAIN inputs : inputs[k].name = n}
IsLastOf(k, S) == k \in S /\ \A j \in S : j <= k
IsValueOf(v, generic, t, d, md) ==
    IF generic THEN decodeGenericInput(t, d).ok /\ v = decodeGenericInput(t, d)
    ELSE convertToTypeValue(Targets[t], d, md).ok /\ v = convertToTypeValue(Targets[t], d, md)
ArgumentsAreOf(arg, inputs, fields, h, md) ==
    \A n \in DOMAIN arg :
        /\ n \in DOMAIN fields /\ n # "$return"
        /\ fields[n].generic => Cardinality(InputsNamed(inputs, n)) = 1
        /\ \A k \in InputsNamed(inputs, n) :
              IsLastOf(k, InputsNamed(inputs, n)) =>
                  IsValueOf(arg[n], fields[n].generic, h.in[fields[n].position],
                            inputs[k].data, md)
LEMMA FromProtoFacts ==
    ASSUME NEW inputs, NEW fields, NEW h, NEW md, IsList(inputs),
           FromProto(inputs, fields, h, md).ok
    PROVE  ArgumentsAreOf(FromProto(inputs, fields, h, md).of, inputs, fields, h, md)
<1> DEFINE for(n) == {k \in DOMAIN inputs : inputs[k].name = n}
           bound == {n \in DOMAIN fields : n # "$return"}
           type(n) == h.in[fields[n].position]
           value(n, d) == IF fields[n].generic THEN
                              (IF d = NoData THEN Fails ELSE decodeGenericInput(type(n), d))
                          ELSE convertToTypeValue(Targets[type(n)], d, md)
           rejected(n) ==
               \/ fields[n].generic /\ Cardinality(for(n)) # 1
               \/ \E k \in for(n) : ~value(n, inputs[k].data).ok
           last(n) == CHOOSE k \in for(n) : \A j \in for(n) : j <= k
           all == [n \in bound |-> IF for(n) = {} THEN Zero ELSE value(n, inputs[last(n)].data)]
           arg == FromProto(inputs, fields, h, md).of
<1>1. (\A n \in bound : ~rejected(n)) /\ FromProto(inputs, fields, h, md) = Value("arguments", all)
    BY DEF FromProto, Fails
<1>2. arg = all
    BY <1>1 DEF Value
<1> HIDE DEF arg
<1>3. ASSUME NEW n \in DOMAIN arg
      PROVE  /\ n \in DOMAIN fields /\ n # "$return"
             /\ fields[n].generic => Cardinality(InputsNamed(inputs, n)) = 1
             /\ \A k \in InputsNamed(inputs, n) :
                   IsLastOf(k, InputsNamed(inputs, n)) =>
                       IsValueOf(arg[n], fields[n].generic, h.in[fields[n].position],
                                 inputs[k].data, md)
  <2>1. n \in bound /\ ~rejected(n)
        /\ arg[n] = IF for(n) = {} THEN Zero ELSE value(n, inputs[last(n)].data)
      BY <1>1, <1>2
  <2>2. for(n) = InputsNamed(inputs, n)
      BY DEF InputsNamed
  <2>3. ASSUME NEW k \in for(n), IsLastOf(k, for(n))
        PROVE  IsValueOf(arg[n], fields[n].generic, type(n), inputs[k].data, md)
    <3>1. \A j \in for(n) : j \in Nat
        BY DEF IsList
    <3> HIDE DEF for
    <3>2. last(n) \in for(n) /\ \A j \in for(n) : j <= last(n)
      <4>1. k \in for(n) /\ \A j \in for(n) : j <= k
          BY <2>3 DEF IsLastOf
      <4> QED
          BY <4>1
    <3>3. k \in Nat /\ last(n) \in Nat /\ k <= last(n) /\ last(n) <= k
        BY <2>3, <3>1, <3>2 DEF IsLastOf
    <3> HIDE DEF last
    <3>4. last(n) = k
        BY <3>3
    <3>5. value(n, inputs[k].data).ok /\ arg[n] = value(n, inputs[k].data)
        BY <2>1, <2>3, <3>4
    <3> QED
        BY <3>5 DEF IsValueOf, Fails
  <2> QED
      BY <2>1, <2>2, <2>3
<1> QED
    BY <1>3 DEF ArgumentsAreOf, arg

-----------------------------------------------------------------------------
(* What the handler gets: the invariant.                                    *)

\* The host loads functions as they were registered, with the fields of their
\* bindings.
LoadedInv ==
    \A f \in DOMAIN loaded :
        Sound(loaded[f].function) /\ loaded[f].fields = Fields(loaded[f].function)

\* User code runs on what FromProto made of the request; a client factory
\* replaces the trigger argument of its function.
Converted(r) ==
    LET l == loaded[r.function] IN FromProto(r.inputs, l.fields, l.function.handler, r.metadata)
Running == {"factory", "down", "up", "flush", "unwound"}
DeliveryInv ==
    phase \in Running =>
        /\ request.function \in DOMAIN loaded
        /\ IsList(request.inputs)
        /\ Converted(request).ok
        /\ \/ arguments = Converted(request).of
           \/ /\ phase # "factory" /\ Function.factory
              /\ arguments = Assigned(Converted(request).of, "blob", Value("client", ""))
        /\ phase = "factory" => Function.factory

\* Nothing is loaded and nothing runs when main starts.
LEMMA DeliveryInvInit == Init => LoadedInv /\ DeliveryInv
<1> SUFFICES ASSUME Init PROVE LoadedInv /\ DeliveryInv
    OBVIOUS
<1>1. loaded = <<>> /\ phase = "idle"
    BY DEF Init, RegistrationInit, PipelineInit
<1> QED
    BY <1>1 DEF LoadedInv, DeliveryInv, Running

\* Only a load request changes what is loaded, and only between invocations.
LEMMA LoadsBetweenInvocations ==
    ASSUME Next
    PROVE  \/ UNCHANGED loaded
           \/ /\ phase = "idle" /\ UNCHANGED invocationVars
              /\ \E f \in DOMAIN registered : HandleFunctionLoad(f)
<1>1. CASE Main
    BY <1>1 DEF Main, Call, CallerMutates, Start
<1>2. CASE Control
    BY <1>2 DEF Control, HandleWorkerInit, HandleFunctionsMetadata, HandleFunctionLoad
<1>3. CASE Site \/ Invocation \/ Answers \/ Host
    BY <1>3 DEF Site, Invocation, Answers, Host, registrationVars
<1> QED
    BY <1>1, <1>2, <1>3 DEF Next

\* handleFunctionLoadRequest loads a function that is registered, and sound.
LEMMA LoadedInvStep ==
    ASSUME FunctionsInv, LoadedInv, [Next]_applicationVars
    PROVE  LoadedInv'
<1>1. CASE UNCHANGED loaded
    BY <1>1 DEF LoadedInv
<1>2. CASE \E f \in DOMAIN registered : HandleFunctionLoad(f)
  <2>1. PICK f \in DOMAIN registered : HandleFunctionLoad(f)
      BY <1>2
  <2>2. PICK rf : rf = registered[f]
      OBVIOUS
  <2>3. loaded' = Assigned(loaded, f, [function |-> rf, fields |-> Fields(rf)])
      BY <2>1, <2>2 DEF HandleFunctionLoad
  <2>4. Sound(rf)
      BY <2>2 DEF FunctionsInv, RegisteredInv
  <2>5. /\ DOMAIN loaded' = DOMAIN loaded \cup {f}
        /\ \A g \in DOMAIN loaded' :
              loaded'[g] = IF g = f THEN [function |-> rf, fields |-> Fields(rf)] ELSE loaded[g]
      BY <2>3 DEF Assigned
  <2>6. \A g \in DOMAIN loaded' :
           Sound(loaded'[g].function) /\ loaded'[g].fields = Fields(loaded'[g].function)
      BY <2>4, <2>5 DEF LoadedInv
  <2> QED
      BY <2>6 DEF LoadedInv
<1>3. CASE UNCHANGED applicationVars
    BY <1>1, <1>3 DEF applicationVars, registrationVars
<1> QED
    BY <1>1, <1>2, <1>3, LoadsBetweenInvocations

\* handleInvocationRequest: the conversion before the chain.
LEMMA ArrivalDelivers ==
    ASSUME CapabilitiesInv, Arrives, UNCHANGED <<loaded, scenario>>
    PROVE  DeliveryInv'
<1>1. PICK r \in Scenarios[scenario].requests : InvocationArrives(r)
    BY DEF Arrives
<1>2. IsList(r.inputs)
    BY <1>1, ScenariosAssumption DEF CapabilitiesInv, ProgramTypeOK
<1>3. /\ r.function \in DOMAIN loaded /\ request' = r
      /\ \/ /\ Converted(r).ok /\ arguments' = Converted(r).of
            /\ phase' = IF loaded[r.function].function.factory THEN "factory" ELSE "down"
         \/ phase' \in {"answered", "silent"}
    BY <1>1 DEF InvocationArrives, Converted
<1>4. Converted(request)' = Converted(r) /\ Function' = loaded[r.function].function
    BY <1>3 DEF Converted, Function
<1> QED
    BY <1>2, <1>3, <1>4 DEF DeliveryInv, Running

\* The steps of the chain leave the arguments alone.
LEMMA ChainKeepsArguments ==
    ASSUME \/ EnterOtel \/ EnterDurable \/ EnterPlain \/ RunHandler \/ RunOrchestrator
           \/ ErrorTextPanics \/ OtelReturns \/ OtelFlushes \/ OthersReturn
    PROVE  /\ UNCHANGED <<request, arguments>> /\ phase \in Running /\ phase # "factory"
           /\ phase' # "factory"
<1>1. CASE EnterOtel \/ EnterDurable \/ EnterPlain
    BY <1>1 DEF EnterOtel, EnterDurable, EnterPlain, Enters, Running
<1>2. CASE RunHandler \/ RunOrchestrator
    BY <1>2 DEF RunHandler, RunOrchestrator, AtHandler, HandlerEnds, Running
<1>3. CASE ErrorTextPanics \/ OtelReturns \/ OtelFlushes \/ OthersReturn
    BY <1>3 DEF ErrorTextPanics, OtelReturns, OtelFlushes, OthersReturn, AfterNext, Running
<1> QED
    BY <1>1, <1>2, <1>3

\* From its conversion to its answer an invocation keeps its arguments.
LEMMA DeliveryInvStep ==
    ASSUME CapabilitiesInv, DeliveryInv, [Next]_applicationVars
    PROVE  DeliveryInv'
<1>1. CASE UNCHANGED <<loaded, request, phase, arguments>>
    BY <1>1 DEF DeliveryInv, Converted, Function
<1>2. CASE UNCHANGED applicationVars
    BY <1>1, <1>2 DEF applicationVars, registrationVars, invocationVars
<1>3. CASE UNCHANGED invocationVars /\ phase = "idle"
    BY <1>3 DEF DeliveryInv, Running, invocationVars
<1>4. CASE Main \/ Site \/ Host
    BY <1>1, <1>3, <1>4, LoadsBetweenInvocations DEF Main, Site, Host, Next, invocationVars
<1>5. CASE Control
    BY <1>3, <1>5 DEF Control
<1>6. CASE Answers
    BY <1>6 DEF Answers, AnswerInvocation, DeliveryInv, Running
<1>7. CASE Invocation
  <2>1. UNCHANGED <<loaded, scenario>>
      BY <1>7 DEF Invocation, registrationVars
  <2>2. CASE Arrives
      BY <2>1, <2>2, ArrivalDelivers
  <2>3. CASE ClientFactory
    <3>1. /\ phase = "factory" /\ UNCHANGED request
          /\ \/ phase' = "silent"
             \/ phase' = "down" /\ arguments' = Assigned(arguments, "blob", Value("client", ""))
        BY <2>3 DEF ClientFactory
    <3>2. Converted(request)' = Converted(request) /\ Function' = Function
        BY <2>1, <3>1 DEF Converted, Function
    <3> QED
        BY <2>1, <3>1, <3>2 DEF DeliveryInv, Running
  <2>4. CASE \/ EnterOtel \/ EnterDurable \/ EnterPlain \/ RunHandler \/ RunOrchestrator
             \/ ErrorTextPanics \/ OtelReturns \/ OtelFlushes \/ OthersReturn
    <3>1. /\ UNCHANGED <<request, arguments>> /\ phase \in Running /\ phase # "factory"
          /\ phase' # "factory"
        BY <2>4, ChainKeepsArguments
    <3>2. Converted(request)' = Converted(request) /\ Function' = Function
        BY <2>1, <3>1 DEF Converted, Function
    <3> QED
        BY <2>1, <3>1, <3>2 DEF DeliveryInv
  <2> QED
      BY <1>7, <2>2, <2>3, <2>4 DEF Invocation
<1> QED
    BY <1>2, <1>4, <1>5, <1>6, <1>7 DEF Next

\* buildParameterInfo: the name of a generic trigger is bound to it alone.
LEMMA GenericFieldIsTriggers ==
    ASSUME NEW rf, Sound(rf), IsGeneric(rf.bindings[1]), NEW n, n \in DOMAIN Fields(rf),
           n # "$return", n = TriggerName(rf)
    PROVE  Fields(rf)[n].generic
<1>1. /\ rf.bindings[1].direction = "in" /\ 1 \in DOMAIN rf.bindings
      /\ \A j, k \in DOMAIN rf.bindings : rf.bindings[j].name = rf.bindings[k].name => j = k
      /\ \A k \in DOMAIN rf.bindings : k \in Nat /\ 1 <= k
    BY DEF Sound
<1>2. n = rf.bindings[1].name
  <2> DEFINE in == InBindings(rf)
             least == CHOOSE k \in in : \A l \in in : k <= l
  <2>1. 1 \in in /\ \A k \in in : k \in Nat /\ 1 <= k
      BY <1>1 DEF InBindings
  <2>2. least \in in /\ least <= 1
    <3> HIDE DEF in
    <3> QED
        BY <2>1
  <2> HIDE DEF least, in
  <2>3. least = 1
      BY <2>1, <2>2
  <2> QED
      BY <2>1, <2>3 DEF TriggerName, least, in
<1> DEFINE in == InBindings(rf)
           args == DataArguments(rf.handler)
           bound == {k \in in : Rank(in, k) <= Cardinality(args)}
           last(m) == CHOOSE k \in bound : /\ rf.bindings[k].name = m
                                           /\ \A l \in bound : rf.bindings[l].name = m => l <= k
           field(k) == [position |-> CHOOSE i \in args : Rank(args, i) = Rank(in, k),
                        generic |-> IsGeneric(rf.bindings[k])]
           named == [m \in {rf.bindings[k].name : k \in bound} |-> field(last(m))]
<1>3. n \in DOMAIN named /\ Fields(rf)[n] = named[n]
  <2> HIDE DEF in, args, field, last, bound
  <2> QED
      BY DEF Fields, Merge, in, args, field, last, bound
<1>4. bound \subseteq DOMAIN rf.bindings
    BY DEF InBindings
<1> HIDE DEF in, args, bound
<1>5. PICK k \in bound : rf.bindings[k].name = n
    BY <1>3
<1>6. k = 1
    BY <1>1, <1>2, <1>4, <1>5
<1>7. \A l \in bound : rf.bindings[l].name = n => l <= k
    BY <1>1, <1>2, <1>4, <1>6
<1>8. last(n) \in bound /\ rf.bindings[last(n)].name = n
    BY <1>5, <1>7
<1>9. last(n) = 1
  <2> HIDE DEF last
  <2> QED
      BY <1>1, <1>2, <1>4, <1>8
<1>10. named[n].generic = IsGeneric(rf.bindings[1])
    BY <1>3, <1>9
<1> QED
    BY <1>3, <1>10

\* What holds of the arguments of a running invocation.
LEMMA ArgumentsAreDelivered ==
    ASSUME LoadedInv, DeliveryInv, phase \in Running \ {"factory"},
           NEW n, n \in DOMAIN arguments
    PROVE  LET rf == Function  generic == IsGeneric(rf.bindings[1]) /\ n = TriggerName(rf) IN
           /\ generic => /\ Cardinality(Inputs(n)) = 1
                         /\ \A i \in Inputs(n) :
                               IsGenericValue(arguments[n], request.inputs[i].data)
           /\ \A i \in Inputs(n) : (\A j \in Inputs(n) : j <= i) =>
                 IsDelivered(n, request.inputs[i].data, arguments[n])
<1>1. PICK rf, fs, ins, md :
         /\ rf = Function /\ fs = loaded[request.function].fields
         /\ ins = request.inputs /\ md = request.metadata
    OBVIOUS
<1>2. Sound(rf) /\ fs = Fields(rf) /\ rf = loaded[request.function].function
    BY <1>1 DEF LoadedInv, DeliveryInv, Function
<1>3. PICK arg : arg = FromProto(ins, fs, rf.handler, md).of
    OBVIOUS
<1>4. ArgumentsAreOf(arg, ins, fs, rf.handler, md)
    BY <1>1, <1>2, <1>3, FromProtoFacts DEF DeliveryInv, Converted
<1>5. \/ arguments = arg
      \/ rf.factory /\ arguments = Assigned(arg, "blob", Value("client", ""))
    BY <1>1, <1>2, <1>3 DEF DeliveryInv, Converted
<1>6. Inputs(n) = InputsNamed(ins, n)
    BY <1>1 DEF Inputs, InputsNamed
<1>7. \/ n \in DOMAIN arg /\ arguments[n] = arg[n]
      \/ rf.factory /\ arguments[n] = Value("client", "")
    BY <1>5 DEF Assigned
<1>8. Len(ins) \in Nat /\ DOMAIN ins = 1..Len(ins)
    BY <1>1 DEF DeliveryInv, IsList
<1>9. Value("client", "").as = "client"
    BY DEF Value
<1>10. CASE n \in DOMAIN arg /\ arguments[n] = arg[n]
  <2>1. /\ n \in DOMAIN fs /\ n # "$return"
        /\ fs[n].generic => Cardinality(InputsNamed(ins, n)) = 1
        /\ \A k \in InputsNamed(ins, n) :
              IsLastOf(k, InputsNamed(ins, n)) =>
                  IsValueOf(arg[n], fs[n].generic, rf.handler.in[fs[n].position],
                            ins[k].data, md)
      BY <1>4, <1>10 DEF ArgumentsAreOf
  <2>2. ASSUME IsGeneric(rf.bindings[1]), n = TriggerName(rf)
        PROVE  /\ Cardinality(Inputs(n)) = 1
               /\ \A i \in Inputs(n) : IsGenericValue(arguments[n], ins[i].data)
    <3>1. fs[n].generic
        BY <1>2, <2>1, <2>2, GenericFieldIsTriggers
    <3>2. Cardinality(Inputs(n)) = 1
        BY <1>6, <2>1, <3>1
    <3>3. ASSUME NEW i \in Inputs(n) PROVE IsGenericValue(arguments[n], ins[i].data)
      <4>1. IsLastOf(i, InputsNamed(ins, n))
        <5>1. Inputs(n) = {i}
          <6>1. IsFiniteSet(Inputs(n))
            <7>1. Inputs(n) \subseteq 1..Len(ins) /\ Len(ins) \in Nat
                BY <1>1, <1>8 DEF Inputs
            <7>2. 1 \in Int /\ Len(ins) \in Int
                BY <7>1
            <7>3. IsFiniteSet(1..Len(ins))
                BY <7>2, FS_Interval
            <7> QED
                BY <7>1, <7>3, FS_Subset
          <6>2. \E x : Inputs(n) = {x}
              BY <3>2, <6>1, FS_Singleton
          <6> QED
              BY <6>2
        <5>2. i \in Nat
            BY <1>1, <1>8 DEF Inputs
        <5> QED
            BY <1>6, <5>1, <5>2 DEF IsLastOf
      <4>2. PICK t, d : t = rf.handler.in[fs[n].position] /\ d = ins[i].data
          OBVIOUS
      <4>3. IsValueOf(arg[n], fs[n].generic, t, d, md)
          BY <1>6, <2>1, <4>1, <4>2
      <4>4. decodeGenericInput(t, d).ok /\ arg[n] = decodeGenericInput(t, d)
          BY <3>1, <4>3 DEF IsValueOf
      <4> QED
          BY <1>10, <4>2, <4>4, GenericIsSent
    <3> QED
        BY <3>2, <3>3
  <2>3. ASSUME NEW i \in Inputs(n), \A j \in Inputs(n) : j <= i
        PROVE  IsDelivered(n, ins[i].data, arguments[n])
    <3>1. IsLastOf(i, InputsNamed(ins, n))
        BY <1>6, <2>3 DEF IsLastOf
    <3>2. PICK t, d, v : t = rf.handler.in[fs[n].position] /\ d = ins[i].data /\ v = arguments[n]
        OBVIOUS
    <3>3. IsValueOf(v, fs[n].generic, t, d, md)
        BY <1>6, <1>10, <2>1, <2>3, <3>1, <3>2
    <3>4. CASE fs[n].generic
      <4>1. IsGenericValue(v, d)
          BY <3>3, <3>4, GenericIsSent DEF IsValueOf
      <4> QED
          BY <1>1, <3>2, <3>4, <4>1 DEF IsDelivered, IsGenericValue
    <3>5. CASE ~fs[n].generic
      <4>1. PICK m : m = Targets[t]
          OBVIOUS
      <4>2. convertToTypeValue(m, d, md).ok /\ v = convertToTypeValue(m, d, md)
          BY <3>3, <3>5, <4>1 DEF IsValueOf
      <4>3. ASSUME m.kind = "struct" PROVE IsDecodedMessage(v, m, d, md)
        <5>1. convertToTypeValue(m, d, md) = convertMessage(m, d, md)
            BY <4>3 DEF convertToTypeValue
        <5>2. convertMessage(m, d, md).ok /\ v = convertMessage(m, d, md)
            BY <4>2, <5>1
        <5>3. IsDecodedMessage(convertMessage(m, d, md), m, d, md)
            BY <5>2, MessageIsSent
        <5> QED
            BY <5>2, <5>3
      <4>4. ASSUME m.kind = "slice of struct", d.variant \in Collections
            PROVE  /\ v.as = "batch" /\ DOMAIN v.of = DOMAIN d.items
                   /\ \A k \in DOMAIN v.of :
                         IsDecodedMessage(v.of[k], m, Elements(d)[k], ItemsAt(k))
          BY <1>1, <4>2, <4>4, BatchIsSent
      <4>5. ASSUME m.kind = "request", Is(d, "http")
            PROVE  v.of.body = d.content /\ (d.items # <<>> => v.of.method = d.items[1])
          BY <4>2, <4>5, RequestIsSent
      <4>6. Targets[loaded[request.function].function.handler.in[
                        loaded[request.function].fields[n].position]] = m
          BY <1>1, <1>2, <3>2, <4>1
      <4> QED
          BY <1>1, <3>2, <3>5, <4>3, <4>4, <4>5, <4>6 DEF IsDelivered
    <3> QED
        BY <3>4, <3>5
  <2> QED
      BY <1>1, <2>2, <2>3
<1>11. CASE rf.factory /\ arguments[n] = Value("client", "")
  <2>1. arguments[n].as = "client"
      BY <1>11, <1>9
  <2>2. ~IsGeneric(rf.bindings[1])
      BY <1>2, <1>11 DEF Sound
  <2> QED
      BY <1>1, <2>1, <2>2 DEF IsDelivered
<1> QED
    BY <1>7, <1>10, <1>11

\* FromProto: user code runs only on a payload that is there and is whole; the
\* argument of a generic trigger is its one input, decoded, and a message, alone
\* or in a batch, is what was sent, with the metadata that is its own.
THEOREM PayloadIsDelivered == Spec => []PayloadDelivered
<1> DEFINE Inv == CapabilitiesInv /\ FunctionsInv /\ ToldInv /\ LoadedInv /\ DeliveryInv
<1>1. Init => Inv
    BY CapabilitiesInvInit, FunctionsInvInit, DeliveryInvInit
<1>2. Inv /\ [Next]_applicationVars => Inv'
    BY CapabilitiesInvStep, FunctionsInvStep, LoadedInvStep, DeliveryInvStep
<1>3. Inv => PayloadDelivered
  <2> SUFFICES ASSUME Inv, phase \in {"down", "up", "flush", "unwound"},
                      NEW n \in DOMAIN arguments
               PROVE  /\ IsGeneric(Function.bindings[1]) /\ n = TriggerName(Function) =>
                            /\ Cardinality(Inputs(n)) = 1
                            /\ arguments[n].as \notin {"zero", "error"}
                               \/ \A i \in Inputs(n) : IsNull(request.inputs[i].data)
                      /\ \A i \in Inputs(n) : (\A j \in Inputs(n) : j <= i) =>
                            IsDelivered(n, request.inputs[i].data, arguments[n])
      BY DEF PayloadDelivered
  <2>1. phase \in Running \ {"factory"}
      BY DEF Running
  <2> QED
      BY <2>1, ArgumentsAreDelivered DEF IsGenericValue
<1> QED
    BY <1>1, <1>2, <1>3, PTL DEF Spec
=============================================================================
