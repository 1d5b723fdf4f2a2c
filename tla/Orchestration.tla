--------------------------- MODULE Orchestration ---------------------------
(***************************************************************************)
(* middleware/durabletask/runner.go: one replay of an orchestrator by a     *)
(* worker that keeps nothing between turns, and the host's side of it: the  *)
(* history it stores, the turns it dispatches (again, when an answer was    *)
(* lost) and the messages it sends for the actions of an answer before it   *)
(* has stored them.                                                         *)
(*                                                                         *)
(* The orchestrator schedules its Tasks stage by stage, those of a stage    *)
(* together, waits for them, and ends in ContinueAsNew or by completing.    *)
(***************************************************************************)
EXTENDS Naturals, FiniteSets, SequencesExt

CONSTANTS
    Tasks,           \* sequence of [kind, id, stage]; id "" is not named
    Generations,     \* bound: executions until it completes instead of continuing
    MaxRedeliveries  \* bound: turns delivered again

\* The names the user gives to children are different.  None looks like one
\* the runner generates: a name is <<id, 0>>, a generated one a ChildId.
ASSUME TasksAssumption ==
    /\ Tasks \in Seq([kind : {"activity", "child"}, id : STRING, stage : Nat])
    /\ \A a, b \in DOMAIN Tasks :
          /\ Tasks[a].kind = "child" /\ Tasks[b].kind = "child"
          /\ Tasks[a].id = Tasks[b].id /\ Tasks[a].id # ""
          => a = b
    /\ Generations \in Nat /\ MaxRedeliveries \in Nat

VARIABLES
    history,       \* pastEvents of the current execution
    inbox,         \* newEvents not yet delivered
    turn,          \* the request the worker has, or NoTurn
    reply,         \* the host's view of the answer, "none", "failed" or the actions
    started,       \* child instances and activities the host has sent messages for
    generation, outcome, redeliveries

orchestrationVars == <<history, inbox, turn, reply, started, generation, outcome, redeliveries>>

Event(kind, action) == [kind |-> kind, action |-> action]
ExecutionStarted == Event("ExecutionStarted", 0)
NoTurn == [past |-> <<>>, new |-> <<>>, form |-> "none"]
NoReply == [kind |-> "none", actions |-> {}]
Failed == [kind |-> "failed", actions |-> {}]

OrchestrationInit ==
    /\ history = <<>> /\ inbox = <<ExecutionStarted>>
    /\ turn = NoTurn /\ reply = NoReply
    /\ started = {}
    /\ generation = 1 /\ outcome = "running" /\ redeliveries = 0

-----------------------------------------------------------------------------
(* The worker.                                                              *)

HasHistory(past, new) == TRUE   \* Mutant: an empty history is replayed

checkHistoryPresent(past, new) ==
    past # <<>> \/ \E i \in DOMAIN new : new[i].kind = "ExecutionStarted"

\* The task executor of durabletask-go: the actions the orchestrator takes on
\* these events beyond those its history has, by number.
Replay(events) ==
    LET has(kind, a) == Event(kind, a) \in ToSet(events)
        due(a) == \A b \in DOMAIN Tasks :
                     Tasks[b].stage < Tasks[a].stage => has("TaskCompleted", b)
        scheduled == {a \in DOMAIN Tasks : due(a) /\ ~has("TaskScheduled", a)}
    IN IF \A a \in DOMAIN Tasks : has("TaskCompleted", a)
       THEN {[action |-> Len(Tasks) + 1, kind |-> "end", id |-> ""]}
       ELSE {[action |-> a, kind |-> Tasks[a].kind, id |-> Tasks[a].id] : a \in scheduled}

\* "<parent>:<action id>".
ChildId(action) == <<"root", action>>

assignSubOrchestrationIDs(actions) ==
    {[a EXCEPT !.id = IF a.kind = "child" /\ a.id = "" THEN ChildId(a.action) ELSE <<@, 0>>] :
        a \in actions}

\* loadAndRun: "" decodes to a request without instance and events.
loadAndRun(t) ==
    IF t.form \in {"not base64", "not a request", "not an event"}
       \/ ~checkHistoryPresent(t.past, t.new)
    THEN Failed
    ELSE [kind |-> "actions", actions |-> assignSubOrchestrationIDs(Replay(t.past \o t.new))]

-----------------------------------------------------------------------------
(* The host.                                                                *)

\* A turn that was answered but not stored is delivered again with what has
\* arrived since; a withheld history has extended sessions turned on.
HostDispatches(withheld) ==
    /\ outcome = "running" /\ turn = NoTurn /\ reply = NoReply /\ inbox # <<>>
    /\ withheld => history # <<>>
    /\ turn' = [past |-> IF withheld THEN <<>> ELSE history, new |-> inbox, form |-> "request"]
    /\ UNCHANGED <<history, inbox, reply, started, generation, outcome, redeliveries>>

HostTakesAnswer(answer) ==
    /\ turn # NoTurn /\ reply = NoReply
    /\ reply' = answer
    /\ UNCHANGED <<history, inbox, turn, started, generation, outcome, redeliveries>>

\* The messages of an answer go out before the answer is stored.
TaskMessage(a) == [generation |-> generation, action |-> a.action, kind |-> a.kind, id |-> a.id]
Messages == {TaskMessage(a) : a \in {b \in reply.actions : b.kind # "end"}}

HostSendsMessages ==
    /\ reply.kind = "actions"
    /\ started' = started \cup Messages
    /\ started' # started
    /\ UNCHANGED <<history, inbox, turn, reply, generation, outcome, redeliveries>>

\* The host stops between sending and storing.
HostLosesAnswer ==
    /\ reply # NoReply /\ redeliveries < MaxRedeliveries
    /\ redeliveries' = redeliveries + 1
    /\ turn' = NoTurn /\ reply' = NoReply
    /\ UNCHANGED <<history, inbox, started, generation, outcome>>

Ends == \E a \in reply.actions : a.kind = "end"
Sent == Messages \subseteq started

\* What the orchestrator has seen leaves the inbox; what came later stays.
HostStores ==
    /\ reply.kind = "actions" /\ Sent
    /\ IF ~Ends
       THEN /\ history' = history \o turn.new \o
                  SetToSeq({Event("TaskScheduled", a.action) : a \in reply.actions})
            /\ inbox' = SubSeq(inbox, Len(turn.new) + 1, Len(inbox))
            /\ UNCHANGED <<generation, outcome>>
       ELSE IF generation < Generations
       THEN /\ generation' = generation + 1
            /\ history' = <<>> /\ inbox' = <<ExecutionStarted>>
            /\ UNCHANGED outcome
       ELSE /\ outcome' = "completed"
            /\ history' = <<>> /\ inbox' = <<>>
            /\ UNCHANGED generation
    /\ turn' = NoTurn /\ reply' = NoReply
    /\ UNCHANGED <<started, redeliveries>>

HostFails ==
    /\ reply = Failed
    /\ outcome' = "failed"
    /\ turn' = NoTurn /\ reply' = NoReply
    /\ UNCHANGED <<history, inbox, started, generation, redeliveries>>

\* A task completes, once, whenever it likes; the host holds the event back
\* until the history knows the task.
TaskCompletes(a) ==
    /\ outcome = "running"
    /\ Event("TaskScheduled", a) \in ToSet(history)
    /\ Event("TaskCompleted", a) \notin ToSet(history \o inbox)
    /\ inbox' = Append(inbox, Event("TaskCompleted", a))
    /\ UNCHANGED <<history, turn, reply, started, generation, outcome, redeliveries>>
=============================================================================
