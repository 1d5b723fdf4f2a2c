------------------------------- MODULE Sender -------------------------------
(***************************************************************************)
(* The outbound path of the worker: worker/grpc.go startSender (the queue, *)
(* the sender goroutine, send and stop), worker/log Writer.Write (a send   *)
(* with a stderr fallback) and the end of worker.Start that stops it.      *)
(*                                                                         *)
(* Each caller is a dispatch goroutine that pushes MessagesPerCaller       *)
(* messages one after the other: log records through Writer.Write, then,   *)
(* as its last message, its response through send.  Message <<c, k>> is    *)
(* the k-th message of caller c.  Nil messages are left out: no caller     *)
(* passes one.  The category filter of Writer is not part of this module.  *)
(***************************************************************************)
EXTENDS Naturals, Sequences, SequencesExt

CONSTANTS
    Callers,            \* goroutines that send
    MessagesPerCaller,  \* bound: how many messages each of them sends
    outboundQueueSize,  \* capacity of the queue (256 in the code)
    NoMessage

ASSUME SenderAssumption ==
    /\ MessagesPerCaller \in Nat \ {0}
    /\ outboundQueueSize \in Nat \ {0}
    /\ NoMessage \notin Callers \X (1..MessagesPerCaller)

Messages == Callers \X (1..MessagesPerCaller)
IsLog(m) == m[2] < MessagesPerCaller

VARIABLES
    queue,      \* the buffered channel
    current,    \* the message inside client.Send, or NoMessage
    senderPc,   \* the sender goroutine
    closed,     \* the atomic fast-path flag
    stopped,    \* stopChan is closed
    finished,   \* finished is closed: the sender goroutine has exited
    callerPc,   \* where each caller is inside sendFn
    index,      \* the number of the message each caller is on
    enqueued,   \* every message for which send returned nil, in that order
    refused,    \* messages for which send returned io.ErrClosedPipe
    stderr,     \* log records the Writer put on the fallback handler
    wire,       \* messages for which client.Send returned nil, in order
    streamUp,   \* the gRPC stream to the host works
    halfClosed, \* client.CloseSend was called (SIGTERM or SIGINT)
    mainPc      \* the main goroutine in worker.Start

senderVars == <<queue, current, senderPc, wire>>
flagVars == <<closed, stopped, finished>>
callerVars == <<callerPc, index, enqueued, refused, stderr>>
hostVars == <<streamUp, halfClosed>>
vars == <<senderVars, flagVars, callerVars, hostVars, mainPc>>

TypeOK ==
    /\ queue \in Seq(Messages)
    /\ Len(queue) <= outboundQueueSize
    /\ current \in Messages \cup {NoMessage}
    /\ senderPc \in {"select", "send", "exiting", "exited"}
    /\ closed \in BOOLEAN /\ stopped \in BOOLEAN /\ finished \in BOOLEAN
    /\ callerPc \in [Callers -> {"idle", "probe", "select"}]
    /\ index \in [Callers -> 1..(MessagesPerCaller + 1)]
    /\ enqueued \in Seq(Messages)
    /\ refused \in SUBSET Messages
    /\ stderr \in SUBSET Messages
    /\ wire \in Seq(Messages)
    /\ streamUp \in BOOLEAN /\ halfClosed \in BOOLEAN
    /\ mainPc \in {"serving", "stop", "close", "await", "returned"}

Init ==
    /\ queue = <<>> /\ current = NoMessage /\ senderPc = "select"
    /\ closed = FALSE /\ stopped = FALSE /\ finished = FALSE
    /\ callerPc = [c \in Callers |-> "idle"]
    /\ index = [c \in Callers |-> 1]
    /\ enqueued = <<>> /\ refused = {} /\ stderr = {} /\ wire = <<>>
    /\ streamUp = TRUE /\ halfClosed = FALSE
    /\ mainPc = "serving"

-----------------------------------------------------------------------------
(* sendFn, called by c with its current message.                           *)

Message(c) == <<c, index[c]>>

\* Mutant: Writer.Write without its stderr fallback.
Refuse_NoFallback(c) ==
    /\ refused' = refused \cup {Message(c)}
    /\ callerPc' = [callerPc EXCEPT ![c] = "idle"]
    /\ index' = [index EXCEPT ![c] = @ + 1]
    /\ UNCHANGED <<senderVars, flagVars, hostVars, mainPc, enqueued, stderr>>

\* send returns io.ErrClosedPipe; Writer.Write then falls back to stderr.
Refuse(c) ==
    /\ refused' = refused \cup {Message(c)}
    /\ stderr' = IF IsLog(Message(c)) THEN stderr \cup {Message(c)} ELSE stderr
    /\ callerPc' = [callerPc EXCEPT ![c] = "idle"]
    /\ index' = [index EXCEPT ![c] = @ + 1]
    /\ UNCHANGED <<senderVars, flagVars, hostVars, mainPc, enqueued>>

\* if closed.Load() { return io.ErrClosedPipe }
SendBegins(c) ==
    /\ callerPc[c] = "idle"
    /\ index[c] <= MessagesPerCaller
    /\ \/ closed /\ Refuse(c)
       \/ /\ ~closed
          /\ callerPc' = [callerPc EXCEPT ![c] = "probe"]
          /\ UNCHANGED <<senderVars, flagVars, hostVars, mainPc,
                         index, enqueued, refused, stderr>>

\* The non-blocking look at stopChan.
SendProbes(c) ==
    /\ callerPc[c] = "probe"
    /\ \/ stopped /\ Refuse(c)
       \/ /\ ~stopped
          /\ callerPc' = [callerPc EXCEPT ![c] = "select"]
          /\ UNCHANGED <<senderVars, flagVars, hostVars, mainPc,
                         index, enqueued, refused, stderr>>

\* Mutant: a queue without a capacity.
SendEnqueues_Unbounded(c) ==
    /\ callerPc[c] = "select"
    /\ queue' = Append(queue, Message(c))
    /\ enqueued' = Append(enqueued, Message(c))
    /\ callerPc' = [callerPc EXCEPT ![c] = "idle"]
    /\ index' = [index EXCEPT ![c] = @ + 1]
    /\ UNCHANGED <<flagVars, hostVars, mainPc, current, senderPc, wire,
                   refused, stderr>>

\* Mutant: responses overtake the log records in the queue.
SendEnqueues_ResponsesFirst(c) ==
    /\ callerPc[c] = "select"
    /\ Len(queue) < outboundQueueSize
    /\ queue' = IF IsLog(Message(c)) THEN Append(queue, Message(c))
                ELSE <<Message(c)>> \o queue
    /\ enqueued' = Append(enqueued, Message(c))
    /\ callerPc' = [callerPc EXCEPT ![c] = "idle"]
    /\ index' = [index EXCEPT ![c] = @ + 1]
    /\ UNCHANGED <<flagVars, hostVars, mainPc, current, senderPc, wire,
                   refused, stderr>>

\* The blocking select: Go takes any ready case.
SendEnqueues(c) ==
    /\ callerPc[c] = "select"
    /\ Len(queue) < outboundQueueSize
    /\ queue' = Append(queue, Message(c))
    /\ enqueued' = Append(enqueued, Message(c))
    /\ callerPc' = [callerPc EXCEPT ![c] = "idle"]
    /\ index' = [index EXCEPT ![c] = @ + 1]
    /\ UNCHANGED <<flagVars, hostVars, mainPc, current, senderPc, wire,
                   refused, stderr>>

\* Mutant: the select has no case for an exited sender.
SendReleased_OnStopOnly(c) ==
    /\ callerPc[c] = "select"
    /\ stopped
    /\ Refuse(c)

SendReleased(c) ==
    /\ callerPc[c] = "select"
    /\ stopped \/ finished
    /\ Refuse(c)

-----------------------------------------------------------------------------
(* The sender goroutine.                                                   *)

\* case <-stopChan
SenderStops ==
    /\ senderPc = "select"
    /\ stopped
    /\ closed' = TRUE
    /\ senderPc' = "exiting"
    /\ UNCHANGED <<queue, current, wire, stopped, finished,
                   callerVars, hostVars, mainPc>>

\* case msg := <-queue
SenderTakes ==
    /\ senderPc = "select"
    /\ queue # <<>>
    /\ current' = Head(queue)
    /\ queue' = Tail(queue)
    /\ senderPc' = "send"
    /\ UNCHANGED <<wire, flagVars, callerVars, hostVars, mainPc>>

\* client.Send returns nil.
SendSucceeds ==
    /\ senderPc = "send"
    /\ streamUp /\ ~halfClosed
    /\ wire' = Append(wire, current)
    /\ current' = NoMessage
    /\ senderPc' = "select"
    /\ UNCHANGED <<queue, flagVars, callerVars, hostVars, mainPc>>

\* Mutant: the loop goes on after a failed Send.
SendFails_Continues ==
    /\ senderPc = "send"
    /\ ~streamUp \/ halfClosed
    /\ current' = NoMessage
    /\ senderPc' = "select"
    /\ UNCHANGED <<queue, wire, flagVars, callerVars, hostVars, mainPc>>

\* Mutant: closed.Store(true) is missing on the error path.
SendFails_NotMarked ==
    /\ senderPc = "send"
    /\ ~streamUp \/ halfClosed
    /\ current' = NoMessage
    /\ senderPc' = "exiting"
    /\ UNCHANGED <<queue, wire, flagVars, callerVars, hostVars, mainPc>>

\* client.Send returns an error: logged, and the sender exits.
SendFails ==
    /\ senderPc = "send"
    /\ ~streamUp \/ halfClosed
    /\ closed' = TRUE
    /\ current' = NoMessage
    /\ senderPc' = "exiting"
    /\ UNCHANGED <<queue, wire, stopped, finished, callerVars, hostVars, mainPc>>

\* defer close(finished)
SenderExits ==
    /\ senderPc = "exiting"
    /\ finished' = TRUE
    /\ senderPc' = "exited"
    /\ UNCHANGED <<queue, current, wire, closed, stopped,
                   callerVars, hostVars, mainPc>>

-----------------------------------------------------------------------------
(* worker.Start: the receive loop ends, the sender is stopped, awaited.    *)

\* handleBidiStream returns: the host closed the stream or Recv failed.
ReceiveLoopEnds ==
    /\ mainPc = "serving"
    /\ mainPc' = "stop"
    /\ UNCHANGED <<senderVars, flagVars, callerVars, hostVars>>

\* stopFn: closed.Store(true) ...
StopMarksClosed ==
    /\ mainPc = "stop"
    /\ closed' = TRUE
    /\ mainPc' = "close"
    /\ UNCHANGED <<senderVars, stopped, finished, callerVars, hostVars>>

\* Mutant: stop only sets the flag.
StopClosesChannel_Not ==
    /\ mainPc = "close"
    /\ mainPc' = "await"
    /\ UNCHANGED <<senderVars, flagVars, callerVars, hostVars>>

\* ... then close(stopChan).
StopClosesChannel ==
    /\ mainPc = "close"
    /\ stopped' = TRUE
    /\ mainPc' = "await"
    /\ UNCHANGED <<senderVars, closed, finished, callerVars, hostVars>>

\* <-senderDone
StartContinues ==
    /\ mainPc = "await"
    /\ finished
    /\ mainPc' = "returned"
    /\ UNCHANGED <<senderVars, flagVars, callerVars, hostVars>>

\* The connection breaks.
StreamBreaks ==
    /\ streamUp
    /\ streamUp' = FALSE
    /\ UNCHANGED <<senderVars, flagVars, callerVars, halfClosed, mainPc>>

\* A termination signal: client.CloseSend(); every later Send fails.
SignalCloseSend ==
    /\ ~halfClosed
    /\ mainPc # "returned"
    /\ halfClosed' = TRUE
    /\ UNCHANGED <<senderVars, flagVars, callerVars, streamUp, mainPc>>

-----------------------------------------------------------------------------
SendSteps(c) ==
    SendProbes(c) \/ SendEnqueues(c) \/ SendReleased(c)

SenderSteps ==
    SenderStops \/ SenderTakes \/ SendSucceeds \/ SendFails \/ SenderExits

MainSteps == StopMarksClosed \/ StopClosesChannel \/ StartContinues

Next ==
    \/ \E c \in Callers : SendBegins(c) \/ SendSteps(c)
    \/ SenderSteps
    \/ MainSteps
    \/ ReceiveLoopEnds
    \/ StreamBreaks
    \/ SignalCloseSend

\* Goroutines run; client.Send returns, with an error once the stream is
\* gone; a caller blocked on a full queue gets its turn (Go's channels queue
\* their waiters).  Sending, stopping, signals and failures are not assumed.
Fairness ==
    /\ \A c \in Callers : SF_vars(SendSteps(c))
    /\ WF_vars(SenderSteps)
    /\ WF_vars(MainSteps)

Spec == Init /\ [][Next]_vars /\ Fairness

-----------------------------------------------------------------------------
(* Safety.                                                                 *)

\* What the host gets is a prefix of what was accepted: nothing reordered,
\* duplicated or skipped, whatever stop, errors and signals do.  In
\* particular a response on the wire is preceded by every accepted log
\* record of its invocation.
WireIsPrefix == IsPrefix(wire, enqueued)

\* grpc.go:71-73: once the sender has exited, "Later enqueues return
\* io.ErrClosedPipe": a send that begins then is refused at once.
LateSendsRefused ==
    [][\A c \in Callers :
          finished /\ callerPc[c] = "idle" => callerPc'[c] = "idle"]_vars

\* Every message is accounted for to its caller exactly once: accepted or
\* refused, not both, and a refused log record is on stderr.
ResultsAreExclusive ==
    /\ \A m \in refused : m \notin ToSet(enqueued) /\ (IsLog(m) => m \in stderr)
    /\ stderr \cap ToSet(wire) = {}

(* Liveness.                                                               *)

\* No caller stays blocked in send: a full queue drains, and a dead sender
\* or a stop releases those that wait.
CallersReturn ==
    \A c \in Callers : callerPc[c] = "select" ~> callerPc[c] = "idle"

\* Stopping the sender terminates: Start gets past <-senderDone.
StopCompletes == mainPc = "stop" ~> mainPc = "returned"

-----------------------------------------------------------------------------
(* What the callers of send may count on.                                  *)

Path == INSTANCE Outbound WITH
    accepted <- enqueued,
    delivered <- wire,
    link <- IF senderPc \in {"exiting", "exited"} THEN "closed"
            ELSE IF closed THEN "closing" ELSE "open"

\* Queue, flags and sender goroutine implement the abstract path: order is
\* kept, nothing is refused before the path goes down, an accepted message
\* is sent unless it does, and a stopped path gets down.
ImplementsOutbound == Path!OutboundSpec

-----------------------------------------------------------------------------
(* A statement of the source's comments that the code does not live up to. *)

\* worker.go:183-184: "shut the sender down so any final logs drain before we
\* return".  When Start gets past <-senderDone on a healthy stream, the queue
\* has been drained.
FinalLogsDrain ==
    mainPc = "returned" /\ streamUp /\ ~halfClosed => queue = <<>>
=============================================================================
