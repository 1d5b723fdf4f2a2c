----------------------------- MODULE HostClient -----------------------------
(***************************************************************************)
(* Connecting to the host (src/internal/hostclient): the lazy connection is *)
(* started once, its state is looked at and waited on until it is ready or  *)
(* the deadline passes, and only then is the event stream opened.  The      *)
(* connection itself belongs to grpc-go and moves when it likes.            *)
(***************************************************************************)
EXTENDS Naturals

VARIABLES
    conn,       \* connectivity state of the grpc connection
    dial,       \* where the dialling thread is
    seen,       \* the state its last look returned
    wasReady    \* history: the last look returned ready

hostClientVars == <<conn, dial, seen, wasReady>>

ConnStates == {"idle", "connecting", "ready", "failing", "shutdown"}

HostClientInit ==
    /\ conn = "idle"
    /\ dial = "none"
    /\ seen = "idle"
    /\ wasReady = FALSE

DialBegin ==
    /\ dial = "none"
    /\ conn' = "connecting"
    /\ dial' = "look"
    /\ UNCHANGED <<seen, wasReady>>

\* Mutant: an error return that forgets to close the connection.
DialFailsOpen ==
    /\ dial' = "failed"
    /\ conn' = conn

\* Every error return of openEventStream closes the connection.
DialFails ==
    /\ dial' = "failed"
    /\ conn' = "shutdown"

DialLook ==
    /\ dial = "look"
    /\ seen' = conn
    /\ wasReady' = (conn = "ready")
    /\ \/ conn = "ready" /\ dial' = "open" /\ UNCHANGED conn
       \/ conn = "shutdown" /\ DialFails
       \/ conn \notin {"ready", "shutdown"} /\ dial' = "wait" /\ UNCHANGED conn

\* WaitForStateChange returns because the state differs from the one seen.
DialWakes ==
    /\ dial = "wait"
    /\ conn # seen
    /\ dial' = "look"
    /\ UNCHANGED <<conn, seen, wasReady>>

\* The deadline may pass at any moment, also when the connection has just
\* become ready and nobody has looked yet.
DialTimesOut ==
    /\ dial = "wait"
    /\ DialFails
    /\ UNCHANGED <<seen, wasReady>>

\* EventStream does not wait for the connection: it may have been lost since.
OpenStream ==
    /\ dial = "open"
    /\ \/ conn = "ready" /\ dial' = "opened" /\ UNCHANGED conn
       \/ DialFails
    /\ UNCHANGED <<seen, wasReady>>

ConnMoves ==
    /\ dial \in {"look", "wait", "open"}
    /\ \/ conn = "connecting" /\ conn' \in {"ready", "failing"}
       \/ conn = "failing" /\ conn' = "connecting"
       \/ conn = "ready" /\ conn' = "idle"
    /\ UNCHANGED <<dial, seen, wasReady>>

DialStep ==
    \/ DialBegin
    \/ DialLook
    \/ DialWakes
    \/ DialTimesOut
    \/ OpenStream
=============================================================================
