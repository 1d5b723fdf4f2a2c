----------------------------- MODULE Invocation -----------------------------
(***************************************************************************)
(* What the dispatcher is promised by an HTTP-triggered invocation, without *)
(* slots, channels and timers: a trigger that was handed over gets one      *)
(* answer, which is the verdict of the user's handler or an excuse why      *)
(* there is none; the handler ends at most once, and only for a trigger.    *)
(* HttpProxy implements it, Dispatcher builds on it.                        *)
(***************************************************************************)
CONSTANTS
    Invocations,
    Verdicts,   \* what the user's handler can come to
    Excuses     \* why the proxy answers without a verdict

VARIABLES phase, verdict, answer

invocationVars == <<phase, verdict, answer>>

InvocationInit ==
    /\ phase = [i \in Invocations |-> "new"]
    /\ verdict = [i \in Invocations |-> "none"]
    /\ answer = [i \in Invocations |-> "none"]

\* The InvocationRequest is handed over.
Trigger(i) ==
    /\ phase[i] = "new"
    /\ phase' = [phase EXCEPT ![i] = "triggered"]
    /\ UNCHANGED <<verdict, answer>>

\* The handler ends; this may be after the trigger was given up.
Conclude(i, v) ==
    /\ phase[i] # "new"
    /\ verdict[i] = "none"
    /\ verdict' = [verdict EXCEPT ![i] = v]
    /\ UNCHANGED <<phase, answer>>

\* The dispatcher gets its answer.
Answer(i) ==
    /\ phase[i] = "triggered"
    /\ phase' = [phase EXCEPT ![i] = "answered"]
    /\ \E a \in Excuses \cup ({verdict[i]} \ {"none"}) :
          answer' = [answer EXCEPT ![i] = a]
    /\ UNCHANGED verdict

InvocationNext ==
    \E i \in Invocations :
        \/ Trigger(i)
        \/ \E v \in Verdicts : Conclude(i, v)
        \/ Answer(i)

InvocationSafety == InvocationInit /\ [][InvocationNext]_invocationVars

\* Neither the trigger nor the end of the handler is promised; the answer is.
InvocationSpec ==
    /\ InvocationSafety
    /\ \A i \in Invocations : WF_invocationVars(Answer(i))
=============================================================================
