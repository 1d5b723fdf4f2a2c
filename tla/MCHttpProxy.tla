----------------------------- MODULE MCHttpProxy -----------------------------
(* Instances of HttpProxy for TLC.                                         *)
EXTENDS HttpProxy

CONSTANTS i1, i2, r1, r2, r3

\* The host's contract: two invocations, each forwarded once, and a request
\* without the correlation header.
ContractInvocations == {i1, i2}
ContractRequests == {r1, r2, r3}
ContractIdOf ==
    [r \in ContractRequests |->
        CASE r = r1 -> i1 [] r = r2 -> i2 [] r = r3 -> NoHeader]

\* One invocation forwarded three times.
RepeatedInvocations == {i1}
RepeatedRequests == {r1, r2, r3}
RepeatedIdOf == [r \in RepeatedRequests |-> i1]

\* One invocation, forwarded once: the instance of the violation runs.
OneInvocation == {i1}
OneRequest == {r1}
OneIdOf == [r \in OneRequest |-> i1]
=============================================================================
