------------------------------ MODULE Outbound ------------------------------
(***************************************************************************)
(* What the senders of messages are promised by the outbound path, without *)
(* queue, flags and goroutines: messages are accepted or refused, refused   *)
(* only once the path is going down, and the accepted ones are delivered in *)
(* order until it is down.  Sender implements it, Dispatcher builds on it.  *)
(***************************************************************************)
EXTENDS Naturals, Sequences

CONSTANT Messages

VARIABLES accepted, refused, delivered, link

outboundVars == <<accepted, refused, delivered, link>>

OutboundInit ==
    /\ accepted = <<>>
    /\ refused = {}
    /\ delivered = <<>>
    /\ link = "open"

New(m) == m \notin refused /\ \A k \in DOMAIN accepted : accepted[k] # m

Accept(m) ==
    /\ New(m)
    /\ accepted' = Append(accepted, m)
    /\ UNCHANGED <<refused, delivered, link>>

Refuse(m) ==
    /\ New(m)
    /\ link # "open"
    /\ refused' = refused \cup {m}
    /\ UNCHANGED <<accepted, delivered, link>>

Behind == Len(delivered) < Len(accepted)

Deliver ==
    /\ link # "closed"
    /\ Behind
    /\ delivered' = Append(delivered, accepted[Len(delivered) + 1])
    /\ UNCHANGED <<accepted, refused, link>>

BeginClose ==
    /\ link = "open"
    /\ link' = "closing"
    /\ UNCHANGED <<accepted, refused, delivered>>

Close ==
    /\ link # "closed"
    /\ link' = "closed"
    /\ UNCHANGED <<accepted, refused, delivered>>

OutboundNext ==
    \/ \E m \in Messages : Accept(m) \/ Refuse(m)
    \/ Deliver
    \/ BeginClose
    \/ Close

\* An accepted message does not wait for ever on a path that stays up, and a
\* path that is going down gets there.
OutboundSpec ==
    /\ OutboundInit
    /\ [][OutboundNext]_outboundVars
    /\ WF_outboundVars(Behind /\ (Deliver \/ Close))
    /\ WF_outboundVars(link = "closing" /\ Close)
=============================================================================
