----------------------------- MODULE LossyQueue -----------------------------
(***************************************************************************)
(* What a gateway manager promises its gateways: per target a first-in     *)
(* first-out queue that loses only its oldest messages, only when it has   *)
(* reached its limit, and never delivers a message twice or out of order.  *)
(***************************************************************************)
EXTENDS Naturals, Sequences

CONSTANTS Targets, Messages,
          Limit   \* per target: the positive length at which it is trimmed

VARIABLES queue, delivered, lost

Init ==
    /\ queue = [t \in Targets |-> <<>>]
    /\ delivered = [t \in Targets |-> <<>>]
    /\ lost = [t \in Targets |-> <<>>]

\* At most one message arrives; d are lost, the next n delivered, the rest stay.
Serve(t, arrived) ==
    LET all == queue[t] \o arrived IN
    \E d \in 0 .. Len(all) : \E n \in 0 .. (Len(all) - d) :
        /\ d = 0 \/ Len(all) - d = Limit[t] - 1
        /\ Len(all) - d < Limit[t]
        /\ lost' = [lost EXCEPT ![t] = @ \o SubSeq(all, 1, d)]
        /\ delivered' = [delivered EXCEPT ![t] = @ \o SubSeq(all, d + 1, d + n)]
        /\ queue' = [queue EXCEPT ![t] = SubSeq(all, d + n + 1, Len(all))]

Arrivals == {<<>>} \cup {<<m>> : m \in Messages}

Next == \E t \in Targets : \E arrived \in Arrivals : Serve(t, arrived)

Spec == Init /\ [][Next]_<<queue, delivered, lost>>
=============================================================================
