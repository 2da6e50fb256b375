--------------------------- MODULE DeliveryClaim ---------------------------
(***************************************************************************)
(* What an operation receipt promises its reader about the physical world. *)
(* A request reaches the device at most once, only while its receipt says  *)
(* that it may have been sent; a receipt that says "not sent" or           *)
(* "accepted" tells the truth.                                             *)
(***************************************************************************)
CONSTANT Ops

VARIABLES claim,      \* what the receipt of each operation says
          delivered   \* whether the device was given the request

Claims == {"none", "not_sent", "possibly_sent", "transport_accepted"}

Init == /\ claim = [op \in Ops |-> "none"]
        /\ delivered = [op \in Ops |-> FALSE]

Register(op) == /\ claim[op] = "none"
                /\ claim' = [claim EXCEPT ![op] = "not_sent"]
                /\ UNCHANGED delivered

\* From here on nobody may replay the request.
Commit(op) == /\ claim[op] = "not_sent"
              /\ claim' = [claim EXCEPT ![op] = "possibly_sent"]
              /\ UNCHANGED delivered

Deliver(op) == /\ claim[op] = "possibly_sent"
               /\ ~delivered[op]
               /\ delivered' = [delivered EXCEPT ![op] = TRUE]
               /\ UNCHANGED claim

Accept(op) == /\ claim[op] = "possibly_sent"
              /\ delivered[op]
              /\ claim' = [claim EXCEPT ![op] = "transport_accepted"]
              /\ UNCHANGED delivered

\* A receipt past its retention is removed.
Forget(op) == /\ claim[op] # "none"
              /\ claim' = [claim EXCEPT ![op] = "none"]
              /\ delivered' = [delivered EXCEPT ![op] = FALSE]

Next == \E op \in Ops : \/ Register(op) \/ Commit(op) \/ Deliver(op)
                        \/ Accept(op) \/ Forget(op)

Spec == Init /\ [][Next]_<<claim, delivered>>
=============================================================================
