--------------------------- MODULE SessionContract ---------------------------
(***************************************************************************)
(* What a JetKVM client promises whoever uses its sessions.  Sessions are  *)
(* issued one after the other, each when all older ones are fenced; a call *)
(* is put on the wire at most once and only on the newest session issued;  *)
(* it ends once: with its reply if it was sent, with the reason its own    *)
(* session ended, or with an error of its own.                             *)
(***************************************************************************)
EXTENDS Naturals

CONSTANTS Calls, Gens

VARIABLES issued,   \* sessions handed out
          status,   \* how each session stands
          fate,     \* how each call stands
          owner     \* the session of each call (0: none)

Statuses == {"open", "ending", "fenced"}
Fates == {"none", "asked", "sent", "replied", "ended", "failed"}

Init == /\ issued = {}
        /\ status = [g \in Gens |-> "open"]
        /\ fate = [c \in Calls |-> "none"]
        /\ owner = [c \in Calls |-> 0]

Issue(g) == /\ \A h \in issued : h < g /\ status[h] = "fenced"
            /\ issued' = issued \cup {g}
            /\ UNCHANGED <<status, fate, owner>>

End(g) == /\ status[g] = "open"
          /\ status' = [status EXCEPT ![g] = "ending"]
          /\ UNCHANGED <<issued, fate, owner>>

Fence(g) == /\ status[g] = "ending"
            /\ status' = [status EXCEPT ![g] = "fenced"]
            /\ UNCHANGED <<issued, fate, owner>>

\* A call is taken on, or refused on the spot by a session that is ending.
Ask(c, g) == /\ g \in issued
             /\ fate[c] = "none"
             /\ owner' = [owner EXCEPT ![c] = g]
             /\ \/ fate' = [fate EXCEPT ![c] = "asked"]
                \/ /\ status[g] # "open"
                   /\ \E f \in {"ended", "failed"} :
                        fate' = [fate EXCEPT ![c] = f]
             /\ UNCHANGED <<issued, status>>

Send(c) == /\ fate[c] = "asked"
           /\ status[owner[c]] # "fenced"
           /\ \A h \in issued : h <= owner[c]
           /\ fate' = [fate EXCEPT ![c] = "sent"]
           /\ UNCHANGED <<issued, status, owner>>

Reply(c) == /\ fate[c] = "sent"
            /\ fate' = [fate EXCEPT ![c] = "replied"]
            /\ UNCHANGED <<issued, status, owner>>

Ended(c) == /\ fate[c] \in {"asked", "sent"}
            /\ status[owner[c]] # "open"
            /\ fate' = [fate EXCEPT ![c] = "ended"]
            /\ UNCHANGED <<issued, status, owner>>

Fail(c) == /\ fate[c] \in {"asked", "sent"}
           /\ fate' = [fate EXCEPT ![c] = "failed"]
           /\ UNCHANGED <<issued, status, owner>>

Next == \/ \E g \in Gens : Issue(g) \/ End(g) \/ Fence(g)
        \/ \E c \in Calls : \/ \E g \in Gens : Ask(c, g)
                            \/ Send(c) \/ Reply(c) \/ Ended(c) \/ Fail(c)

Spec == Init /\ [][Next]_<<issued, status, fate, owner>>
=============================================================================
