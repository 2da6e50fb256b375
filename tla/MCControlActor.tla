--------------------------- MODULE MCControlActor ---------------------------
(* Instances of ControlActor for TLC.                                      *)
EXTENDS ControlActor, TLC

\* A long-lived handle with every capability and a short one that may join it.
MCRequests == {[own |-> "owned", caps |-> {"input", "power"}, idle |-> 1,
                life |-> 2],
               [own |-> "owned", caps |-> {"input"}, idle |-> 1, life |-> 1]}

\* One request only, for the runs with more actors.
MCOneRequest == {[own |-> "owned", caps |-> {"input"}, idle |-> 1, life |-> 1]}

Symmetry == Permutations(Procs)
=============================================================================
