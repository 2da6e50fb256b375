---------------------------- MODULE DeviceLease ----------------------------
(***************************************************************************)
(* What the control registry promises the devices: of all the controllers  *)
(* on this machine at most one is connected to a device, and a device is   *)
(* left by one controller before the next one turns to it.  ControlActor   *)
(* implements this with actors, sessions and file locks.                   *)
(***************************************************************************)
CONSTANTS Controllers, Devices

VARIABLE connected     \* the controllers connected to each device

Init == connected = [d \in Devices |-> {}]

\* A controller turns to a device nobody is connected to.
Engage(c, d) ==
  /\ connected[d] = {}
  /\ connected' = [connected EXCEPT ![d] = {c}]

\* Connections end; the end of a process ends several at once.
Disengage(D) ==
  /\ D # {}
  /\ \A d \in D : connected[d] # {}
  /\ connected' = [d \in Devices |-> IF d \in D THEN {} ELSE connected[d]]

Next ==
  \/ \E c \in Controllers, d \in Devices : Engage(c, d)
  \/ \E D \in SUBSET Devices : Disengage(D)

Spec == Init /\ [][Next]_connected
=============================================================================
