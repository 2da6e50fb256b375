\* Two processes compete for one device.
SPECIFICATION Spec
CONSTANTS
  Procs = {p1, p2}
  Devices = {d1}
  Caps = {"input"}
  Requests <- MCOneRequest
  MaxTime = 1
  MaxIds = 3
SYMMETRY Symmetry
INVARIANTS
  DeviceExclusive
PROPERTY
  ImplementsLease
