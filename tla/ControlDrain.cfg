\* One process with two devices shuts down while commands are in flight.
SPECIFICATION FairSpec
CONSTANTS
  Procs = {p1}
  Devices = {d1, d2}
  Caps = {"input"}
  Requests <- MCOneRequest
  MaxTime = 1
  MaxIds = 2
INVARIANT
  DrainClosesSessions
PROPERTIES
  DrainTerminates
  ExpiredHandleEnds
