\* The handles of one process and one device; two peers, a browser handler and the
\* closer; two loading processes; two jobs.
SPECIFICATION HostSpec
CONSTANTS
  Procs = {p1}
  Devices = {d1}
  Caps = {"input", "power"}
  Requests <- MCRequests
  MaxTime = 3
  MaxIds = 3
  Users = {a, b}
  None = none
  Changers = {h1}
  Closer = closer
  MaxRev = 2
  MaxSchema = 2
  MaxAccounts = 1
SYMMETRY Symmetry
INVARIANTS
  ExecutesFenced
  ServedCurrent
  LoadedPinned
  SavedSound
PROPERTIES
  HandleOnlyWindsDown
  ControlsKept
  WritesWhatWasShown
