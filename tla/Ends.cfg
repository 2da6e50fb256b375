\* Two calls, one browser handler and the closer; every command; two pictures.
SPECIFICATION EndsSpec
CONSTANTS
  Calls = {c1, c2}
  Changers = {h1}
  Closer = closer
  None = none
  MaxRev = 1
  Commands <- CommandLines
  MaxAttempts = 1
  MaxPolls = 2
  MaxPending = 1
  Freshness = 0
  PLIInterval = 1
  MaxUnits = 2
  MaxGen = 2
  MaxChain = 2
PROPERTIES
  HostEnds
  CommandEnds
  PictureEnds
\* A closed host, an ended command and a closed pipeline stay so.
CHECK_DEADLOCK FALSE
