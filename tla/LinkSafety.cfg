\* One candidate of the device, beside two local ones, or one, a ping and two
\* handshakes; three requests and a device that
\* forgets its token twice; a stream of six pictures whose numbers wrap; one
\* observer.
SPECIFICATION LinkSpec
CONSTANTS
  LocalOrder <- TwoLocals
  Remotes = {"r1"}
  OutboundBuffer = 1
  MaxTries = 2
  MaxPings = 1
  Requests = {r1, r2, r3}
  MaxRevoked = 2
  MaxLost = 1
  Passwords = {"right", "wrong", "absent"}
  Stream <- Mixed
  FirstSeq = 12
  FirstTime = 13
  SeqSpace = 16
  TimeSpace = 16
  MaxPackets = 3
  Window = 3
  MaxCopies = 1
  Observers = {o1}
  MaxPending = 1
  Freshness = 1
  PLIInterval = 1
  MaxUnits = 3
  MaxGen = 2
  MaxChain = 2
INVARIANTS
  CandidatesInOrder
  OneLoginServesAll
  
  ShownWhole
\* Sessions and requests end, a stream ends, a closed pipeline stays closed.
CHECK_DEADLOCK FALSE
