\* Three calls for one operation through two stores that crash and reopen; two
\* calls with two approvals and a restart; every command line, run twice; two
\* updates over three versions, the newest a prerelease, and a crash.
SPECIFICATION CommandsSpec
CONSTANTS
  Stores = {s1, s2}
  Callers = {c1, c2, c3}
  Ops = {op1}
  Digests = {d1, d2}
  Users = {a, b}
  Principals = {alice}
  Bindings = {reset, hold}
  Risky = {reset, hold}
  StateTTL = 2
  ProofTTL = 1
  MaxTime = 3
  MaxTokens = 2
  MaxEpoch = 1
  Commands <- CommandLines
  MaxAttempts = 2
  MaxPolls = 2
  MaxVersion = 3
  Published = {1, 2, 3}
  Prereleases = {3}
  MaxCrashes = 1
SYMMETRY Symmetry
INVARIANTS
  SentAtMostOnce
  RetrySafeMeansUnsent
  DeliveryHonest
  SentAsApproved
  CommandReports
  BrokenIsReported
PROPERTIES
  KeepsPromise
  AppliedIsTrue
\* Calls end, and a program without an executable starts no more.
CHECK_DEADLOCK FALSE
