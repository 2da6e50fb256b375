\* The updates of CommandSafety, one at a time and without a crash.
SPECIFICATION CommandsSpec
CONSTANTS
  Stores = {s1}
  Callers = {c1}
  Ops = {op1}
  Digests = {d1, d2}
  Users = {a}
  Principals = {alice}
  Bindings = {reset, hold}
  Risky = {reset, hold}
  StateTTL = 2
  ProofTTL = 1
  MaxTime = 3
  MaxTokens = 2
  MaxEpoch = 1
  Commands <- CommandLines
  MaxAttempts = 2
  MaxPolls = 2
  MaxVersion = 3
  Published = {1, 2, 3}
  Prereleases = {3}
  MaxCrashes = 0
PROPERTY
  FailedUpdateChangesNothing
\* Without an executable no command can be started any more.
CHECK_DEADLOCK FALSE
