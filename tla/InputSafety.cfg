\* All pairs of actions, with every failure.  A closed session stops for good.
SPECIFICATION FairSpec
CONSTANTS
  Batches <- MCPairs
  MaxWire = 6
INVARIANTS
  NeutralUnlessUncertain
  OutcomeJustified
  ClosedNeutral
PROPERTIES
  OperationEnds
CHECK_DEADLOCK FALSE
