\* Two calls over two sessions, one replacing the other.  Everything ends.
SPECIFICATION FairSpec
CONSTANTS
  c1 = c1
  c2 = c2
  Calls <- MCCalls
  MaxGen = 2
  MaxQueue = 0
INVARIANTS
  OwnReply
PROPERTIES
  KeepsContract
  
CHECK_DEADLOCK FALSE
