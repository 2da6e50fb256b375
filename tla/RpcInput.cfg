\* HID reports over three sessions; no calls.  Everything ends.
SPECIFICATION Spec
CONSTANTS
  c1 = c1
  c2 = c2
  Calls = {}
  MaxGen = 3
  MaxQueue = 1
INVARIANTS
  NoLostWakeup
PROPERTIES
  FencedTraffic
CHECK_DEADLOCK FALSE
