SPECIFICATION FairSpec
CONSTANTS
  w1 = w1
  w2 = w2
  w3 = w3
  w4 = w4
  Task = {w1, w2, w3, w4}
  MaxTasks = 2
  Window = 2
INVARIANTS
  TypeOK
  RateLimit
  NoOversleep
PROPERTIES
  FirstComeFirstServed
  EverybodyIsServed
CHECK_DEADLOCK FALSE
