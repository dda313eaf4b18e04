\* tv_nsec may hold zero, a valid fraction, or a value timer_settime rejects.
CONSTANTS
  Garbage <- MCGarbage
SPECIFICATION FairSpec
PROPERTY WaitEnds
CHECK_DEADLOCK FALSE
