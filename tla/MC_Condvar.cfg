\* condvar.c: the four-state machine with broadcasts and spurious wakeups.
CONSTANTS
  MaxSpurious = 2
SPECIFICATION FairSpec
PROPERTY Transitions StatesRecur
