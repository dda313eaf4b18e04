\* A producer and a consumer, SIGINT/SIGTERM delivered to both, sa_flags
\* holding SA_RESTART, and the producer started again after it exited.
CONSTANTS
  N = 2
  MaxItems = 4
  MaxRestarts = 1
  Signals = TRUE
  SaRestart = {TRUE}
  Kills = FALSE
SPECIFICATION FairSpec
INVARIANT SlotsConserved
INVARIANT ConsumedInOrder
PROPERTY Delivered
CHECK_DEADLOCK FALSE
