\* mempool.c: a pool of five blocks under any correct client and under
\* benchmark_mempool with as many iterations as blocks; beside it
\* timeout_condvar.c with 100 ms ticks and one spurious wakeup, under the
\* fairness of its threads and clock.  Both programs end, so the run stops.
CONSTANTS
  BlockCount = 5
  Iterations = 5
  TickMs = 100
  MaxSpurious = 1
SPECIFICATION BothSpec
INVARIANT AllocsSucceed
INVARIANT NoSleepOnReadyEvent
INVARIANT AbsTimeExact
PROPERTY PoolRefinement
PROPERTY MainEnds
CHECK_DEADLOCK FALSE
