---------------------------- MODULE MemPoolSpec ----------------------------
(***************************************************************************)
(* What the memory pool of src/task5/src/mempool.h promises: pool_create   *)
(* makes a pool of block_count blocks (or fails), pool_alloc hands out a   *)
(* block no one holds (or NULL when none is free), pool_free takes a held  *)
(* block back, pool_destroy releases everything.  NULL results and         *)
(* pool_free(NULL) change nothing.                                          *)
(***************************************************************************)
CONSTANTS Blocks   \* the blocks of the pool

VARIABLES apool,   \* "none", "live", "failed" or "destroyed"
          free,    \* the blocks pool_alloc may hand out
          inUse    \* the blocks handed out and not returned

avars == <<apool, free, inUse>>

AInit == apool = "none" /\ free = {} /\ inUse = {}

ACreate ==
  /\ apool = "none"
  /\ \/ apool' = "failed" /\ UNCHANGED <<free, inUse>>
     \/ apool' = "live" /\ free' = Blocks /\ UNCHANGED inUse

AAlloc ==
  /\ apool = "live"
  /\ \E b \in free : free' = free \ {b} /\ inUse' = inUse \cup {b}
  /\ UNCHANGED apool

AFree ==
  /\ apool = "live"
  /\ \E b \in inUse : inUse' = inUse \ {b} /\ free' = free \cup {b}
  /\ UNCHANGED apool

ADestroy ==
  /\ apool = "live"
  /\ apool' = "destroyed" /\ free' = {} /\ inUse' = {}

ANext == ACreate \/ AAlloc \/ AFree \/ ADestroy

ASpec == AInit /\ [][ANext]_avars

=============================================================================
