------------------------------ MODULE MemPool ------------------------------
(***************************************************************************)
(* src/task5/src/mempool.c: a fixed-size block pool whose free blocks form *)
(* a singly linked list threaded through the blocks themselves.  The list *)
(* is modelled as the sequence of block indices from free_list_head on;   *)
(* block i lives at memory_start + i * block_size.                         *)
(*                                                                         *)
(* The caller is either any correct client (it frees only blocks it       *)
(* holds, in any order, and may destroy the pool at any time) or          *)
(* main of task3_benchmark.c: mlockall, benchmark_malloc, then           *)
(* benchmark_mempool: create, allocate Iterations blocks, free them in    *)
(* the same order, destroy.  Which of the two calls the pool is chosen in *)
(* Init.                                                                   *)
(***************************************************************************)
EXTENDS Naturals, Sequences, SequencesExt

CONSTANTS BlockCount,   \* block_count
          Iterations    \* BENCH_ITERATIONS

ASSUME BlockCount \in Nat /\ Iterations \in Nat

Blocks == 0..BlockCount - 1

NULL == -1

(* Lines 42-47: pushing blocks 0 .. k-1 in turn onto an empty list.        *)
RECURSIVE FreeListOf(_)
FreeListOf(k) == IF k = 0 THEN <<>> ELSE <<k - 1>> \o FreeListOf(k - 1)

VARIABLES
  bench,      \* TRUE: the client is benchmark_mempool
  pool,       \* "none", "live", "failed" (pool_create returned NULL), "destroyed"
  freeList,   \* the free list, from free_list_head
  inUse,      \* the blocks the client holds
  bpc,        \* main's and benchmark_mempool's pc
  i,          \* benchmark_mempool's loop index
  ptrs        \* benchmark_mempool's ptrs[]

vars == <<bench, pool, freeList, inUse, bpc, i, ptrs>>

Init ==
  /\ bench \in BOOLEAN
  /\ pool = "none" /\ freeList = <<>> /\ inUse = {}
  /\ bpc = "start" /\ i = 0 /\ ptrs = [k \in 0..Iterations - 1 |-> NULL]

-----------------------------------------------------------------------------
(* The pool operations, as the result they return and the list after them. *)

(* pool_create, lines 18-50: either malloc may fail; otherwise the blocks  *)
(* are pushed one by one.                                                  *)
Created == {"failed", "live"}

ListAfterCreate_Short(p) ==
  IF p = "live" THEN FreeListOf(BlockCount - 1) ELSE <<>>

ListAfterCreate(p) == IF p = "live" THEN FreeListOf(BlockCount) ELSE <<>>

(* pool_alloc, lines 52-60.                                                *)
AllocResult == IF pool # "live" \/ freeList = <<>> THEN NULL ELSE Head(freeList)

ListAfterAlloc_Stale == freeList

ListAfterAlloc == IF pool # "live" \/ freeList = <<>> THEN freeList
                  ELSE Tail(freeList)

(* pool_free, lines 62-69: NULL is ignored; the block becomes the head.    *)
ListAfterFree_Unlinked(b) == IF b = NULL THEN freeList ELSE <<b>>

ListAfterFree(b) == IF b = NULL THEN freeList ELSE <<b>> \o freeList

InUseAfterAlloc == IF AllocResult = NULL THEN inUse ELSE inUse \cup {AllocResult}

-----------------------------------------------------------------------------
(* Any correct client.                                                     *)

ClientCreate ==
  /\ ~bench /\ pool = "none"
  /\ \E p \in Created : pool' = p /\ freeList' = ListAfterCreate(p)
  /\ UNCHANGED <<bench, inUse, bpc, i, ptrs>>

ClientAlloc ==
  /\ ~bench /\ pool = "live"
  /\ inUse' = InUseAfterAlloc
  /\ freeList' = ListAfterAlloc
  /\ UNCHANGED <<bench, pool, bpc, i, ptrs>>

ClientFree ==
  /\ ~bench /\ pool = "live"
  /\ \E b \in inUse \cup {NULL} :
       /\ freeList' = ListAfterFree(b)
       /\ inUse' = inUse \ {b}
  /\ UNCHANGED <<bench, pool, bpc, i, ptrs>>

(* pool_destroy, lines 71-77: the memory goes; held pointers dangle.       *)
ClientDestroy ==
  /\ ~bench /\ pool = "live"
  /\ pool' = "destroyed" /\ freeList' = <<>> /\ inUse' = {}
  /\ UNCHANGED <<bench, bpc, i, ptrs>>

-----------------------------------------------------------------------------
(* task3_benchmark.c: main (lines 67-78) and benchmark_mempool (34-65).   *)

(* Lines 68-71: main returns 1 when mlockall fails.                        *)
BenchStart ==
  /\ bench /\ bpc = "start"
  /\ bpc' \in {"malloc", "done"}
  /\ UNCHANGED <<bench, pool, freeList, inUse, i, ptrs>>

(* Lines 13-32, 73: benchmark_malloc mallocs and frees its own blocks and  *)
(* leaves the pool alone; then main calls benchmark_mempool (line 75).     *)
BenchMalloc ==
  /\ bench /\ bpc = "malloc"
  /\ bpc' = "create"
  /\ UNCHANGED <<bench, pool, freeList, inUse, i, ptrs>>

(* Lines 41-45: create the pool, return if it failed.                      *)
BenchCreate ==
  /\ bench /\ bpc = "create"
  /\ \E p \in Created :
       /\ pool' = p /\ freeList' = ListAfterCreate(p)
       /\ bpc' = IF p = "live" THEN "alloc" ELSE "done"
  /\ UNCHANGED <<bench, inUse, i, ptrs>>

(* Lines 48-54: ptrs[i] = pool_alloc(pool), for i below Iterations.        *)
BenchAlloc ==
  /\ bench /\ bpc = "alloc"
  /\ IF i < Iterations
       THEN /\ ptrs' = [ptrs EXCEPT ![i] = AllocResult]
            /\ inUse' = InUseAfterAlloc
            /\ freeList' = ListAfterAlloc
            /\ i' = i + 1
            /\ UNCHANGED bpc
       ELSE /\ bpc' = "free" /\ i' = 0
            /\ UNCHANGED <<ptrs, inUse, freeList>>
  /\ UNCHANGED <<bench, pool>>

(* Lines 57-59: pool_free(pool, ptrs[i]).                                  *)
BenchFree ==
  /\ bench /\ bpc = "free"
  /\ IF i < Iterations
       THEN /\ freeList' = ListAfterFree(ptrs[i])
            /\ inUse' = inUse \ {ptrs[i]}
            /\ i' = i + 1
            /\ UNCHANGED bpc
       ELSE /\ bpc' = "destroy" /\ i' = 0
            /\ UNCHANGED <<inUse, freeList>>
  /\ UNCHANGED <<bench, pool, ptrs>>

(* Line 64.                                                                *)
BenchDestroy ==
  /\ bench /\ bpc = "destroy"
  /\ pool' = "destroyed" /\ freeList' = <<>> /\ inUse' = {}
  /\ bpc' = "done"
  /\ UNCHANGED <<bench, i, ptrs>>

Next ==
  \/ ClientCreate \/ ClientAlloc \/ ClientFree \/ ClientDestroy
  \/ BenchStart \/ BenchMalloc \/ BenchCreate \/ BenchAlloc \/ BenchFree \/ BenchDestroy

Spec == Init /\ [][Next]_vars

-----------------------------------------------------------------------------
TypeOK ==
  /\ bench \in BOOLEAN
  /\ pool \in {"none", "live", "failed", "destroyed"}
  /\ freeList \in Seq(Blocks) /\ inUse \subseteq Blocks
  /\ bpc \in {"start", "malloc", "create", "alloc", "free", "destroy", "done"}
  /\ i \in 0..Iterations
  /\ ptrs \in [0..Iterations - 1 -> Blocks \cup {NULL}]

(* The pool implements MemPoolSpec: the blocks on the free list are the   *)
(* free blocks, each at most once, and no block is handed out while held. *)
Abs == INSTANCE MemPoolSpec
         WITH Blocks <- Blocks,
              apool <- pool,
              free <- IF pool = "live" THEN ToSet(freeList) ELSE {},
              inUse <- IF pool = "live" THEN inUse ELSE {}

PoolRefinement == Abs!ASpec

(* benchmark_mempool's allocation loop (lines 48-54) gets a block on every *)
(* call from the pool of BENCH_ITERATIONS blocks (line 41).                *)
AllocsSucceed ==
  bpc \in {"free", "destroy"} => \A k \in DOMAIN ptrs : ptrs[k] # NULL

=============================================================================
