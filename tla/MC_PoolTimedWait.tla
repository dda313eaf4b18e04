--------------------------- MODULE MC_PoolTimedWait ---------------------------
(***************************************************************************)
(* One TLC run for two programs that share nothing: the memory pool with   *)
(* its client (MemPool, src/task5) and timeout_condvar.c (TimeoutCondvar,  *)
(* src/task2).  They run as separate processes, so their composition is    *)
(* the interleaving of their steps, each leaving the other's variables     *)
(* alone; every property below is about one of them.  The product adds no  *)
(* behaviour, and one TLC run checks both.  AbsTime's check of the       *)
(* timespec arithmetic behind TimeoutCondvar's clock rides along.          *)
(***************************************************************************)
EXTENDS MemPool

CONSTANTS TickMs,       \* TimeoutCondvar: milliseconds per clock tick
          MaxSpurious   \* TimeoutCondvar: bound on spurious wakeups

VARIABLES now, mtx, eventReady, rc, ts, waiting, signalled, spurious, mpc,
          ppc, pwake, outcome1, outcome2

TC == INSTANCE TimeoutCondvar
AT == INSTANCE AbsTime

tcVars == <<now, mtx, eventReady, rc, ts, waiting, signalled, spurious, mpc,
            ppc, pwake, outcome1, outcome2>>
allVars == <<vars, tcVars>>

BothInit == Init /\ TC!Init

BothNext == (Next /\ UNCHANGED tcVars) \/ (TC!Next /\ UNCHANGED vars)

(* MemPool's client has no fairness (no property of it is liveness);       *)
(* timeout_condvar.c's threads and clock have TimeoutCondvar's.            *)
BothSpec ==
  /\ BothInit /\ [][BothNext]_allVars
  /\ WF_tcVars(TC!MainStep) /\ WF_tcVars(TC!ProducerSignal)
  /\ WF_tcVars(TC!Tick)

(* timeout_condvar.c lines 53-57 and 93-94: main never sleeps in scenario  *)
(* 2 on an event_ready that is already set without a signal reaching it.  *)
NoSleepOnReadyEvent == TC!NoSleepOnReadyEvent

(* timeout_condvar.c lines 93-95: main ends whatever its waits return.     *)
MainEnds == TC!MainEnds

(* abs_time_after_ms (timeout_condvar.c lines 33-44): at every value of   *)
(* the clock, from every start reading (tv_nsec at 0, at a millisecond     *)
(* boundary, just below the second), the deadline main computes for each  *)
(* delay is a valid timespec exactly that delay later, the carry of a      *)
(* tv_nsec reaching 10^9 included; otherwise the timed waits fail with     *)
(* EINVAL or end early.                                                    *)
AbsTimeExact ==
  \A t0 \in AT!Nows, ms \in AT!Delays :
    LET t == AT!ReadingAfter(t0, now * TickMs)
    IN AT!ExactlyAfter(AT!AbsTimeAfterMs(t, ms), t, ms)

=============================================================================
