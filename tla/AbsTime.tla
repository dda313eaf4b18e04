------------------------------ MODULE AbsTime ------------------------------
(***************************************************************************)
(* abs_time_after_ms of src/task2/src/timeout_condvar.c (lines 33-44), the *)
(* same code as timeout_mq.c lines 31-41: the CLOCK_REALTIME time ms       *)
(* milliseconds from now, as the absolute deadline of a timed wait.  A     *)
(* struct timespec is a record of whole seconds and nanoseconds; a         *)
(* deadline whose tv_nsec lies outside [0, 10^9) makes                     *)
(* pthread_cond_timedwait and mq_timedreceive fail with EINVAL.            *)
(*                                                                         *)
(* TimeoutCondvar counts time in ticks and takes this helper to add ms     *)
(* exactly; MC_PoolTimedWait checks that it does, from boundary readings.  *)
(***************************************************************************)
EXTENDS Naturals

NsPerSec == 1000000000
NsPerMs == 1000000

(* clock_gettime returns a normalised timespec.                            *)
Normalised(t) == t.nsec < NsPerSec

(* The timespecs clock_gettime may return, and the delays, of the checks:  *)
(* tv_nsec at 0, just below a millisecond boundary and just below the      *)
(* second; ms at the program's 100 and 1000 and the values around a second. *)
Nows == [sec : {0, 59},
         nsec : {0, 1, 500000000, 998999999, 999000000, 999999999}]
Delays == {0, 1, 100, 999, 1000, 1001, 1999}

(* The carry tested with > instead of >=.                                  *)
AbsTimeAfterMsGt(t, ms) ==
  LET sec == t.sec + ms \div 1000
      nsec == t.nsec + (ms % 1000) * NsPerMs
  IN IF nsec > NsPerSec THEN [sec |-> sec + 1, nsec |-> nsec - NsPerSec]
     ELSE [sec |-> sec, nsec |-> nsec]

(* Lines 37-43: add the whole seconds, then the remaining milliseconds as  *)
(* nanoseconds, and carry one second when tv_nsec reaches 10^9.            *)
AbsTimeAfterMs(t, ms) ==
  LET sec == t.sec + ms \div 1000
      nsec == t.nsec + (ms % 1000) * NsPerMs
  IN IF nsec >= NsPerSec THEN [sec |-> sec + 1, nsec |-> nsec - NsPerSec]
     ELSE [sec |-> sec, nsec |-> nsec]

(* Reference: a timespec as whole milliseconds and a sub-millisecond rest. *)
TotalMs(t) == t.sec * 1000 + t.nsec \div NsPerMs
SubMs(t) == t.nsec % NsPerMs

(* d is a valid timespec exactly ms milliseconds after t.                 *)
ExactlyAfter(d, t, ms) ==
  /\ Normalised(d)
  /\ TotalMs(d) = TotalMs(t) + ms
  /\ SubMs(d) = SubMs(t)

(* The CLOCK_REALTIME reading k milliseconds after a start t0.             *)
ReadingAfter(t0, k) ==
  [sec |-> (TotalMs(t0) + k) \div 1000,
   nsec |-> ((TotalMs(t0) + k) % 1000) * NsPerMs + SubMs(t0)]

=============================================================================
