--------------------------- MODULE TimeoutCondvar ---------------------------
(***************************************************************************)
(* src/task2/src/timeout_condvar.c: main waits on a condition variable     *)
(* with a deadline, twice.  Scenario 1 waits 100 ms with no producer and   *)
(* times out.  Scenario 2 starts a producer that sleeps 200 ms and then    *)
(* sets event_ready and signals; main waits up to 1000 ms in a loop        *)
(* guarded by !event_ready && rc != ETIMEDOUT, where rc still holds the    *)
(* result of scenario 1.                                                    *)
(*                                                                         *)
(* Time is a discrete clock `now` counting ticks of TickMs milliseconds.   *)
(* It advances only while some thread sleeps or waits on a deadline that   *)
(* lies ahead.  pthread_cond_timedwait returns 0 when signalled or woken   *)
(* spuriously and ETIMEDOUT once the deadline has passed; both are the     *)
(* implementation's choice when both hold.                                 *)
(***************************************************************************)
EXTENDS Naturals

CONSTANTS TickMs,       \* milliseconds per clock tick
          MaxSpurious   \* bound: spurious wakeups over a run

ASSUME TickMs \in Nat \ {0} /\ MaxSpurious \in Nat

(* The delays of lines 69, 50 and 90.                                      *)
Scenario1Ms == 100
ProducerSleepMs == 200
Scenario2Ms == 1000

(* abs_time_after_ms (lines 33-44): now plus ms, on the model's clock.     *)
AbsTimeAfterMs(t, ms) == t + ms \div TickMs

VARIABLES
  now,         \* the clock, in ticks
  mtx,         \* owner of mtx: "main", "producer" or "none"
  eventReady,  \* event_ready
  rc,          \* main's rc: "unset" until line 73, then "0" or "ETIMEDOUT"
  ts,          \* main's deadline, in ticks
  waiting,     \* main is blocked in pthread_cond_timedwait
  signalled,   \* a pthread_cond_signal reached main while it waited
  spurious,    \* spurious wakeups so far
  mpc,         \* main's pc
  ppc,         \* the producer's pc: "none", "sleep", "done"
  pwake,       \* the end of the producer's usleep, in ticks
  outcome1,    \* what scenario 1 printed
  outcome2     \* what scenario 2 printed

vars == <<now, mtx, eventReady, rc, ts, waiting, signalled, spurious, mpc,
          ppc, pwake, outcome1, outcome2>>

Init ==
  /\ now = 0 /\ mtx = "none" /\ eventReady = 0 /\ rc = "unset"
  /\ ts = 0 /\ waiting = FALSE /\ signalled = FALSE /\ spurious = 0
  /\ mpc = "s1" /\ ppc = "none" /\ pwake = 0
  /\ outcome1 = "none" /\ outcome2 = "none"

(* Line 68-73: lock, compute the deadline, wait (which unlocks).           *)
Scenario1Wait ==
  /\ mpc = "s1" /\ mtx = "none"
  /\ ts' = AbsTimeAfterMs(now, Scenario1Ms)
  /\ waiting' = TRUE
  /\ mpc' = "wait1"
  /\ UNCHANGED <<now, mtx, eventReady, rc, signalled, spurious, ppc, pwake,
                 outcome1, outcome2>>

(* Whether the deadline dl of a timed wait has passed at time t.           *)
TimedOut(t, dl) == t >= dl

WakeResults ==
  (IF signalled THEN {"signal"} ELSE {})
  \cup (IF TimedOut(now, ts) THEN {"ETIMEDOUT"} ELSE {})
  \cup (IF spurious < MaxSpurious THEN {"spurious"} ELSE {})

(* pthread_cond_timedwait returns once it has re-locked mtx.               *)
WakeUp(r) ==
  /\ waiting /\ mtx = "none"
  /\ rc' = IF r = "ETIMEDOUT" THEN "ETIMEDOUT" ELSE "0"
  /\ spurious' = IF r = "spurious" THEN spurious + 1 ELSE spurious
  /\ waiting' = FALSE /\ signalled' = FALSE

(* Lines 73-79: the wait of scenario 1 returns; rc is reported and mtx     *)
(* unlocked.                                                               *)
Wait1Return(r) ==
  /\ mpc = "wait1" /\ r \in WakeResults
  /\ WakeUp(r)
  /\ outcome1' = IF rc' = "ETIMEDOUT" THEN "timedout" ELSE "unexpected"
  /\ mpc' = "create"
  /\ UNCHANGED <<now, mtx, eventReady, ts, ppc, pwake, outcome2>>

(* Line 84: pthread_create starts the producer, or fails and main returns. *)
CreateProducer ==
  /\ mpc = "create"
  /\ \/ /\ ppc' = "sleep"
        /\ pwake' = AbsTimeAfterMs(now, ProducerSleepMs)
        /\ mpc' = "s2"
     \/ /\ mpc' = "failed"
        /\ UNCHANGED <<ppc, pwake>>
  /\ UNCHANGED <<now, mtx, eventReady, rc, ts, waiting, signalled, spurious,
                 outcome1, outcome2>>

(* Lines 89-90: lock and compute the 1000 ms deadline.                     *)
Scenario2Lock ==
  /\ mpc = "s2" /\ mtx = "none"
  /\ mtx' = "main"
  /\ ts' = AbsTimeAfterMs(now, Scenario2Ms)
  /\ mpc' = "test"
  /\ UNCHANGED <<now, eventReady, rc, waiting, signalled, spurious, ppc,
                 pwake, outcome1, outcome2>>

(* A loop that tests the deadline but not event_ready.                     *)
LoopCondNoEvent(ev, r) == r # "ETIMEDOUT"

(* Line 93, the loop test; it reuses rc from scenario 1.                   *)
LoopCond(ev, r) == ev = 0 /\ r # "ETIMEDOUT"

(* Lines 93-94: test the loop condition; wait (unlocking) or leave.        *)
LoopTest ==
  /\ mpc = "test"
  /\ IF LoopCond(eventReady, rc)
       THEN /\ mtx' = "none" /\ waiting' = TRUE /\ mpc' = "wait2"
       ELSE /\ mpc' = "report" /\ UNCHANGED <<mtx, waiting>>
  /\ UNCHANGED <<now, eventReady, rc, ts, signalled, spurious, ppc, pwake,
                 outcome1, outcome2>>

(* Line 94: the wait returns with mtx locked, back to the loop test.       *)
Wait2Return(r) ==
  /\ mpc = "wait2" /\ r \in WakeResults
  /\ WakeUp(r)
  /\ mtx' = "main"
  /\ mpc' = "test"
  /\ UNCHANGED <<now, eventReady, ts, ppc, pwake, outcome1, outcome2>>

(* Lines 97-104: report how scenario 2 ended and unlock.                   *)
Report2 ==
  /\ mpc = "report"
  /\ outcome2' = CASE eventReady # 0 -> "signaled"
                   [] rc = "ETIMEDOUT" -> "timeout"
                   [] OTHER -> "error"
  /\ mtx' = "none"
  /\ mpc' = "join"
  /\ UNCHANGED <<now, eventReady, rc, ts, waiting, signalled, spurious, ppc,
                 pwake, outcome1>>

(* Line 106: pthread_join waits for the producer.                          *)
Join ==
  /\ mpc = "join" /\ ppc = "done"
  /\ mpc' = "done"
  /\ UNCHANGED <<now, mtx, eventReady, rc, ts, waiting, signalled, spurious,
                 ppc, pwake, outcome1, outcome2>>

(* Lines 50-58: after usleep, lock, event_ready = 1, signal, unlock.  The *)
(* signal reaches main only if it is waiting at that moment.              *)
ProducerSignal ==
  /\ ppc = "sleep" /\ now >= pwake /\ mtx = "none"
  /\ eventReady' = 1
  /\ signalled' = waiting
  /\ ppc' = "done"
  /\ UNCHANGED <<now, mtx, rc, ts, waiting, spurious, mpc, pwake, outcome1,
                 outcome2>>

(* A clock that ignores the deadline of a timed wait.                       *)
TickSleepOnly ==
  /\ ppc = "sleep" /\ now < pwake
  /\ now' = now + 1
  /\ UNCHANGED <<mtx, eventReady, rc, ts, waiting, signalled, spurious, mpc,
                 ppc, pwake, outcome1, outcome2>>

(* The clock advances while a sleep or a timed wait has time to run.       *)
Tick ==
  /\ \/ waiting /\ now < ts
     \/ ppc = "sleep" /\ now < pwake
  /\ now' = now + 1
  /\ UNCHANGED <<mtx, eventReady, rc, ts, waiting, signalled, spurious, mpc,
                 ppc, pwake, outcome1, outcome2>>

WakeReasons == {"signal", "ETIMEDOUT", "spurious"}

(* main's steps, the wakeups of both waits given by their reason.          *)
Main ==
  \/ Scenario1Wait \/ CreateProducer \/ Scenario2Lock \/ LoopTest
  \/ Report2 \/ Join
  \/ \E r \in WakeReasons : Wait1Return(r) \/ Wait2Return(r)

Next == Main \/ ProducerSignal \/ Tick

Spec == Init /\ [][Next]_vars

(* Both threads are scheduled and time passes; a spurious wakeup is never  *)
(* forced, a timeout or a delivered signal ends a wait.                    *)
MainStep ==
  \/ Scenario1Wait \/ CreateProducer \/ Scenario2Lock \/ LoopTest
  \/ Report2 \/ Join
  \/ \E r \in {"signal", "ETIMEDOUT"} : Wait1Return(r) \/ Wait2Return(r)

FairSpec ==
  Spec /\ WF_vars(MainStep) /\ WF_vars(ProducerSignal) /\ WF_vars(Tick)

-----------------------------------------------------------------------------
TypeOK ==
  /\ now \in Nat /\ ts \in Nat /\ pwake \in Nat
  /\ mtx \in {"main", "producer", "none"}
  /\ eventReady \in {0, 1}
  /\ rc \in {"unset", "0", "ETIMEDOUT"}
  /\ waiting \in BOOLEAN /\ signalled \in BOOLEAN
  /\ spurious \in 0..MaxSpurious
  /\ mpc \in {"s1", "wait1", "create", "s2", "test", "wait2", "report",
              "join", "done", "failed"}
  /\ ppc \in {"none", "sleep", "done"}
  /\ outcome1 \in {"none", "timedout", "unexpected"}
  /\ outcome2 \in {"none", "signaled", "timeout", "error"}

(* The header comment (lines 13-14): in scenario 2 main "must successfully *)
(* wait for the producer's signal"; it never reports a timeout there.      *)
Scenario2Signaled == outcome2 \in {"none", "signaled"}

(* Lines 53-57 and 93-94: the producer may set event_ready and signal     *)
(* before main waits, and that signal is lost.  The predicate loop never   *)
(* lets main sleep on an event that is already set: whenever main waits in *)
(* scenario 2 with event_ready set, a signal has reached it.               *)
NoSleepOnReadyEvent ==
  (mpc = "wait2" /\ waiting /\ eventReady = 1) => signalled

(* Lines 93-95: however the timed waits return (spuriously, signalled or   *)
(* at the deadline), main leaves both scenarios and ends.                  *)
MainEnds == <>(mpc \in {"done", "failed"})

=============================================================================
