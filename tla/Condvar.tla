------------------------------ MODULE Condvar ------------------------------
(***************************************************************************)
(* src/task1/src/shared_mem/condvar.c: four threads, one per state of the  *)
(* machine 0 -> 1 -> 2 or 3 -> 0, share `state`, one mutex and one        *)
(* condition variable.  Thread i locks the mutex, waits while state # i,   *)
(* makes its transition, broadcasts and unlocks.  state_1 chooses 2 or 3   *)
(* by the parity of cnt and increments cnt after unlocking.                *)
(*                                                                         *)
(* pthread_cond_wait releases the mutex, sleeps until a signal or         *)
(* broadcast reaches the thread (or spuriously, at most MaxSpurious times *)
(* in a run) and re-locks the mutex before returning.  `woken` is the set *)
(* of waiting threads a broadcast has released.                           *)
(*                                                                         *)
(* cnt is kept modulo 2, the only use of it (line 90); its int overflow   *)
(* after 2^31 increments keeps the alternation of parities.               *)
(***************************************************************************)
EXTENDS Integers

CONSTANTS MaxSpurious   \* bound: spurious wakeups over a run

ASSUME MaxSpurious \in Nat

(* state_0 .. state_3, each waiting for its own state number.              *)
Threads == 0..3

NoThread == -1

VARIABLES
  state,     \* the global state
  cnt,       \* state_1's static cnt, modulo 2
  owner,     \* holder of the mutex, or NoThread
  pc,        \* per thread: "lock", "test", "wait", "transit", "count"
  woken,     \* waiting threads a broadcast has released
  spurious   \* spurious wakeups so far

vars == <<state, cnt, owner, pc, woken, spurious>>

(* main, lines 42-48: state = 0, then the four threads start.              *)
Init ==
  /\ state = 0 /\ cnt = 0 /\ owner = NoThread
  /\ pc = [t \in Threads |-> "lock"]
  /\ woken = {} /\ spurious = 0

(* The transition thread t makes (lines 68, 90-98, 117, 134).              *)
NextState(t, c) ==
  CASE t = 0 -> 1
    [] t = 1 -> IF c % 2 = 0 THEN 2 ELSE 3
    [] OTHER -> 0

(* pthread_cond_broadcast (lines 71, 100, 118, 135) releases every waiter; *)
(* the result is the set of the possible sets of released threads.         *)
Notify_Signal(waiters) ==
  IF waiters = {} THEN {{}} ELSE {{w} : w \in waiters}

Notify(waiters) == {waiters}

Waiters == {t \in Threads : pc[t] = "wait"}

(* Lines 62, 85, 111, 128: pthread_mutex_lock.                             *)
Lock(t) ==
  /\ pc[t] = "lock" /\ owner = NoThread
  /\ owner' = t
  /\ pc' = [pc EXCEPT ![t] = "test"]
  /\ UNCHANGED <<state, cnt, woken, spurious>>

(* The loop test while (state != t); waiting releases the mutex.           *)
Test(t) ==
  /\ pc[t] = "test"
  /\ IF state # t
       THEN owner' = NoThread /\ pc' = [pc EXCEPT ![t] = "wait"]
       ELSE pc' = [pc EXCEPT ![t] = "transit"] /\ UNCHANGED owner
  /\ UNCHANGED <<state, cnt, woken, spurious>>

(* Where pthread_cond_wait's return leads: back to the while test.         *)
AfterWake_If == "transit"

AfterWake == "test"

(* pthread_cond_wait returns, released or spuriously, with the mutex       *)
(* locked again.                                                           *)
Wake(t) ==
  /\ pc[t] = "wait" /\ owner = NoThread
  /\ t \in woken \/ spurious < MaxSpurious
  /\ owner' = t
  /\ pc' = [pc EXCEPT ![t] = AfterWake]
  /\ woken' = woken \ {t}
  /\ spurious' = IF t \in woken THEN spurious ELSE spurious + 1
  /\ UNCHANGED <<state, cnt>>

(* The transition, the broadcast and the unlock of thread t; state_1 goes *)
(* on to cnt++ (line 102), the others back to the lock.                    *)
Transit(t) ==
  /\ pc[t] = "transit"
  /\ state' = NextState(t, cnt)
  /\ \E r \in Notify(Waiters) : woken' = woken \cup r
  /\ owner' = NoThread
  /\ pc' = [pc EXCEPT ![t] = IF t = 1 THEN "count" ELSE "lock"]
  /\ UNCHANGED <<cnt, spurious>>

(* Line 102: cnt++, outside the mutex.                                     *)
Count ==
  /\ pc[1] = "count"
  /\ cnt' = (cnt + 1) % 2
  /\ pc' = [pc EXCEPT ![1] = "lock"]
  /\ UNCHANGED <<state, owner, woken, spurious>>

(* A return from pthread_cond_wait caused by a broadcast.                  *)
ReleasedWake(t) == t \in woken /\ Wake(t)

Thread(t) == Lock(t) \/ Test(t) \/ Wake(t) \/ Transit(t) \/ (t = 1 /\ Count)

Next == \E t \in Threads : Thread(t)

Spec == Init /\ [][Next]_vars

(* Every thread is scheduled; a spurious wakeup is never forced.           *)
FairSpec ==
  /\ Spec
  /\ \A t \in Threads : WF_vars(Lock(t)) /\ WF_vars(Test(t))
                        /\ WF_vars(Transit(t)) /\ WF_vars(ReleasedWake(t))
  /\ WF_vars(Count)

-----------------------------------------------------------------------------
TypeOK ==
  /\ state \in Threads /\ cnt \in 0..1
  /\ owner \in Threads \cup {NoThread}
  /\ pc \in [Threads -> {"lock", "test", "wait", "transit", "count"}]
  /\ woken \subseteq Threads /\ spurious \in 0..MaxSpurious

(* The header comment (lines 13-17): the shared state only ever moves      *)
(* 0 -> 1, 1 -> 2, 1 -> 3, 2 -> 0 and 3 -> 0, whichever thread wakes when. *)
Machine == {<<0, 1>>, <<1, 2>>, <<1, 3>>, <<2, 0>>, <<3, 0>>}

Transitions == [][state' # state => <<state, state'>> \in Machine]_state

(* The machine never stops: every state is entered again and again, so no *)
(* thread sleeps on the condition variable while it is its turn.           *)
StatesRecur == \A s \in Threads : []<>(state = s)

=============================================================================
