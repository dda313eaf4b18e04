------------------------------ MODULE ShmRing ------------------------------
(***************************************************************************)
(* src/task3/src/shm_producer.c and shm_consumer.c: two processes share a  *)
(* ring of BUFFER_SIZE slots in POSIX shared memory, with two named        *)
(* semaphores: sem_prod counts free slots, sem_cons filled ones.           *)
(*                                                                         *)
(* The producer opens the objects with O_CREAT, so it reuses objects that  *)
(* are still linked, keeping their semaphore counts, and then resets head  *)
(* and tail.  On SIGINT/SIGTERM it leaves its loop and unlinks the names;  *)
(* when it is killed it unlinks nothing.  The consumer opens the objects   *)
(* linked when it starts, or exits.  Neither checks sem_wait's result.     *)
(*                                                                         *)
(* Each `struct sigaction action` is uninitialised on the stack, so        *)
(* sa_flags is whatever the stack held: whether SA_RESTART is set, which  *)
(* decides whether a signal makes a blocked sem_wait fail with EINTR or   *)
(* restarts it, is a nondeterministic choice per process start.            *)
(*                                                                         *)
(* An incarnation is one set of kernel objects created under the names;   *)
(* `log` is a history variable: the values written into each incarnation. *)
(***************************************************************************)
EXTENDS Naturals, Sequences, SequencesExt

CONSTANTS N,            \* BUFFER_SIZE
          MaxItems,     \* bound: values one producer run writes
          MaxRestarts,  \* bound: producer restarts
          Signals,      \* TRUE: SIGINT/SIGTERM may reach the processes
          SaRestart,    \* the values the SA_RESTART bit of sa_flags may have
          Kills         \* TRUE: the producer may be killed (SIGKILL) and restarted

ASSUME N \in Nat \ {0} /\ MaxItems \in Nat /\ MaxRestarts \in Nat
ASSUME Signals \in BOOLEAN /\ SaRestart \subseteq BOOLEAN /\ Kills \in BOOLEAN

(* Every producer start may create one incarnation.                        *)
MaxInc == MaxRestarts + 1
Incs == 1..MaxInc

(* Fresh objects: zero-filled memory, sem_prod = BUFFER_SIZE, sem_cons = 0 *)
(* (shm_producer.c lines 31-56).                                           *)
FreshObj == [buf |-> [i \in 0..N-1 |-> 0], head |-> 0, tail |-> 0,
             sp |-> N, sc |-> 0]

VARIABLES
  linked,    \* incarnation the names refer to, 0 when unlinked
  created,   \* incarnations created so far
  objs,      \* per incarnation: ring, head, tail, sem_prod, sem_cons
  log,       \* history: per incarnation, the values written, in order
  ppc, pinc, counter, pdone, prestart, restarts,  \* producer
  cpc, cinc, cdone, crestart, got                 \* consumer

prodVars == <<ppc, pinc, counter, pdone, prestart, restarts>>
consVars == <<cpc, cinc, cdone, crestart, got>>
vars == <<linked, created, objs, log, prodVars, consVars>>

Init ==
  /\ linked = 0 /\ created = 0
  /\ objs = [i \in Incs |-> FreshObj]
  /\ log = [i \in Incs |-> <<>>]
  /\ ppc = "start" /\ pinc = 0 /\ counter = 0 /\ pdone = FALSE
  /\ prestart \in SaRestart /\ restarts = 0
  /\ cpc = "start" /\ cinc = 0 /\ cdone = FALSE /\ crestart \in SaRestart
  /\ got = <<>>

-----------------------------------------------------------------------------
(* Producer.                                                               *)

(* Lines 31-60: open or create the objects, then head = tail = 0.          *)
PStart ==
  LET i == IF linked # 0 THEN linked ELSE created + 1 IN
  /\ ppc = "start"
  /\ created' = IF linked # 0 THEN created ELSE created + 1
  /\ linked' = i
  /\ objs' = [objs EXCEPT ![i].head = 0, ![i].tail = 0]
  /\ pinc' = i /\ counter' = 0
  /\ ppc' = "loop"
  /\ UNCHANGED <<log, pdone, prestart, restarts, consVars>>

(* Line 63: while (!done).                                                 *)
PLoop ==
  /\ ppc = "loop"
  /\ pdone \/ counter < MaxItems
  /\ ppc' = IF pdone THEN "exit" ELSE "semwait"
  /\ UNCHANGED <<linked, created, objs, log, pinc, counter, pdone, prestart,
                 restarts, consVars>>

(* sem_wait and sem_post on a semaphore count.                             *)
Down(v) == v - 1

Up_Missing(v) == v

Up(v) == v + 1

(* The next ring index after i (lines 68 and 61).                         *)
Advance_NoWrap(i) == IF i + 1 < N THEN i + 1 ELSE i

Advance(i) == (i + 1) % N

(* Line 64: sem_wait(sem_prod) returns once a slot is free.                *)
PSemWait ==
  /\ ppc = "semwait" /\ objs[pinc].sp > 0
  /\ objs' = [objs EXCEPT ![pinc].sp = Down(@)]
  /\ ppc' = "write"
  /\ UNCHANGED <<linked, created, log, pinc, counter, pdone, prestart,
                 restarts, consVars>>

(* Lines 66-71: store counter at head, advance head, post sem_cons.        *)
PWrite ==
  /\ ppc = "write"
  /\ objs' = [objs EXCEPT ![pinc].buf[objs[pinc].head] = counter,
                          ![pinc].head = Advance(@),
                          ![pinc].sc = Up(@)]
  /\ log' = [log EXCEPT ![pinc] = Append(@, counter)]
  /\ counter' = counter + 1
  /\ ppc' = "loop"
  /\ UNCHANGED <<linked, created, pinc, pdone, prestart, restarts, consVars>>

(* Lines 76-85: unmap, then shm_unlink and sem_unlink the names.           *)
PExit ==
  /\ ppc = "exit"
  /\ linked' = IF linked = pinc THEN 0 ELSE linked
  /\ ppc' = "exited"
  /\ UNCHANGED <<created, objs, log, pinc, counter, pdone, prestart,
                 restarts, consVars>>

(* term() sets done.  A sem_wait blocked on an empty count fails with      *)
(* EINTR unless SA_RESTART happens to be set, and line 64 ignores it.      *)
PSignal ==
  /\ Signals /\ ~pdone /\ ppc \notin {"start", "exited"}
  /\ pdone' = TRUE
  /\ ppc' = IF ppc = "semwait" /\ objs[pinc].sp = 0 /\ ~prestart
            THEN "write" ELSE ppc
  /\ UNCHANGED <<linked, created, objs, log, pinc, counter, prestart,
                 restarts, consVars>>

(* The producer is started again: after it exited, or, with Kills, killed *)
(* at any point (SIGKILL: nothing unlinked, a taken slot not posted).      *)
PRestart ==
  /\ restarts < MaxRestarts
  /\ ppc = "exited" \/ (Kills /\ ppc # "start")
  /\ ppc' = "start" /\ pdone' = FALSE /\ prestart' \in SaRestart
  /\ restarts' = restarts + 1
  /\ UNCHANGED <<linked, created, objs, log, pinc, counter, consVars>>

-----------------------------------------------------------------------------
(* Consumer.                                                               *)

(* Lines 31-54: open the linked objects, or exit when there are none.      *)
CStart ==
  /\ cpc = "start"
  /\ IF linked # 0 THEN cinc' = linked /\ cpc' = "loop"
                   ELSE cpc' = "exited" /\ UNCHANGED cinc
  /\ UNCHANGED <<linked, created, objs, log, prodVars, cdone, crestart, got>>

(* Line 56: while (!done).                                                 *)
CLoop ==
  /\ cpc = "loop"
  /\ cpc' = IF cdone THEN "exited" ELSE "semwait"
  /\ UNCHANGED <<linked, created, objs, log, prodVars, cinc, cdone, crestart,
                 got>>

(* Line 57: sem_wait(sem_cons) returns once a slot is filled.              *)
CSemWait ==
  /\ cpc = "semwait" /\ objs[cinc].sc > 0
  /\ objs' = [objs EXCEPT ![cinc].sc = Down(@)]
  /\ cpc' = "read"
  /\ UNCHANGED <<linked, created, log, prodVars, cinc, cdone, crestart, got>>

(* Lines 59-63: take the value at tail, advance tail, post sem_prod.       *)
CRead ==
  /\ cpc = "read"
  /\ got' = Append(got, objs[cinc].buf[objs[cinc].tail])
  /\ objs' = [objs EXCEPT ![cinc].tail = Advance(@), ![cinc].sp = Up(@)]
  /\ cpc' = "loop"
  /\ UNCHANGED <<linked, created, log, prodVars, cinc, cdone, crestart>>

(* term() in the consumer, with the same EINTR behaviour at line 57.       *)
CSignal ==
  /\ Signals /\ ~cdone /\ cpc \notin {"start", "exited"}
  /\ cdone' = TRUE
  /\ cpc' = IF cpc = "semwait" /\ objs[cinc].sc = 0 /\ ~crestart
            THEN "read" ELSE cpc
  /\ UNCHANGED <<linked, created, objs, log, prodVars, cinc, crestart, got>>

-----------------------------------------------------------------------------
Producer == PStart \/ PLoop \/ PSemWait \/ PWrite \/ PExit
Consumer == CStart \/ CLoop \/ CSemWait \/ CRead

Next ==
  \/ Producer \/ Consumer
  \/ PSignal \/ CSignal \/ PRestart

Spec == Init /\ [][Next]_vars

(* The scheduler runs both processes; signals and restarts are never      *)
(* forced.                                                                 *)
FairSpec == Spec /\ WF_vars(Producer) /\ WF_vars(Consumer)

-----------------------------------------------------------------------------
TypeOK ==
  /\ linked \in 0..MaxInc /\ created \in 0..MaxInc
  /\ \A i \in Incs :
       /\ objs[i].buf \in [0..N-1 -> 0..MaxItems]
       /\ objs[i].head \in 0..N-1 /\ objs[i].tail \in 0..N-1
       /\ objs[i].sp \in Nat /\ objs[i].sc \in Nat
  /\ ppc \in {"start", "loop", "semwait", "write", "exit", "exited"}
  /\ cpc \in {"start", "loop", "semwait", "read", "exited"}
  /\ pinc \in 0..MaxInc /\ cinc \in 0..MaxInc
  /\ counter \in 0..MaxItems /\ restarts \in 0..MaxRestarts

(* Slots a process holds a token for: taken by sem_wait, not yet posted   *)
(* to the other semaphore.                                                 *)
Held(i) == (IF pinc = i /\ ppc = "write" THEN 1 ELSE 0)
           + (IF cinc = i /\ cpc = "read" THEN 1 ELSE 0)

(* The two semaphores account for every slot: free + filled + held is     *)
(* BUFFER_SIZE in every incarnation (producer 64-71, consumer 57-63).      *)
SlotsConserved == \A i \in Incs : objs[i].sp + objs[i].sc + Held(i) = N

(* The consumer receives exactly the values the producer wrote into its   *)
(* incarnation, in order, none lost or repeated: the ring never lets the  *)
(* producer overwrite an unread slot or the consumer read an unwritten one.*)
ConsumedInOrder == IsPrefix(got, IF cinc = 0 THEN <<>> ELSE log[cinc])

(* Every value written is eventually consumed, unless the consumer has    *)
(* exited.                                                                 *)
Delivered ==
  \A k \in 1..MaxItems :
    (cinc # 0 /\ Len(log[cinc]) >= k) ~> (Len(got) >= k \/ cpc = "exited")

=============================================================================
