------------------------------- MODULE Intro -------------------------------
(***************************************************************************)
(* src/task1/src/intro/intro.c: three threads share `state` and `changed`. *)
(* sense reads a character, and under stateMutex stores it if it is a      *)
(* valid state and, when the state differs from the previous one other    *)
(* than in letter case, sets changed and signals stateCond.  stateOutput   *)
(* first clears changed WITHOUT the mutex (line 104), then loops: wait     *)
(* under the mutex until changed, print the state, clear changed.          *)
(* userInterface draws the state once a second without taking the mutex. *)
(*                                                                         *)
(* Characters are their ASCII codes, so the case flip state ^ ' ' is the   *)
(* XOR with 32 it is in C.  The lock/compute/unlock of sense has no        *)
(* blocking call inside and is one step.                                   *)
(***************************************************************************)
EXTENDS Naturals, Sequences, Bitwise

CONSTANTS Input,        \* character codes the user may type
          MaxReads,     \* bound: characters sense reads
          MaxSpurious   \* bound: spurious wakeups of stateOutput over a run

ASSUME Input \subseteq 0..127 /\ MaxReads \in Nat /\ MaxSpurious \in Nat

Space == 32

(* isRealState, lines 88-99: R/r, N/n, D/d.                                *)
IsRealState(s) == s \in {82, 114, 78, 110, 68, 100}

(* Line 71: the state changed, ignoring the case of the letter.            *)
StateChanged(prev, s) == prev # s /\ prev # (s ^^ Space)

VARIABLES
  state,       \* the global char state
  changed,     \* the global short changed
  owner,       \* holder of stateMutex: "output" or "none"
  prevState,   \* sense's local prevState
  temp,        \* sense's local tempState
  spc,         \* sense's pc: "read" or "update"
  reads,       \* characters read so far
  opc,         \* stateOutput's pc
  signalled,   \* a pthread_cond_signal reached stateOutput while it waited
  printed,     \* the states stateOutput printed, in order
  drawn,       \* the state userInterface drew last
  unreported,  \* history: sense flagged a change not yet printed
  spurious     \* spurious wakeups of stateOutput so far

vars == <<state, changed, owner, prevState, temp, spc, reads, opc, signalled,
          printed, drawn, unreported, spurious>>

(* main, line 25; changed is a zero-initialised global.                    *)
Init ==
  /\ state = 78 /\ changed = 0 /\ owner = "none"
  /\ prevState = Space /\ temp = Space /\ spc = "read" /\ reads = 0
  /\ opc = "init" /\ signalled = FALSE /\ printed = <<>>
  /\ drawn = 0 /\ unreported = FALSE /\ spurious = 0

-----------------------------------------------------------------------------
(* sense, lines 53-85.                                                     *)

(* Lines 58-60: scanf one character, then usleep.                          *)
SenseRead ==
  /\ spc = "read" /\ reads < MaxReads
  /\ temp' \in Input
  /\ reads' = reads + 1
  /\ spc' = "update"
  /\ UNCHANGED <<state, changed, owner, prevState, opc, signalled, printed,
                 drawn, unreported, spurious>>

(* Line 75: the signal wakes stateOutput if it is waiting on stateCond.   *)
Wakes(change, pc) == change /\ pc = "wait"

(* Lines 63-82, under stateMutex: store a valid state; on a change set    *)
(* changed and signal; remember the state.                                 *)
SenseUpdate ==
  LET s == IF IsRealState(temp) THEN temp ELSE state
      change == StateChanged(prevState, s)
  IN
  /\ spc = "update" /\ owner = "none"
  /\ state' = s
  /\ changed' = IF change THEN 1 ELSE changed
  /\ signalled' = (signalled \/ Wakes(change, opc))
  /\ unreported' = (change \/ unreported)
  /\ prevState' = s
  /\ spc' = "read"
  /\ UNCHANGED <<owner, temp, reads, opc, printed, drawn, spurious>>

-----------------------------------------------------------------------------
(* stateOutput, lines 103-131.                                             *)

(* Line 104: changed = FALSE, without the mutex.                           *)
OutputInit ==
  /\ opc = "init"
  /\ changed' = 0
  /\ opc' = "lock"
  /\ UNCHANGED <<state, owner, prevState, temp, spc, reads, signalled,
                 printed, drawn, unreported, spurious>>

(* Line 107.                                                               *)
OutputLock ==
  /\ opc = "lock" /\ owner = "none"
  /\ owner' = "output"
  /\ opc' = "test"
  /\ UNCHANGED <<state, changed, prevState, temp, spc, reads, signalled,
                 printed, drawn, unreported, spurious>>

(* Lines 110-128: if changed, print the state, clear changed and unlock;   *)
(* otherwise wait on stateCond, which unlocks.                             *)
OutputTest ==
  /\ opc = "test"
  /\ IF changed # 0
       THEN /\ printed' = Append(printed, state)
            /\ changed' = 0
            /\ unreported' = FALSE
            /\ opc' = "lock"
       ELSE /\ opc' = "wait"
            /\ UNCHANGED <<printed, changed, unreported>>
  /\ owner' = "none"
  /\ UNCHANGED <<state, prevState, temp, spc, reads, signalled, drawn, spurious>>

(* Line 112: pthread_cond_wait returns, signalled or spuriously (at most   *)
(* MaxSpurious times in a run), with the mutex re-locked; the loop tests   *)
(* changed again.                                                          *)
OutputWake ==
  /\ opc = "wait" /\ owner = "none"
  /\ signalled \/ spurious < MaxSpurious
  /\ spurious' = IF signalled THEN spurious ELSE spurious + 1
  /\ owner' = "output"
  /\ signalled' = FALSE
  /\ opc' = "test"
  /\ UNCHANGED <<state, changed, prevState, temp, spc, reads, printed, drawn,
                 unreported>>

(* A return from pthread_cond_wait caused by a signal.                     *)
OutputSignalled == signalled /\ OutputWake

-----------------------------------------------------------------------------
(* userInterface, lines 134-145: read state without the mutex and draw it. *)
UiDraw ==
  /\ drawn' = state
  /\ UNCHANGED <<state, changed, owner, prevState, temp, spc, reads, opc,
                 signalled, printed, unreported, spurious>>

Sense == SenseRead \/ SenseUpdate
Output == OutputInit \/ OutputLock \/ OutputTest \/ OutputWake

Next == Sense \/ Output \/ UiDraw

Spec == Init /\ [][Next]_vars

(* The threads are scheduled; the user may stop typing; a wait returns    *)
(* when it is signalled and the mutex is free.                             *)
FairSpec ==
  /\ Spec
  /\ WF_vars(SenseUpdate)
  /\ WF_vars(OutputInit) /\ WF_vars(OutputLock) /\ WF_vars(OutputTest)
  /\ WF_vars(OutputSignalled)

-----------------------------------------------------------------------------
TypeOK ==
  /\ state \in Input \cup {78} /\ changed \in {0, 1}
  /\ owner \in {"output", "none"}
  /\ spc \in {"read", "update"} /\ reads \in 0..MaxReads
  /\ opc \in {"init", "lock", "test", "wait"}
  /\ signalled \in BOOLEAN /\ unreported \in BOOLEAN
  /\ spurious \in 0..MaxSpurious

(* Every change sense detects and flags (lines 71-76) is printed by       *)
(* stateOutput afterwards ("stateOutput prints the state change").         *)
ChangeReported == unreported ~> ~unreported

=============================================================================
