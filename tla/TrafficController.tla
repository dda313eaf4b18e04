------------------------- MODULE TrafficController -------------------------
(***************************************************************************)
(* src/task7/src/traffic_controller.c with common.h: main installs the     *)
(* SIGRTMIN handler, creates a POSIX timer and starts the controller       *)
(* thread (the input thread's pthread_create is commented out).  The       *)
(* controller publishes next_state as current_state under the mutex,      *)
(* clears timer_expired, chooses the duration and the next state in the   *)
(* switch, arms the one-shot timer and busy-waits until the handler sets  *)
(* timer_expired.                                                          *)
(*                                                                         *)
(* Only STATE_NS_GREEN has a case; every other state takes the default,   *)
(* which sets its.it_value.tv_sec but never tv_nsec.  `its` is an          *)
(* uninitialised local, so tv_nsec holds whatever the stack slot held: the *)
(* constant Garbage is the set of values it may hold, and the slot is not *)
(* written between iterations, so one value is chosen for the run.         *)
(***************************************************************************)
EXTENDS Integers

CONSTANTS Garbage   \* possible contents of the uninitialised tv_nsec

ASSUME Garbage \subseteq Int

(* TrafficState of common.h lines 7-16.                                    *)
TrafficStates == {"INIT", "NS_GREEN", "NS_YELLOW", "EW_GREEN", "EW_YELLOW",
                  "ALL_RED", "PED_CROSS", "EMERGENCY"}

(* timer_settime fails with EINVAL unless 0 <= tv_nsec < 10^9.             *)
NsecPerSec == 1000000000
ValidNsec(ns) == 0 <= ns /\ ns < NsecPerSec

VARIABLES
  mpc,           \* main: "start", "join", "exit"
  cpc,           \* controller: "idle" (not started), "publish", "arm", "spin"
  currentState,  \* shared_data.current_state
  nextState,     \* the controller's next_state
  garbage,       \* the stale value in its.it_value.tv_nsec
  timerExpired,  \* timer_expired
  armed          \* the POSIX timer is armed

vars == <<mpc, cpc, currentState, nextState, garbage, timerExpired, armed>>

(* Lines 11-13 and 38: globals zeroed (current_state = STATE_INIT).        *)
Init ==
  /\ mpc = "start" /\ cpc = "idle"
  /\ currentState = "INIT" /\ nextState = "ALL_RED"
  /\ garbage \in Garbage
  /\ timerExpired = 0 /\ armed = FALSE

(* The switch of lines 50-65: the value tv_nsec has, and the next state.   *)
ItsNsec(s) == IF s = "NS_GREEN" THEN 0 ELSE garbage

NextOf(s) == IF s = "NS_GREEN" THEN "NS_YELLOW" ELSE "ALL_RED"

(* main, lines 92-119: mutex, sigaction and timer_create; on failure it    *)
(* returns 1, otherwise it starts the controller and joins it.             *)
Start ==
  /\ mpc = "start"
  /\ \/ mpc' = "exit" /\ UNCHANGED cpc
     \/ mpc' = "join" /\ cpc' = "publish"
  /\ UNCHANGED <<currentState, nextState, garbage, timerExpired, armed>>

(* Lines 41-44: current_state = next_state under the mutex, printed.       *)
Publish ==
  /\ cpc = "publish"
  /\ currentState' = nextState
  /\ cpc' = "arm"
  /\ UNCHANGED <<mpc, nextState, garbage, timerExpired, armed>>

(* Lines 46-70: timer_expired = 0, the switch, timer_settime; its result   *)
(* is not checked, and an invalid tv_nsec leaves the timer disarmed.       *)
Arm ==
  /\ cpc = "arm"
  /\ timerExpired' = 0
  /\ nextState' = NextOf(currentState)
  /\ armed' = ValidNsec(ItsNsec(currentState))
  /\ cpc' = "spin"
  /\ UNCHANGED <<mpc, currentState, garbage>>

(* Lines 73-76: the usleep loop ends once timer_expired is set.            *)
Spin ==
  /\ cpc = "spin" /\ timerExpired # 0
  /\ cpc' = "publish"
  /\ UNCHANGED <<mpc, currentState, nextState, garbage, timerExpired, armed>>

(* The one-shot timer fires: SIGRTMIN runs timer_handler (lines 16-18).    *)
Expire ==
  /\ armed
  /\ armed' = FALSE /\ timerExpired' = 1
  /\ UNCHANGED <<mpc, cpc, currentState, nextState, garbage>>

Next == Start \/ Publish \/ Arm \/ Spin \/ Expire

Spec == Init /\ [][Next]_vars

(* The threads are scheduled and an armed timer fires.                     *)
FairSpec ==
  /\ Spec
  /\ WF_vars(Start) /\ WF_vars(Publish) /\ WF_vars(Arm) /\ WF_vars(Spin)
  /\ WF_vars(Expire)

-----------------------------------------------------------------------------
TypeOK ==
  /\ mpc \in {"start", "join", "exit"}
  /\ cpc \in {"idle", "publish", "arm", "spin"}
  /\ currentState \in TrafficStates /\ nextState \in TrafficStates
  /\ garbage \in Garbage /\ timerExpired \in {0, 1} /\ armed \in BOOLEAN

(* Lines 62 and 72: the default case waits a "safe default delay" of one  *)
(* second; every wait for the timer ends and the controller goes on to    *)
(* publish the next state.                                                 *)
WaitEnds == cpc = "spin" ~> cpc = "publish"

=============================================================================
