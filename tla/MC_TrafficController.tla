------------------------ MODULE MC_TrafficController ------------------------
EXTENDS TrafficController

(* Zero, a valid fraction of a second, and two values timer_settime        *)
(* rejects (10^9 and a negative one).                                      *)
MCGarbage == {0, 500000000, 1000000000, -1}

=============================================================================
