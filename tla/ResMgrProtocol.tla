--------------------------- MODULE ResMgrProtocol ---------------------------
(***************************************************************************)
(* The command language of resmgr.c, shared by the detailed model ResMgr  *)
(* and the abstract device DeviceSpec: the permission and flag values and *)
(* how handle_command classifies the text one recv() returned.            *)
(***************************************************************************)
EXTENDS Naturals

CONSTANT NoArg   \* argument of a verb that is not followed by a space

ASSUME NoArg \notin Nat

(* Permission and flag values, as #defined in resmgr.c lines 19-26.        *)
PERM_RW == 0
PERM_RO == 1
PERM_WO == 2
DEV_OPEN == 1
DEV_BUSY == 2
DEV_ERROR == 4

(***************************************************************************)
(* A raw command is what one recv() returns: a verb, an argument and       *)
(* whether the client ended it with a newline.  arg is NoArg when the      *)
(* verb is not followed by a space; for WRITE it is the payload length,    *)
(* for SETPERM the two characters that follow "SETPERM ".                  *)
(***************************************************************************)
RawCmd(v, a, nl) == [verb |-> v, arg |-> a, nl |-> nl]

(***************************************************************************)
(* Parse models the strncmp/strcmp cascade of handle_command: "READ",      *)
(* "WRITE " and "SETPERM " match a prefix, INFO and CLEAR only the exact   *)
(* lines "INFO\n" and "CLEAR\n".  The WRITE data is cmd + 6, so its length *)
(* counts the newline.                                                     *)
(***************************************************************************)
Parse(r) ==
  CASE r.verb = "READ" -> [op |-> "READ"]
    [] r.verb = "WRITE" /\ r.arg # NoArg ->
         [op |-> "WRITE", len |-> r.arg + (IF r.nl THEN 1 ELSE 0)]
    [] r.verb \in {"INFO", "CLEAR"} /\ r.arg = NoArg /\ r.nl -> [op |-> r.verb]
    [] r.verb = "SETPERM" /\ r.arg # NoArg -> [op |-> "SETPERM", tok |-> r.arg]
    [] OTHER -> [op |-> "UNKNOWN"]

(* The two-letter SETPERM tokens (lines 216-218).                          *)
PermOfToken == [rw |-> PERM_RW, ro |-> PERM_RO, wo |-> PERM_WO]

(* A response: its kind (which literal or format) and its value.          *)
Reply(k, v) == [kind |-> k, val |-> v]

=============================================================================
