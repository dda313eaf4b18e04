------------------------------ MODULE MC_ResMgr ------------------------------
(* Model-checking instance of ResMgr.                                       *)
EXTENDS ResMgr, TLC

(* Raw commands.  "WRITE x\n" carries 2 bytes of data, so on a 3-byte     *)
(* device the second one is truncated.                                      *)
READ == RawCmd("READ", NoArg, TRUE)
WRITE1 == RawCmd("WRITE", 1, TRUE)
CLEAR == RawCmd("CLEAR", NoArg, TRUE)
SETPERM(t) == RawCmd("SETPERM", t, TRUE)

(* Commands that change the content and the permission of the device.      *)
DataCommands == {READ, WRITE1, CLEAR, SETPERM("ro"), SETPERM("rw")}

(* For liveness: a READ holds the lock across its write(); write-only makes *)
(* the next READ take the denied path.                                      *)
LiveCommands == {READ, WRITE1, SETPERM("wo")}


MCSymmetry == Permutations(Clients)
==============================================================================
