\* Linearizability of handle_command against the atomic device, with
\* clients that may close early (SIGPIPE ends the run, not the check).
CONSTANTS
  Clients = {c1, c2}
  Cap = 3
  Commands <- DataCommands
  MaxCmds = 2
  SockBuf = 1
  EagerClose = TRUE
  Stalled = {}
  NoThread = NoThread
  Zero = Zero
  NoArg = NoArg
SPECIFICATION Spec
SYMMETRY MCSymmetry
INVARIANT TypeOK
PROPERTY DeviceRefinement
CHECK_DEADLOCK FALSE
