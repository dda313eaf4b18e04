\* spec.md 4.2/7: a client that disconnects must not affect the others.
CONSTANTS
  Clients = {c1, c2}
  Cap = 3
  MaxCmds = 2
  SockBuf = 1
  NoThread = NoThread
  Zero = Zero
  NoArg = NoArg
  Commands <- LiveCommands
  EagerClose = TRUE
  Stalled = {}
SPECIFICATION Spec
INVARIANT PeerCloseIsolated
CHECK_DEADLOCK FALSE
