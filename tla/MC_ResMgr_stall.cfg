\* spec.md 5: a client that stops reading must not block the others.
CONSTANTS
  Clients = {c1, c2}
  Cap = 3
  MaxCmds = 2
  SockBuf = 1
  NoThread = NoThread
  Zero = Zero
  NoArg = NoArg
  Commands <- LiveCommands
  EagerClose = FALSE
  Stalled = {c1}
SPECIFICATION FairSpec
PROPERTY CommandsAnswered
CHECK_DEADLOCK FALSE
