\* Every command of a client that keeps reading is eventually answered,
\* with every thread scheduled fairly and clients that close only after
\* their last answer; the answers are still those of the atomic device,
\* write-only denial of READ included.
CONSTANTS
  Clients = {c1, c2}
  Cap = 3
  Commands <- LiveCommands
  MaxCmds = 2
  SockBuf = 1
  EagerClose = FALSE
  Stalled = {}
  NoThread = NoThread
  Zero = Zero
  NoArg = NoArg
SPECIFICATION FairSpec
PROPERTY CommandsAnswered DeviceRefinement
CHECK_DEADLOCK FALSE
