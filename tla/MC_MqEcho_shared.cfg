\* Two clients run at the same time against one server that is never
\* killed; both share the queue named CLIENT_QUEUE_NAME.  The server
\* blocks in mq_receive for ever once the clients are gone, so a state
\* with no successor is not an error.
CONSTANTS
  Clients = {c1, c2}
  MaxStarts = 1
  NoQueue = NoQueue
SPECIFICATION FairSpec
PROPERTY ClientsFinish
CHECK_DEADLOCK FALSE
