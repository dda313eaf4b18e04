\* Two clients, a read buffer of 2 bytes standing for READ_BUFFER_SIZE,
\* writes of 1 to 3 bytes, at most 3 bytes per client.
CONSTANTS
  Clients = {c1, c2}
  ReadBufferSize = 2
  Chunks = {1, 3}
  MaxSent = 3
SPECIFICATION Spec
INVARIANT NothingStranded
CHECK_DEADLOCK FALSE
