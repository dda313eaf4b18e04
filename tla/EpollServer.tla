---------------------------- MODULE EpollServer ----------------------------
(***************************************************************************)
(* src/task3/src/epoll_server.c: one thread waits in epoll_wait on the     *)
(* listening UNIX socket and an eventfd (both level-triggered) and on      *)
(* every accepted client socket (edge-triggered, EPOLLIN | EPOLLET), and   *)
(* handles the ready descriptors one after the other.  For a client it     *)
(* calls read once with a READ_BUFFER_SIZE buffer and echoes what it read. *)
(*                                                                         *)
(* Bytes are counted, not kept: a client's socket holds inbuf[c] unread    *)
(* bytes, and ReadBufferSize stands for READ_BUFFER_SIZE in the same       *)
(* unit.  An edge-triggered registration is the flag edge[c]: the kernel  *)
(* sets it on each arrival of data or of the peer's close, epoll_wait      *)
(* reports and clears it.                                                  *)
(***************************************************************************)
EXTENDS Naturals, FiniteSets

CONSTANTS Clients,         \* the peers (socat in the file's closing comment)
          ReadBufferSize,  \* READ_BUFFER_SIZE
          Chunks,          \* the sizes of one write by a client
          MaxSent          \* bound: bytes one client writes in all

ASSUME ReadBufferSize \in Nat \ {0} /\ Chunks \subseteq Nat \ {0}
       /\ MaxSent \in Nat

Listener == "server_fd"
EventFd == "event_fd"

VARIABLES
  conn,        \* per client: "idle", "backlog" (connected, not accepted),
               \* "open" (accepted, in the epoll set), "closed" (fd closed)
  peerClosed,  \* per client: the peer has closed its end
  inbuf,       \* per client: bytes in the server side's receive queue
  sent,        \* per client: bytes written so far
  edge,        \* per client: an edge-triggered event is pending
  counter,     \* the eventfd counter is non-zero
  batch,       \* the descriptors the last epoll_wait returned, not yet handled
  spc          \* the server: "wait", "dispatch" or "dead" (killed by SIGPIPE)

vars == <<conn, peerClosed, inbuf, sent, edge, counter, batch, spc>>

(* Lines 40-76: the socket, listen, epoll_create1 and eventfd calls all    *)
(* succeeded (each failure exits) and both descriptors are registered.     *)
Init ==
  /\ conn = [c \in Clients |-> "idle"]
  /\ peerClosed = [c \in Clients |-> FALSE]
  /\ inbuf = [c \in Clients |-> 0] /\ sent = [c \in Clients |-> 0]
  /\ edge = [c \in Clients |-> FALSE]
  /\ counter = FALSE /\ batch = {} /\ spc = "wait"

(* What the server's read(client_fd) can find: data, or end of file.       *)
Readable(c) == inbuf[c] > 0 \/ peerClosed[c]

-----------------------------------------------------------------------------
(* The server.                                                             *)

(* Lines 78-82: epoll_wait blocks until a descriptor is ready; the         *)
(* level-triggered ones are ready while they are, a client only on an     *)
(* edge, which the report consumes.  With at most MAX_EVENTS (10)          *)
(* descriptors every ready one is returned.                                *)
EpollWait ==
  /\ spc = "wait"
  /\ LET ready == (IF \E c \in Clients : conn[c] = "backlog"
                      THEN {Listener} ELSE {})
                  \cup (IF counter THEN {EventFd} ELSE {})
                  \cup {c \in Clients : conn[c] = "open" /\ edge[c]}
     IN /\ ready # {}
        /\ batch' = ready
        /\ edge' = [c \in Clients |-> edge[c] /\ c \notin ready]
  /\ spc' = "dispatch"
  /\ UNCHANGED <<conn, peerClosed, inbuf, sent, counter>>

(* After handling one descriptor: back to epoll_wait when it was the last. *)
Handled(x) ==
  /\ batch' = batch \ {x}
  /\ spc' = IF batch' = {} THEN "wait" ELSE "dispatch"

(* add_to_epoll, lines 25-33: EPOLL_CTL_ADD polls the new descriptor and  *)
(* queues an event at once when it is already readable.                   *)
AddToEpoll(c) == Readable(c)

(* Lines 85-93: accept4 one pending connection and register it with        *)
(* EPOLLIN | EPOLLET.  A failing accept4 only prints (lines 88-91).        *)
Accept ==
  /\ spc = "dispatch" /\ Listener \in batch
  /\ \/ \E c \in Clients :
          /\ conn[c] = "backlog"
          /\ conn' = [conn EXCEPT ![c] = "open"]
          /\ edge' = [edge EXCEPT ![c] = AddToEpoll(c)]
     \/ UNCHANGED <<conn, edge>>
  /\ Handled(Listener)
  /\ UNCHANGED <<peerClosed, inbuf, sent, counter>>

(* Lines 95-99: read(event_fd) resets the counter.                         *)
Internal ==
  /\ spc = "dispatch" /\ EventFd \in batch
  /\ counter' = FALSE
  /\ Handled(EventFd)
  /\ UNCHANGED <<conn, peerClosed, inbuf, sent, edge>>

(* Lines 101-124: one read of at most ReadBufferSize bytes.  Nothing to    *)
(* read gives EAGAIN (ignored) or, once the peer has closed, 0 (or         *)
(* ECONNRESET): the fd is closed.  Data is echoed by write, which kills    *)
(* the process with SIGPIPE when the peer has closed.                      *)
ReadClient(c) ==
  /\ spc = "dispatch" /\ c \in batch
  /\ LET n == IF inbuf[c] < ReadBufferSize THEN inbuf[c] ELSE ReadBufferSize
     IN \/ /\ n = 0 /\ ~peerClosed[c]
           /\ Handled(c) /\ UNCHANGED <<conn, inbuf>>
        \/ /\ n = 0 /\ peerClosed[c]
           /\ conn' = [conn EXCEPT ![c] = "closed"]
           /\ Handled(c) /\ UNCHANGED inbuf
        \/ /\ n > 0
           /\ inbuf' = [inbuf EXCEPT ![c] = @ - n]
           /\ IF peerClosed[c]
                THEN spc' = "dead" /\ UNCHANGED batch
                ELSE Handled(c)
           /\ UNCHANGED conn
  /\ UNCHANGED <<peerClosed, sent, edge, counter>>

-----------------------------------------------------------------------------
(* The environment.                                                        *)

(* connect: the connection waits in the listen backlog.                    *)
Connect(c) ==
  /\ conn[c] = "idle"
  /\ conn' = [conn EXCEPT ![c] = "backlog"]
  /\ UNCHANGED <<peerClosed, inbuf, sent, edge, counter, batch, spc>>

(* The client writes k bytes: a new edge on its socket.                    *)
Send(c, k) ==
  /\ conn[c] \in {"backlog", "open"} /\ ~peerClosed[c]
  /\ sent[c] + k <= MaxSent
  /\ inbuf' = [inbuf EXCEPT ![c] = @ + k]
  /\ sent' = [sent EXCEPT ![c] = @ + k]
  /\ edge' = [edge EXCEPT ![c] = TRUE]
  /\ UNCHANGED <<conn, peerClosed, counter, batch, spc>>

(* The client closes its socket (Ctrl+C in socat): also an edge.           *)
PeerClose(c) ==
  /\ conn[c] \in {"backlog", "open"} /\ ~peerClosed[c]
  /\ peerClosed' = [peerClosed EXCEPT ![c] = TRUE]
  /\ edge' = [edge EXCEPT ![c] = TRUE]
  /\ UNCHANGED <<conn, inbuf, sent, counter, batch, spc>>

(* echo 1 > /proc/<pid>/fd/<event_fd> (lines 70-71).                       *)
Notify ==
  /\ counter' = TRUE
  /\ UNCHANGED <<conn, peerClosed, inbuf, sent, edge, batch, spc>>

Next ==
  \/ EpollWait \/ Accept \/ Internal \/ \E c \in Clients : ReadClient(c)
  \/ Notify
  \/ \E c \in Clients : Connect(c) \/ PeerClose(c) \/ \E k \in Chunks : Send(c, k)

Spec == Init /\ [][Next]_vars

-----------------------------------------------------------------------------
TypeOK ==
  /\ conn \in [Clients -> {"idle", "backlog", "open", "closed"}]
  /\ peerClosed \in [Clients -> BOOLEAN] /\ edge \in [Clients -> BOOLEAN]
  /\ inbuf \in [Clients -> 0..MaxSent] /\ sent \in [Clients -> 0..MaxSent]
  /\ counter \in BOOLEAN /\ batch \subseteq Clients \cup {Listener, EventFd}
  /\ spc \in {"wait", "dispatch", "dead"}

(* The comment of line 108: in edge-triggered mode the server reads until  *)
(* EWOULDBLOCK, so whenever it blocks in epoll_wait no accepted client has *)
(* data or an end of file left unread without a pending edge to report it. *)
NothingStranded ==
  spc = "wait" =>
    \A c \in Clients : conn[c] = "open" /\ Readable(c) => edge[c]

=============================================================================
