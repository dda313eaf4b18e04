------------------------------- MODULE ResMgr -------------------------------
(***************************************************************************)
(* The resource manager of src/task1/src/resource_manager/resmgr.c.        *)
(*                                                                         *)
(* main() accepts connections on a UNIX stream socket and starts one       *)
(* detached client_thread per connection.  Every thread shares one device  *)
(* (buffer, size, flags, permissions) guarded by dev.lock.  A thread sets  *)
(* OPEN|BUSY, then loops: recv() one chunk, handle_command() it, which     *)
(* takes the lock, reads or changes the device and write()s a response.   *)
(* On EOF it clears BUSY and closes the socket.  SIGINT/SIGTERM, a failed  *)
(* accept() and a SIGPIPE (write to a closed peer, never ignored) end the  *)
(* whole process.                                                          *)
(*                                                                         *)
(* The clients are the environment: they connect, send raw commands, read  *)
(* responses and close.  Data is abstracted: a WRITE of n bytes by client  *)
(* c writes n copies of c, so a READ shows who wrote which byte.           *)
(***************************************************************************)
EXTENDS Naturals, Sequences, FiniteSets, Bitwise, ResMgrProtocol

CONSTANTS Clients,    \* the client connections (model values)
          Cap,        \* DEVICE_BUF_SIZE
          Commands,   \* the raw command texts a client may send
          MaxCmds,    \* bound: commands one client sends over its connection
          SockBuf,    \* bound: unread responses a socket holds before write() blocks
          EagerClose, \* TRUE: a client may close with commands still unanswered
          Stalled,    \* clients that may stop reading their responses
          NoThread,   \* lock owner when dev.lock is free
          Zero        \* the byte value of the zero-initialised static buffer

ASSUME /\ Cap \in Nat \ {0}
       /\ MaxCmds \in Nat /\ SockBuf \in Nat \ {0}
       /\ EagerClose \in BOOLEAN /\ Stalled \subseteq Clients
       /\ NoThread \notin Clients /\ Zero \notin Clients

(* The session's program counter in client_thread / handle_command.        *)
SessionPcs == {"none", "open", "recv", "exec", "send", "sendlocked",
               "close", "done", "refused"}

VARIABLES
  buffer,     \* dev.buffer, 1..Cap -> Clients \cup {Zero}
  size,       \* dev.size
  flags,      \* dev.flags
  perm,       \* dev.permissions
  lock,       \* owner of dev.lock
  spc,        \* per client: pc of the server thread serving it
  cmd,        \* per client: the command the thread received last
  resp,       \* per client: the response handle_command is about to write
  cstate,     \* per client: "idle", "connected" or "closed"
  toSrv,      \* per client: bytes sent by the client and not yet recv()ed
  fromSrv,    \* per client: every response written to its socket, in order
  nread,      \* per client: how many of fromSrv the client has read
  sent,       \* per client: how many commands it has sent
  exitCause   \* "none" while the process runs, else why it ended

vars == <<buffer, size, flags, perm, lock, spc, cmd, resp, cstate, toSrv,
          fromSrv, nread, sent, exitCause>>
devVars == <<buffer, size, flags, perm>>
clientVars == <<cstate, toSrv, nread, sent>>

Running == exitCause = "none"

(* The first `size` bytes of the buffer: what READ writes to the socket.   *)
Content(buf, sz) == [i \in 1..sz |-> buf[i]]

NoCmd == RawCmd("", NoArg, FALSE)
NoReply == Reply("none", 0)

(* flags & ~b for a non-negative flag word.                               *)
ClearBits(f, b) == f - (f & b)

-----------------------------------------------------------------------------
Init ==
  /\ buffer = [i \in 1..Cap |-> Zero]
  /\ size = 0
  /\ flags = 0
  /\ perm = PERM_RW
  /\ lock = NoThread
  /\ spc = [c \in Clients |-> "none"]
  /\ cmd = [c \in Clients |-> NoCmd]
  /\ resp = [c \in Clients |-> NoReply]
  /\ cstate = [c \in Clients |-> "idle"]
  /\ toSrv = [c \in Clients |-> <<>>]
  /\ fromSrv = [c \in Clients |-> <<>>]
  /\ nread = [c \in Clients |-> 0]
  /\ sent = [c \in Clients |-> 0]
  /\ exitCause = "none"

-----------------------------------------------------------------------------
(* Listener: main() lines 93-115.                                          *)

(* accept() returns a connection and pthread_create starts client_thread.  *)
Accept(c) ==
  /\ Running
  /\ cstate[c] # "idle" /\ spc[c] = "none"
  /\ spc' = [spc EXCEPT ![c] = "open"]
  /\ UNCHANGED <<devVars, lock, cmd, resp, fromSrv, clientVars, exitCause>>

(* pthread_create fails: the connection is closed and the loop goes on.    *)
ThreadCreateFail(c) ==
  /\ Running
  /\ cstate[c] # "idle" /\ spc[c] = "none"
  /\ spc' = [spc EXCEPT ![c] = "refused"]
  /\ UNCHANGED <<devVars, lock, cmd, resp, fromSrv, clientVars, exitCause>>

(* accept() fails with an errno other than EINTR (EMFILE, ECONNABORTED..): *)
(* the loop breaks, main() returns and the process exits with every        *)
(* detached client_thread.  EINTR is a retry and changes nothing.          *)
AcceptFail ==
  /\ Running
  /\ exitCause' = "acceptfail"
  /\ UNCHANGED <<devVars, lock, spc, cmd, resp, fromSrv, clientVars>>

(* on_signal: SIGINT or SIGTERM closes the socket and calls _exit(0).     *)
OnSignal ==
  /\ Running
  /\ exitCause' = "signal"
  /\ UNCHANGED <<devVars, lock, spc, cmd, resp, fromSrv, clientVars>>

-----------------------------------------------------------------------------
(* client_thread, lines 123-151.                                           *)

(* Lines 129-131: under the lock, flags |= DEV_OPEN | DEV_BUSY.            *)
SessionOpen(c) ==
  /\ Running
  /\ spc[c] = "open" /\ lock = NoThread
  /\ flags' = flags | (DEV_OPEN + DEV_BUSY)
  /\ spc' = [spc EXCEPT ![c] = "recv"]
  /\ UNCHANGED <<buffer, size, perm, lock, cmd, resp, fromSrv, clientVars,
                 exitCause>>

(* Lines 135-138: recv() returns the next command the client sent, or 0   *)
(* once the client has closed and everything it sent has been read.       *)
Recv(c) ==
  /\ Running
  /\ spc[c] = "recv"
  /\ \/ /\ toSrv[c] # <<>>
        /\ cmd' = [cmd EXCEPT ![c] = Head(toSrv[c])]
        /\ toSrv' = [toSrv EXCEPT ![c] = Tail(toSrv[c])]
        /\ spc' = [spc EXCEPT ![c] = "exec"]
     \/ /\ toSrv[c] = <<>> /\ cstate[c] = "closed"
        /\ spc' = [spc EXCEPT ![c] = "close"]
        /\ UNCHANGED <<cmd, toSrv>>
  /\ UNCHANGED <<devVars, lock, resp, fromSrv, cstate, nread, sent, exitCause>>

(* The permission checks of lines 160, 176 and 203.                        *)
Denied_ClearUnchecked(op, pm) ==
  \/ op = "READ" /\ pm = PERM_WO
  \/ op = "WRITE" /\ pm = PERM_RO

Denied_ReadUnchecked(op, pm) ==
  op \in {"WRITE", "CLEAR"} /\ pm = PERM_RO

Denied(op, pm) ==
  \/ op = "READ" /\ pm = PERM_WO
  \/ op \in {"WRITE", "CLEAR"} /\ pm = PERM_RO

(* Line 183: how many of len bytes a WRITE stores when size is sz.         *)
Written_Untruncated(len, sz) == len

Written(len, sz) == IF len + sz > Cap THEN Cap - sz ELSE len

(***************************************************************************)
(* handle_command, lines 153-230, up to the write() of its response.  The  *)
(* lock is taken, the device read or changed and the lock released in one *)
(* step: nothing else touches the device while the lock is held.  The one *)
(* exception is a permitted READ, which write()s the buffer before it     *)
(* unlocks (lines 165-170): it keeps the lock into the "sendlocked" step.  *)
(* An unknown command never takes the lock (line 229).                     *)
(***************************************************************************)
HandleCommand(c) ==
  LET p == Parse(cmd[c])
      Answer(r) == /\ resp' = [resp EXCEPT ![c] = r]
                   /\ spc' = [spc EXCEPT ![c] = "send"]
  IN
  /\ Running
  /\ spc[c] = "exec"
  /\ p.op # "UNKNOWN" => lock = NoThread
  /\ CASE Denied(p.op, perm) ->
            Answer(Reply("denied", 0)) /\ UNCHANGED <<devVars, lock>>
       [] p.op = "READ" ->
            /\ resp' = [resp EXCEPT ![c] =
                          IF size > 0 THEN Reply("data", Content(buffer, size))
                          ELSE Reply("empty", 0)]
            /\ lock' = c
            /\ spc' = [spc EXCEPT ![c] = "sendlocked"]
            /\ UNCHANGED devVars
       [] p.op = "WRITE" ->
            LET n == Written(p.len, size) IN
            /\ buffer' = [i \in 1..Cap |->
                            IF size < i /\ i <= size + n THEN c ELSE buffer[i]]
            /\ size' = size + n
            /\ Answer(Reply("ok", n))
            /\ UNCHANGED <<flags, perm, lock>>
       [] p.op = "INFO" ->
            Answer(Reply("info", <<size, flags, perm>>)) /\ UNCHANGED <<devVars, lock>>
       [] p.op = "CLEAR" ->
            /\ size' = 0
            /\ Answer(Reply("cleared", 0))
            /\ UNCHANGED <<buffer, flags, perm, lock>>
       [] p.op = "SETPERM" /\ p.tok \in DOMAIN PermOfToken ->
            /\ perm' = PermOfToken[p.tok]
            /\ Answer(Reply("permset", 0))
            /\ UNCHANGED <<buffer, size, flags, lock>>
       [] p.op = "SETPERM" ->
            Answer(Reply("unknownperm", 0)) /\ UNCHANGED <<devVars, lock>>
       [] OTHER ->
            Answer(Reply("unknowncmd", 0)) /\ UNCHANGED <<devVars, lock>>
  /\ UNCHANGED <<cmd, fromSrv, clientVars, exitCause>>

(* Who holds dev.lock once the response of a session at pc has been       *)
(* written: a READ unlocks after its write() (line 170).                   *)
LockAfterWrite_Kept(pc, l) == l

LockAfterWrite(pc, l) == IF pc = "sendlocked" THEN NoThread ELSE l

(***************************************************************************)
(* The write() of the response.  It blocks while the peer's socket buffer *)
(* is full.  To a peer that has closed it raises SIGPIPE, whose default   *)
(* action ends the process (install_signals never ignores it).  The       *)
(* thread then returns to recv(); buf and resp are dead until the next    *)
(* command and are reset.                                                  *)
(***************************************************************************)
WriteResponse(c) ==
  /\ Running
  /\ spc[c] \in {"send", "sendlocked"}
  /\ \/ /\ cstate[c] = "closed"
        /\ exitCause' = "sigpipe"
        /\ UNCHANGED <<lock, spc, cmd, resp, fromSrv>>
     \/ /\ cstate[c] = "connected"
        /\ Len(fromSrv[c]) - nread[c] < SockBuf
        /\ fromSrv' = [fromSrv EXCEPT ![c] = Append(fromSrv[c], resp[c])]
        /\ lock' = LockAfterWrite(spc[c], lock)
        /\ spc' = [spc EXCEPT ![c] = "recv"]
        /\ cmd' = [cmd EXCEPT ![c] = NoCmd]
        /\ resp' = [resp EXCEPT ![c] = NoReply]
        /\ UNCHANGED exitCause
  /\ UNCHANGED <<devVars, clientVars>>

(* Lines 143-147: under the lock, flags &= ~DEV_BUSY; then close(fd).      *)
SessionClose(c) ==
  /\ Running
  /\ spc[c] = "close" /\ lock = NoThread
  /\ flags' = ClearBits(flags, DEV_BUSY)
  /\ spc' = [spc EXCEPT ![c] = "done"]
  /\ UNCHANGED <<buffer, size, perm, lock, cmd, resp, fromSrv, clientVars,
                 exitCause>>

-----------------------------------------------------------------------------
(* The clients (environment), after client.c: connect, send, recv, close. *)

ClientConnect(c) ==
  /\ Running
  /\ cstate[c] = "idle"
  /\ cstate' = [cstate EXCEPT ![c] = "connected"]
  /\ UNCHANGED <<devVars, lock, spc, cmd, resp, fromSrv, toSrv, nread, sent,
                 exitCause>>

(* A client sends a command, also before its connection is accepted.      *)
ClientSend(c) ==
  /\ Running
  /\ cstate[c] = "connected" /\ sent[c] < MaxCmds
  /\ spc[c] \notin {"done", "refused"}
  /\ \E r \in Commands :
       toSrv' = [toSrv EXCEPT ![c] = Append(toSrv[c], r)]
  /\ sent' = [sent EXCEPT ![c] = sent[c] + 1]
  /\ UNCHANGED <<devVars, lock, spc, cmd, resp, fromSrv, cstate, nread,
                 exitCause>>

ClientRecv(c) ==
  /\ Running
  /\ cstate[c] = "connected" /\ nread[c] < Len(fromSrv[c])
  /\ nread' = [nread EXCEPT ![c] = nread[c] + 1]
  /\ UNCHANGED <<devVars, lock, spc, cmd, resp, fromSrv, cstate, toSrv, sent,
                 exitCause>>

(* A client closes once it has read an answer to every command it sent,   *)
(* or once the server closed its side; an eager client closes any time.   *)
ClientClose(c) ==
  /\ Running
  /\ cstate[c] = "connected"
  /\ \/ EagerClose
     \/ spc[c] \in {"done", "refused"}
     \/ nread[c] = sent[c]
  /\ cstate' = [cstate EXCEPT ![c] = "closed"]
  /\ UNCHANGED <<devVars, lock, spc, cmd, resp, fromSrv, toSrv, nread, sent,
                 exitCause>>

-----------------------------------------------------------------------------
Session(c) ==
  \/ SessionOpen(c) \/ Recv(c) \/ HandleCommand(c) \/ WriteResponse(c)
  \/ SessionClose(c)

Client(c) ==
  \/ ClientConnect(c) \/ ClientSend(c) \/ ClientRecv(c) \/ ClientClose(c)

Next ==
  \/ \E c \in Clients : Accept(c) \/ ThreadCreateFail(c)
  \/ AcceptFail \/ OnSignal
  \/ \E c \in Clients : Session(c) \/ Client(c)

Spec == Init /\ [][Next]_vars

(***************************************************************************)
(* Fairness.  Every client_thread is scheduled.  Where it waits for        *)
(* dev.lock, other threads take and release the lock intermittently, so    *)
(* the thread's step is only intermittently enabled and it needs strong    *)
(* fairness (a waiter on a pthread mutex is not passed over forever while  *)
(* the lock keeps coming free).  At every pc exactly one step of a thread  *)
(* can be enabled, so strong fairness of Session(c) is strong fairness of  *)
(* each of its steps.  The listener accepts pending connections; clients   *)
(* outside Stalled keep reading their responses.  Neither a signal, a      *)
(* failing accept() nor a failing pthread_create is ever forced.           *)
(***************************************************************************)
FairSpec ==
  /\ Spec
  /\ \A c \in Clients : WF_vars(Accept(c)) /\ SF_vars(Session(c))
  /\ \A c \in Clients \ Stalled : WF_vars(ClientRecv(c))

-----------------------------------------------------------------------------
(***************************************************************************)
(* Refinement mapping onto DeviceSpec.  The abstract queue of a client is *)
(* the command its thread has received and not yet executed, followed by  *)
(* what is still in the socket; its abstract answers are the responses    *)
(* written, followed by the one computed and not yet written.  An INFO    *)
(* answer is compared without the flags, which DeviceSpec does not know.  *)
(***************************************************************************)
AbsReply(r) ==
  IF r.kind = "info" THEN Reply("info", <<r.val[1], r.val[3]>>) ELSE r

ReceivedCmd(c) == IF spc[c] = "exec" THEN <<cmd[c]>> ELSE <<>>

UnwrittenReply(c) == IF spc[c] \in {"send", "sendlocked"} THEN <<resp[c]>> ELSE <<>>

AbsAnswers(c) ==
  LET all == fromSrv[c] \o UnwrittenReply(c)
  IN [i \in 1..Len(all) |-> AbsReply(all[i])]

Dev == INSTANCE DeviceSpec
         WITH content <- Content(buffer, size),
              queue <- [c \in Clients |-> ReceivedCmd(c) \o toSrv[c]],
              answers <- [c \in Clients |-> AbsAnswers(c)]

(* Commands are linearizable: whatever the interleaving of the threads,    *)
(* the answers every client gets and the device contents are those of the *)
(* atomic device of spec.md 4.3/4.4, serving each client's commands in    *)
(* order (handle_command's lock, permission checks and truncation).       *)
DeviceRefinement == Dev!ASpec

(* Commands a client has sent and not yet had a response written for.     *)
Unanswered(c) == sent[c] - Len(fromSrv[c])

(* Every command a reading client sends is eventually answered, unless the *)
(* process ends or its connection was refused: no thread waits on dev.lock *)
(* forever (client_thread / handle_command unlock on every path).          *)
CommandsAnswered ==
  \A c \in Clients \ Stalled :
    Unanswered(c) > 0 ~> (Unanswered(c) = 0 \/ ~Running \/ spc[c] = "refused")

(* spec.md 4.2/7: a peer that closes or a failed write ends only that      *)
(* session, never the process (write() to a closed socket, lines 162-225). *)
PeerCloseIsolated == exitCause # "sigpipe"

-----------------------------------------------------------------------------
TypeOK ==
  /\ buffer \in [1..Cap -> Clients \cup {Zero}]
  /\ size \in 0..Cap
  /\ flags \in 0..7
  /\ perm \in {PERM_RW, PERM_RO, PERM_WO}
  /\ lock \in Clients \cup {NoThread}
  /\ spc \in [Clients -> SessionPcs]
  /\ cstate \in [Clients -> {"idle", "connected", "closed"}]
  /\ \A c \in Clients : Len(fromSrv[c]) <= sent[c] /\ nread[c] <= Len(fromSrv[c])
  /\ sent \in [Clients -> 0..MaxCmds]
  /\ exitCause \in {"none", "signal", "acceptfail", "sigpipe"}

=============================================================================
