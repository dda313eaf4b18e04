------------------------------- MODULE MqEcho -------------------------------
(***************************************************************************)
(* src/task3/src/posix_mq_server.c, posix_mq_client.c and common.h: a      *)
(* server receives requests on the named queue SERVER_QUEUE_NAME and sends *)
(* each answer to the queue named CLIENT_QUEUE_NAME, opened anew for every *)
(* answer.  A client opens the server's queue, creates (or opens) the     *)
(* client queue, and three times sends a request and receives an answer; *)
(* at the end it unlinks CLIENT_QUEUE_NAME.  The names are fixed, so      *)
(* clients that run at the same time share one reply queue.               *)
(*                                                                         *)
(* A queue is a kernel object: `names` maps each name to the object it    *)
(* denotes (or NoQueue once unlinked), `qs` holds each object's messages. *)
(* A descriptor is the object it was opened on; an unlinked object lives  *)
(* on for whoever still has it open.  Texts are abstracted: a request is  *)
(* its sender and priority, an answer the client it answers.  The server *)
(* only ends when it is killed (lines 71-72 are never reached); the user  *)
(* may then start it again.                                               *)
(***************************************************************************)
EXTENDS Naturals, Sequences, FiniteSets

CONSTANTS Clients,     \* client processes
          MaxStarts,   \* bound: server starts (MaxStarts - 1 kills)
          NoQueue      \* model value: a name that denotes no queue

ASSUME MaxStarts \in Nat \ {0}

(* common.h lines 8-9 and the priorities of posix_mq_client.c line 36.   *)
MSG_PRIO_NORMAL == 1
MSG_PRIO_HIGH == 10
Priorities == <<MSG_PRIO_NORMAL, MSG_PRIO_HIGH, MSG_PRIO_NORMAL>>
NMessages == Len(Priorities)

QueueNames == {"server", "client"}

(* Every server start creates one object, every client at most one.       *)
QIds == 1..(MaxStarts + Cardinality(Clients))

Requests == [from : Clients, prio : {MSG_PRIO_NORMAL, MSG_PRIO_HIGH}]

VARIABLES
  names,   \* name -> object, or NoQueue
  qs,      \* object -> its messages, oldest first
  nextQ,   \* the next object id to allocate
  spc,     \* server: "down", "recv" (blocked in mq_receive), "reply"
  sq,      \* the object of the server's mq_server descriptor
  cur,     \* the request the server is answering
  starts,  \* server starts so far
  cpc,     \* client: "idle", "open_srv", "open_cli", "send", "recv", "done",
           \* "failed"
  csrv,    \* per client: the object of its mq_server descriptor
  ccli,    \* per client: the object of its mq_client descriptor
  round    \* per client: the loop index i of lines 38-52, from 1

vars == <<names, qs, nextQ, spc, sq, cur, starts, cpc, csrv, ccli, round>>

Init ==
  /\ names = [n \in QueueNames |-> NoQueue]
  /\ qs = [q \in QIds |-> <<>>] /\ nextQ = 1
  /\ spc = "down" /\ sq = NoQueue /\ cur = NoQueue /\ starts = 0
  /\ cpc = [c \in Clients |-> "idle"]
  /\ csrv = [c \in Clients |-> NoQueue] /\ ccli = [c \in Clients |-> NoQueue]
  /\ round = [c \in Clients |-> 1]

(* mq_receive takes the oldest of the messages of highest priority.        *)
NextIndex(s) ==
  CHOOSE i \in DOMAIN s :
    /\ \A j \in DOMAIN s : s[j].prio <= s[i].prio
    /\ \A j \in 1..(i - 1) : s[j].prio < s[i].prio

RemoveAt(s, i) == SubSeq(s, 1, i - 1) \o SubSeq(s, i + 1, Len(s))

-----------------------------------------------------------------------------
(* The server.                                                             *)

(* Lines 26-40: unlink both names, then create the server queue (fresh,   *)
(* since its name was just unlinked).  mq_open cannot fail here.          *)
ServerStart ==
  /\ spc = "down" /\ starts < MaxStarts
  /\ names' = [names EXCEPT !["server"] = nextQ, !["client"] = NoQueue]
  /\ sq' = nextQ /\ nextQ' = nextQ + 1
  /\ starts' = starts + 1
  /\ spc' = "recv"
  /\ UNCHANGED <<qs, cur, cpc, csrv, ccli, round>>

(* Lines 46-51: a blocking mq_receive on the server's own object.  No     *)
(* signal handler is installed, so it never fails with EINTR.             *)
ServerRecv ==
  /\ spc = "recv" /\ qs[sq] # <<>>
  /\ LET i == NextIndex(qs[sq])
     IN /\ cur' = qs[sq][i]
        /\ qs' = [qs EXCEPT ![sq] = RemoveAt(@, i)]
  /\ spc' = "reply"
  /\ UNCHANGED <<names, nextQ, sq, starts, cpc, csrv, ccli, round>>

(* Lines 53-64: open CLIENT_QUEUE_NAME; when no queue has that name the   *)
(* answer is dropped (continue); otherwise it is sent and the descriptor  *)
(* closed.  The queue holds mq_maxmsg = 10 answers, more than the clients *)
(* ever have outstanding, so mq_send does not block.                      *)
ServerReply ==
  /\ spc = "reply"
  /\ LET q == names["client"]
     IN qs' = IF q = NoQueue THEN qs
              ELSE [qs EXCEPT ![q] = Append(@, cur.from)]
  /\ spc' = "recv" /\ cur' = NoQueue
  /\ UNCHANGED <<names, nextQ, sq, starts, cpc, csrv, ccli, round>>

(* The server is killed (Ctrl+C); its queues stay, with their messages,   *)
(* and the user starts it again.                                          *)
ServerKill ==
  /\ spc # "down" /\ starts < MaxStarts
  /\ spc' = "down" /\ sq' = NoQueue /\ cur' = NoQueue
  /\ UNCHANGED <<names, qs, nextQ, starts, cpc, csrv, ccli, round>>

-----------------------------------------------------------------------------
(* A client.                                                               *)

(* The user starts the client.                                             *)
ClientStart(c) ==
  /\ cpc[c] = "idle"
  /\ cpc' = [cpc EXCEPT ![c] = "open_srv"]
  /\ UNCHANGED <<names, qs, nextQ, spc, sq, cur, starts, csrv, ccli, round>>

(* Lines 23-27: open the server queue by name, or exit(1).               *)
OpenServer(c) ==
  /\ cpc[c] = "open_srv"
  /\ IF names["server"] = NoQueue
       THEN cpc' = [cpc EXCEPT ![c] = "failed"] /\ UNCHANGED csrv
       ELSE /\ csrv' = [csrv EXCEPT ![c] = names["server"]]
            /\ cpc' = [cpc EXCEPT ![c] = "open_cli"]
  /\ UNCHANGED <<names, qs, nextQ, spc, sq, cur, starts, ccli, round>>

(* Lines 29-33: O_CREAT opens the queue that has the name, with what it *)
(* still holds, or creates a fresh one.                                   *)
OpenClient(c) ==
  /\ cpc[c] = "open_cli"
  /\ IF names["client"] = NoQueue
       THEN /\ names' = [names EXCEPT !["client"] = nextQ]
            /\ ccli' = [ccli EXCEPT ![c] = nextQ]
            /\ nextQ' = nextQ + 1
       ELSE /\ ccli' = [ccli EXCEPT ![c] = names["client"]]
            /\ UNCHANGED <<names, nextQ>>
  /\ cpc' = [cpc EXCEPT ![c] = "send"]
  /\ UNCHANGED <<qs, spc, sq, cur, starts, csrv, round>>

(* Lines 38-43: send request i with its priority; the queue has room.   *)
Send(c) ==
  /\ cpc[c] = "send"
  /\ qs' = [qs EXCEPT ![csrv[c]] =
              Append(@, [from |-> c, prio |-> Priorities[round[c]]])]
  /\ cpc' = [cpc EXCEPT ![c] = "recv"]
  /\ UNCHANGED <<names, nextQ, spc, sq, cur, starts, csrv, ccli, round>>

(* Lines 45-52: a blocking mq_receive of whatever answer is first on    *)
(* the client's object, sleep(1), and the next round; after the last one, *)
(* lines 54-56 close both descriptors and unlink CLIENT_QUEUE_NAME,     *)
(* whichever object it denotes by then.                                   *)
Receive(c) ==
  /\ cpc[c] = "recv" /\ qs[ccli[c]] # <<>>
  /\ qs' = [qs EXCEPT ![ccli[c]] = Tail(@)]
  /\ IF round[c] < NMessages
       THEN /\ round' = [round EXCEPT ![c] = @ + 1]
            /\ cpc' = [cpc EXCEPT ![c] = "send"]
            /\ UNCHANGED names
       ELSE /\ names' = [names EXCEPT !["client"] = NoQueue]
            /\ cpc' = [cpc EXCEPT ![c] = "done"]
            /\ UNCHANGED round
  /\ UNCHANGED <<nextQ, spc, sq, cur, starts, csrv, ccli>>

Server == ServerStart \/ ServerRecv \/ ServerReply \/ ServerKill

Client(c) ==
  ClientStart(c) \/ OpenServer(c) \/ OpenClient(c) \/ Send(c) \/ Receive(c)

Next == Server \/ \E c \in Clients : Client(c)

Spec == Init /\ [][Next]_vars

(* The processes are scheduled, and the user starts the server and every   *)
(* client; a kill is never forced.                                         *)
FairSpec ==
  /\ Spec
  /\ WF_vars(ServerStart) /\ WF_vars(ServerRecv) /\ WF_vars(ServerReply)
  /\ \A c \in Clients : WF_vars(Client(c))

-----------------------------------------------------------------------------
TypeOK ==
  /\ names \in [QueueNames -> QIds \cup {NoQueue}]
  /\ qs \in [QIds -> Seq(Requests \cup Clients)]
  /\ nextQ \in 1..(Cardinality(QIds) + 1)
  /\ spc \in {"down", "recv", "reply"} /\ sq \in QIds \cup {NoQueue}
  /\ cur \in Requests \cup {NoQueue} /\ starts \in 0..MaxStarts
  /\ cpc \in [Clients -> {"idle", "open_srv", "open_cli", "send", "recv",
                          "done", "failed"}]
  /\ csrv \in [Clients -> QIds \cup {NoQueue}]
  /\ ccli \in [Clients -> QIds \cup {NoQueue}]
  /\ round \in [Clients -> 1..NMessages]

(* The client's header comment (lines 4-5): it sends its messages to the *)
(* server "and waits for the answer"; every client that is started ends,   *)
(* having its three answers or having found no server (lines 23-27).      *)
ClientsFinish == \A c \in Clients : <>(cpc[c] \in {"done", "failed"})

=============================================================================
