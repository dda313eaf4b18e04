----------------------------- MODULE DeviceSpec -----------------------------
(***************************************************************************)
(* What the resource manager promises its clients (spec.md sections 4.3,   *)
(* 4.4 and 8): every command a client issues is served atomically, in the *)
(* order that client issued it, against one device whose content is the   *)
(* concatenation of the truncated writes since the last CLEAR.  Access    *)
(* control is the pure function Allowed.  Nothing here knows about        *)
(* threads, locks or sockets; an INFO answer carries size and permission. *)
(***************************************************************************)
EXTENDS Naturals, Sequences, ResMgrProtocol

CONSTANTS Clients,   \* the clients
          Cap,       \* device capacity
          Commands   \* raw commands a client may issue

VARIABLES content,   \* the device bytes a READ returns
          perm,      \* the permission mode
          queue,     \* per client: commands issued and not yet served
          answers    \* per client: the answers served so far, in order

avars == <<content, perm, queue, answers>>

(* spec.md 4.4: READ_ONLY denies WRITE and CLEAR, WRITE_ONLY denies READ. *)
Allowed(pm, op) ==
  CASE pm = PERM_RO -> op \notin {"WRITE", "CLEAR"}
    [] pm = PERM_WO -> op # "READ"
    [] OTHER -> TRUE

(* spec.md 8: a write stores min(len, C - size) bytes.                     *)
Headroom(len) == IF len <= Cap - Len(content) THEN len ELSE Cap - Len(content)

(* The answer to a parsed command p and the device after it.               *)
Answer(p, c) ==
  CASE p.op \in {"READ", "WRITE", "CLEAR"} /\ ~Allowed(perm, p.op) ->
         Reply("denied", 0)
    [] p.op = "READ" /\ content = <<>> -> Reply("empty", 0)
    [] p.op = "READ" -> Reply("data", content)
    [] p.op = "WRITE" -> Reply("ok", Headroom(p.len))
    [] p.op = "INFO" -> Reply("info", <<Len(content), perm>>)
    [] p.op = "CLEAR" -> Reply("cleared", 0)
    [] p.op = "SETPERM" /\ p.tok \in DOMAIN PermOfToken -> Reply("permset", 0)
    [] p.op = "SETPERM" -> Reply("unknownperm", 0)
    [] OTHER -> Reply("unknowncmd", 0)

AInit ==
  /\ content = <<>>
  /\ perm = PERM_RW
  /\ queue = [c \in Clients |-> <<>>]
  /\ answers = [c \in Clients |-> <<>>]

Issue(c) ==
  /\ \E r \in Commands : queue' = [queue EXCEPT ![c] = Append(queue[c], r)]
  /\ UNCHANGED <<content, perm, answers>>

Serve(c) ==
  LET p == Parse(Head(queue[c]))
      ok == p.op \notin {"READ", "WRITE", "CLEAR"} \/ Allowed(perm, p.op)
  IN
  /\ queue[c] # <<>>
  /\ answers' = [answers EXCEPT ![c] = Append(answers[c], Answer(p, c))]
  /\ queue' = [queue EXCEPT ![c] = Tail(queue[c])]
  /\ content' = CASE ok /\ p.op = "WRITE" ->
                       content \o [i \in 1..Headroom(p.len) |-> c]
                  [] ok /\ p.op = "CLEAR" -> <<>>
                  [] OTHER -> content
  /\ perm' = IF p.op = "SETPERM" /\ p.tok \in DOMAIN PermOfToken
             THEN PermOfToken[p.tok] ELSE perm

ANext == \E c \in Clients : Issue(c) \/ Serve(c)

ASpec == AInit /\ [][ANext]_avars

=============================================================================
