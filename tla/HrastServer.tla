------------------------------ MODULE HrastServer ------------------------------
(***************************************************************************)
(* The request loop of the hrast server (hrast_init in hrast.c) and its    *)
(* clients, on one System V message queue.                                 *)
(*                                                                         *)
(* Requests have the Linux type HRAST_MSG_TYPE, a confirm has the pid of   *)
(* its client as type.  A request or a confirm is a header and, for the    *)
(* _E message types, an extension that follows in a message of its own.    *)
(* A request is named by its client and its sequence number.  The content  *)
(* of an extension is the set of the requests whose data it holds.         *)
(*                                                                         *)
(* What the registration commands do to the callback tables is the subject *)
(* of HrastLinkscan; here they are commands like any other.                *)
(***************************************************************************)
EXTENDS HrastCommands, Integers, Sequences, FiniteSets, SequencesExt

CONSTANTS
  Clients,      (* pids                                                    *)
  Server,       (* HRAST_MSG_TYPE                                          *)
  Systems,      (* [commands, capacity, restarts]: commands the clients    *)
                (* use, messages the queue holds, bound of the restarts    *)
  Ample,        (* that many cannot fill up                                *)
  MaxRequests   (* bound: requests of one client                           *)

ASSUME ServerAssumption ==
  /\ Server \notin Clients
  /\ \A x \in Systems : x.capacity \in Nat \ {0} /\ x.restarts \in Nat
  /\ Ample \in Nat /\ MaxRequests \in Nat

VARIABLES
  system,       (* one of Systems                                          *)
  msq,          (* type -> messages                                        *)
  pc,           (* of the server                                           *)
  bcm_buf,      (* the request at hand                                     *)
  ext_buf,      (* content of the extension buffer                         *)
  ext_msg,      (* bcm_buf.ext_msg # NULL                                  *)
  client,       (* pid -> its thread                                       *)
  used,         (* history: <<request, content>> an extension was used for *)
  confirmed,    (* history: requests whose confirm has been sent           *)
  restarts,     (* times the server has been started again                 *)
  cut           (* history: requests at hand when a server died            *)

server == <<pc, bcm_buf, ext_buf, ext_msg>>
starts == <<restarts, cut>>
queue == <<msq, server, client, used, confirmed>>
vars == <<queue, starts, system>>

Requests == Clients \X (1 .. MaxRequests)

Request(c, s, cmd)  == [part |-> "request", of |-> <<c, s>>, seq |-> s, mcmd |-> cmd]
Extension(r, data)  == [part |-> "extension", of |-> r, data |-> data]
NoRequest == [part |-> "none"]

Idle(s) == [pc |-> "idle", seq |-> s, mcmd |-> "", of |-> <<>>, data |-> {}]

Init ==
  /\ system \in Systems
  /\ msq = [t \in Clients \cup {Server} |-> <<>>]
  /\ pc = "receive" /\ bcm_buf = NoRequest /\ ext_buf = {} /\ ext_msg = FALSE
  /\ client = [c \in Clients |-> Idle(0)]
  /\ used = {} /\ confirmed = {}
  /\ restarts = 0 /\ cut = {}

-----------------------------------------------------------------------------
(* The queue.                                                              *)

Queued == UNION {{t} \X DOMAIN msq[t] : t \in DOMAIN msq}
HasRoom == Cardinality(Queued) < system.capacity
Put(t, m) == HasRoom /\ msq' = [msq EXCEPT ![t] = Append(@, m)]
Take(t)   == msq' = [msq EXCEPT ![t] = Tail(@)]

-----------------------------------------------------------------------------
(* The server.                                                             *)

\* hrast_sys_msg_receive with HRAST_WAIT_FOREWER.
Receive ==
  /\ pc = "receive" /\ msq[Server] # <<>>
  /\ LET m == Head(msq[Server]) IN
       /\ m.part = "request"
       /\ bcm_buf' = m
       /\ pc' = IF m.mcmd \in RequestE THEN "extension" ELSE "handle"
  /\ ext_msg' = FALSE
  /\ Take(Server)
  /\ UNCHANGED <<ext_buf, client, used, confirmed>>

\* E2BIG: the loop continues, with the extension still at the head.
ReceiveFails ==
  /\ pc = "receive" /\ msq[Server] # <<>>
  /\ Head(msq[Server]).part = "extension"
  /\ bcm_buf' = NoRequest
  /\ UNCHANGED <<msq, pc, ext_buf, ext_msg, client, used, confirmed>>

\* The next message, whatever it is, fills the extension buffer.
ReceiveExtension ==
  /\ pc = "extension" /\ msq[Server] # <<>>
  /\ ext_buf' = {Head(msq[Server]).of}
  /\ ext_msg' = TRUE
  /\ pc' = "handle"
  /\ Take(Server)
  /\ UNCHANGED <<bcm_buf, client, used, confirmed>>

\* Mutant: mstatus stays HRAST_MESSAGE_CMD_OK.
ConfirmAlwaysOk(o) ==
  [part |-> "confirm", of |-> bcm_buf.of, seq |-> bcm_buf.seq, mcmd |-> bcm_buf.mcmd,
   mstatus |-> 0, bcm_rv |-> o.bcm_rv, done |-> o.done]

\* Mutant: the server gives its confirms numbers of their own.
ConfirmCounted(o) ==
  [part |-> "confirm", of |-> bcm_buf.of, seq |-> Cardinality(confirmed) + 1, mcmd |-> bcm_buf.mcmd,
   mstatus |-> o.rv, bcm_rv |-> o.bcm_rv, done |-> o.done]

\* The confirm for an outcome of the handler: bcm_buf with mtype and mstatus.
Confirm(o) ==
  [part |-> "confirm", of |-> bcm_buf.of, seq |-> bcm_buf.seq, mcmd |-> bcm_buf.mcmd,
   mstatus |-> o.rv, bcm_rv |-> o.bcm_rv, done |-> o.done]

\* What a handler leaves in the extension buffer.  One that writes a report
\* clears it before its BCM call; a listing holds the lines up to the error.
Written(cmd, o) ==
  LET own == {bcm_buf.of}
  IN  IF Kind[cmd] # "report" THEN {ext_buf}
      ELSE IF cmd \in Listings THEN {{}, own}
      ELSE IF o.done THEN {own} ELSE {{}}

Handle ==
  /\ pc = "handle" /\ bcm_buf.mcmd \in Known
  /\ LET cmd == bcm_buf.mcmd IN
       /\ \E o \in Outcomes(cmd) :
            /\ bcm_buf' = Confirm(o)
            /\ ext_buf' \in Written(cmd, o)
       /\ ext_msg' = (ext_msg \/ Kind[cmd] = "report")
       /\ used' = IF Kind[cmd] = "data" THEN used \cup {<<bcm_buf.of, ext_buf>>} ELSE used
  /\ pc' = "confirm"
  /\ UNCHANGED <<msq, client, confirmed>>

\* Mutant: the loop continues with the same message.
UnknownAgain ==
  /\ pc = "handle" /\ bcm_buf.mcmd \notin Known
  /\ UNCHANGED queue

\* "don't send the message, continue to the message receive function"
Unknown ==
  /\ pc = "handle" /\ bcm_buf.mcmd \notin Known
  /\ pc' = "receive"
  /\ UNCHANGED <<msq, bcm_buf, ext_buf, ext_msg, client, used, confirmed>>

\* After the confirm of HRAST_BCM_SHUTDOWN the loop ends.
NextRequest == IF bcm_buf.mcmd = "BCM_SHUTDOWN" THEN "remove" ELSE "receive"

SendConfirm ==
  /\ pc = "confirm"
  /\ Put(bcm_buf.of[1], bcm_buf)
  /\ pc' = IF bcm_buf.mcmd \in ConfirmE /\ ext_msg THEN "confirm_ext" ELSE NextRequest
  /\ confirmed' = confirmed \cup {bcm_buf.of}
  /\ UNCHANGED <<bcm_buf, ext_buf, ext_msg, client, used>>

\* Mutant: the extension is sent without waiting for room.
SendExtensionNoWait ==
  /\ pc = "confirm_ext"
  /\ IF HasRoom THEN Put(bcm_buf.of[1], Extension(bcm_buf.of, ext_buf)) ELSE UNCHANGED msq
  /\ pc' = NextRequest
  /\ UNCHANGED <<bcm_buf, ext_buf, ext_msg, client, used, confirmed>>

SendExtension ==
  /\ pc = "confirm_ext"
  /\ Put(bcm_buf.of[1], Extension(bcm_buf.of, ext_buf))
  /\ pc' = NextRequest
  /\ UNCHANGED <<bcm_buf, ext_buf, ext_msg, client, used, confirmed>>

\* IPC_RMID, with whatever is in the queue.
RemoveQueues ==
  /\ pc = "remove"
  /\ pc' = "stopped"
  /\ msq' = [t \in DOMAIN msq |-> <<>>]
  /\ UNCHANGED <<bcm_buf, ext_buf, ext_msg, client, used, confirmed>>

\* The server dies between two steps and is started again: msgget without
\* IPC_EXCL finds the queue of the old one, with all that is in it.
Restart ==
  /\ pc # "stopped" /\ restarts < system.restarts
  /\ restarts' = restarts + 1
  /\ cut' = IF pc \in {"extension", "handle", "confirm", "confirm_ext"}
              THEN cut \cup {bcm_buf.of} ELSE cut
  /\ pc' = "receive" /\ bcm_buf' = NoRequest /\ ext_buf' = {} /\ ext_msg' = FALSE
  /\ UNCHANGED <<msq, client, used, confirmed, system>>

ServerStep ==
  Receive \/ ReceiveFails \/ ReceiveExtension \/ Handle \/ Unknown \/ SendConfirm
  \/ SendExtension \/ RemoveQueues

-----------------------------------------------------------------------------
(* A client: the hrast client library, not in this repository.  It sends a *)
(* request and waits for the confirm as hrast_sys_msg_receive does with a  *)
(* timeout.  After a timeout the caller may send another request.          *)

Up == pc # "stopped"

SendRequest(c) ==
  /\ client[c].pc = "idle" /\ client[c].seq < MaxRequests /\ Up
  /\ \E cmd \in system.commands :
       /\ Put(Server, Request(c, client[c].seq + 1, cmd))
       /\ client' = [client EXCEPT ![c] =
            [Idle(@.seq + 1) EXCEPT !.mcmd = cmd,
                                    !.pc = IF cmd \in RequestE THEN "extension" ELSE "wait"]]
  /\ UNCHANGED <<server, used, confirmed>>

SendRequestExtension(c) ==
  /\ client[c].pc = "extension" /\ Up
  /\ Put(Server, Extension(<<c, client[c].seq>>, {<<c, client[c].seq>>}))
  /\ client' = [client EXCEPT ![c].pc = "wait"]
  /\ UNCHANGED <<server, used, confirmed>>

\* The confirm with the right number and command is taken, another one thrown away.
TakeConfirm(c) ==
  /\ client[c].pc = "wait" /\ msq[c] # <<>>
  /\ LET m == Head(msq[c]) IN
       /\ m.part = "confirm"
       /\ client' = IF m.seq = client[c].seq /\ m.mcmd = client[c].mcmd
                      THEN [client EXCEPT ![c].of = m.of,
                              ![c].pc = IF m.mcmd \in ConfirmE THEN "wait_ext" ELSE "idle"]
                      ELSE client
  /\ Take(c)
  /\ UNCHANGED <<server, used, confirmed>>

TakeExtension(c) ==
  /\ client[c].pc = "wait_ext" /\ msq[c] # <<>>
  /\ client' = [client EXCEPT ![c].pc = "idle", ![c].data = Head(msq[c]).data]
  /\ Take(c)
  /\ UNCHANGED <<server, used, confirmed>>

\* The time is up, or an extension is at the head (E2BIG), or the queue is gone.
GiveUp(c) ==
  /\ client[c].pc # "idle"
  /\ ~Up \/ (client[c].pc \in {"wait", "wait_ext"} /\
              IF msq[c] = <<>> THEN TRUE
              ELSE client[c].pc = "wait" /\ Head(msq[c]).part = "extension")
  /\ client' = [client EXCEPT ![c].pc = "idle"]
  /\ UNCHANGED <<msq, server, used, confirmed>>

Client(c) ==
  SendRequest(c) \/ SendRequestExtension(c) \/ TakeConfirm(c) \/ TakeExtension(c) \/ GiveUp(c)

-----------------------------------------------------------------------------
Next ==
  \/ /\ ServerStep \/ \E c \in Clients : Client(c)
     /\ UNCHANGED <<starts, system>>
  \/ Restart

\* The server's main thread runs; clients need not, and nobody has to restart it.
Spec == Init /\ [][Next]_vars /\ WF_queue(ServerStep /\ UNCHANGED <<starts, system>>)

-----------------------------------------------------------------------------
(* Properties.                                                             *)

TypeOK ==
  /\ Cardinality(Queued) <= system.capacity
  /\ \A t \in DOMAIN msq : \A j \in DOMAIN msq[t] :
       /\ msq[t][j].of \in Requests
       /\ msq[t][j].part \in IF t = Server THEN {"request", "extension"} ELSE {"confirm", "extension"}
  /\ pc \in {"receive", "extension", "handle", "confirm", "confirm_ext", "remove", "stopped"}
  /\ ext_buf \subseteq Requests /\ ext_msg \in BOOLEAN
  /\ \A c \in Clients : client[c].seq \in 0 .. MaxRequests
  /\ confirmed \subseteq Requests /\ cut \subseteq Requests
  /\ restarts \in 0 .. system.restarts

ConfirmsInPairs ==
  \A c \in Clients : \A j \in DOMAIN msq[c] :
    LET m == msq[c][j] IN
      m.part = "confirm" /\ m.mcmd \in ConfirmE =>
        IF j < Len(msq[c]) /\ msq[c][j + 1].part = "extension"
          THEN msq[c][j + 1].of = m.of
          ELSE m.of \in cut \/ (j = Len(msq[c]) /\ pc = "confirm_ext" /\ bcm_buf.of = m.of)

\* The queue keeps its types and its capacity, and in the part of a client every
\* extended confirm is followed by its own extension, unless that is the one the
\* server is about to send, whatever the client has given up and however long
\* the server was blocked.  A server that died between the two leaves a header
\* alone, and its successor never completes it with the extension of another.
ConfirmStreamWellFormed == TypeOK /\ ConfirmsInPairs

ConfirmIsOwn ==
  \A c \in Clients : client[c].of # <<>> => client[c].of = <<c, client[c].seq>>

NoForeignReport ==
  \A c \in Clients : \A j \in DOMAIN msq[c] :
    LET m == msq[c][j] IN
      m.part = "extension" /\ m.data # {} =>
        m.data = {m.of} \/ <<m.of, m.data>> \in used

\* The confirm a client takes answers its last request, although confirms of
\* requests it has given up may come first; and the buffers outlive a request,
\* the data does not: a report sent to a client holds nothing that belongs to
\* another request.
AnswerIsOwn == ConfirmIsOwn /\ NoForeignReport

\* A client that is told of success has had its command carried out in full,
\* unless the command is one of those whose handler loses an error.
OkMeansDone ==
  \A c \in Clients : \A j \in DOMAIN msq[c] :
    LET m == msq[c][j] IN
      m.part = "confirm" /\ m.mcmd \notin Lossy /\ m.mstatus = 0 /\ m.bcm_rv = 0 => m.done

Waiting(r) ==
  \E j \in DOMAIN msq[Server] :
    LET m == msq[Server][j] IN m.of = r /\ m.part = "request" /\ m.mcmd \in Known

\* When no request is extended and the queue does not fill up, every known
\* command is confirmed unless the server is shut down first, also for clients
\* that have given up, and by the next server if the first one dies: only the
\* request it had at hand is lost.
KnownIsConfirmed ==
  system.commands \cap RequestE = {} /\ system.capacity >= Ample =>
    \A r \in Requests : Waiting(r) ~> r \in confirmed \cup cut \/ pc = "stopped"
-----------------------------------------------------------------------------
(* For the proof: the messages of each queue, and what the server holds    *)
(* while it works on a request.                                            *)

Extensions == [part : {"extension"}, of : Requests, data : SUBSET Requests]

Orders ==
  {m \in [part : {"request"}, of : Requests, seq : 1 .. MaxRequests, mcmd : system.commands] :
     m.of[2] = m.seq}

Truthful(m) == m.mcmd \notin Lossy /\ m.mstatus = 0 /\ m.bcm_rv = 0 => m.done

Replies ==
  {m \in [part : {"confirm"}, of : Requests, seq : 1 .. MaxRequests, mcmd : Known,
           mstatus : {0, -1}, bcm_rv : {0, 1, -1}, done : BOOLEAN] :
     m.of[2] = m.seq /\ Truthful(m)}

OwnData(r, data) == data = {} \/ data = {r} \/ <<r, data>> \in used

Answers(c) == {m \in Replies : m.of[1] = c} \cup {m \in Extensions : OwnData(m.of, m.data)}

QueuesInv ==
  /\ DOMAIN msq = Clients \cup {Server}
  /\ msq[Server] \in Seq(Orders \cup Extensions)
  /\ \A c \in Clients : msq[c] \in Seq(Answers(c))

BuffersInv ==
  /\ ext_buf \subseteq Requests
  /\ pc \in {"extension", "handle"} => bcm_buf \in Orders
  /\ pc \in {"confirm", "confirm_ext"} => bcm_buf \in Replies
  /\ pc = "confirm_ext" \/ (pc = "confirm" /\ bcm_buf.mcmd \in ConfirmE) => OwnData(bcm_buf.of, ext_buf)

ClientsInv ==
  /\ DOMAIN client = Clients
  /\ \A c \in Clients :
       /\ {"pc", "seq", "mcmd", "of", "data"} \subseteq DOMAIN client[c]
       /\ client[c].seq \in 0 .. MaxRequests /\ (client[c].pc # "idle" => client[c].seq # 0)
       /\ client[c].of # <<>> => client[c].of = <<c, client[c].seq>>

ServerInv == QueuesInv /\ BuffersInv /\ ClientsInv

(* Why extended confirms come in pairs: one is sent only with an extension *)
(* in the buffer, and nobody but the server puts messages behind it.       *)
CountInv ==
  /\ system \in Systems /\ IsFiniteSet(Queued) /\ Cardinality(Queued) <= system.capacity
  /\ pc \in {"receive", "extension", "handle", "confirm", "confirm_ext", "remove", "stopped"}
  /\ ext_msg \in BOOLEAN /\ restarts \in 0 .. system.restarts
  /\ confirmed \subseteq Requests /\ cut \subseteq Requests

PairsInv ==
  /\ ConfirmsInPairs
  /\ pc = "handle" /\ bcm_buf.mcmd \in RequestE => ext_msg
  /\ pc = "confirm" /\ bcm_buf.mcmd \in ConfirmE => ext_msg
  /\ pc = "confirm_ext" => LET q == msq[bcm_buf.of[1]] IN
       q = <<>> \/ (Last(q).part = "confirm" /\ Last(q).of = bcm_buf.of)
=============================================================================
