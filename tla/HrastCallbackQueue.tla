------------------------- MODULE HrastCallbackQueue -------------------------
(***************************************************************************)
(* The callback queue cbqid of the hrast server (hrast.c).                 *)
(*                                                                         *)
(* Two server threads and the callback threads of the clients send to it:  *)
(*   - the BCM linkscan thread, in hrast_linkscan_callback, sends every    *)
(*     link event to every registered client, in two parts;                *)
(*   - the keep-alive thread sends an echo to every registered client and  *)
(*     waits for the answer, in hrast_linkscan_connectivity_check; a       *)
(*     client that does not answer is removed and its messages pulled;     *)
(*   - a client answers an echo.                                           *)
(* A message lies in the queue under its Linux type: the client's pid, or  *)
(* HRAST_MSG_TYPE for what the server receives.  The queue is full when it *)
(* holds capacity messages; msgsnd then blocks.                            *)
(*                                                                         *)
(* Registration is the subject of HrastLinkscan: here every client is      *)
(* registered from the start, each in its own slot, and only the           *)
(* keep-alive thread changes the table.                                    *)
(***************************************************************************)
EXTENDS Integers, Sequences, FiniteSets, SequencesExt

CONSTANTS
  Clients,     (* sequence of pids: Clients[i] is registered in slot i     *)
  Mortal,      (* clients that may die                                     *)
  Server,      (* HRAST_MSG_TYPE                                           *)
  Capacities,  (* messages the queue may hold: a limit of the system       *)
  Ample,       (* that many cannot fill up with MaxEvents                  *)
  MaxEvents    (* bound: link events                                       *)

Pids  == Range(Clients)
Slots == DOMAIN Clients

ASSUME QueueAssumption ==
  /\ Clients \in Seq(Pids) /\ Clients # <<>> /\ 0 \notin Pids
  /\ \A i, j \in Slots : Clients[i] = Clients[j] => i = j
  /\ Server \notin Pids /\ Mortal \subseteq Pids
  /\ Capacities \subseteq Nat \ {0} /\ Ample \in Nat /\ MaxEvents \in Nat

VARIABLES
  cbq,         (* type -> messages                                         *)
  capacity,    (* messages it holds                                        *)
  callback,    (* slot -> the entry is in use (c_pid # 0)                  *)
  events,      (* link events so far                                       *)
  l,           (* linkscan thread: pc, slot i, lnx_mtype of the message    *)
  k,           (* keep-alive thread: pc, slot i, msg_arrived               *)
  client       (* pid -> callback thread: pc, the event or echo at hand    *)

systemv == <<cbq, callback, events, l, k, client>>
queuev == <<systemv, capacity>>

\* Event n, its extension, and the echo with its answer.  The sequence number
\* of an echo counts only against the one the keep-alive thread waits for:
\* n = 1 if it is the same, 0 if it is an older one.
Event(n)  == [kind |-> "event", n |-> n]
Info(n)   == [kind |-> "info", n |-> n]
Echo(n)   == [kind |-> "echo", n |-> n]
Answer(n) == [kind |-> "answer", n |-> n]

QueueInit ==
  /\ cbq = [t \in Pids \cup {Server} |-> <<>>]
  /\ capacity \in Capacities
  /\ callback = [i \in Slots |-> TRUE]
  /\ events = 0
  /\ l = [pc |-> "idle", i |-> 1, to |-> 0]
  /\ k = [pc |-> "sleep", i |-> 1, arrived |-> FALSE]
  /\ client = [p \in Pids |-> [pc |-> "receive", n |-> 0]]

-----------------------------------------------------------------------------
(* The queue.                                                              *)

Queued  == UNION {{t} \X DOMAIN cbq[t] : t \in DOMAIN cbq}
HasRoom == Cardinality(Queued) < capacity

Put(t, m) == cbq' = [cbq EXCEPT ![t] = Append(@, m)]
Take(t)   == cbq' = [cbq EXCEPT ![t] = Tail(@)]

\* After a new echo every older one, and every answer to it, is out of date.
Age(m) == IF m.kind \in {"echo", "answer"} THEN [m EXCEPT !.n = 0] ELSE m
AgeAll == [t \in DOMAIN cbq |-> [j \in DOMAIN cbq[t] |-> Age(cbq[t][j])]]

-----------------------------------------------------------------------------
(* The linkscan thread: hrast_linkscan_callback.                           *)

LNext(i) == l' = [pc |-> IF i + 1 \in Slots THEN "test" ELSE "idle",
                  i |-> IF i + 1 \in Slots THEN i + 1 ELSE 1, to |-> 0]

LinkEvent ==
  /\ l.pc = "idle" /\ events < MaxEvents
  /\ events' = events + 1
  /\ l' = [l EXCEPT !.pc = "test"]
  /\ UNCHANGED <<cbq, callback, k, client>>

TestSlot ==
  /\ l.pc = "test"
  /\ IF callback[l.i] THEN l' = [l EXCEPT !.pc = "read"] ELSE LNext(l.i)
  /\ UNCHANGED <<cbq, callback, events, k, client>>

\* The pid is read again: it is 0 when the entry has been cleared meanwhile.
ReadPid ==
  /\ l.pc = "read"
  /\ l' = [l EXCEPT !.pc = "header", !.to = IF callback[l.i] THEN Clients[l.i] ELSE 0]
  /\ UNCHANGED <<cbq, callback, events, k, client>>

\* Mutant: a message that cannot be sent is tried again.
SendEventAgain ==
  /\ l.pc = "header"
  /\ IF l.to = 0
       THEN UNCHANGED <<cbq, l>>
       ELSE HasRoom /\ Put(l.to, Event(events)) /\ l' = [l EXCEPT !.pc = "extension"]
  /\ UNCHANGED <<callback, events, k, client>>

\* msgsnd fails for type 0; else it waits for room.
SendEvent ==
  /\ l.pc = "header"
  /\ IF l.to = 0
       THEN LNext(l.i) /\ UNCHANGED cbq
       ELSE HasRoom /\ Put(l.to, Event(events)) /\ l' = [l EXCEPT !.pc = "extension"]
  /\ UNCHANGED <<callback, events, k, client>>

\* Mutant: msgsnd does not wait for room.
SendInfoNoWait ==
  /\ l.pc = "extension"
  /\ IF HasRoom THEN Put(l.to, Info(events)) ELSE UNCHANGED cbq
  /\ LNext(l.i)
  /\ UNCHANGED <<callback, events, k, client>>

SendInfo ==
  /\ l.pc = "extension" /\ HasRoom
  /\ Put(l.to, Info(events))
  /\ LNext(l.i)
  /\ UNCHANGED <<callback, events, k, client>>

Linkscan == TestSlot \/ ReadPid \/ SendEvent \/ SendInfo

-----------------------------------------------------------------------------
(* The keep-alive thread.                                                  *)

KNext(i) == k' = [pc |-> IF i + 1 \in Slots THEN "scan" ELSE "sleep",
                  i |-> IF i + 1 \in Slots THEN i + 1 ELSE 1, arrived |-> FALSE]

Wake ==
  /\ k.pc = "sleep"
  /\ k' = [k EXCEPT !.pc = "scan"]
  /\ UNCHANGED <<cbq, callback, events, l, client>>

Scan ==
  /\ k.pc = "scan"
  /\ IF callback[k.i] THEN k' = [k EXCEPT !.pc = "echo"] ELSE KNext(k.i)
  /\ UNCHANGED <<cbq, callback, events, l, client>>

SendEcho ==
  /\ k.pc = "echo" /\ HasRoom
  /\ cbq' = [AgeAll EXCEPT ![Clients[k.i]] = Append(@, Echo(1))]
  /\ client' = [p \in Pids |-> IF client[p].pc = "answer" THEN [client[p] EXCEPT !.n = 0]
                                                          ELSE client[p]]
  /\ k' = [k EXCEPT !.pc = "wait"]
  /\ UNCHANGED <<callback, events, l>>

\* hrast_sys_msg_receive: the answer to this echo ends the check, another one
\* is thrown away.
TakeAnswer ==
  /\ k.pc = "wait" /\ cbq[Server] # <<>>
  /\ IF Head(cbq[Server]).n = 1 THEN KNext(k.i) ELSE k' = [k EXCEPT !.arrived = TRUE]
  /\ Take(Server)
  /\ UNCHANGED <<callback, events, l, client>>

\* Mutant: HRAST_WAIT_FOREWER in place of HRAST_LONG_TIMEOUT.
TimeOutNever ==
  /\ k.pc = "wait" /\ cbq[Server] = <<>>
  /\ k.arrived /\ KNext(k.i)
  /\ UNCHANGED <<cbq, callback, events, l, client>>

\* No answer in HRAST_LONG_TIMEOUT: -1, but 0 if one has been thrown away.
TimeOut ==
  /\ k.pc = "wait" /\ cbq[Server] = <<>>
  /\ IF k.arrived
       THEN KNext(k.i) /\ UNCHANGED callback
       ELSE k' = [k EXCEPT !.pc = "pull"] /\ callback' = [callback EXCEPT ![k.i] = FALSE]
  /\ UNCHANGED <<cbq, events, l, client>>

\* hrast_linkscan_pull_message until it fails: for an extension at the head
\* (E2BIG), or because nothing comes in HRAST_SHORT_TIMEOUT.
Pull ==
  /\ k.pc = "pull"
  /\ LET q == cbq[Clients[k.i]] IN
       IF q # <<>> => Head(q).kind = "info"
         THEN KNext(k.i) /\ UNCHANGED cbq
         ELSE /\ Take(Clients[k.i])
              /\ k' = IF Head(q).kind = "event" THEN [k EXCEPT !.pc = "pull_ext"] ELSE k
  /\ UNCHANGED <<callback, events, l, client>>

\* The message after the header is the extension; without one the call
\* succeeds all the same, as a message has arrived.
PullExtension ==
  /\ k.pc = "pull_ext"
  /\ IF cbq[Clients[k.i]] = <<>> THEN UNCHANGED cbq ELSE Take(Clients[k.i])
  /\ k' = [k EXCEPT !.pc = "pull"]
  /\ UNCHANGED <<callback, events, l, client>>

KeepAlive == Wake \/ Scan \/ SendEcho \/ TakeAnswer \/ TimeOut \/ Pull \/ PullExtension

-----------------------------------------------------------------------------
(* The callback thread of a client: the hrast client library, not in this  *)
(* repository.  It receives as the server does, with the same two-part     *)
(* messages (hrast_api.h is common to both sides).                         *)

\* An extension where a header is expected stays at the head of the queue.
ClientReceive(p) ==
  /\ client[p].pc = "receive" /\ cbq[p] # <<>>
  /\ LET m == Head(cbq[p]) IN
       IF m.kind = "info"
         THEN client' = [client EXCEPT ![p].pc = "jammed"] /\ UNCHANGED cbq
         ELSE /\ Take(p)
              /\ client' = [client EXCEPT ![p] =
                   [pc |-> IF m.kind = "event" THEN "extension" ELSE "answer", n |-> m.n]]
  /\ UNCHANGED <<callback, events, l, k>>

ClientExtension(p) ==
  /\ client[p].pc = "extension" /\ cbq[p] # <<>>
  /\ Take(p)
  /\ client' = [client EXCEPT ![p] = [pc |-> "receive", n |-> 0]]
  /\ UNCHANGED <<callback, events, l, k>>

ClientAnswer(p) ==
  /\ client[p].pc = "answer" /\ HasRoom
  /\ Put(Server, Answer(client[p].n))
  /\ client' = [client EXCEPT ![p] = [pc |-> "receive", n |-> 0]]
  /\ UNCHANGED <<callback, events, l, k>>

Die(p) ==
  /\ p \in Mortal /\ client[p].pc # "dead"
  /\ client' = [client EXCEPT ![p] = [pc |-> "dead", n |-> 0]]
  /\ UNCHANGED <<cbq, callback, events, l, k>>

Client(p) == ClientReceive(p) \/ ClientExtension(p) \/ ClientAnswer(p)

-----------------------------------------------------------------------------
QueueNext ==
  /\ \/ LinkEvent \/ Linkscan \/ KeepAlive
     \/ \E p \in Pids : Client(p) \/ Die(p)
  /\ UNCHANGED capacity

\* Threads are scheduled; a blocked msgsnd gets its turn if there is room from
\* some time on; link events and deaths need not occur.
Fairness == WF_systemv(KeepAlive) /\ WF_systemv(Linkscan) /\ \A p \in Pids : WF_systemv(Client(p))

QueueSpec == QueueInit /\ [][QueueNext]_queuev /\ Fairness

-----------------------------------------------------------------------------
(* Properties.                                                             *)

Messages == [kind : {"event", "info"}, n : 1 .. MaxEvents] \cup [kind : {"echo", "answer"}, n : 0 .. 1]

QueueTypes ==
  /\ \A t \in Pids : cbq[t] \in Seq({m \in Messages : m.kind # "answer"})
  /\ cbq[Server] \in Seq({Answer(0), Answer(1)})
  /\ Cardinality(Queued) <= capacity
  /\ callback \in [Slots -> BOOLEAN]
  /\ events \in 0 .. MaxEvents
  /\ l.pc \in {"idle", "test", "read", "header", "extension"} /\ l.i \in Slots
  /\ l.to \in Pids \cup {0}
  /\ k.pc \in {"sleep", "scan", "echo", "wait", "pull", "pull_ext"} /\ k.i \in Slots
  /\ k.arrived \in BOOLEAN
  /\ \A p \in Pids : client[p].pc \in {"receive", "extension", "answer", "jammed", "dead"}

\* Echoes may get between the header at j and its extension.
Paired(q, j) ==
  \E h \in DOMAIN q : j < h /\ q[h] = Info(q[j].n) /\ \A i \in j + 1 .. h - 1 : q[i].kind = "echo"

\* The linkscan thread is about to send the extension of the header at j.
Unfinished(p, j) ==
  /\ l.pc = "extension" /\ l.to = p /\ cbq[p][j].n = events
  /\ \A i \in j + 1 .. Len(cbq[p]) : cbq[p][i].kind = "echo"

EventsInPairs ==
  \A p \in Pids : \A j \in DOMAIN cbq[p] :
    cbq[p][j].kind = "event" => Paired(cbq[p], j) \/ Unfinished(p, j)

\* Where the echo, or the answer to it, is that the keep-alive thread waits for:
\* in the queue, or with a client.
Current ==
  {x \in Queued : cbq[x[1]][x[2]] \in {Echo(1), Answer(1)}}
  \cup {<<p, 0>> : p \in {c \in Pids : client[c].pc = "answer" /\ client[c].n = 1}}

OneAnswerExpected == \A x, y \in Current : x = y

\* The queue keeps its types and its capacity.  Whoever takes messages from the
\* head of a client's queue, client or pull loop, and however long the linkscan
\* thread was blocked: apart from echoes a header in the queue is followed by
\* its own extension, unless that is the message the linkscan thread is about
\* to send.  And at most one echo or answer is the one the keep-alive thread
\* waits for: no client can answer for another one, and none answers twice.
QueueWellFormed == QueueTypes /\ EventsInPairs /\ OneAnswerExpected

\* A client that has died leaves the table, if the queue does not fill up: the
\* answers it has left behind are used up by and by.  (In a full queue the
\* keep-alive thread, which alone could pull the dead client's messages, waits
\* for room itself.)
DeadIsRemoved ==
  \A i \in Slots : client[Clients[i]].pc = "dead" /\ capacity >= Ample ~> ~callback[i]

\* The BCM linkscan thread comes back from the callback, unless the queue is
\* full again and again, when others may always be quicker to take the room.
CallbackReturns == l.pc # "idle" ~> (l.pc = "idle" \/ []<>~HasRoom)
=============================================================================
