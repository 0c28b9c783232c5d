------------------------- MODULE HrastServerProofs -------------------------
(***************************************************************************)
(* Theorems about HrastServer, for every set of clients, every system and  *)
(* number of requests, and with restarts of the server; and about HrastRx. *)
(***************************************************************************)
EXTENDS HrastServer, HrastRx, FiniteSetTheorems, SequenceTheorems, TLAPS

\* A sequence over a set is one over every larger set.
LEMMA SeqGrows == ASSUME NEW S, NEW T, S \subseteq T, NEW s \in Seq(S) PROVE s \in Seq(T)
BY SeqDef

\* What follows the head of a queue is as good as the queue.
LEMMA TailStays == ASSUME NEW S, NEW s \in Seq(S), s # <<>> PROVE Tail(s) \in Seq(S) /\ Head(s) \in S
BY HeadTailProperties

\* A handler reports success only if each step it looks at has succeeded, and
\* with it the command, where it looks at all of them.
LEMMA OutcomesTruthful ==
  ASSUME NEW cmd, NEW o \in Outcomes(cmd)
  PROVE  /\ o.rv \in {0, -1} /\ o.bcm_rv \in {0, 1, -1} /\ o.done \in BOOLEAN
         /\ cmd \notin Lossy /\ o.rv = 0 /\ o.bcm_rv = 0 => o.done
<1>1. o.rv \in {0, -1} /\ o.bcm_rv \in {0, 1, -1} /\ o.done \in BOOLEAN BY DEF Outcomes
<1>2. PICK r \in Courses(cmd) :
        /\ o.rv = IF r.tested THEN 0 ELSE -1
        /\ o.bcm_rv \in IF r.tested THEN Status(cmd, r.called) ELSE {0}
        /\ o.done = (r.tested /\ r.called /\ r.rest)
  BY DEF Outcomes
<1>3. ASSUME cmd \notin Lossy, o.rv = 0, o.bcm_rv = 0 PROVE o.done
  <2>1. r.tested /\ r.rest BY <1>2, <1>3 DEF Courses
  <2>2. r.called BY <1>2, <1>3, <2>1 DEF Status
  <2>3. QED BY <1>2, <2>1, <2>2, Zenon
<1>4. QED BY <1>1, <1>3

LEMMA InitServer == Init => ServerInv
<1> SUFFICES ASSUME Init PROVE ServerInv OBVIOUS
<1>1. \A S : <<>> \in Seq(S) BY EmptySeq
<1>2. /\ DOMAIN msq = Clients \cup {Server}
      /\ msq[Server] = <<>> /\ \A c \in Clients : msq[c] = <<>>
  BY DEF Init
<1>3. \A c \in Clients :
        /\ {"pc", "seq", "mcmd", "of", "data"} \subseteq DOMAIN client[c]
        /\ client[c].seq = 0 /\ client[c].of = <<>> /\ client[c].pc = "idle"
  BY DEF Init, Idle
<1>4. QED BY <1>1, <1>2, <1>3, ServerAssumption DEF Init, ServerInv, QueuesInv, BuffersInv, ClientsInv

\* A message that is fit for a queue may be put into it.
LEMMA PutKeeps ==
  ASSUME QueuesInv, UNCHANGED <<used, system>>, NEW t \in Clients \cup {Server}, NEW m, Put(t, m),
         t = Server => m \in Orders \cup Extensions, t \in Clients => m \in Answers(t)
  PROVE  QueuesInv'
<1>1. /\ DOMAIN msq' = DOMAIN msq /\ msq'[t] = Append(msq[t], m)
      /\ \A u \in Clients \cup {Server} : u # t => msq'[u] = msq[u]
  BY DEF QueuesInv, Put
<1>2. \A c \in Clients : Answers(c)' = Answers(c) BY DEF Answers, OwnData
<1>3. Orders' = Orders BY DEF Orders
<1>4. ASSUME t = Server PROVE msq'[Server] \in Seq(Orders \cup Extensions)
  BY <1>1, <1>4, AppendProperties DEF QueuesInv
<1>5. ASSUME NEW c \in Clients PROVE msq'[c] \in Seq(Answers(c))
  <2>1. CASE c = t BY <1>1, <2>1, AppendProperties DEF QueuesInv
  <2>2. CASE c # t BY <1>1, <2>2 DEF QueuesInv
  <2>3. QED BY <2>1, <2>2
<1>6. msq'[Server] \in Seq(Orders \cup Extensions) BY <1>1, <1>4 DEF QueuesInv
<1>7. QED BY <1>1, <1>2, <1>3, <1>5, <1>6 DEF QueuesInv

\* So may the message at the head be taken from it.
LEMMA TakeKeeps ==
  ASSUME QueuesInv, UNCHANGED <<used, system>>, NEW t \in Clients \cup {Server}, msq[t] # <<>>, Take(t)
  PROVE  /\ QueuesInv'
         /\ t = Server => Head(msq[t]) \in Orders \cup Extensions
         /\ t \in Clients => Head(msq[t]) \in Answers(t)
<1>1. /\ DOMAIN msq' = DOMAIN msq /\ msq'[t] = Tail(msq[t])
      /\ \A u \in Clients \cup {Server} : u # t => msq'[u] = msq[u]
  BY DEF QueuesInv, Take
<1>2. \A c \in Clients : Answers(c)' = Answers(c) BY DEF Answers, OwnData
<1>3. Orders' = Orders BY DEF Orders
<1>4. ASSUME t = Server
      PROVE  msq'[Server] \in Seq(Orders \cup Extensions) /\ Head(msq[t]) \in Orders \cup Extensions
  BY <1>1, <1>4, TailStays DEF QueuesInv
<1>5. ASSUME NEW c \in Clients, c = t
      PROVE  msq'[c] \in Seq(Answers(c)) /\ Head(msq[c]) \in Answers(c)
  BY <1>1, <1>5, TailStays DEF QueuesInv
<1>6. msq'[Server] \in Seq(Orders \cup Extensions) BY <1>1, <1>4 DEF QueuesInv
<1>7. \A c \in Clients : msq'[c] \in Seq(Answers(c)) BY <1>1, <1>5 DEF QueuesInv
<1>8. QED BY <1>1, <1>2, <1>3, <1>4, <1>5, <1>6, <1>7 DEF QueuesInv

\* With no message put or taken, more data in use does no harm.
LEMMA SameQueues ==
  ASSUME QueuesInv, used \subseteq used', UNCHANGED <<msq, system>> PROVE QueuesInv'
<1>1. \A c \in Clients : Answers(c) \subseteq Answers(c)' BY DEF Answers, OwnData
<1>2. Orders' = Orders BY DEF Orders
<1>3. ASSUME NEW c \in Clients PROVE msq'[c] \in Seq(Answers(c)')
  BY <1>1, SeqGrows DEF QueuesInv
<1>4. QED BY <1>2, <1>3 DEF QueuesInv

\* The requests that a client may send stay the same.
LEMMA OrdersSame == ASSUME UNCHANGED system PROVE Orders' = Orders
BY DEF Orders

LEMMA ReceiveKeeps ==
  ASSUME ServerInv, UNCHANGED system, Receive \/ ReceiveFails \/ ReceiveExtension PROVE ServerInv'
<1> USE DEF ServerInv
<1> DEFINE m == Head(msq[Server])
<1>1. CASE Receive
  <2>1. QueuesInv' /\ m \in Orders \cup Extensions /\ m.part = "request"
    BY <1>1, TakeKeeps DEF Receive
  <2>2. m \in Orders BY <2>1 DEF Extensions
  <2>3. Orders' = Orders BY OrdersSame
  <2>4. BuffersInv' BY <1>1, <2>2, <2>3 DEF Receive, BuffersInv
  <2>5. ClientsInv' BY <1>1 DEF Receive, ClientsInv
  <2>6. QED BY <2>1, <2>4, <2>5
<1>2. CASE ReceiveFails
  <2>1. QueuesInv' BY <1>2, SameQueues DEF ReceiveFails
  <2>2. BuffersInv' BY <1>2 DEF ReceiveFails, BuffersInv
  <2>3. ClientsInv' BY <1>2 DEF ReceiveFails, ClientsInv
  <2>4. QED BY <2>1, <2>2, <2>3
<1>3. CASE ReceiveExtension
  <2>1. QueuesInv' /\ m \in Orders \cup Extensions BY <1>3, TakeKeeps DEF ReceiveExtension
  <2>2. m.of \in Requests BY <2>1 DEF Orders, Extensions
  <2>3. Orders' = Orders BY OrdersSame
  <2>4. BuffersInv' BY <1>3, <2>2, <2>3 DEF ReceiveExtension, BuffersInv
  <2>5. ClientsInv' BY <1>3 DEF ReceiveExtension, ClientsInv
  <2>6. QED BY <2>1, <2>4, <2>5
<1>4. QED BY <1>1, <1>2, <1>3

\* The handler leaves a confirm that tells the truth, and data of the request
\* at hand or data that this request has been given.
LEMMA HandleKeeps == ASSUME ServerInv, UNCHANGED system, Handle PROVE ServerInv'
<1> DEFINE cmd == bcm_buf.mcmd
           kind == Kind[cmd]
<1>1. /\ bcm_buf \in Orders /\ bcm_buf.mcmd \in Known /\ ext_buf \subseteq Requests
      /\ pc' = "confirm" /\ used \subseteq used' /\ UNCHANGED <<msq, client>>
  BY DEF Handle, ServerInv, BuffersInv
<1>2. PICK o \in Outcomes(cmd) : bcm_buf' = Confirm(o) /\ ext_buf' \in Written(cmd, o)
  BY DEF Handle
<1>3. /\ bcm_buf.of \in Requests /\ bcm_buf.seq \in 1 .. MaxRequests /\ bcm_buf.of[2] = bcm_buf.seq
  BY <1>1 DEF Orders
<1>4. /\ bcm_buf'.part = "confirm" /\ bcm_buf'.of = bcm_buf.of /\ bcm_buf'.seq = bcm_buf.seq
      /\ bcm_buf'.mcmd = bcm_buf.mcmd /\ bcm_buf'.mstatus = o.rv /\ bcm_buf'.bcm_rv = o.bcm_rv
      /\ bcm_buf'.done = o.done
  BY <1>2 DEF Confirm
<1>5. Truthful(bcm_buf')
  <2>1. cmd \notin Lossy /\ o.rv = 0 /\ o.bcm_rv = 0 => o.done BY OutcomesTruthful, Zenon
  <2>2. QED BY <1>4, <2>1, Zenon DEF Truthful
<1>6. bcm_buf' \in Replies
  <2>1. bcm_buf' \in [part : {"confirm"}, of : Requests, seq : 1 .. MaxRequests, mcmd : Known,
                      mstatus : {0, -1}, bcm_rv : {0, 1, -1}, done : BOOLEAN]
    BY <1>1, <1>2, <1>3, OutcomesTruthful DEF Confirm
  <2>2. QED BY <1>3, <1>4, <1>5, <2>1 DEF Replies
<1>7. ext_buf' \subseteq Requests BY <1>1, <1>2, <1>3 DEF Written
<1>8. ASSUME bcm_buf'.mcmd \in ConfirmE PROVE OwnData(bcm_buf.of, ext_buf)'
  <2>1. kind = "report" \/ kind = "data" BY <1>4, <1>8, ConfirmFitsHandler
  <2>2. CASE kind = "report" BY <1>2, <1>4, <2>2 DEF OwnData, Written
  <2>3. CASE kind = "data"
    <3>1. ext_buf' = ext_buf BY <1>2, <2>3 DEF Written
    <3>2. used' = used \cup {<<bcm_buf.of, ext_buf>>} BY <2>3 DEF Handle
    <3>3. QED BY <1>4, <3>1, <3>2 DEF OwnData
  <2>4. QED BY <2>1, <2>2, <2>3
<1>9. QueuesInv' BY <1>1, SameQueues DEF ServerInv
<1>10. BuffersInv' BY <1>1, <1>6, <1>7, <1>8 DEF BuffersInv
<1>11. ClientsInv' BY <1>1 DEF ServerInv, ClientsInv
<1>12. QED BY <1>9, <1>10, <1>11 DEF ServerInv

LEMMA SendKeeps ==
  ASSUME ServerInv, UNCHANGED system, Unknown \/ SendConfirm \/ SendExtension \/ RemoveQueues
  PROVE  ServerInv'
<1> USE DEF ServerInv
<1>1. CASE Unknown
  <2>1. QueuesInv' BY <1>1, SameQueues DEF Unknown
  <2>2. BuffersInv' /\ ClientsInv' BY <1>1 DEF Unknown, BuffersInv, ClientsInv
  <2>3. QED BY <2>1, <2>2
<1>2. CASE SendConfirm
  <2>1. bcm_buf \in Replies BY <1>2 DEF SendConfirm, BuffersInv
  <2>2. bcm_buf.of[1] \in Clients BY <2>1 DEF Replies, Requests
  <2>3. bcm_buf \in Answers(bcm_buf.of[1]) BY <2>1 DEF Answers
  <2>4. QueuesInv' BY <1>2, <2>2, <2>3, PutKeeps, ServerAssumption DEF SendConfirm
  <2>5. BuffersInv' BY <1>2 DEF SendConfirm, NextRequest, BuffersInv, OwnData
  <2>6. ClientsInv' BY <1>2 DEF SendConfirm, ClientsInv
  <2>7. QED BY <2>4, <2>5, <2>6
<1>3. CASE SendExtension
  <2>1. bcm_buf \in Replies /\ OwnData(bcm_buf.of, ext_buf) /\ ext_buf \subseteq Requests
    BY <1>3 DEF SendExtension, BuffersInv
  <2>2. bcm_buf.of[1] \in Clients /\ bcm_buf.of \in Requests BY <2>1 DEF Replies, Requests
  <2>3. Extension(bcm_buf.of, ext_buf) \in Answers(bcm_buf.of[1])
    BY <2>1, <2>2 DEF Answers, Extension, Extensions
  <2>4. QueuesInv' BY <1>3, <2>2, <2>3, PutKeeps, ServerAssumption DEF SendExtension
  <2>5. BuffersInv' BY <1>3 DEF SendExtension, NextRequest, BuffersInv
  <2>6. ClientsInv' BY <1>3 DEF SendExtension, ClientsInv
  <2>7. QED BY <2>4, <2>5, <2>6
<1>4. CASE RemoveQueues
  <2>1. \A S : <<>> \in Seq(S) BY EmptySeq
  <2>2. QueuesInv' BY <1>4, <2>1 DEF RemoveQueues, QueuesInv
  <2>3. BuffersInv' /\ ClientsInv' BY <1>4 DEF RemoveQueues, BuffersInv, ClientsInv
  <2>4. QED BY <2>2, <2>3
<1>5. QED BY <1>1, <1>2, <1>3, <1>4

LEMMA ClientKeeps == ASSUME ServerInv, UNCHANGED system, NEW c \in Clients, Client(c) PROVE ServerInv'
<1> USE DEF ServerInv, server
<1>0. client[c].seq \in 0 .. MaxRequests /\ DOMAIN client = Clients BY DEF ClientsInv
<1>1. CASE SendRequest(c)
  <2>1. PICK cmd \in system.commands :
          /\ Put(Server, Request(c, client[c].seq + 1, cmd))
          /\ client' = [client EXCEPT ![c] =
               [Idle(@.seq + 1) EXCEPT !.mcmd = cmd,
                                       !.pc = IF cmd \in RequestE THEN "extension" ELSE "wait"]]
    BY <1>1 DEF SendRequest
  <2>2. client[c].seq + 1 \in 1 .. MaxRequests BY <1>0, <1>1, ServerAssumption DEF SendRequest
  <2>3. Request(c, client[c].seq + 1, cmd) \in Orders BY <2>2 DEF Orders, Request, Requests
  <2>4. QueuesInv' BY <1>1, <2>1, <2>3, PutKeeps, ServerAssumption DEF SendRequest
  <2>5. BuffersInv' BY <1>1, OrdersSame DEF SendRequest, BuffersInv, OwnData
  <2>6. /\ client'[c].seq = client[c].seq + 1 /\ client'[c].of = <<>>
        /\ {"pc", "seq", "mcmd", "of", "data"} \subseteq DOMAIN client'[c]
    BY <1>0, <2>1 DEF Idle
  <2>7. DOMAIN client' = Clients /\ \A d \in Clients : d # c => client'[d] = client[d] BY <1>0, <2>1
  <2>8. ClientsInv' BY <2>2, <2>6, <2>7 DEF ClientsInv
  <2>9. QED BY <2>4, <2>5, <2>8
<1>2. CASE SendRequestExtension(c)
  <2>1. <<c, client[c].seq>> \in Requests
    BY <1>0, <1>2, ServerAssumption DEF SendRequestExtension, Requests, ClientsInv
  <2>2. Extension(<<c, client[c].seq>>, {<<c, client[c].seq>>}) \in Extensions
    BY <2>1 DEF Extension, Extensions
  <2>3. QueuesInv' BY <1>2, <2>2, PutKeeps, ServerAssumption DEF SendRequestExtension
  <2>4. BuffersInv' BY <1>2, OrdersSame DEF SendRequestExtension, BuffersInv, OwnData
  <2>5. ClientsInv' BY <1>2 DEF SendRequestExtension, ClientsInv
  <2>6. QED BY <2>3, <2>4, <2>5
<1>3. CASE TakeConfirm(c)
  <2> DEFINE m == Head(msq[c])
  <2>1. QueuesInv' /\ m \in Answers(c) /\ m.part = "confirm" BY <1>3, TakeKeeps DEF TakeConfirm
  <2>2. m.of \in Requests /\ m.of[1] = c /\ m.of[2] = m.seq
    BY <2>1 DEF Answers, Replies, Extensions
  <2>3. m.of = <<c, m.seq>> BY <2>2 DEF Requests
  <2>4. BuffersInv' BY <1>3, OrdersSame DEF TakeConfirm, BuffersInv, OwnData
  <2>5. CASE m.seq = client[c].seq /\ m.mcmd = client[c].mcmd
    <3>1. /\ client'[c].seq = client[c].seq /\ client'[c].of = m.of
          /\ client'[c].pc # "idle" => client[c].pc # "idle"
          /\ {"pc", "seq", "mcmd", "of", "data"} \subseteq DOMAIN client'[c]
          /\ DOMAIN client' = Clients /\ \A d \in Clients : d # c => client'[d] = client[d]
      BY <1>0, <1>3, <2>5 DEF TakeConfirm, ClientsInv
    <3>2. ClientsInv' BY <2>3, <2>5, <3>1 DEF ClientsInv
    <3>3. QED BY <2>1, <2>4, <3>2
  <2>6. CASE client' = client BY <2>1, <2>4, <2>6 DEF ClientsInv
  <2>7. QED BY <1>3, <2>5, <2>6 DEF TakeConfirm
<1>4. CASE TakeExtension(c)
  <2>1. QueuesInv' BY <1>4, TakeKeeps DEF TakeExtension
  <2>2. BuffersInv' BY <1>4, OrdersSame DEF TakeExtension, BuffersInv, OwnData
  <2>3. ClientsInv' BY <1>4 DEF TakeExtension, ClientsInv
  <2>4. QED BY <2>1, <2>2, <2>3
<1>5. CASE GiveUp(c)
  <2>1. QueuesInv' BY <1>5, SameQueues DEF GiveUp
  <2>2. BuffersInv' BY <1>5, OrdersSame DEF GiveUp, BuffersInv, OwnData
  <2>3. ClientsInv' BY <1>5 DEF GiveUp, ClientsInv
  <2>4. QED BY <2>1, <2>2, <2>3
<1>6. QED BY <1>1, <1>2, <1>3, <1>4, <1>5 DEF Client

\* A new server has nothing in its buffers, and finds the queues as they were.
LEMMA RestartKeeps == ASSUME ServerInv, Restart PROVE ServerInv'
<1>1. QueuesInv' BY SameQueues DEF ServerInv, Restart
<1>2. BuffersInv' BY DEF Restart, BuffersInv
<1>3. ClientsInv' BY DEF ServerInv, Restart, ClientsInv
<1>4. QED BY <1>1, <1>2, <1>3 DEF ServerInv

THEOREM ServerInvCorrect == Spec => []ServerInv
<1>1. Init => ServerInv BY InitServer
<1>2. ServerInv /\ [Next]_vars => ServerInv'
  <2> SUFFICES ASSUME ServerInv, [Next]_vars PROVE ServerInv' OBVIOUS
  <2>1. ASSUME ServerStep, UNCHANGED system PROVE ServerInv'
    BY <2>1, ReceiveKeeps, HandleKeeps, SendKeeps DEF ServerStep
  <2>2. ASSUME NEW c \in Clients, Client(c), UNCHANGED system PROVE ServerInv' BY <2>2, ClientKeeps
  <2>3. CASE Restart BY <2>3, RestartKeeps
  <2>4. CASE UNCHANGED vars
    <3>1. QueuesInv' BY <2>4, SameQueues DEF ServerInv, vars, queue
    <3>2. UNCHANGED <<pc, bcm_buf, ext_buf, client, used, system>> BY <2>4 DEF vars, queue, server
    <3>3. BuffersInv' BY <3>2, OrdersSame DEF ServerInv, BuffersInv, OwnData
    <3>4. ClientsInv' BY <3>2 DEF ServerInv, ClientsInv
    <3>5. QED BY <3>1, <3>3, <3>4 DEF ServerInv
  <2>5. QED BY <2>1, <2>2, <2>3, <2>4 DEF Next
<1>3. QED BY <1>1, <1>2, PTL DEF Spec

\* Every confirm a client takes answers its last request, and a report holds
\* nothing that belongs to another request, also after restarts.
THEOREM AnswerIsOwnCorrect == Spec => []AnswerIsOwn
<1>1. ServerInv => AnswerIsOwn
  <2> SUFFICES ASSUME ServerInv PROVE AnswerIsOwn OBVIOUS
  <2>1. ConfirmIsOwn BY DEF ServerInv, ClientsInv, ConfirmIsOwn
  <2>2. ASSUME NEW c \in Clients, NEW j \in DOMAIN msq[c],
               msq[c][j].part = "extension", msq[c][j].data # {}
        PROVE  msq[c][j].data = {msq[c][j].of} \/ <<msq[c][j].of, msq[c][j].data>> \in used
    <3>1. msq[c][j] \in Answers(c) BY <2>2, ElementOfSeq, LenProperties DEF ServerInv, QueuesInv
    <3>2. QED BY <2>2, <3>1 DEF Answers, Replies, OwnData
  <2>3. NoForeignReport BY <2>2 DEF NoForeignReport
  <2>4. QED BY <2>1, <2>3 DEF AnswerIsOwn
<1>2. QED BY <1>1, ServerInvCorrect, PTL

\* Whoever is told of success has had the command carried out in full, unless
\* its handler is one of those that lose an error.
THEOREM OkMeansDoneCorrect == Spec => []OkMeansDone
<1>1. ServerInv => OkMeansDone
  <2> SUFFICES ASSUME ServerInv, NEW c \in Clients, NEW j \in DOMAIN msq[c],
                      msq[c][j].part = "confirm", msq[c][j].mcmd \notin Lossy,
                      msq[c][j].mstatus = 0, msq[c][j].bcm_rv = 0
               PROVE  msq[c][j].done
    BY DEF OkMeansDone
  <2>1. msq[c][j] \in Answers(c) BY ElementOfSeq, LenProperties DEF ServerInv, QueuesInv
  <2>2. msq[c][j] \in Replies BY <2>1 DEF Answers, Extensions
  <2>3. Truthful(msq[c][j]) BY <2>2 DEF Replies
  <2>4. QED BY <2>3, Zenon DEF Truthful
<1>2. QED BY <1>1, ServerInvCorrect, PTL

-----------------------------------------------------------------------------
(* The stream of confirms: the capacity of the queue, and the pairs.       *)

\* The messages of one type are numbered from one.
LEMMA QueuesAreSequences ==
  ASSUME QueuesInv, NEW t \in Clients \cup {Server}
  PROVE  \E S : msq[t] \in Seq(S) /\ Len(msq[t]) \in Nat /\ DOMAIN msq[t] = 1 .. Len(msq[t])
<1>1. CASE t = Server BY <1>1, LenProperties DEF QueuesInv
<1>2. CASE t \in Clients BY <1>2, LenProperties DEF QueuesInv
<1>3. QED BY <1>1, <1>2

\* A message that is put takes one place, and only where there is room.
LEMMA PutCounts ==
  ASSUME ServerInv, CountInv, UNCHANGED system, NEW t \in Clients \cup {Server}, NEW m, Put(t, m)
  PROVE  IsFiniteSet(Queued') /\ Cardinality(Queued') <= system.capacity
<1> DEFINE n == Len(msq[t])
<1>1. PICK S : msq[t] \in Seq(S) /\ n \in Nat /\ DOMAIN msq[t] = 1 .. n
  BY QueuesAreSequences DEF ServerInv
<1>2. DOMAIN msq' = DOMAIN msq /\ msq'[t] = Append(msq[t], m) /\ \A u \in DOMAIN msq : u # t => msq'[u] = msq[u]
  BY DEF Put, ServerInv, QueuesInv
<1>3. DOMAIN msq'[t] = 1 .. n + 1
  <2>1. msq[t] \in Seq(S \cup {m}) BY <1>1, SeqGrows
  <2>2. Append(msq[t], m) \in Seq(S \cup {m}) /\ Len(Append(msq[t], m)) = n + 1 BY <2>1, AppendProperties
  <2>3. QED BY <1>2, <2>2, LenProperties
<1>4. Queued' = Queued \cup {<<t, n + 1>>}
  <2>1. t \in DOMAIN msq BY DEF ServerInv, QueuesInv
  <2>2. \A x : x \in Queued' <=> \E u \in DOMAIN msq : \E j \in DOMAIN msq'[u] : x = <<u, j>> BY <1>2 DEF Queued
  <2>3. \A x : x \in Queued <=> \E u \in DOMAIN msq : \E j \in DOMAIN msq[u] : x = <<u, j>> BY DEF Queued
  <2>4. 1 .. n + 1 = (1 .. n) \cup {n + 1} BY <1>1
  <2> HIDE DEF n
  <2>5. ASSUME NEW x PROVE x \in Queued' <=> x \in Queued \cup {<<t, n + 1>>}
    <3>1. ASSUME NEW u \in DOMAIN msq, NEW j \in DOMAIN msq'[u], x = <<u, j>> PROVE x \in Queued \cup {<<t, n + 1>>}
      BY <1>1, <1>2, <1>3, <2>3, <2>4, <3>1
    <3>2. ASSUME NEW u \in DOMAIN msq, NEW j \in DOMAIN msq[u], x = <<u, j>> PROVE x \in Queued'
      BY <1>1, <1>2, <1>3, <2>2, <2>4, <3>2
    <3>3. <<t, n + 1>> \in Queued' BY <1>3, <2>1, <2>2, <2>4
    <3>4. QED BY <2>2, <2>3, <3>1, <3>2, <3>3
  <2>6. QED BY <2>5
<1>5. Cardinality(Queued) < system.capacity /\ system.capacity \in Nat /\ Cardinality(Queued) \in Nat
  BY ServerAssumption, FS_CardinalityType DEF Put, HasRoom, CountInv
<1>6. IsFiniteSet(Queued) BY DEF CountInv
<1> HIDE DEF n
<1>7. /\ IsFiniteSet(Queued \cup {<<t, n + 1>>})
      /\ Cardinality(Queued \cup {<<t, n + 1>>}) \in {Cardinality(Queued), Cardinality(Queued) + 1}
  BY <1>6, FS_AddElement
<1>8. QED BY <1>4, <1>5, <1>7

\* One that is taken gives a place back.
LEMMA TakeCounts ==
  ASSUME ServerInv, CountInv, UNCHANGED system, NEW t \in Clients \cup {Server}, msq[t] # <<>>, Take(t)
  PROVE  IsFiniteSet(Queued') /\ Cardinality(Queued') <= system.capacity
<1> DEFINE n == Len(msq[t])
<1>1. PICK S : msq[t] \in Seq(S) /\ n \in Nat /\ DOMAIN msq[t] = 1 .. n
  BY QueuesAreSequences DEF ServerInv
<1>2. DOMAIN msq' = DOMAIN msq /\ msq'[t] = Tail(msq[t]) /\ \A u \in DOMAIN msq : u # t => msq'[u] = msq[u]
  BY DEF Take, ServerInv, QueuesInv
<1>3. DOMAIN msq'[t] \subseteq DOMAIN msq[t]
  <2>1. Tail(msq[t]) \in Seq(S) /\ Len(Tail(msq[t])) = n - 1 BY <1>1, HeadTailProperties
  <2>2. QED BY <1>1, <1>2, <2>1, LenProperties
<1>4. Queued' \subseteq Queued
  <2>1. \A u \in DOMAIN msq : DOMAIN msq'[u] \subseteq DOMAIN msq[u] BY <1>2, <1>3
  <2>2. ASSUME NEW x \in Queued' PROVE x \in Queued
    <3>1. PICK u \in DOMAIN msq : x \in {u} \X DOMAIN msq'[u] BY <1>2, <2>2 DEF Queued
    <3>2. x \in {u} \X DOMAIN msq[u] BY <2>1, <3>1
    <3>3. QED BY <3>2 DEF Queued
  <2>3. QED BY <2>2
<1>5. system.capacity \in Nat /\ Cardinality(Queued) <= system.capacity /\ IsFiniteSet(Queued)
  BY ServerAssumption DEF CountInv
<1>6. QED BY <1>4, <1>5, FS_Subset, FS_CardinalityType

LEMMA InitStream == Init => CountInv /\ PairsInv
<1> SUFFICES ASSUME Init PROVE CountInv /\ PairsInv OBVIOUS
<1>1. \A t \in DOMAIN msq : DOMAIN msq[t] = {} BY DEF Init
<1>2. Queued = {} BY <1>1 DEF Queued
<1>3. system.capacity \in Nat /\ system.restarts \in Nat BY ServerAssumption DEF Init
<1>4. CountInv
  <2>1. IsFiniteSet(Queued) /\ Cardinality(Queued) = 0 BY <1>2, FS_EmptySet
  <2>2. Cardinality(Queued) <= system.capacity /\ 0 \in 0 .. system.restarts BY <1>3, <2>1
  <2>3. /\ system \in Systems /\ pc = "receive" /\ ext_msg = FALSE
        /\ restarts = 0 /\ confirmed = {} /\ cut = {}
    BY DEF Init
  <2>4. QED BY <2>1, <2>2, <2>3 DEF CountInv
<1>5. ConfirmsInPairs BY <1>1 DEF ConfirmsInPairs, Init
<1>6. QED BY <1>4, <1>5 DEF Init, PairsInv

\* What the server is doing and its count of restarts, in each of its steps.
LEMMA ServerCounts ==
  ASSUME ServerInv, CountInv, UNCHANGED <<starts, system>>, ServerStep
  PROVE  CountInv'
<1> USE DEF CountInv, starts
<1>1. Requests' = Requests BY DEF Requests
<1>2. CASE Receive BY <1>2, TakeCounts DEF Receive
<1>3. CASE ReceiveFails BY <1>3 DEF ReceiveFails, Queued
<1>4. CASE ReceiveExtension BY <1>4, TakeCounts DEF ReceiveExtension
<1>5. CASE Handle
  <2>1. UNCHANGED <<msq, confirmed>> /\ pc' = "confirm" /\ ext_msg' \in BOOLEAN BY <1>5 DEF Handle
  <2>2. QED BY <2>1 DEF Queued
<1>6. CASE Unknown BY <1>6 DEF Unknown, Queued
<1>7. CASE SendConfirm
  <2>1. bcm_buf.of \in Requests /\ bcm_buf.of[1] \in Clients
    BY <1>7 DEF SendConfirm, ServerInv, BuffersInv, Replies, Requests
  <2>2. IsFiniteSet(Queued') /\ Cardinality(Queued') <= system.capacity BY <1>7, <2>1, PutCounts DEF SendConfirm
  <2>3. QED BY <1>7, <2>1, <2>2 DEF SendConfirm, NextRequest
<1>8. CASE SendExtension
  <2>1. bcm_buf.of[1] \in Clients BY <1>8 DEF SendExtension, ServerInv, BuffersInv, Replies, Requests
  <2>2. IsFiniteSet(Queued') /\ Cardinality(Queued') <= system.capacity BY <1>8, <2>1, PutCounts DEF SendExtension
  <2>3. QED BY <1>8, <2>2 DEF SendExtension, NextRequest
<1>9. CASE RemoveQueues
  <2>1. \A t \in DOMAIN msq' : DOMAIN msq'[t] = {} BY <1>9 DEF RemoveQueues
  <2>2. Queued' = {} BY <2>1 DEF Queued
  <2>3. system.capacity \in Nat BY ServerAssumption
  <2>4. QED BY <1>9, <2>2, <2>3, FS_EmptySet DEF RemoveQueues
<1>10. QED BY <1>2, <1>3, <1>4, <1>5, <1>6, <1>7, <1>8, <1>9 DEF ServerStep

LEMMA OthersCount ==
  ASSUME ServerInv, CountInv,
         Restart \/ (UNCHANGED <<starts, system>> /\ \E c \in Clients : Client(c)) \/ UNCHANGED vars
  PROVE  CountInv'
<1> USE DEF CountInv
<1>1. CASE Restart
  <2>1. Queued' = Queued BY <1>1 DEF Restart, Queued
  <2>2. pc \in {"extension", "handle", "confirm", "confirm_ext"} => bcm_buf.of \in Requests
    BY DEF ServerInv, BuffersInv, Orders, Replies
  <2>3. cut' \subseteq Requests BY <1>1, <2>2 DEF Restart
  <2>4. restarts' \in 0 .. system.restarts BY <1>1, ServerAssumption DEF Restart
  <2>5. QED BY <1>1, <2>1, <2>3, <2>4 DEF Restart
<1>2. ASSUME UNCHANGED <<starts, system>>, NEW c \in Clients, Client(c) PROVE CountInv'
  <2>1. UNCHANGED <<pc, ext_msg, confirmed, cut, restarts, system>>
    BY <1>2 DEF Client, SendRequest, SendRequestExtension, TakeConfirm, TakeExtension, GiveUp, server, starts
  <2>2. CASE SendRequest(c) \/ SendRequestExtension(c)
    <3>1. PICK m : Put(Server, m) BY <2>2 DEF SendRequest, SendRequestExtension
    <3>2. QED BY <2>1, <3>1, PutCounts
  <2>3. CASE TakeConfirm(c) \/ TakeExtension(c)
    BY <2>1, <2>3, TakeCounts DEF TakeConfirm, TakeExtension
  <2>4. CASE GiveUp(c) BY <2>1, <2>4 DEF GiveUp, Queued
  <2>5. QED BY <1>2, <2>2, <2>3, <2>4 DEF Client
<1>3. CASE UNCHANGED vars BY <1>3 DEF vars, queue, server, starts, Queued
<1>4. QED BY <1>1, <1>2, <1>3

\* The pairs stand where no queue of a client changes, and the confirm whose
\* extension is due stays so, or is cut.
LEMMA SamePairs ==
  ASSUME ConfirmsInPairs, \A c \in Clients : msq'[c] = msq[c], cut \subseteq cut',
         pc = "confirm_ext" => bcm_buf.of \in cut' \/ (pc' = "confirm_ext" /\ bcm_buf' = bcm_buf)
  PROVE  ConfirmsInPairs'
BY DEF ConfirmsInPairs

\* The tail of a queue: its elements follow each other as before.
LEMMA TailElements ==
  ASSUME NEW S, NEW q \in Seq(S), q # <<>>
  PROVE  /\ Len(Tail(q)) = Len(q) - 1 /\ Len(q) \in Nat \ {0} /\ DOMAIN q = 1 .. Len(q)
         /\ DOMAIN Tail(q) = 1 .. Len(q) - 1
         /\ \A j \in 1 .. Len(q) - 1 : Tail(q)[j] = q[j + 1]
         /\ Tail(q) # <<>> => Last(Tail(q)) = Last(q)
<1>1. Tail(q) \in Seq(S) /\ Len(Tail(q)) = Len(q) - 1 /\ \A j \in 1 .. Len(q) - 1 : Tail(q)[j] = q[j + 1]
  BY HeadTailProperties
<1>2. Len(q) \in Nat \ {0} /\ DOMAIN q = 1 .. Len(q) BY LenProperties, EmptySeq
<1>3. DOMAIN Tail(q) = 1 .. Len(q) - 1 BY <1>1, LenProperties
<1>4. ASSUME Tail(q) # <<>> PROVE Last(Tail(q)) = Last(q)
  <2>1. Len(Tail(q)) # 0 BY <1>1, <1>4, EmptySeq
  <2>2. QED BY <1>1, <1>2, <2>1 DEF Last
<1>5. QED BY <1>1, <1>2, <1>3, <1>4

\* What a client takes from the front leaves the pairs behind it, and the
\* message the server has put last.
LEMMA TakePairs ==
  ASSUME ServerInv, PairsInv, NEW c \in Clients, msq[c] # <<>>, Take(c), UNCHANGED <<server, cut>>
  PROVE  PairsInv'
<1> DEFINE q == msq[c]
<1>1. PICK S : q \in Seq(S) /\ Len(q) \in Nat BY QueuesAreSequences DEF ServerInv
<1>2. /\ msq' = [msq EXCEPT ![c] = Tail(q)] /\ DOMAIN msq = Clients \cup {Server}
      /\ UNCHANGED <<pc, bcm_buf, ext_msg, cut>>
  BY DEF Take, server, ServerInv, QueuesInv
<1>3. /\ Len(Tail(q)) = Len(q) - 1 /\ Len(q) \in Nat \ {0} /\ DOMAIN q = 1 .. Len(q)
      /\ DOMAIN Tail(q) = 1 .. Len(q) - 1
      /\ \A j \in 1 .. Len(q) - 1 : Tail(q)[j] = q[j + 1]
      /\ Tail(q) # <<>> => Last(Tail(q)) = Last(q)
  BY <1>1, TailElements
<1>4. ConfirmsInPairs'
  <2> SUFFICES ASSUME NEW d \in Clients, NEW j \in DOMAIN msq'[d],
                      msq'[d][j].part = "confirm", msq'[d][j].mcmd \in ConfirmE
               PROVE  IF j < Len(msq'[d]) /\ msq'[d][j + 1].part = "extension"
                        THEN msq'[d][j + 1].of = msq'[d][j].of
                        ELSE \/ msq'[d][j].of \in cut'
                             \/ j = Len(msq'[d]) /\ pc' = "confirm_ext" /\ bcm_buf'.of = msq'[d][j].of
    BY DEF ConfirmsInPairs
  <2>1. CASE d # c BY <1>2, <2>1 DEF PairsInv, ConfirmsInPairs
  <2>2. CASE d = c
    <3>1. msq'[d] = Tail(q) BY <1>2, <2>2
    <3>2. j \in 1 .. Len(q) - 1 /\ Tail(q)[j] = q[j + 1] /\ j + 1 \in DOMAIN q BY <1>3, <3>1
    <3>3. j < Len(q) - 1 => Tail(q)[j + 1] = q[j + 2] BY <1>3, <3>2
    <3>4. IF j + 1 < Len(q) /\ q[j + 2].part = "extension"
            THEN q[j + 2].of = q[j + 1].of
            ELSE \/ q[j + 1].of \in cut
                 \/ j + 1 = Len(q) /\ pc = "confirm_ext" /\ bcm_buf.of = q[j + 1].of
      <4>1. q[j + 1].part = "confirm" /\ q[j + 1].mcmd \in ConfirmE BY <3>1, <3>2
      <4>2. (j + 1) + 1 = j + 2 BY <3>2
      <4>3. QED BY <3>2, <4>1, <4>2 DEF PairsInv, ConfirmsInPairs
    <3> HIDE DEF q
    <3>5. QED BY <1>2, <1>3, <3>1, <3>2, <3>3, <3>4
  <2>3. QED BY <2>1, <2>2
<1>5. ASSUME pc = "confirm_ext"
      PROVE  LET r == msq'[bcm_buf.of[1]] IN r = <<>> \/ (Last(r).part = "confirm" /\ Last(r).of = bcm_buf.of)
  <2>1. bcm_buf.of[1] \in Clients BY <1>5 DEF ServerInv, BuffersInv, Replies, Requests
  <2>2. CASE bcm_buf.of[1] = c BY <1>2, <1>3, <1>5, <2>2 DEF PairsInv
  <2>3. CASE bcm_buf.of[1] # c BY <1>2, <1>5, <2>1, <2>3 DEF PairsInv
  <2>4. QED BY <2>2, <2>3
<1>6. QED BY <1>2, <1>4, <1>5 DEF PairsInv

\* The server sends a confirm where no other of its confirms is unfinished,
\* and its extension next in the same queue.
LEMMA SendPairs ==
  ASSUME ServerInv, PairsInv, SendConfirm \/ SendExtension, UNCHANGED cut
  PROVE  PairsInv'
<1> DEFINE c == bcm_buf.of[1]
           q == msq[c]
           n == Len(q)
<1>1. c \in Clients /\ bcm_buf \in Replies /\ DOMAIN msq = Clients \cup {Server}
  BY DEF SendConfirm, SendExtension, ServerInv, BuffersInv, QueuesInv, Replies, Requests
<1>2. PICK S : q \in Seq(S) /\ n \in Nat /\ DOMAIN q = 1 .. n BY <1>1, QueuesAreSequences DEF ServerInv
<1>3. PICK m : /\ Put(c, m) /\ bcm_buf' = bcm_buf /\ ext_msg' = ext_msg
               /\ \/ m = bcm_buf /\ SendConfirm
                  \/ m = Extension(bcm_buf.of, ext_buf) /\ SendExtension
  BY DEF SendConfirm, SendExtension
<1>4. /\ msq'[c] = Append(q, m) /\ \A d \in Clients : d # c => msq'[d] = msq[d]
      /\ Len(Append(q, m)) = n + 1 /\ DOMAIN Append(q, m) = 1 .. n + 1
      /\ Append(q, m)[n + 1] = m /\ \A j \in 1 .. n : Append(q, m)[j] = q[j]
  <2>1. q \in Seq(S \cup {m}) /\ m \in S \cup {m} BY <1>2, SeqGrows
  <2>2. /\ Append(q, m) \in Seq(S \cup {m}) /\ Len(Append(q, m)) = n + 1
        /\ Append(q, m)[n + 1] = m /\ \A j \in 1 .. n : Append(q, m)[j] = q[j]
    BY <2>1, AppendProperties
  <2>3. msq'[c] = Append(q, m) /\ \A d \in Clients : d # c => msq'[d] = msq[d] BY <1>1, <1>3 DEF Put
  <2>4. QED BY <2>2, <2>3, LenProperties
<1>5. /\ pc = "confirm_ext" <=> SendExtension
      /\ SendExtension => m.part = "extension" /\ m.of = bcm_buf.of
      /\ SendConfirm => m = bcm_buf /\ m.part = "confirm" /\ pc = "confirm"
      /\ SendConfirm /\ bcm_buf.mcmd \in ConfirmE => pc' = "confirm_ext"
      /\ pc' \in {"confirm_ext", "receive", "remove"}
      /\ pc' = "confirm_ext" => SendConfirm
  BY <1>1, <1>3 DEF SendConfirm, SendExtension, Extension, NextRequest, Replies, PairsInv
<1>6. ASSUME NEW d \in Clients, NEW j \in DOMAIN msq[d], d # c, msq[d][j].part = "confirm"
      PROVE  msq[d][j].of # bcm_buf.of
  <2>1. PICK T : T = Answers(d) /\ msq[d] \in Seq(T) BY DEF ServerInv, QueuesInv
  <2>2. msq[d][j] \in Answers(d) BY <1>6, <2>1, ElementOfSeq, LenProperties
  <2>3. QED BY <1>6, <2>2 DEF Answers, Extensions
<1>7. ConfirmsInPairs'
  <2> SUFFICES ASSUME NEW d \in Clients, NEW j \in DOMAIN msq'[d],
                      msq'[d][j].part = "confirm", msq'[d][j].mcmd \in ConfirmE
               PROVE  IF j < Len(msq'[d]) /\ msq'[d][j + 1].part = "extension"
                        THEN msq'[d][j + 1].of = msq'[d][j].of
                        ELSE \/ msq'[d][j].of \in cut'
                             \/ j = Len(msq'[d]) /\ pc' = "confirm_ext" /\ bcm_buf'.of = msq'[d][j].of
    BY DEF ConfirmsInPairs
  <2>1. CASE d # c
    <3>1. msq'[d] = msq[d] BY <1>4, <2>1
    <3>2. msq[d][j].of # bcm_buf.of BY <1>6, <2>1, <3>1
    <3>3. QED BY <3>1, <3>2 DEF PairsInv, ConfirmsInPairs
  <2>2. CASE d = c /\ j = n + 1
    <3>1. SendConfirm BY <1>3, <1>4, <1>5, <2>2
    <3>2. msq'[d] = Append(q, m) /\ Len(msq'[d]) = n + 1 /\ msq'[d][j] = bcm_buf BY <1>4, <1>5, <2>2, <3>1
    <3>3. bcm_buf.mcmd \in ConfirmE BY <3>2
    <3>4. QED BY <1>3, <1>5, <2>2, <3>1, <3>2, <3>3
  <2>3. CASE d = c /\ j # n + 1
    <3> HIDE DEF q, n
    <3>0. msq'[d] = Append(q, m) /\ j \in 1 .. n + 1 /\ j # n + 1 BY <1>4, <2>3
    <3>1. j \in 1 .. n /\ msq'[d] = Append(q, m) /\ Len(msq'[d]) = n + 1 /\ msq'[d][j] = q[j]
      BY <1>2, <1>4, <3>0
    <3> USE DEF q, n
    <3>2. IF j < n /\ q[j + 1].part = "extension"
            THEN q[j + 1].of = q[j].of
            ELSE q[j].of \in cut \/ (j = n /\ pc = "confirm_ext" /\ bcm_buf.of = q[j].of)
      BY <1>1, <1>2, <3>1 DEF PairsInv, ConfirmsInPairs
    <3>3. CASE j < n
      <4>1. msq'[d][j + 1] = q[j + 1] BY <1>4, <3>1, <3>3
      <4>2. QED BY <3>1, <3>2, <3>3, <4>1
    <3>4. CASE j = n
      <4>1. msq'[d][j + 1] = m BY <1>4, <3>1, <3>4
      <4>2. CASE SendConfirm BY <1>2, <1>5, <3>1, <3>2, <3>4, <4>1, <4>2
      <4>3. CASE SendExtension
        <5>1. pc = "confirm_ext" /\ q # <<>> /\ Last(q) = q[j]
          BY <1>2, <1>5, <3>1, <3>4, <4>3, EmptySeq DEF Last
        <5>2. q[j].of = bcm_buf.of BY <5>1 DEF PairsInv
        <5>3. QED BY <1>5, <3>1, <3>4, <4>1, <4>3, <5>2
      <4>4. QED BY <1>3, <4>2, <4>3
    <3>5. QED BY <1>2, <3>1, <3>3, <3>4
  <2>4. QED BY <2>1, <2>2, <2>3
<1>8. pc' = "confirm_ext" => Last(msq'[c]).part = "confirm" /\ Last(msq'[c]).of = bcm_buf.of
  BY <1>4, <1>5 DEF Last
<1>9. QED BY <1>3, <1>5, <1>7, <1>8 DEF PairsInv

\* Every step keeps the pairs; a server that dies leaves its last request cut.
LEMMA StepPairs ==
  ASSUME ServerInv, PairsInv, ServerStep /\ UNCHANGED <<starts, system>>
  PROVE  PairsInv'
<1> USE DEF PairsInv, starts
<1>1. CASE Receive
  <2>1. /\ \A c \in Clients : msq'[c] = msq[c]
        /\ pc = "receive" /\ pc' \in {"extension", "handle"} /\ (pc' = "handle" => bcm_buf'.mcmd \notin RequestE)
    BY <1>1, ServerAssumption DEF Receive, Take, ServerInv, QueuesInv
  <2>2. QED BY <2>1, SamePairs
<1>2. CASE ReceiveFails
  <2>1. msq' = msq /\ pc = "receive" /\ pc' = pc BY <1>2 DEF ReceiveFails
  <2>2. QED BY <2>1, SamePairs
<1>3. CASE ReceiveExtension
  <2>1. /\ \A c \in Clients : msq'[c] = msq[c]
        /\ pc = "extension" /\ pc' = "handle" /\ ext_msg' = TRUE
    BY <1>3, ServerAssumption DEF ReceiveExtension, Take, ServerInv, QueuesInv
  <2>2. QED BY <2>1, SamePairs
<1>4. CASE Handle
  <2>1. msq' = msq /\ pc = "handle" /\ pc' = "confirm" /\ bcm_buf'.mcmd = bcm_buf.mcmd /\ bcm_buf.mcmd \in Known
    BY <1>4 DEF Handle, Confirm
  <2>2. ASSUME bcm_buf.mcmd \in ConfirmE PROVE ext_msg'
    <3>1. Kind[bcm_buf.mcmd] = "report" \/ Kind[bcm_buf.mcmd] = "data" BY <2>2, ConfirmFitsHandler
    <3>2. CASE Kind[bcm_buf.mcmd] = "report" BY <1>4, <3>2 DEF Handle
    <3>3. CASE Kind[bcm_buf.mcmd] = "data"
      <4>1. bcm_buf.mcmd \in RequestE BY <2>1, <3>3 DEF RequestE
      <4>2. QED BY <1>4, <2>1, <4>1 DEF Handle
    <3>4. QED BY <3>1, <3>2, <3>3
  <2>3. QED BY <2>1, <2>2, SamePairs
<1>5. CASE Unknown
  <2>1. msq' = msq /\ pc = "handle" /\ pc' = "receive" BY <1>5 DEF Unknown
  <2>2. QED BY <2>1, SamePairs
<1>6. CASE SendConfirm \/ SendExtension BY <1>6, SendPairs
<1>7. CASE RemoveQueues
  <2>1. pc' = "stopped" /\ \A c \in Clients : msq'[c] = <<>> BY <1>7 DEF RemoveQueues, ServerInv, QueuesInv
  <2>2. QED BY <2>1 DEF ConfirmsInPairs
<1>8. QED BY <1>1, <1>2, <1>3, <1>4, <1>5, <1>6, <1>7 DEF ServerStep

LEMMA OtherPairs ==
  ASSUME ServerInv, PairsInv,
         Restart \/ (UNCHANGED <<starts, system>> /\ \E c \in Clients : Client(c)) \/ UNCHANGED vars
  PROVE  PairsInv'
<1>1. CASE Restart
  <2>1. /\ msq' = msq /\ pc' = "receive" /\ cut \subseteq cut'
        /\ pc = "confirm_ext" => bcm_buf.of \in cut'
    BY <1>1 DEF Restart
  <2>2. QED BY <2>1, SamePairs DEF PairsInv
<1>2. ASSUME UNCHANGED <<starts, system>>, NEW c \in Clients, Client(c) PROVE PairsInv'
  <2>1. UNCHANGED <<server, cut>>
    BY <1>2 DEF Client, SendRequest, SendRequestExtension, TakeConfirm, TakeExtension, GiveUp, starts
  <2>2. CASE SendRequest(c) \/ SendRequestExtension(c) \/ GiveUp(c)
    <3>1. \A d \in Clients : msq'[d] = msq[d]
      BY <2>2, ServerAssumption DEF SendRequest, SendRequestExtension, GiveUp, Put, ServerInv, QueuesInv
    <3>2. pc \in {"confirm_ext"} => bcm_buf.of[1] \in Clients BY DEF ServerInv, BuffersInv, Replies, Requests
    <3>3. QED BY <2>1, <3>1, <3>2, SamePairs DEF PairsInv, server
  <2>3. CASE TakeConfirm(c) \/ TakeExtension(c)
    <3>1. msq[c] # <<>> /\ Take(c) BY <2>3 DEF TakeConfirm, TakeExtension
    <3>2. QED BY <2>1, <3>1, TakePairs
  <2>4. QED BY <1>2, <2>2, <2>3 DEF Client
<1>3. CASE UNCHANGED vars
  <2>1. UNCHANGED <<msq, server, cut>> BY <1>3 DEF vars, queue, starts
  <2>2. QED BY <2>1, SamePairs DEF PairsInv, server
<1>4. QED BY <1>1, <1>2, <1>3

\* The queue keeps its capacity and its kinds of messages, and every extended
\* confirm is followed by its own extension, unless the server is about to send
\* it or has died in between: for any number of clients and requests, whatever
\* the clients give up.
THEOREM ConfirmStreamCorrect == Spec => []ConfirmStreamWellFormed
<1>1. Init => CountInv /\ PairsInv BY InitStream
<1>2. ServerInv /\ CountInv /\ PairsInv /\ [Next]_vars => CountInv' /\ PairsInv'
  BY ServerCounts, OthersCount, StepPairs, OtherPairs DEF Next
<1>3. ServerInv /\ CountInv /\ PairsInv => ConfirmStreamWellFormed
  <2> SUFFICES ASSUME ServerInv, CountInv, PairsInv PROVE TypeOK
    BY DEF ConfirmStreamWellFormed, PairsInv
  <2>1. ASSUME NEW t \in DOMAIN msq, NEW j \in DOMAIN msq[t]
        PROVE  /\ msq[t][j].of \in Requests
               /\ msq[t][j].part \in IF t = Server THEN {"request", "extension"} ELSE {"confirm", "extension"}
    <3>1. CASE t = Server
      <4>1. msq[t][j] \in Orders \cup Extensions
        BY <2>1, <3>1, ElementOfSeq, LenProperties DEF ServerInv, QueuesInv
      <4>2. QED BY <3>1, <4>1 DEF Orders, Extensions
    <3>2. CASE t # Server
      <4>1. t \in Clients BY <2>1, <3>2 DEF ServerInv, QueuesInv
      <4>2. msq[t][j] \in Answers(t) BY <2>1, <4>1, ElementOfSeq, LenProperties DEF ServerInv, QueuesInv
      <4>3. QED BY <3>2, <4>2 DEF Answers, Replies, Extensions
    <3>3. QED BY <3>1, <3>2
  <2>2. \A c \in Clients : client[c].seq \in 0 .. MaxRequests BY DEF ServerInv, ClientsInv
  <2>3. QED BY <2>1, <2>2 DEF TypeOK, CountInv, ServerInv, BuffersInv
<1>4. QED BY ServerInvCorrect, <1>1, <1>2, <1>3, PTL DEF Spec

-----------------------------------------------------------------------------
(* HrastRx, for every set of clients and table size.                       *)

\* The first slot is one.
LEMMA FirstSlot == 0 \in Slots
BY RxAssumption DEF Slots

\* The main thread stores in a free entry only.
LEMMA MainKeeps == ASSUME PacketInv, MainStep, overlap' \in BOOLEAN PROVE PacketInv'
<1>0. /\ RxTypeOK /\ 0 \in Slots /\ NoPid \notin Pids
      /\ UNCHANGED <<rx_time, keeper, receive, there>>
  BY FirstSlot, RxAssumption DEF PacketInv, MainStep
<1> USE <1>0 DEF PacketInv, PacketReachesAll, RxTypeOK, table, bcm, keeper, receive, Goto, MainPc, Owner
<1>1. ASSUME NEW p \in Pids, NEW first \in {"dup_scan", "stop", "only_start"}, RxRequest(p, first)
      PROVE  PacketInv'
  BY <1>1 DEF RxRequest
<1>2. CASE DupScan BY <1>2 DEF DupScan
<1>3. CASE FreeScan BY <1>3 DEF FreeScan
<1>4. CASE Active BY <1>4 DEF Active
<1>5. CASE BcmStart BY ZenonT(30), <1>5 DEF BcmStart
<1>6. CASE BcmRegister BY ZenonT(30), <1>6 DEF BcmRegister
<1>7. CASE Save
  <2>1. \A s \in there : s # m_idx /\ rx_Callback'[s] = rx_Callback[s]
    BY <1>7 DEF Save
  <2>2. RxTypeOK' BY <1>7 DEF Save
  <2>3. m_pc' = "inc_load" BY <1>7 DEF Save
  <2>4. QED BY <2>1, <2>2, <2>3
<1>8. CASE IncLoad BY <1>8 DEF IncLoad
<1>9. CASE IncStore BY <1>9 DEF IncStore
<1>10. CASE OnlyStart BY ZenonT(30), <1>10 DEF OnlyStart
<1>11. CASE BcmStop BY ZenonT(30), <1>11 DEF BcmStop
<1>12. CASE BcmUnregister BY ZenonT(30), <1>12 DEF BcmUnregister
<1>13. QED
  BY <1>1, <1>2, <1>3, <1>4, <1>5, <1>6, <1>7, <1>8, <1>9, <1>10, <1>11, <1>12 DEF MainStep

\* The keep-alive thread takes the entry that it clears from those that stayed.
LEMMA KeepKeeps == ASSUME PacketInv, KeepStep, overlap' \in BOOLEAN PROVE PacketInv'
<1>0. /\ RxTypeOK /\ 0 \in Slots
      /\ UNCHANGED <<bcm_started, main, receive, withdrawn>>
  BY FirstSlot DEF PacketInv, KeepStep
<1> USE <1>0 DEF PacketInv, PacketReachesAll, RxTypeOK, table, main, receive, KeepGoto, NextClient,
      KeepPc, Owner
<1>1. CASE Wake BY <1>1 DEF Wake
<1>2. CASE Scan BY <1>2 DEF Scan
<1>3. CASE Check BY <1>3 DEF Check
<1>4. CASE KeepDecLoad BY <1>4 DEF KeepDecLoad
<1>5. CASE KeepDecStore BY <1>5 DEF KeepDecStore
<1>6. CASE KeepRelease
  <2>1. \A s \in there' : s \in there /\ rx_Callback'[s] = rx_Callback[s]
    BY <1>6 DEF KeepRelease
  <2>2. RxTypeOK' BY <1>6 DEF KeepRelease
  <2>3. \A s \in Slots : rx_Callback[s] = NoPid => rx_Callback'[s] = NoPid
    BY <1>6 DEF KeepRelease
  <2>4. QED BY <2>1, <2>2, <2>3
<1>7. CASE KeepTest BY <1>7 DEF KeepTest
<1>8. CASE KeepBcmUnregister
  <2>1. bcm_handler' \in BOOLEAN
    <3>1. bcm_handler' = bcm_handler \/ bcm_handler' = FALSE BY <1>8 DEF KeepBcmUnregister
    <3>2. QED BY <3>1
  <2>2. QED BY <1>8, <2>1 DEF KeepBcmUnregister
<1>9. CASE ResetTime BY <1>9 DEF ResetTime
<1>10. QED BY <1>1, <1>2, <1>3, <1>4, <1>5, <1>6, <1>7, <1>8, <1>9 DEF KeepStep

\* What the loop has passed is served: the entry at hand, and those before it.
LEMMA NextServed ==
  ASSUME RxTypeOK, NextEntry,
         NEW S, \A s \in there : s <= r_i => rx_Callback[s] \in S
  PROVE  /\ r_pc' \in {"test", "done"} /\ r_i' \in Slots
         /\ r_pc' = "test" => \A s \in there : s < r_i' => rx_Callback[s] \in S
         /\ r_pc' = "done" => \A s \in there : rx_Callback[s] \in S
<1>1. there \subseteq Slots /\ r_i \in Slots BY DEF RxTypeOK
<1>2. CASE r_i + 1 \in Slots BY <1>1, <1>2 DEF NextEntry, Slots
<1>3. CASE r_i + 1 \notin Slots
  <2>1. \A s \in there : s <= r_i BY <1>1, <1>3, RxAssumption DEF Slots
  <2>2. QED BY <1>3, <2>1, FirstSlot DEF NextEntry
<1>4. QED BY <1>2, <1>3

\* The receive thread: an entry that stayed is not empty when it is read.
LEMMA HandlerKeeps == ASSUME PacketInv, ReceiveStep, overlap' \in BOOLEAN PROVE PacketInv'
<1>0. /\ RxTypeOK /\ 0 \in Slots
      /\ UNCHANGED <<table, bcm, main, keeper, withdrawn>>
  BY FirstSlot DEF PacketInv, ReceiveStep
<1>a. /\ there \subseteq Slots /\ r_i \in Slots
      /\ \A s \in Slots : s \in Nat
  BY <1>0 DEF RxTypeOK, Slots
<1>b. ASSUME r_pc \in {"test", "read", "header", "extension"},
             r_i \in there => rx_Callback[r_i] \in sent
      PROVE  \A s \in there : s <= r_i => rx_Callback[s] \in sent
  BY <1>a, <1>b DEF PacketInv
<1> USE <1>0 DEF PacketInv, PacketReachesAll, RxTypeOK, table, bcm, main, keeper, ReceiveGoto, ReceivePc
<1>1. CASE Packet BY <1>1 DEF Packet
<1>2. CASE FirstPacket BY <1>2 DEF FirstPacket
<1>3. CASE Stamp BY <1>3 DEF Stamp
<1>4. CASE Age
  <2>1. CASE ReceiveGoto("idle") /\ UNCHANGED there BY <1>4, <2>1 DEF Age
  <2>2. CASE r_pc' = "test"
    <3>1. /\ r_i' = 0 /\ sent' = {} /\ r_to' = r_to
          /\ there' = {s \in Slots : rx_Callback[s] # NoPid}
      BY <1>4, <2>2 DEF Age
    <3>2. \A s \in there' : ~(s < r_i') BY <3>1, <1>a
    <3>3. RxTypeOK' BY <1>4, <2>2, <3>1 DEF Age
    <3>4. QED BY <1>4, <2>2, <3>1, <3>2, <3>3 DEF Age
  <2>3. QED BY <1>4, <2>1, <2>2 DEF Age
<1>5. CASE TestEntry
  <2>1. CASE rx_Callback[r_i] # NoPid BY <1>5, <2>1 DEF TestEntry
  <2>2. CASE rx_Callback[r_i] = NoPid
    <3>1. r_i \notin there BY <2>2
    <3>2. NextEntry /\ sent' = sent /\ there' = there BY <1>5, <2>2 DEF TestEntry
    <3>3. \A s \in there : s <= r_i => rx_Callback[s] \in sent BY <1>5, <1>b, <3>1 DEF TestEntry
    <3>4. QED BY <1>5, <3>2, <3>3, NextServed DEF TestEntry
  <2>3. QED BY <2>1, <2>2
<1>6. CASE ReadPid BY <1>6 DEF ReadPid
<1>7. CASE SendHeader
  <2>1. CASE r_to # NoPid BY <1>7, <2>1 DEF SendHeader
  <2>2. CASE r_to = NoPid
    <3>1. r_i \notin there BY <1>7, <2>2 DEF SendHeader
    <3>2. NextEntry /\ sent' = sent /\ there' = there
      BY <1>7, <2>2 DEF SendHeader, AfterFailure
    <3>3. \A s \in there : s <= r_i => rx_Callback[s] \in sent BY <1>7, <1>b, <3>1 DEF SendHeader
    <3>4. QED BY <1>7, <3>2, <3>3, NextServed DEF SendHeader
  <2>3. QED BY <2>1, <2>2
<1>8. CASE SendPacket
  <2>1. NextEntry /\ sent' = sent \cup {r_to} /\ there' = there /\ r_to' = r_to
    BY <1>8 DEF SendPacket
  <2>2. r_i \in there => rx_Callback[r_i] \in sent' BY <1>8, <2>1 DEF SendPacket
  <2>3. \A s \in there : s <= r_i => rx_Callback[s] \in sent'
    BY <1>8, <1>a, <2>1, <2>2 DEF SendPacket
  <2>4. /\ r_pc' \in {"test", "done"} /\ r_i' \in Slots
        /\ r_pc' = "test" => \A s \in there : s < r_i' => rx_Callback[s] \in sent'
        /\ r_pc' = "done" => \A s \in there : rx_Callback[s] \in sent'
    BY <2>1, <2>3, NextServed
  <2>5. QED BY <1>8, <2>1, <2>4 DEF SendPacket
<1>9. CASE Handled BY <1>9 DEF Handled, Owner
<1>10. QED BY <1>1, <1>2, <1>3, <1>4, <1>5, <1>6, <1>7, <1>8, <1>9 DEF ReceiveStep

\* PacketInv is inductive.
LEMMA PacketInvCorrect == RxSpec => []PacketInv
<1>1. RxInit => PacketInv
  <2> SUFFICES ASSUME RxInit PROVE PacketInv
    OBVIOUS
  <2>1. bcm_handler \in BOOLEAN /\ bcm_started \in BOOLEAN /\ overlap \in BOOLEAN /\ withdrawn \in BOOLEAN
    BY DEF RxInit
  <2>2. RxTypeOK
    BY <2>1, FirstSlot, SMT DEF RxInit, RxTypeOK, Owner, MainPc, KeepPc, ReceivePc
  <2>3. QED BY <2>2 DEF RxInit, PacketInv, PacketReachesAll
<1>2. PacketInv /\ [RxNext]_rxv => PacketInv'
  <2> SUFFICES ASSUME PacketInv, [RxNext]_rxv PROVE PacketInv'
    OBVIOUS
  <2>1. CASE RxNext
    <3>1. overlap' \in BOOLEAN BY <2>1 DEF RxNext, Overlapping, PacketInv, RxTypeOK
    <3>2. CASE TimePasses
      BY <3>1, <3>2 DEF TimePasses, PacketInv, PacketReachesAll, RxTypeOK, table, bcm, main, keeper, receive
    <3>3. QED BY <2>1, <3>1, <3>2, MainKeeps, KeepKeeps, HandlerKeeps DEF RxNext
  <2>2. CASE UNCHANGED rxv
    BY <2>2 DEF rxv, table, bcm, main, keeper, receive, PacketInv, PacketReachesAll, RxTypeOK
  <2>3. QED BY <2>1, <2>2
<1>3. QED BY <1>1, <1>2, PTL DEF RxSpec

\* "send callback data to all registered clients": dropped clients, and those
\* that come, do not cost the others a packet.
THEOREM PacketReachesAllCorrect == RxSpec => []PacketReachesAll
<1>1. PacketInv => PacketReachesAll BY DEF PacketInv
<1>2. QED BY <1>1, PacketInvCorrect, PTL

-----------------------------------------------------------------------------
(* One entry per client.                                                   *)

\* The main thread stores a client only when its scan has seen every entry.
LEMMA MainKeepsRegister == ASSUME PacketInv, RegisterInv, MainStep PROVE RegisterInv'
<1>0. RxTypeOK /\ 0 \in Slots /\ NoPid \notin Pids /\ \A s \in Slots : s \in Int /\ ~(s < 0)
  BY FirstSlot, RxAssumption DEF PacketInv, Slots
<1> USE <1>0 DEF RegisterInv, OnePerClient, RxTypeOK, table, Goto
<1>1. ASSUME NEW p \in Pids, NEW first \in {"dup_scan", "stop", "only_start"}, RxRequest(p, first)
      PROVE  RegisterInv'
  BY <1>1 DEF RxRequest
<1>2. CASE DupScan
  <2>1. CASE rx_Callback[m_idx] = m_pid BY <1>2, <2>1 DEF DupScan
  <2>2. CASE rx_Callback[m_idx] # m_pid /\ m_idx + 1 \in Slots
    BY <1>2, <2>2 DEF DupScan
  <2>3. CASE rx_Callback[m_idx] # m_pid /\ m_idx + 1 \notin Slots
    <3>1. \A s \in Slots : s < m_idx \/ s = m_idx BY <2>3, RxAssumption DEF Slots
    <3>2. \A s \in Slots : rx_Callback[s] # m_pid BY <1>2, <2>3, <3>1 DEF DupScan
    <3>3. QED BY <1>2, <2>3, <3>2 DEF DupScan
  <2>4. QED BY <2>1, <2>2, <2>3
<1>3. CASE FreeScan BY <1>3 DEF FreeScan
<1>4. CASE Active BY <1>4 DEF Active
<1>5. CASE BcmStart BY <1>5 DEF BcmStart
<1>6. CASE BcmRegister BY <1>6 DEF BcmRegister
<1>7. CASE Save BY <1>7 DEF Save
<1>8. CASE IncLoad \/ IncStore \/ OnlyStart \/ BcmStop \/ BcmUnregister
  BY <1>8 DEF IncLoad, IncStore, OnlyStart, BcmStop, BcmUnregister
<1>9. QED BY <1>1, <1>2, <1>3, <1>4, <1>5, <1>6, <1>7, <1>8 DEF MainStep

\* The sweep only clears entries.
LEMMA KeepKeepsRegister == ASSUME PacketInv, RegisterInv, KeepStep PROVE RegisterInv'
<1>1. RxTypeOK /\ UNCHANGED main /\ NoPid \notin Pids
  BY RxAssumption DEF PacketInv, KeepStep
<1>2. \A s \in Slots : rx_Callback'[s] \in {rx_Callback[s], NoPid}
  <2>1. CASE KeepRelease BY <1>1, <2>1 DEF KeepRelease, RxTypeOK
  <2>2. CASE ~KeepRelease
    <3>1. UNCHANGED rx_Callback
      BY <2>2 DEF KeepStep, Wake, Scan, Check, KeepDecLoad, KeepDecStore, KeepTest,
           KeepBcmUnregister, ResetTime, table
    <3>2. QED BY <3>1
  <2>3. QED BY <2>1, <2>2
<1>3. QED BY <1>1, <1>2 DEF RegisterInv, OnePerClient, main

\* RegisterInv is inductive beside PacketInv.
LEMMA RegisterInvCorrect == RxSpec => []RegisterInv
<1>1. RxInit => RegisterInv BY DEF RxInit, RegisterInv, OnePerClient
<1>2. PacketInv /\ RegisterInv /\ [RxNext]_rxv => RegisterInv'
  <2> SUFFICES ASSUME PacketInv, RegisterInv, [RxNext]_rxv PROVE RegisterInv'
    OBVIOUS
  <2>1. CASE MainStep BY <2>1, MainKeepsRegister
  <2>2. CASE KeepStep BY <2>2, KeepKeepsRegister
  <2>3. CASE ReceiveStep \/ TimePasses \/ UNCHANGED rxv
    <3>1. UNCHANGED <<rx_Callback, m_pc, m_pid, m_idx>>
      BY <2>3 DEF ReceiveStep, TimePasses, rxv, table, main
    <3>2. QED BY <3>1 DEF RegisterInv, OnePerClient
  <2>4. QED BY <2>1, <2>2, <2>3 DEF RxNext
<1>3. QED BY <1>1, <1>2, PacketInvCorrect, PTL DEF RxSpec

-----------------------------------------------------------------------------
(* The counter and the handler while requests and sweeps take turns.       *)

\* The table is finite, and its entries can be counted.
LEMMA RegisteredFinite == IsFiniteSet(Registered) /\ Cardinality(Registered) \in Nat
<1>1. IsFiniteSet(Slots) BY RxAssumption, FS_Interval DEF Slots
<1>2. Registered \in SUBSET Slots BY DEF Registered
<1>3. QED BY <1>1, <1>2, FS_Subset, FS_CardinalityType

\* A step that stores a client in a free entry adds one to their number.
LEMMA SavedCounts ==
  ASSUME PacketInv, RegisterInv, Save
  PROVE  Cardinality(Registered') = Cardinality(Registered) + 1
<1>1. RxTypeOK /\ rx_Callback[m_idx] = NoPid /\ m_pid \in Pids /\ NoPid \notin Pids
  BY RxAssumption DEF PacketInv, RegisterInv, Save
<1>2. Registered' = Registered \cup {m_idx} /\ m_idx \notin Registered
  BY <1>1 DEF Registered, Save, RxTypeOK
<1>3. QED BY <1>2, RegisteredFinite, FS_AddElement

\* A step that clears a used entry takes one from their number.
LEMMA ReleasedCounts ==
  ASSUME RxTypeOK, KeepRelease, rx_Callback[k_i] # NoPid
  PROVE  Cardinality(Registered') = Cardinality(Registered) - 1
<1>1. Registered' = Registered \ {k_i} /\ k_i \in Registered
  BY DEF Registered, KeepRelease, RxTypeOK
<1>2. QED BY <1>1, RegisteredFinite, FS_RemoveElement

\* A request beside a sleeping sweep keeps the counter.
LEMMA MainKeepsCounter ==
  ASSUME PacketInv, RegisterInv, CounterInStep, MainStep, k_pc = "sleep"
  PROVE  CounterInStep'
<1> DEFINE n == Cardinality(Registered)
<1>0. /\ n \in Nat /\ reg_rx_callbacks \in Int /\ k_pc' = "sleep"
      /\ UNCHANGED rx_Callback => n' = n
  BY RegisteredFinite DEF MainStep, keeper, PacketInv, RxTypeOK, Registered
<1>1. CASE Save
  <2>1. n' = n + 1 BY <1>1, SavedCounts
  <2> HIDE DEF n
  <2>2. reg_rx_callbacks = n BY <1>0, <1>1 DEF CounterInStep, Save, n
  <2>3. reg_rx_callbacks' = n' - 1 BY <1>1, <1>0, <2>1, <2>2 DEF Save
  <2>4. QED BY <1>0, <1>1, <2>3 DEF CounterInStep, Save, Goto, n
<1> HIDE DEF n
<1> USE <1>0 DEF CounterInStep, table, Goto
<1>n. Cardinality(Registered) = n /\ Cardinality(Registered)' = n' BY DEF n
<1>2. CASE IncLoad BY <1>2, <1>n DEF IncLoad
<1>3. CASE IncStore BY <1>3, <1>n DEF IncStore
<1>4. CASE ~(Save \/ IncLoad \/ IncStore)
  <2>1. /\ UNCHANGED table
        /\ m_pc \notin {"inc_load", "inc_store"} /\ m_pc' \notin {"inc_load", "inc_store"}
    <3>1. ASSUME NEW p \in Pids, NEW first \in {"dup_scan", "stop", "only_start"}, RxRequest(p, first)
          PROVE  UNCHANGED table /\ m_pc = "idle" /\ m_pc' \in {"idle", first}
      BY <3>1 DEF RxRequest
    <3>2. QED
      BY <1>4, <3>1 DEF MainStep, DupScan, FreeScan, Active, BcmStart, BcmRegister,
           OnlyStart, BcmStop, BcmUnregister
  <2>2. n' = n BY <1>0, <2>1
  <2>3. QED BY <1>n, <2>1, <2>2
<1>5. QED BY <1>1, <1>2, <1>3, <1>4

\* A sweep between requests keeps the counter.
LEMMA KeepKeepsCounter ==
  ASSUME PacketInv, CounterInStep, KeepStep, m_pc = "idle"
  PROVE  CounterInStep'
<1> DEFINE n == Cardinality(Registered)
<1>0. /\ n \in Nat /\ reg_rx_callbacks \in Int /\ m_pc' = "idle"
      /\ UNCHANGED rx_Callback => n' = n /\ Registered' = Registered
      /\ RxTypeOK
  BY RegisteredFinite DEF KeepStep, main, PacketInv, RxTypeOK, Registered
<1>1. CASE KeepRelease
  <2>1. k_pc = "release" /\ rx_Callback[k_i] # NoPid BY <1>1 DEF KeepRelease, CounterInStep
  <2>2. n' = n - 1 BY <1>0, <1>1, <2>1, ReleasedCounts
  <2> HIDE DEF n
  <2>3. reg_rx_callbacks = n - 1 BY <1>1, <2>1 DEF CounterInStep, n
  <2>4. reg_rx_callbacks' = n' BY <1>1, <2>2, <2>3 DEF KeepRelease
  <2>5. QED BY <1>0, <1>1, <2>4 DEF CounterInStep, KeepRelease, KeepGoto, n
<1>2. CASE KeepTest
  <2>1. UNCHANGED table /\ k_pc = "test" BY <1>2 DEF KeepTest
  <2>2. reg_rx_callbacks = n BY <1>0, <2>1 DEF CounterInStep
  <2>3. LastDropped => Registered = {} BY <2>2, RegisteredFinite, FS_EmptySet DEF LastDropped
  <2> HIDE DEF n
  <2>4. n' = n /\ Registered' = Registered BY <1>0, <2>1 DEF table
  <2>5. QED
    BY <1>0, <1>2, <2>1, <2>2, <2>3, <2>4 DEF CounterInStep, KeepTest, KeepGoto, NextClient, table, n
<1> HIDE DEF n
<1> USE <1>0 DEF CounterInStep, table, KeepGoto, NextClient
<1>n. Cardinality(Registered) = n /\ Cardinality(Registered)' = n' BY DEF n
<1>3. CASE Wake BY <1>3, <1>n DEF Wake
<1>4. CASE Scan BY <1>4, <1>n DEF Scan
<1>5. CASE Check BY <1>5, <1>n DEF Check
<1>6. CASE KeepDecLoad BY <1>6, <1>n DEF KeepDecLoad
<1>7. CASE KeepDecStore BY <1>7, <1>n DEF KeepDecStore
<1>8. CASE KeepBcmUnregister BY <1>8, <1>n DEF KeepBcmUnregister
<1>9. CASE ResetTime BY <1>9, <1>n DEF ResetTime
<1>10. QED BY <1>1, <1>2, <1>3, <1>4, <1>5, <1>6, <1>7, <1>8, <1>9 DEF KeepStep

\* A request beside a sleeping sweep takes the handler away only if a client
\* has asked for it, and stores no entry before there is one.
LEMMA MainKeepsHandler ==
  ASSUME PacketInv, HandlerInStep, MainStep
  PROVE  HandlerInStep'
<1>0. RxTypeOK BY DEF PacketInv
<1> USE <1>0 DEF HandlerInStep, RxTypeOK, table, bcm, Goto, Registered
<1>1. ASSUME NEW p \in Pids, NEW first \in {"dup_scan", "stop", "only_start"}, RxRequest(p, first)
      PROVE  HandlerInStep'
  BY <1>1 DEF RxRequest
<1>2. CASE DupScan BY <1>2 DEF DupScan
<1>3. CASE FreeScan BY <1>3 DEF FreeScan
<1>4. CASE Active BY <1>4 DEF Active
<1>5. CASE BcmStart BY <1>5 DEF BcmStart
<1>6. CASE BcmRegister BY <1>6 DEF BcmRegister
<1>7. CASE Save BY <1>7 DEF Save
<1>8. CASE IncLoad BY <1>8 DEF IncLoad
<1>9. CASE IncStore BY <1>9 DEF IncStore
<1>10. CASE OnlyStart BY <1>10 DEF OnlyStart
<1>11. CASE BcmStop BY <1>11 DEF BcmStop
<1>12. CASE BcmUnregister BY <1>12 DEF BcmUnregister
<1>13. QED
  BY <1>1, <1>2, <1>3, <1>4, <1>5, <1>6, <1>7, <1>8, <1>9, <1>10, <1>11, <1>12 DEF MainStep

\* A sweep between requests takes the handler away only with the last entry.
LEMMA KeepKeepsHandler ==
  ASSUME PacketInv, CounterInStep, HandlerInStep, KeepStep, m_pc = "idle"
  PROVE  HandlerInStep'
<1>0. /\ RxTypeOK /\ UNCHANGED <<bcm_started, withdrawn>> /\ m_pc' = "idle"
  BY DEF PacketInv, KeepStep, main
<1>1. Registered' \subseteq Registered
  <2>1. CASE KeepRelease BY <1>0, <2>1 DEF KeepRelease, RxTypeOK, Registered
  <2>2. CASE ~KeepRelease
    <3>1. UNCHANGED rx_Callback
      BY <2>2 DEF KeepStep, Wake, Scan, Check, KeepDecLoad, KeepDecStore, KeepTest,
           KeepBcmUnregister, ResetTime, table
    <3>2. QED BY <3>1 DEF Registered
  <2>3. QED BY <2>1, <2>2
<1>2. CASE KeepBcmUnregister
  <2>1. Registered = {} BY <1>2 DEF KeepBcmUnregister, CounterInStep
  <2>2. QED BY <1>0, <1>1, <2>1 DEF HandlerInStep
<1>3. CASE ~KeepBcmUnregister
  <2>1. UNCHANGED bcm_handler
    BY <1>3 DEF KeepStep, Wake, Scan, Check, KeepDecLoad, KeepDecStore, KeepRelease, KeepTest, ResetTime
  <2>2. QED BY <1>0, <1>1, <2>1 DEF HandlerInStep
<1>4. QED BY <1>2, <1>3

\* SerialInv is inductive beside the others: until the first overlap each step
\* is one of a request beside a sleeping sweep, or of a sweep between requests.
LEMMA SerialInvCorrect == RxSpec => []SerialInv
<1>1. RxInit => SerialInv
  <2> SUFFICES ASSUME RxInit PROVE SerialInv
    OBVIOUS
  <2>1. Registered = {} BY DEF RxInit, Registered
  <2>2. Cardinality(Registered) = 0 BY <2>1, FS_EmptySet
  <2>3. QED
    BY <2>1, <2>2 DEF RxInit, SerialInv, CounterInStep, HandlerInStep, Overlapping
<1>2. PacketInv /\ RegisterInv /\ SerialInv /\ [RxNext]_rxv => SerialInv'
  <2> SUFFICES ASSUME PacketInv, RegisterInv, SerialInv, [RxNext]_rxv, ~overlap'
               PROVE  ~Overlapping' /\ CounterInStep' /\ HandlerInStep'
    BY DEF SerialInv
  <2>1. CASE ReceiveStep \/ TimePasses \/ UNCHANGED rxv
    <3>1. UNCHANGED <<table, bcm, main, keeper, withdrawn>>
      BY <2>1 DEF ReceiveStep, TimePasses, rxv
    <3>2. ~overlap BY <2>1 DEF RxNext, rxv
    <3>3. UNCHANGED Registered BY <3>1 DEF Registered, table
    <3>4. QED
      BY <3>1, <3>2, <3>3 DEF SerialInv, CounterInStep, HandlerInStep, Overlapping,
           table, bcm, main, keeper
  <2>2. CASE RxNext /\ (MainStep \/ KeepStep)
    <3>1. ~overlap /\ ~Overlapping' BY <2>2 DEF RxNext
    <3>2. CounterInStep /\ HandlerInStep /\ ~Overlapping BY <3>1 DEF SerialInv
    <3>3. CASE MainStep /\ m_pc = "idle" /\ m_pc' = "idle"
      <4>1. PICK p \in Pids, first \in {"dup_scan", "stop", "only_start"} : RxRequest(p, first)
        BY <3>3 DEF MainStep, DupScan, FreeScan, Active, BcmStart, BcmRegister, Save, IncLoad, IncStore,
             OnlyStart, BcmStop, BcmUnregister
      <4>2. first = "dup_scan" BY <3>3, <4>1 DEF RxRequest, Goto
      <4>3. UNCHANGED <<table, bcm, keeper, m_pc>> /\ withdrawn' = (withdrawn \/ FALSE)
        BY <3>3, <4>1, <4>2 DEF RxRequest, MainStep
      <4>4. UNCHANGED Registered BY <4>3 DEF Registered, table
      <4>5. CounterInStep' BY <3>2, <3>3, <4>3, <4>4 DEF CounterInStep, table, keeper
      <4>6. HandlerInStep' BY <3>2, <4>3, <4>4 DEF HandlerInStep, table, bcm, keeper
      <4>7. QED BY <3>1, <4>5, <4>6
    <3>4. CASE MainStep /\ (m_pc # "idle" \/ m_pc' # "idle")
      <4>1. k_pc = "sleep"
        <5>1. m_pc' # "idle" \/ m_pc # "idle"
          BY <3>4 DEF MainStep, RxRequest, DupScan, FreeScan, Active, BcmStart, BcmRegister, Save,
               IncLoad, IncStore, OnlyStart, BcmStop, BcmUnregister, Goto
        <5>2. k_pc' = k_pc BY <3>4 DEF MainStep, keeper
        <5>3. QED BY <3>1, <3>2, <5>1, <5>2 DEF Overlapping
      <4>2. QED BY <3>1, <3>2, <3>4, <4>1, MainKeepsCounter, MainKeepsHandler
    <3>5. CASE KeepStep
      <4>1. m_pc = "idle"
        <5>1. k_pc' # "sleep" \/ k_pc # "sleep"
          BY <3>5 DEF KeepStep, Wake, Scan, Check, KeepDecLoad, KeepDecStore, KeepRelease, KeepTest,
               KeepBcmUnregister, ResetTime, KeepGoto
        <5>2. m_pc' = m_pc BY <3>5 DEF KeepStep, main
        <5>3. QED BY <3>1, <3>2, <5>1, <5>2 DEF Overlapping
      <4>2. QED BY <3>1, <3>2, <3>5, <4>1, KeepKeepsCounter, KeepKeepsHandler
    <3>6. QED BY <2>2, <3>3, <3>4, <3>5
  <2>3. QED BY <2>1, <2>2 DEF RxNext
<1>3. QED BY <1>1, <1>2, PacketInvCorrect, RegisterInvCorrect, PTL DEF RxSpec

\* No client has two entries; and until a request overlaps a sweep, the counter
\* is the number of entries, and packets come as long as there is one.
THEOREM RegistryInStepCorrect == RxSpec => []RegistryInStep
<1>1. PacketInv /\ RegisterInv /\ SerialInv => RegistryInStep
  <2> SUFFICES ASSUME PacketInv, RegisterInv, SerialInv PROVE RegistryInStep
    OBVIOUS
  <2>1. RxTypeOK /\ OnePerClient BY DEF PacketInv, RegisterInv
  <2>2. Cardinality(Registered) \in Nat BY RegisteredFinite
  <2>3. QED
    BY <2>1, <2>2 DEF RegistryInStep, SerialInv, CounterInStep, HandlerInStep, AtRest
<1>2. QED BY <1>1, PacketInvCorrect, RegisterInvCorrect, SerialInvCorrect, PTL
=============================================================================
