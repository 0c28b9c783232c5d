------------------------ MODULE HrastMessagesProofs ------------------------
(***************************************************************************)
(* Theorems about HrastReceive: what a call of hrast_sys_msg_receive       *)
(* guarantees, for every number of polls and of messages; and, after them, *)
(* about HrastCallbackQueue, for any number of clients, events and         *)
(* messages.                                                               *)
(***************************************************************************)
EXTENDS HrastReceive, HrastCallbackQueue, FiniteSetTheorems, SequenceTheorems, TLAPS

ExtensionOf(h) == [part |-> "extension", id |-> h.id]

\* Senders do not mix their two parts: an extended header is followed by its
\* extension, or is the last message and its extension is still to come.
QueuePaired ==
  \A j \in 1 .. Len(queue) :
    queue[j].part = "header" /\ queue[j].extended =>
      IF j < Len(queue) THEN queue[j + 1] = ExtensionOf(queue[j])
                        ELSE owing = queue[j].id

\* What the call knows at each point of its two loops.
CallInv ==
  /\ pc # "done" /\ ~forever => m_timout > 0
  /\ pc # "done" => ret = 1
  /\ pc = "header" => buf = Empty /\ ext_buf = Empty
  /\ pc = "extension" =>
       /\ msg_arrived
       /\ buf \in Headers /\ buf.extended
       /\ buf.confirm => buf.seq = "wanted" /\ buf.mcmd = "wanted"
       /\ IF queue = <<>> THEN owing = buf.id ELSE queue[1] = ExtensionOf(buf)

ReceiveInv ==
  /\ TypeOK /\ QueuePaired /\ CallInv
  /\ ConfirmIsWanted /\ ExtensionIsOwn /\ SilenceFails

USE DEF Empty

-----------------------------------------------------------------------------
(* Types.                                                                  *)

\* A call starts with every variable in its type.
LEMMA InitTypeOK == Init => TypeOK
<1> SUFFICES ASSUME Init PROVE TypeOK
  OBVIOUS
<1>1. m_timout \in 0 .. Polls BY ReceiveAssumption DEF Init
<1>2. sent \in 0 .. MaxSent /\ owing \in 0 .. MaxSent BY ReceiveAssumption DEF Init
<1>3. forever \in BOOLEAN /\ has_ext \in BOOLEAN /\ msg_arrived \in BOOLEAN
  BY Zenon DEF Init
<1>4. QED BY <1>1, <1>2, <1>3 DEF Init, TypeOK

\* What is put into the queue is a message.
LEMMA SendTypeOK ==
  ASSUME TypeOK, SendHeader \/ SendExtension
  PROVE  TypeOK'
<1>1. CASE SendHeader
  <2>1. PICK h \in Headers : h.id = sent + 1 /\ queue' = Append(queue, h)
                            /\ owing' = IF h.extended THEN h.id ELSE 0
    BY <1>1 DEF SendHeader
  <2>2. queue' \in Seq(Headers \cup Extensions) BY <2>1 DEF TypeOK
  <2>3. sent' \in 0 .. MaxSent /\ owing' \in 0 .. MaxSent
    BY <1>1, <2>1, ReceiveAssumption DEF SendHeader, TypeOK, Headers
  <2>4. QED BY <1>1, <2>2, <2>3 DEF SendHeader, TypeOK, args
<1>2. CASE SendExtension
  <2>1. [part |-> "extension", id |-> owing] \in Extensions
    BY <1>2, ReceiveAssumption DEF SendExtension, TypeOK, Extensions
  <2>2. queue' \in Seq(Headers \cup Extensions) BY <1>2, <2>1 DEF SendExtension, TypeOK
  <2>3. owing' \in 0 .. MaxSent BY <1>2, ReceiveAssumption DEF SendExtension
  <2>4. QED BY <1>2, <2>2, <2>3 DEF SendExtension, TypeOK, args
<1>3. QED BY <1>1, <1>2

\* What is at the head of the queue, and what is left behind it.
LEMMA HeadType ==
  ASSUME TypeOK, queue # <<>>
  PROVE  /\ queue[1] = Head(queue) /\ Head(queue) \in Headers \cup Extensions
         /\ Head(queue).part = "header" => Head(queue) \in Headers
         /\ Tail(queue) \in Seq(Headers \cup Extensions)
         /\ Len(Tail(queue)) = Len(queue) - 1
         /\ \A j \in 1 .. Len(Tail(queue)) : Tail(queue)[j] = queue[j + 1]
<1>1. queue \in Seq(Headers \cup Extensions) BY DEF TypeOK
<1>2. /\ queue[1] = Head(queue) /\ Head(queue) \in Headers \cup Extensions
      /\ Tail(queue) \in Seq(Headers \cup Extensions)
      /\ Len(Tail(queue)) = Len(queue) - 1
      /\ \A j \in 1 .. Len(Tail(queue)) : Tail(queue)[j] = queue[j + 1]
  BY <1>1
<1>3. Head(queue).part = "header" => Head(queue) \in Headers BY <1>2 DEF Extensions
<1>4. QED BY <1>2, <1>3

\* A poll that is counted was left to count.
LEMMA PollType ==
  ASSUME TypeOK, CallInv, pc # "done", ~forever
  PROVE  m_timout \in 1 .. Polls /\ m_timout - 1 \in 0 .. Polls
BY ReceiveAssumption DEF TypeOK, CallInv

\* The receiver keeps the types.
LEMMA ReceiverTypeOK ==
  ASSUME TypeOK, CallInv, Receive
  PROVE  TypeOK'
<1> USE DEF Finish, Return
<1>1. CASE TakeHeader
  <2>1. queue' \in Seq(Headers \cup Extensions) /\ buf' \in Headers
    BY <1>1, HeadType DEF TakeHeader
  <2>2. pc' \in {"header", "extension", "done"} /\ ret' \in {-1, 0, 1}
    BY <1>1 DEF TakeHeader, AfterHeader, TypeOK
  <2>3. QED BY <1>1, <2>1, <2>2 DEF TakeHeader, TypeOK, args
<1>2. CASE ThrowAway
  <2>1. queue' \in Seq(Headers \cup Extensions) /\ buf' \in Headers \cup {Empty}
    BY <1>2, HeadType DEF ThrowAway
  <2>2. pc' \in {"header", "extension", "done"} /\ ret' \in {-1, 0, 1}
    BY <1>2 DEF ThrowAway, TypeOK
  <2>3. QED BY <1>2, <2>1, <2>2 DEF ThrowAway, TypeOK, args
<1>3. CASE TooBig BY <1>3 DEF TooBig, TypeOK, args
<1>4. CASE PollHeader
  <2>1. m_timout' \in 0 .. Polls BY <1>4, PollType DEF PollHeader
  <2>2. QED BY <1>4, <2>1 DEF PollHeader, TypeOK, args
<1>5. CASE TakeExtension
  <2>1. queue' \in Seq(Headers \cup Extensions) /\ ext_buf' \in Headers \cup Extensions
    BY <1>5, HeadType DEF TakeExtension
  <2>2. QED BY <1>5, <2>1 DEF TakeExtension, TypeOK, args
<1>6. CASE PollExtension
  <2>1. m_timout' \in 0 .. Polls BY <1>6, PollType DEF PollExtension
  <2>2. QED BY <1>6, <2>1 DEF PollExtension, TypeOK, args
<1>7. QED BY <1>1, <1>2, <1>3, <1>4, <1>5, <1>6 DEF Receive

-----------------------------------------------------------------------------
(* The pairs in the queue.                                                 *)

\* Senders put each extension behind its header.
LEMMA SendPaired ==
  ASSUME TypeOK, QueuePaired, SendHeader \/ SendExtension
  PROVE  QueuePaired'
<1>1. queue \in Seq(Headers \cup Extensions) BY DEF TypeOK
<1>2. CASE SendHeader
  <2>1. PICK h \in Headers : h.id = sent + 1 /\ queue' = Append(queue, h)
                            /\ owing' = IF h.extended THEN h.id ELSE 0
    BY <1>2 DEF SendHeader
  <2>2. owing = 0 BY <1>2 DEF SendHeader
  <2>3. ASSUME NEW j \in 1 .. Len(queue'), queue'[j].part = "header" /\ queue'[j].extended
        PROVE  IF j < Len(queue') THEN queue'[j + 1] = ExtensionOf(queue'[j])
                                  ELSE owing' = queue'[j].id
    <3>1. CASE j = Len(queue) + 1 BY <1>1, <2>1, <2>3, <3>1
    <3>2. CASE j \in 1 .. Len(queue)
      <4>1. queue'[j] = queue[j] /\ queue[j] \in Headers \cup Extensions BY <1>1, <2>1, <3>2
      <4>2. queue[j].id # 0
        <5>1. queue[j] \in Headers BY <2>3, <4>1 DEF Extensions
        <5>2. QED BY <5>1, ReceiveAssumption DEF Headers
      <4>3. j < Len(queue) /\ queue[j + 1] = ExtensionOf(queue[j])
        BY <2>2, <2>3, <3>2, <4>1, <4>2 DEF QueuePaired
      <4>4. queue'[j + 1] = queue[j + 1] /\ j < Len(queue') BY <1>1, <2>1, <4>3
      <4>5. QED BY <4>1, <4>3, <4>4
    <3>3. QED BY <1>1, <2>1, <3>1, <3>2
  <2>4. QED BY <2>3 DEF QueuePaired
<1>3. CASE SendExtension
  <2> DEFINE e == [part |-> "extension", id |-> owing]
  <2>1. queue' = Append(queue, e) BY <1>3 DEF SendExtension
  <2>2. e \in Extensions BY <1>3, ReceiveAssumption DEF SendExtension, TypeOK, Extensions
  <2>3. ASSUME NEW j \in 1 .. Len(queue'), queue'[j].part = "header" /\ queue'[j].extended
        PROVE  j < Len(queue') /\ queue'[j + 1] = ExtensionOf(queue'[j])
    <3>1. j # Len(queue) + 1 BY <1>1, <2>1, <2>3
    <3>2. j \in 1 .. Len(queue) /\ j < Len(queue') /\ queue'[j] = queue[j]
      BY <1>1, <2>1, <3>1
    <3>3. CASE j < Len(queue)
      <4>1. queue[j + 1] = ExtensionOf(queue[j]) BY <2>3, <3>2, <3>3 DEF QueuePaired
      <4>2. queue'[j + 1] = queue[j + 1] BY <1>1, <2>1, <3>2, <3>3
      <4>3. QED BY <3>2, <4>1, <4>2
    <3>4. CASE j = Len(queue)
      <4>1. owing = queue[j].id BY <2>3, <3>2, <3>4 DEF QueuePaired
      <4>2. queue'[j + 1] = e BY <1>1, <2>1, <3>4
      <4>3. QED BY <3>2, <4>1, <4>2 DEF ExtensionOf
    <3>5. QED BY <3>2, <3>3, <3>4, <1>1
  <2>4. QED BY <2>3 DEF QueuePaired
<1>4. QED BY <1>2, <1>3

\* Taking the head leaves the pairs behind it whole.
LEMMA TailPaired ==
  ASSUME TypeOK, QueuePaired, queue # <<>>, queue' = Tail(queue), owing' = owing
  PROVE  QueuePaired'
<1>1. ASSUME NEW j \in 1 .. Len(queue'), queue'[j].part = "header" /\ queue'[j].extended
      PROVE  IF j < Len(queue') THEN queue'[j + 1] = ExtensionOf(queue'[j])
                                ELSE owing' = queue'[j].id
  <2>1. Len(queue) \in Nat /\ Len(queue') = Len(queue) - 1 BY HeadType DEF TypeOK
  <2>2. j + 1 \in 1 .. Len(queue) /\ queue'[j] = queue[j + 1] BY HeadType, <2>1
  <2>3. IF j + 1 < Len(queue) THEN queue[j + 2] = ExtensionOf(queue[j + 1])
                              ELSE owing = queue[j + 1].id
    BY <1>1, <2>1, <2>2 DEF QueuePaired
  <2>4. j < Len(queue') => j + 1 < Len(queue) /\ queue'[j + 1] = queue[j + 2]
    BY HeadType, <2>1
  <2>5. QED BY <2>1, <2>2, <2>3, <2>4
<1>2. QED BY <1>1 DEF QueuePaired

-----------------------------------------------------------------------------
(* What the call knows.                                                    *)

Promises == CallInv /\ ConfirmIsWanted /\ ExtensionIsOwn /\ SilenceFails

\* A sender changes what comes next only when the queue is empty, and then to
\* the extension the call is waiting for.
LEMMA SendPromises ==
  ASSUME TypeOK, Promises, SendHeader \/ SendExtension
  PROVE  Promises'
<1>1. queue \in Seq(Headers \cup Extensions) BY DEF TypeOK
<1>2. UNCHANGED <<args, m_timout, buf, ext_buf, msg_arrived, pc, ret>>
  BY DEF SendHeader, SendExtension
<1>3. pc = "extension" =>
        IF queue' = <<>> THEN owing' = buf.id ELSE queue'[1] = ExtensionOf(buf)
  <2> SUFFICES ASSUME pc = "extension"
               PROVE  IF queue' = <<>> THEN owing' = buf.id ELSE queue'[1] = ExtensionOf(buf)
    OBVIOUS
  <2>1. buf \in Headers /\ buf.id # 0
    BY ReceiveAssumption DEF Promises, CallInv, Headers
  <2>2. PICK m : queue' = Append(queue, m)
                 /\ (queue = <<>> /\ owing # 0 => m = [part |-> "extension", id |-> owing])
    <3>1. CASE SendHeader BY <3>1 DEF SendHeader
    <3>2. CASE SendExtension BY <3>2 DEF SendExtension
    <3>3. QED BY <3>1, <3>2
  <2>3. queue' # <<>> BY <1>1, <2>2
  <2>4. CASE queue = <<>>
    <3>1. owing = buf.id BY <2>4 DEF Promises, CallInv
    <3>2. QED BY <1>1, <2>1, <2>2, <2>3, <2>4, <3>1 DEF ExtensionOf
  <2>5. CASE queue # <<>>
    <3>1. queue'[1] = queue[1] BY <1>1, <2>2, <2>5
    <3>2. QED BY <2>3, <2>5, <3>1 DEF Promises, CallInv
  <2>6. QED BY <2>4, <2>5
<1>4. QED
  BY <1>2, <1>3 DEF Promises, CallInv, ConfirmIsWanted, ExtensionIsOwn, SilenceFails, args

\* The confirm that is taken is the one that is waited for, and its extension
\* is then the next message of the queue.
LEMMA TakeHeaderPromises ==
  ASSUME TypeOK, QueuePaired, Promises, TakeHeader
  PROVE  Promises'
<1> DEFINE h == Head(queue)
<1>1. /\ pc = "header" /\ queue # <<>> /\ h.part = "header"
      /\ (h.confirm => h.seq = "wanted" /\ h.mcmd = "wanted")
      /\ buf' = h /\ AfterHeader(h) /\ queue' = Tail(queue) /\ msg_arrived' = TRUE
      /\ UNCHANGED <<sent, owing, args, m_timout, ext_buf>>
  BY DEF TakeHeader, Matches
<1>2. h \in Headers /\ h # Empty BY <1>1, HeadType DEF Headers
<1>3. h.extended =>
        IF queue' = <<>> THEN owing' = h.id ELSE queue'[1] = ExtensionOf(h)
  <2>1. Len(queue) \in Nat \ {0} /\ Len(queue') = Len(queue) - 1
    BY <1>1, HeadType DEF TypeOK
  <2>2. queue[1] = h BY <1>1, HeadType
  <2>3. h.extended => IF 1 < Len(queue) THEN queue[2] = ExtensionOf(h) ELSE owing = h.id
    BY <1>1, <2>1, <2>2 DEF QueuePaired
  <2>4. 1 < Len(queue) => queue' # <<>> /\ queue'[1] = queue[2]
    <3> SUFFICES ASSUME 1 < Len(queue) PROVE queue' # <<>> /\ queue'[1] = queue[2]
      OBVIOUS
    <3>1. Len(queue') # 0 BY <2>1, SMTT(30)
    <3>2. 1 \in 1 .. Len(Tail(queue)) BY <1>1, <2>1
    <3>3. Tail(queue)[1] = queue[1 + 1] BY <1>1, <3>2, HeadType
    <3>4. queue'[1] = queue[2] BY <1>1, <3>3
    <3>5. queue' # <<>> BY <3>1
    <3>6. QED BY <3>4, <3>5
  <2>5. ~(1 < Len(queue)) => queue' = <<>>
    <3>1. queue' \in Seq(Headers \cup Extensions) BY <1>1, HeadType
    <3>2. QED BY <2>1, <3>1
  <2>6. QED BY <1>1, <2>3, <2>4, <2>5
<1>4. pc' \in {"extension", "done"} /\ (pc' = "extension" => h.extended /\ ret' = ret)
  BY <1>1 DEF AfterHeader, Finish, Return
<1>5. pc' = "done" /\ ret' = 0 => ~h.extended
  BY <1>1 DEF AfterHeader, Finish, Return
<1>6. CallInv' BY <1>1, <1>2, <1>3, <1>4 DEF Promises, CallInv, args
<1>7. ret' = 0 => pc' = "done"
  BY <1>1, <1>4 DEF Promises, CallInv
<1>8. QED
  BY <1>1, <1>2, <1>5, <1>6, <1>7
  DEF Promises, ConfirmIsWanted, ExtensionIsOwn, SilenceFails

\* No step of the receiver but TakeHeader ends the call with a new message.
LEMMA ReceivePromises ==
  ASSUME TypeOK, QueuePaired, Promises, Receive
  PROVE  Promises'
<1> USE DEF Finish, Return
<1>1. CASE TakeHeader BY <1>1, TakeHeaderPromises
<1>2. CASE ThrowAway
  <2>1. CASE m_timout > 0
    BY <1>2, <2>1 DEF ThrowAway, Promises, CallInv, ConfirmIsWanted, ExtensionIsOwn,
         SilenceFails, args
  <2>2. CASE ~(m_timout > 0)
    BY <1>2, <2>2 DEF ThrowAway, Promises, CallInv, ConfirmIsWanted, ExtensionIsOwn,
         SilenceFails, args
  <2>3. QED BY <2>1, <2>2
<1>3. CASE TooBig
  BY <1>3 DEF TooBig, Promises, CallInv, ConfirmIsWanted, ExtensionIsOwn, SilenceFails
<1>4. CASE PollHeader
  <2>1. m_timout \in 1 .. Polls /\ buf = Empty /\ m_timout' = m_timout - 1
    BY <1>4, PollType DEF PollHeader, Promises, CallInv
  <2>2. CASE m_timout' > 0
    BY <1>4, <2>1, <2>2 DEF PollHeader, Promises, CallInv, ConfirmIsWanted, ExtensionIsOwn,
         SilenceFails, args
  <2>3. CASE ~(m_timout' > 0)
    <3>1. m_timout' = 0 BY <2>1, <2>3
    <3>2. QED
      BY <1>4, <2>1, <3>1 DEF PollHeader, Promises, CallInv, ConfirmIsWanted,
           ExtensionIsOwn, SilenceFails, args
  <2>4. QED BY <2>2, <2>3
<1>5. CASE TakeExtension
  <2>1. ext_buf' = ExtensionOf(buf)
    BY <1>5, HeadType DEF TakeExtension, Promises, CallInv
  <2>2. QED
    BY <1>5, <2>1 DEF TakeExtension, Promises, CallInv, ConfirmIsWanted, ExtensionIsOwn,
         SilenceFails, ExtensionOf, args
<1>6. CASE PollExtension
  <2>1. m_timout \in 1 .. Polls /\ m_timout' = m_timout - 1
    BY <1>6, PollType DEF PollExtension, Promises
  <2>2. CASE m_timout' > 0
    BY <1>6, <2>1, <2>2 DEF PollExtension, Promises, CallInv, ConfirmIsWanted,
         ExtensionIsOwn, SilenceFails, args
  <2>3. CASE ~(m_timout' > 0)
    <3>1. m_timout' = 0 BY <2>1, <2>3
    <3>2. QED
      BY <1>6, <2>1, <3>1 DEF PollExtension, Promises, CallInv, ConfirmIsWanted,
           ExtensionIsOwn, SilenceFails, args
  <2>4. QED BY <2>2, <2>3
<1>7. QED BY <1>1, <1>2, <1>3, <1>4, <1>5, <1>6 DEF Receive

-----------------------------------------------------------------------------
(* Theorems.                                                               *)

\* The inductive invariant holds for every number of polls and messages.
THEOREM ReceiveInvCorrect == Spec => []ReceiveInv
<1>1. Init => ReceiveInv
  <2> SUFFICES ASSUME Init PROVE ReceiveInv
    OBVIOUS
  <2>1. QueuePaired BY DEF Init, QueuePaired
  <2>2. CallInv BY ReceiveAssumption DEF Init, CallInv
  <2>3. ConfirmIsWanted /\ ExtensionIsOwn /\ SilenceFails
    BY DEF Init, ConfirmIsWanted, ExtensionIsOwn, SilenceFails
  <2>4. QED BY <2>1, <2>2, <2>3, InitTypeOK DEF ReceiveInv
<1>2. ReceiveInv /\ [Next]_vars => ReceiveInv'
  <2> SUFFICES ASSUME ReceiveInv, [Next]_vars PROVE ReceiveInv'
    OBVIOUS
  <2>1. TypeOK /\ QueuePaired /\ Promises BY DEF ReceiveInv, Promises
  <2>2. CASE SendHeader \/ SendExtension
    <3>1. TypeOK' /\ QueuePaired' /\ Promises'
      BY <2>1, <2>2, SendTypeOK, SendPaired, SendPromises
    <3>2. QED BY <3>1 DEF ReceiveInv, Promises
  <2>3. CASE Receive
    <3>1. TypeOK' /\ Promises'
      <4>1. CallInv BY <2>1 DEF Promises
      <4>2. QED BY <2>1, <2>3, <4>1, ReceiverTypeOK, ReceivePromises
    <3>2. ASSUME UNCHANGED <<queue, owing>> PROVE QueuePaired' BY <2>1, <3>2 DEF QueuePaired
    <3>3. ASSUME queue # <<>> /\ queue' = Tail(queue) /\ owing' = owing PROVE QueuePaired'
      BY <2>1, <3>3, TailPaired
    <3>4. UNCHANGED <<queue, owing>> \/ (queue # <<>> /\ queue' = Tail(queue) /\ owing' = owing)
      BY <2>3 DEF Receive, TakeHeader, ThrowAway, TooBig, PollHeader, TakeExtension,
           PollExtension
    <3>5. QueuePaired' BY <3>2, <3>3, <3>4
    <3>6. QED BY <3>1, <3>5 DEF ReceiveInv, Promises
  <2>4. CASE UNCHANGED vars
    BY <2>1, <2>4 DEF vars, args, ReceiveInv, TypeOK, QueuePaired, CallInv, Promises,
         ConfirmIsWanted, ExtensionIsOwn, SilenceFails
  <2>5. QED BY <2>2, <2>3, <2>4 DEF Next
<1>3. QED BY <1>1, <1>2, PTL DEF Spec

\* A call never leaves a variable with a value of another type; the countdown
\* stays within its start value.
THEOREM ReceiveTypeCorrect == Spec => []TypeOK
BY ReceiveInvCorrect, PTL DEF ReceiveInv

\* A late answer to an earlier request never passes for the one that is
\* waited for.
THEOREM ConfirmIsWantedCorrect == Spec => []ConfirmIsWanted
BY ReceiveInvCorrect, PTL DEF ReceiveInv

\* A message that is delivered in time comes with its own extension, when
\* senders do not mix their two parts.
THEOREM ExtensionIsOwnCorrect == Spec => []ExtensionIsOwn
BY ReceiveInvCorrect, PTL DEF ReceiveInv

\* A call during which nothing arrived fails.
THEOREM SilenceFailsCorrect == Spec => []SilenceFails
BY ReceiveInvCorrect, PTL DEF ReceiveInv

(***************************************************************************)
(* The callback queue                                                      *)
(***************************************************************************)

Types == Pids \cup {Server}
\* What may lie under a type.
Letters(t) == IF t = Server THEN {Answer(0), Answer(1)} ELSE {m \in Messages : m.kind # "answer"}

\* The queue keeps its types and its capacity.
RoomInv ==
  /\ DOMAIN cbq = Types /\ \A t \in Types : cbq[t] \in Seq(Letters(t))
  /\ capacity \in Nat /\ IsFiniteSet(Queued) /\ Cardinality(Queued) <= capacity

\* What the threads have at hand: a header is sent when there is an event, and
\* its extension to the same client; a client that answers has had an echo.
ThreadsInv ==
  /\ callback \in [Slots -> BOOLEAN] /\ events \in 0 .. MaxEvents
  /\ l \in [pc : {"idle", "test", "read", "header", "extension"}, i : Slots, to : Pids \cup {0}]
  /\ l.pc # "idle" => events # 0
  /\ l.pc = "extension" => l.to \in Pids
  /\ k \in [pc : {"sleep", "scan", "echo", "wait", "pull", "pull_ext"}, i : Slots, arrived : BOOLEAN]
  /\ client \in [Pids -> [pc : {"receive", "extension", "answer", "jammed", "dead"}, n : Nat]]
  /\ \A p \in Pids : client[p].pc = "answer" => client[p].n \in 0 .. 1

QueueInv == RoomInv /\ ThreadsInv /\ EventsInPairs /\ OneAnswerExpected

\* What a message can be.
LEMMA MessageKinds ==
  /\ \A m \in Messages :
       \/ m.kind \in {"event", "info"} /\ m.n \in 1 .. MaxEvents
       \/ m.kind \in {"echo", "answer"} /\ m.n \in 0 .. 1
  /\ \A n \in 1 .. MaxEvents : Event(n) \in Messages /\ Info(n) \in Messages
  /\ \A n \in 0 .. 1 : Echo(n) \in Messages /\ Answer(n) \in Messages
BY DEF Messages, Event, Info, Echo, Answer

LEMMA FirstClient == 1 \in Slots /\ Slots = 1 .. Len(Clients) /\ \A i \in Slots : Clients[i] \in Pids
<1>1. Slots = 1 .. Len(Clients) /\ Len(Clients) \in Nat BY QueueAssumption, LenProperties DEF Slots
<1>2. Len(Clients) # 0 BY QueueAssumption, EmptySeq
<1>3. \A i \in Slots : Clients[i] \in Pids BY QueueAssumption, ElementOfSeq, <1>1
<1>4. QED BY <1>1, <1>2, <1>3

-----------------------------------------------------------------------------
(* What happens to the sequences                                           *)

\* What lies under a type is numbered from one.
LEMMA Numbered ==
  ASSUME RoomInv, NEW t \in Types
  PROVE  /\ cbq[t] \in Seq(Letters(t)) /\ Len(cbq[t]) \in Nat /\ DOMAIN cbq[t] = 1 .. Len(cbq[t])
         /\ \A j \in 1 .. Len(cbq[t]) : cbq[t][j] \in Letters(t)
         /\ cbq[t] # <<>> => Len(cbq[t]) # 0 /\ Head(cbq[t]) = cbq[t][1]
<1>1. cbq[t] \in Seq(Letters(t)) BY DEF RoomInv
<1>2. Len(cbq[t]) \in Nat /\ DOMAIN cbq[t] = 1 .. Len(cbq[t]) BY <1>1, LenProperties
<1>3. \A j \in 1 .. Len(cbq[t]) : cbq[t][j] \in Letters(t) BY <1>1, ElementOfSeq
<1>4. cbq[t] # <<>> => Len(cbq[t]) # 0 BY <1>1, EmptySeq
<1>5. Head(cbq[t]) = cbq[t][1] BY DEF Head
<1>6. QED BY <1>1, <1>2, <1>3, <1>4, <1>5

\* In the next state t has the messages it had, of the same kind, with m behind.
Longer(t, m) ==
  /\ DOMAIN cbq' = DOMAIN cbq
  /\ \A u \in Types : u # t => Len(cbq'[u]) = Len(cbq[u])
  /\ Len(cbq'[t]) = Len(cbq[t]) + 1 /\ cbq'[t][Len(cbq[t]) + 1] = m
  /\ \A u \in Types : cbq'[u] \in Seq(Letters(u))

LEMMA PutMeans ==
  ASSUME RoomInv, NEW t \in Types, NEW m \in Letters(t), Put(t, m)
  PROVE  /\ Longer(t, m)
         /\ \A u \in Types : \A j \in 1 .. Len(cbq[u]) : cbq'[u][j] = cbq[u][j]
<1>1. cbq[t] \in Seq(Letters(t)) /\ DOMAIN cbq = Types BY DEF RoomInv
<1>2. DOMAIN cbq' = Types /\ cbq'[t] = Append(cbq[t], m) /\ \A u \in Types : u # t => cbq'[u] = cbq[u]
  BY <1>1 DEF Put
<1>3. /\ Append(cbq[t], m) \in Seq(Letters(t)) /\ Len(Append(cbq[t], m)) = Len(cbq[t]) + 1
      /\ \A j \in 1 .. Len(cbq[t]) : Append(cbq[t], m)[j] = cbq[t][j]
      /\ Append(cbq[t], m)[Len(cbq[t]) + 1] = m
  BY <1>1, AppendProperties
<1>4. \A u \in Types : cbq[u] \in Seq(Letters(u)) BY DEF RoomInv
<1>5. QED BY <1>1, <1>2, <1>3, <1>4 DEF Longer

\* Under type t the first message goes.
LEMMA TakeMeans ==
  ASSUME RoomInv, NEW t \in Types, cbq[t] # <<>>, Take(t)
  PROVE  /\ DOMAIN cbq' = Types /\ \A u \in Types : u # t => cbq'[u] = cbq[u]
         /\ cbq'[t] \in Seq(Letters(t)) /\ Len(cbq[t]) \in Nat \ {0}
         /\ Len(cbq'[t]) = Len(cbq[t]) - 1
         /\ \A j \in 1 .. Len(cbq[t]) - 1 : cbq'[t][j] = cbq[t][j + 1]
<1>1. cbq[t] \in Seq(Letters(t)) /\ DOMAIN cbq = Types BY DEF RoomInv
<1>2. DOMAIN cbq' = Types /\ cbq'[t] = Tail(cbq[t]) /\ \A u \in Types : u # t => cbq'[u] = cbq[u]
  BY <1>1 DEF Take
<1>3. /\ Tail(cbq[t]) \in Seq(Letters(t)) /\ Len(Tail(cbq[t])) = Len(cbq[t]) - 1
      /\ \A j \in 1 .. Len(cbq[t]) - 1 : Tail(cbq[t])[j] = cbq[t][j + 1]
  BY <1>1, HeadTailProperties
<1>4. QED BY <1>1, <1>2, <1>3, Numbered

\* An echo goes behind the messages of p, and those that are older are out of date.
LEMMA EchoMeans ==
  ASSUME RoomInv, NEW p \in Pids, cbq' = [AgeAll EXCEPT ![p] = Append(@, Echo(1))]
  PROVE  /\ Longer(p, Echo(1))
         /\ \A u \in Types : \A j \in 1 .. Len(cbq[u]) : cbq'[u][j] = Age(cbq[u][j])
<1>1. \A u \in Types : Len(cbq[u]) \in Nat /\ DOMAIN cbq[u] = 1 .. Len(cbq[u]) BY Numbered
<1>2. DOMAIN cbq = Types BY DEF RoomInv
<1>3. ASSUME NEW u \in Types
      PROVE  /\ AgeAll[u] = [j \in 1 .. Len(cbq[u]) |-> Age(cbq[u][j])]
             /\ AgeAll[u] \in Seq(Letters(u)) /\ Len(AgeAll[u]) = Len(cbq[u])
  <2>1. AgeAll[u] = [j \in 1 .. Len(cbq[u]) |-> Age(cbq[u][j])] BY <1>1, <1>2 DEF AgeAll
  <2>2. ASSUME NEW j \in 1 .. Len(cbq[u]) PROVE Age(cbq[u][j]) \in Letters(u)
    <3>1. cbq[u][j] \in Letters(u) BY Numbered
    <3>2. QED BY <3>1, MessageKinds DEF Age, Letters, Messages, Answer
  <2>3. QED BY <1>1, <2>1, <2>2, LenProperties, SeqDef
<1>4. p \in Types /\ p # Server BY QueueAssumption DEF Types
<1>5. Echo(1) \in Letters(p) BY <1>4, MessageKinds DEF Letters, Echo
<1>6. DOMAIN AgeAll = Types BY <1>2 DEF AgeAll
<1>7. DOMAIN cbq' = Types /\ cbq'[p] = Append(AgeAll[p], Echo(1)) /\ \A u \in Types : u # p => cbq'[u] = AgeAll[u]
  BY <1>4, <1>6
<1>8. /\ Append(AgeAll[p], Echo(1)) \in Seq(Letters(p)) /\ Len(Append(AgeAll[p], Echo(1))) = Len(cbq[p]) + 1
      /\ \A j \in 1 .. Len(cbq[p]) : Append(AgeAll[p], Echo(1))[j] = AgeAll[p][j]
      /\ Append(AgeAll[p], Echo(1))[Len(cbq[p]) + 1] = Echo(1)
  <2> DEFINE q == AgeAll[p]  n == Len(cbq[p])  e == Echo(1)
  <2>1. q \in Seq(Letters(p)) /\ Len(q) = n /\ e \in Letters(p) BY <1>3, <1>4, <1>5
  <2> HIDE DEF q, n, e
  <2>2. /\ Append(q, e) \in Seq(Letters(p)) /\ Len(Append(q, e)) = n + 1
        /\ \A j \in 1 .. n : Append(q, e)[j] = q[j]
        /\ Append(q, e)[n + 1] = e
    BY <2>1, AppendProperties
  <2>3. QED BY <2>2 DEF q, n, e
<1>9. Longer(p, Echo(1)) BY <1>2, <1>3, <1>7, <1>8 DEF Longer
<1>10. QED BY <1>3, <1>4, <1>7, <1>8, <1>9

-----------------------------------------------------------------------------
(* The capacity                                                            *)

\* The places that are taken.
LEMMA Places ==
  ASSUME RoomInv
  PROVE  \A x : x \in Queued <=> \E u \in Types : \E j \in 1 .. Len(cbq[u]) : x = <<u, j>>
<1>1. \A u \in Types : DOMAIN cbq[u] = 1 .. Len(cbq[u]) BY Numbered
<1>2. QED BY <1>1 DEF Queued, RoomInv

LEMMA LongerCounts ==
  ASSUME RoomInv, NEW t \in Types, NEW m, Longer(t, m), HasRoom, UNCHANGED capacity
  PROVE  RoomInv' /\ Queued' = Queued \cup {<<t, Len(cbq[t]) + 1>>}
<1> DEFINE n == Len(cbq[t])
<1>1. n \in Nat BY Numbered
<1>2. DOMAIN cbq' = Types /\ \A u \in Types : cbq'[u] \in Seq(Letters(u)) BY DEF Longer, RoomInv
<1>3. Types' = Types /\ \A u \in Types : Letters(u)' = Letters(u) BY DEF Types, Letters, Messages, Answer
<1>4. \A u \in Types : DOMAIN cbq'[u] = 1 .. IF u = t THEN n + 1 ELSE Len(cbq[u])
  BY <1>2, LenProperties DEF Longer
<1>5. 1 .. n + 1 = (1 .. n) \cup {n + 1} BY <1>1
<1> HIDE DEF n
<1>6. \A x : x \in Queued' <=> \E u \in Types : \E j \in 1 .. IF u = t THEN n + 1 ELSE Len(cbq[u]) : x = <<u, j>>
  <2>1. \A x : x \in Queued' <=> \E u \in Types : \E j \in DOMAIN cbq'[u] : x = <<u, j>> BY <1>2 DEF Queued
  <2>2. QED BY <1>4, <2>1
<1>7. Queued' = Queued \cup {<<t, n + 1>>}
  <2>1. n = Len(cbq[t]) BY DEF n
  <2>2. ASSUME NEW x PROVE x \in Queued' <=> x \in Queued \cup {<<t, n + 1>>}
    <3>1. ASSUME NEW u \in Types, NEW j \in 1 .. IF u = t THEN n + 1 ELSE Len(cbq[u]), x = <<u, j>>
          PROVE  x \in Queued \cup {<<t, n + 1>>}
      BY <1>5, <2>1, <3>1, Places
    <3>2. ASSUME NEW u \in Types, NEW j \in 1 .. Len(cbq[u]), x = <<u, j>> PROVE x \in Queued'
      BY <1>5, <1>6, <2>1, <3>2
    <3>3. n + 1 \in 1 .. n + 1 BY <1>1
    <3>4. <<t, n + 1>> \in Queued' BY <1>6, <3>3
    <3>5. QED BY <1>6, <3>1, <3>2, <3>4, Places
  <2>3. QED BY <2>2
<1>8. IsFiniteSet(Queued) /\ Cardinality(Queued) \in Nat /\ Cardinality(Queued) < capacity /\ capacity \in Nat
  BY FS_CardinalityType DEF RoomInv, HasRoom
<1>9. /\ IsFiniteSet(Queued \cup {<<t, n + 1>>})
      /\ Cardinality(Queued \cup {<<t, n + 1>>}) \in {Cardinality(Queued), Cardinality(Queued) + 1}
  BY <1>8, FS_AddElement
<1>10. IsFiniteSet(Queued') /\ Cardinality(Queued') <= capacity BY <1>7, <1>8, <1>9
<1>11. QED BY <1>2, <1>3, <1>7, <1>10 DEF RoomInv, n

LEMMA TakeCounts ==
  ASSUME RoomInv, NEW t \in Types, cbq[t] # <<>>, Take(t), UNCHANGED capacity
  PROVE  /\ RoomInv'
         /\ \A x : x \in Queued' <=> \E u \in Types : \E j \in 1 .. Len(cbq'[u]) : x = <<u, j>>
<1>1. /\ DOMAIN cbq' = Types /\ \A u \in Types : u # t => cbq'[u] = cbq[u]
      /\ cbq'[t] \in Seq(Letters(t)) /\ Len(cbq[t]) \in Nat /\ Len(cbq'[t]) = Len(cbq[t]) - 1
  BY TakeMeans
<1>2. Types' = Types /\ \A u \in Types : Letters(u)' = Letters(u) BY DEF Types, Letters, Messages, Answer
<1>3. \A u \in Types : cbq'[u] \in Seq(Letters(u)) BY <1>1 DEF RoomInv
<1>4. \A u \in Types : DOMAIN cbq'[u] = 1 .. Len(cbq'[u]) BY <1>3, LenProperties
<1>5. \A x : x \in Queued' <=> \E u \in Types : \E j \in 1 .. Len(cbq'[u]) : x = <<u, j>>
  BY <1>1, <1>4 DEF Queued
<1>6. \A u \in Types : 1 .. Len(cbq'[u]) \subseteq 1 .. Len(cbq[u]) BY <1>1
<1>7. Queued' \subseteq Queued BY <1>5, <1>6, Places
<1>8. IsFiniteSet(Queued) /\ Cardinality(Queued) <= capacity /\ capacity \in Nat BY DEF RoomInv
<1>9. IsFiniteSet(Queued') /\ Cardinality(Queued') <= capacity BY <1>7, <1>8, FS_Subset, FS_CardinalityType
<1>10. QED BY <1>1, <1>2, <1>3, <1>5, <1>8, <1>9 DEF RoomInv

-----------------------------------------------------------------------------
(* Headers and their extensions                                            *)

\* A header that has its extension, in a queue with further messages.
LEMMA StillPaired ==
  ASSUME NEW S, NEW S2, NEW q \in Seq(S), NEW r \in Seq(S2), Len(q) <= Len(r), NEW j \in 1 .. Len(q),
         \A i \in 1 .. Len(q) : r[i] = q[i] \/ (q[i].kind \in {"echo", "answer"} /\ r[i].kind = q[i].kind),
         q[j].kind = "event"
  PROVE  /\ Paired(q, j) => Paired(r, j)
         /\ r[j] = q[j] /\ \A i \in 1 .. Len(q) : r[i].kind = q[i].kind
<1>1. Len(q) \in Nat /\ DOMAIN q = 1 .. Len(q) /\ Len(r) \in Nat /\ DOMAIN r = 1 .. Len(r) BY LenProperties
<1>2. r[j] = q[j] /\ \A i \in 1 .. Len(q) : r[i].kind = q[i].kind OBVIOUS
<1>3. ASSUME NEW h \in 1 .. Len(q), j < h, q[h] = Info(q[j].n), \A i \in j + 1 .. h - 1 : q[i].kind = "echo"
      PROVE  Paired(r, j)
  <2>1. q[h].kind = "info" BY <1>3 DEF Info
  <2>2. r[h] = Info(r[j].n) BY <1>2, <1>3, <2>1
  <2>3. \A i \in j + 1 .. h - 1 : r[i].kind = "echo" BY <1>1, <1>2, <1>3
  <2>4. h \in DOMAIN r BY <1>1
  <2>5. QED BY <1>3, <2>2, <2>3, <2>4 DEF Paired
<1>4. QED BY <1>1, <1>2, <1>3 DEF Paired

\* A message that is put behind the others leaves each header its extension, and
\* an unfinished one unfinished if it is an echo.
LEMMA LongerKeepsPairs ==
  ASSUME RoomInv, EventsInPairs, NEW t \in Types, NEW m, Longer(t, m),
         \A p \in Pids : \A j \in 1 .. Len(cbq[p]) :
           cbq'[p][j] = cbq[p][j] \/ (cbq[p][j].kind \in {"echo", "answer"} /\ cbq'[p][j].kind = cbq[p][j].kind),
         t \in Pids => m.kind = "echo", UNCHANGED <<l, events>>
  PROVE  EventsInPairs'
<1> SUFFICES ASSUME NEW p \in Pids, NEW j \in DOMAIN cbq'[p], cbq'[p][j].kind = "event"
             PROVE  Paired(cbq'[p], j) \/ Unfinished(p, j)'
  BY DEF EventsInPairs
<1>1. p \in Types BY DEF Types
<1>2. cbq[p] \in Seq(Letters(p)) /\ Len(cbq[p]) \in Nat /\ DOMAIN cbq[p] = 1 .. Len(cbq[p]) BY <1>1, Numbered
<1>3. cbq'[p] \in Seq(Letters(p)) /\ Len(cbq'[p]) = IF p = t THEN Len(cbq[p]) + 1 ELSE Len(cbq[p])
  BY <1>1 DEF Longer
<1>4. DOMAIN cbq'[p] = 1 .. Len(cbq'[p]) BY <1>3, LenProperties
<1>5. p = t => cbq'[p][Len(cbq[p]) + 1].kind = "echo" BY DEF Longer
<1>6. j \in 1 .. Len(cbq[p]) BY <1>2, <1>3, <1>4, <1>5
<1>7. cbq[p][j].kind = "event" BY <1>6
<1>8. /\ Paired(cbq[p], j) => Paired(cbq'[p], j)
      /\ cbq'[p][j] = cbq[p][j] /\ \A i \in 1 .. Len(cbq[p]) : cbq'[p][i].kind = cbq[p][i].kind
  <2> DEFINE q == cbq[p]  r == cbq'[p]
  <2>1. q \in Seq(Letters(p)) /\ r \in Seq(Letters(p)) /\ Len(q) <= Len(r) BY <1>2, <1>3
  <2>2. \A i \in 1 .. Len(q) : r[i] = q[i] \/ (q[i].kind \in {"echo", "answer"} /\ r[i].kind = q[i].kind) OBVIOUS
  <2>3. j \in 1 .. Len(q) /\ q[j].kind = "event" BY <1>6, <1>7
  <2> HIDE DEF q, r
  <2>4. (Paired(q, j) => Paired(r, j)) /\ r[j] = q[j] /\ \A i \in 1 .. Len(q) : r[i].kind = q[i].kind
    BY <2>1, <2>2, <2>3, StillPaired
  <2>5. QED BY <2>4 DEF q, r
<1>9. Unfinished(p, j) => Unfinished(p, j)'
  <2> SUFFICES ASSUME Unfinished(p, j) PROVE Unfinished(p, j)' OBVIOUS
  <2>1. \A i \in j + 1 .. Len(cbq'[p]) : cbq'[p][i].kind = "echo"
    BY <1>2, <1>3, <1>5, <1>6, <1>8 DEF Unfinished
  <2>2. QED BY <1>8, <2>1 DEF Unfinished
<1>10. QED BY <1>2, <1>6, <1>7, <1>8, <1>9 DEF EventsInPairs

\* So does one that is taken from the front.
LEMMA TakeKeepsPairs ==
  ASSUME RoomInv, EventsInPairs, NEW t \in Types, cbq[t] # <<>>, Take(t), UNCHANGED <<l, events>>
  PROVE  EventsInPairs'
<1> SUFFICES ASSUME NEW p \in Pids, NEW j \in DOMAIN cbq'[p], cbq'[p][j].kind = "event"
             PROVE  Paired(cbq'[p], j) \/ Unfinished(p, j)'
  BY DEF EventsInPairs
<1>1. p \in Types BY DEF Types
<1>2. /\ \A u \in Types : u # t => cbq'[u] = cbq[u]
      /\ cbq'[t] \in Seq(Letters(t)) /\ Len(cbq[t]) \in Nat \ {0} /\ Len(cbq'[t]) = Len(cbq[t]) - 1
      /\ \A i \in 1 .. Len(cbq[t]) - 1 : cbq'[t][i] = cbq[t][i + 1]
  BY TakeMeans
<1>3. CASE p # t BY <1>1, <1>2, <1>3 DEF EventsInPairs, Unfinished
<1>4. CASE p = t
  <2> DEFINE n == Len(cbq[p])
  <2>1. DOMAIN cbq'[p] = 1 .. n - 1 /\ Len(cbq'[p]) = n - 1 /\ DOMAIN cbq[p] = 1 .. n /\ n \in Nat
    BY <1>1, <1>2, <1>4, Numbered, LenProperties
  <2>2. \A i \in 1 .. n - 1 : cbq'[p][i] = cbq[p][i + 1] BY <1>2, <1>4
  <2> HIDE DEF n
  <2>3. j \in 1 .. n - 1 /\ j + 1 \in 1 .. n /\ cbq[p][j + 1].kind = "event" BY <2>1, <2>2
  <2>4. CASE Paired(cbq[p], j + 1)
    <3>1. PICK h \in 1 .. n : /\ j + 1 < h /\ cbq[p][h] = Info(cbq[p][j + 1].n)
                              /\ \A i \in (j + 1) + 1 .. h - 1 : cbq[p][i].kind = "echo"
      BY <2>1, <2>3, <2>4 DEF Paired
    <3>2. h - 1 \in 1 .. n - 1 /\ j < h - 1 BY <2>1, <2>3, <3>1
    <3>3. cbq'[p][h - 1] = cbq[p][h] /\ cbq'[p][j] = cbq[p][j + 1] BY <2>1, <2>2, <2>3, <3>2
    <3>4. ASSUME NEW i \in j + 1 .. h - 2 PROVE cbq'[p][i].kind = "echo"
      <4>1. i \in 1 .. n - 1 /\ i + 1 \in (j + 1) + 1 .. h - 1 BY <2>1, <2>3, <3>1
      <4>2. QED BY <2>2, <3>1, <4>1
    <3>5. (h - 1) - 1 = h - 2 /\ h - 1 \in DOMAIN cbq'[p] BY <2>1, <3>1, <3>2
    <3>6. QED BY <3>1, <3>2, <3>3, <3>4, <3>5 DEF Paired
  <2>5. CASE Unfinished(p, j + 1)
    <3>1. \A i \in j + 2 .. n : cbq[p][i].kind = "echo" BY <2>1, <2>3, <2>5 DEF Unfinished, n
    <3>2. ASSUME NEW i \in j + 1 .. n - 1 PROVE cbq'[p][i].kind = "echo"
      <4>1. i \in 1 .. n - 1 /\ i + 1 \in j + 2 .. n BY <2>1, <2>3
      <4>2. QED BY <2>2, <3>1, <4>1
    <3>3. cbq'[p][j] = cbq[p][j + 1] BY <2>2, <2>3
    <3>4. QED BY <2>1, <2>5, <3>2, <3>3 DEF Unfinished
  <2>6. QED BY <2>1, <2>3, <2>4, <2>5 DEF EventsInPairs
<1>5. QED BY <1>3, <1>4

\* Where neither the queue nor what the linkscan thread is sending changes.
LEMMA SamePairs ==
  ASSUME EventsInPairs, UNCHANGED cbq, l.pc = "extension" => UNCHANGED <<l, events>>
  PROVE  EventsInPairs'
BY DEF EventsInPairs, Unfinished

-----------------------------------------------------------------------------
(* One answer is expected                                                  *)

Awaited(m) == m = Echo(1) \/ m = Answer(1)
Answering(p) == client[p].pc = "answer" /\ client[p].n = 1

\* Where the echo or the answer is.
Whereabouts ==
  \A x : x \in Current <=> \/ \E u \in Types : \E j \in 1 .. Len(cbq[u]) : x = <<u, j>> /\ Awaited(cbq[u][j])
                         \/ \E p \in Pids : x = <<p, 0>> /\ Answering(p)

LEMMA InCurrent == RoomInv => Whereabouts
<1> SUFFICES ASSUME RoomInv, NEW x
             PROVE  x \in Current <=> \/ \E u \in Types : \E j \in 1 .. Len(cbq[u]) : x = <<u, j>> /\ Awaited(cbq[u][j])
                                     \/ \E p \in Pids : x = <<p, 0>> /\ Answering(p)
  BY DEF Whereabouts
<1>1. x \in Queued <=> \E u \in Types : \E j \in 1 .. Len(cbq[u]) : x = <<u, j>> BY Places
<1>2. x \in Current <=> \/ x \in Queued /\ Awaited(cbq[x[1]][x[2]])
                       \/ \E p \in Pids : x = <<p, 0>> /\ Answering(p)
  BY DEF Current, Awaited, Answering
<1>3. \A u, j : <<u, j>>[1] = u /\ <<u, j>>[2] = j OBVIOUS
<1>4. QED BY <1>1, <1>2, <1>3

LEMMA InCurrentNext ==
  ASSUME RoomInv'
  PROVE  \A x : x \in Current' <=> \/ \E u \in Types : \E j \in 1 .. Len(cbq'[u]) : x = <<u, j>> /\ Awaited(cbq'[u][j])
                                 \/ \E p \in Pids : x = <<p, 0>> /\ Answering(p)'
<1>1. Whereabouts' BY InCurrent, PTL
<1>2. QED BY <1>1 DEF Whereabouts, Types, Awaited, Answering, Echo, Answer

\* The one that is expected stays where it is, or moves behind the messages of t
\* from the client who has had it at hand.
LEMMA LongerKeepsOne ==
  ASSUME RoomInv, RoomInv', OneAnswerExpected, NEW t \in Types, NEW m, Longer(t, m),
         \A u \in Types : \A j \in 1 .. Len(cbq[u]) : Awaited(cbq'[u][j]) => Awaited(cbq[u][j]),
         \A p \in Pids : Answering(p)' => Answering(p),
         Awaited(m) => \E p \in Pids : Answering(p) /\ ~Answering(p)'
  PROVE  OneAnswerExpected'
<1> DEFINE n == Len(cbq[t])
<1>1. n \in Nat BY Numbered
<1>2. \A u \in Types : Len(cbq'[u]) = IF u = t THEN n + 1 ELSE Len(cbq[u]) BY DEF Longer
<1>3. cbq'[t][n + 1] = m BY DEF Longer
<1> HIDE DEF n
<1>4. ASSUME NEW x \in Current' PROVE x \in Current \/ (x = <<t, n + 1>> /\ Awaited(m))
  <2>1. ASSUME NEW p \in Pids, x = <<p, 0>>, Answering(p)' PROVE x \in Current
    BY <2>1, InCurrent DEF Whereabouts
  <2>2. ASSUME NEW u \in Types, NEW j \in 1 .. Len(cbq'[u]), x = <<u, j>>, Awaited(cbq'[u][j])
        PROVE  x \in Current \/ (x = <<t, n + 1>> /\ Awaited(m))
    <3>1. CASE u = t /\ j = n + 1 BY <1>3, <2>2, <3>1
    <3>2. CASE ~(u = t /\ j = n + 1)
      <4>1. j \in 1 .. Len(cbq[u]) BY <1>1, <1>2, <3>2 DEF n
      <4>2. Awaited(cbq[u][j]) BY <2>2, <4>1
      <4>3. QED BY <2>2, <4>1, <4>2, InCurrent DEF Whereabouts
    <3>3. QED BY <3>1, <3>2
  <2>3. QED BY <2>1, <2>2, InCurrentNext
<1>5. CASE ~Awaited(m) BY <1>4, <1>5 DEF OneAnswerExpected
<1>6. CASE Awaited(m)
  <2>1. PICK p \in Pids : Answering(p) /\ ~Answering(p)' BY <1>6
  <2>2. <<p, 0>> \in Current BY <2>1, InCurrent DEF Whereabouts
  <2>3. <<p, 0>> \notin Current'
    <3>1. ASSUME NEW u \in Types, NEW j \in 1 .. Len(cbq'[u]) PROVE <<p, 0>> # <<u, j>> OBVIOUS
    <3>2. ASSUME NEW q \in Pids, <<p, 0>> = <<q, 0>> PROVE ~Answering(q)' BY <2>1, <3>2
    <3>3. QED BY <3>1, <3>2, InCurrentNext
  <2>4. QED BY <1>4, <2>2, <2>3 DEF OneAnswerExpected
<1>7. QED BY <1>5, <1>6

\* After an echo it is the only one.
LEMMA EchoIsOne ==
  ASSUME RoomInv, RoomInv', NEW t \in Types, Longer(t, Echo(1)),
         \A u \in Types : \A j \in 1 .. Len(cbq[u]) : ~Awaited(cbq'[u][j]), \A p \in Pids : ~Answering(p)'
  PROVE  OneAnswerExpected'
<1> DEFINE n == Len(cbq[t])
<1>1. n \in Nat BY Numbered
<1>2. \A u \in Types : Len(cbq'[u]) = IF u = t THEN n + 1 ELSE Len(cbq[u]) BY DEF Longer
<1> HIDE DEF n
<1>3. ASSUME NEW u \in Types, NEW j \in 1 .. Len(cbq'[u]), Awaited(cbq'[u][j]) PROVE u = t /\ j = n + 1
  <2>1. ~(j \in 1 .. Len(cbq[u])) BY <1>3
  <2>2. QED BY <1>1, <1>2, <2>1 DEF n
<1>4. \A x \in Current' : x = <<t, n + 1>> BY <1>3, InCurrentNext
<1>5. QED BY <1>4 DEF OneAnswerExpected

\* The first message under t goes, to the client if it is the one expected.
LEMMA TakeKeepsOne ==
  ASSUME RoomInv, RoomInv', OneAnswerExpected, NEW t \in Types, cbq[t] # <<>>, Take(t),
         \A p \in Pids : Answering(p)' => Answering(p) \/ (p = t /\ Awaited(cbq[t][1]))
  PROVE  OneAnswerExpected'
<1> DEFINE n == Len(cbq[t])
<1>1. /\ \A u \in Types : u # t => cbq'[u] = cbq[u]
      /\ n \in Nat \ {0} /\ Len(cbq'[t]) = n - 1 /\ \A j \in 1 .. n - 1 : cbq'[t][j] = cbq[t][j + 1]
  BY TakeMeans
<1>2. n = Len(cbq[t]) OBVIOUS
<1> HIDE DEF n
\* Where it was.
<1> DEFINE was(x) == IF x[2] = 0 THEN IF Answering(x[1]) THEN x ELSE <<t, 1>>
                     ELSE IF x[1] = t THEN <<t, x[2] + 1>> ELSE x
<1>3. ASSUME NEW p \in Pids, Answering(p)' PROVE was(<<p, 0>>) \in Current
  <2>1. CASE Answering(p) BY <2>1, InCurrent DEF Whereabouts
  <2>2. CASE ~Answering(p)
    <3>1. Awaited(cbq[t][1]) /\ 1 \in 1 .. Len(cbq[t]) BY <1>1, <1>2, <1>3, <2>2
    <3>2. <<t, 1>> \in Current BY <3>1, InCurrent DEF Whereabouts
    <3>3. QED BY <2>2, <3>2
  <2>3. QED BY <2>1, <2>2
<1>4. ASSUME NEW u \in Types, NEW j \in 1 .. Len(cbq'[u]), Awaited(cbq'[u][j])
      PROVE  was(<<u, j>>) \in Current /\ j # 0
  <2>1. CASE u = t
    <3>1. j + 1 \in 1 .. Len(cbq[t]) /\ Awaited(cbq[t][j + 1]) /\ j # 0 BY <1>1, <1>2, <1>4, <2>1
    <3>2. <<t, j + 1>> \in Current BY <3>1, InCurrent DEF Whereabouts
    <3>3. QED BY <2>1, <3>1, <3>2
  <2>2. CASE u # t
    <3>1. j \in 1 .. Len(cbq[u]) /\ Awaited(cbq[u][j]) /\ j # 0 BY <1>1, <1>4, <2>2
    <3>2. <<u, j>> \in Current BY <3>1, InCurrent DEF Whereabouts
    <3>3. QED BY <2>2, <3>1, <3>2
  <2>3. QED BY <2>1, <2>2
<1>5. \A x \in Current' : was(x) \in Current BY <1>3, <1>4, InCurrentNext
<1>6. ASSUME NEW x \in Current', NEW y \in Current', was(x) = was(y) PROVE x = y
  <2>1. ASSUME NEW z \in Current'
        PROVE  \/ \E p \in Pids : z = <<p, 0>> /\ (was(z) = z \/ (p = t /\ was(z) = <<t, 1>>))
               \/ \E u \in Types : \E j \in Nat \ {0} : z = <<u, j>> /\ was(z) = IF u = t THEN <<u, j + 1>> ELSE z
    <3>1. ASSUME NEW p \in Pids, z = <<p, 0>>, Answering(p)' PROVE was(z) = z \/ (p = t /\ was(z) = <<t, 1>>)
      BY <3>1
    <3>2. ASSUME NEW u \in Types, NEW j \in 1 .. Len(cbq'[u]), z = <<u, j>>
          PROVE  j \in Nat \ {0} /\ was(z) = IF u = t THEN <<u, j + 1>> ELSE z
      BY <3>2
    <3> HIDE DEF was
    <3>3. QED BY <3>1, <3>2, InCurrentNext
  <2> HIDE DEF was
  <2>2. QED BY <1>6, <2>1
<1> HIDE DEF was
<1>7. QED BY <1>5, <1>6 DEF OneAnswerExpected

\* Nothing moves, or the client loses what it had.
LEMMA FewerKeepOne ==
  ASSUME RoomInv, RoomInv', OneAnswerExpected, UNCHANGED cbq, \A p \in Pids : Answering(p)' => Answering(p)
  PROVE  OneAnswerExpected'
<1>1. Current' \subseteq Current BY InCurrentNext, InCurrent DEF Whereabouts
<1>2. QED BY <1>1 DEF OneAnswerExpected

-----------------------------------------------------------------------------
(* The steps of the linkscan thread                                        *)

LEMMA Constant ==
  ASSUME NEW u \in Types PROVE Types' = Types /\ Letters(u)' = Letters(u)
BY DEF Types, Letters, Messages, Answer

\* A step of a thread that leaves the queue alone keeps it, and the rest too as
\* long as the linkscan thread is not between the two parts of an event.
LEMMA QuietKeeps ==
  ASSUME QueueInv, ThreadsInv', UNCHANGED <<cbq, capacity>>, l.pc = "extension" => UNCHANGED <<l, events>>,
         \A p \in Pids : Answering(p)' => Answering(p)
  PROVE  QueueInv'
<1>1. RoomInv'
  <2>1. Queued' = Queued BY DEF Queued
  <2>2. QED BY <2>1, Constant DEF QueueInv, RoomInv
<1>2. EventsInPairs' BY SamePairs DEF QueueInv
<1>3. OneAnswerExpected' BY <1>1, FewerKeepOne DEF QueueInv
<1>4. QED BY <1>1, <1>2, <1>3 DEF QueueInv

LEMMA LinkscanKeeps ==
  ASSUME QueueInv, LinkEvent \/ TestSlot \/ ReadPid, UNCHANGED capacity
  PROVE  QueueInv'
<1>1. UNCHANGED <<cbq, callback, k, client>> /\ l.pc # "extension" BY DEF LinkEvent, TestSlot, ReadPid
<1>2. events' \in 0 .. MaxEvents /\ (l'.pc # "idle" => events' # 0)
  BY QueueAssumption DEF LinkEvent, TestSlot, ReadPid, QueueInv, ThreadsInv
<1>3. /\ l' \in [pc : {"idle", "test", "read", "header", "extension"}, i : Slots, to : Pids \cup {0}]
      /\ l'.pc # "extension"
  <2>0. /\ l \in [pc : {"idle", "test", "read", "header", "extension"}, i : Slots, to : Pids \cup {0}]
        /\ 1 \in Slots /\ Clients[l.i] \in Pids
    BY FirstClient DEF QueueInv, ThreadsInv
  <2>1. CASE LinkEvent BY <2>0, <2>1 DEF LinkEvent
  <2>2. CASE TestSlot BY <2>0, <2>2 DEF TestSlot, LNext
  <2>3. CASE ReadPid BY <2>0, <2>3 DEF ReadPid
  <2>4. QED BY <2>1, <2>2, <2>3
<1>4. ThreadsInv' BY <1>1, <1>2, <1>3 DEF QueueInv, ThreadsInv
<1>5. QED BY <1>1, <1>4, QuietKeeps DEF Answering

\* A header is sent behind what is in the queue: none that was there is unfinished.
LEMMA SendEventKeeps ==
  ASSUME QueueInv, SendEvent, UNCHANGED capacity
  PROVE  QueueInv'
<1>1. l.pc = "header" /\ UNCHANGED <<callback, events, k, client>> BY DEF SendEvent
<1>2. CASE l.to = 0
  <2>1. LNext(l.i) /\ UNCHANGED cbq BY <1>2 DEF SendEvent
  <2>2. ThreadsInv' BY <1>1, <2>1, FirstClient DEF QueueInv, ThreadsInv, LNext
  <2>3. QED BY <1>1, <2>1, <2>2, QuietKeeps DEF Answering
<1>3. CASE l.to # 0
  <2> DEFINE p == l.to  m == Event(events)
  <2>1. HasRoom /\ Put(p, m) /\ l' = [l EXCEPT !.pc = "extension"] BY <1>3 DEF SendEvent
  <2>2. p \in Pids /\ p \in Types /\ p # Server BY <1>3, QueueAssumption DEF QueueInv, ThreadsInv, Types
  <2>3. events \in 1 .. MaxEvents BY <1>1 DEF QueueInv, ThreadsInv
  <2>4. m \in Letters(p) /\ ~Awaited(m) BY <2>2, <2>3, MessageKinds DEF Letters, Event, Awaited, Echo, Answer
  <2>5. ThreadsInv' BY <1>1, <2>1, <2>2, <2>3 DEF QueueInv, ThreadsInv
  <2>6. Longer(p, m) /\ \A u \in Types : \A j \in 1 .. Len(cbq[u]) : cbq'[u][j] = cbq[u][j]
    BY <2>1, <2>2, <2>4, PutMeans DEF QueueInv
  <2>7. l'.pc = "extension" /\ l'.to = p BY <2>1, <2>5 DEF QueueInv, ThreadsInv
  <2>8. m.n = events /\ m.kind = "event" BY DEF Event
  <2> HIDE DEF p, m
  <2>9. RoomInv' BY <2>1, <2>2, <2>6, LongerCounts DEF QueueInv
  <2>10. EventsInPairs'
    <3> SUFFICES ASSUME NEW q \in Pids, NEW j \in DOMAIN cbq'[q], cbq'[q][j].kind = "event"
                 PROVE  Paired(cbq'[q], j) \/ Unfinished(q, j)'
      BY DEF EventsInPairs
    <3> DEFINE n == Len(cbq[q])
    <3>1. q \in Types BY DEF Types
    <3>2. cbq[q] \in Seq(Letters(q)) /\ n \in Nat /\ DOMAIN cbq[q] = 1 .. n BY <3>1, Numbered DEF QueueInv
    <3>3. cbq'[q] \in Seq(Letters(q)) /\ Len(cbq'[q]) = (IF q = p THEN n + 1 ELSE n)
      BY <2>6, <3>1 DEF Longer
    <3>4. DOMAIN cbq'[q] = 1 .. Len(cbq'[q]) BY <3>3, LenProperties
    <3>5. \A i \in 1 .. n : cbq'[q][i] = cbq[q][i] BY <2>6, <3>1
    <3>6. CASE j \in 1 .. n
      <4>1. Paired(cbq[q], j) BY <1>1, <3>2, <3>5, <3>6 DEF QueueInv, EventsInPairs, Unfinished
      <4> DEFINE a == cbq[q]  b == cbq'[q]
      <4>2. a \in Seq(Letters(q)) /\ b \in Seq(Letters(q)) /\ Len(a) <= Len(b) /\ j \in 1 .. Len(a) /\ a[j].kind = "event"
        BY <3>2, <3>3, <3>5, <3>6
      <4>3. \A i \in 1 .. Len(a) : b[i] = a[i] BY <3>5
      <4>4. Paired(a, j) BY <4>1
      <4> HIDE DEF a, b
      <4>5. Paired(b, j) BY <4>2, <4>3, <4>4, StillPaired
      <4>6. QED BY <4>5 DEF b
    <3>7. CASE j \notin 1 .. n
      <4>1. q = p /\ j = n + 1 BY <3>2, <3>3, <3>4, <3>7
      <4>2. cbq'[q][j] = m BY <2>6, <4>1 DEF Longer
      <4>3. \A i \in j + 1 .. Len(cbq'[q]) : cbq'[q][i].kind = "echo" BY <3>2, <3>3, <4>1
      <4>4. QED BY <1>1, <2>7, <2>8, <4>1, <4>2, <4>3 DEF Unfinished
    <3>8. QED BY <3>6, <3>7
  <2>11. OneAnswerExpected' BY <1>1, <2>2, <2>4, <2>6, <2>9, LongerKeepsOne DEF QueueInv, Answering
  <2>12. QED BY <2>5, <2>9, <2>10, <2>11 DEF QueueInv
<1>4. QED BY <1>2, <1>3

\* The extension finishes the header before it.
LEMMA SendInfoKeeps ==
  ASSUME QueueInv, SendInfo, UNCHANGED capacity
  PROVE  QueueInv'
<1> DEFINE p == l.to  m == Info(events)
<1>1. /\ l.pc = "extension" /\ UNCHANGED <<callback, events, k, client>>
      /\ HasRoom /\ Put(p, m) /\ LNext(l.i)
  BY DEF SendInfo
<1>2. p \in Pids /\ p \in Types /\ p # Server BY <1>1, QueueAssumption DEF QueueInv, ThreadsInv, Types
<1>3. events \in 1 .. MaxEvents BY <1>1 DEF QueueInv, ThreadsInv
<1>4. m \in Letters(p) /\ ~Awaited(m) BY <1>2, <1>3, MessageKinds DEF Letters, Info, Awaited, Echo, Answer
<1>5. ThreadsInv' BY <1>1, <1>3, FirstClient DEF QueueInv, ThreadsInv, LNext
<1>6. Longer(p, m) /\ \A u \in Types : \A j \in 1 .. Len(cbq[u]) : cbq'[u][j] = cbq[u][j]
  BY <1>1, <1>2, <1>4, PutMeans DEF QueueInv
<1>7. m.kind = "info" BY DEF Info
<1>8. \A q, j : Unfinished(q, j) => q = p /\ m = Info(cbq[p][j].n) BY DEF Unfinished
<1> HIDE DEF p, m
<1>9. RoomInv' BY <1>1, <1>2, <1>6, LongerCounts DEF QueueInv
<1>10. EventsInPairs'
  <2> SUFFICES ASSUME NEW q \in Pids, NEW j \in DOMAIN cbq'[q], cbq'[q][j].kind = "event"
               PROVE  Paired(cbq'[q], j)
    BY DEF EventsInPairs
  <2> DEFINE n == Len(cbq[q])
  <2>1. q \in Types BY DEF Types
  <2>2. cbq[q] \in Seq(Letters(q)) /\ n \in Nat /\ DOMAIN cbq[q] = 1 .. n BY <2>1, Numbered DEF QueueInv
  <2>3. cbq'[q] \in Seq(Letters(q)) /\ Len(cbq'[q]) = (IF q = p THEN n + 1 ELSE n)
    BY <1>6, <2>1 DEF Longer
  <2>4. DOMAIN cbq'[q] = 1 .. Len(cbq'[q]) BY <2>3, LenProperties
  <2>5. \A i \in 1 .. n : cbq'[q][i] = cbq[q][i] BY <1>6, <2>1
  <2>6. q = p => cbq'[q][n + 1] = m BY <1>6 DEF Longer
  <2>7. j \in 1 .. n BY <1>7, <2>2, <2>3, <2>4, <2>6
  <2>8. CASE Paired(cbq[q], j)
    <3> DEFINE a == cbq[q]  b == cbq'[q]
    <3>1. a \in Seq(Letters(q)) /\ b \in Seq(Letters(q)) /\ Len(a) <= Len(b) /\ j \in 1 .. Len(a) /\ a[j].kind = "event"
      BY <2>2, <2>3, <2>5, <2>7
    <3>2. \A i \in 1 .. Len(a) : b[i] = a[i] BY <2>5
    <3>3. Paired(a, j) BY <2>8
    <3> HIDE DEF a, b
    <3>4. Paired(b, j) BY <3>1, <3>2, <3>3, StillPaired
    <3>5. QED BY <3>4 DEF b
  <2>9. CASE Unfinished(q, j)
    <3>1. q = p /\ m = Info(cbq[q][j].n) BY <1>8, <2>9
    <3>2. \A i \in j + 1 .. n : cbq[q][i].kind = "echo" BY <2>9 DEF Unfinished
    <3>3. n + 1 \in DOMAIN cbq'[q] /\ j < n + 1 /\ (n + 1) - 1 = n BY <2>2, <2>3, <2>4, <2>7, <3>1
    <3>4. cbq'[q][n + 1] = Info(cbq'[q][j].n) BY <2>5, <2>6, <2>7, <3>1
    <3>5. ASSUME NEW i \in j + 1 .. n PROVE cbq'[q][i].kind = "echo"
      <4>1. i \in 1 .. n BY <2>2, <2>7
      <4>2. QED BY <2>5, <3>2, <4>1
    <3>6. QED BY <3>3, <3>4, <3>5 DEF Paired
  <2>10. QED BY <2>2, <2>5, <2>7, <2>8, <2>9 DEF QueueInv, EventsInPairs
<1>11. OneAnswerExpected' BY <1>1, <1>2, <1>4, <1>6, <1>9, LongerKeepsOne DEF QueueInv, Answering
<1>12. QED BY <1>5, <1>9, <1>10, <1>11 DEF QueueInv

-----------------------------------------------------------------------------
(* The steps of the keep-alive thread                                      *)

LEMMA SendEchoKeeps ==
  ASSUME QueueInv, SendEcho, UNCHANGED capacity
  PROVE  QueueInv'
<1> DEFINE p == Clients[k.i]
<1>1. /\ HasRoom /\ cbq' = [AgeAll EXCEPT ![p] = Append(@, Echo(1))] /\ k' = [k EXCEPT !.pc = "wait"]
      /\ client' = [q \in Pids |-> IF client[q].pc = "answer" THEN [client[q] EXCEPT !.n = 0] ELSE client[q]]
      /\ UNCHANGED <<callback, events, l>>
  BY DEF SendEcho
<1>2. p \in Pids /\ p \in Types BY FirstClient DEF QueueInv, ThreadsInv, Types
<1> HIDE DEF p
<1>3. Longer(p, Echo(1)) /\ \A u \in Types : \A j \in 1 .. Len(cbq[u]) : cbq'[u][j] = Age(cbq[u][j])
  BY <1>1, <1>2, EchoMeans DEF QueueInv
<1>4. RoomInv' BY <1>1, <1>2, <1>3, LongerCounts DEF QueueInv
<1>5. ThreadsInv'
  <2>1. client' \in [Pids -> [pc : {"receive", "extension", "answer", "jammed", "dead"}, n : Nat]]
    BY <1>1 DEF QueueInv, ThreadsInv
  <2>2. k' \in [pc : {"sleep", "scan", "echo", "wait", "pull", "pull_ext"}, i : Slots, arrived : BOOLEAN]
    BY <1>1 DEF QueueInv, ThreadsInv
  <2>3. \A q \in Pids : client'[q].pc = "answer" => client'[q].n = 0 BY <1>1 DEF QueueInv, ThreadsInv
  <2>4. QED BY <1>1, <2>1, <2>2, <2>3 DEF QueueInv, ThreadsInv
<1>6. ASSUME NEW u \in Types, NEW j \in 1 .. Len(cbq[u])
      PROVE  /\ cbq'[u][j] = cbq[u][j] \/ (cbq[u][j].kind \in {"echo", "answer"} /\ cbq'[u][j].kind = cbq[u][j].kind)
             /\ ~Awaited(cbq'[u][j])
  <2>1. cbq[u][j] \in Letters(u) BY Numbered DEF QueueInv
  <2>2. cbq[u][j] \in Messages BY <2>1, MessageKinds DEF Letters
  <2> DEFINE o == cbq[u][j]
  <2>3. cbq'[u][j] = Age(o) /\ o \in Messages BY <1>3, <2>2
  <2> HIDE DEF o
  <2>4. Echo(1).kind = "echo" /\ Echo(1).n = 1 /\ Answer(1).kind = "answer" /\ Answer(1).n = 1 BY DEF Echo, Answer
  <2>5. CASE o.kind \in {"event", "info"} BY <2>3, <2>4, <2>5 DEF Age, Awaited, o
  <2>6. CASE o.kind \in {"echo", "answer"}
    <3>1. Age(o) = [o EXCEPT !.n = 0] BY <2>6 DEF Age
    <3>2. Age(o).kind = o.kind /\ Age(o).n = 0 BY <2>3, <2>6, <3>1 DEF Messages
    <3>3. QED BY <2>3, <2>4, <2>6, <3>2 DEF Awaited, o
  <2>7. QED BY <2>3, <2>5, <2>6, MessageKinds
<1>7. EventsInPairs'
  <2>1. Echo(1).kind = "echo" BY DEF Echo
  <2>2. \A q \in Pids : q \in Types BY DEF Types
  <2>3. QED BY <1>1, <1>2, <1>3, <1>6, <2>1, <2>2, LongerKeepsPairs DEF QueueInv
<1>8. \A q \in Pids : ~Answering(q)' BY <1>1 DEF Answering, QueueInv, ThreadsInv
<1>9. OneAnswerExpected' BY <1>2, <1>3, <1>4, <1>6, <1>8, EchoIsOne DEF QueueInv
<1>10. QED BY <1>4, <1>5, <1>7, <1>9 DEF QueueInv

\* Taking a message that no client gets.
LEMMA TakingKeeps ==
  ASSUME QueueInv, NEW t \in Types, cbq[t] # <<>>, Take(t), UNCHANGED <<capacity, l, events>>, ThreadsInv',
         \A p \in Pids : Answering(p)' => Answering(p) \/ (p = t /\ Awaited(cbq[t][1]))
  PROVE  QueueInv'
<1>1. RoomInv' BY TakeCounts DEF QueueInv
<1>2. EventsInPairs' BY TakeKeepsPairs DEF QueueInv
<1>3. OneAnswerExpected' BY <1>1, TakeKeepsOne DEF QueueInv
<1>4. QED BY <1>1, <1>2, <1>3 DEF QueueInv

LEMMA KeepAliveKeeps ==
  ASSUME QueueInv, Wake \/ Scan \/ TakeAnswer \/ TimeOut \/ Pull \/ PullExtension, UNCHANGED capacity
  PROVE  QueueInv'
<1>1. UNCHANGED <<events, l, client>> BY DEF Wake, Scan, TakeAnswer, TimeOut, Pull, PullExtension
<1>2. callback' \in [Slots -> BOOLEAN]
  BY DEF Wake, Scan, TakeAnswer, TimeOut, Pull, PullExtension, QueueInv, ThreadsInv
<1>3. k' \in [pc : {"sleep", "scan", "echo", "wait", "pull", "pull_ext"}, i : Slots, arrived : BOOLEAN]
  <2>0. /\ k \in [pc : {"sleep", "scan", "echo", "wait", "pull", "pull_ext"}, i : Slots, arrived : BOOLEAN]
        /\ 1 \in Slots
    BY FirstClient, Zenon DEF QueueInv, ThreadsInv
  <2>1. \/ KNext(k.i) \/ k' = k \/ k' = [k EXCEPT !.arrived = TRUE]
        \/ \E at \in {"scan", "echo", "pull", "pull_ext"} : k' = [k EXCEPT !.pc = at]
    BY DEF Wake, Scan, TakeAnswer, TimeOut, Pull, PullExtension
  <2>2. CASE KNext(k.i) BY <2>0, <2>2 DEF KNext
  <2>3. QED BY <2>0, <2>1, <2>2
<1>4. ThreadsInv' BY <1>1, <1>2, <1>3 DEF QueueInv, ThreadsInv
<1>5. \A p \in Pids : Answering(p)' => Answering(p) BY <1>1 DEF Answering
<1>6. CASE UNCHANGED cbq BY <1>1, <1>4, <1>5, <1>6, QuietKeeps
<1>7. CASE cbq' # cbq
  <2>1. \E t \in Types : cbq[t] # <<>> /\ Take(t)
    <3>1. Server \in Types /\ Clients[k.i] \in Types BY FirstClient DEF Types, QueueInv, ThreadsInv
    <3>2. \/ cbq[Server] # <<>> /\ Take(Server)
          \/ cbq[Clients[k.i]] # <<>> /\ Take(Clients[k.i])
      BY <1>7 DEF Wake, Scan, TakeAnswer, TimeOut, Pull, PullExtension
    <3>3. QED BY <3>1, <3>2
  <2>2. QED BY <1>1, <1>4, <1>5, <2>1, TakingKeeps
<1>8. QED BY <1>6, <1>7

-----------------------------------------------------------------------------
(* The steps of a client                                                   *)

\* The callback thread of client p, after its step.
LEMMA ClientTypes ==
  ASSUME QueueInv, NEW p \in Pids, UNCHANGED <<callback, events, l, k>>,
         NEW c \in [pc : {"receive", "extension", "answer", "jammed", "dead"}, n : Nat],
         c.pc = "answer" => c.n \in 0 .. 1, client' = [client EXCEPT ![p] = c]
  PROVE  ThreadsInv'
<1>1. client' \in [Pids -> [pc : {"receive", "extension", "answer", "jammed", "dead"}, n : Nat]]
  BY DEF QueueInv, ThreadsInv
<1>2. \A q \in Pids : client'[q].pc = "answer" => client'[q].n \in 0 .. 1 BY DEF QueueInv, ThreadsInv
<1>3. QED BY <1>1, <1>2 DEF QueueInv, ThreadsInv

LEMMA ClientReceiveKeeps ==
  ASSUME QueueInv, NEW p \in Pids, ClientReceive(p), UNCHANGED capacity
  PROVE  QueueInv'
<1> DEFINE m == Head(cbq[p])
<1>0. p \in Types /\ p # Server BY QueueAssumption DEF Types
<1>1. client[p].pc = "receive" /\ cbq[p] # <<>> /\ UNCHANGED <<callback, events, l, k>> BY DEF ClientReceive
<1>2. m = cbq[p][1] /\ m \in Letters(p)
  <2>1. 1 \in 1 .. Len(cbq[p]) BY <1>0, <1>1, Numbered DEF QueueInv
  <2>2. QED BY <1>0, <1>1, <2>1, Numbered DEF QueueInv
<1>3. m \in Messages /\ m.kind # "answer" BY <1>0, <1>2 DEF Letters
<1>4. CASE m.kind = "info"
  <2> DEFINE c == [client[p] EXCEPT !.pc = "jammed"]
  <2>1. UNCHANGED cbq /\ client' = [client EXCEPT ![p] = c] BY <1>4 DEF ClientReceive
  <2>2. c \in [pc : {"receive", "extension", "answer", "jammed", "dead"}, n : Nat] /\ c.pc = "jammed"
    BY DEF QueueInv, ThreadsInv
  <2> HIDE DEF c
  <2>3. ThreadsInv' BY <1>1, <2>1, <2>2, ClientTypes
  <2>4. \A q \in Pids : Answering(q)' => Answering(q) BY <2>1, <2>2 DEF Answering, QueueInv, ThreadsInv
  <2>5. QED BY <1>1, <2>1, <2>3, <2>4, QuietKeeps
<1>5. CASE m.kind # "info"
  <2> DEFINE c == [pc |-> IF m.kind = "event" THEN "extension" ELSE "answer", n |-> m.n]
  <2>1. Take(p) /\ client' = [client EXCEPT ![p] = c] BY <1>5 DEF ClientReceive
  <2>2. m.kind = "event" \/ (m.kind = "echo" /\ m.n \in 0 .. 1) BY <1>3, <1>5, MessageKinds
  <2>3. m.n \in Nat BY <1>3, MessageKinds
  <2>4. c \in [pc : {"receive", "extension", "answer", "jammed", "dead"}, n : Nat] /\ (c.pc = "answer" => c.n \in 0 .. 1)
    BY <2>2, <2>3
  <2>5. c.pc = "answer" /\ c.n = 1 => Awaited(m)
    <3>1. m.kind = "echo" /\ m.n = 1 => m = Echo(1) BY <1>3 DEF Messages, Echo
    <3>2. QED BY <2>2, <3>1 DEF Awaited
  <2> HIDE DEF c
  <2>6. ThreadsInv' BY <1>1, <2>1, <2>4, ClientTypes
  <2>7. \A q \in Pids : Answering(q)' => Answering(q) \/ (q = p /\ Awaited(cbq[p][1]))
    BY <1>2, <2>1, <2>5 DEF Answering, QueueInv, ThreadsInv
  <2>8. QED BY <1>0, <1>1, <2>1, <2>6, <2>7, TakingKeeps
<1>6. QED BY <1>4, <1>5

LEMMA ClientOthersKeep ==
  ASSUME QueueInv, NEW p \in Pids, ClientExtension(p) \/ Die(p), UNCHANGED capacity
  PROVE  QueueInv'
<1> DEFINE c == [pc |-> IF ClientExtension(p) THEN "receive" ELSE "dead", n |-> 0]
<1>0. p \in Types BY DEF Types
<1>1. UNCHANGED <<callback, events, l, k>> /\ client' = [client EXCEPT ![p] = c] BY DEF ClientExtension, Die
<1>2. c \in [pc : {"receive", "extension", "answer", "jammed", "dead"}, n : Nat] /\ c.pc # "answer" OBVIOUS
<1>3. \/ cbq[p] # <<>> /\ Take(p)
      \/ UNCHANGED cbq
  BY DEF ClientExtension, Die
<1> HIDE DEF c
<1>4. ThreadsInv' BY <1>1, <1>2, ClientTypes
<1>5. \A q \in Pids : Answering(q)' => Answering(q) BY <1>1, <1>2 DEF Answering, QueueInv, ThreadsInv
<1>6. QED BY <1>0, <1>1, <1>3, <1>4, <1>5, QuietKeeps, TakingKeeps

\* The answer goes to the server: the client has it no more.
LEMMA ClientAnswerKeeps ==
  ASSUME QueueInv, NEW p \in Pids, ClientAnswer(p), UNCHANGED capacity
  PROVE  QueueInv'
<1> DEFINE m == Answer(client[p].n)  c == [pc |-> "receive", n |-> 0]
<1>1. /\ client[p].pc = "answer" /\ HasRoom /\ Put(Server, m) /\ client' = [client EXCEPT ![p] = c]
      /\ UNCHANGED <<callback, events, l, k>>
  BY DEF ClientAnswer
<1>2. c \in [pc : {"receive", "extension", "answer", "jammed", "dead"}, n : Nat] /\ c.pc = "receive" OBVIOUS
<1>3. Server \in Types /\ Server \notin Pids BY QueueAssumption DEF Types
<1>4. client[p].n \in 0 .. 1 BY <1>1 DEF QueueInv, ThreadsInv
<1>5. m \in Letters(Server) BY <1>4 DEF Letters
<1>6. Awaited(m) => Answering(p)
  <2>1. m.kind = "answer" /\ m.n = client[p].n BY DEF Answer
  <2>2. Awaited(m) => m.n = 1 BY DEF Awaited, Answer, Echo
  <2>3. QED BY <1>1, <2>1, <2>2 DEF Answering
<1> HIDE DEF m, c
<1>7. Longer(Server, m) /\ \A u \in Types : \A j \in 1 .. Len(cbq[u]) : cbq'[u][j] = cbq[u][j]
  BY <1>1, <1>3, <1>5, PutMeans DEF QueueInv
<1>8. RoomInv' BY <1>1, <1>3, <1>7, LongerCounts DEF QueueInv
<1>9. ThreadsInv' BY <1>1, <1>2, ClientTypes
<1>10. EventsInPairs'
  <2>1. \A q \in Pids : q \in Types BY DEF Types
  <2>2. QED BY <1>1, <1>3, <1>7, <2>1, LongerKeepsPairs DEF QueueInv
<1>11. (\A q \in Pids : Answering(q)' => Answering(q)) /\ ~Answering(p)'
  BY <1>1, <1>2 DEF Answering, QueueInv, ThreadsInv
<1>12. OneAnswerExpected' BY <1>3, <1>6, <1>7, <1>8, <1>11, LongerKeepsOne DEF QueueInv
<1>13. QED BY <1>8, <1>9, <1>10, <1>12 DEF QueueInv

-----------------------------------------------------------------------------
LEMMA InitQueue == ASSUME QueueInit PROVE QueueInv
<1>1. DOMAIN cbq = Types /\ \A t \in Types : cbq[t] = <<>> BY DEF QueueInit, Types
<1>2. Queued = {} BY <1>1 DEF Queued
<1>3. IsFiniteSet(Queued) /\ Cardinality(Queued) = 0 BY <1>2, FS_EmptySet
<1>4. capacity \in Nat \ {0} BY QueueAssumption DEF QueueInit
<1>5. ASSUME NEW t \in Types PROVE cbq[t] \in Seq(Letters(t))
  <2>1. <<>> \in Seq(Letters(t)) BY EmptySeq
  <2>2. QED BY <1>1, <2>1
<1>6. RoomInv
  <2>1. Cardinality(Queued) <= capacity /\ capacity \in Nat BY <1>3, <1>4
  <2>2. QED BY <1>1, <1>3, <1>5, <2>1 DEF RoomInv
<1>7. ThreadsInv BY FirstClient, QueueAssumption DEF QueueInit, ThreadsInv
<1>8. EventsInPairs
  <2>1. \A p \in Pids : DOMAIN cbq[p] = {} BY <1>1 DEF Types
  <2>2. QED BY <2>1 DEF EventsInPairs
<1>9. OneAnswerExpected
  <2>1. \A p \in Pids : ~Answering(p) BY DEF QueueInit, Answering
  <2>2. Current = {} BY <1>2, <2>1 DEF Current, Answering
  <2>3. QED BY <2>2 DEF OneAnswerExpected
<1>10. QED BY <1>6, <1>7, <1>8, <1>9 DEF QueueInv

LEMMA NextKeepsQueue == ASSUME QueueInv, [QueueNext]_queuev PROVE QueueInv'
<1>1. CASE UNCHANGED queuev
  <2>1. UNCHANGED <<cbq, callback, events, l, k, client, capacity>> BY <1>1 DEF queuev, systemv
  <2>2. ThreadsInv' BY <2>1 DEF QueueInv, ThreadsInv
  <2>3. QED BY <2>1, <2>2, QuietKeeps DEF Answering
<1>2. CASE QueueNext
  <2>1. UNCHANGED capacity BY <1>2 DEF QueueNext
  <2>2. CASE LinkEvent \/ Linkscan
    BY <2>1, <2>2, LinkscanKeeps, SendEventKeeps, SendInfoKeeps DEF Linkscan
  <2>3. CASE KeepAlive BY <2>1, <2>3, SendEchoKeeps, KeepAliveKeeps DEF KeepAlive
  <2>4. ASSUME NEW p \in Pids, Client(p) \/ Die(p) PROVE QueueInv'
    BY <2>1, <2>4, ClientReceiveKeeps, ClientOthersKeep, ClientAnswerKeeps DEF Client
  <2>5. QED BY <1>2, <2>2, <2>3, <2>4 DEF QueueNext
<1>3. QED BY <1>1, <1>2

LEMMA QueueInvIsEnough == ASSUME QueueInv PROVE QueueWellFormed
<1>1. \A t \in Pids : cbq[t] \in Seq({m \in Messages : m.kind # "answer"})
  BY QueueAssumption DEF QueueInv, RoomInv, Types, Letters
<1>2. cbq[Server] \in Seq({Answer(0), Answer(1)}) BY DEF QueueInv, RoomInv, Types, Letters
<1>3. QueueTypes BY <1>1, <1>2 DEF QueueInv, RoomInv, ThreadsInv, QueueTypes
<1>4. QED BY <1>3 DEF QueueInv, QueueWellFormed

\* The callback queue stays well formed: its capacity is kept, every event stays
\* with its extension, and one answer at most is the one that the keep-alive
\* thread waits for, for any number of clients and events and any capacity.
THEOREM QueueWellFormedCorrect == QueueSpec => []QueueWellFormed
<1>1. QueueInit => QueueInv BY InitQueue
<1>2. QueueInv /\ [QueueNext]_queuev => QueueInv' BY NextKeepsQueue
<1>3. QueueInv => QueueWellFormed BY QueueInvIsEnough
<1>4. QED BY <1>1, <1>2, <1>3, PTL DEF QueueSpec
=============================================================================
