---------------------------- MODULE HrastReceive ----------------------------
(***************************************************************************)
(* One call of hrast_sys_msg_receive (c_projects/logging/hrast.c) while    *)
(* other processes send to the queue.                                      *)
(*                                                                         *)
(* msgrcv with a positive type takes the first message of that type, so    *)
(* only the messages of the type lnx_mtype the call asks for are kept.     *)
(* A message is a header (struct bcm_msgbuf) or an extension (struct       *)
(* bcm_extbuf); an extension does not fit a header buffer (E2BIG) and then *)
(* stays in the queue, a header fits an extension buffer.                  *)
(***************************************************************************)
EXTENDS Integers, Sequences

CONSTANTS
  Polls,        (* m_timout of a timed call                                *)
  MaxSent       (* bound: messages, extensions not counted, that are sent  *)

ASSUME ReceiveAssumption == Polls \in Nat \ {0} /\ MaxSent \in Nat

\* Sequence numbers and commands, against the ones the caller waits for.
Tags == {"wanted", "other"}
Headers == [part : {"header"}, id : 1 .. MaxSent, confirm : BOOLEAN, extended : BOOLEAN,
            seq : Tags, mcmd : Tags]
Extensions == [part : {"extension"}, id : 1 .. MaxSent]
Empty == [part |-> "empty"]

VARIABLES
  queue,        (* messages of type lnx_mtype                              *)
  sent,         (* headers sent so far                                     *)
  owing,        (* id of the header whose extension is not yet sent, or 0  *)
  forever,      (* m_timout = HRAST_WAIT_FOREWER                           *)
  has_ext,      (* ext_buf # NULL                                          *)
  m_timout, buf, ext_buf, msg_arrived,
  pc,           (* "header", "extension", "done"                           *)
  ret           (* return value; 1: not yet returned                       *)

args == <<forever, has_ext>>
vars == <<queue, sent, owing, args, m_timout, buf, ext_buf, msg_arrived, pc, ret>>

Init ==
  /\ queue = <<>> /\ sent = 0 /\ owing = 0
  /\ forever \in BOOLEAN /\ has_ext \in BOOLEAN
  /\ m_timout = IF forever THEN 0 ELSE Polls
  /\ buf = Empty /\ ext_buf = Empty /\ msg_arrived = FALSE
  /\ pc = "header" /\ ret = 1

-----------------------------------------------------------------------------
(* Senders, one at a time: header, then its extension, in two calls.       *)

SendHeader ==
  /\ sent < MaxSent /\ owing = 0
  /\ \E h \in Headers :
       /\ h.id = sent + 1
       /\ queue' = Append(queue, h)
       /\ owing' = IF h.extended THEN h.id ELSE 0
  /\ sent' = sent + 1
  /\ UNCHANGED <<args, m_timout, buf, ext_buf, msg_arrived, pc, ret>>

SendExtension ==
  /\ owing # 0
  /\ queue' = Append(queue, [part |-> "extension", id |-> owing])
  /\ owing' = 0
  /\ UNCHANGED <<sent, args, m_timout, buf, ext_buf, msg_arrived, pc, ret>>

-----------------------------------------------------------------------------
(* The receiver.                                                           *)

Return(code) == pc' = "done" /\ ret' = code

\* The last test of the function, "check for timeout".
Finish(timout, arrived) == Return(IF ~arrived /\ timout = 0 THEN -1 ELSE 0)

\* Mutant: only the command is compared.
MatchesCommand(h) == h.mcmd = "wanted"

Matches(h) == h.seq = "wanted" /\ h.mcmd = "wanted"

\* What follows the first loop: the extension, or the end.
AfterHeader(h) ==
  IF h.extended
    THEN IF has_ext THEN pc' = "extension" /\ UNCHANGED ret ELSE Return(-1)
    ELSE Finish(m_timout, TRUE)

\* Mutant: the extension is looked for only in messages that are no confirm.
TakeHeaderNoExtension ==
  /\ pc = "header" /\ queue # <<>>
  /\ LET h == Head(queue) IN
       /\ h.part = "header" /\ (h.confirm => Matches(h))
       /\ buf' = h
       /\ AfterHeader([h EXCEPT !.extended = h.extended /\ ~h.confirm])
  /\ queue' = Tail(queue) /\ msg_arrived' = TRUE
  /\ UNCHANGED <<sent, owing, args, m_timout, ext_buf>>

\* A message that is no confirm, or the confirm that is waited for.
TakeHeader ==
  /\ pc = "header" /\ queue # <<>>
  /\ LET h == Head(queue) IN
       /\ h.part = "header"
       /\ h.confirm => Matches(h)
       /\ buf' = h
       /\ AfterHeader(h)
  /\ queue' = Tail(queue)
  /\ msg_arrived' = TRUE
  /\ UNCHANGED <<sent, owing, args, m_timout, ext_buf>>

\* Another confirm: a timed call clears the buffer and goes on waiting.
ThrowAway ==
  /\ pc = "header" /\ queue # <<>>
  /\ LET h == Head(queue) IN
       /\ h.part = "header" /\ h.confirm /\ ~Matches(h)
       /\ IF m_timout > 0
            THEN buf' = Empty /\ UNCHANGED <<pc, ret>>
            ELSE buf' = h /\ Return(-1)
  /\ queue' = Tail(queue)
  /\ msg_arrived' = TRUE
  /\ UNCHANGED <<sent, owing, args, m_timout, ext_buf>>

\* E2BIG: the message stays in the queue.
TooBig ==
  /\ pc = "header" /\ queue # <<>> /\ Head(queue).part = "extension"
  /\ Return(-1)
  /\ UNCHANGED <<queue, sent, owing, args, m_timout, buf, ext_buf, msg_arrived>>

\* Mutant: m_timout-- is missing.
PollHeaderForever ==
  /\ pc = "header" /\ queue = <<>> /\ ~forever
  /\ UNCHANGED vars

\* ENOMSG, in a timed call only: one poll less.
PollHeader ==
  /\ pc = "header" /\ queue = <<>> /\ ~forever
  /\ m_timout' = m_timout - 1
  /\ IF m_timout' > 0
       THEN UNCHANGED <<pc, ret>>
       ELSE Finish(m_timout', msg_arrived)
  /\ UNCHANGED <<queue, sent, owing, args, buf, ext_buf, msg_arrived>>

\* Whatever comes next is taken as the extension.
TakeExtension ==
  /\ pc = "extension" /\ queue # <<>>
  /\ ext_buf' = Head(queue)
  /\ queue' = Tail(queue)
  /\ Finish(m_timout, msg_arrived)
  /\ UNCHANGED <<sent, owing, args, m_timout, buf, msg_arrived>>

PollExtension ==
  /\ pc = "extension" /\ queue = <<>> /\ ~forever
  /\ m_timout' = m_timout - 1
  /\ IF m_timout' > 0
       THEN UNCHANGED <<pc, ret>>
       ELSE Finish(m_timout', msg_arrived)
  /\ UNCHANGED <<queue, sent, owing, args, buf, ext_buf, msg_arrived>>

Receive ==
  TakeHeader \/ ThrowAway \/ TooBig \/ PollHeader \/ TakeExtension \/ PollExtension

Next == SendHeader \/ SendExtension \/ Receive

\* The receiver is a running thread: it polls, or msgrcv wakes it up.
Spec == Init /\ [][Next]_vars /\ WF_vars(Receive)

-----------------------------------------------------------------------------
(* Properties.                                                             *)

\* The variables keep their types; the countdown stays within its start value.
TypeOK ==
  /\ queue \in Seq(Headers \cup Extensions)
  /\ sent \in 0 .. MaxSent /\ owing \in 0 .. MaxSent
  /\ forever \in BOOLEAN /\ has_ext \in BOOLEAN /\ msg_arrived \in BOOLEAN
  /\ m_timout \in 0 .. Polls
  /\ buf \in Headers \cup {Empty} /\ ext_buf \in Headers \cup Extensions \cup {Empty}
  /\ pc \in {"header", "extension", "done"} /\ ret \in {-1, 0, 1}

\* A confirm the caller gets is the answer to its own request: late answers
\* to earlier requests, lying in the queue or arriving meanwhile, never pass.
ConfirmIsWanted ==
  ret = 0 /\ buf # Empty => (buf.confirm => buf.seq = "wanted" /\ buf.mcmd = "wanted")

\* When senders do not mix their two parts, an extended message is delivered
\* with its own extension unless the time is up, whatever was thrown away
\* before it and however the sends and the polls interleave.
ExtensionIsOwn ==
  ret = 0 /\ buf # Empty =>
    (buf.extended /\ (forever \/ m_timout > 0) =>
       ext_buf = [part |-> "extension", id |-> buf.id])

\* A call during which nothing arrived fails.
SilenceFails == pc = "done" /\ ~msg_arrived => ret = -1

\* A timed call comes back whether or not messages arrive.
TimedCallReturns == ~forever ~> pc = "done"
=============================================================================
