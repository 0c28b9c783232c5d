-------------------------- MODULE LinuxUsbfsProofs --------------------------
(* LinuxUsbfs implements UsbTransfer, reports a status that has been       *)
(* earned, loses count of no URB and no data that the device has sent, for *)
(* every set of transfers, every division into URBs and every number.      *)
EXTENDS LinuxUsbfs, FiniteSetTheorems, SequenceTheorems, WellFoundedInduction, TLAPS

\* Nothing is under way in the beginning.
LEMMA InitFlying == Init => FlyingInv
BY DEF Init, FlyingInv, Shapes, Blank, Idle, Poll

\* The calls of the application: a submission that succeeds makes the
\* transfer fly, one that fails gives its URBs back.
LEMMA CallKeeps == ASSUME FlyingInv, NEW t \in Transfers, Application(t) \/ Calls(t) PROVE FlyingInv'
<1> USE DEF FlyingInv, Shapes, Answerable, kernel
<1>1. CASE Submit(t) BY <1>1 DEF Submit, LockFree, Blank, Idle
<1>2. CASE Cancel(t) BY <1>2 DEF Cancel, StartCancel, LockFree, Idle
<1>3. CASE Expire(t) BY <1>3 DEF Expire
<1>4. CASE SubmitUrb(t) BY <1>4 DEF SubmitUrb, Idle
<1>5. CASE FirstUrbFails(t) BY <1>5 DEF FirstUrbFails, Idle
<1>6. CASE LaterUrbFails(t) BY <1>6 DEF LaterUrbFails, Idle, Accepted
<1>7. CASE UserDiscards(t) BY <1>7 DEF UserDiscards, Idle
<1>8. QED BY <1>1, <1>2, <1>3, <1>4, <1>5, <1>6, <1>7 DEF Application, Calls

\* The thread that handles events reports what has been reaped, or what is on
\* its list when the device is gone.
LEMMA HandlerKeeps == ASSUME FlyingInv, Handler PROVE FlyingInv'
<1> USE DEF FlyingInv, Shapes, Answerable, kernel
<1>1. CASE HandlerDiscards BY <1>1 DEF HandlerDiscards, Poll
<1>2. ASSUME NEW types, Mine(types)
      PROVE  /\ Urb.t \in Transfers /\ user[Urb.t].op # "submit" /\ Answerable(Urb.t)
  BY <1>2 DEF Mine, LockFree, Idle
<1>3. ASSUME NEW p, NEW st, Urb.t \in Transfers, user[Urb.t].op # "submit", Answerable(Urb.t),
             "urbs" \in DOMAIN p, Reaped, Completed(p, st)
      PROVE  FlyingInv'
  BY <1>3 DEF Completed, Reaped
<1>4. ASSUME NEW p, Urb.t \in Transfers, user[Urb.t].op # "submit", Answerable(Urb.t),
             "urbs" \in DOMAIN p, Reaped, Wait(p)
      PROVE  FlyingInv'
  BY <1>4 DEF Wait, Reaped, Poll
<1>5. ASSUME NEW p, Urb.t \in Transfers, user[Urb.t].op # "submit", Answerable(Urb.t),
             "urbs" \in DOMAIN p, Reaped, CancelRemaining(p)
      PROVE  FlyingInv'
  <2> DEFINE q == [p EXCEPT !.status = IF p.action = "error" /\ @ = "completed" THEN "error" ELSE @]
  <2>1. "urbs" \in DOMAIN q BY <1>5
  <2>2. CASE q.retired = q.n
    <3>1. Completed(q, "by_action") BY <1>5, <2>2 DEF CancelRemaining
    <3>2. QED BY <1>3, <1>5, <2>1, <3>1
  <2>3. CASE q.retired # q.n
    <3>1. /\ priv' = [priv EXCEPT ![Urb.t] = q]
          /\ handler' = [op |-> "discard", t |-> Urb.t, i |-> q.n, low |-> Urb.i + 1]
      BY <1>5, <2>3 DEF CancelRemaining
    <3> HIDE DEF q
    <3>2. QED BY <1>5, <2>1, <3>1 DEF Reaped
  <2>4. QED BY <2>2, <2>3
<1>6. CASE BulkSurplus
  <2>1. Mine({"bulk", "interrupt"}) /\ Reaped BY <1>6 DEF BulkSurplus
  <2>2. PICK p : "urbs" \in DOMAIN p /\ (Completed(p, "by_action") \/ Wait(p))
    BY <1>2, <1>6, <2>1 DEF BulkSurplus
  <2>3. QED BY <1>2, <1>3, <1>4, <2>1, <2>2
<1>7. CASE BulkNormal
  <2>1. Mine({"bulk", "interrupt"}) /\ Reaped BY <1>7 DEF BulkNormal
  <2>2. PICK p : "urbs" \in DOMAIN p /\ (Completed(p, "by_action") \/ Wait(p) \/ CancelRemaining(p))
    BY <1>2, <1>7, <2>1 DEF BulkNormal
  <2>3. QED BY <1>2, <1>3, <1>4, <1>5, <2>1, <2>2
<1>8. CASE IsoCompletion
  <2>1. Mine({"iso"}) /\ Reaped BY <1>8 DEF IsoCompletion
  <2>2. PICK p, st : "urbs" \in DOMAIN p /\ (Completed(p, st) \/ Wait(p))
    BY <1>2, <1>8, <2>1 DEF IsoCompletion
  <2>3. QED BY <1>2, <1>3, <1>4, <2>1, <2>2
<1>9. CASE ControlCompletion
  <2>1. Mine({"control"}) /\ Reaped BY <1>9 DEF ControlCompletion
  <2>2. PICK p, st : "urbs" \in DOMAIN p /\ Completed(p, st)
    BY <1>2, <1>9, <2>1 DEF ControlCompletion
  <2>3. QED BY <1>2, <1>3, <2>1, <2>2
<1>10. CASE Report BY <1>10 DEF Report, Forget, Blank, Poll
<1>11. CASE PollError BY <1>11 DEF PollError
<1>12. CASE Sweep BY <1>12 DEF Sweep
<1>13. CASE ClearPriv BY <1>13 DEF ClearPriv
<1>14. CASE ReportGone BY <1>14 DEF ReportGone
<1>15. QED
  BY <1>1, <1>6, <1>7, <1>8, <1>9, <1>10, <1>11, <1>12, <1>13, <1>14 DEF Handler

\* The expiry, the kernel and the device.
LEMMA OthersKeep ==
  ASSUME FlyingInv, ExpireCancel \/ Disconnect \/ \E t \in Transfers : UrbCompletes(t)
  PROVE  FlyingInv'
<1> USE DEF FlyingInv, Shapes, Answerable
<1>1. CASE ExpireCancel BY <1>1 DEF ExpireCancel, StartCancel, LockFree, Idle, kernel
<1>2. CASE Disconnect
  <2>1. connected' = FALSE /\ UNCHANGED <<priv, app, user, handler>> BY <1>2 DEF Disconnect
  <2>2. QED BY <2>1
<1>3. ASSUME NEW t \in Transfers, UrbCompletes(t) PROVE FlyingInv'
  <2>1. UNCHANGED <<priv, app, user, handler, connected>> BY <1>3 DEF UrbCompletes
  <2>2. QED BY <2>1
<1>4. QED BY <1>1, <1>2, <1>3

\* What the application knows and what is under way agree at all times
\* (libusb_submit_transfer, usbi_handle_transfer_completion).
THEOREM FlyingCorrect == Spec => []FlyingInv
<1>1. Init => FlyingInv BY InitFlying
<1>2. FlyingInv /\ [Next]_vars => FlyingInv'
  <2>1. ASSUME FlyingInv, Next PROVE FlyingInv' BY <2>1, CallKeeps, HandlerKeeps, OthersKeep DEF Next
  <2>2. ASSUME FlyingInv, UNCHANGED vars PROVE FlyingInv'
    BY <2>2 DEF FlyingInv, Shapes, Answerable, vars, kernel
  <2>3. QED BY <2>1, <2>2
<1>3. QED BY <1>1, <1>2, PTL DEF Spec

\* A step of a call is a submission for the application, or nothing.
LEMMA CallImplements ==
  ASSUME FlyingInv, NEW t \in Transfers, Application(t) \/ Calls(t)
  PROVE  Promise!Submit(t) \/ UNCHANGED Promise!vars
<1> USE DEF FlyingInv, Shapes, Promise!Submit, Promise!vars, kernel
<1>1. CASE Submit(t) BY <1>1 DEF Submit
<1>2. CASE Cancel(t) BY <1>2 DEF Cancel
<1>3. CASE Expire(t) BY <1>3 DEF Expire
<1>4. CASE SubmitUrb(t) BY <1>4 DEF SubmitUrb
<1>5. CASE FirstUrbFails(t) BY <1>5 DEF FirstUrbFails
<1>6. CASE LaterUrbFails(t) BY <1>6 DEF LaterUrbFails, Accepted
<1>7. CASE UserDiscards(t) BY <1>7 DEF UserDiscards
<1>8. QED BY <1>1, <1>2, <1>3, <1>4, <1>5, <1>6, <1>7 DEF Application, Calls

\* A step of the handler is an answer, or nothing.
LEMMA HandlerImplements ==
  ASSUME FlyingInv, Handler
  PROVE  (\E t \in Transfers : Promise!Complete(t)) \/ UNCHANGED Promise!vars
<1> USE DEF FlyingInv, Shapes, Answerable, Promise!vars, kernel
<1>1. CASE Report
  <2>1. handler.t \in Transfers /\ Promise!Complete(handler.t) BY <1>1 DEF Report, Promise!Complete
  <2>2. QED BY <2>1
<1>2. CASE ReportGone
  <2>1. handler.t \in Transfers /\ Promise!Complete(handler.t) BY <1>2 DEF ReportGone, Promise!Complete
  <2>2. QED BY <2>1
<1>3. CASE HandlerDiscards BY <1>3 DEF HandlerDiscards
<1>4. CASE BulkSurplus \/ BulkNormal \/ IsoCompletion \/ ControlCompletion
  <2>1. Reaped BY <1>4 DEF BulkSurplus, BulkNormal, IsoCompletion, ControlCompletion
  <2>2. QED BY <2>1 DEF Reaped
<1>5. CASE PollError BY <1>5 DEF PollError
<1>6. CASE Sweep BY <1>6 DEF Sweep
<1>7. CASE ClearPriv BY <1>7 DEF ClearPriv
<1>8. QED BY <1>1, <1>2, <1>3, <1>4, <1>5, <1>6, <1>7 DEF Handler

\* Each accepted submission is answered by exactly one callback, whatever is
\* cancelled, expires, fails or is unplugged meanwhile.
THEOREM TransferImplemented == Spec => ImplementsTransfer
<1>1. Init => Promise!Init BY DEF Init, Promise!Init
<1>2. FlyingInv /\ [Next]_vars => [Promise!Next]_(Promise!vars)
  <2> SUFFICES ASSUME FlyingInv, [Next]_vars PROVE Promise!Next \/ UNCHANGED Promise!vars
    OBVIOUS
  <2>1. ASSUME NEW t \in Transfers, Application(t) \/ Calls(t) PROVE Promise!Next \/ UNCHANGED Promise!vars
    BY <2>1, CallImplements DEF Promise!Next
  <2>2. CASE Handler BY <2>2, HandlerImplements DEF Promise!Next
  <2>3. CASE Disconnect
    <3>1. Promise!Disconnect BY <2>3 DEF Disconnect, Promise!Disconnect
    <3>2. QED BY <3>1 DEF Promise!Next
  <2>4. CASE ExpireCancel BY <2>4 DEF ExpireCancel, kernel, Promise!vars
  <2>5. ASSUME NEW t \in Transfers, UrbCompletes(t) PROVE UNCHANGED Promise!vars
    BY <2>5 DEF UrbCompletes, Promise!vars
  <2>6. CASE UNCHANGED vars BY <2>6 DEF vars, kernel, Promise!vars
  <2>7. QED BY <2>1, <2>2, <2>3, <2>4, <2>5, <2>6 DEF Next
<1>3. QED BY FlyingCorrect, <1>1, <1>2, PTL DEF Spec, ImplementsTransfer, Promise!Spec

\* The elements of a sequence: what appending, concatenation and removal leave.
LEMMA RangeOfAppend ==
  ASSUME NEW s, s \in Seq(Range(s)), NEW x
  PROVE  Append(s, x) \in Seq(Range(Append(s, x))) /\ Range(Append(s, x)) = Range(s) \cup {x}
<1> DEFINE S == Range(s) \cup {x}
<1>1. s \in Seq(S) /\ x \in S BY SeqMonotonic
<1> HIDE DEF S
<1>2. /\ Append(s, x) \in Seq(S) /\ Len(Append(s, x)) = Len(s) + 1 /\ Len(s) \in Nat
      /\ \A i \in 1 .. Len(s) : Append(s, x)[i] = s[i]
      /\ Append(s, x)[Len(s) + 1] = x /\ DOMAIN s = 1 .. Len(s)
  BY <1>1, AppendProperties, LenProperties
<1>3. DOMAIN Append(s, x) = 1 .. Len(s) + 1 BY <1>2, LenProperties
<1>4. Range(Append(s, x)) = Range(s) \cup {x} BY <1>2, <1>3 DEF Range
<1>5. QED BY <1>2, <1>4, SeqOfRange

\* A concatenation holds what its two parts hold.
LEMMA RangeOfConcat ==
  ASSUME NEW s, NEW r, s \in Seq(Range(s)), r \in Seq(Range(r))
  PROVE  s \o r \in Seq(Range(s \o r)) /\ Range(s \o r) = Range(s) \cup Range(r)
<1> DEFINE S == Range(s) \cup Range(r)
<1>1. s \in Seq(S) /\ r \in Seq(S) BY SeqMonotonic
<1> HIDE DEF S
<1>2. s \o r \in Seq(S) /\ Range(s \o r) = Range(s) \cup Range(r) BY <1>1, ConcatProperties, RangeConcatenation
<1>3. QED BY <1>2, SeqOfRange

\* The tail of a sequence holds nothing new.
LEMMA RangeOfTail ==
  ASSUME NEW s, s \in Seq(Range(s)), s # <<>>
  PROVE  Head(s) \in Range(s) /\ Tail(s) \in Seq(Range(Tail(s))) /\ Range(Tail(s)) \subseteq Range(s)
BY HeadTailProperties, SeqOfRange, RangeOfSeq

\* A sequence without one element is a sequence again.
LEMMA RangeOfRemoval ==
  ASSUME NEW s, s \in Seq(Range(s)), NEW p \in DOMAIN s
  PROVE  RemoveAt(s, p) \in Seq(Range(RemoveAt(s, p)))
<1>1. Len(s) \in Nat /\ DOMAIN s = 1 .. Len(s) /\ \A i \in 1 .. Len(s) : s[i] \in Range(s)
  BY LenProperties, ElementOfSeq
<1>2. SubSeq(s, 1, p - 1) \in Seq(Range(s))
  <2>1. \A i \in 1 .. p - 1 : s[i] \in Range(s) BY <1>1
  <2>2. QED BY <1>1, <2>1, SubSeqProperties
<1>3. SubSeq(s, p + 1, Len(s)) \in Seq(Range(s))
  <2>1. \A i \in p + 1 .. Len(s) : s[i] \in Range(s) BY <1>1
  <2>2. QED BY <1>1, <2>1, SubSeqProperties
<1>4. RemoveAt(s, p) \in Seq(Range(s)) BY <1>2, <1>3, ConcatProperties DEF RemoveAt
<1>5. QED BY <1>4, SeqOfRange

\* No URB of the transfer is to be reaped when none is in the kernel.
LEMMA NoneInKernel ==
  ASSUME Fields, NEW t \in Transfers, InKernel(t) = 0
  PROVE  \A u \in Range(done) : u.t # t
<1> DEFINE K == {k \in DOMAIN done : done[k].t = t}
<1>1. Len(pend[t]) \in Nat /\ Len(done) \in Nat /\ DOMAIN done = 1 .. Len(done) BY LenProperties DEF Fields
<1>2. IsFiniteSet(K) /\ Cardinality(K) \in Nat
  <2>1. IsFiniteSet(1 .. Len(done)) /\ K \in SUBSET (1 .. Len(done)) BY <1>1, FS_Interval
  <2>2. QED BY <2>1, FS_Subset, FS_CardinalityType
<1>3. Cardinality(K) = 0 BY <1>1, <1>2 DEF InKernel, UrbsOf
<1>4. K = {} BY <1>2, <1>3, FS_EmptySet
<1>5. QED BY <1>4 DEF Range

\* Nothing has been reported in the beginning.
LEMMA InitEarned == Init => EarnedInv
<1> SUFFICES ASSUME Init PROVE EarnedInv OBVIOUS
<1>1. <<>> \in Seq(Range(<<>>)) /\ Range(<<>>) = {} BY DEF Range
<1>2. Fields BY <1>1 DEF Init, Fields, Blank
<1>3. QED BY <1>1, <1>2 DEF Init, EarnedInv, InFlight, Known, Blank, Idle, Poll

\* What a discarded URB leaves: it comes back as cancelled, or nothing changes.
LEMMA DiscardEarns ==
  ASSUME Fields, NEW t \in Transfers, NEW i, Discard(t, i)
  PROVE  /\ DOMAIN pend' = Transfers /\ \A u \in Transfers : pend'[u] \in Seq(Range(pend'[u]))
         /\ done' \in Seq(Range(done'))
         /\ \A u \in Range(done') : u \in Range(done) \/ (u.t = t /\ u.code = "cancelled")
<1>1. CASE Contains(pend[t], i)
  <2> DEFINE k == CHOOSE k \in DOMAIN pend[t] : pend[t][k] = i
  <2>1. PICK n : done' = Append(done, [t |-> t, i |-> i, code |-> "cancelled", n |-> n])
    BY <1>1 DEF Discard
  <2>2. done' \in Seq(Range(done')) /\ Range(done') = Range(done) \cup {[t |-> t, i |-> i, code |-> "cancelled", n |-> n]}
    BY <2>1, RangeOfAppend DEF Fields
  <2>3. k \in DOMAIN pend[t] BY <1>1, LenProperties DEF Contains, Fields
  <2>4. pend' = [pend EXCEPT ![t] = RemoveAt(@, k)] BY <1>1 DEF Discard
  <2> HIDE DEF k
  <2>5. RemoveAt(pend[t], k) \in Seq(Range(RemoveAt(pend[t], k))) BY <2>3, RangeOfRemoval DEF Fields
  <2>6. QED BY <2>2, <2>4, <2>5 DEF Fields
<1>2. CASE ~Contains(pend[t], i) BY <1>2 DEF Discard, Fields
<1>3. QED BY <1>1, <1>2

\* No call gives a transfer a status that it has not earned.
LEMMA CallEarns ==
  ASSUME FlyingInv, EarnedInv, NEW t \in Transfers, Application(t) \/ Calls(t), UNCHANGED fixed
  PROVE  EarnedInv'
<1> USE DEF EarnedInv, fixed, kernel, Reaping
<1>1. CASE Submit(t)
  <2>1. Fields' BY <1>1 DEF Submit, Fields, Blank
  <2>2. ASSUME Reaping PROVE \A u \in Range(done) : u.t # t
    BY <1>1, <2>2, NoneInKernel DEF Submit
  <2>3. type[t] = "control" => priv'[t].n = 1 BY <1>1 DEF Submit, Sizes, FlyingInv, Shapes, Blank
  <2>4. Reaping => InFlight'
    BY <1>1, <2>3 DEF Submit, InFlight, FlyingInv, Shapes, LockFree, Idle, Blank
  <2>5. Reaping => \A u \in Transfers : Known(u)' => ActionEarned(u, priv[u])' /\ StatusKnown(u, priv[u])'
    BY <1>1 DEF Submit, FlyingInv, Shapes, Known, ActionEarned, Actions, StatusKnown, Blank, InFlight, Fields
  <2>6. Reaping => \A u \in Range(done) : priv'[u.t].urbs => CodeEarned(u)'
    BY <1>1, <2>2 DEF Submit, FlyingInv, Shapes, CodeEarned, Fields
  <2>7. Reaping /\ handler.op = "report" => ReportEarned(handler.t, handler.st)'
    BY <1>1 DEF Submit, FlyingInv, ReportEarned, InFlight, Fields
  <2>8. QED BY <1>1, <2>1, <2>4, <2>5, <2>6, <2>7 DEF Submit
<1>2. CASE Cancel(t)
  <2>1. Fields' BY <1>2 DEF Cancel, StartCancel, Fields
  <2>2. Reaping => InFlight'
    BY <1>2 DEF Cancel, StartCancel, InFlight, FlyingInv, Shapes, LockFree, Idle, Fields
  <2>3. Reaping => \A u \in Transfers : Known(u)' => ActionEarned(u, priv[u])' /\ StatusKnown(u, priv[u])'
    BY <1>2 DEF Cancel, StartCancel, FlyingInv, Shapes, Known, ActionEarned, Actions, StatusKnown, Fields
  <2>4. Reaping => \A u \in Range(done) : priv'[u.t].urbs => CodeEarned(u)'
    BY <1>2 DEF Cancel, StartCancel, FlyingInv, Shapes, CodeEarned, Fields
  <2>5. Reaping /\ handler.op = "report" => ReportEarned(handler.t, handler.st)'
    BY <1>2 DEF Cancel, StartCancel, FlyingInv, ReportEarned, Fields
  <2>6. QED BY <1>2, <2>1, <2>2, <2>3, <2>4, <2>5 DEF Cancel
<1>3. CASE Expire(t)
  <2>1. Fields' BY <1>3 DEF Expire, Fields
  <2>2. Reaping => InFlight' BY <1>3 DEF Expire, InFlight, Fields
  <2>3. Reaping => \A u \in Transfers : Known(u)' => ActionEarned(u, priv[u])' /\ StatusKnown(u, priv[u])'
    BY <1>3 DEF Expire, Known, ActionEarned, Actions, StatusKnown, Fields
  <2>4. Reaping => \A u \in Range(done) : priv'[u.t].urbs => CodeEarned(u)'
    BY <1>3 DEF Expire, CodeEarned, Fields
  <2>5. Reaping /\ handler.op = "report" => ReportEarned(handler.t, handler.st)'
    BY <1>3 DEF Expire, FlyingInv, ReportEarned, Fields
  <2>6. QED BY <1>3, <2>1, <2>2, <2>3, <2>4, <2>5 DEF Expire
<1>4. CASE SubmitUrb(t)
  <2>1. Fields'
    <3>1. Append(pend[t], user[t].i) \in Seq(Range(Append(pend[t], user[t].i))) BY RangeOfAppend DEF Fields
    <3>2. QED BY <1>4, <3>1 DEF SubmitUrb, Fields
  <2>2. Reaping => InFlight'
    BY <1>4 DEF SubmitUrb, InFlight, FlyingInv, Shapes, Idle
  <2>3. UNCHANGED <<priv, flags, done, connected, fault, handler>> BY <1>4 DEF SubmitUrb
  <2>4. QED BY <2>1, <2>2, <2>3 DEF Known, ActionEarned, Actions, StatusKnown, CodeEarned, ReportEarned
<1>5. CASE FirstUrbFails(t)
  <2>1. Fields' BY <1>5 DEF FirstUrbFails, Fields
  <2>2. Reaping => InFlight' BY <1>5 DEF FirstUrbFails, InFlight, FlyingInv, Shapes, Idle
  <2>3. Reaping => \A u \in Transfers : Known(u)' => ActionEarned(u, priv[u])' /\ StatusKnown(u, priv[u])'
    BY <1>5 DEF FirstUrbFails, FlyingInv, Shapes, Known, ActionEarned, Actions, StatusKnown
  <2>4. Reaping => \A u \in Range(done) : priv'[u.t].urbs => CodeEarned(u)'
    BY <1>5 DEF FirstUrbFails, FlyingInv, Shapes, CodeEarned, Fields
  <2>5. Reaping /\ handler.op = "report" => ReportEarned(handler.t, handler.st)'
    BY <1>5 DEF FirstUrbFails, ReportEarned
  <2>6. QED BY <1>5, <2>1, <2>2, <2>3, <2>4, <2>5 DEF FirstUrbFails
<1>6. CASE LaterUrbFails(t)
  <2> DEFINE act == IF Refused(t, user[t].i) /\ connected THEN "early" ELSE "submit_failed"
  <2>1. priv' = [priv EXCEPT ![t].action = act, ![t].retired = @ + Unsubmitted(t)]
    BY <1>6 DEF LaterUrbFails
  <2> HIDE DEF act
  <2>2. /\ DOMAIN priv' = Transfers /\ DOMAIN priv'[t] = DOMAIN priv[t]
        /\ priv'[t].action = act /\ priv'[t].urbs = priv[t].urbs
        /\ priv'[t].status = priv[t].status /\ priv'[t].n = priv[t].n
        /\ \A u \in Transfers : u # t => priv'[u] = priv[u]
    BY <2>1 DEF FlyingInv, Shapes, Fields
  <2>3. /\ act \in {"early", "submit_failed"}
        /\ act = "early" => type[t] \in {"bulk", "interrupt"}
        /\ act = "early" => fault' = fault /\ user'[t] = Idle
        /\ act = "submit_failed" => fault' = [fault EXCEPT ![t] = @ \cup {"refused"}]
        /\ user'[t].op \in {"none", "discard"}
    BY <1>6 DEF act, LaterUrbFails, Refused, Idle, FlyingInv, Shapes
  <2>4. /\ \A u \in Transfers : fault[u] \subseteq fault'[u] /\ fault'[u] \subseteq fault[u] \cup {"refused"}
        /\ fault' \in [Transfers -> SUBSET Faults]
        /\ act = "submit_failed" => "refused" \in fault'[t]
    <3>1. CASE act = "early" BY <2>3, <3>1 DEF Fields, Faults
    <3>2. CASE act = "submit_failed"
      <4>1. fault' = [fault EXCEPT ![t] = @ \cup {"refused"}] BY <2>3, <3>2
      <4>2. fault \in [Transfers -> SUBSET Faults] /\ "refused" \in Faults BY DEF Fields, Faults
      <4> HIDE DEF EarnedInv
      <4>3. QED BY <4>1, <4>2
    <3>3. QED BY <2>3, <3>1, <3>2
  <2>5. /\ user[t].op = "submit" /\ user[t].i > 1 /\ app' = [app EXCEPT ![t] = "flying"]
        /\ \A u \in Transfers : u # t => user'[u] = user[u]
        /\ UNCHANGED <<flags, handler, timing, pend, done, connected>>
    BY <1>6 DEF LaterUrbFails, Accepted, FlyingInv, Shapes
  <2>6. Fields'
    <3>1. \A u \in Transfers : {"action", "status", "n"} \subseteq DOMAIN priv'[u] BY <2>2 DEF Fields
    <3>2. flags' = flags /\ timing' = timing /\ pend' = pend /\ done' = done BY <2>5
    <3>3. QED BY <2>4, <3>1, <3>2 DEF Fields
  <2>7. Reaping => InFlight'
    BY <2>2, <2>3, <2>5 DEF InFlight, FlyingInv, Shapes
  <2>8. Reaping => \A u \in Transfers : Known(u)' => ActionEarned(u, priv[u])' /\ StatusKnown(u, priv[u])'
    <3> SUFFICES ASSUME Reaping, NEW u \in Transfers, Known(u)' PROVE ActionEarned(u, priv[u])' /\ StatusKnown(u, priv[u])'
      OBVIOUS
    <3>1. Known(u) BY <2>2, <2>5 DEF Known
    <3>2. ActionEarned(u, priv[u])'
      BY <2>2, <2>3, <2>4, <2>5, <3>1 DEF ActionEarned, Actions
    <3>3. StatusKnown(u, priv[u])'
      BY <2>2, <2>3, <2>4, <2>5, <3>1 DEF StatusKnown, InFlight
    <3>4. QED BY <3>2, <3>3
  <2>9. Reaping => \A u \in Range(done) : priv'[u.t].urbs => CodeEarned(u)'
    BY <2>2, <2>4, <2>5 DEF CodeEarned, Fields
  <2>10. Reaping /\ handler.op = "report" => ReportEarned(handler.t, handler.st)'
    BY <2>4, <2>5 DEF FlyingInv, ReportEarned
  <2>11. QED BY <2>5, <2>6, <2>7, <2>8, <2>9, <2>10
<1>7. CASE UserDiscards(t)
  <2>1. UNCHANGED <<priv, flags, app, handler, timing, connected, fault>> /\ Discard(t, user[t].i)
        /\ user[t].op = "discard" /\ user'[t].op \in {"none", "discard"}
        /\ \A u \in Transfers : u # t => user'[u] = user[u]
    BY <1>7 DEF UserDiscards, FlyingInv, Shapes, Idle
  <2>2. Fields' BY <2>1, DiscardEarns DEF Fields
  <2>3. Reaping => InFlight' BY <2>1 DEF InFlight
  <2>4. Reaping => \A u \in Range(done') : priv[u.t].urbs => CodeEarned(u)
    BY <2>1, DiscardEarns DEF InFlight, CodeEarned, Codes, Faults
  <2>5. QED BY <2>1, <2>2, <2>3, <2>4 DEF Known, ActionEarned, Actions, StatusKnown, CodeEarned, ReportEarned
<1>8. QED BY <1>1, <1>2, <1>3, <1>4, <1>5, <1>6, <1>7 DEF Application, Calls

\* What the completion handlers leave: the URB that is reaped is gone from the
\* kernel, and the transfer waits, is discarded further or is reported.
LEMMA ReapedEarns ==
  ASSUME FlyingInv, EarnedInv, UNCHANGED fixed, Reaped, done # <<>>, handler = Poll,
         NEW t \in Transfers, user[t] = Idle, app[t] = "flying",
         NEW p, {"urbs", "action", "status", "n"} \subseteq DOMAIN p, priv' = [priv EXCEPT ![t] = p],
         ActionEarned(t, p), StatusKnown(t, p), priv[t].urbs,
         \/ handler' = Poll
         \/ handler'.op = "discard" /\ type[handler'.t] # "control"
         \/ handler'.op = "report" /\ handler'.t = t /\ ~p.urbs /\ ReportEarned(t, handler'.st)
  PROVE  EarnedInv'
<1>1. /\ InFlight /\ \A u \in Transfers : Known(u) => ActionEarned(u, priv[u]) /\ StatusKnown(u, priv[u])
      /\ \A u \in Range(done) : priv[u.t].urbs => CodeEarned(u)
      /\ Fields
  BY DEF EarnedInv, Reaping, Poll
<1>2. /\ UNCHANGED <<flags, app, user, timing, pend, connected, fault, type>> /\ done' = Tail(done)
  BY DEF Reaped, fixed
<1>3. DOMAIN priv' = Transfers /\ priv'[t] = p /\ \A u \in Transfers : u # t => priv'[u] = priv[u]
  BY DEF FlyingInv, Shapes
<1>4. done' \in Seq(Range(done')) /\ Range(done') \subseteq Range(done) BY <1>1, <1>2, RangeOfTail DEF Fields
<1>5. Fields'
  <2>1. \A u \in Transfers : {"action", "status", "n"} \subseteq DOMAIN priv'[u] BY <1>1, <1>3 DEF Fields
  <2>2. QED BY <1>1, <1>2, <1>4, <2>1 DEF Fields
<1>6. InFlight' BY <1>1, <1>2, <1>3 DEF InFlight, Idle, Poll
<1>7. \A u \in Transfers : Known(u)' => ActionEarned(u, priv[u])' /\ StatusKnown(u, priv[u])'
  BY <1>1, <1>2, <1>3 DEF Known, ActionEarned, Actions, StatusKnown, Poll
<1>8. \A u \in Range(done') : priv'[u.t].urbs => CodeEarned(u)'
  BY <1>1, <1>2, <1>3, <1>4 DEF CodeEarned, Fields
<1>9. handler'.op = "report" => ReportEarned(handler.t, handler.st)'
  BY <1>2 DEF ReportEarned, Poll
<1>10. QED BY <1>5, <1>6, <1>7, <1>8, <1>9 DEF EarnedInv

\* A completion handler tells of what the URB and the transfer have gone through.
LEMMA CompletionEarns ==
  ASSUME FlyingInv, EarnedInv, UNCHANGED fixed, BulkSurplus \/ BulkNormal \/ IsoCompletion \/ ControlCompletion
  PROVE  EarnedInv'
<1> DEFINE t == Urb.t
<1> DEFINE Earned(p) == /\ {"urbs", "action", "status", "n"} \subseteq DOMAIN p
                        /\ ActionEarned(t, p) /\ StatusKnown(t, p)
<1>1. PICK types : Mine(types) /\ Reaped
  BY DEF BulkSurplus, BulkNormal, IsoCompletion, ControlCompletion
<1>2. t \in Transfers /\ user[t] = Idle /\ priv[t].urbs /\ handler = Poll /\ done # <<>>
  BY <1>1 DEF Mine, LockFree
<1>3. Earned(priv[t]) /\ app[t] = "flying" /\ CodeEarned(Urb)
  <2>1. Urb \in Range(done) BY <1>2, RangeOfTail DEF EarnedInv, Fields, Urb
  <2>2. QED BY <1>2, <2>1 DEF EarnedInv, Fields, FlyingInv, Shapes, Reaping, Poll, Idle, Known, InFlight
<1>4. ASSUME NEW p, Earned(p), NEW st, ReportEarned(t, st), Completed(p, st) PROVE EarnedInv'
  <2> DEFINE q == [p EXCEPT !.urbs = FALSE]
  <2>1. {"urbs", "action", "status", "n"} \subseteq DOMAIN q /\ ~q.urbs BY <1>4
  <2>2. ActionEarned(t, q) /\ StatusKnown(t, q) BY <1>4 DEF ActionEarned, Actions, StatusKnown
  <2>3. priv' = [priv EXCEPT ![t] = q] /\ handler' = [op |-> "report", t |-> t, st |-> st]
    BY <1>4 DEF Completed
  <2> HIDE DEF q, t
  <2>4. QED BY <1>1, <1>2, <1>3, <1>4, <2>1, <2>2, <2>3, ReapedEarns
<1>5. ASSUME NEW p, Earned(p), Wait(p) PROVE EarnedInv'
  <2>1. priv' = [priv EXCEPT ![t] = p] /\ handler' = Poll BY <1>5 DEF Wait
  <2> HIDE DEF t
  <2>2. QED BY <1>1, <1>2, <1>3, <1>5, <2>1, ReapedEarns
<1>6. ASSUME NEW p, Earned(p), type[t] # "control", CancelRemaining(p) PROVE EarnedInv'
  <2> DEFINE q == [p EXCEPT !.status = IF p.action = "error" /\ @ = "completed" THEN "error" ELSE @]
  <2>1. Earned(q) BY <1>6 DEF ActionEarned, Actions, StatusKnown
  <2>2. CASE q.retired = q.n
    <3>1. Completed(q, "by_action") BY <1>6, <2>2 DEF CancelRemaining
    <3>2. ReportEarned(t, "by_action") BY DEF ReportEarned
    <3> HIDE DEF q
    <3>3. QED BY <1>4, <2>1, <3>1, <3>2
  <2>3. CASE q.retired # q.n
    <3>1. /\ priv' = [priv EXCEPT ![t] = q]
          /\ handler' = [op |-> "discard", t |-> t, i |-> q.n, low |-> Urb.i + 1]
      BY <1>6, <2>3 DEF CancelRemaining
    <3> HIDE DEF q, t
    <3>2. QED BY <1>1, <1>2, <1>3, <1>6, <2>1, <3>1, ReapedEarns
  <2>4. QED BY <2>2, <2>3
<1>7. ReportEarned(t, "by_action") BY DEF ReportEarned
<1>8. CASE BulkSurplus
  <2> DEFINE last == priv[t].retired + 1 = priv[t].n
             q == [priv[t] EXCEPT !.retired = @ + 1, !.moved = @ + Urb.n,
                     !.status = IF last /\ priv[t].action # "early" /\ @ = "completed" THEN "error" ELSE @]
  <2>1. (Completed(q, "by_action") \/ Wait(q)) /\ priv[t].action # "normal" BY <1>8 DEF BulkSurplus
  <2>2. Earned(q) BY <1>3, <2>1 DEF ActionEarned, Actions, StatusKnown
  <2> HIDE DEF q
  <2>3. QED BY <1>4, <1>5, <1>7, <2>1, <2>2
<1>9. CASE BulkNormal
  <2> DEFINE p == [priv[t] EXCEPT !.retired = @ + 1, !.moved = @ + Urb.n]
             first(st) == [p EXCEPT !.status = IF @ = "completed" THEN st ELSE @]
  <2>1. Earned(p) /\ p.action = "normal" BY <1>3, <1>9 DEF BulkNormal, ActionEarned, Actions, StatusKnown
  <2>2. type[t] \in {"bulk", "interrupt"} BY <1>9 DEF BulkNormal, Mine
  <2>3. \/ Completed(p, "by_action") \/ Wait(p)
        \/ CancelRemaining([p EXCEPT !.action = "early"])
        \/ Urb.code = "shutdown" /\ CancelRemaining([p EXCEPT !.status = "no_device"])
        \/ Urb.code = "stall" /\ CancelRemaining(first("stall"))
        \/ Urb.code = "overflow" /\ Completed(first("overflow"), "by_action")
        \/ Urb.code = "proto" /\ CancelRemaining([p EXCEPT !.action = "error"])
    BY <1>9 DEF BulkNormal
  <2> HIDE DEF p
  <2>4. Earned([p EXCEPT !.action = "early"]) BY <2>1, <2>2 DEF ActionEarned, Actions, StatusKnown
  <2>5. Urb.code = "shutdown" => Earned([p EXCEPT !.status = "no_device"])
    BY <1>3, <2>1 DEF ActionEarned, Actions, StatusKnown, CodeEarned, Faults
  <2>6. \A st \in {"stall", "overflow"} : Urb.code = st => Earned(first(st))
    BY <1>3, <2>1 DEF ActionEarned, Actions, StatusKnown, CodeEarned, Faults
  <2>7. Urb.code = "proto" => Earned([p EXCEPT !.action = "error"])
    BY <1>3, <2>1 DEF ActionEarned, Actions, StatusKnown, CodeEarned, Faults
  <2> HIDE DEF Earned, first
  <2>8. QED BY <1>4, <1>5, <1>6, <1>7, <2>1, <2>2, <2>3, <2>4, <2>5, <2>6, <2>7
<1>10. CASE IsoCompletion
  <2> DEFINE q == [priv[t] EXCEPT !.retired = @ + 1, !.off = @ + size[t][Urb.i]]
  <2>1. Earned(q) /\ q.action = priv[t].action BY <1>3 DEF ActionEarned, Actions, StatusKnown
  <2>2. type[t] = "iso" BY <1>10 DEF IsoCompletion, Mine
  <2>3. \/ Wait(q)
        \/ q.action # "normal" /\ Completed(q, IF q.action = "cancelled" THEN "cancellation" ELSE "error")
        \/ Completed(q, IF Urb.code = "shutdown" THEN "no_device" ELSE "completed")
    BY <1>10, <2>1 DEF IsoCompletion
  <2> HIDE DEF q
  <2>5. q.action # "normal" => ReportEarned(t, IF q.action = "cancelled" THEN "cancellation" ELSE "error")
    BY <2>1, <2>2 DEF ReportEarned, ActionEarned, Actions
  <2>6. ReportEarned(t, IF Urb.code = "shutdown" THEN "no_device" ELSE "completed")
    BY <1>3 DEF ReportEarned, CodeEarned, Faults
  <2> HIDE DEF Earned
  <2>7. QED BY <1>4, <1>5, <2>1, <2>3, <2>5, <2>6
<1>11. CASE ControlCompletion
  <2> DEFINE p == [priv[t] EXCEPT !.moved = @ + Urb.n]
             st == IF p.action = "cancelled" THEN "cancellation" ELSE ControlStatus(Urb.code)
  <2>1. Earned(p) BY <1>3 DEF ActionEarned, Actions, StatusKnown
  <2>2. Completed(p, st) /\ type[t] = "control" BY <1>11 DEF ControlCompletion, Mine
  <2>3. ReportEarned(t, ControlStatus(Urb.code))
    BY <1>3, <2>2 DEF ReportEarned, ControlStatus, CodeEarned, Codes, Faults
  <2>4. ReportEarned(t, st) BY <2>1, <2>3 DEF ReportEarned, ActionEarned, Actions
  <2> HIDE DEF Earned, p, st
  <2>5. QED BY <1>4, <2>1, <2>2, <2>4
<1>12. QED BY <1>8, <1>9, <1>10, <1>11

\* The other steps of the handler: a report forgets the submission; after a
\* failed poll nothing is reaped any more.
LEMMA HandlerEarns == ASSUME FlyingInv, EarnedInv, Handler, UNCHANGED fixed PROVE EarnedInv'
<1> USE DEF EarnedInv, fixed, Reaping
<1>1. CASE BulkSurplus \/ BulkNormal \/ IsoCompletion \/ ControlCompletion BY <1>1, CompletionEarns
<1>2. CASE HandlerDiscards
  <2> DEFINE t == handler.t
  <2>1. /\ UNCHANGED <<priv, flags, app, user, timing, connected, fault>>
        /\ t \in Transfers /\ type[t] # "control" /\ Discard(t, handler.i)
        /\ handler' = Poll \/ (handler'.op = "discard" /\ handler'.t = t)
    BY <1>2 DEF HandlerDiscards, FlyingInv, Shapes, InFlight
  <2>2. Fields' BY <2>1, DiscardEarns DEF Fields
  <2>3. InFlight' BY <1>2, <2>1 DEF HandlerDiscards, InFlight, Poll
  <2>4. \A u \in Range(done') : priv[u.t].urbs => CodeEarned(u)
    BY <1>2, <2>1, DiscardEarns DEF HandlerDiscards, CodeEarned, Codes, Faults
  <2>5. QED
    BY <1>2, <2>1, <2>2, <2>3, <2>4 DEF HandlerDiscards, Known, ActionEarned, Actions, StatusKnown, CodeEarned, Poll
<1>3. CASE Report
  <2> DEFINE t == handler.t
  <2>1. /\ t \in Transfers /\ handler' = Poll
        /\ UNCHANGED <<user, timing, pend, done, connected>>
        /\ app' = [app EXCEPT ![t] = "idle"] /\ priv' = [priv EXCEPT ![t] = Blank]
        /\ flags' = [flags EXCEPT ![t] = {}] /\ fault' = [fault EXCEPT ![t] = {}]
    BY <1>3 DEF Report, Forget, FlyingInv
  <2>2. /\ user[t].op \notin {"submit", "discard"} /\ InFlight
        /\ \A u \in Transfers : Known(u) => ActionEarned(u, priv[u]) /\ StatusKnown(u, priv[u])
        /\ \A u \in Range(done) : priv[u.t].urbs => CodeEarned(u)
    BY <1>3, <2>1 DEF Report, InFlight
  <2>3. Fields' BY <2>1 DEF Fields, Blank, FlyingInv, Shapes
  <2> HIDE DEF t
  <2>4. InFlight' BY <2>1, <2>2 DEF InFlight, Blank, Poll, FlyingInv, Shapes
  <2>5. \A u \in Transfers : Known(u)' => ActionEarned(u, priv[u])' /\ StatusKnown(u, priv[u])'
    BY <2>1, <2>2 DEF Known, ActionEarned, Actions, StatusKnown, Blank, Poll, FlyingInv, Shapes, Fields
  <2>6. \A u \in Range(done) : priv'[u.t].urbs => CodeEarned(u)'
    BY <2>1, <2>2 DEF CodeEarned, Blank, FlyingInv, Shapes, Fields
  <2>7. QED BY <2>1, <2>3, <2>4, <2>5, <2>6 DEF Poll
<1>4. CASE PollError BY <1>4 DEF PollError, Fields, kernel
<1>5. CASE Sweep BY <1>5 DEF Sweep, Fields, kernel
<1>6. CASE ClearPriv
  <2>1. Fields' BY <1>6 DEF ClearPriv, Fields, kernel, FlyingInv, Shapes
  <2>2. QED BY <1>6, <2>1 DEF ClearPriv
<1>7. CASE ReportGone
  <2>1. Fields' BY <1>7 DEF ReportGone, Fields, kernel
  <2>2. QED BY <1>7, <2>1 DEF ReportGone
<1>8. QED BY <1>1, <1>2, <1>3, <1>4, <1>5, <1>6, <1>7 DEF Handler

\* An expiry cancels.
LEMMA ExpiryEarns == ASSUME FlyingInv, EarnedInv, ExpireCancel, UNCHANGED fixed PROVE EarnedInv'
<1> DEFINE t == timing
<1> USE DEF EarnedInv, fixed, kernel, Reaping
<1>1. /\ t \in Transfers /\ user[t] = Idle /\ timing' = NoTransfer
      /\ UNCHANGED <<app, handler, pend, done, connected, fault>> /\ StartCancel(t)
  BY DEF ExpireCancel, LockFree, Fields
<1>2. Fields' BY <1>1 DEF StartCancel, Fields
<1> HIDE DEF t
<1>3. Reaping => InFlight' BY <1>1 DEF StartCancel, InFlight, FlyingInv, Shapes, Idle, Fields
<1>4. Reaping => \A u \in Transfers : Known(u)' => ActionEarned(u, priv[u])' /\ StatusKnown(u, priv[u])'
  BY <1>1 DEF StartCancel, FlyingInv, Shapes, Known, ActionEarned, Actions, StatusKnown, Fields
<1>5. Reaping => \A u \in Range(done) : priv'[u.t].urbs => CodeEarned(u)'
  BY <1>1 DEF StartCancel, FlyingInv, Shapes, CodeEarned, Fields
<1>6. Reaping /\ handler.op = "report" => ReportEarned(handler.t, handler.st)'
  BY <1>1 DEF StartCancel, FlyingInv, ReportEarned, Fields
<1>7. QED BY <1>1, <1>2, <1>3, <1>4, <1>5, <1>6

\* What the device answers is a fault of the submission, or none.
LEMMA AnswerEarns ==
  ASSUME FlyingInv, EarnedInv, NEW t \in Transfers, UrbCompletes(t), UNCHANGED fixed
  PROVE  EarnedInv'
<1> USE DEF EarnedInv, fixed, Reaping
<1> DEFINE stops(a) == a.code # "ok" /\ continuation /\ type[t] \in {"bulk", "interrupt"}
           rest(a) == IF stops(a) THEN [k \in 1 .. Len(pend[t]) - 1 |->
                                          [t |-> t, i |-> pend[t][k + 1], code |-> "remote", n |-> 0]]
                      ELSE <<>>
           urb(i, a) == [t |-> t, i |-> i, code |-> a.code, n |-> a.n]
           Joins(i, a) == /\ done' = Append(done, urb(i, a)) \o rest(a)
                          /\ pend' = [pend EXCEPT ![t] = IF stops(a) THEN <<>> ELSE Tail(@)]
                          /\ fault' = [fault EXCEPT ![t] = @ \cup ({a.code} \cap Faults)]
<1>1. PICK i : \E a \in Answers(t, i) : Joins(i, a) BY DEF UrbCompletes
<1>2. PICK a \in Answers(t, i) : Joins(i, a) BY <1>1
<1>3. /\ UNCHANGED <<priv, flags, size, app, user, handler, timing, connected>> /\ connected /\ pend[t] # <<>>
  BY DEF UrbCompletes
<1>4. a.code \in {"ok", "remote", "stall", "proto", "overflow"} /\ (type[t] = "control" => a.code # "remote")
  BY DEF Answers
<1>5. rest(a) \in Seq(Range(rest(a))) /\ \A u \in Range(rest(a)) : u.t = t /\ u.code = "remote" /\ type[t] # "control"
  <2>1. Len(pend[t]) \in Nat BY LenProperties DEF Fields
  <2>2. CASE stops(a)
    <3> DEFINE r(k) == [t |-> t, i |-> pend[t][k + 1], code |-> "remote", n |-> 0]
    <3>1. rest(a) = [k \in 1 .. Len(pend[t]) - 1 |-> r(k)] BY <2>2
    <3>2. Len(pend[t]) - 1 \in Nat BY <1>3, <2>1, EmptySeq DEF Fields
    <3>3. \A k \in 1 .. Len(pend[t]) - 1 : r(k).t = t /\ r(k).code = "remote" OBVIOUS
    <3> HIDE DEF rest, r
    <3>4. rest(a) \in [1 .. Len(pend[t]) - 1 -> Range(rest(a))] BY <3>1 DEF Range
    <3>5. rest(a) \in Seq(Range(rest(a))) BY <3>2, <3>4, SeqDef
    <3>6. QED BY <2>2, <3>1, <3>3, <3>5 DEF Range
  <2>3. CASE ~stops(a) BY <2>3 DEF Range
  <2>4. QED BY <2>2, <2>3
<1>6. done' \in Seq(Range(done')) /\ Range(done') = Range(done) \cup {urb(i, a)} \cup Range(rest(a))
  <2>1. done' = Append(done, urb(i, a)) \o rest(a) BY <1>2
  <2>2. rest(a) \in Seq(Range(rest(a))) BY <1>5
  <2> HIDE DEF rest, urb, Joins, EarnedInv
  <2> DEFINE first == Append(done, urb(i, a))
  <2>3. first \in Seq(Range(first)) /\ Range(first) = Range(done) \cup {urb(i, a)}
    <3>1. done \in Seq(Range(done)) BY DEF EarnedInv, Fields
    <3>2. QED BY <3>1, RangeOfAppend
  <2>4. done' = first \o rest(a) BY <2>1
  <2> HIDE DEF first
  <2>5. QED BY <2>2, <2>3, <2>4, RangeOfConcat
<1>7. DOMAIN pend' = Transfers /\ \A u \in Transfers : pend'[u] \in Seq(Range(pend'[u]))
  <2>1. <<>> \in Seq(Range(<<>>)) BY DEF Range
  <2>2. Tail(pend[t]) \in Seq(Range(Tail(pend[t]))) BY <1>3, RangeOfTail DEF Fields
  <2>3. pend' = [pend EXCEPT ![t] = <<>>] \/ pend' = [pend EXCEPT ![t] = Tail(@)] BY <1>2
  <2>4. QED BY <2>1, <2>2, <2>3 DEF Fields
<1>8. /\ fault' \in [Transfers -> SUBSET Faults] /\ \A u \in Transfers : fault[u] \subseteq fault'[u]
      /\ a.code \in Faults => a.code \in fault'[t]
  BY <1>2 DEF Fields
<1> HIDE DEF rest, stops, Joins
<1>9. Fields' BY <1>3, <1>5, <1>6, <1>7, <1>8 DEF Fields
<1>10. Reaping => InFlight' BY <1>3 DEF InFlight
<1>11. Reaping => \A u \in Transfers : Known(u)' => ActionEarned(u, priv[u])' /\ StatusKnown(u, priv[u])'
  BY <1>3, <1>8 DEF Known, ActionEarned, Actions, StatusKnown
<1>12. Reaping => \A u \in Range(done') : priv'[u.t].urbs => CodeEarned(u)'
  <2>1. ASSUME Reaping, NEW u \in Range(done), priv[u.t].urbs PROVE CodeEarned(u)'
    BY <1>3, <1>8, <2>1 DEF CodeEarned, Fields
  <2>2. CodeEarned(urb(i, a))' BY <1>3, <1>4, <1>8 DEF CodeEarned, Codes, Faults
  <2>3. ASSUME NEW u \in Range(rest(a)) PROVE CodeEarned(u)'
    BY <1>3, <1>5, <2>3 DEF CodeEarned, Codes, Faults
  <2> HIDE DEF urb
  <2>4. QED BY <1>3, <1>6, <2>1, <2>2, <2>3
<1>13. Reaping /\ handler.op = "report" => ReportEarned(handler.t, handler.st)'
  BY <1>3, <1>8 DEF FlyingInv, ReportEarned
<1>14. QED BY <1>3, <1>9, <1>10, <1>11, <1>12, <1>13

\* The URBs under way are finitely many, so that a sequence holds them all.
LEMMA LostIsFinite == ASSUME UsbfsAssumption, Fields PROVE IsFiniteSet(Lost)
<1> DEFINE S(t) == {[t |-> t, i |-> pend[t][k], code |-> "shutdown", n |-> 0] : k \in DOMAIN pend[t]}
<1>1. ASSUME NEW t \in Transfers PROVE IsFiniteSet(S(t))
  <2> DEFINE f == [k \in DOMAIN pend[t] |-> [t |-> t, i |-> pend[t][k], code |-> "shutdown", n |-> 0]]
  <2>1. IsFiniteSet(DOMAIN pend[t])
    <3>1. Len(pend[t]) \in Nat /\ DOMAIN pend[t] = 1 .. Len(pend[t]) BY LenProperties DEF Fields
    <3>2. QED BY <3>1, FS_Interval
  <2>2. f \in Surjection(DOMAIN pend[t], S(t)) BY DEF Surjection
  <2> HIDE DEF f, S
  <2>3. QED BY <2>1, <2>2, FS_Surjection
<1> DEFINE SS == {S(t) : t \in Transfers}
           g == [t \in Transfers |-> S(t)]
<1>2. g \in Surjection(Transfers, SS)
  <2> HIDE DEF S
  <2>1. g \in [Transfers -> SS] /\ \A x \in SS : \E t \in Transfers : g[t] = x OBVIOUS
  <2> HIDE DEF g, SS
  <2>2. QED BY <2>1 DEF Surjection
<1>3. Lost = UNION SS BY DEF Lost
<1> HIDE DEF S
<1>4. \A s \in SS : IsFiniteSet(s) BY <1>1
<1>5. IsFiniteSet(Transfers) BY DEF UsbfsAssumption
<1> HIDE DEF g, SS
<1>6. IsFiniteSet(SS) BY <1>2, <1>5, FS_Surjection
<1>7. QED BY <1>3, <1>4, <1>6, FS_UNION

\* A device that is gone fails the URBs it has.
LEMMA DisconnectEarns == ASSUME FlyingInv, EarnedInv, Disconnect, UNCHANGED fixed PROVE EarnedInv'
<1> USE DEF EarnedInv, fixed, Reaping
<1>1. PICK back \in [1 .. Cardinality(Lost) -> Lost] : done' = done \o back BY DEF Disconnect
<1>2. /\ UNCHANGED <<priv, flags, app, user, handler, timing>> /\ connected' = FALSE
      /\ pend' = [t \in Transfers |-> <<>>]
      /\ fault' = [t \in Transfers |-> IF pend[t] = <<>> THEN fault[t] ELSE fault[t] \cup {"shutdown"}]
  BY DEF Disconnect
<1>3. \A u \in Lost : u.t \in Transfers /\ pend[u.t] # <<>> /\ u.code = "shutdown" BY DEF Lost, Fields
<1>4. back \in Seq(Range(back)) /\ Range(back) \subseteq Lost
  <2>1. Cardinality(Lost) \in Nat BY LostIsFinite, UsbfsAssumption, FS_CardinalityType
  <2>2. back \in [1 .. Cardinality(Lost) -> Range(back)] /\ Range(back) \subseteq Lost BY DEF Range
  <2>3. QED BY <2>1, <2>2, SeqDef
<1>5. done' \in Seq(Range(done')) /\ Range(done') = Range(done) \cup Range(back)
  BY <1>1, <1>4, RangeOfConcat DEF Fields
<1>6. fault' \in [Transfers -> SUBSET Faults] /\ \A t \in Transfers : fault[t] \subseteq fault'[t]
  BY <1>2 DEF Fields, Faults
<1>7. Fields'
  <2>1. <<>> \in Seq(Range(<<>>)) BY DEF Range
  <2>2. QED BY <1>2, <1>3, <1>4, <1>5, <1>6, <2>1 DEF Fields
<1>8. Reaping => InFlight' BY <1>2 DEF InFlight
<1>9. Reaping => \A u \in Transfers : Known(u)' => ActionEarned(u, priv[u])' /\ StatusKnown(u, priv[u])'
  BY <1>2, <1>6 DEF Known, ActionEarned, Actions, StatusKnown
<1>10. Reaping => \A u \in Range(done') : priv'[u.t].urbs => CodeEarned(u)'
  <2>1. ASSUME Reaping, NEW u \in Range(done), priv[u.t].urbs PROVE CodeEarned(u)'
    BY <1>2, <1>6, <2>1 DEF CodeEarned, Fields
  <2>2. ASSUME NEW u \in Range(back) PROVE CodeEarned(u)'
    <3>1. u.t \in Transfers /\ pend[u.t] # <<>> /\ u.code = "shutdown" BY <1>3, <1>4
    <3>2. QED BY <1>2, <3>1 DEF CodeEarned, Codes, Faults
  <2>3. QED BY <1>2, <1>5, <2>1, <2>2
<1>11. Reaping /\ handler.op = "report" => ReportEarned(handler.t, handler.st)'
  BY <1>2, <1>6 DEF FlyingInv, ReportEarned
<1>12. QED BY <1>2, <1>7, <1>8, <1>9, <1>10, <1>11

\* What a transfer is reported with has happened to this submission: it has
\* timed out, been cancelled, stalled, overflowed or lost its device, or one of
\* its URBs was refused, failed, or came short where that is not allowed.
THEOREM StatusEarnedCorrect == Spec => []StatusEarned
<1>1. Init => EarnedInv BY InitEarned
<1>2. FlyingInv /\ EarnedInv /\ [Next]_vars => EarnedInv'
  <2>1. ASSUME FlyingInv, EarnedInv, Next PROVE EarnedInv'
    BY <2>1, CallEarns, HandlerEarns, ExpiryEarns, AnswerEarns, DisconnectEarns DEF Next
  <2>2. ASSUME EarnedInv, UNCHANGED vars PROVE EarnedInv'
    BY <2>2 DEF EarnedInv, Reaping, Fields, InFlight, Known, ActionEarned, StatusKnown, CodeEarned, ReportEarned,
                vars, kernel, fixed
  <2>3. QED BY <2>1, <2>2
<1>3. FlyingInv /\ EarnedInv => StatusEarned
  <2> SUFFICES ASSUME FlyingInv, EarnedInv, handler.op = "report" PROVE StatusEarned
    BY DEF StatusEarned
  <2> DEFINE t == handler.t  st == handler.st  p == priv[t]
             s == IF st = "by_action" THEN IF p.action = "cancelled" THEN "cancellation" ELSE p.status ELSE st
  <2>1. /\ t \in Transfers /\ ReportEarned(t, st) /\ ActionEarned(t, p) /\ StatusKnown(t, p)
    BY DEF FlyingInv, EarnedInv, Reaping, Known
  <2>2. /\ s = "cancellation" => "cancelling" \in flags[t]
        /\ s = "cancelled" => "cancelling" \in flags[t]
        /\ s \in {"stall", "overflow"} => s \in fault[t]
        /\ s = "no_device" => "shutdown" \in fault[t] /\ ~connected
        /\ s = "error" => fault[t] \cap {"proto", "refused"} # {}
        /\ s # "timed_out"
    BY <2>1 DEF ReportEarned, ActionEarned, StatusKnown
  <2>3. \/ s = "cancellation" /\ Final(t, st) = Cancellation(t)
        \/ Final(t, st) = "error" /\ t \in ShortNotOk
        \/ s # "cancellation" /\ Final(t, st) = s
    BY DEF Final
  <2> HIDE DEF s, t, st, p
  <2>4. /\ Final(t, st) = "timed_out" => "timed_out" \in flags[t]
        /\ Final(t, st) = "cancelled" => "cancelling" \in flags[t]
        /\ Final(t, st) \in {"stall", "overflow"} => Final(t, st) \in fault[t]
        /\ Final(t, st) = "no_device" => "shutdown" \in fault[t] /\ ~connected
        /\ Final(t, st) = "error" => fault[t] \cap {"proto", "refused"} # {} \/ t \in ShortNotOk
    BY <2>2, <2>3 DEF Cancellation
  <2>5. QED BY <2>4 DEF StatusEarned, t, st
<1>4. QED BY FlyingCorrect, <1>1, <1>2, <1>3, PTL DEF Spec

(* The URBs add up.                                                        *)

\* The URBs of a transfer in a sequence of them.
LEMMA UrbsOfFinite ==
  ASSUME NEW s, s \in Seq(Range(s)), NEW t
  PROVE  /\ Len(s) \in Nat /\ DOMAIN s = 1 .. Len(s) /\ UrbsOf(s, t) \subseteq 1 .. Len(s)
         /\ IsFiniteSet(UrbsOf(s, t)) /\ Cardinality(UrbsOf(s, t)) \in Nat
<1>1. Len(s) \in Nat /\ DOMAIN s = 1 .. Len(s) BY LenProperties
<1>2. UrbsOf(s, t) \in SUBSET (1 .. Len(s)) BY <1>1 DEF UrbsOf
<1>3. IsFiniteSet(1 .. Len(s)) BY <1>1, FS_Interval
<1>4. IsFiniteSet(UrbsOf(s, t)) BY <1>2, <1>3, FS_Subset
<1>5. QED BY <1>1, <1>2, <1>4, FS_CardinalityType

\* URBs that come after others.
LEMMA UrbsOfConcat ==
  ASSUME NEW s, NEW r, s \in Seq(Range(s)), r \in Seq(Range(r)), NEW t
  PROVE  /\ UrbsOf(s \o r, t) = UrbsOf(s, t) \cup {k \in Len(s) + 1 .. Len(s) + Len(r) : r[k - Len(s)].t = t}
         /\ Cardinality(UrbsOf(s \o r, t)) = Cardinality(UrbsOf(s, t)) + Cardinality(UrbsOf(r, t))
         /\ \A k \in 1 .. Len(s) : (s \o r)[k] = s[k]
         /\ \A k \in Len(s) + 1 .. Len(s) + Len(r) : (s \o r)[k] = r[k - Len(s)]
<1> DEFINE S == UNION {Range(s), Range(r)}
           A == UrbsOf(s, t)
           B == {k \in Len(s) + 1 .. Len(s) + Len(r) : r[k - Len(s)].t = t}
           f == [k \in UrbsOf(r, t) |-> k + Len(s)]
<1>1. s \in Seq(S) /\ r \in Seq(S) BY SeqMonotonic
<1> HIDE DEF S
<1>2. /\ Len(s) \in Nat /\ Len(r) \in Nat /\ DOMAIN s = 1 .. Len(s) /\ DOMAIN r = 1 .. Len(r)
      /\ DOMAIN (s \o r) = 1 .. Len(s) + Len(r)
      /\ \A k \in 1 .. Len(s) + Len(r) : (s \o r)[k] = IF k <= Len(s) THEN s[k] ELSE r[k - Len(s)]
  BY <1>1, ConcatProperties, LenProperties
<1>3. UrbsOf(s \o r, t) = A \cup B BY <1>2 DEF UrbsOf
<1>4. f \in Bijection(UrbsOf(r, t), B)
  <2>1. \A k \in UrbsOf(r, t) : k \in 1 .. Len(r) /\ f[k] = k + Len(s) /\ f[k] \in B
    BY <1>2 DEF UrbsOf
  <2>2. \A k \in B : k - Len(s) \in UrbsOf(r, t) /\ f[k - Len(s)] = k BY <1>2 DEF UrbsOf
  <2>3. \A j, k \in UrbsOf(r, t) : f[j] = f[k] => j = k BY <1>2, <2>1
  <2>4. DOMAIN f = UrbsOf(r, t) OBVIOUS
  <2>5. f \in [UrbsOf(r, t) -> B] BY <2>1, <2>4
  <2> HIDE DEF f, B
  <2>6. QED BY <2>2, <2>3, <2>5 DEF Bijection, Injection, Surjection, IsInjective
<1>5. IsFiniteSet(B) /\ Cardinality(B) = Cardinality(UrbsOf(r, t))
  <2>1. ExistsBijection(UrbsOf(r, t), B) BY <1>4 DEF ExistsBijection
  <2> HIDE DEF B, f
  <2>2. QED BY <2>1, UrbsOfFinite, FS_Bijection
<1>6. IsFiniteSet(A) /\ Cardinality(A) \in Nat /\ Cardinality(B) \in Nat BY <1>5, UrbsOfFinite
<1>7. A \cap B = {} BY <1>2 DEF UrbsOf
<1> HIDE DEF A, B
<1>8. Cardinality(A \cap B) = 0 BY <1>7, FS_EmptySet
<1>9. Cardinality(A \cup B) = Cardinality(A) + Cardinality(B)
  <2>1. Cardinality(A \cup B) = Cardinality(A) + Cardinality(B) - Cardinality(A \cap B)
    BY <1>5, <1>6, FS_Union
  <2>2. QED BY <1>6, <1>8, <2>1
<1>10. Cardinality(UrbsOf(s \o r, t)) = Cardinality(UrbsOf(s, t)) + Cardinality(UrbsOf(r, t))
  BY <1>3, <1>5, <1>9 DEF A
<1>11. UrbsOf(s \o r, t) = UrbsOf(s, t) \cup {k \in Len(s) + 1 .. Len(s) + Len(r) : r[k - Len(s)].t = t}
  BY <1>3 DEF A, B
<1>12. /\ \A k \in 1 .. Len(s) : (s \o r)[k] = s[k]
       /\ \A k \in Len(s) + 1 .. Len(s) + Len(r) : (s \o r)[k] = r[k - Len(s)]
  BY <1>2
<1>13. QED BY <1>10, <1>11, <1>12

\* A URB that comes last, and the first one that is taken.
LEMMA UrbsOfAppend ==
  ASSUME NEW s, s \in Seq(Range(s)), NEW x, NEW t
  PROVE  /\ UrbsOf(Append(s, x), t) = UrbsOf(s, t) \cup (IF x.t = t THEN {Len(s) + 1} ELSE {})
         /\ Cardinality(UrbsOf(Append(s, x), t)) = Cardinality(UrbsOf(s, t)) + (IF x.t = t THEN 1 ELSE 0)
         /\ \A k \in 1 .. Len(s) : Append(s, x)[k] = s[k]
         /\ Append(s, x)[Len(s) + 1] = x
<1> DEFINE S == Range(s) \cup {x}
<1>1. s \in Seq(S) /\ x \in S BY SeqMonotonic
<1> HIDE DEF S
<1>2. /\ Len(s) \in Nat /\ DOMAIN s = 1 .. Len(s) /\ Append(s, x) \in Seq(S) /\ Len(Append(s, x)) = Len(s) + 1
      /\ \A k \in 1 .. Len(s) : Append(s, x)[k] = s[k]
      /\ Append(s, x)[Len(s) + 1] = x
  BY <1>1, AppendProperties, LenProperties
<1>3. DOMAIN Append(s, x) = 1 .. Len(s) + 1 BY <1>2, LenProperties
<1>4. UrbsOf(Append(s, x), t) = UrbsOf(s, t) \cup (IF x.t = t THEN {Len(s) + 1} ELSE {})
  BY <1>2, <1>3 DEF UrbsOf
<1>5. Len(s) + 1 \notin UrbsOf(s, t) BY <1>2 DEF UrbsOf
<1>6. CASE x.t = t
  <2>1. UrbsOf(Append(s, x), t) = UrbsOf(s, t) \cup {Len(s) + 1} BY <1>4, <1>6
  <2>2. IsFiniteSet(UrbsOf(s, t)) BY UrbsOfFinite
  <2>3. Cardinality(UrbsOf(s, t) \cup {Len(s) + 1}) = Cardinality(UrbsOf(s, t)) + 1
    BY <1>5, <2>2, FS_AddElement
  <2>4. QED BY <1>2, <1>4, <1>6, <2>1, <2>3
<1>7. CASE x.t # t
  <2>1. UrbsOf(Append(s, x), t) = UrbsOf(s, t) BY <1>4, <1>7
  <2>2. QED BY <1>2, <1>4, <1>7, <2>1, UrbsOfFinite
<1>8. QED BY <1>6, <1>7

\* Taking the first URB moves the others by one place.
LEMMA UrbsOfTail ==
  ASSUME NEW s, s \in Seq(Range(s)), s # <<>>, NEW t
  PROVE  /\ \A k \in UrbsOf(Tail(s), t) : k + 1 \in UrbsOf(s, t) /\ Tail(s)[k] = s[k + 1]
         /\ Cardinality(UrbsOf(s, t)) = Cardinality(UrbsOf(Tail(s), t)) + (IF Head(s).t = t THEN 1 ELSE 0)
         /\ Head(s).t = t => 1 \in UrbsOf(s, t) /\ s[1] = Head(s)
<1> DEFINE B == UrbsOf(s, t) \ {1}
           f == [k \in UrbsOf(Tail(s), t) |-> k + 1]
<1>1. /\ Len(s) \in Nat /\ DOMAIN s = 1 .. Len(s) /\ Len(s) >= 1
      /\ DOMAIN Tail(s) = 1 .. Len(s) - 1 /\ \A k \in 1 .. Len(s) - 1 : Tail(s)[k] = s[k + 1]
      /\ Head(s) = s[1]
  <2>1. Len(s) \in Nat /\ DOMAIN s = 1 .. Len(s) /\ Len(s) # 0 BY LenProperties, EmptySeq
  <2>2. /\ Tail(s) \in Seq(Range(s)) /\ Len(Tail(s)) = Len(s) - 1 /\ Head(s) = s[1]
        /\ \A k \in 1 .. Len(Tail(s)) : Tail(s)[k] = s[k + 1]
    BY HeadTailProperties
  <2>3. QED BY <2>1, <2>2, LenProperties
<1>2. \A k \in UrbsOf(Tail(s), t) : k \in 1 .. Len(s) - 1 /\ k + 1 \in B /\ Tail(s)[k] = s[k + 1]
  BY <1>1 DEF UrbsOf
<1>3. f \in Bijection(UrbsOf(Tail(s), t), B)
  <2>1. \A k \in B : k - 1 \in UrbsOf(Tail(s), t) /\ f[k - 1] = k BY <1>1 DEF UrbsOf
  <2>2. \A j, k \in UrbsOf(Tail(s), t) : f[j] = f[k] => j = k BY <1>2
  <2>3. f \in [UrbsOf(Tail(s), t) -> B] BY <1>2
  <2> HIDE DEF f, B
  <2>4. QED BY <2>1, <2>2, <2>3 DEF Bijection, Injection, Surjection, IsInjective
<1>4. IsFiniteSet(UrbsOf(Tail(s), t)) /\ IsFiniteSet(UrbsOf(s, t)) /\ Cardinality(UrbsOf(s, t)) \in Nat
  BY UrbsOfFinite, RangeOfTail
<1>5. Cardinality(B) = Cardinality(UrbsOf(Tail(s), t))
  <2>1. ExistsBijection(UrbsOf(Tail(s), t), B) BY <1>3 DEF ExistsBijection
  <2> HIDE DEF B, f
  <2>2. QED BY <1>4, <2>1, FS_Bijection
<1>6. Cardinality(B) = IF 1 \in UrbsOf(s, t) THEN Cardinality(UrbsOf(s, t)) - 1 ELSE Cardinality(UrbsOf(s, t))
  BY <1>4, FS_RemoveElement
<1>7. 1 \in UrbsOf(s, t) <=> Head(s).t = t BY <1>1 DEF UrbsOf
<1>8. QED BY <1>1, <1>2, <1>4, <1>5, <1>6, <1>7

\* Removing an element moves those after it by one place.
LEMMA RemovalShifts ==
  ASSUME NEW s, s \in Seq(Range(s)), NEW p \in DOMAIN s
  PROVE  /\ Len(RemoveAt(s, p)) = Len(s) - 1 /\ DOMAIN RemoveAt(s, p) = 1 .. Len(s) - 1
         /\ \A k \in 1 .. Len(s) - 1 : RemoveAt(s, p)[k] = IF k < p THEN s[k] ELSE s[k + 1]
<1>1. Len(s) \in Nat /\ DOMAIN s = 1 .. Len(s) /\ \A i \in 1 .. Len(s) : s[i] \in Range(s)
  BY LenProperties, ElementOfSeq
<1> DEFINE a == SubSeq(s, 1, p - 1)  b == SubSeq(s, p + 1, Len(s))
<1>2. a \in Seq(Range(s)) /\ Len(a) = p - 1 /\ \A k \in 1 .. p - 1 : a[k] = s[k]
  <2>1. \A i \in 1 .. p - 1 : s[i] \in Range(s) BY <1>1
  <2>2. QED BY <1>1, <2>1, SubSeqProperties
<1>3. b \in Seq(Range(s)) /\ Len(b) = Len(s) - p /\ \A k \in 1 .. Len(s) - p : b[k] = s[p + k]
  <2>1. \A i \in p + 1 .. Len(s) : s[i] \in Range(s) BY <1>1
  <2>2. QED BY <1>1, <2>1, SubSeqProperties
<1> HIDE DEF a, b
<1>4. /\ a \o b \in Seq(Range(s)) /\ Len(a \o b) = Len(s) - 1
      /\ \A k \in 1 .. Len(s) - 1 : (a \o b)[k] = IF k <= p - 1 THEN a[k] ELSE b[k - (p - 1)]
  <2>1. Len(a) + Len(b) = Len(s) - 1 BY <1>1, <1>2, <1>3
  <2>2. /\ a \o b \in Seq(Range(s)) /\ Len(a \o b) = Len(a) + Len(b)
        /\ \A k \in 1 .. Len(a) + Len(b) : (a \o b)[k] = IF k <= Len(a) THEN a[k] ELSE b[k - Len(a)]
    BY <1>2, <1>3, ConcatProperties
  <2>3. QED BY <1>2, <2>1, <2>2
<1>5. DOMAIN (a \o b) = 1 .. Len(s) - 1 BY <1>4, LenProperties
<1>6. RemoveAt(s, p) = a \o b BY DEF RemoveAt, a, b
<1>7. ASSUME NEW k \in 1 .. Len(s) - 1 PROVE (a \o b)[k] = IF k < p THEN s[k] ELSE s[k + 1]
  <2>1. CASE k < p BY <1>1, <1>2, <1>4, <2>1
  <2>2. CASE ~(k < p)
    <3>1. k - (p - 1) \in 1 .. Len(s) - p /\ p + (k - (p - 1)) = k + 1 BY <1>1, <2>2
    <3>2. QED BY SMTT(30), <1>1, <1>3, <1>4, <2>2, <3>1
  <2>3. QED BY <2>1, <2>2
<1>8. QED BY <1>4, <1>5, <1>6, <1>7

\* Division yields numbers, and not zero for a positive multiple.
LEMMA Quotient ==
  ASSUME NEW a \in Nat, NEW m \in Nat, m > 0
  PROVE  a \div m \in Nat /\ a % m \in Nat /\ (a > 0 /\ a % m = 0 => a \div m > 0)
OBVIOUS

\* Whole pieces and a remainder are one piece at least.
LEMMA WholeAndPart ==
  ASSUME NEW m \in Nat, NEW whole \in Nat, NEW part \in Nat, part = 0 => whole > 0
  PROVE  Len([i \in 1 .. whole |-> m] \o IF part > 0 THEN <<part>> ELSE <<>>) \in Nat \ {0}
<1> DEFINE a == [i \in 1 .. whole |-> m]  b == IF part > 0 THEN <<part>> ELSE <<>>
<1>1. a \in Seq(Nat) /\ Len(a) = whole OBVIOUS
<1>2. b \in Seq(Nat) /\ Len(b) \in Nat /\ (part > 0 => Len(b) = 1) OBVIOUS
<1>3. Len(a \o b) = Len(a) + Len(b) BY <1>1, <1>2, ConcatProperties
<1> HIDE DEF a, b
<1>4. whole + Len(b) \in Nat \ {0}
  <2>1. CASE part > 0
    <3>1. Len(b) = 1 BY <1>2, <2>1
    <3>2. QED BY <3>1
  <2>2. CASE part = 0 BY <1>2, <2>2
  <2>3. QED BY <2>1, <2>2
<1>5. Len(a \o b) \in Nat \ {0} BY <1>1, <1>3, <1>4
<1>6. QED BY <1>5 DEF a, b

\* Induction over the naturals: a set of them that is not empty has a least one,
\* and a finite one has a largest one.
LEMMA LeastOf ==
  ASSUME NEW S \in SUBSET Nat, S # {}
  PROVE  \E x \in S : \A y \in S : x <= y
<1>1. PICK x \in S : \A y \in S : ~(<<y, x>> \in OpToRel(<, Nat)) BY NatLessThanWellFounded, WFMin
<1>2. ASSUME NEW y \in S, y < x PROVE FALSE
  <2>1. <<y, x>> \in Nat \X Nat /\ <<y, x>>[1] < <<y, x>>[2] BY <1>2
  <2>2. <<y, x>> \in {ss \in Nat \X Nat : ss[1] < ss[2]} BY <2>1
  <2>3. QED BY <1>1, <2>2 DEF OpToRel
<1>3. QED BY <1>2

\* A set of numbers closed under successor is all of them: a least
\* counterexample would have a predecessor.
LEMMA Inductive ==
  ASSUME NEW S, 0 \in S, \A m \in Nat : m \in S => m + 1 \in S
  PROVE  Nat \subseteq S
<1> SUFFICES ASSUME Nat \ S # {} PROVE FALSE OBVIOUS
<1>1. PICK x \in Nat \ S : \A y \in Nat \ S : x <= y BY LeastOf
<1>2. x - 1 \in Nat /\ x - 1 \in S BY <1>1
<1>3. QED BY <1>1, <1>2

\* A nonempty set of the first numbers has a largest one.
LEMMA LargestOf ==
  ASSUME NEW n \in Nat, NEW S \in SUBSET (1 .. n), S # {}
  PROVE  Max(S) \in S /\ \A y \in S : y <= Max(S)
<1> DEFINE T == {n - y : y \in S}
<1>1. T \in SUBSET Nat /\ T # {}
  <2>1. \A y \in S : n - y \in Nat OBVIOUS
  <2>2. T \subseteq Nat BY <2>1
  <2>3. PICK y \in S : TRUE OBVIOUS
  <2>4. n - y \in T BY <2>3
  <2>5. QED BY <2>2, <2>4
<1>2. PICK x \in T : \A y \in T : x <= y BY <1>1, LeastOf
<1>3. PICK m \in S : x = n - m BY <1>2
<1>4. \A y \in S : n - m <= n - y BY <1>2, <1>3
<1>5. \A y \in S : m >= y BY <1>4
<1>6. QED BY <1>3, <1>5 DEF Max

\* The function by which a fold over 1 .. n is defined exists.
Folding(h, S, b, F) == h = [x \in SUBSET S |-> IF x = {} THEN b ELSE F[h[x \ {Max(x)}], Max(x)]]

\* A fold over the first numbers is defined.
LEMMA FoldExists ==
  ASSUME NEW n \in Nat, NEW A, NEW b \in A, NEW F \in [A \X (1 .. n) -> A]
  PROVE  \E h \in [SUBSET (1 .. n) -> A] : Folding(h, 1 .. n, b, F)
<1> DEFINE Q(m) == m <= n => \E h \in [SUBSET (1 .. m) -> A] : Folding(h, 1 .. m, b, F)
           P == {m \in Nat : Q(m)}
<1>1. Q(0)
  <2> DEFINE h == [x \in SUBSET (1 .. 0) |-> b]
  <2>1. \A x \in SUBSET (1 .. 0) : x = {} OBVIOUS
  <2>2. h = [x \in SUBSET (1 .. 0) |-> IF x = {} THEN b ELSE F[h[x \ {Max(x)}], Max(x)]] BY <2>1
  <2>3. h \in [SUBSET (1 .. 0) -> A] /\ Folding(h, 1 .. 0, b, F) BY <2>2 DEF Folding
  <2>4. QED BY <2>3
<1>2. ASSUME NEW m \in Nat, Q(m) PROVE Q(m + 1)
  <2> SUFFICES ASSUME m + 1 <= n PROVE \E h \in [SUBSET (1 .. m + 1) -> A] : Folding(h, 1 .. m + 1, b, F) OBVIOUS
  <2>10. m <= n OBVIOUS
  <2>1. PICK g \in [SUBSET (1 .. m) -> A] : Folding(g, 1 .. m, b, F) BY <1>2, <2>10, Zenon
  <2> DEFINE h == [x \in SUBSET (1 .. m + 1) |-> IF m + 1 \in x THEN F[g[x \ {m + 1}], m + 1] ELSE g[x]]
  <2>2. \A x \in SUBSET (1 .. m + 1) : m + 1 \notin x => x \in SUBSET (1 .. m) OBVIOUS
  <2>3. \A x \in SUBSET (1 .. m + 1) : x \ {m + 1} \in SUBSET (1 .. m) OBVIOUS
  <2>4. m + 1 \in 1 .. n OBVIOUS
  <2>5. h \in [SUBSET (1 .. m + 1) -> A] BY <2>2, <2>3, <2>4
  <2>6. \A x \in SUBSET (1 .. m) : h[x] = g[x] /\ x \in SUBSET (1 .. m + 1)
    <3>1. \A x \in SUBSET (1 .. m) : m + 1 \notin x /\ x \in SUBSET (1 .. m + 1) OBVIOUS
    <3>2. QED BY <3>1
  <2>7. ASSUME NEW x \in SUBSET (1 .. m + 1)
        PROVE  h[x] = IF x = {} THEN b ELSE F[h[x \ {Max(x)}], Max(x)]
    <3>1. CASE m + 1 \in x
      <4>1. m + 1 \in Nat /\ x # {} BY <3>1
      <4>2. Max(x) \in x /\ m + 1 <= Max(x) BY <3>1, <4>1, LargestOf
      <4>5. Max(x) \in 1 .. m + 1 BY <4>2
      <4>6. Max(x) = m + 1 BY <4>2, <4>5
      <4>3. h[x \ {m + 1}] = g[x \ {m + 1}] BY <2>3, <2>6
      <4>4. QED BY <3>1, <4>6, <4>3
    <3>2. CASE m + 1 \notin x /\ x # {}
      <4>1. x \in SUBSET (1 .. m) /\ x \ {Max(x)} \in SUBSET (1 .. m) BY <2>2, <3>2
      <4>2. g[x] = F[g[x \ {Max(x)}], Max(x)] BY <2>1, <3>2, <4>1 DEF Folding
      <4>3. h[x \ {Max(x)}] = g[x \ {Max(x)}] BY <2>6, <4>1
      <4>4. QED BY <3>2, <4>2, <4>3
    <3>3. CASE x = {}
      <4>1. g[{}] = b BY <2>1 DEF Folding
      <4>2. QED BY <3>3, <4>1
    <3>4. QED BY <3>1, <3>2, <3>3
  <2> HIDE DEF h
  <2>8. Folding(h, 1 .. m + 1, b, F)
    <3>1. h = [x \in SUBSET (1 .. m + 1) |-> h[x]] BY <2>5
    <3>2. QED BY <2>7, <3>1 DEF Folding
  <2>9. QED BY <2>5, <2>8
<1> HIDE DEF Q
<1>3. Nat \subseteq P
  <2>1. 0 \in P /\ \A m \in Nat : m \in P => m + 1 \in P BY <1>1, <1>2
  <2> HIDE DEF P
  <2>2. QED BY <2>1, Inductive
<1>4. Q(n) BY <1>3
<1>5. n <= n OBVIOUS
<1>6. QED BY <1>4, <1>5, Zenon DEF Q

\* The largest of the first numbers is the last.
LEMMA FirstNumbers ==
  ASSUME NEW m \in Nat, m # 0
  PROVE  Max(1 .. m) = m /\ 1 .. m # {} /\ (1 .. m) \ {m} = 1 .. m - 1
<1>1. m \in 1 .. m OBVIOUS
<1>2. 1 .. m \in SUBSET (1 .. m) /\ 1 .. m # {} BY <1>1
<1>3. Max(1 .. m) \in 1 .. m /\ m <= Max(1 .. m) BY <1>1, <1>2, LargestOf
<1>4. Max(1 .. m) = m BY <1>3
<1>5. (1 .. m) \ {m} = 1 .. m - 1 OBVIOUS
<1>6. QED BY <1>2, <1>4, <1>5

\* Results of a loop from 1 to n, one after the other.
LEMMA LoopResults ==
  ASSUME NEW n \in Nat, NEW A, NEW p, p = [m \in 0 .. n |-> p[m]], p[0] \in A,
         \A m \in 1 .. n : p[m - 1] \in A => p[m] \in A
  PROVE  p \in [0 .. n -> A]
<1> DEFINE Q(m) == m <= n => p[m] \in A
           P == {m \in Nat : Q(m)}
<1>1. Q(0) OBVIOUS
<1>2. ASSUME NEW m \in Nat, Q(m) PROVE Q(m + 1)
  <2> SUFFICES ASSUME m + 1 <= n PROVE p[m + 1] \in A OBVIOUS
  <2>1. m <= n /\ m + 1 \in 1 .. n /\ (m + 1) - 1 = m OBVIOUS
  <2>2. p[m] \in A BY <1>2, <2>1
  <2>3. QED BY <2>1, <2>2
<1> HIDE DEF Q
<1>3. Nat \subseteq P
  <2>1. 0 \in P /\ \A m \in Nat : m \in P => m + 1 \in P BY <1>1, <1>2
  <2> HIDE DEF P
  <2>2. QED BY <2>1, Inductive
<1>4. \A m \in 0 .. n : p[m] \in A
  <2>1. \A m \in 0 .. n : m \in Nat /\ m <= n OBVIOUS
  <2>2. QED BY <1>3, <2>1 DEF Q
<1>5. QED BY <1>4

\* The sum of a sequence of numbers, and of its first ones.
Sum(s) == FoldLeft(+, 0, s)

\* The sum of a sequence grows by each of its elements.
LEMMA SumSteps ==
  ASSUME NEW s \in Seq(Nat)
  PROVE  \E p \in [0 .. Len(s) -> Nat] : /\ p[0] = 0 /\ p[Len(s)] = Sum(s)
                                         /\ \A m \in 1 .. Len(s) : p[m] = p[m - 1] + s[m]
<1> DEFINE n == Len(s)
           F == [x \in Nat \X (1 .. n) |-> x[1] + s[x[2]]]
           P(h) == h = [x \in SUBSET (1 .. n) |-> IF x = {} THEN 0 ELSE h[x \ {Max(x)}] + s[Max(x)]]
           c == CHOOSE h : P(h)
<1>1. n \in Nat /\ DOMAIN s = 1 .. n /\ \A k \in 1 .. n : s[k] \in Nat BY LenProperties, ElementOfSeq
<1>2. F \in [Nat \X (1 .. n) -> Nat] BY <1>1
<1>3. \A a \in Nat, k \in 1 .. n : F[a, k] = a + s[k] OBVIOUS
<1> HIDE DEF F, n
<1>4. \E h : P(h)
  <2>1. PICK g \in [SUBSET (1 .. n) -> Nat] : Folding(g, 1 .. n, 0, F) BY <1>1, <1>2, FoldExists
  <2>2. ASSUME NEW x \in SUBSET (1 .. n)
        PROVE  g[x] = IF x = {} THEN 0 ELSE g[x \ {Max(x)}] + s[Max(x)]
    <3>1. x # {} => Max(x) \in 1 .. n BY <1>1, LargestOf
    <3>2. x \ {Max(x)} \in SUBSET (1 .. n) OBVIOUS
    <3>3. g[x \ {Max(x)}] \in Nat BY <3>2
    <3>4. g[x] = IF x = {} THEN 0 ELSE F[g[x \ {Max(x)}], Max(x)] BY <2>1 DEF Folding
    <3>5. QED BY <1>3, <3>1, <3>3, <3>4
  <2>3. g = [x \in SUBSET (1 .. n) |-> g[x]] OBVIOUS
  <2>4. P(g) BY <2>2, <2>3
  <2>5. QED BY <2>4
<1>5. P(c) BY <1>4, Zenon
<1>6. Sum(s) = c[1 .. n] BY <1>1 DEF Sum, FoldLeft, MapThenFoldSet
<1> DEFINE p == [m \in 0 .. n |-> c[1 .. m]]
<1>7. p[0] = 0 /\ p[n] = c[1 .. n]
  <2>1. 1 .. 0 = {} /\ 0 \in 0 .. n /\ n \in 0 .. n BY <1>1
  <2> HIDE DEF c
  <2>2. c[{}] = 0 BY <1>5
  <2>3. QED BY <2>1, <2>2
<1>8. \A m \in 1 .. n : p[m] = p[m - 1] + s[m]
  <2> SUFFICES ASSUME NEW m \in 1 .. n PROVE p[m] = p[m - 1] + s[m] OBVIOUS
  <2>1. m \in Nat /\ m # 0 /\ m \in 0 .. n /\ m - 1 \in 0 .. n BY <1>1
  <2>2. Max(1 .. m) = m /\ 1 .. m # {} /\ (1 .. m) \ {m} = 1 .. m - 1 BY <2>1, FirstNumbers
  <2> HIDE DEF c
  <2>3. 1 .. m \in SUBSET (1 .. n) BY <1>1
  <2>4. c[1 .. m] = c[(1 .. m) \ {Max(1 .. m)}] + s[Max(1 .. m)] BY <1>5, <2>2, <2>3
  <2>5. QED BY <2>1, <2>2, <2>4
<1>9. p \in [0 .. n -> Nat]
  <2>1. p = [m \in 0 .. n |-> p[m]] OBVIOUS
  <2> HIDE DEF p
  <2>2. \A m \in 1 .. n : p[m - 1] \in Nat => p[m] \in Nat BY <1>1, <1>8
  <2>3. p[0] \in Nat BY <1>7
  <2>4. QED BY <1>1, <2>1, <2>2, <2>3, LoopResults, Zenon
<1> HIDE DEF p, c
<1>10. QED BY <1>6, <1>7, <1>8, <1>9 DEF n


\* Two runs of the same loop have the same results.
LEMMA SameResults ==
  ASSUME NEW n \in Nat, NEW p, NEW q, p[0] = q[0],
         \A m \in 1 .. n : p[m - 1] = q[m - 1] => p[m] = q[m]
  PROVE  p[n] = q[n]
<1> DEFINE Q(m) == m <= n => p[m] = q[m]
           P == {m \in Nat : Q(m)}
<1>1. Q(0) OBVIOUS
<1>2. ASSUME NEW m \in Nat, Q(m) PROVE Q(m + 1)
  <2> SUFFICES ASSUME m + 1 <= n PROVE p[m + 1] = q[m + 1] OBVIOUS
  <2>1. m <= n /\ m + 1 \in 1 .. n /\ (m + 1) - 1 = m OBVIOUS
  <2>2. p[m] = q[m] BY <1>2, <2>1
  <2>3. QED BY <2>1, <2>2
<1> HIDE DEF Q
<1>3. Nat \subseteq P
  <2>1. 0 \in P /\ \A m \in Nat : m \in P => m + 1 \in P BY <1>1, <1>2
  <2> HIDE DEF P
  <2>2. QED BY <2>1, Inductive
<1>4. Q(n) BY <1>3
<1>5. n <= n OBVIOUS
<1>6. QED BY <1>4, <1>5, Zenon DEF Q

\* What comes before an element is the sum of those before it.
LEMMA SumsOfFirst ==
  ASSUME NEW s \in Seq(Nat)
  PROVE  \E p \in [0 .. Len(s) -> Nat] : /\ p[0] = 0 /\ p[Len(s)] = Sum(s)
                                         /\ \A m \in 1 .. Len(s) : p[m] = p[m - 1] + s[m]
                                         /\ \A i \in 1 .. Len(s) + 1 : Before(s, i) = p[i - 1]
<1>1. PICK p \in [0 .. Len(s) -> Nat] : /\ p[0] = 0 /\ p[Len(s)] = Sum(s)
                                        /\ \A m \in 1 .. Len(s) : p[m] = p[m - 1] + s[m]
  BY SumSteps
<1>2. ASSUME NEW i \in 1 .. Len(s) + 1 PROVE Before(s, i) = p[i - 1]
  <2> DEFINE q == SubSeq(s, 1, i - 1)
  <2>1. Len(s) \in Nat BY LenProperties
  <2>2. i - 1 \in Nat /\ i - 1 <= Len(s) BY <2>1
  <2>3. q \in Seq(Nat) /\ Len(q) = i - 1 /\ \A m \in 1 .. i - 1 : q[m] = s[m]
    BY <2>1, <2>2, SubSeqProperties
  <2>4. Before(s, i) = Sum(q) BY DEF Before, Sum
  <2> HIDE DEF q
  <2>5. PICK r \in [0 .. Len(q) -> Nat] : /\ r[0] = 0 /\ r[Len(q)] = Sum(q)
                                          /\ \A m \in 1 .. Len(q) : r[m] = r[m - 1] + q[m]
    BY <2>3, SumSteps
  <2>6. \A m \in 1 .. i - 1 : p[m] = p[m - 1] + s[m] /\ r[m] = r[m - 1] + s[m]
    <3>1. \A m \in 1 .. i - 1 : m \in 1 .. Len(s) BY <2>1, <2>2
    <3>2. QED BY <1>1, <2>3, <2>5, <3>1
  <2>7. p[i - 1] = r[i - 1]
    <3>1. p[0] = r[0] BY <1>1, <2>2, <2>5
    <3>2. \A m \in 1 .. i - 1 : p[m - 1] = r[m - 1] => p[m] = r[m] BY <2>6
    <3>3. QED BY <1>1, <2>2, <2>5, <2>6, <3>1, <3>2, SameResults, Zenon
  <2>8. QED BY <2>3, <2>4, <2>5, <2>7
<1>3. QED BY <1>1, <1>2

\* Where the parts of a sequence of lengths begin, and where the last one ends.
LEMMA PartsFollow ==
  ASSUME NEW s \in Seq(Nat)
  PROVE  /\ Before(s, 1) = 0 /\ Sum(s) = Before(s, Len(s) + 1)
         /\ \A i \in 1 .. Len(s) + 1 : Before(s, i) \in Nat
         /\ \A i \in 1 .. Len(s) : Before(s, i + 1) = Before(s, i) + s[i]
<1>1. PICK p \in [0 .. Len(s) -> Nat] : /\ p[0] = 0 /\ p[Len(s)] = Sum(s)
                                        /\ \A m \in 1 .. Len(s) : p[m] = p[m - 1] + s[m]
                                        /\ \A i \in 1 .. Len(s) + 1 : Before(s, i) = p[i - 1]
  BY SumsOfFirst
<1>2. Len(s) \in Nat BY LenProperties
<1>3. 1 \in 1 .. Len(s) + 1 /\ Len(s) + 1 \in 1 .. Len(s) + 1 /\ (Len(s) + 1) - 1 = Len(s) BY <1>2
<1>4. Before(s, 1) = 0 BY <1>1, <1>3
<1>5. Sum(s) = Before(s, Len(s) + 1) BY <1>1, <1>3
<1>6. ASSUME NEW i \in 1 .. Len(s) + 1 PROVE Before(s, i) \in Nat
  <2>1. i - 1 \in 0 .. Len(s) BY <1>2
  <2>2. QED BY <1>1, <2>1
<1>7. ASSUME NEW i \in 1 .. Len(s) PROVE Before(s, i + 1) = Before(s, i) + s[i]
  <2>1. i \in 1 .. Len(s) + 1 /\ i + 1 \in 1 .. Len(s) + 1 /\ (i + 1) - 1 = i BY <1>2
  <2>2. Before(s, i) = p[i - 1] /\ Before(s, i + 1) = p[i] BY <1>1, <2>1
  <2>3. QED BY <1>1, <2>2
<1>8. QED BY <1>4, <1>5, <1>6, <1>7

\* The sums of two sequences of lengths one of which has one more at the end,
\* or the last part of which is greater by one.
LEMMA OnePartMore ==
  ASSUME NEW s \in Seq(Nat)
  PROVE  /\ Append(s, 1) \in Seq(Nat) /\ Append(s, 1) # <<>> /\ Sum(Append(s, 1)) = Sum(s) + 1
         /\ s # <<>> => LET u == [s EXCEPT ![Len(s)] = @ + 1]
                        IN u \in Seq(Nat) /\ u # <<>> /\ Len(u) = Len(s) /\ Sum(u) = Sum(s) + 1
<1>1. PICK p \in [0 .. Len(s) -> Nat] : /\ p[0] = 0 /\ p[Len(s)] = Sum(s)
                                        /\ \A m \in 1 .. Len(s) : p[m] = p[m - 1] + s[m]
  BY SumSteps
<1>2. Len(s) \in Nat /\ DOMAIN s = 1 .. Len(s) /\ \A m \in 1 .. Len(s) : s[m] \in Nat BY LenProperties, ElementOfSeq
<1>3. /\ Append(s, 1) \in Seq(Nat) /\ Append(s, 1) # <<>> /\ Sum(Append(s, 1)) = Sum(s) + 1
  <2> DEFINE q == Append(s, 1)
  <2>1. q \in Seq(Nat) /\ Len(q) = Len(s) + 1 /\ q[Len(s) + 1] = 1 /\ \A m \in 1 .. Len(s) : q[m] = s[m]
    BY AppendProperties
  <2>2. q # <<>> BY <2>1, <1>2, EmptySeq
  <2> HIDE DEF q
  <2>3. PICK r \in [0 .. Len(q) -> Nat] : /\ r[0] = 0 /\ r[Len(q)] = Sum(q)
                                          /\ \A m \in 1 .. Len(q) : r[m] = r[m - 1] + q[m]
    BY <2>1, SumSteps
  <2>4. \A m \in 1 .. Len(s) : p[m] = p[m - 1] + s[m] /\ r[m] = r[m - 1] + s[m]
    <3>1. \A m \in 1 .. Len(s) : m \in 1 .. Len(q) BY <1>2, <2>1
    <3>2. QED BY <1>1, <2>1, <2>3, <3>1
  <2>5. p[Len(s)] = r[Len(s)]
    <3>1. p[0] = r[0] BY <1>1, <1>2, <2>3
    <3>2. \A m \in 1 .. Len(s) : p[m - 1] = r[m - 1] => p[m] = r[m] BY <2>4
    <3>3. QED BY <1>1, <1>2, <2>3, <2>4, <3>1, <3>2, SameResults, Zenon
  <2>6. Len(q) \in 1 .. Len(q) /\ Len(q) - 1 = Len(s) BY <1>2, <2>1
  <2>7. r[Len(q)] = r[Len(s)] + 1 BY <2>1, <2>3, <2>6
  <2>8. Sum(q) = Sum(s) + 1 BY <1>1, <2>3, <2>5, <2>7
  <2>9. QED BY <2>1, <2>2, <2>8 DEF q
<1>4. ASSUME s # <<>>
      PROVE  LET u == [s EXCEPT ![Len(s)] = @ + 1]
             IN u \in Seq(Nat) /\ u # <<>> /\ Len(u) = Len(s) /\ Sum(u) = Sum(s) + 1
  <2> DEFINE u == [s EXCEPT ![Len(s)] = @ + 1]
             n == Len(s)
  <2>1. n # 0 /\ n \in Nat /\ n \in 1 .. n /\ n - 1 \in Nat BY SMTT(30), <1>2, <1>4, EmptySeq
  <2>2. u = [m \in 1 .. n |-> IF m = n THEN s[n] + 1 ELSE s[m]] BY <1>2
  <2> HIDE DEF u, n
  <2>3. \A m \in 1 .. n : u[m] = IF m = n THEN s[n] + 1 ELSE s[m] BY <2>2
  <2>4. DOMAIN u = 1 .. n BY <2>2
  <2>5. u \in Seq(Nat) /\ Len(u) = n BY <1>2, <2>1, ExceptSeq DEF u, n
  <2>6. u # <<>> BY <2>1, <2>5, EmptySeq
  <2>7. PICK r \in [0 .. n -> Nat] : /\ r[0] = 0 /\ r[n] = Sum(u)
                                     /\ \A m \in 1 .. n : r[m] = r[m - 1] + u[m]
    BY <2>5, SumSteps
  <2>8. \A m \in 1 .. n - 1 : p[m] = p[m - 1] + s[m] /\ r[m] = r[m - 1] + s[m]
    <3>1. \A m \in 1 .. n - 1 : m \in 1 .. n /\ m # n BY <2>1
    <3>2. QED BY <1>1, <2>3, <2>7, <3>1 DEF n
  <2>9. p[n - 1] = r[n - 1]
    <3>1. p[0] = r[0] BY <1>1, <2>1, <2>7
    <3>2. \A m \in 1 .. n - 1 : p[m - 1] = r[m - 1] => p[m] = r[m] BY <2>8
    <3>3. QED BY <1>1, <2>1, <2>7, <2>8, <3>1, <3>2, SameResults, Zenon
  <2>10. p[n] = p[n - 1] + s[n] /\ r[n] = r[n - 1] + (s[n] + 1) BY <1>1, <2>1, <2>3, <2>7 DEF n
  <2>11. s[n] \in Nat /\ p[n - 1] \in Nat
    <3>1. n - 1 \in 0 .. n BY <2>1
    <3>2. QED BY <1>1, <1>2, <2>1, <3>1 DEF n
  <2>12. r[n] = p[n] + 1 BY <2>9, <2>10, <2>11
  <2>13. Sum(u) = Sum(s) + 1 BY <1>1, <2>7, <2>12 DEF n
  <2>14. QED BY <2>5, <2>6, <2>13 DEF u, n
<1>5. QED BY <1>3, <1>4


\* The states of the two loops that divide an isochronous transfer.
Counts == [n : Nat, used : 0 .. MaxIso]
Fills == [room : 0 .. MaxIso, urbs : Seq(Nat) \ {<<>>}]
Counted(a, x) == IF x > MaxIso - a.used THEN [n |-> a.n + 1, used |-> x] ELSE [a EXCEPT !.used = @ + x]
Fill(a, x) == IF x <= a.room THEN [a EXCEPT !.room = @ - x, !.urbs[Len(a.urbs)] = @ + 1]
              ELSE [room |-> MaxIso - x, urbs |-> Append(a.urbs, 1)]

\* The number of isochronous URBs, packet by packet.
LEMMA CountSteps ==
  ASSUME MaxIso \in Nat, NEW s \in Seq(0 .. MaxIso)
  PROVE  \E p \in [0 .. Len(s) -> Counts] : /\ p[0] = [n |-> 1, used |-> 0] /\ p[Len(s)].n = IsoCount(s)
                                            /\ \A m \in 1 .. Len(s) : p[m] = Counted(p[m - 1], s[m])
<1> DEFINE n == Len(s)
           F == [x \in Counts \X (1 .. n) |-> Counted(x[1], s[x[2]])]
           P(h) == h = [x \in SUBSET (1 .. n) |->
                          IF x = {} THEN [n |-> 1, used |-> 0] ELSE Counted(h[x \ {Max(x)}], s[Max(x)])]
           c == CHOOSE h : P(h)
<1>1. n \in Nat /\ DOMAIN s = 1 .. n /\ \A k \in 1 .. n : s[k] \in 0 .. MaxIso BY LenProperties, ElementOfSeq
<1>2. \A a \in Counts, x \in 0 .. MaxIso : Counted(a, x) \in Counts BY SMTT(30) DEF Counts, Counted
<1>3. F \in [Counts \X (1 .. n) -> Counts] BY <1>1, <1>2
<1>4. \A a \in Counts, k \in 1 .. n : F[a, k] = Counted(a, s[k]) OBVIOUS
<1>5. [n |-> 1, used |-> 0] \in Counts BY DEF Counts
<1> HIDE DEF F, n
<1>6. \E h : P(h)
  <2>1. PICK g \in [SUBSET (1 .. n) -> Counts] : Folding(g, 1 .. n, [n |-> 1, used |-> 0], F)
    BY <1>1, <1>3, <1>5, FoldExists
  <2>2. ASSUME NEW x \in SUBSET (1 .. n)
        PROVE  g[x] = IF x = {} THEN [n |-> 1, used |-> 0] ELSE Counted(g[x \ {Max(x)}], s[Max(x)])
    <3>1. x # {} => Max(x) \in 1 .. n BY <1>1, LargestOf
    <3>2. x \ {Max(x)} \in SUBSET (1 .. n) OBVIOUS
    <3>3. g[x \ {Max(x)}] \in Counts BY <3>2
    <3>4. g[x] = IF x = {} THEN [n |-> 1, used |-> 0] ELSE F[g[x \ {Max(x)}], Max(x)] BY <2>1 DEF Folding
    <3>5. QED BY <1>4, <3>1, <3>3, <3>4
  <2>3. g = [x \in SUBSET (1 .. n) |-> g[x]] OBVIOUS
  <2>4. P(g) BY <2>2, <2>3
  <2>5. QED BY <2>4
<1>7. P(c) BY <1>6, Zenon
<1>8. IsoCount(s) = c[1 .. n].n BY <1>1 DEF IsoCount, FoldLeft, MapThenFoldSet, Counted
<1> DEFINE p == [m \in 0 .. n |-> c[1 .. m]]
<1>9. p[0] = [n |-> 1, used |-> 0] /\ p[n] = c[1 .. n]
  <2>1. 1 .. 0 = {} /\ 0 \in 0 .. n /\ n \in 0 .. n BY <1>1
  <2> HIDE DEF c
  <2>2. c[{}] = [n |-> 1, used |-> 0] BY <1>7
  <2>3. QED BY <2>1, <2>2
<1>10. \A m \in 1 .. n : p[m] = Counted(p[m - 1], s[m])
  <2> SUFFICES ASSUME NEW m \in 1 .. n PROVE p[m] = Counted(p[m - 1], s[m]) OBVIOUS
  <2>1. m \in Nat /\ m # 0 /\ m \in 0 .. n /\ m - 1 \in 0 .. n BY <1>1
  <2>2. Max(1 .. m) = m /\ 1 .. m # {} /\ (1 .. m) \ {m} = 1 .. m - 1 BY <2>1, FirstNumbers
  <2> HIDE DEF c
  <2>3. 1 .. m \in SUBSET (1 .. n) BY <1>1
  <2>4. c[1 .. m] = Counted(c[(1 .. m) \ {Max(1 .. m)}], s[Max(1 .. m)]) BY <1>7, <2>2, <2>3
  <2>5. QED BY <2>1, <2>2, <2>4
<1>11. p \in [0 .. n -> Counts]
  <2>1. p = [m \in 0 .. n |-> p[m]] OBVIOUS
  <2> HIDE DEF p
  <2>2. \A m \in 1 .. n : p[m - 1] \in Counts => p[m] \in Counts BY <1>1, <1>2, <1>10
  <2>3. p[0] \in Counts BY <1>5, <1>9
  <2>4. QED BY <1>1, <2>1, <2>2, <2>3, LoopResults, Zenon
<1> HIDE DEF p, c
<1>12. QED BY <1>8, <1>9, <1>10, <1>11 DEF n

\* One more packet goes into the last URB or into a new one.
LEMMA FillType ==
  ASSUME MaxIso \in Nat, NEW a \in Fills, NEW x \in 0 .. MaxIso
  PROVE  /\ Fill(a, x) \in Fills /\ Sum(Fill(a, x).urbs) = Sum(a.urbs) + 1
         /\ Len(Fill(a, x).urbs) = IF x <= a.room THEN Len(a.urbs) ELSE Len(a.urbs) + 1
         /\ Fill(a, x).room = IF x <= a.room THEN a.room - x ELSE MaxIso - x
<1> DEFINE u == a.urbs  r == a.room
<1>1. u \in Seq(Nat) /\ u # <<>> /\ r \in 0 .. MaxIso /\ a = [room |-> r, urbs |-> u] BY DEF Fills
<1> HIDE DEF u, r
<1>2. CASE x <= r
  <2> DEFINE v == [u EXCEPT ![Len(u)] = @ + 1]
  <2>1. Fill(a, x) = [room |-> r - x, urbs |-> v] BY <1>1, <1>2 DEF Fill
  <2>2. v \in Seq(Nat) /\ v # <<>> /\ Len(v) = Len(u) /\ Sum(v) = Sum(u) + 1 BY <1>1, OnePartMore
  <2> HIDE DEF v
  <2>3. r - x \in 0 .. MaxIso BY <1>1, <1>2
  <2>4. a.urbs = u /\ a.room = r BY <1>1
  <2>5. QED BY <1>2, <2>1, <2>2, <2>3, <2>4 DEF Fills
<1>3. CASE ~(x <= r)
  <2> DEFINE v == Append(u, 1)
  <2>1. Fill(a, x) = [room |-> MaxIso - x, urbs |-> v] BY <1>1, <1>3 DEF Fill
  <2>2. v \in Seq(Nat) /\ v # <<>> /\ Sum(v) = Sum(u) + 1 BY <1>1, OnePartMore
  <2>3. Len(v) = Len(u) + 1 BY <1>1, AppendProperties
  <2> HIDE DEF v
  <2>4. MaxIso - x \in 0 .. MaxIso OBVIOUS
  <2>5. a.urbs = u /\ a.room = r BY <1>1
  <2>6. QED BY <1>3, <2>1, <2>2, <2>3, <2>4, <2>5 DEF Fills
<1>4. QED BY <1>2, <1>3

\* The filling of isochronous URBs, packet by packet.
LEMMA FillSteps ==
  ASSUME MaxIso \in Nat, NEW s \in Seq(0 .. MaxIso)
  PROVE  \E p \in [0 .. Len(s) -> Fills] : /\ p[0] = [room |-> MaxIso, urbs |-> <<0>>] /\ p[Len(s)].urbs = IsoFill(s)
                                            /\ \A m \in 1 .. Len(s) : p[m] = Fill(p[m - 1], s[m])
<1> DEFINE n == Len(s)
           F == [x \in Fills \X (1 .. n) |-> Fill(x[1], s[x[2]])]
           P(h) == h = [x \in SUBSET (1 .. n) |->
                          IF x = {} THEN [room |-> MaxIso, urbs |-> <<0>>] ELSE Fill(h[x \ {Max(x)}], s[Max(x)])]
           c == CHOOSE h : P(h)
<1>1. n \in Nat /\ DOMAIN s = 1 .. n /\ \A k \in 1 .. n : s[k] \in 0 .. MaxIso BY LenProperties, ElementOfSeq
<1>2. \A a \in Fills, x \in 0 .. MaxIso : Fill(a, x) \in Fills BY FillType
<1>3. F \in [Fills \X (1 .. n) -> Fills] BY <1>1, <1>2
<1>4. \A a \in Fills, k \in 1 .. n : F[a, k] = Fill(a, s[k]) OBVIOUS
<1>5. [room |-> MaxIso, urbs |-> <<0>>] \in Fills
  <2>1. <<0>> \in Seq(Nat) /\ <<0>> # <<>> OBVIOUS
  <2>2. QED BY <2>1 DEF Fills
<1> HIDE DEF F, n
<1>6. \E h : P(h)
  <2>1. PICK g \in [SUBSET (1 .. n) -> Fills] : Folding(g, 1 .. n, [room |-> MaxIso, urbs |-> <<0>>], F)
    BY <1>1, <1>3, <1>5, FoldExists
  <2>2. ASSUME NEW x \in SUBSET (1 .. n)
        PROVE  g[x] = IF x = {} THEN [room |-> MaxIso, urbs |-> <<0>>] ELSE Fill(g[x \ {Max(x)}], s[Max(x)])
    <3>1. x # {} => Max(x) \in 1 .. n BY <1>1, LargestOf
    <3>2. x \ {Max(x)} \in SUBSET (1 .. n) OBVIOUS
    <3>3. g[x \ {Max(x)}] \in Fills BY <3>2
    <3>4. g[x] = IF x = {} THEN [room |-> MaxIso, urbs |-> <<0>>] ELSE F[g[x \ {Max(x)}], Max(x)] BY <2>1 DEF Folding
    <3>5. QED BY <1>4, <3>1, <3>3, <3>4
  <2>3. g = [x \in SUBSET (1 .. n) |-> g[x]] OBVIOUS
  <2>4. P(g) BY <2>2, <2>3
  <2>5. QED BY <2>4
<1>7. P(c) BY <1>6, Zenon
<1>8. IsoFill(s) = c[1 .. n].urbs BY <1>1 DEF IsoFill, FoldLeft, MapThenFoldSet, Fill
<1> DEFINE p == [m \in 0 .. n |-> c[1 .. m]]
<1>9. p[0] = [room |-> MaxIso, urbs |-> <<0>>] /\ p[n] = c[1 .. n]
  <2>1. 1 .. 0 = {} /\ 0 \in 0 .. n /\ n \in 0 .. n BY <1>1
  <2> HIDE DEF c
  <2>2. c[{}] = [room |-> MaxIso, urbs |-> <<0>>] BY <1>7
  <2>3. QED BY <2>1, <2>2
<1>10. \A m \in 1 .. n : p[m] = Fill(p[m - 1], s[m])
  <2> SUFFICES ASSUME NEW m \in 1 .. n PROVE p[m] = Fill(p[m - 1], s[m]) OBVIOUS
  <2>1. m \in Nat /\ m # 0 /\ m \in 0 .. n /\ m - 1 \in 0 .. n BY <1>1
  <2>2. Max(1 .. m) = m /\ 1 .. m # {} /\ (1 .. m) \ {m} = 1 .. m - 1 BY <2>1, FirstNumbers
  <2> HIDE DEF c
  <2>3. 1 .. m \in SUBSET (1 .. n) BY <1>1
  <2>4. c[1 .. m] = Fill(c[(1 .. m) \ {Max(1 .. m)}], s[Max(1 .. m)]) BY <1>7, <2>2, <2>3
  <2>5. QED BY <2>1, <2>2, <2>4
<1>11. p \in [0 .. n -> Fills]
  <2>1. p = [m \in 0 .. n |-> p[m]] OBVIOUS
  <2> HIDE DEF p
  <2>2. \A m \in 1 .. n : p[m - 1] \in Fills => p[m] \in Fills BY <1>1, <1>2, <1>10
  <2>3. p[0] \in Fills BY <1>5, <1>9
  <2>4. QED BY <1>1, <2>1, <2>2, <2>3, LoopResults, Zenon
<1> HIDE DEF p, c
<1>12. QED BY <1>8, <1>9, <1>10, <1>11 DEF n


\* Isochronous URBs hold each packet once, and there is one at least
\* (submit_iso_transfer counts them first and fills them afterwards).
LEMMA IsoDivides ==
  ASSUME MaxIso \in Nat, NEW s \in Seq(0 .. MaxIso)
  PROVE  IsoSizes(s) \in Seq(Nat) /\ IsoSizes(s) # <<>> /\ Sum(IsoSizes(s)) = Len(s)
<1> DEFINE n == Len(s)
<1>1. PICK c \in [0 .. n -> Counts] : /\ c[0] = [n |-> 1, used |-> 0] /\ c[n].n = IsoCount(s)
                                      /\ \A m \in 1 .. n : c[m] = Counted(c[m - 1], s[m])
  BY CountSteps
<1>2. PICK f \in [0 .. n -> Fills] : /\ f[0] = [room |-> MaxIso, urbs |-> <<0>>] /\ f[n].urbs = IsoFill(s)
                                     /\ \A m \in 1 .. n : f[m] = Fill(f[m - 1], s[m])
  BY FillSteps
<1>3. n \in Nat /\ \A m \in 1 .. n : s[m] \in 0 .. MaxIso BY LenProperties, ElementOfSeq
<1> HIDE DEF n
<1> DEFINE Agree(m) == c[m].n = Len(f[m].urbs) /\ c[m].used = MaxIso - f[m].room /\ Sum(f[m].urbs) = m
           Q(m) == m <= n => Agree(m)
           P == {m \in Nat : Q(m)}
<1>4. Agree(0)
  <2>1. <<0>> \in Seq(Nat) /\ Len(<<0>>) = 1 /\ <<0>>[1] = 0 OBVIOUS
  <2>2. Sum(<<0>>) = 0
    <3>1. PICK p \in [0 .. Len(<<0>>) -> Nat] : /\ p[0] = 0 /\ p[Len(<<0>>)] = Sum(<<0>>)
                                                /\ \A m \in 1 .. Len(<<0>>) : p[m] = p[m - 1] + <<0>>[m]
      BY <2>1, SumSteps
    <3> DEFINE q == <<0>>
    <3>2. p[1] = p[0] + q[1] /\ p[1] = Sum(q) BY <2>1, <3>1
    <3>3. QED BY <2>1, <3>1, <3>2
  <2>3. c[0].n = 1 /\ c[0].used = 0 /\ f[0].room = MaxIso /\ f[0].urbs = <<0>> BY <1>1, <1>2
  <2>4. QED BY <2>1, <2>2, <2>3
<1>5. ASSUME NEW m \in Nat, m + 1 <= n, Agree(m) PROVE Agree(m + 1)
  <2> DEFINE a == c[m]  b == f[m]  x == s[m + 1]
  <2>1. m \in 0 .. n /\ m + 1 \in 1 .. n /\ (m + 1) - 1 = m BY <1>3, <1>5
  <2>2. a \in Counts /\ b \in Fills /\ x \in 0 .. MaxIso BY <1>3, <2>1
  <2>3. c[m + 1] = Counted(a, x) /\ f[m + 1] = Fill(b, x) BY <1>1, <1>2, <2>1
  <2>4. a.n = Len(b.urbs) /\ a.used = MaxIso - b.room /\ Sum(b.urbs) = m BY <1>5
  <2> HIDE DEF a, b, x
  <2>5. /\ Sum(Fill(b, x).urbs) = Sum(b.urbs) + 1
        /\ Len(Fill(b, x).urbs) = IF x <= b.room THEN Len(b.urbs) ELSE Len(b.urbs) + 1
        /\ Fill(b, x).room = IF x <= b.room THEN b.room - x ELSE MaxIso - x
    BY <2>2, FillType
  <2>6. b.room \in 0 .. MaxIso /\ a = [n |-> a.n, used |-> a.used] /\ a.n \in Nat /\ a.used \in 0 .. MaxIso
    BY <2>2 DEF Counts, Fills
  <2>7. x > MaxIso - a.used <=> ~(x <= b.room) BY <2>2, <2>4, <2>6
  <2>8. /\ Counted(a, x).n = IF x <= b.room THEN a.n ELSE a.n + 1
        /\ Counted(a, x).used = IF x <= b.room THEN a.used + x ELSE x
    BY <2>6, <2>7 DEF Counted
  <2>9. Counted(a, x).n = Len(Fill(b, x).urbs) BY <2>4, <2>5, <2>8
  <2>10. Counted(a, x).used = MaxIso - Fill(b, x).room BY <2>2, <2>4, <2>5, <2>6, <2>8
  <2>11. QED BY <2>3, <2>4, <2>5, <2>9, <2>10
<1> HIDE DEF Agree
<1>6. ASSUME NEW m \in Nat, Q(m) PROVE Q(m + 1)
  <2> SUFFICES ASSUME m + 1 <= n PROVE Agree(m + 1) OBVIOUS
  <2>1. m <= n BY <1>3
  <2>2. QED BY <1>5, <1>6, <2>1
<1>7. Q(0) BY <1>4
<1> HIDE DEF Q
<1>8. Nat \subseteq P
  <2>1. 0 \in P /\ \A m \in Nat : m \in P => m + 1 \in P BY <1>6, <1>7
  <2> HIDE DEF P
  <2>2. QED BY <2>1, Inductive
<1>9. Agree(n)
  <2>1. Q(n) BY <1>3, <1>8
  <2>2. n <= n BY <1>3
  <2>3. QED BY <2>1, <2>2, Zenon DEF Q
<1>10. IsoFill(s) \in Seq(Nat) /\ IsoFill(s) # <<>> /\ IsoCount(s) = Len(IsoFill(s)) /\ Sum(IsoFill(s)) = n
  <2>1. f[n] \in Fills BY <1>3
  <2>2. QED BY <1>1, <1>2, <1>9, <2>1 DEF Agree, Fills
<1>11. IsoSizes(s) = IsoFill(s)
  <2> DEFINE u == IsoFill(s)
  <2>1. IsoSizes(s) = [i \in 1 .. Len(u) |-> IF i \in DOMAIN u THEN u[i] ELSE 0] BY <1>10 DEF IsoSizes
  <2>2. u \in Seq(Nat) BY <1>10
  <2> HIDE DEF u
  <2>3. u = [i \in 1 .. Len(u) |-> u[i]] /\ DOMAIN u = 1 .. Len(u) BY <2>2, LenProperties
  <2>4. \A i \in 1 .. Len(u) : (IF i \in DOMAIN u THEN u[i] ELSE 0) = u[i] BY <2>3
  <2>5. QED BY <2>1, <2>3, <2>4 DEF u
<1>12. QED BY <1>10, <1>11 DEF n

\* A transfer is divided into one URB at least.
LEMMA SizesDivided ==
  ASSUME UsbfsAssumption, [type |-> type, continuation |-> continuation] \in Settings,
         NEW t \in Transfers, NEW what \in IF type[t] = "iso" THEN Packets ELSE Lengths[t]
  PROVE  Len(Sizes(t, what)) \in Nat \ {0} /\ (type[t] = "control" => Len(Sizes(t, what)) = 1)
<1>1. CASE type[t] = "iso"
  <2>1. IsoSizes(what) \in Seq(Nat) \ {<<>>}
    <3>1. MaxIso \in Nat /\ what \in Seq(0 .. MaxIso) BY <1>1 DEF UsbfsAssumption
    <3>2. QED BY <3>1, IsoDivides
  <2>2. Len(IsoSizes(what)) \in Nat \ {0} BY <2>1, EmptySeq, LenProperties
  <2>3. QED BY <1>1, <2>2 DEF Sizes
<1>2. CASE type[t] = "control" BY <1>2 DEF Sizes
<1>3. CASE type[t] \notin {"iso", "control"}
  <2>1. what \in Nat /\ MaxBulk \in Nat \ {0} BY <1>3 DEF UsbfsAssumption
  <2>2. /\ what \div MaxBulk \in Nat /\ what % MaxBulk \in Nat
        /\ what > 0 /\ what % MaxBulk = 0 => what \div MaxBulk > 0
    <3>1. what \in Nat /\ MaxBulk \in Nat /\ MaxBulk > 0 BY <2>1
    <3>2. QED BY <3>1, Quotient, Zenon
  <2>3. Len(BulkSizes(what)) \in Nat \ {0}
    <3>1. CASE what = 0 BY <3>1 DEF BulkSizes
    <3>2. CASE what # 0
      <4>1. BulkSizes(what) = [i \in 1 .. what \div MaxBulk |-> MaxBulk]
                              \o IF what % MaxBulk > 0 THEN <<what % MaxBulk>> ELSE <<>>
        BY <3>2 DEF BulkSizes
      <4>2. QED BY SMTT(30), <2>1, <2>2, <3>2, <4>1, WholeAndPart
    <3>3. QED BY <3>1, <3>2
  <2>4. QED BY <1>3, <2>3 DEF Sizes
<1>4. QED BY <1>1, <1>2, <1>3

\* The URBs of t in r are all in s, in the same order.
Within(s, r, t) == \E d \in {0, 1} : \A k \in UrbsOf(r, t) : k + d \in UrbsOf(s, t) /\ r[k] = s[k + d]

\* What a step leaves alone of another transfer, and of one whose URBs are reaped.
LEMMA OrderKept ==
  ASSUME Fields, NEW t \in Transfers, InOrder(t), Within(done, done', t), done' \in Seq(Range(done')),
         priv'[t].n = priv[t].n, user'[t] = user[t], pend'[t] = pend[t], UNCHANGED <<type, continuation>>,
         t \in cut => t \in cut'
  PROVE  /\ PendInOrder(t)' /\ Stopped(t)'
         /\ priv[t].urbs /\ (priv'[t].action = "normal" /\ ~Discarding(t)' =>
                               priv[t].action = "normal" /\ ~Discarding(t)) => DoneInPlace(t)'
         /\ Ascending(done, t) => Ascending(done', t)
<1>1. PICK d \in {0, 1} : \A k \in UrbsOf(done', t) : k + d \in UrbsOf(done, t) /\ done'[k] = done[k + d]
  BY DEF Within
<1>2. UrbsOf(done', t) \subseteq Nat BY UrbsOfFinite
<1>3. PendInOrder(t)' BY DEF InOrder, PendInOrder, Highest
<1>4. Stopped(t)' BY <1>1 DEF InOrder, Stopped
<1>5. ASSUME priv[t].urbs, priv'[t].action = "normal" /\ ~Discarding(t)' =>
                           priv[t].action = "normal" /\ ~Discarding(t)
      PROVE  DoneInPlace(t)'
  <2>1. DoneInPlace(t) BY <1>5 DEF InOrder
  <2>2. Highest(t)' = Highest(t) BY DEF Highest
  <2>3. QED BY <1>1, <1>5, <2>1, <2>2 DEF DoneInPlace
<1>6. ASSUME Ascending(done, t) PROVE Ascending(done', t) BY <1>1, <1>2, <1>6 DEF Ascending
<1>7. QED BY <1>3, <1>4, <1>5, <1>6

\* A transfer that a step does not concern keeps its sums.
LEMMA OthersAddUp ==
  ASSUME Fields, NEW t \in Transfers, Whole(t),
         Within(done, done', t), done' \in Seq(Range(done')),
         Cardinality(UrbsOf(done', t)) = Cardinality(UrbsOf(done, t)),
         priv'[t] = priv[t], user'[t] = user[t], pend'[t] = pend[t], UNCHANGED <<type, continuation>>,
         t \in cut => t \in cut', fault[t] \subseteq fault'[t],
         ~connected' => ~connected \/ pend[t] = <<>>,
         handler'.op = "report" /\ handler'.t = t => handler.op = "report" /\ handler.t = t,
         Discarding(t) \/ Discarding(t)' => UNCHANGED handler
  PROVE  Whole(t)'
<1>1. Steady(t)' => Steady(t) BY DEF Steady, Known
<1>2. AddUp(t)' = AddUp(t) BY DEF AddUp, InKernel, Ahead
<1>3. Discarding(t)' <=> Discarding(t) BY DEF Discarding
<1>4. InOrder(t) /\ (priv[t].urbs \/ Steady(t) => AddUp(t)) /\ (Steady(t) => DoneInOrder(t)) BY DEF Whole
<1>5. CallsInOrder(t)'
  <2>1. CallsInOrder(t) BY <1>4 DEF InOrder
  <2>2. CASE Discarding(t) BY <1>3, <2>1, <2>2 DEF CallsInOrder
  <2>3. CASE ~Discarding(t) BY <1>3, <2>1, <2>3 DEF CallsInOrder
  <2>4. QED BY <2>2, <2>3
<1>6. /\ PendInOrder(t)' /\ Stopped(t)' /\ (priv[t].urbs => DoneInPlace(t)')
      /\ Ascending(done, t) => Ascending(done', t)
  BY <1>3, <1>4, OrderKept
<1>7. InOrder(t)' BY <1>4, <1>5, <1>6 DEF InOrder
<1>8. DoneInOrder(t) => DoneInOrder(t)' BY <1>3, <1>6 DEF DoneInOrder
<1>9. QED BY <1>1, <1>2, <1>4, <1>7, <1>8 DEF Whole

\* In particular when nothing comes back, or what comes is not of t.
LEMMA SameWithin ==
  ASSUME Fields, UNCHANGED done, NEW t
  PROVE  /\ Within(done, done', t) /\ done' \in Seq(Range(done'))
         /\ Cardinality(UrbsOf(done', t)) = Cardinality(UrbsOf(done, t))
<1>1. \A k \in UrbsOf(done, t) : k + 0 = k BY UrbsOfFinite DEF Fields
<1>2. QED BY <1>1 DEF Within, Fields

\* URBs of other transfers that come back leave those of t in place.
LEMMA MoreWithin ==
  ASSUME Fields, NEW r, r \in Seq(Range(r)), done' = done \o r, NEW t, \A k \in DOMAIN r : r[k].t # t
  PROVE  /\ Within(done, done', t) /\ done' \in Seq(Range(done'))
         /\ Cardinality(UrbsOf(done', t)) = Cardinality(UrbsOf(done, t))
<1>1. done \in Seq(Range(done)) /\ done' \in Seq(Range(done')) BY RangeOfConcat DEF Fields
<1>2. UrbsOf(r, t) = {} BY DEF UrbsOf
<1>3. Cardinality(UrbsOf(r, t)) = 0 BY <1>2, FS_EmptySet
<1>4. Len(done) \in Nat /\ Len(r) \in Nat /\ DOMAIN r = 1 .. Len(r) /\ UrbsOf(done, t) \subseteq 1 .. Len(done)
      /\ Cardinality(UrbsOf(done, t)) \in Nat
  BY <1>1, LenProperties, UrbsOfFinite
<1>5. /\ UrbsOf(done', t) = UrbsOf(done, t) \cup {k \in Len(done) + 1 .. Len(done) + Len(r) : r[k - Len(done)].t = t}
      /\ Cardinality(UrbsOf(done', t)) = Cardinality(UrbsOf(done, t)) + Cardinality(UrbsOf(r, t))
      /\ \A k \in 1 .. Len(done) : done'[k] = done[k]
  BY <1>1, UrbsOfConcat
<1>6. \A k \in Len(done) + 1 .. Len(done) + Len(r) : k - Len(done) \in DOMAIN r BY <1>4
<1>7. UrbsOf(done', t) = UrbsOf(done, t) BY <1>5, <1>6
<1>8. \A k \in UrbsOf(done, t) : k + 0 = k /\ done'[k] = done[k] BY <1>4, <1>5
<1>9. QED BY <1>1, <1>3, <1>4, <1>5, <1>7, <1>8 DEF Within

\* The URBs in the kernel are those under way and those to be reaped.
LEMMA KernelCounts ==
  ASSUME Fields, NEW t \in Transfers
  PROVE  /\ InKernel(t) \in Nat /\ Len(pend[t]) \in Nat /\ Cardinality(UrbsOf(done, t)) \in Nat
         /\ InKernel(t) = Len(pend[t]) + Cardinality(UrbsOf(done, t))
         /\ InKernel(t) = 0 <=> pend[t] = <<>> /\ UrbsOf(done, t) = {}
         /\ Len(pend[t]) = 0 <=> pend[t] = <<>>
<1>1. Len(pend[t]) \in Nat /\ (Len(pend[t]) = 0 <=> pend[t] = <<>>) BY LenProperties, EmptySeq DEF Fields
<1>2. IsFiniteSet(UrbsOf(done, t)) /\ Cardinality(UrbsOf(done, t)) \in Nat BY UrbsOfFinite DEF Fields
<1>3. Cardinality(UrbsOf(done, t)) = 0 <=> UrbsOf(done, t) = {} BY <1>2, FS_EmptySet
<1>4. QED BY <1>1, <1>2, <1>3 DEF InKernel

\* A step of t that takes nothing from the kernel leaves the other transfers alone.
LEMMA OthersStay ==
  ASSUME Fields, AddUpInv, Reaping, NEW t \in Transfers,
         UNCHANGED <<fixed, done, handler, connected>>, cut \ {t} \subseteq cut',
         \A u \in Transfers \ {t} : UNCHANGED <<priv[u], user[u], pend[u], fault[u]>>
  PROVE  \A u \in Transfers \ {t} : Whole(u)'
<1> SUFFICES ASSUME NEW u \in Transfers \ {t} PROVE Whole(u)' OBVIOUS
<1>1. Whole(u) BY DEF AddUpInv
<1>2. /\ Within(done, done', u) /\ done' \in Seq(Range(done'))
      /\ Cardinality(UrbsOf(done', u)) = Cardinality(UrbsOf(done, u))
  BY SameWithin
<1>3. QED BY <1>1, <1>2, OthersAddUp DEF fixed

\* What is said of the URBs to be reaped is not touched by a call on the others.
LEMMA DoneStays ==
  ASSUME NEW t \in Transfers, DoneInPlace(t), UNCHANGED <<handler, done, pend>>, priv'[t].n = priv[t].n,
         Highest(t)' = Highest(t) \/ (Highest(t) \in Int /\ Highest(t)' \in Int /\ Highest(t) <= Highest(t)'),
         priv'[t].action = "normal" => priv[t].action = "normal"
  PROVE  DoneInPlace(t)'
BY DEF DoneInPlace, Discarding

\* A new submission starts with all its URBs to be submitted.
LEMMA SubmitAddsUp ==
  ASSUME UsbfsAssumption, [type |-> type, continuation |-> continuation] \in Settings,
         FlyingInv, EarnedInv, AddUpInv, Reaping, NEW t \in Transfers, Submit(t), UNCHANGED fixed
  PROVE  \A u \in Transfers : Whole(u)'
<1>1. Fields /\ user[t] = Idle /\ InKernel(t) = 0 /\ ~Discarding(t)
  BY DEF EarnedInv, Submit, LockFree, Reaping, Discarding
<1>2. pend[t] = <<>> /\ UrbsOf(done, t) = {} BY <1>1, KernelCounts
<1>3. PICK what \in IF type[t] = "iso" THEN Packets ELSE Lengths[t] :
         priv' = [priv EXCEPT ![t] = [Blank EXCEPT !.urbs = TRUE, !.n = Len(Sizes(t, what)),
                    !.status = IF type[t] \in {"bulk", "interrupt"} THEN "completed" ELSE @]]
  BY DEF Submit
<1> DEFINE n == Len(Sizes(t, what))
<1>4. n \in Nat \ {0} /\ (type[t] = "control" => n = 1) BY SizesDivided
<1>5. /\ UNCHANGED <<handler, pend, done, cut, connected>>
      /\ user' = [user EXCEPT ![t] = [op |-> "submit", i |-> 1]] /\ fault' = [fault EXCEPT ![t] = {}]
  BY DEF Submit
<1>6. /\ priv'[t].urbs /\ priv'[t].n = n /\ priv'[t].retired = 0 /\ {"n", "retired"} \subseteq DOMAIN priv'[t]
      /\ user'[t] = [op |-> "submit", i |-> 1]
      /\ \A u \in Transfers \ {t} : UNCHANGED <<priv[u], user[u], pend[u], fault[u]>>
  BY <1>1, <1>3, <1>5 DEF Blank, FlyingInv, Shapes, Fields
<1> HIDE DEF n
<1>7. \A u \in Transfers \ {t} : Whole(u)' BY <1>1, <1>5, <1>6, OthersStay
<1>8. AddUp(t)'
  <2>1. InKernel(t)' = 0 BY <1>1, <1>5 DEF InKernel
  <2>2. QED BY <1>4, <1>6, <2>1 DEF AddUp, Ahead
<1>9. CallsInOrder(t)' BY <1>1, <1>4, <1>5, <1>6 DEF CallsInOrder, fixed, Discarding
<1>10. PendInOrder(t)' /\ Stopped(t)' /\ DoneInPlace(t)' /\ DoneInOrder(t)' /\ pend'[t] = <<>>
  BY <1>2, <1>5 DEF PendInOrder, Stopped, DoneInPlace, DoneInOrder, Ascending
<1>11. QED BY <1>7, <1>8, <1>9, <1>10 DEF InOrder, Whole

\* A higher number at the end keeps a sequence ascending.
LEMMA AppendAscends ==
  ASSUME NEW s, NEW r, NEW m \in Nat, NEW i \in Nat \ {0}, r[m + 1] = i,
         \A k \in 1 .. m : r[k] = s[k] /\ s[k] \in 1 .. i - 1 /\ \A j \in 1 .. m : j < k => s[j] < s[k]
  PROVE  \A k \in 1 .. m + 1 : r[k] \in 1 .. i /\ \A j \in 1 .. m + 1 : j < k => r[j] < r[k]
<1> SUFFICES ASSUME NEW k \in 1 .. m + 1 PROVE r[k] \in 1 .. i /\ \A j \in 1 .. m + 1 : j < k => r[j] < r[k]
  OBVIOUS
<1>1. \A j \in 1 .. m : r[j] \in 1 .. i /\ r[j] < i OBVIOUS
<1>2. CASE k = m + 1
  <2>1. \A j \in 1 .. m + 1 : j < k => j \in 1 .. m BY <1>2
  <2>2. QED BY <1>1, <1>2, <2>1
<1>3. CASE k \in 1 .. m
  <2>1. \A j \in 1 .. m + 1 : j < k => j \in 1 .. m BY <1>3
  <2>2. QED BY <1>1, <1>3, <2>1
<1>4. QED BY <1>2, <1>3

\* A URB that the kernel accepts is one less to be submitted.
LEMMA UrbAddsUp ==
  ASSUME FlyingInv, EarnedInv, AddUpInv, Reaping, NEW t \in Transfers, SubmitUrb(t), UNCHANGED fixed
  PROVE  \A u \in Transfers : Whole(u)'
<1> DEFINE i == user[t].i  n == priv[t].n
<1>1. /\ Fields /\ AddUp(t) /\ InOrder(t) /\ (Steady(t) => DoneInOrder(t))
      /\ user[t].op = "submit" /\ user[t] # Idle /\ priv[t].urbs /\ priv[t].action = "normal"
  BY DEF EarnedInv, AddUpInv, SubmitUrb, InFlight, Idle, Whole
<1>2. i \in 1 .. n /\ n \in Nat /\ priv[t].retired = 0 /\ user[t] = [op |-> "submit", i |-> i]
      /\ ~Discarding(t)
  BY <1>1 DEF InOrder, CallsInOrder
<1>3. /\ UNCHANGED <<priv, handler, done, connected, fault>> /\ connected
      /\ pend' = [pend EXCEPT ![t] = Append(@, i)] /\ cut \ {t} \subseteq cut' /\ (i # 1 => cut' = cut)
      /\ user' = [user EXCEPT ![t] = IF i = n THEN Idle ELSE [@ EXCEPT !.i = i + 1]]
      /\ ~Refused(t, i)
  BY DEF SubmitUrb
<1>4. /\ pend'[t] = Append(pend[t], i)
      /\ user'[t] = IF i = n THEN Idle ELSE [op |-> "submit", i |-> i + 1]
      /\ \A u \in Transfers \ {t} : UNCHANGED <<priv[u], user[u], pend[u]>>
  <2>1. [user[t] EXCEPT !.i = i + 1] = [op |-> "submit", i |-> i + 1] BY <1>2
  <2>2. DOMAIN pend = Transfers /\ DOMAIN user = Transfers BY <1>1 DEF Fields, FlyingInv, Shapes
  <2> HIDE DEF i, n
  <2>3. QED BY <1>3, <2>1, <2>2
<1>5. \A u \in Transfers \ {t} : Whole(u)' BY <1>1, <1>3, <1>4, OthersStay
<1>6. /\ Len(pend[t]) \in Nat /\ DOMAIN pend[t] = 1 .. Len(pend[t])
      /\ Len(pend'[t]) = Len(pend[t]) + 1 /\ DOMAIN pend'[t] = 1 .. Len(pend[t]) + 1
      /\ \A k \in 1 .. Len(pend[t]) : pend'[t][k] = pend[t][k]
      /\ pend'[t][Len(pend[t]) + 1] = i
  <2> DEFINE S == Range(pend[t]) \cup {i}
  <2>1. pend[t] \in Seq(S) /\ i \in S BY <1>1, SeqMonotonic DEF Fields
  <2> HIDE DEF S, i
  <2>2. /\ Len(pend[t]) \in Nat /\ DOMAIN pend[t] = 1 .. Len(pend[t]) /\ pend'[t] \in Seq(S)
        /\ Len(pend'[t]) = Len(pend[t]) + 1
        /\ \A k \in 1 .. Len(pend[t]) : pend'[t][k] = pend[t][k]
        /\ pend'[t][Len(pend[t]) + 1] = i
    BY <1>4, <2>1, AppendProperties, LenProperties
  <2>3. QED BY <2>2, LenProperties
<1>7. AddUp(t)'
  <2>1. InKernel(t)' = InKernel(t) + 1 BY <1>1, <1>3, <1>6, KernelCounts DEF InKernel
  <2>2. Ahead(t)' = Ahead(t) - 1 /\ Ahead(t) \in Int BY <1>1, <1>2, <1>3, <1>4 DEF Ahead, Idle
  <2>3. priv[t].retired + InKernel(t) + Ahead(t) = n BY <1>1 DEF AddUp
  <2>4. InKernel(t) \in Nat BY <1>1, KernelCounts
  <2>5. priv'[t].retired + InKernel(t)' + Ahead(t)' = n BY <1>2, <1>3, <2>1, <2>2, <2>3, <2>4
  <2>6. QED BY <1>1, <1>3, <2>5 DEF AddUp
<1>8. CallsInOrder(t)' BY <1>1, <1>2, <1>3, <1>4 DEF InOrder, CallsInOrder, Idle, Discarding, fixed
<1>9. Highest(t) = i - 1 /\ Highest(t)' = i BY <1>1, <1>2, <1>3, <1>4 DEF Highest, Idle
<1>10. PendInOrder(t)'
  <2> DEFINE m == Len(pend[t])  old == pend[t]  new == pend'[t]
  <2>1. \A k \in 1 .. m : new[k] = old[k] /\ old[k] \in 1 .. i - 1 /\ \A j \in 1 .. m : j < k => old[j] < old[k]
    BY <1>1, <1>6, <1>9 DEF InOrder, PendInOrder
  <2>2. i \in Nat \ {0} /\ m \in Nat /\ new[m + 1] = i BY <1>2, <1>6
  <2> HIDE DEF i, n, m, old, new
  <2>3. \A k \in 1 .. m + 1 : new[k] \in 1 .. i /\ \A j \in 1 .. m + 1 : j < k => new[j] < new[k]
    BY <2>1, <2>2, AppendAscends
  <2>4. QED BY <1>6, <1>9, <2>3 DEF PendInOrder, m, new
<1>11. DoneInPlace(t)'
  <2>1. DoneInPlace(t) BY <1>1 DEF InOrder
  <2>3. \A k \in UrbsOf(done, t) : done[k].i \in 1 .. i /\ \A j \in DOMAIN pend'[t] : done[k].i < pend'[t][j]
    <3> SUFFICES ASSUME NEW k \in UrbsOf(done, t)
                 PROVE  done[k].i \in 1 .. i /\ \A j \in DOMAIN pend'[t] : done[k].i < pend'[t][j]
      OBVIOUS
    <3> DEFINE d == done[k].i  m == Len(pend[t])  old == pend[t]  new == pend'[t]
    <3>1. d \in 1 .. i - 1 /\ \A j \in 1 .. m : d < old[j] BY <1>1, <1>2, <1>6, <1>9, <2>1 DEF DoneInPlace
    <3>2. /\ i \in Nat /\ m \in Nat /\ DOMAIN new = 1 .. m + 1
          /\ (\A j \in 1 .. m : new[j] = old[j]) /\ new[m + 1] = i
      BY <1>2, <1>6
    <3> HIDE DEF d, i, n, m, old, new
    <3>3. \A j \in 1 .. m + 1 : j \in 1 .. m \/ j = m + 1 BY <3>2
    <3>4. d \in 1 .. i /\ \A j \in DOMAIN new : d < new[j] BY <3>1, <3>2, <3>3
    <3>5. QED BY <3>4 DEF d, new
  <2>4. QED BY <1>3, <1>9, <2>1, <2>3 DEF DoneInPlace
<1>12. Stopped(t)'
  <2> SUFFICES ASSUME continuation, type[t] \in {"bulk", "interrupt"}, NEW k \in UrbsOf(done, t),
                      done[k].code \in {"remote", "stall", "proto", "overflow"}
               PROVE FALSE
    BY <1>3 DEF Stopped, fixed
  <2>1. pend[t] = <<>> /\ t \in cut BY <1>1 DEF InOrder, Stopped
  <2>2. i = 1 BY <1>2, <1>3, <2>1 DEF Refused
  <2>3. InKernel(t) = 0 BY <1>1, <1>2, <2>2, KernelCounts DEF AddUp, Ahead
  <2>4. QED BY <1>1, <2>3, KernelCounts
<1>13. Steady(t)' => DoneInOrder(t)'
  <2>1. Steady(t)' => Steady(t) BY <1>3 DEF Steady, Known, fixed
  <2>2. DoneInOrder(t) => DoneInOrder(t)' BY <1>2, <1>3 DEF DoneInOrder, Ascending, Discarding
  <2>3. QED BY <1>1, <2>1, <2>2
<1>14. InOrder(t)' BY <1>1, <1>3, <1>8, <1>10, <1>11, <1>12 DEF InOrder
<1>15. QED BY <1>5, <1>7, <1>13, <1>14 DEF Whole

\* A refused URB retires those that will never be submitted.
LEMMA FailureAddsUp ==
  ASSUME FlyingInv, EarnedInv, AddUpInv, Reaping, NEW t \in Transfers,
         FirstUrbFails(t) \/ LaterUrbFails(t), UNCHANGED fixed
  PROVE  \A u \in Transfers : Whole(u)'
<1> DEFINE i == user[t].i  n == priv[t].n
<1>1. /\ Fields /\ AddUp(t) /\ InOrder(t) /\ (Steady(t) => DoneInOrder(t))
      /\ user[t].op = "submit" /\ priv[t].urbs
  BY DEF EarnedInv, AddUpInv, FirstUrbFails, LaterUrbFails, InFlight, Whole
<1>2. /\ i \in 1 .. n /\ n \in Nat /\ priv[t].retired = 0 /\ {"n", "retired"} \subseteq DOMAIN priv[t]
      /\ ~Discarding(t)
  BY <1>1 DEF InOrder, CallsInOrder, Idle
<1>3. InKernel(t) + (n - i + 1) = n /\ InKernel(t) \in Nat
  BY <1>1, <1>2, KernelCounts DEF AddUp, Ahead
<1>4. /\ UNCHANGED <<handler, pend, done, cut, connected>>
      /\ fault[t] \subseteq fault'[t] /\ \A u \in Transfers \ {t} : fault'[u] = fault[u]
  BY <1>1 DEF FirstUrbFails, LaterUrbFails, kernel, Fields
<1>5. InKernel(t)' = InKernel(t) BY <1>4 DEF InKernel
<1>6. Stopped(t)' /\ (~connected' => pend'[t] = <<>>) /\ ~Discarding(t)'
  BY <1>1, <1>2, <1>4 DEF InOrder, Stopped, Discarding, fixed
<1>7. CASE FirstUrbFails(t)
  <2>1. /\ i = 1 /\ priv' = [priv EXCEPT ![t].urbs = FALSE] /\ user' = [user EXCEPT ![t] = Idle]
    BY <1>7 DEF FirstUrbFails
  <2>2. /\ ~priv'[t].urbs /\ user'[t] = Idle /\ priv'[t].n = n /\ priv'[t].retired = 0
        /\ {"n", "retired"} \subseteq DOMAIN priv'[t]
        /\ \A u \in Transfers \ {t} : UNCHANGED <<priv[u], user[u], pend[u]>>
    BY <1>2, <1>4, <2>1 DEF FlyingInv, Shapes
  <2>3. InKernel(t) = 0 BY <1>2, <1>3, <2>1
  <2>4. pend[t] = <<>> BY <1>1, <2>3, KernelCounts
  <2>5. AddUp(t)' BY <1>5, <2>2, <2>3 DEF AddUp
  <2>6. CallsInOrder(t)' BY <1>2, <1>4, <1>6, <2>2 DEF CallsInOrder, Idle
  <2>7. PendInOrder(t)' BY <1>4, <2>4 DEF PendInOrder
  <2>8. \A u \in Transfers \ {t} : Whole(u)' BY <1>1, <1>4, <2>2, OthersStay
  <2>9. DoneInOrder(t)' /\ pend'[t] = <<>> BY <1>4, <2>2, <2>4 DEF DoneInOrder
  <2>10. QED BY <1>6, <2>2, <2>5, <2>6, <2>7, <2>8, <2>9 DEF InOrder, Whole
<1>8. CASE LaterUrbFails(t)
  <2> DEFINE short == Refused(t, i) /\ connected
  <2>1. /\ priv' = [priv EXCEPT ![t].action = IF short THEN "early" ELSE "submit_failed",
                                ![t].retired = @ + Unsubmitted(t)]
        /\ user' = [user EXCEPT ![t] = IF short THEN Idle ELSE [op |-> "discard", i |-> i - 1]]
        /\ i > 1
    BY <1>8 DEF LaterUrbFails
  <2> HIDE DEF short
  <2>2. /\ priv'[t].urbs /\ priv'[t].action # "normal" /\ user'[t].op \in {"none", "discard"} /\ priv'[t].n = n
        /\ priv'[t].retired = n - i + 1 /\ {"n", "retired"} \subseteq DOMAIN priv'[t]
        /\ \A u \in Transfers \ {t} : UNCHANGED <<priv[u], user[u], pend[u]>>
    BY <1>1, <1>2, <1>4, <2>1 DEF FlyingInv, Shapes, Fields, Unsubmitted, Idle
  <2>3. AddUp(t)' BY <1>2, <1>3, <1>5, <2>2 DEF AddUp, Ahead
  <2>4. type[t] # "control" BY <1>1, <1>2, <2>1 DEF InOrder, CallsInOrder
  <2>5. CallsInOrder(t)' BY <1>2, <1>4, <1>6, <2>2, <2>4 DEF CallsInOrder, fixed
  <2>6. PendInOrder(t)'
    <3>1. Highest(t) = i - 1 /\ Highest(t)' = n BY <1>1, <2>2 DEF Highest
    <3>2. QED BY <1>1, <1>2, <1>4, <3>1 DEF InOrder, PendInOrder
  <2>7. \A u \in Transfers \ {t} : Whole(u)' BY <1>1, <1>4, <2>2, OthersStay
  <2>8. DoneInPlace(t)'
    <3>1. Highest(t) = i - 1 /\ Highest(t)' = n BY <1>1, <2>2 DEF Highest
    <3>2. Highest(t) \in Int /\ Highest(t)' \in Int /\ Highest(t) <= Highest(t)' BY <1>2, <3>1
    <3>3. DoneInPlace(t) BY <1>1 DEF InOrder
    <3>4. QED BY <1>4, <2>2, <3>2, <3>3, DoneStays
  <2>9. DoneInOrder(t)' BY <2>2 DEF DoneInOrder
  <2>10. QED BY <1>6, <2>2, <2>3, <2>5, <2>6, <2>7, <2>8, <2>9 DEF InOrder, Whole
<1>9. QED BY <1>7, <1>8

\* A cancellation, by the application or after a timeout.
LEMMA CancelAddsUp ==
  ASSUME FlyingInv, EarnedInv, AddUpInv, Reaping, NEW t \in Transfers, StartCancel(t), LockFree(t),
         UNCHANGED <<fixed, handler, pend, done, cut, connected, fault>>
  PROVE  \A u \in Transfers : Whole(u)'
<1>1. Fields /\ InOrder(t) /\ (priv[t].urbs \/ Steady(t) => AddUp(t)) /\ user[t] = Idle /\ ~Discarding(t)
  BY DEF EarnedInv, AddUpInv, LockFree, Discarding, Whole
<1>2. /\ priv'[t].urbs = priv[t].urbs /\ priv'[t].n = priv[t].n /\ priv'[t].retired = priv[t].retired
      /\ priv'[t].action # "normal" /\ user'[t].op \in {"none", "discard"} /\ DOMAIN priv'[t] = DOMAIN priv[t]
      /\ \A u \in Transfers \ {t} : UNCHANGED <<priv[u], user[u], pend[u], fault[u]>>
  BY <1>1 DEF StartCancel, FlyingInv, Shapes, Fields, Idle
<1>3. priv'[t].urbs \/ Steady(t)' => AddUp(t)'
  <2>1. Steady(t)' => Steady(t) BY <1>2 DEF Steady, Known, fixed
  <2>2. AddUp(t) => AddUp(t)' BY <1>1, <1>2 DEF AddUp, Ahead, InKernel, Idle
  <2>3. QED BY <1>1, <1>2, <2>1, <2>2
<1>4. CallsInOrder(t)' BY <1>1, <1>2 DEF InOrder, CallsInOrder, fixed, Discarding
<1>5. PendInOrder(t)' /\ Stopped(t)' /\ (~connected' => pend'[t] = <<>>)
  BY <1>1, <1>2 DEF InOrder, PendInOrder, Highest, Stopped, Idle, fixed
<1>6. \A u \in Transfers \ {t} : Whole(u)' BY <1>1, <1>2, OthersStay
<1>7. priv[t].urbs => DoneInPlace(t)'
  <2>1. Highest(t)' = Highest(t) BY <1>1, <1>2 DEF Highest, Idle
  <2>2. QED BY <1>1, <1>2, <2>1, DoneStays DEF InOrder
<1>8. DoneInOrder(t)' BY <1>2 DEF DoneInOrder
<1>9. InOrder(t)' BY <1>1, <1>2, <1>4, <1>5, <1>7 DEF InOrder
<1>10. QED BY <1>3, <1>6, <1>8, <1>9 DEF Whole

\* A discarded URB comes back behind the others, or there is none to discard.
LEMMA DiscardAddsUp ==
  ASSUME EarnedInv, AddUpInv, Reaping, NEW t \in Transfers, NEW i, Discard(t, i),
         UNCHANGED <<type, continuation, priv, cut, connected>>,
         user'[t].op = "submit" <=> user[t].op = "submit", user[t].op = "submit" => UNCHANGED user[t],
         priv[t].action # "normal" \/ Discarding(t)
  PROVE  /\ AddUp(t) => AddUp(t)'
         /\ PendInOrder(t)' /\ Stopped(t)'
         /\ priv[t].urbs /\ (priv[t].action = "normal" /\ ~Discarding(t)' => pend'[t] = <<>>) => DoneInPlace(t)'
         /\ ~connected' => pend'[t] = <<>>
         /\ pend[t] = <<>> => UNCHANGED <<done, pend>>
         /\ \A k \in DOMAIN pend'[t] : pend'[t][k] # i /\ \E j \in DOMAIN pend[t] : pend'[t][k] = pend[t][j]
         /\ \A u \in Transfers \ {t} : /\ pend'[u] = pend[u]
              /\ Within(done, done', u) /\ done' \in Seq(Range(done'))
              /\ Cardinality(UrbsOf(done', u)) = Cardinality(UrbsOf(done, u))
<1>1. Fields /\ InOrder(t) BY DEF EarnedInv, AddUpInv, Whole
<1>2. Ahead(t)' = Ahead(t) /\ Highest(t)' = Highest(t) BY DEF Ahead, Highest
<1>3. CASE Contains(pend[t], i)
  <2> DEFINE k == CHOOSE k \in DOMAIN pend[t] : pend[t][k] = i
  <2>1. PICK x : done' = Append(done, [t |-> t, i |-> i, code |-> "cancelled", n |-> x])
    BY <1>3 DEF Discard
  <2> DEFINE urb == [t |-> t, i |-> i, code |-> "cancelled", n |-> x]
  <2>2. k \in DOMAIN pend[t] /\ pend[t][k] = i BY <1>1, <1>3, LenProperties DEF Contains, Fields
  <2>3. pend' = [pend EXCEPT ![t] = RemoveAt(@, k)] BY <1>3 DEF Discard
  <2>4. urb.t = t /\ urb.i = i /\ urb.code = "cancelled" /\ done' = Append(done, urb) BY <2>1
  <2> HIDE DEF k, urb
  <2>5. pend'[t] = RemoveAt(pend[t], k) /\ \A u \in Transfers \ {t} : pend'[u] = pend[u] BY <1>1, <2>3 DEF Fields
  <2>6. /\ Len(pend'[t]) = Len(pend[t]) - 1 /\ DOMAIN pend'[t] = 1 .. Len(pend[t]) - 1
        /\ \A j \in 1 .. Len(pend[t]) - 1 : pend'[t][j] = IF j < k THEN pend[t][j] ELSE pend[t][j + 1]
    <3> DEFINE s == pend[t]
    <3>1. s \in Seq(Range(s)) /\ k \in DOMAIN s BY <1>1, <2>2 DEF Fields
    <3> HIDE DEF s
    <3>2. /\ Len(RemoveAt(s, k)) = Len(s) - 1 /\ DOMAIN RemoveAt(s, k) = 1 .. Len(s) - 1
          /\ \A j \in 1 .. Len(s) - 1 : RemoveAt(s, k)[j] = IF j < k THEN s[j] ELSE s[j + 1]
      BY <3>1, RemovalShifts
    <3>3. QED BY <2>5, <3>2 DEF s
  <2>7. Len(pend[t]) \in Nat /\ DOMAIN pend[t] = 1 .. Len(pend[t]) /\ pend[t] # <<>>
    BY <1>1, <2>2, LenProperties, EmptySeq DEF Fields
  <2>8. done \in Seq(Range(done)) /\ Len(done) \in Nat BY <1>1, LenProperties DEF Fields
  <2>9. /\ UrbsOf(done', t) = UrbsOf(done, t) \cup {Len(done) + 1}
        /\ Cardinality(UrbsOf(done', t)) = Cardinality(UrbsOf(done, t)) + 1
        /\ \A j \in 1 .. Len(done) : done'[j] = done[j]
        /\ done'[Len(done) + 1] = urb
    BY <2>4, <2>8, UrbsOfAppend
  <2>10. UrbsOf(done, t) \subseteq 1 .. Len(done) BY <2>8, UrbsOfFinite
  <2>11. InKernel(t)' = InKernel(t) BY <1>1, <2>6, <2>9, KernelCounts DEF InKernel
  <2>12. AddUp(t) => AddUp(t)' BY <1>2, <2>11 DEF AddUp
  <2>13. PendInOrder(t)'
    <3>1. PendInOrder(t) BY <1>1 DEF InOrder
    <3>2. ASSUME NEW a \in 1 .. Len(pend[t]) - 1
          PROVE  pend'[t][a] \in 1 .. Highest(t) /\ \A b \in 1 .. Len(pend[t]) - 1 : b < a => pend'[t][b] < pend'[t][a]
      <4>1. k \in Int BY <2>2, <2>7
      <4>2. a \in 1 .. Len(pend[t]) /\ a + 1 \in 1 .. Len(pend[t]) BY <2>7
      <4>3. pend'[t][a] \in 1 .. Highest(t) BY <2>6, <2>7, <3>1, <4>2 DEF PendInOrder
      <4>4. ASSUME NEW b \in 1 .. Len(pend[t]) - 1, b < a PROVE pend'[t][b] < pend'[t][a]
        <5>1. b \in 1 .. Len(pend[t]) /\ b + 1 \in 1 .. Len(pend[t]) BY <2>7
        <5>2. /\ pend[t][b] < pend[t][a] /\ pend[t][b] < pend[t][a + 1] /\ pend[t][b + 1] < pend[t][a + 1]
          BY SMTT(30), <2>7, <3>1, <4>2, <4>4, <5>1 DEF PendInOrder
        <5>3. pend'[t][a] = IF a < k THEN pend[t][a] ELSE pend[t][a + 1] BY <2>6
        <5>4. pend'[t][b] = IF b < k THEN pend[t][b] ELSE pend[t][b + 1] BY <2>6
        <5>5. ~(b < k) => ~(a < k) BY <4>1, <4>4
        <5>6. QED BY <5>2, <5>3, <5>4, <5>5
      <4>5. QED BY <4>3, <4>4
    <3>3. QED BY <1>2, <2>6, <3>2 DEF PendInOrder
  <2>14. Stopped(t)' BY <1>1, <2>4, <2>7, <2>9, <2>10 DEF InOrder, Stopped
  <2>15. ~connected' => pend'[t] = <<>> BY <1>1, <2>7 DEF InOrder
  <2>16. ASSUME priv[t].urbs, priv[t].action = "normal" /\ ~Discarding(t)' => pend'[t] = <<>>
         PROVE  DoneInPlace(t)'
    <3>1. DoneInPlace(t) /\ PendInOrder(t) BY <1>1, <2>16 DEF InOrder
    <3>2. i \in 1 .. Highest(t) BY <2>2, <3>1 DEF PendInOrder
    <3>3. priv'[t].action = "normal" /\ ~Discarding(t)' => DOMAIN pend'[t] = {} BY <2>16
    <3>4. ASSUME NEW j \in UrbsOf(done', t)
          PROVE  done'[j].i \in 1 .. Highest(t) /\ (done'[j].code = "overflow" => done'[j].i = priv[t].n)
      <4>1. CASE j \in UrbsOf(done, t) BY <2>9, <2>10, <3>1, <4>1 DEF DoneInPlace
      <4>2. CASE j = Len(done) + 1 BY <2>4, <2>9, <3>2, <4>2
      <4>3. QED BY <2>9, <4>1, <4>2
    <3>5. QED BY <1>2, <3>3, <3>4 DEF DoneInPlace
  <2>17. ASSUME NEW u \in Transfers \ {t}
         PROVE  /\ Within(done, done', u) /\ done' \in Seq(Range(done'))
                /\ Cardinality(UrbsOf(done', u)) = Cardinality(UrbsOf(done, u))
    <3>1. UrbsOf(done', u) = UrbsOf(done, u) /\ Cardinality(UrbsOf(done', u)) = Cardinality(UrbsOf(done, u))
      <4>1. urb.t # u BY <2>4
      <4>2. UrbsOf(Append(done, urb), u) = UrbsOf(done, u) \cup (IF urb.t = u THEN {Len(done) + 1} ELSE {})
        BY <2>8, UrbsOfAppend
      <4>3. UrbsOf(done', u) = UrbsOf(done, u) BY <2>4, <4>1, <4>2
      <4>4. QED BY <4>3
    <3>2. \A j \in UrbsOf(done, u) : j \in 1 .. Len(done) /\ j + 0 = j BY <2>8, UrbsOfFinite
    <3>3. done' \in Seq(Range(done')) BY <2>4, <2>8, RangeOfAppend
    <3>4. QED BY <2>9, <3>1, <3>2, <3>3 DEF Within
  <2>18. ASSUME NEW a \in DOMAIN pend'[t]
         PROVE  pend'[t][a] # i /\ \E j \in DOMAIN pend[t] : pend'[t][a] = pend[t][j]
    <3>1. \A j, m \in 1 .. Len(pend[t]) : j < m => pend[t][j] < pend[t][m] /\ pend[t][m] \in Int /\ pend[t][j] \in Int
      BY <1>1, <2>7 DEF InOrder, PendInOrder
    <3>2. a \in 1 .. Len(pend[t]) /\ a + 1 \in 1 .. Len(pend[t]) /\ k \in 1 .. Len(pend[t]) BY <2>2, <2>6, <2>7
    <3>3. CASE a < k
      <4>1. pend'[t][a] = pend[t][a] BY <2>6, <3>3
      <4>2. pend[t][a] < pend[t][k] /\ pend[t][a] \in Int BY <3>1, <3>2, <3>3
      <4>3. QED BY <2>2, <2>7, <3>2, <4>1, <4>2
    <3>4. CASE ~(a < k)
      <4>1. pend'[t][a] = pend[t][a + 1] BY <2>6, <3>4
      <4>2. pend[t][k] < pend[t][a + 1] /\ pend[t][a + 1] \in Int BY <3>1, <3>2, <3>4
      <4>3. QED BY <2>2, <2>7, <3>2, <4>1, <4>2
    <3>5. QED BY <3>3, <3>4
  <2>19. QED BY <2>5, <2>7, <2>12, <2>13, <2>14, <2>15, <2>16, <2>17, <2>18
<1>4. CASE ~Contains(pend[t], i)
  <2>1. UNCHANGED <<done, pend>> BY <1>4 DEF Discard
  <2>2. AddUp(t) => AddUp(t)' BY <1>2, <2>1 DEF AddUp, InKernel
  <2>3. PendInOrder(t)' /\ Stopped(t)' BY <1>1, <1>2, <2>1 DEF InOrder, PendInOrder, Stopped
  <2>4. ASSUME priv[t].urbs, priv[t].action = "normal" /\ ~Discarding(t)' => pend'[t] = <<>>
        PROVE  DoneInPlace(t)'
    <3>1. DoneInPlace(t) BY <1>1, <2>4 DEF InOrder
    <3>2. priv'[t].action = "normal" /\ ~Discarding(t)' => DOMAIN pend'[t] = {} BY <2>4
    <3>3. QED BY <1>2, <2>1, <3>1, <3>2 DEF DoneInPlace
  <2>5. \A k \in DOMAIN pend[t] : pend[t][k] # i
    BY <1>1, <1>4, LenProperties DEF Contains, Fields
  <2>6. QED BY <1>1, <2>1, <2>2, <2>3, <2>4, <2>5, SameWithin DEF InOrder
<1>5. QED BY <1>3, <1>4

\* A discarded URB is to be reaped instead of under way.
LEMMA UserDiscardAddsUp ==
  ASSUME FlyingInv, EarnedInv, AddUpInv, Reaping, NEW t \in Transfers, UserDiscards(t), UNCHANGED fixed
  PROVE  \A u \in Transfers : Whole(u)'
<1>1. /\ Fields /\ InOrder(t) /\ (priv[t].urbs \/ Steady(t) => AddUp(t))
      /\ user[t].op = "discard"
  BY DEF EarnedInv, AddUpInv, UserDiscards, Whole
<1>2. /\ UNCHANGED <<type, continuation, priv, handler, cut, connected, fault>> /\ Discard(t, user[t].i)
      /\ user' = [user EXCEPT ![t] = IF user[t].i = 1 THEN Idle ELSE [@ EXCEPT !.i = @ - 1]]
  BY DEF UserDiscards, fixed
<1>3. user'[t].op # "submit" /\ \A u \in Transfers \ {t} : user'[u] = user[u]
  BY <1>1, <1>2 DEF FlyingInv, Shapes, Idle
<1>4. priv[t].action # "normal" /\ ~Discarding(t) /\ ~Discarding(t)'
  BY <1>1, <1>2 DEF InOrder, CallsInOrder, Idle, Discarding
<1>5. /\ AddUp(t) => AddUp(t)'
      /\ PendInOrder(t)' /\ Stopped(t)' /\ (priv[t].urbs => DoneInPlace(t)')
      /\ ~connected' => pend'[t] = <<>>
      /\ pend[t] = <<>> => UNCHANGED <<done, pend>>
      /\ \A u \in Transfers \ {t} : /\ pend'[u] = pend[u]
           /\ Within(done, done', u) /\ done' \in Seq(Range(done'))
           /\ Cardinality(UrbsOf(done', u)) = Cardinality(UrbsOf(done, u))
  BY <1>1, <1>2, <1>3, <1>4, DiscardAddsUp
<1>6. CallsInOrder(t)' BY <1>1, <1>2, <1>3, <1>4 DEF InOrder, CallsInOrder
<1>7. InOrder(t)' BY <1>1, <1>2, <1>5, <1>6 DEF InOrder
<1>8. Whole(t)'
  <2>1. Steady(t)' => Steady(t) BY <1>2 DEF Steady, Known
  <2>2. DoneInOrder(t)' BY <1>2, <1>4 DEF DoneInOrder
  <2>3. QED BY <1>1, <1>2, <1>5, <1>7, <2>1, <2>2 DEF Whole
<1>9. ASSUME NEW u \in Transfers \ {t} PROVE Whole(u)'
  <2>1. Whole(u) BY DEF AddUpInv
  <2>2. QED BY <1>1, <1>2, <1>3, <1>5, <2>1, OthersAddUp
<1>10. QED BY <1>8, <1>9

\* The handler goes from the last URB to the one behind that which made it discard.
LEMMA HandlerDiscardAddsUp ==
  ASSUME FlyingInv, EarnedInv, AddUpInv, Reaping, HandlerDiscards, UNCHANGED fixed
  PROVE  \A u \in Transfers : Whole(u)'
<1>1. PICK t \in Transfers : Discarding(t) BY DEF HandlerDiscards, FlyingInv, Discarding
<1>2. /\ Fields /\ InOrder(t) /\ (priv[t].urbs \/ Steady(t) => AddUp(t)) /\ (Steady(t) => DoneInOrder(t))
  BY DEF EarnedInv, AddUpInv, Whole
<1>3. /\ UNCHANGED <<type, continuation, priv, user, cut, connected, fault>> /\ Discard(t, handler.i)
      /\ handler' = IF handler.i = handler.low THEN Poll ELSE [handler EXCEPT !.i = @ - 1]
  BY <1>1 DEF HandlerDiscards, fixed, Discarding
<1>4. /\ handler.op = "discard" /\ handler.t = t /\ user[t] = Idle /\ priv[t].urbs
      /\ {"i", "low"} \subseteq DOMAIN handler /\ handler.i \in Int /\ handler.low \in Int
      /\ \A k \in DOMAIN pend[t] : pend[t][k] \in handler.low .. handler.i
  BY <1>1, <1>2 DEF InOrder, CallsInOrder, Discarding
<1>5. /\ handler' = Poll \/ (handler'.op = "discard" /\ handler'.t = t /\ DOMAIN handler' = DOMAIN handler
                              /\ handler'.i = handler.i - 1 /\ handler'.low = handler.low)
      /\ handler' = Poll => handler.i = handler.low
  BY <1>3, <1>4 DEF FlyingInv, Shapes, Poll
<1>6. /\ AddUp(t) => AddUp(t)'
      /\ PendInOrder(t)' /\ Stopped(t)'
      /\ (priv[t].action = "normal" /\ ~Discarding(t)' => pend'[t] = <<>>) => DoneInPlace(t)'
      /\ ~connected' => pend'[t] = <<>>
      /\ pend[t] = <<>> => UNCHANGED <<done, pend>>
      /\ \A k \in DOMAIN pend'[t] : pend'[t][k] # handler.i /\ \E j \in DOMAIN pend[t] : pend'[t][k] = pend[t][j]
      /\ \A u \in Transfers \ {t} : /\ pend'[u] = pend[u]
           /\ Within(done, done', u) /\ done' \in Seq(Range(done'))
           /\ Cardinality(UrbsOf(done', u)) = Cardinality(UrbsOf(done, u))
  BY <1>1, <1>3, <1>4, DiscardAddsUp DEF Idle
<1>7. \A k \in DOMAIN pend'[t] : pend'[t][k] \in handler.low .. handler.i - 1
  <2>1. \A k \in DOMAIN pend'[t] : pend'[t][k] \in handler.low .. handler.i /\ pend'[t][k] # handler.i
    BY <1>4, <1>6
  <2>2. QED BY <1>4, <2>1
<1>8. ~Discarding(t)' => pend'[t] = <<>>
  <2>1. ~Discarding(t)' => handler.i = handler.low BY <1>5 DEF Discarding
  <2>2. ~Discarding(t)' => DOMAIN pend'[t] = {} BY <1>4, <1>7, <2>1
  <2>3. pend'[t] = <<>> \/ DOMAIN pend'[t] # {}
    <3>1. pend[t] \in Seq(Range(pend[t])) BY <1>2 DEF Fields
    <3>2. CASE pend[t] = <<>> BY <1>6, <3>2
    <3>3. CASE pend[t] # <<>> /\ Contains(pend[t], handler.i)
      <4>1. PICK p \in DOMAIN pend[t] : pend'[t] = RemoveAt(pend[t], p)
        <5> DEFINE p == CHOOSE k \in DOMAIN pend[t] : pend[t][k] = handler.i
        <5>1. p \in DOMAIN pend[t] BY <3>1, <3>3, LenProperties DEF Contains
        <5>2. pend' = [pend EXCEPT ![t] = RemoveAt(@, p)] BY <1>3, <3>3 DEF Discard
        <5> HIDE DEF p
        <5>3. QED BY <1>2, <5>1, <5>2 DEF Fields
      <4> DEFINE s == RemoveAt(pend[t], p)
      <4>2. pend'[t] = s /\ s \in Seq(Range(s)) BY <3>1, <4>1, RangeOfRemoval
      <4> HIDE DEF s
      <4>3. Len(s) \in Nat /\ DOMAIN s = 1 .. Len(s) /\ (Len(s) = 0 <=> s = <<>>) BY <4>2, LenProperties, EmptySeq
      <4>4. s = <<>> \/ 1 \in DOMAIN s BY <4>3
      <4>5. QED BY <4>2, <4>4
    <3>4. CASE pend[t] # <<>> /\ ~Contains(pend[t], handler.i)
      BY <1>3, <3>1, <3>4, LenProperties, EmptySeq DEF Discard
    <3>5. QED BY <3>2, <3>3, <3>4
  <2>4. QED BY <2>2, <2>3
<1>9. CallsInOrder(t)'
  <2>1. CallsInOrder(t) BY <1>2 DEF InOrder
  <2>2. ASSUME Discarding(t)'
        PROVE  /\ {"i", "low"} \subseteq DOMAIN handler' /\ handler'.i \in Int /\ handler'.low \in Int
               /\ \A k \in DOMAIN pend'[t] : pend'[t][k] \in handler'.low .. handler'.i
    <3>1. /\ DOMAIN handler' = DOMAIN handler /\ handler'.i = handler.i - 1 /\ handler'.low = handler.low
      BY <1>5, <2>2 DEF Discarding, Poll
    <3>2. QED BY <1>4, <1>7, <3>1
  <2>3. QED BY <1>3, <1>4, <2>1, <2>2 DEF CallsInOrder, Idle
<1>10. InOrder(t)' BY <1>3, <1>4, <1>6, <1>8, <1>9 DEF InOrder
<1>11. Steady(t)' => DoneInOrder(t)'
  <2>1. Steady(t)' => Steady(t) BY <1>3, <1>4 DEF Steady, Known
  <2>2. DoneInOrder(t) => DoneInOrder(t)' BY <1>1, <1>3, <1>4, <1>6 DEF DoneInOrder, Ascending
  <2>3. QED BY <1>2, <2>1, <2>2
<1>12. Whole(t)' BY <1>2, <1>4, <1>6, <1>10, <1>11 DEF Whole
<1>13. ASSUME NEW u \in Transfers \ {t} PROVE Whole(u)'
  <2>1. Whole(u) BY DEF AddUpInv
  <2>2. ~Discarding(u) /\ ~Discarding(u)' BY <1>4, <1>5 DEF Discarding, Poll
  <2>3. handler'.op # "report" BY <1>5 DEF Poll
  <2>4. QED BY <1>2, <1>3, <1>6, <2>1, <2>2, <2>3, OthersAddUp
<1>14. QED BY <1>12, <1>13

\* A timeout starts discarding and moves no URB.
LEMMA ExpireAddsUp ==
  ASSUME FlyingInv, EarnedInv, AddUpInv, Reaping, NEW t \in Transfers, Expire(t), UNCHANGED fixed
  PROVE  \A u \in Transfers : Whole(u)'
<1>1. Fields /\ UNCHANGED <<fixed, priv, user, handler, pend, done, cut, connected, fault>>
  BY DEF EarnedInv, Expire, kernel
<1>2. ASSUME NEW u \in Transfers PROVE Whole(u)'
  <2>1. Whole(u) BY DEF AddUpInv
  <2>2. QED BY <1>1, <2>1, SameWithin, OthersAddUp DEF fixed
<1>3. QED BY <1>2

\* An URB comes back; if it stops the endpoint, those behind it come with it.
Comes(t, r) ==
  /\ done' = done \o r /\ r \in Seq(Range(r)) /\ r # <<>> /\ Len(r) + Len(pend'[t]) = Len(pend[t])
  /\ \A k \in 1 .. Len(r) : /\ r[k].t = t /\ r[k].i = pend[t][k]
                            /\ r[k].code = "overflow" => r[k].i = priv[t].n
  /\ \A k \in 1 .. Len(pend'[t]) : pend'[t][k] = pend[t][Len(r) + k]
  /\ \A u \in Transfers \ {t} : pend'[u] = pend[u]
  /\ \A u \in Transfers : u \in cut => u \in cut'
  /\ continuation /\ type[t] \in {"bulk", "interrupt"} =>
       \/ pend'[t] = <<>> /\ t \in cut'
       \/ \A k \in 1 .. Len(r) : r[k].code = "ok"
  /\ \A k \in 2 .. Len(r) : r[k].code = "remote" /\ r[k].n = 0
  /\ \A k \in 1 .. Len(r) : r[k] = [t |-> t, i |-> pend[t][k], code |-> r[k].code, n |-> r[k].n]
  /\ Len(r) = 1 \/ (continuation /\ type[t] \in {"bulk", "interrupt"})
  /\ \E a \in Answers(t, pend[t][1]) :
       /\ r[1].code = a.code /\ r[1].n = a.n
       /\ buf' = [buf EXCEPT ![t] = Filled(@, Offset(t, pend[t][1]), sent[t], a.n)]
       /\ sent' = [sent EXCEPT ![t] = @ + a.n]
       /\ fault' = [fault EXCEPT ![t] = @ \cup ({a.code} \cap Faults)]

\* Whatever the kernel answers is URBs of one transfer, from the first
\* under way on.
LEMMA AnswerComes == ASSUME Fields, NEW t \in Transfers, UrbCompletes(t) PROVE \E r : Comes(t, r)
<1> DEFINE stops(a) == a.code # "ok" /\ continuation /\ type[t] \in {"bulk", "interrupt"}
           rest(a) == IF stops(a) THEN [k \in 1 .. Len(pend[t]) - 1 |->
                                          [t |-> t, i |-> pend[t][k + 1], code |-> "remote", n |-> 0]]
                      ELSE <<>>
           urb(i, a) == [t |-> t, i |-> i, code |-> a.code, n |-> a.n]
           Joins(i, a) == /\ done' = Append(done, urb(i, a)) \o rest(a)
                          /\ pend' = [pend EXCEPT ![t] = IF stops(a) THEN <<>> ELSE Tail(@)]
                          /\ cut' = IF stops(a) THEN cut \cup {t} ELSE cut
           Lands(i, a) == /\ buf' = [buf EXCEPT ![t] = Filled(@, Offset(t, i), sent[t], a.n)]
                          /\ sent' = [sent EXCEPT ![t] = @ + a.n]
                          /\ fault' = [fault EXCEPT ![t] = @ \cup ({a.code} \cap Faults)]
<1>1. PICK a \in Answers(t, Head(pend[t])) : Joins(Head(pend[t]), a) /\ Lands(Head(pend[t]), a) BY DEF UrbCompletes
<1>2. pend[t] # <<>> /\ pend[t] \in Seq(Range(pend[t])) /\ done \in Seq(Range(done)) /\ DOMAIN pend = Transfers
  BY DEF UrbCompletes, Fields
<1>3. /\ Len(pend[t]) \in Nat \ {0} /\ Head(pend[t]) = pend[t][1] /\ Len(Tail(pend[t])) = Len(pend[t]) - 1
      /\ \A k \in 1 .. Len(pend[t]) - 1 : Tail(pend[t])[k] = pend[t][k + 1]
  BY <1>2, LenProperties, EmptySeq, HeadTailProperties
<1>4. a.code = "overflow" => pend[t][1] = priv[t].n BY <1>1, <1>3 DEF Answers
<1> DEFINE i == Head(pend[t])  r == <<urb(i, a)>> \o rest(a)
<1>5. /\ rest(a) \in Seq(Range(rest(a))) /\ Len(rest(a)) = IF stops(a) THEN Len(pend[t]) - 1 ELSE 0
      /\ \A k \in 1 .. Len(rest(a)) :
           /\ rest(a)[k].t = t /\ rest(a)[k].code = "remote" /\ rest(a)[k].i = pend[t][k + 1]
           /\ rest(a)[k].n = 0 /\ rest(a)[k] = [t |-> t, i |-> pend[t][k + 1], code |-> "remote", n |-> 0]
  <2>1. CASE stops(a)
    <3> DEFINE m == Len(pend[t]) - 1
               f(k) == [t |-> t, i |-> pend[t][k + 1], code |-> "remote", n |-> 0]
    <3>1. rest(a) = [k \in 1 .. m |-> f(k)] BY <2>1
    <3>2. m \in Nat BY <1>3
    <3>3. \A k \in 1 .. m : f(k).t = t /\ f(k).code = "remote" /\ f(k).i = pend[t][k + 1] /\ f(k).n = 0
                           /\ f(k) = [t |-> t, i |-> pend[t][k + 1], code |-> "remote", n |-> 0]
      OBVIOUS
    <3> HIDE DEF m, f, rest
    <3>4. rest(a) \in [1 .. m -> Range(rest(a))] BY <3>1 DEF Range
    <3>5. rest(a) \in Seq(Range(rest(a))) /\ Len(rest(a)) = m
      <4>1. rest(a) \in Seq(Range(rest(a))) BY <3>2, <3>4, SeqDef
      <4>2. DOMAIN rest(a) = 1 .. m BY <3>1
      <4>3. QED BY <3>2, <4>1, <4>2, LenProperties
    <3>6. \A k \in 1 .. m : rest(a)[k] = f(k) BY <3>1
    <3>7. \A k \in 1 .. m : /\ rest(a)[k].t = t /\ rest(a)[k].code = "remote" /\ rest(a)[k].i = pend[t][k + 1]
                           /\ rest(a)[k].n = 0
                           /\ rest(a)[k] = [t |-> t, i |-> pend[t][k + 1], code |-> "remote", n |-> 0]
      BY <3>3, <3>6
    <3>8. Len(rest(a)) = IF stops(a) THEN Len(pend[t]) - 1 ELSE 0 BY <2>1, <3>5 DEF m
    <3>9. QED BY <3>5, <3>7, <3>8
  <2>2. CASE ~stops(a)
    <3>1. rest(a) = <<>> BY <2>2
    <3>2. QED BY <2>2, <3>1 DEF Range
  <2>3. QED BY <2>1, <2>2
<1>6. done' = Append(done, urb(i, a)) \o rest(a) BY <1>1
<1>7. urb(i, a).t = t /\ urb(i, a).i = pend[t][1] /\ urb(i, a).code = a.code /\ urb(i, a).n = a.n
      /\ urb(i, a) = [t |-> t, i |-> pend[t][1], code |-> a.code, n |-> a.n]
  BY <1>3
<1>8. pend'[t] = (IF stops(a) THEN <<>> ELSE Tail(pend[t])) /\ \A u \in Transfers \ {t} : pend'[u] = pend[u]
  BY <1>1, <1>2
<1>9. /\ \A u \in Transfers : u \in cut => u \in cut'
      /\ stops(a) => t \in cut'
  BY <1>1
<1>10. /\ ~stops(a) /\ continuation /\ type[t] \in {"bulk", "interrupt"} => a.code = "ok"
       /\ stops(a) => continuation /\ type[t] \in {"bulk", "interrupt"}
  OBVIOUS
<1>19. a \in Answers(t, pend[t][1]) /\ Lands(pend[t][1], a) BY <1>1, <1>3
<1> HIDE DEF i, urb, rest, stops, Joins
<1> DEFINE S == UNION {Range(done), Range(rest(a)), {urb(i, a)}}
<1>11. done \in Seq(S) /\ rest(a) \in Seq(S) /\ urb(i, a) \in S BY <1>2, <1>5, SeqMonotonic
<1> HIDE DEF S
<1>12. /\ r \in Seq(S) /\ Len(r) = Len(rest(a)) + 1 /\ r[1] = urb(i, a) /\ Len(rest(a)) \in Nat
       /\ \A k \in 1 .. Len(rest(a)) : r[k + 1] = rest(a)[k]
  <2> DEFINE one == <<urb(i, a)>>
  <2>1. one \in Seq(S) /\ Len(one) = 1 /\ one[1] = urb(i, a) BY <1>11
  <2> HIDE DEF one
  <2>2. Len(rest(a)) \in Nat BY <1>5, LenProperties
  <2>3. /\ one \o rest(a) \in Seq(S) /\ Len(one \o rest(a)) = Len(one) + Len(rest(a))
        /\ \A k \in 1 .. Len(one) + Len(rest(a)) :
             (one \o rest(a))[k] = IF k <= Len(one) THEN one[k] ELSE rest(a)[k - Len(one)]
    BY <1>11, <2>1, ConcatProperties
  <2>4. QED BY <2>1, <2>2, <2>3 DEF one
<1>13. done' = done \o r
  <2> DEFINE one == <<urb(i, a)>>
  <2>1. one \in Seq(S) BY <1>11
  <2>2. Append(done, urb(i, a)) = done \o one BY <1>11, AppendIsConcat
  <2> HIDE DEF one
  <2>3. (done \o one) \o rest(a) = done \o (one \o rest(a)) BY <1>11, <2>1, ConcatAssociative
  <2>4. QED BY <1>6, <2>2, <2>3 DEF one
<1> HIDE DEF r
<1>14. r \in Seq(Range(r)) /\ r # <<>> BY <1>12, SeqOfRange, EmptySeq
<1>15. \A k \in 1 .. Len(r) : k = 1 \/ (k - 1 \in 1 .. Len(rest(a)) /\ r[k] = rest(a)[k - 1])
  <2> SUFFICES ASSUME NEW k \in 1 .. Len(r), k # 1 PROVE k - 1 \in 1 .. Len(rest(a)) /\ r[k] = rest(a)[k - 1]
    OBVIOUS
  <2>1. k - 1 \in 1 .. Len(rest(a)) /\ (k - 1) + 1 = k BY <1>12
  <2>2. QED BY <1>12, <2>1
<1>16. \A k \in 1 .. Len(r) : /\ r[k].t = t /\ r[k].i = pend[t][k]
                              /\ r[k].code = "overflow" => r[k].i = priv[t].n
  <2> SUFFICES ASSUME NEW k \in 1 .. Len(r)
               PROVE  r[k].t = t /\ r[k].i = pend[t][k] /\ (r[k].code = "overflow" => r[k].i = priv[t].n)
    OBVIOUS
  <2>1. CASE k = 1 BY <1>4, <1>7, <1>12, <2>1
  <2>2. CASE k # 1
    <3>1. k - 1 \in 1 .. Len(rest(a)) /\ r[k] = rest(a)[k - 1] /\ (k - 1) + 1 = k BY <1>12, <1>15, <2>2
    <3>2. QED BY <1>5, <3>1
  <2>3. QED BY <2>1, <2>2
<1>17. /\ Len(r) + Len(pend'[t]) = Len(pend[t])
       /\ \A k \in 1 .. Len(pend'[t]) : pend'[t][k] = pend[t][Len(r) + k]
       /\ continuation /\ type[t] \in {"bulk", "interrupt"} =>
            \/ pend'[t] = <<>> /\ t \in cut'
            \/ \A k \in 1 .. Len(r) : r[k].code = "ok"
       /\ Len(r) = 1 \/ (continuation /\ type[t] \in {"bulk", "interrupt"})
  <2>1. CASE stops(a)
    <3>1. pend'[t] = <<>> /\ Len(pend'[t]) = 0 BY <1>8, <2>1
    <3>2. QED BY <1>3, <1>5, <1>9, <1>10, <1>12, <2>1, <3>1
  <2>2. CASE ~stops(a)
    <3>1. pend'[t] = Tail(pend[t]) /\ Len(r) = 1 BY <1>5, <1>8, <1>12, <2>2
    <3>2. \A k \in 1 .. Len(r) : k = 1 BY <3>1
    <3>3. \A k \in 1 .. Len(r) : r[k].code = a.code BY <1>7, <1>12, <3>2
    <3>4. \A k \in 1 .. Len(pend'[t]) : pend'[t][k] = pend[t][1 + k] BY <1>3, <3>1
    <3>5. QED BY <1>3, <1>10, <2>2, <3>1, <3>3, <3>4
  <2>3. QED BY <2>1, <2>2
<1>18. \A k \in 2 .. Len(r) : r[k].code = "remote" /\ r[k].n = 0
  <2> SUFFICES ASSUME NEW k \in 2 .. Len(r) PROVE r[k].code = "remote" /\ r[k].n = 0 OBVIOUS
  <2>1. k - 1 \in 1 .. Len(rest(a)) /\ r[k] = rest(a)[k - 1] BY <1>12, <1>15
  <2>2. QED BY <1>5, <2>1
<1>20. r[1].code = a.code /\ r[1].n = a.n BY <1>7, <1>12
<1>21. \A k \in 1 .. Len(r) : r[k] = [t |-> t, i |-> pend[t][k], code |-> r[k].code, n |-> r[k].n]
  <2> SUFFICES ASSUME NEW k \in 1 .. Len(r)
               PROVE  r[k] = [t |-> t, i |-> pend[t][k], code |-> r[k].code, n |-> r[k].n]
    OBVIOUS
  <2>1. CASE k = 1 BY <1>7, <1>12, <2>1
  <2>2. CASE k # 1
    <3>1. k - 1 \in 1 .. Len(rest(a)) /\ r[k] = rest(a)[k - 1] /\ (k - 1) + 1 = k BY <1>12, <1>15, <2>2
    <3>2. rest(a)[k - 1] = [t |-> t, i |-> pend[t][k], code |-> "remote", n |-> 0] BY <1>5, <3>1
    <3>3. QED BY <3>1, <3>2
  <2>3. QED BY <2>1, <2>2
<1>22. QED BY <1>8, <1>9, <1>13, <1>14, <1>16, <1>17, <1>18, <1>19, <1>20, <1>21 DEF Comes

\* The first URBs under way come back, behind those to be reaped.
LEMMA ReturnAddsUp ==
  ASSUME Fields, NEW t \in Transfers, Whole(t),
         UNCHANGED <<type, continuation, priv, user, handler>>, fault[t] \subseteq fault'[t],
         connected' = FALSE => pend'[t] = <<>> \/ connected = FALSE,
         connected' \in BOOLEAN, connected \in BOOLEAN,
         pend'[t] \in Seq(Range(pend'[t])),
         NEW r, r \in Seq(Range(r)), done' = done \o r,
         Cardinality(UrbsOf(r, t)) + Len(pend'[t]) = Len(pend[t]),
         Ascending(r, t),
         \A k \in UrbsOf(r, t) : /\ r[k].i \in Range(pend[t])
                                 /\ r[k].code = "overflow" => r[k].i = priv[t].n
                                 /\ \A j \in DOMAIN pend'[t] : r[k].i < pend'[t][j],
         \A k \in DOMAIN pend'[t] : /\ pend'[t][k] \in Range(pend[t])
                                    /\ \A j \in DOMAIN pend'[t] : j < k => pend'[t][j] < pend'[t][k],
         t \in cut => t \in cut',
         continuation /\ type[t] \in {"bulk", "interrupt"} =>
           \A k \in UrbsOf(r, t) : r[k].code \in {"remote", "stall", "proto", "overflow"} => pend'[t] = <<>> /\ t \in cut'
  PROVE  Whole(t)'
<1> DEFINE R == {k \in Len(done) + 1 .. Len(done) + Len(r) : r[k - Len(done)].t = t}
<1>1. /\ UrbsOf(done', t) = UrbsOf(done, t) \cup R
      /\ Cardinality(UrbsOf(done', t)) = Cardinality(UrbsOf(done, t)) + Cardinality(UrbsOf(r, t))
      /\ \A k \in 1 .. Len(done) : done'[k] = done[k]
      /\ \A k \in Len(done) + 1 .. Len(done) + Len(r) : done'[k] = r[k - Len(done)]
  BY UrbsOfConcat DEF Fields
<1>2. /\ Len(done) \in Nat /\ UrbsOf(done, t) \subseteq 1 .. Len(done) /\ Cardinality(UrbsOf(done, t)) \in Nat
      /\ Len(r) \in Nat /\ DOMAIN r = 1 .. Len(r) /\ UrbsOf(r, t) \subseteq 1 .. Len(r)
      /\ Cardinality(UrbsOf(r, t)) \in Nat
  BY UrbsOfFinite DEF Fields
<1>3. /\ Len(pend[t]) \in Nat /\ Len(pend'[t]) \in Nat /\ (Len(pend[t]) = 0 <=> pend[t] = <<>>)
      /\ (Len(pend'[t]) = 0 <=> pend'[t] = <<>>)
  BY LenProperties, EmptySeq DEF Fields
<1>4. /\ \A k \in UrbsOf(done, t) : done'[k] = done[k]
      /\ \A k \in R : k - Len(done) \in UrbsOf(r, t) /\ done'[k] = r[k - Len(done)] /\ k \in Nat /\ k > Len(done)
  BY <1>1, <1>2 DEF UrbsOf
<1> HIDE DEF R
<1>5. AddUp(t) => AddUp(t)'
  <2>1. InKernel(t)' = InKernel(t) BY <1>1, <1>2, <1>3 DEF InKernel
  <2>2. QED BY <2>1 DEF AddUp, Ahead
<1>6. InOrder(t) /\ (Discarding(t)' <=> Discarding(t)) BY DEF Whole, Discarding
<1>7. CallsInOrder(t)'
  <2>1. CallsInOrder(t) BY <1>6 DEF InOrder
  <2>2. ASSUME NEW a, NEW b, \A k \in DOMAIN pend[t] : pend[t][k] \in a .. b
        PROVE  \A k \in DOMAIN pend'[t] : pend'[t][k] \in a .. b
    BY <2>2 DEF Range
  <2>3. Discarding(t) => \A k \in DOMAIN pend'[t] : pend'[t][k] \in handler.low .. handler.i
    BY <2>1, <2>2 DEF CallsInOrder
  <2>4. QED BY <1>6, <2>1, <2>3 DEF CallsInOrder
<1>8. PendInOrder(t)' BY <1>6 DEF InOrder, PendInOrder, Highest, Range
<1>9. Stopped(t)'
  <2> SUFFICES ASSUME continuation, type[t] \in {"bulk", "interrupt"}, NEW k \in UrbsOf(done', t),
                      done'[k].code \in {"remote", "stall", "proto", "overflow"}
               PROVE  pend'[t] = <<>> /\ t \in cut'
    BY DEF Stopped
  <2>1. CASE k \in UrbsOf(done, t) BY <1>2, <1>3, <1>4, <1>6, <2>1 DEF InOrder, Stopped
  <2>2. CASE k \in R BY <1>4, <2>2
  <2>3. QED BY <1>1, <2>1, <2>2
<1>10. ASSUME priv[t].urbs PROVE DoneInPlace(t)'
  <2>1. DoneInPlace(t) /\ PendInOrder(t) BY <1>6, <1>10 DEF InOrder
  <2>2. ASSUME NEW k \in UrbsOf(done', t)
        PROVE  /\ done'[k].i \in 1 .. Highest(t)
               /\ done'[k].code = "overflow" => done'[k].i = priv[t].n
               /\ priv[t].action = "normal" /\ ~Discarding(t) => \A j \in DOMAIN pend'[t] : done'[k].i < pend'[t][j]
    <3>1. CASE k \in UrbsOf(done, t) BY <1>4, <2>1, <3>1 DEF DoneInPlace, Range
    <3>2. CASE k \in R
      <4>1. \A x \in Range(pend[t]) : x \in 1 .. Highest(t) BY <2>1 DEF PendInOrder, Range
      <4>2. QED BY <1>4, <3>2, <4>1
    <3>3. QED BY <1>1, <3>1, <3>2
  <2>3. QED BY <1>6, <2>2 DEF DoneInPlace, Highest
<1>11. ASSUME DoneInOrder(t), priv[t].urbs, priv[t].action = "normal"
       PROVE  Ascending(done', t) /\ (Discarding(t) => pend'[t] = <<>>)
  <2>1. /\ DoneInPlace(t) /\ PendInOrder(t) /\ Ascending(done, t)
        /\ Discarding(t) => pend[t] = <<>> /\ Range(pend[t]) = {}
    BY <1>6, <1>11 DEF InOrder, DoneInOrder, Range
  <2>2. ASSUME NEW j \in UrbsOf(done', t), NEW k \in UrbsOf(done', t), j < k PROVE done'[j].i < done'[k].i
    <3>1. CASE k \in UrbsOf(done, t)
      <4>1. j \in UrbsOf(done, t) BY <1>1, <1>2, <1>4, <2>2, <3>1
      <4>2. QED BY <1>4, <2>1, <2>2, <3>1, <4>1 DEF Ascending
    <3>2. CASE j \in UrbsOf(done, t) /\ k \in R
      <4>1. done'[k].i \in Range(pend[t]) BY <1>4, <3>2
      <4>2. ~Discarding(t) BY <2>1, <4>1
      <4>3. done'[j] = done[j] /\ \A l \in DOMAIN pend[t] : done[j].i < pend[t][l]
        BY <1>4, <1>11, <2>1, <3>2, <4>2 DEF DoneInPlace
      <4>4. QED BY <4>1, <4>3 DEF Range
    <3>3. CASE j \in R /\ k \in R
      <4>1. j - Len(done) < k - Len(done) BY <1>2, <1>4, <2>2, <3>3
      <4>2. QED BY <1>4, <3>3, <4>1 DEF Ascending
    <3>4. QED BY <1>1, <3>1, <3>2, <3>3
  <2>3. Discarding(t) => pend'[t] = <<>> BY <1>2, <1>3, <2>1
  <2>4. QED BY <2>2, <2>3 DEF Ascending
<1>12. ~connected' => pend'[t] = <<>> BY <1>2, <1>3, <1>6 DEF InOrder
<1>13. ~priv[t].urbs => pend'[t] = <<>> BY <1>2, <1>3, <1>6 DEF InOrder
<1>14. InOrder(t)' BY <1>7, <1>8, <1>9, <1>10, <1>12, <1>13 DEF InOrder
<1>15. (Steady(t)' => Steady(t)) BY DEF Steady, Known
<1>16. DoneInOrder(t) => DoneInOrder(t)' BY <1>6, <1>11 DEF DoneInOrder
<1>17. QED BY <1>5, <1>14, <1>15, <1>16 DEF Whole

\* URBs that all belong to t.
LEMMA AllOfOne ==
  ASSUME NEW r, r \in Seq(Range(r)), NEW t, \A k \in 1 .. Len(r) : r[k].t = t
  PROVE  UrbsOf(r, t) = 1 .. Len(r) /\ Cardinality(UrbsOf(r, t)) = Len(r)
<1>1. Len(r) \in Nat /\ DOMAIN r = 1 .. Len(r) BY LenProperties
<1>2. UrbsOf(r, t) = 1 .. Len(r) BY <1>1 DEF UrbsOf
<1>3. Cardinality(1 .. Len(r)) = Len(r) BY <1>1, FS_Interval
<1>4. QED BY <1>2, <1>3

\* URBs that complete are to be reaped instead of under way.
LEMMA AnswerAddsUp ==
  ASSUME FlyingInv, EarnedInv, AddUpInv, Reaping, NEW t \in Transfers, UrbCompletes(t), UNCHANGED fixed
  PROVE  \A u \in Transfers : Whole(u)'
<1>1. Fields /\ Whole(t) /\ InOrder(t) BY DEF EarnedInv, AddUpInv, Whole
<1>2. /\ UNCHANGED <<type, continuation, priv, user, handler, connected>>
      /\ \A u \in Transfers : fault[u] \subseteq fault'[u]
  <2>1. \E a : fault' = [fault EXCEPT ![t] = @ \cup ({a.code} \cap Faults)] BY DEF UrbCompletes
  <2>2. QED BY <1>1, <2>1 DEF UrbCompletes, fixed, Fields
<1>3. Fields' BY AnswerEarns DEF EarnedInv
<1>0. PICK r : Comes(t, r) BY <1>1, AnswerComes
<1>4. /\ done' = done \o r /\ r \in Seq(Range(r)) /\ r # <<>> /\ Len(r) + Len(pend'[t]) = Len(pend[t])
      /\ \A k \in 1 .. Len(r) : /\ r[k].t = t /\ r[k].i = pend[t][k]
                                /\ r[k].code = "overflow" => r[k].i = priv[t].n
      /\ \A k \in 1 .. Len(pend'[t]) : pend'[t][k] = pend[t][Len(r) + k]
      /\ \A u \in Transfers \ {t} : pend'[u] = pend[u]
      /\ \A u \in Transfers : u \in cut => u \in cut'
      /\ continuation /\ type[t] \in {"bulk", "interrupt"} =>
           \/ pend'[t] = <<>> /\ t \in cut'
           \/ \A k \in 1 .. Len(r) : r[k].code = "ok"
  BY <1>0 DEF Comes
<1>5. /\ Len(pend[t]) \in Nat /\ Len(pend'[t]) \in Nat /\ Len(r) \in Nat /\ DOMAIN r = 1 .. Len(r)
      /\ DOMAIN pend[t] = 1 .. Len(pend[t]) /\ DOMAIN pend'[t] = 1 .. Len(pend'[t])
  BY <1>1, <1>3, <1>4, LenProperties DEF Fields
<1>6. UrbsOf(r, t) = 1 .. Len(r) /\ Cardinality(UrbsOf(r, t)) = Len(r) BY <1>4, AllOfOne
<1>7. PendInOrder(t) BY <1>1 DEF InOrder
<1> DEFINE p == pend[t]  q == pend'[t]  m == Len(r)  n == Len(pend'[t])
<1>8. /\ \A j, k \in 1 .. m : j < k => r[j].i < r[k].i
      /\ \A k \in 1 .. m : (\E j \in 1 .. m + n : r[k].i = p[j]) /\ \A j \in 1 .. n : r[k].i < q[j]
      /\ \A k \in 1 .. n : (\E j \in 1 .. m + n : q[k] = p[j]) /\ \A j \in 1 .. n : j < k => q[j] < q[k]
  <2>1. m \in Nat /\ n \in Nat /\ 1 .. m + n = DOMAIN p BY <1>4, <1>5
  <2>2. \A k \in 1 .. m + n : \A j \in 1 .. m + n : j < k => p[j] < p[k] BY <1>7, <2>1 DEF PendInOrder
  <2>3. (\A k \in 1 .. m : r[k].i = p[k]) /\ (\A k \in 1 .. n : q[k] = p[m + k]) BY <1>4
  <2> HIDE DEF p, q, m, n
  <2>4. \A k \in 1 .. m : k \in 1 .. m + n BY <2>1
  <2>5. \A k \in 1 .. n : m + k \in 1 .. m + n BY <2>1
  <2>6. \A j, k \in 1 .. m : j < k => r[j].i < r[k].i BY <2>2, <2>3, <2>4
  <2>7. ASSUME NEW k \in 1 .. m
        PROVE  (\E j \in 1 .. m + n : r[k].i = p[j]) /\ \A j \in 1 .. n : r[k].i < q[j]
    <3>1. k \in 1 .. m + n /\ r[k].i = p[k] BY <2>3, <2>4
    <3>2. \A j \in 1 .. n : q[j] = p[m + j] /\ m + j \in 1 .. m + n /\ k < m + j BY <2>1, <2>3, <2>5
    <3>3. QED BY <2>2, <3>1, <3>2
  <2>8. ASSUME NEW k \in 1 .. n
        PROVE  (\E j \in 1 .. m + n : q[k] = p[j]) /\ \A j \in 1 .. n : j < k => q[j] < q[k]
    <3>1. q[k] = p[m + k] /\ m + k \in 1 .. m + n BY <2>3, <2>5
    <3>2. \A j \in 1 .. n : q[j] = p[m + j] /\ m + j \in 1 .. m + n /\ (j < k => m + j < m + k) BY <2>1, <2>3, <2>5
    <3>3. QED BY <2>2, <3>1, <3>2
  <2>9. QED BY <2>6, <2>7, <2>8
<1>9. 1 .. m + n = DOMAIN p /\ 1 .. n = DOMAIN q /\ 1 .. m = UrbsOf(r, t) BY <1>4, <1>5, <1>6
<1> HIDE DEF m, n
<1>10. /\ Ascending(r, t)
       /\ \A k \in UrbsOf(r, t) : /\ r[k].i \in Range(pend[t])
                                  /\ r[k].code = "overflow" => r[k].i = priv[t].n
                                  /\ \A j \in DOMAIN pend'[t] : r[k].i < pend'[t][j]
       /\ \A k \in DOMAIN pend'[t] : /\ pend'[t][k] \in Range(pend[t])
                                     /\ \A j \in DOMAIN pend'[t] : j < k => pend'[t][j] < pend'[t][k]
  <2>1. \A k \in UrbsOf(r, t) : r[k].code = "overflow" => r[k].i = priv[t].n BY <1>4, <1>6
  <2>2. Ascending(r, t) BY <1>8, <1>9 DEF Ascending
  <2>3. \A k \in UrbsOf(r, t) : r[k].i \in Range(p) /\ \A j \in DOMAIN q : r[k].i < q[j] BY <1>8, <1>9 DEF Range
  <2>4. \A k \in DOMAIN q : q[k] \in Range(p) /\ \A j \in DOMAIN q : j < k => q[j] < q[k] BY <1>8, <1>9 DEF Range
  <2>5. QED BY <2>1, <2>2, <2>3, <2>4 DEF p, q
<1> HIDE DEF p, q
<1>11. continuation /\ type[t] \in {"bulk", "interrupt"} =>
         \A k \in UrbsOf(r, t) : r[k].code \in {"remote", "stall", "proto", "overflow"} => pend'[t] = <<>> /\ t \in cut'
  BY <1>4, <1>6
<1>12. pend'[t] \in Seq(Range(pend'[t])) /\ connected \in BOOLEAN BY <1>3 DEF Fields, FlyingInv, Shapes
<1>13. Whole(t)'
  BY <1>1, <1>2, <1>4, <1>6, <1>10, <1>11, <1>12, ReturnAddsUp
<1>14. ASSUME NEW u \in Transfers \ {t} PROVE Whole(u)'
  <2>1. Whole(u) BY DEF AddUpInv
  <2>2. \A k \in DOMAIN r : r[k].t # u BY <1>4, <1>5
  <2>3. /\ Within(done, done', u) /\ done' \in Seq(Range(done'))
        /\ Cardinality(UrbsOf(done', u)) = Cardinality(UrbsOf(done, u))
    BY <1>1, <1>4, <2>2, MoreWithin
  <2>4. QED BY <1>1, <1>2, <1>4, <2>1, <2>3, OthersAddUp
<1>15. QED BY <1>13, <1>14

\* Every URB under way comes back when the device is gone.
LEMMA AllComeBack ==
  ASSUME UsbfsAssumption, Fields, NEW t \in Transfers, PendInOrder(t),
         NEW back \in [1 .. Cardinality(Lost) -> Lost], IsInjective(back)
  PROVE  /\ back \in Seq(Range(back)) /\ Cardinality(UrbsOf(back, t)) = Len(pend[t])
         /\ \A k \in UrbsOf(back, t) : back[k].i \in Range(pend[t]) /\ back[k].code = "shutdown"
<1> DEFINE urb(k) == [t |-> t, i |-> pend[t][k], code |-> "shutdown", n |-> 0]
           L == {u \in Lost : u.t = t}
           f == [k \in DOMAIN pend[t] |-> urb(k)]
           h == [k \in UrbsOf(back, t) |-> back[k]]
<1>1. IsFiniteSet(Lost) /\ Cardinality(Lost) \in Nat BY LostIsFinite, FS_CardinalityType
<1>2. back \in Seq(Range(back)) /\ DOMAIN back = 1 .. Cardinality(Lost)
  <2>1. back \in [1 .. Cardinality(Lost) -> Range(back)] /\ DOMAIN back = 1 .. Cardinality(Lost) BY DEF Range
  <2>2. QED BY <1>1, <2>1, SeqDef
<1>3. \A x \in Lost : \E k \in 1 .. Cardinality(Lost) : back[k] = x
  <2>1. IsFiniteSet(1 .. Cardinality(Lost)) /\ Cardinality(1 .. Cardinality(Lost)) = Cardinality(Lost)
    BY <1>1, FS_Interval
  <2>2. back \in Injection(1 .. Cardinality(Lost), Lost) BY DEF Injection
  <2>3. back \in Surjection(1 .. Cardinality(Lost), Lost)
    BY <1>1, <2>1, <2>2, FS_Injection
  <2>4. QED BY <2>3 DEF Surjection
<1>4. Len(pend[t]) \in Nat /\ DOMAIN pend[t] = 1 .. Len(pend[t]) BY LenProperties DEF Fields
<1>5. \A x \in L : \E k \in DOMAIN pend[t] : x = urb(k) BY DEF Lost
<1>6. \A k \in DOMAIN pend[t] : urb(k) \in L /\ urb(k).i = pend[t][k] BY DEF Lost
<1>7. f \in Bijection(DOMAIN pend[t], L)
  <2>1. \A j, k \in DOMAIN pend[t] : f[j] = f[k] => j = k
    <3>1. \A k \in DOMAIN pend[t] : f[k].i = pend[t][k] OBVIOUS
    <3>2. \A j, k \in DOMAIN pend[t] : pend[t][j] \in Int /\ (j < k => pend[t][j] < pend[t][k]) BY DEF PendInOrder
    <3> SUFFICES ASSUME NEW j \in DOMAIN pend[t], NEW k \in DOMAIN pend[t], j # k PROVE f[j] # f[k] OBVIOUS
    <3>3. pend[t][j] # pend[t][k]
      <4>1. j \in Nat /\ k \in Nat BY <1>4
      <4>2. j < k \/ k < j BY <4>1
      <4>3. QED BY <3>2, <4>2
    <3> HIDE DEF f
    <3>4. QED BY <3>1, <3>3, Zenon
  <2>2. f \in [DOMAIN pend[t] -> L] BY <1>6
  <2>3. \A x \in L : \E k \in DOMAIN pend[t] : f[k] = x BY <1>5
  <2> HIDE DEF f, L, urb
  <2>4. QED BY <2>1, <2>2, <2>3 DEF Bijection, Injection, Surjection, IsInjective
<1>8. h \in Bijection(UrbsOf(back, t), L)
  <2>1. \A k \in UrbsOf(back, t) : k \in DOMAIN back /\ back[k] \in L BY <1>2 DEF UrbsOf
  <2>2. \A x \in L : \E k \in UrbsOf(back, t) : back[k] = x BY <1>2, <1>3 DEF UrbsOf
  <2>3. \A j, k \in UrbsOf(back, t) : back[j] = back[k] => j = k BY <2>1 DEF IsInjective
  <2> HIDE DEF L
  <2>4. h \in [UrbsOf(back, t) -> L] BY <2>1
  <2>5. \A k \in UrbsOf(back, t) : h[k] = back[k] OBVIOUS
  <2> HIDE DEF h
  <2>6. QED BY <2>2, <2>3, <2>4, <2>5 DEF Bijection, Injection, Surjection, IsInjective
<1>9. \A k \in UrbsOf(back, t) : back[k] \in L BY <1>2 DEF UrbsOf
<1>10. \A k \in UrbsOf(back, t) : back[k].i \in Range(pend[t]) /\ back[k].code = "shutdown"
  BY <1>5, <1>9 DEF Range
<1> HIDE DEF f, h, L
<1>11. ExistsBijection(DOMAIN pend[t], L) /\ ExistsBijection(UrbsOf(back, t), L)
  BY <1>7, <1>8 DEF ExistsBijection
<1>12. IsFiniteSet(DOMAIN pend[t]) /\ Cardinality(DOMAIN pend[t]) = Len(pend[t]) BY <1>4, FS_Interval
<1>13. Cardinality(L) = Len(pend[t]) BY <1>11, <1>12, FS_Bijection
<1>14. IsFiniteSet(UrbsOf(back, t)) BY <1>2, UrbsOfFinite
<1>15. Cardinality(UrbsOf(back, t)) = Cardinality(L) BY <1>11, <1>14, FS_Bijection
<1>16. QED BY <1>2, <1>10, <1>13, <1>15

\* The end of the device gives back every URB under way.
LEMMA DisconnectAddsUp ==
  ASSUME UsbfsAssumption, FlyingInv, EarnedInv, AddUpInv, Reaping, Disconnect, UNCHANGED fixed
  PROVE  \A t \in Transfers : Whole(t)'
<1>1. Fields BY DEF EarnedInv
<1>2. /\ UNCHANGED <<type, continuation, priv, user, handler, cut>>
      /\ connected' = FALSE /\ pend' = [t \in Transfers |-> <<>>]
      /\ \A t \in Transfers : fault[t] \subseteq fault'[t]
  BY DEF Disconnect, fixed
<1>3. PICK back \in [1 .. Cardinality(Lost) -> Lost] :
         /\ IsInjective(back)
         /\ \A j, k \in DOMAIN back : j < k /\ back[j].t = back[k].t => back[j].i < back[k].i
         /\ done' = done \o back
  BY DEF Disconnect
<1>4. ASSUME NEW t \in Transfers PROVE Whole(t)'
  <2>1. Whole(t) BY DEF AddUpInv
  <2>2. PendInOrder(t) BY <2>1 DEF Whole, InOrder
  <2>3. /\ back \in Seq(Range(back)) /\ Cardinality(UrbsOf(back, t)) = Len(pend[t])
        /\ \A k \in UrbsOf(back, t) : back[k].i \in Range(pend[t]) /\ back[k].code = "shutdown"
    BY <1>1, <1>3, <2>2, AllComeBack
  <2>4. Ascending(back, t) BY <1>3 DEF Ascending, UrbsOf
  <2>5. pend'[t] = <<>> /\ Len(pend'[t]) = 0 /\ DOMAIN pend'[t] = {} /\ pend'[t] \in Seq(Range(pend'[t]))
    BY <1>2 DEF Range
  <2>6. Len(pend[t]) \in Nat BY <1>1, LenProperties DEF Fields
  <2>7. Cardinality(UrbsOf(back, t)) + Len(pend'[t]) = Len(pend[t]) BY <2>3, <2>5, <2>6
  <2>8. connected \in BOOLEAN BY DEF FlyingInv, Shapes
  <2>9. QED BY <1>1, <1>2, <1>3, <2>1, <2>3, <2>4, <2>5, <2>7, <2>8, ReturnAddsUp
<1>5. QED BY <1>4

\* The handler takes an URB of t from the kernel.
Reaps(t) == /\ handler = Poll /\ done # <<>> /\ Urb.t = t /\ user[t] = Idle /\ priv[t].urbs
            /\ done' = Tail(done) /\ UNCHANGED <<type, continuation, user, pend, cut, connected, fault>>

\* Reaping takes one URB, the first.
LEMMA OneLess ==
  ASSUME EarnedInv, AddUpInv, Reaping, NEW t \in Transfers, Reaps(t)
  PROVE  /\ priv[t].n \in Nat /\ priv[t].retired \in Nat /\ InKernel(t) \in Nat \ {0}
         /\ priv[t].retired + InKernel(t) = priv[t].n /\ InKernel(t)' = InKernel(t) - 1
         /\ \A u \in Transfers : Within(done, done', u) /\ done' \in Seq(Range(done'))
         /\ \A u \in Transfers \ {t} : Cardinality(UrbsOf(done', u)) = Cardinality(UrbsOf(done, u))
         /\ 1 \in UrbsOf(done, t) /\ done[1] = Urb
         /\ InKernel(t) = 1 => pend[t] = <<>>
<1>1. Fields /\ AddUp(t) /\ InOrder(t) BY DEF EarnedInv, AddUpInv, Whole, Reaps
<1>2. done \in Seq(Range(done)) /\ done # <<>> /\ done' = Tail(done) /\ Head(done).t = t BY <1>1 DEF Reaps, Fields, Urb
<1>3. done' \in Seq(Range(done')) BY <1>2, RangeOfTail
<1>4. ASSUME NEW u \in Transfers
      PROVE  /\ \A k \in UrbsOf(done', u) : k + 1 \in UrbsOf(done, u) /\ done'[k] = done[k + 1]
             /\ Cardinality(UrbsOf(done, u)) = Cardinality(UrbsOf(done', u)) + (IF Head(done).t = u THEN 1 ELSE 0)
             /\ Cardinality(UrbsOf(done, u)) \in Nat /\ Cardinality(UrbsOf(done', u)) \in Nat
  BY <1>2, <1>3, UrbsOfTail, UrbsOfFinite
<1>5. \A u \in Transfers : Within(done, done', u) BY <1>4 DEF Within
<1>6. \A u \in Transfers \ {t} : Cardinality(UrbsOf(done', u)) = Cardinality(UrbsOf(done, u)) BY <1>2, <1>4
<1>7. Len(pend[t]) \in Nat /\ (Len(pend[t]) = 0 <=> pend[t] = <<>>) BY <1>1, LenProperties, EmptySeq DEF Fields
<1>8. InKernel(t) \in Nat \ {0} /\ InKernel(t)' = InKernel(t) - 1 /\ (InKernel(t) = 1 => pend[t] = <<>>)
  <2>1. /\ Cardinality(UrbsOf(done, t)) = Cardinality(UrbsOf(done', t)) + 1
        /\ Cardinality(UrbsOf(done', t)) \in Nat
    BY <1>2, <1>4
  <2>2. pend' = pend BY DEF Reaps
  <2>3. QED BY <1>7, <2>1, <2>2 DEF InKernel
<1>9. priv[t].n \in Nat /\ priv[t].retired \in Nat /\ priv[t].retired + InKernel(t) = priv[t].n
  BY <1>1, <1>8 DEF InOrder, CallsInOrder, AddUp, Ahead, Reaps, Idle
<1>10. 1 \in UrbsOf(done, t) /\ done[1] = Urb BY <1>2, UrbsOfTail DEF Urb
<1>11. QED BY <1>3, <1>5, <1>6, <1>8, <1>9, <1>10

\* As long as nothing has failed, no URB is under way when the last one is reaped,
\* and where URBs come back in order no other one is to be reaped either.
LEMMA LastIsReapedLast ==
  ASSUME EarnedInv, AddUpInv, Reaping, NEW t \in Transfers, Reaps(t),
         priv[t].action = "normal", Urb.i = priv[t].n
  PROVE  pend[t] = <<>> /\ (Steady(t) => InKernel(t) = 1)
<1>1. /\ Fields /\ DoneInPlace(t) /\ PendInOrder(t) /\ ~Discarding(t)
      /\ Steady(t) => Ascending(done, t)
  BY DEF EarnedInv, AddUpInv, Whole, InOrder, DoneInOrder, Reaps, Discarding, Poll
<1>2. 1 \in UrbsOf(done, t) /\ done[1].i = priv[t].n /\ priv[t].n \in Nat BY OneLess
<1>3. Highest(t) = priv[t].n BY DEF Highest, Reaps, Idle
<1>4. Len(pend[t]) = 0 /\ pend[t] = <<>>
  <2>1. Len(pend[t]) \in Nat /\ DOMAIN pend[t] = 1 .. Len(pend[t]) /\ (Len(pend[t]) = 0 <=> pend[t] = <<>>)
    BY <1>1, LenProperties, EmptySeq DEF Fields
  <2>2. SUFFICES ASSUME Len(pend[t]) # 0 PROVE FALSE BY <2>1
  <2>3. 1 \in DOMAIN pend[t] BY <2>1, <2>2
  <2>4. pend[t][1] \in 1 .. priv[t].n /\ priv[t].n < pend[t][1] BY <1>1, <1>2, <1>3, <2>3 DEF PendInOrder, DoneInPlace
  <2>5. QED BY <1>2, <2>4
<1>5. ASSUME Steady(t) PROVE InKernel(t) = 1
  <2>1. UrbsOf(done, t) = {1}
    <3> SUFFICES ASSUME NEW k \in UrbsOf(done, t), k # 1 PROVE FALSE BY <1>2
    <3>1. k \in Nat /\ k > 1 BY <1>1, UrbsOfFinite DEF Fields
    <3>2. priv[t].n < done[k].i /\ done[k].i \in 1 .. priv[t].n
      BY <1>1, <1>2, <1>3, <1>5, <3>1 DEF DoneInPlace, Ascending
    <3>3. QED BY <1>2, <3>2
  <2>2. Cardinality(UrbsOf(done, t)) = 1 BY <2>1, FS_Singleton
  <2>3. QED BY <1>4, <2>2 DEF InKernel
<1>6. QED BY <1>4, <1>5

\* A reaped URB is one more retired, and the last one ends the transfer.
LEMMA ReapedAddsUp ==
  ASSUME FlyingInv, EarnedInv, AddUpInv, Reaping, NEW t \in Transfers, Reaps(t),
         NEW q, priv' = [priv EXCEPT ![t] = q], {"n", "retired"} \subseteq DOMAIN q, q.n = priv[t].n, q.retired \in Nat,
         q.urbs => q.retired = priv[t].retired + 1 /\ type[t] # "control",
         ~q.urbs => pend[t] = <<>> /\ (Steady(t) => InKernel(t) = 1),
         q.action = "normal" => priv[t].action = "normal",
         handler'.op = "report" => handler'.t = t,
         handler'.op = "discard" => /\ handler' = [op |-> "discard", t |-> t, i |-> priv[t].n, low |-> Urb.i + 1]
                                    /\ q.urbs /\ priv[t].action = "normal"
                                    /\ q.action = "normal" /\ Steady(t) => pend[t] = <<>>
  PROVE  \A u \in Transfers : Whole(u)'
<1>1. Fields /\ AddUp(t) /\ InOrder(t) /\ (Steady(t) => DoneInOrder(t)) BY DEF EarnedInv, AddUpInv, Whole, Reaps
<1>2. /\ priv[t].n \in Nat /\ priv[t].retired \in Nat /\ InKernel(t) \in Nat \ {0}
      /\ priv[t].retired + InKernel(t) = priv[t].n /\ InKernel(t)' = InKernel(t) - 1
      /\ \A u \in Transfers : Within(done, done', u) /\ done' \in Seq(Range(done'))
      /\ \A u \in Transfers \ {t} : Cardinality(UrbsOf(done', u)) = Cardinality(UrbsOf(done, u))
      /\ 1 \in UrbsOf(done, t) /\ done[1] = Urb
  BY OneLess
<1>3. priv'[t] = q /\ \A u \in Transfers \ {t} : priv'[u] = priv[u] BY DEF FlyingInv, Shapes
<1>4. /\ UNCHANGED <<type, continuation, user, pend, cut, connected, fault>> /\ user[t] = Idle
      /\ handler.op = "poll" /\ ~Discarding(t) /\ priv[t].urbs
  BY DEF Reaps, Poll, Discarding
<1>5. Steady(t)' => Steady(t) BY <1>4 DEF Steady, Known
<1>6. priv'[t].urbs \/ Steady(t)' => AddUp(t)' BY SMTT(30), <1>2, <1>3, <1>4, <1>5 DEF AddUp, Ahead, Idle
<1>7. CallsInOrder(t)'
  <2>1. ASSUME Discarding(t)'
        PROVE  /\ {"i", "low"} \subseteq DOMAIN handler' /\ handler'.i \in Int /\ handler'.low \in Int
               /\ \A k \in DOMAIN pend'[t] : pend'[t][k] \in handler'.low .. handler'.i
               /\ priv'[t].urbs
    <3>1. /\ handler' = [op |-> "discard", t |-> t, i |-> priv[t].n, low |-> Urb.i + 1]
          /\ q.urbs /\ priv[t].action = "normal"
      BY <2>1 DEF Discarding
    <3>2. DoneInPlace(t) /\ PendInOrder(t) /\ Highest(t) = priv[t].n
      BY <1>1, <1>4 DEF InOrder, Highest, Idle
    <3>3. Urb.i \in 1 .. priv[t].n /\ \A k \in DOMAIN pend[t] : pend[t][k] \in 1 .. priv[t].n /\ Urb.i < pend[t][k]
      BY <1>2, <1>4, <3>1, <3>2 DEF DoneInPlace, PendInOrder
    <3>4. QED BY <1>2, <1>3, <1>4, <3>1, <3>3
  <2>2. QED BY <1>2, <1>3, <1>4, <2>1 DEF CallsInOrder, Idle
<1>8. PendInOrder(t)' BY <1>1, <1>3, <1>4 DEF InOrder, PendInOrder, Highest
<1>9. Stopped(t)' BY <1>1, <1>2, <1>4 DEF InOrder, Stopped, Within
<1>10. DoneInPlace(t)' /\ (Ascending(done, t) => Ascending(done', t)) BY <1>1, <1>2, <1>3, <1>4, OrderKept
<1>11. (~connected' => pend'[t] = <<>>) /\ (~priv'[t].urbs => pend'[t] = <<>>) BY <1>1, <1>3, <1>4 DEF InOrder
<1>12. InOrder(t)' BY <1>7, <1>8, <1>9, <1>10, <1>11 DEF InOrder
<1>13. Steady(t) => DoneInOrder(t)'
  <2> SUFFICES ASSUME Steady(t), q.action = "normal" PROVE Ascending(done', t) /\ (Discarding(t)' => pend'[t] = <<>>)
    BY <1>3 DEF DoneInOrder
  <2>1. Ascending(done', t) BY <1>1, <1>4, <1>10 DEF DoneInOrder
  <2>2. QED BY <1>4, <2>1 DEF Discarding
<1>14. Whole(t)' BY <1>5, <1>6, <1>12, <1>13 DEF Whole
<1>15. ASSUME NEW u \in Transfers \ {t} PROVE Whole(u)'
  <2>1. Whole(u) BY DEF AddUpInv
  <2>2. ~Discarding(u) /\ ~Discarding(u)' BY <1>4 DEF Discarding
  <2>3. QED BY <1>1, <1>2, <1>3, <1>4, <2>1, <2>2, OthersAddUp
<1>16. QED BY <1>14, <1>15

\* The three ways in which the handling of an URB ends.
LEMMA EndAddsUp ==
  ASSUME FlyingInv, EarnedInv, AddUpInv, Reaping, NEW t \in Transfers, Reaps(t), type[t] # "control",
         NEW p, {"urbs", "n", "retired", "action"} \subseteq DOMAIN p, p.urbs, p.n = priv[t].n,
         p.retired = priv[t].retired + 1, p.action = "normal" => priv[t].action = "normal",
         NEW st,
         \/ Wait(p)
         \/ Completed(p, st) /\ pend[t] = <<>> /\ (Steady(t) => InKernel(t) = 1)
         \/ CancelRemaining(p) /\ priv[t].action = "normal" /\ (p.action = "normal" /\ Steady(t) => pend[t] = <<>>)
  PROVE  \A u \in Transfers : Whole(u)'
<1>1. /\ priv[t].n \in Nat /\ priv[t].retired \in Nat /\ priv[t].retired + InKernel(t) = priv[t].n
      /\ InKernel(t) \in Nat /\ (InKernel(t) = 1 => pend[t] = <<>>)
  BY OneLess
<1>2. Urb.t = t /\ p.retired \in Nat BY <1>1 DEF Reaps
<1>3. ASSUME NEW q, NEW s, Completed(q, s), {"urbs", "n", "retired", "action"} \subseteq DOMAIN q,
             q.n = priv[t].n, q.retired = p.retired, q.action = p.action,
             pend[t] = <<>>, Steady(t) => InKernel(t) = 1
      PROVE  \A u \in Transfers : Whole(u)'
  <2> DEFINE x == [q EXCEPT !.urbs = FALSE]
  <2>1. /\ priv' = [priv EXCEPT ![t] = x] /\ handler'.op = "report" /\ handler'.t = t BY <1>2, <1>3 DEF Completed
  <2>2. /\ {"n", "retired"} \subseteq DOMAIN x /\ x.n = priv[t].n /\ x.retired \in Nat /\ ~x.urbs
        /\ x.action = p.action
    BY <1>2, <1>3
  <2> HIDE DEF x
  <2>3. QED BY <1>3, <2>1, <2>2, ReapedAddsUp
<1>4. CASE Wait(p)
  <2>1. priv' = [priv EXCEPT ![t] = p] /\ handler'.op = "poll" BY <1>2, <1>4 DEF Wait, Poll
  <2>2. QED BY <1>2, <2>1, ReapedAddsUp
<1>5. CASE Completed(p, st) /\ pend[t] = <<>> /\ (Steady(t) => InKernel(t) = 1) BY <1>3, <1>5
<1>6. CASE CancelRemaining(p) /\ priv[t].action = "normal" /\ (p.action = "normal" /\ Steady(t) => pend[t] = <<>>)
  <2> DEFINE q == [p EXCEPT !.status = IF p.action = "error" /\ @ = "completed" THEN "error" ELSE @]
  <2>1. /\ {"urbs", "n", "retired", "action"} \subseteq DOMAIN q /\ q.urbs /\ q.n = priv[t].n
        /\ q.retired = p.retired /\ q.action = p.action
    OBVIOUS
  <2>2. IF q.retired = q.n THEN Completed(q, "by_action")
        ELSE /\ priv' = [priv EXCEPT ![t] = q]
             /\ handler' = [op |-> "discard", t |-> t, i |-> q.n, low |-> Urb.i + 1]
    BY <1>2, <1>6 DEF CancelRemaining
  <2> HIDE DEF q
  <2>3. CASE q.retired = q.n
    <3>1. InKernel(t) = 1 /\ pend[t] = <<>> BY <1>1, <2>1, <2>3
    <3>2. QED BY <1>3, <2>1, <2>2, <2>3, <3>1
  <2>4. CASE q.retired # q.n
    <3>1. /\ handler' = [op |-> "discard", t |-> t, i |-> priv[t].n, low |-> Urb.i + 1] /\ handler'.op = "discard"
          /\ priv' = [priv EXCEPT ![t] = q]
      BY <2>1, <2>2, <2>4
    <3>2. /\ {"n", "retired"} \subseteq DOMAIN q /\ q.n = priv[t].n /\ q.retired \in Nat
          /\ q.urbs => q.retired = priv[t].retired + 1 /\ type[t] # "control"
          /\ q.urbs /\ (q.action = "normal" => priv[t].action = "normal")
      BY <1>2, <2>1
    <3>3. q.action = "normal" /\ Steady(t) => pend[t] = <<>> BY <1>6, <2>1
    <3>4. handler'.op # "report" BY <3>1
    <3>5. QED BY <1>6, <3>1, <3>2, <3>3, <3>4, ReapedAddsUp
  <2>5. QED BY <2>3, <2>4
<1>7. QED BY <1>4, <1>5, <1>6

\* Each completion handler ends in one of the ways of ReapedAddsUp.
LEMMA CompletionAddsUp ==
  ASSUME FlyingInv, EarnedInv, AddUpInv, Reaping,
         BulkSurplus \/ BulkNormal \/ IsoCompletion \/ ControlCompletion, UNCHANGED fixed
  PROVE  \A u \in Transfers : Whole(u)'
<1>1. PICK t \in Transfers : Urb.t = t /\ Reaps(t)
  <2>1. PICK t \in Transfers : Urb.t = t /\ LockFree(t) /\ priv[t].urbs
    BY DEF BulkSurplus, BulkNormal, IsoCompletion, ControlCompletion, Mine
  <2>2. handler = Poll /\ done # <<>> /\ Reaped
    BY DEF BulkSurplus, BulkNormal, IsoCompletion, ControlCompletion, Mine
  <2>3. QED BY <2>1, <2>2 DEF Reaps, Reaped, LockFree, fixed
<1>2. /\ Fields /\ InOrder(t) /\ {"urbs", "n", "retired", "action", "status"} \subseteq DOMAIN priv[t]
      /\ priv[t].urbs
  BY <1>1 DEF EarnedInv, Fields, AddUpInv, Whole, InOrder, CallsInOrder, FlyingInv, Shapes, Reaps
<1>3. /\ priv[t].n \in Nat /\ priv[t].retired \in Nat /\ priv[t].retired + InKernel(t) = priv[t].n
      /\ InKernel(t) \in Nat /\ 1 \in UrbsOf(done, t) /\ done[1] = Urb /\ (InKernel(t) = 1 => pend[t] = <<>>)
  BY <1>1, OneLess
<1>4. priv[t].retired + 1 = priv[t].n \/ (priv[t].action = "normal" /\ Urb.i = priv[t].n) =>
        pend[t] = <<>> /\ (Steady(t) => InKernel(t) = 1)
  BY <1>1, <1>3, LastIsReapedLast
<1>5. CASE BulkSurplus
  <2> DEFINE p == priv[t]  last == p.retired + 1 = p.n
             q == [p EXCEPT !.retired = @ + 1, !.moved = @ + Urb.n,
                            !.status = IF last /\ p.action # "early" /\ @ = "completed" THEN "error" ELSE @]
  <2>1. /\ p.action # "normal" /\ type[t] # "control"
        /\ IF last THEN Completed(q, "by_action") ELSE Wait(q)
    BY <1>1, <1>5 DEF BulkSurplus, Mine
  <2>2. /\ {"urbs", "n", "retired", "action"} \subseteq DOMAIN q /\ q.urbs /\ q.n = p.n
        /\ q.retired = p.retired + 1 /\ q.action = p.action
    BY <1>2
  <2> HIDE DEF q
  <2>3. QED BY <1>1, <1>4, <2>1, <2>2, EndAddsUp
<1>6. CASE BulkNormal
  <2> DEFINE p == [priv[t] EXCEPT !.retired = @ + 1, !.moved = @ + Urb.n]
             first(s) == [p EXCEPT !.status = IF @ = "completed" THEN s ELSE @]
  <2>1. type[t] \in {"bulk", "interrupt"} /\ priv[t].action = "normal" BY <1>1, <1>6 DEF BulkNormal, Mine
  <2>2. \/ Urb.i = p.n /\ Completed(p, "by_action")
        \/ CancelRemaining([p EXCEPT !.action = "early"])
        \/ Wait(p)
        \/ Urb.code = "shutdown" /\ CancelRemaining([p EXCEPT !.status = "no_device"])
        \/ Urb.code = "stall" /\ CancelRemaining(first("stall"))
        \/ Urb.code = "overflow" /\ Completed(first("overflow"), "by_action")
        \/ CancelRemaining([p EXCEPT !.action = "error"])
    BY <1>1, <1>6 DEF BulkNormal
  <2>3. Urb.code \in {"shutdown", "stall"} /\ Steady(t) => pend[t] = <<>>
    <3>1. (Urb.code = "shutdown" => ~connected) /\ (Urb.code = "stall" => Urb.code \in fault[t])
      <4>1. Urb \in Range(done) /\ Urb.t = t BY <1>1, RangeOfTail DEF Reaps, Urb, EarnedInv, Fields
      <4>2. CodeEarned(Urb) BY <1>2, <4>1 DEF EarnedInv
      <4>3. QED BY <4>1, <4>2 DEF CodeEarned, Faults
    <3>2. CASE Urb.code = "shutdown" BY <1>2, <3>1, <3>2 DEF InOrder
    <3>3. CASE Urb.code = "stall"
      <4>1. Steady(t) => continuation BY <2>1, <3>1, <3>3 DEF Steady
      <4>2. Stopped(t) BY <1>2 DEF InOrder
      <4>3. QED BY <1>3, <2>1, <3>3, <4>1, <4>2 DEF Stopped
    <3>4. QED BY <3>2, <3>3
  <2>4. Urb.code = "overflow" => pend[t] = <<>> /\ (Steady(t) => InKernel(t) = 1)
    <3>1. DoneInPlace(t) BY <1>2, <2>1 DEF InOrder
    <3>2. QED BY <1>3, <1>4, <2>1, <3>1 DEF DoneInPlace
  <2>5. /\ {"urbs", "n", "retired", "action", "status"} \subseteq DOMAIN p /\ p.urbs /\ p.n = priv[t].n
        /\ p.retired = priv[t].retired + 1 /\ p.action = "normal"
    BY <1>2, <2>1
  <2> DEFINE Fine(q) == /\ {"urbs", "n", "retired", "action"} \subseteq DOMAIN q /\ q.urbs /\ q.n = priv[t].n
                        /\ q.retired = priv[t].retired + 1
  <2> HIDE DEF p
  <2>6. /\ Fine(p) /\ Fine([p EXCEPT !.action = "early"]) /\ Fine([p EXCEPT !.action = "error"])
        /\ Fine([p EXCEPT !.status = "no_device"])
        /\ \A s \in {"stall", "overflow"} : Fine(first(s))
        /\ [p EXCEPT !.action = "early"].action = "early" /\ [p EXCEPT !.action = "error"].action = "error"
    BY <2>5
  <2> HIDE DEF first
  <2>7. CASE Urb.i = p.n /\ Completed(p, "by_action") BY <1>1, <1>4, <2>1, <2>5, <2>6, <2>7, EndAddsUp
  <2>8. CASE CancelRemaining([p EXCEPT !.action = "early"]) BY <1>1, <2>1, <2>6, <2>8, EndAddsUp
  <2>9. CASE Wait(p) BY <1>1, <2>1, <2>6, <2>9, EndAddsUp
  <2>10. CASE Urb.code = "shutdown" /\ CancelRemaining([p EXCEPT !.status = "no_device"])
    BY <1>1, <2>1, <2>3, <2>6, <2>10, EndAddsUp
  <2>11. CASE Urb.code = "stall" /\ CancelRemaining(first("stall")) BY <1>1, <2>1, <2>3, <2>6, <2>11, EndAddsUp
  <2>12. CASE Urb.code = "overflow" /\ Completed(first("overflow"), "by_action")
    BY <1>1, <2>1, <2>4, <2>6, <2>12, EndAddsUp
  <2>13. CASE CancelRemaining([p EXCEPT !.action = "error"]) BY <1>1, <2>1, <2>6, <2>13, EndAddsUp
  <2>14. QED BY <2>2, <2>7, <2>8, <2>9, <2>10, <2>11, <2>12, <2>13
<1>7. CASE IsoCompletion
  <2> DEFINE p == priv[t]
             q == [p EXCEPT !.retired = @ + 1, !.off = @ + size[t][Urb.i]]
  <2>1. /\ type[t] # "control"
        /\ \/ p.action # "normal" /\ q.retired = q.n
                 /\ Completed(q, IF p.action = "cancelled" THEN "cancellation" ELSE "error")
           \/ Wait(q)
           \/ /\ p.action = "normal" /\ Urb.i = q.n
              /\ Completed(q, IF Urb.code = "shutdown" THEN "no_device" ELSE "completed")
    BY <1>1, <1>7 DEF IsoCompletion, Mine
  <2>2. /\ {"urbs", "n", "retired", "action"} \subseteq DOMAIN q /\ q.urbs /\ q.n = p.n
        /\ q.retired = p.retired + 1 /\ q.action = p.action
    BY <1>2
  <2> HIDE DEF q
  <2>3. QED BY <1>1, <1>4, <2>1, <2>2, EndAddsUp
<1>8. CASE ControlCompletion
  <2> DEFINE q == [[priv[t] EXCEPT !.moved = @ + Urb.n] EXCEPT !.urbs = FALSE]
  <2>1. /\ type[t] = "control" /\ priv' = [priv EXCEPT ![t] = q] /\ handler'.op = "report"
    BY <1>1, <1>8 DEF ControlCompletion, Mine, Completed
  <2>2. {"n", "retired"} \subseteq DOMAIN q /\ q.n = priv[t].n /\ q.retired = priv[t].retired /\ ~q.urbs
        /\ q.action = priv[t].action
    BY <1>2
  <2>3. InKernel(t) = 1 /\ pend[t] = <<>> BY <1>2, <1>3, <2>1 DEF InOrder, CallsInOrder
  <2> HIDE DEF q
  <2>4. q.retired \in Nat /\ (q.action = "normal" => priv[t].action = "normal") BY <1>3, <2>2
  <2>5. handler'.op = "report" /\ handler'.t = t /\ priv' = [priv EXCEPT ![t] = q]
    BY <1>1, <1>8, <2>1 DEF ControlCompletion, Completed
  <2>6. QED BY <1>1, <2>2, <2>3, <2>4, <2>5, ReapedAddsUp
<1>9. QED BY <1>5, <1>6, <1>7, <1>8

\* A report is made of a transfer that has nothing in the kernel.
LEMMA ReportAddsUp ==
  ASSUME FlyingInv, EarnedInv, AddUpInv, Reaping, Report, UNCHANGED fixed
  PROVE  \A u \in Transfers : Whole(u)'
<1>1. PICK t \in Transfers : handler.op = "report" /\ handler.t = t BY DEF Report, FlyingInv
<1>2. Fields /\ InOrder(t) /\ ~priv[t].urbs /\ (Steady(t) => AddUp(t))
  BY <1>1 DEF EarnedInv, AddUpInv, InFlight, Whole
<1>3. /\ UNCHANGED <<type, continuation, user, pend, done, cut, connected>> /\ handler' = Poll
      /\ priv' = [priv EXCEPT ![t] = Blank] /\ fault' = [fault EXCEPT ![t] = {}]
  BY <1>1 DEF Report, Forget, fixed
<1>4. user[t].op \notin {"submit", "discard"} BY <1>1, <1>2 DEF EarnedInv, InFlight
<1>5. pend[t] = <<>> BY <1>2 DEF InOrder
<1>6. priv'[t] = Blank /\ \A u \in Transfers \ {t} : priv'[u] = priv[u] /\ fault'[u] = fault[u]
  BY <1>2, <1>3 DEF FlyingInv, Shapes, Fields
<1>7. Steady(t)' => AddUp(t)'
  <2>1. ~Known(t)' BY <1>3, <1>6 DEF Known, Blank, Poll
  <2>2. Steady(t)' => Steady(t) BY <1>3, <2>1 DEF Steady
  <2>3. InKernel(t)' = InKernel(t) BY <1>3 DEF InKernel
  <2>4. Steady(t) => InKernel(t) = 0 BY <1>2 DEF AddUp
  <2>5. ~priv'[t].urbs BY <1>6 DEF Blank
  <2>6. QED BY <2>2, <2>3, <2>4, <2>5 DEF AddUp
<1>8. InOrder(t)'
  <2>1. CallsInOrder(t)' BY <1>3, <1>4, <1>6 DEF CallsInOrder, Blank, Poll, Discarding
  <2>2. PendInOrder(t)' BY <1>3, <1>5 DEF PendInOrder
  <2>3. Stopped(t)' BY <1>2, <1>3 DEF InOrder, Stopped
  <2>4. QED BY <1>3, <1>5, <1>6, <2>1, <2>2, <2>3 DEF InOrder, Blank
<1>9. Whole(t)' BY <1>6, <1>7, <1>8 DEF Whole, DoneInOrder, Blank
<1>10. ASSUME NEW u \in Transfers \ {t} PROVE Whole(u)'
  <2>1. Whole(u) BY DEF AddUpInv
  <2>2. ~Discarding(u) /\ ~Discarding(u)' /\ handler'.op # "report" BY <1>1, <1>3 DEF Discarding, Poll
  <2>3. QED BY <1>2, <1>3, <1>6, <2>1, <2>2, SameWithin, OthersAddUp
<1>11. QED BY <1>9, <1>10

\* A setting of the application and the kernel, which no step changes.
SettingInv == [type |-> type, continuation |-> continuation] \in Settings

\* Every step keeps the sums.
LEMMA StepAddsUp ==
  ASSUME UsbfsAssumption, SettingInv, FlyingInv, EarnedInv, AddUpInv, Next
  PROVE  AddUpInv'
<1> SUFFICES ASSUME Reaping' PROVE \A u \in Transfers : Whole(u)'
  BY DEF AddUpInv
<1>1. UNCHANGED fixed BY DEF Next
<1>2. CASE PollError \/ Sweep \/ ClearPriv \/ ReportGone
  BY <1>2 DEF PollError, Sweep, ClearPriv, ReportGone, Reaping
<1>3. CASE Report \/ HandlerDiscards \/ BulkSurplus \/ BulkNormal \/ IsoCompletion \/ ControlCompletion
  <2>1. Reaping
    BY <1>3 DEF Report, HandlerDiscards, BulkSurplus, BulkNormal, IsoCompletion, ControlCompletion, Mine, Reaping, Poll
  <2>2. QED BY <1>1, <1>3, <2>1, ReportAddsUp, HandlerDiscardAddsUp, CompletionAddsUp
<1>4. CASE ExpireCancel
  <2>1. timing \in Transfers /\ StartCancel(timing) /\ LockFree(timing) BY <1>4 DEF ExpireCancel, EarnedInv, Fields
  <2>2. UNCHANGED <<handler, pend, done, cut, connected, fault>> BY <1>4 DEF ExpireCancel, kernel
  <2>3. Reaping BY <2>2 DEF Reaping
  <2>4. QED BY <1>1, <2>1, <2>2, <2>3, CancelAddsUp
<1>5. CASE Disconnect
  <2>1. Reaping BY <1>5 DEF Disconnect, Reaping
  <2>2. QED BY <1>1, <1>5, <2>1, DisconnectAddsUp
<1>6. ASSUME NEW t \in Transfers, Application(t) \/ Calls(t) \/ UrbCompletes(t)
      PROVE  \A u \in Transfers : Whole(u)'
  <2>1. Reaping
    BY <1>6 DEF Application, Submit, Cancel, Expire, Calls, SubmitUrb, FirstUrbFails, LaterUrbFails, UserDiscards,
                UrbCompletes, Reaping
  <2>2. CASE Submit(t) BY <1>1, <2>1, <2>2, SubmitAddsUp DEF SettingInv
  <2>3. CASE Cancel(t)
    <3>1. StartCancel(t) /\ LockFree(t) /\ UNCHANGED <<handler, pend, done, cut, connected, fault>>
      BY <2>3 DEF Cancel, kernel
    <3>2. QED BY <1>1, <2>1, <3>1, CancelAddsUp
  <2>4. CASE Expire(t) BY <1>1, <2>1, <2>4, ExpireAddsUp
  <2>5. CASE SubmitUrb(t) BY <1>1, <2>1, <2>5, UrbAddsUp
  <2>6. CASE FirstUrbFails(t) \/ LaterUrbFails(t) BY <1>1, <2>1, <2>6, FailureAddsUp
  <2>7. CASE UserDiscards(t) BY <1>1, <2>1, <2>7, UserDiscardAddsUp
  <2>8. CASE UrbCompletes(t) BY <1>1, <2>1, <2>8, AnswerAddsUp
  <2>9. QED BY SMTT(30), <1>6, <2>2, <2>3, <2>4, <2>5, <2>6, <2>7, <2>8 DEF Application, Calls
<1>7. QED BY <1>2, <1>3, <1>4, <1>5, <1>6 DEF Next, Handler

\* There are no URBs in the beginning.
LEMMA InitAddsUp == Init => AddUpInv
<1> SUFFICES ASSUME Init, NEW t \in Transfers PROVE Whole(t) BY DEF AddUpInv
<1>1. /\ pend[t] = <<>> /\ done = <<>> /\ priv[t] = Blank /\ user[t] = Idle /\ handler = Poll /\ connected = TRUE
  BY DEF Init
<1>2. UrbsOf(done, t) = {} BY <1>1 DEF UrbsOf
<1>3. InKernel(t) = 0
  <2>1. Len(pend[t]) = 0 BY <1>1, EmptySeq
  <2>2. Cardinality(UrbsOf(done, t)) = 0 BY <1>2, FS_EmptySet
  <2>3. QED BY <2>1, <2>2 DEF InKernel
<1>4. QED
  BY <1>1, <1>2, <1>3 DEF Whole, AddUp, InOrder, CallsInOrder, PendInOrder, Stopped, DoneInOrder, Discarding,
                          Blank, Idle, Poll

\* The settings are chosen among the possible ones.
LEMMA InitSetting == Init => SettingInv
<1> SUFFICES ASSUME Init PROVE SettingInv OBVIOUS
<1>1. PICK s \in Settings : type = s.type /\ continuation = s.continuation BY DEF Init
<1>2. s \in [type : [Transfers -> {"control", "bulk", "interrupt", "iso", "unused"}], continuation : BOOLEAN]
  BY UsbfsAssumption DEF UsbfsAssumption
<1>3. s = [type |-> s.type, continuation |-> s.continuation] BY <1>2
<1>4. QED BY <1>1, <1>3 DEF SettingInv

\* Settings, causes and sums are kept together, by every step.
LEMMA StepCounts ==
  SettingInv /\ FlyingInv /\ EarnedInv /\ AddUpInv /\ [Next]_vars => SettingInv' /\ EarnedInv' /\ AddUpInv'
<1>1. ASSUME SettingInv, FlyingInv, EarnedInv, AddUpInv, Next PROVE SettingInv' /\ EarnedInv' /\ AddUpInv'
  <2>1. SettingInv' BY <1>1 DEF Next, fixed, SettingInv
  <2>2. EarnedInv'
    BY <1>1, CallEarns, HandlerEarns, ExpiryEarns, AnswerEarns, DisconnectEarns DEF Next
  <2>3. AddUpInv' BY <1>1, StepAddsUp, UsbfsAssumption
  <2>4. QED BY <2>1, <2>2, <2>3
<1>2. ASSUME SettingInv, EarnedInv, AddUpInv, UNCHANGED vars PROVE SettingInv' /\ EarnedInv' /\ AddUpInv'
  <2>1. SettingInv' BY <1>2 DEF SettingInv, vars, fixed
  <2>2. EarnedInv'
    BY <1>2 DEF EarnedInv, Reaping, Fields, InFlight, Known, ActionEarned, StatusKnown, CodeEarned, ReportEarned,
                vars, kernel, fixed
  <2>3. AddUpInv'
    BY <1>2 DEF AddUpInv, Reaping, Whole, AddUp, InKernel, Ahead, InOrder, CallsInOrder, PendInOrder, DoneInPlace,
                DoneInOrder, Ascending, Highest, Stopped, Discarding, Steady, Known, vars, kernel, fixed
  <2>4. QED BY <2>1, <2>2, <2>3
<1>3. QED BY <1>1, <1>2

\* As long as URBs can be reaped, the URBs of a transfer that are retired, in the
\* kernel and not yet submitted are all its URBs, and none is in the kernel of a
\* transfer that is given back, unless a fault without bulk continuation has
\* disordered them: for every number of transfers and URBs, in whatever order
\* they come back.
THEOREM UrbsAddUpCorrect == Spec => []UrbsAddUp
<1>1. Init => SettingInv /\ EarnedInv /\ AddUpInv BY InitSetting, InitEarned, InitAddsUp
<1>2. SettingInv /\ FlyingInv /\ EarnedInv /\ AddUpInv /\ [Next]_vars => SettingInv' /\ EarnedInv' /\ AddUpInv'
  BY StepCounts
<1>3. AddUpInv => UrbsAddUp BY DEF AddUpInv, UrbsAddUp, Whole
<1>4. QED BY FlyingCorrect, <1>1, <1>2, <1>3, PTL DEF Spec

\* Products are monotonic, which the provers do not find alone.
LEMMA Multiples ==
  ASSUME NEW m \in Nat, NEW a \in Nat, NEW b \in Nat, a < b
  PROVE  a * m \in Nat /\ a * m + m <= b * m /\ (a + 1) * m = a * m + m
<1>1. a * m \in Nat /\ (a + 1) * m = a * m + m OBVIOUS
<1>2. PICK d \in Nat : b = (a + 1) + d
  <2>1. b - (a + 1) \in Nat /\ b = (a + 1) + (b - (a + 1)) OBVIOUS
  <2>2. QED BY <2>1
<1>3. b * m = (a + 1) * m + d * m BY <1>2
<1>4. d * m \in Nat OBVIOUS
<1>5. QED BY <1>1, <1>3, <1>4

\* Quotient and remainder make up the number.
LEMMA Division ==
  ASSUME NEW a \in Nat, NEW m \in Nat, m > 0
  PROVE  a = (a \div m) * m + (a % m)
OBVIOUS

\* The URBs of a bulk transfer lie one after the other within its length,
\* and all but the last are as large as an URB may be.
LEMMA BulkLaid ==
  ASSUME MaxBulk \in Nat \ {0}, NEW len \in Nat
  PROVE  LET s == BulkSizes(len)
         IN /\ s \in Seq(Nat) /\ s # <<>>
            /\ \A i \in 1 .. Len(s) : s[i] <= MaxBulk /\ (i - 1) * MaxBulk + s[i] <= len
            /\ \A i \in 1 .. Len(s) - 1 : s[i] = MaxBulk
<1>1. CASE len = 0
  <2>1. BulkSizes(len) = <<0>> BY <1>1 DEF BulkSizes
  <2>2. <<0>> \in Seq(Nat) /\ <<0>> # <<>> /\ Len(<<0>>) = 1 /\ <<0>>[1] = 0 OBVIOUS
  <2> DEFINE q == <<0>>
  <2>3. q \in Seq(Nat) /\ q # <<>> /\ Len(q) = 1 /\ q[1] = 0 BY <2>2
  <2>4. BulkSizes(len) = q BY <2>1
  <2> HIDE DEF q
  <2>5. (1 - 1) * MaxBulk = 0 OBVIOUS
  <2>6. QED BY SMTT(30), <1>1, <2>3, <2>4, <2>5
<1>2. CASE len # 0
  <2> DEFINE w == len \div MaxBulk  p == len % MaxBulk
             a == [i \in 1 .. w |-> MaxBulk]  b == IF p > 0 THEN <<p>> ELSE <<>>
  <2>1. w \in Nat /\ p \in Nat /\ (p = 0 => w > 0)
    <3>1. MaxBulk \in Nat /\ MaxBulk > 0 /\ len > 0 BY <1>2
    <3>2. QED BY <3>1, Quotient
  <2>2. len = w * MaxBulk + p /\ p <= MaxBulk
    <3>1. MaxBulk \in Nat /\ MaxBulk > 0 OBVIOUS
    <3>2. len = w * MaxBulk + p BY <3>1, Division
    <3>3. p <= MaxBulk BY <3>1
    <3>4. QED BY <3>2, <3>3
  <2>3. BulkSizes(len) = a \o b BY <1>2 DEF BulkSizes
  <2> HIDE DEF w, p
  <2>4. a \in Seq(Nat) /\ Len(a) = w /\ \A i \in 1 .. w : a[i] = MaxBulk BY <2>1
  <2>5. b \in Seq(Nat) /\ Len(b) = (IF p > 0 THEN 1 ELSE 0) /\ (p > 0 => b[1] = p) BY <2>1
  <2> HIDE DEF a, b
  <2> DEFINE s == a \o b
  <2>6. /\ s \in Seq(Nat) /\ Len(s) = Len(a) + Len(b)
        /\ \A i \in 1 .. Len(s) : s[i] = IF i <= Len(a) THEN a[i] ELSE b[i - Len(a)]
    <3>1. /\ s \in Seq(Nat) /\ Len(s) = Len(a) + Len(b)
          /\ \A i \in 1 .. Len(a) + Len(b) : s[i] = IF i <= Len(a) THEN a[i] ELSE b[i - Len(a)]
      BY <2>4, <2>5, ConcatProperties, Zenon
    <3> HIDE DEF s
    <3>2. QED BY <3>1
  <2>7. Len(s) = (IF p > 0 THEN w + 1 ELSE w) BY <2>1, <2>4, <2>5, <2>6
  <2>8. \A i \in 1 .. Len(s) : s[i] = IF i <= w THEN MaxBulk ELSE p
    <3> SUFFICES ASSUME NEW i \in 1 .. Len(s) PROVE s[i] = IF i <= w THEN MaxBulk ELSE p OBVIOUS
    <3>1. CASE i <= w
      <4>1. i \in 1 .. w BY <2>1, <2>7, <3>1
      <4>2. QED BY <2>4, <2>6, <3>1, <4>1
    <3>2. CASE ~(i <= w)
      <4>1. p > 0 /\ i - w = 1 BY <2>1, <2>7, <3>2
      <4>2. QED BY <2>4, <2>5, <2>6, <3>2, <4>1
    <3>3. QED BY <3>1, <3>2
  <2> HIDE DEF s
  <2>9. s # <<>>
    <3>1. Len(s) # 0 BY <2>1, <2>7
    <3>2. QED BY <3>1, EmptySeq
  <2>10. ASSUME NEW i \in 1 .. Len(s) PROVE s[i] <= MaxBulk /\ (i - 1) * MaxBulk + s[i] <= len
    <3>1. CASE i <= w
      <4>1. i - 1 \in Nat /\ i - 1 < w BY <2>1, <2>7, <3>1
      <4>2. (i - 1) * MaxBulk + MaxBulk <= w * MaxBulk /\ (i - 1) * MaxBulk \in Nat BY <2>1, <4>1, Multiples
      <4>3. s[i] = MaxBulk BY <2>8, <3>1
      <4> DEFINE x == (i - 1) * MaxBulk  y == w * MaxBulk
      <4>4. y \in Nat BY <2>1
      <4>5. x + MaxBulk <= y /\ x \in Nat /\ len = y + p BY <4>2, <2>2
      <4> HIDE DEF x, y
      <4>6. x + MaxBulk <= len BY <2>1, <4>4, <4>5
      <4>7. QED BY <4>3, <4>6 DEF x
    <3>2. CASE ~(i <= w)
      <4>1. i - 1 = w /\ s[i] = p BY <2>1, <2>7, <2>8, <3>2
      <4>2. QED BY <2>1, <2>2, <4>1
    <3>3. QED BY <3>1, <3>2
  <2>11. ASSUME NEW i \in 1 .. Len(s) - 1 PROVE s[i] = MaxBulk
    <3>1. i \in 1 .. Len(s) /\ i <= w BY <2>1, <2>7
    <3>2. QED BY <2>8, <3>1
  <2>12. QED BY <2>3, <2>6, <2>9, <2>10, <2>11 DEF s
<1>3. QED BY <1>1, <1>2

\* The URBs of a transfer lie one behind the other in its buffer.
Begins(kind, s, i) == IF kind = "iso" THEN Before(s, i) ELSE (i - 1) * MaxBulk

Lies(kind, s, n) ==
  /\ s \in Seq(Nat) /\ Len(s) = n /\ n \in Nat \ {0}
  /\ Begins(kind, s, 1) = 0 /\ \A i \in 1 .. n : Begins(kind, s, i) \in Nat
  /\ \A i \in 1 .. n - 1 : Begins(kind, s, i + 1) = Begins(kind, s, i) + s[i]
  /\ \A i \in 1 .. n : Begins(kind, s, i) + s[i] <= BufferLength
  /\ IF kind = "iso" THEN Sum(s) = Begins(kind, s, n) + s[n]
     ELSE \A i \in 1 .. n : \A j \in 1 .. i - 1 : Begins(kind, s, j) + s[j] <= Begins(kind, s, i)

\* The URBs of a transfer lie in its buffer like that.
Laid(t) == Lies(type[t], size[t], priv[t].n)

\* The offset of a URB depends on type and sizes only.
LEMMA OffsetBegins == \A t, i : Offset(t, i) = Begins(type[t], size[t], i)
BY DEF Offset, Begins

\* No part ends behind the last one.
LEMMA PartsEnd ==
  ASSUME NEW s \in Seq(Nat)
  PROVE  \A i \in 1 .. Len(s) : Before(s, i) + s[i] <= Sum(s)
<1> DEFINE n == Len(s)
           P == {d \in Nat : d <= n => Before(s, (n + 1) - d) <= Sum(s)}
<1>1. n \in Nat /\ \A k \in 1 .. n : s[k] \in Nat BY LenProperties, ElementOfSeq
<1>2. /\ Sum(s) = Before(s, n + 1) /\ \A i \in 1 .. n + 1 : Before(s, i) \in Nat
      /\ \A i \in 1 .. n : Before(s, i + 1) = Before(s, i) + s[i]
  BY PartsFollow
<1> HIDE DEF n
<1>3. 0 \in P
  <2>1. (n + 1) - 0 = n + 1 /\ n + 1 \in 1 .. n + 1 BY <1>1
  <2>2. Before(s, n + 1) \in Nat BY <1>2, <2>1
  <2>3. Before(s, (n + 1) - 0) <= Sum(s) BY <1>2, <2>1, <2>2
  <2>4. QED BY <2>3
<1>4. ASSUME NEW d \in Nat, d \in P PROVE d + 1 \in P
  <2> SUFFICES ASSUME d + 1 <= n PROVE Before(s, (n + 1) - (d + 1)) <= Sum(s) OBVIOUS
  <2> DEFINE i == (n + 1) - (d + 1)
  <2>1. i \in 1 .. n /\ i \in 1 .. n + 1 /\ i + 1 = (n + 1) - d /\ n + 1 \in 1 .. n + 1 /\ d <= n BY <1>1
  <2>2. Before(s, (n + 1) - d) <= Sum(s) BY <1>4, <2>1
  <2> HIDE DEF i
  <2>3. Before(s, i + 1) <= Sum(s) BY <2>1, <2>2
  <2>4. Before(s, i) + s[i] <= Sum(s) BY <1>2, <2>1, <2>3
  <2>5. Before(s, i) \in Nat /\ s[i] \in Nat /\ Sum(s) \in Nat BY <1>1, <1>2, <2>1
  <2>6. Before(s, i) <= Sum(s) BY <2>4, <2>5
  <2>7. QED BY <2>6 DEF i
<1> HIDE DEF P
<1>5. Nat \subseteq P BY <1>3, <1>4, Inductive
<1> SUFFICES ASSUME NEW i \in 1 .. n PROVE Before(s, i) + s[i] <= Sum(s) BY DEF n
<1>6. n - i \in P /\ n - i <= n /\ (n + 1) - (n - i) = i + 1 BY <1>1, <1>5
<1>7. Before(s, i + 1) <= Sum(s) BY <1>6 DEF P
<1>8. QED BY <1>2, <1>7

\* It is so when the transfer is submitted.
LEMMA SubmitLays ==
  ASSUME UsbfsAssumption, SettingInv, NEW t \in Transfers, NEW what \in IF type[t] = "iso" THEN Packets ELSE Lengths[t]
  PROVE  Lies(type[t], Sizes(t, what), Len(Sizes(t, what)))
<1> DEFINE s == Sizes(t, what)  n == Len(s)
<1>1. MaxIso \in Nat /\ MaxBulk \in Nat \ {0} /\ MaxBulk \in Nat /\ BufferLength \in Nat BY DEF UsbfsAssumption
<1>2. CASE type[t] = "iso"
  <2>1. what \in Seq(0 .. MaxIso) /\ Len(what) <= BufferLength BY <1>2 DEF UsbfsAssumption
  <2>2. s = IsoSizes(what) /\ n = Len(s) BY <1>2 DEF Sizes
  <2>3. s \in Seq(Nat) /\ s # <<>> /\ Sum(s) = Len(what) BY <1>1, <2>1, <2>2, IsoDivides
  <2>4. n \in Nat \ {0} BY <2>2, <2>3, EmptySeq
  <2>5. \A i : Begins(type[t], s, i) = Before(s, i) BY <1>2 DEF Begins
  <2> HIDE DEF s, n
  <2>6. /\ Before(s, 1) = 0 /\ Sum(s) = Before(s, Len(s) + 1)
        /\ \A i \in 1 .. Len(s) + 1 : Before(s, i) \in Nat
        /\ \A i \in 1 .. Len(s) : Before(s, i + 1) = Before(s, i) + s[i]
    BY <2>3, PartsFollow
  <2>7. n \in 1 .. Len(s) /\ 1 .. n \subseteq 1 .. Len(s) + 1 /\ 1 .. n - 1 \subseteq 1 .. Len(s) BY <2>2, <2>4
  <2>8. Begins(type[t], s, 1) = 0 /\ (\A i \in 1 .. n : Begins(type[t], s, i) \in Nat)
        /\ \A i \in 1 .. n - 1 : Begins(type[t], s, i + 1) = Begins(type[t], s, i) + s[i]
    BY <2>5, <2>6, <2>7
  <2>9. Sum(s) = Begins(type[t], s, n) + s[n] BY <2>2, <2>5, <2>6, <2>7
  <2>10. \A i \in 1 .. n : Begins(type[t], s, i) + s[i] <= BufferLength
    <3> SUFFICES ASSUME NEW i \in 1 .. n PROVE Begins(type[t], s, i) + s[i] <= BufferLength OBVIOUS
    <3>1. Before(s, i) \in Nat /\ s[i] \in Nat BY <2>2, <2>3, <2>6, <2>7, ElementOfSeq
    <3>2. Before(s, i) + s[i] <= Sum(s) BY <2>2, <2>3, PartsEnd
    <3>3. Len(what) \in Nat BY <2>1, LenProperties
    <3>4. QED BY <1>1, <2>1, <2>3, <2>5, <3>1, <3>2, <3>3
  <2>11. QED BY <1>2, <2>2, <2>3, <2>4, <2>8, <2>9, <2>10 DEF Lies, s, n
<1>3. CASE type[t] # "iso"
  <2>1. what \in Nat /\ what <= BufferLength
    <3>1. what \in 0 .. BufferLength BY <1>3 DEF UsbfsAssumption
    <3>2. QED BY <1>1, <3>1
  <2>2. \A i : Begins(type[t], s, i) = (i - 1) * MaxBulk BY <1>3 DEF Begins
  <2>3. n = Len(s) OBVIOUS
  <2>4. /\ s \in Seq(Nat) /\ s # <<>>
        /\ \A i \in 1 .. Len(s) : (i - 1) * MaxBulk + s[i] <= what
        /\ \A i \in 1 .. Len(s) - 1 : s[i] = MaxBulk
    <3>1. CASE type[t] = "control"
      <4> DEFINE q == <<what>>
      <4>1. s = q BY <3>1 DEF Sizes
      <4>2. q \in Seq(Nat) /\ q # <<>> /\ Len(q) = 1 /\ q[1] = what BY <2>1
      <4> HIDE DEF q, s
      <4>3. (1 - 1) * MaxBulk = 0 BY <1>1
      <4>4. QED BY <2>1, <4>1, <4>2, <4>3
    <3>2. CASE type[t] # "control"
      <4>1. s = BulkSizes(what) BY <1>3, <3>2 DEF Sizes
      <4> HIDE DEF s
      <4>2. QED BY <1>1, <2>1, <4>1, BulkLaid
    <3>3. QED BY <3>1, <3>2
  <2> HIDE DEF s, n
  <2>5. n \in Nat \ {0} BY <2>3, <2>4, EmptySeq
  <2>6. ASSUME NEW i \in 1 .. n
        PROVE  /\ i - 1 \in Nat /\ Begins(type[t], s, i) \in Nat
               /\ Begins(type[t], s, i) + s[i] <= BufferLength /\ s[i] \in Nat
    <3>1. i - 1 \in Nat BY <2>5
    <3>2. (i - 1) * MaxBulk \in Nat BY <1>1, <3>1
    <3>3. (i - 1) * MaxBulk + s[i] <= what /\ s[i] \in Nat BY <2>3, <2>4, ElementOfSeq
    <3> DEFINE x == (i - 1) * MaxBulk
    <3>4. x \in Nat /\ x + s[i] <= what /\ Begins(type[t], s, i) = x BY <2>2, <3>2, <3>3
    <3> HIDE DEF x
    <3>5. QED BY <1>1, <2>1, <3>1, <3>3, <3>4
  <2>7. ASSUME NEW i \in 1 .. n, NEW j \in 1 .. i - 1 PROVE Begins(type[t], s, j) + s[j] <= Begins(type[t], s, i)
    <3>1. j - 1 \in Nat /\ i - 1 \in Nat /\ j - 1 < i - 1 /\ j \in 1 .. n - 1 BY <2>5
    <3>2. (j - 1) * MaxBulk + MaxBulk <= (i - 1) * MaxBulk BY <1>1, <3>1, Multiples
    <3>3. s[j] = MaxBulk BY <2>3, <2>4, <3>1
    <3>4. QED BY <2>2, <3>2, <3>3
  <2>8. ASSUME NEW i \in 1 .. n - 1 PROVE Begins(type[t], s, i + 1) = Begins(type[t], s, i) + s[i]
    <3>1. i - 1 \in Nat /\ (i + 1) - 1 = (i - 1) + 1 BY <2>5
    <3>2. ((i - 1) + 1) * MaxBulk = (i - 1) * MaxBulk + MaxBulk
      <4>1. i - 1 < (i - 1) + 1 /\ (i - 1) + 1 \in Nat BY <3>1
      <4>2. QED BY <1>1, <3>1, <4>1, Multiples
    <3>3. s[i] = MaxBulk BY <2>3, <2>4
    <3>4. Begins(type[t], s, i + 1) = ((i - 1) + 1) * MaxBulk BY <2>2, <3>1
    <3>5. QED BY <2>2, <3>2, <3>3, <3>4
  <2>9. Begins(type[t], s, 1) = 0
    <3>1. (1 - 1) * MaxBulk = 0 BY <1>1
    <3>2. QED BY <2>2, <3>1
  <2>10. QED BY <1>3, <2>3, <2>4, <2>5, <2>6, <2>7, <2>8, <2>9 DEF Lies, s, n
<1>4. QED BY <1>2, <1>3

\* A transfer as it lies in its buffer; a URB brings no more than fits into its part.
Landed(t) == \A k \in UrbsOf(done, t) : done[k].n \in 0 .. size[t][done[k].i]

\* While URBs are being submitted nothing has been moved.
Submitting(t) == user[t] \in [op : {"submit"}, i : 1 .. priv[t].n] /\ priv[t].retired = 0 /\ priv[t].moved = 0

\* Where the URBs of a transfer lie, from its submission on.
LayInv(t) ==
  /\ user[t].op = "submit" => Submitting(t)
  /\ priv[t].urbs => Laid(t) /\ (Reaping => Landed(t)) /\ (type[t] = "control" => priv[t].moved = 0)

\* What the fields hold, sharper than TypeOK: where the URBs of each
\* transfer lie, and that the data lies within them.
TypeInv == TypeOK /\ (~connected => \A t \in Transfers : pend[t] = <<>>) /\ \A t \in Transfers : LayInv(t)

\* The URBs to be reaped that bring something, and which units.
Holds(t) == {k \in UrbsOf(done, t) : done[k].n > 0}
At(t, k) == Offset(t, done[k].i)
FirstUnit(t, k) == buf[t][At(t, k) + 1]
LastUnit(t, k) == FirstUnit(t, k) + done[k].n - 1

\* URBs are reaped without a gap.
Gapless(t) ==
  /\ \A i \in priv[t].retired + 1 .. Highest(t) :
       (\E k \in UrbsOf(done, t) : done[k].i = i) \/ (\E k \in DOMAIN pend[t] : pend[t][k] = i)
  /\ \A k \in UrbsOf(done, t) : done[k].i > priv[t].retired
  /\ \A k \in DOMAIN pend[t] : pend[t][k] > priv[t].retired

\* What has been moved is followed by what the URBs to be reaped bring, and
\* lies before them, and they before those under way.
Carried(t) ==
  /\ priv[t].moved <= sent[t] /\ priv[t].moved <= BufferLength
  /\ \A x \in 1 .. priv[t].moved : buf[t][x] = x
  /\ \A x \in priv[t].moved + 1 .. sent[t] : \E k \in Holds(t) : FirstUnit(t, k) <= x /\ x <= LastUnit(t, k)
  /\ \A k \in Holds(t) :
       /\ priv[t].moved <= At(t, k) /\ priv[t].moved < FirstUnit(t, k) /\ LastUnit(t, k) <= sent[t]
       /\ \A x \in 1 .. done[k].n : buf[t][At(t, k) + x] = FirstUnit(t, k) + x - 1
       /\ \A j \in Holds(t) : j < k => done[j].i < done[k].i /\ LastUnit(t, j) < FirstUnit(t, k)
       /\ \A j \in DOMAIN pend[t] : done[k].i < pend[t][j]
  /\ \A j \in DOMAIN pend[t] : priv[t].moved <= Offset(t, pend[t][j])

\* As long as nothing has been cut short, the units are where they belong, or no more will come.
Spent(t) == DOMAIN pend[t] = {} /\ user[t].op # "submit" /\ Holds(t) = {}

Fitting(t) ==
  priv[t].action = "normal" =>
    (priv[t].retired < priv[t].n /\ priv[t].moved = Offset(t, priv[t].retired + 1)) \/ Spent(t)

\* Behind a URB that ends the transfer with action "normal" nothing comes.
Ending == {"stall", "shutdown"}
Quiet(t) ==
  continuation /\ type[t] \in {"bulk", "interrupt"} =>
    \A k \in Holds(t), j \in UrbsOf(done, t) : j < k => done[j].code \notin Ending

\* The packets of an isochronous transfer are copied one after the other.
Results(t) ==
  priv[t].action = "normal" =>
    /\ priv[t].retired < priv[t].n /\ priv[t].off = Offset(t, priv[t].retired + 1)
    /\ \A x \in 1 .. priv[t].off : buf[t][x] = x

\* Where the data of a transfer is, while its URBs come back.
Sound(t) ==
  /\ priv[t].action = "normal" => Gapless(t)
  /\ IF type[t] = "iso" THEN Results(t) ELSE Carried(t) /\ Fitting(t) /\ Quiet(t)

\* The data of every transfer that has URBs, and what the thread that handles
\* events is about to report.
DataInv ==
  /\ Reaping => \A t \in Transfers : priv[t].urbs /\ Steady(t) => Sound(t)
  /\ DataInPlace

\* The values of linux_transfer_priv.
Privs == [urbs : BOOLEAN, n : Nat, retired : Nat, action : Actions, status : Statuses, moved : Nat, off : Nat]

\* A step that gives a new value to the private part of one transfer.
LEMMA PrivTyped ==
  ASSUME TypeOK, NEW t \in Transfers, NEW q \in Privs, q.retired <= q.n, priv' = [priv EXCEPT ![t] = q]
  PROVE  /\ priv' \in [Transfers -> Privs] /\ \A u \in Transfers : priv'[u].retired <= priv'[u].n
         /\ priv'[t] = q /\ \A u \in Transfers \ {t} : priv'[u] = priv[u]
<1>1. priv \in [Transfers -> Privs] /\ \A u \in Transfers : priv[u].retired <= priv[u].n BY DEF TypeOK, Privs
<1>2. QED BY <1>1

\* What is said of a transfer that a step does not touch.
LEMMA LayStays ==
  ASSUME NEW t, LayInv(t), UNCHANGED <<type, size[t]>>, priv'[t].urbs => priv[t].urbs,
         priv'[t].n = priv[t].n, priv'[t].moved = priv[t].moved,
         user'[t].op = "submit" => user'[t] = user[t] /\ priv'[t].retired = priv[t].retired,
         Reaping' => Reaping /\ Within(done, done', t)
  PROVE  LayInv(t)'
<1>1. ASSUME Laid(t) PROVE Laid(t)' BY <1>1 DEF Laid
<1>2. ASSUME Landed(t), Within(done, done', t) PROVE Landed(t)' BY <1>2 DEF Landed, Within
<1>3. QED BY <1>1, <1>2 DEF LayInv, Submitting

\* A submission lays its URBs out within the buffer.
LEMMA SubmitTyped ==
  ASSUME UsbfsAssumption, SettingInv, TypeInv, FlyingInv, EarnedInv, NEW t \in Transfers, Submit(t), UNCHANGED fixed
  PROVE  TypeInv'
<1>1. PICK what \in IF type[t] = "iso" THEN Packets ELSE Lengths[t] :
         /\ size' = [size EXCEPT ![t] = Sizes(t, what)]
         /\ priv' = [priv EXCEPT ![t] = [Blank EXCEPT !.urbs = TRUE, !.n = Len(Sizes(t, what)),
                       !.status = IF type[t] \in {"bulk", "interrupt"} THEN "completed" ELSE @]]
  BY DEF Submit
<1> DEFINE s == Sizes(t, what)
           p == [Blank EXCEPT !.urbs = TRUE, !.n = Len(s),
                   !.status = IF type[t] \in {"bulk", "interrupt"} THEN "completed" ELSE @]
<1>2. UNCHANGED <<type, continuation>> BY DEF fixed
<1>3. Lies(type[t], s, Len(s)) BY SubmitLays
<1>4. size' = [size EXCEPT ![t] = s] /\ priv' = [priv EXCEPT ![t] = p] BY <1>1
<1> HIDE DEF s
<1>5. Len(s) \in Nat \ {0} /\ s \in Seq(Nat) BY <1>3 DEF Lies
<1>6. p \in Privs /\ p.n = Len(s) /\ p.urbs /\ p.retired = 0 /\ p.moved = 0 /\ p.retired <= p.n
  <2>1. p \in Privs /\ p.n = Len(s) /\ p.urbs /\ p.retired = 0 /\ p.moved = 0
    BY <1>5 DEF Privs, Blank, Actions, Statuses
  <2> HIDE DEF p
  <2>2. 0 <= Len(s) BY <1>5
  <2>3. QED BY <2>1, <2>2
<1> HIDE DEF p
<1>7. /\ priv' \in [Transfers -> Privs] /\ \A u \in Transfers : priv'[u].retired <= priv'[u].n
      /\ priv'[t] = p /\ \A u \in Transfers \ {t} : priv'[u] = priv[u]
  BY <1>4, <1>6, PrivTyped DEF TypeInv
<1>8. size'[t] = s /\ size' \in [Transfers -> Seq(Nat)] /\ \A u \in Transfers \ {t} : size'[u] = size[u]
  BY <1>4, <1>5 DEF TypeInv, TypeOK
<1>9. /\ UNCHANGED <<app, handler, timing, pend, done, cut, connected, calls>>
      /\ user' = [user EXCEPT ![t] = [op |-> "submit", i |-> 1]] /\ flags' = [flags EXCEPT ![t] = {}]
      /\ buf' = [buf EXCEPT ![t] = Wiped] /\ sent' = [sent EXCEPT ![t] = 0] /\ fault' = [fault EXCEPT ![t] = {}]
  BY DEF Submit
<1>10. DOMAIN user = Transfers BY DEF FlyingInv, Shapes
<1>11. TypeOK'
  <2>1. buf' \in [Transfers -> [Positions -> Nat]] BY <1>9 DEF TypeInv, TypeOK, Wiped
  <2>2. sent' \in [Transfers -> Nat] BY <1>9 DEF TypeInv, TypeOK
  <2>3. flags' \in [Transfers -> SUBSET {"timed_out", "cancelling"}] /\ fault' \in [Transfers -> SUBSET Faults]
    BY <1>9 DEF TypeInv, TypeOK
  <2>4. \A u \in Transfers : user'[u] = Idle \/ user'[u].op \in {"submit", "discard"}
    BY <1>9, <1>10 DEF TypeInv, TypeOK
  <2>5. QED BY <1>2, <1>7, <1>8, <1>9, <2>1, <2>2, <2>3, <2>4 DEF TypeInv, TypeOK, Privs
<1>12. LayInv(t)'
  <2>1. Laid(t)' BY <1>2, <1>3, <1>6, <1>7, <1>8 DEF Laid
  <2>2. ASSUME Reaping' PROVE Landed(t)'
    <3>1. InKernel(t) = 0 BY <1>9, <2>2 DEF Submit, Reaping
    <3>2. UrbsOf(done, t) = {} BY <3>1, KernelCounts DEF EarnedInv
    <3>3. QED BY <1>9, <3>2 DEF Landed
  <2>3. user'[t] = [op |-> "submit", i |-> 1] BY <1>9, <1>10
  <2>4. Submitting(t)' BY <1>5, <1>6, <1>7, <2>3 DEF Submitting
  <2>5. QED BY <1>6, <1>7, <2>1, <2>2, <2>4 DEF LayInv
<1>13. ASSUME NEW u \in Transfers \ {t} PROVE LayInv(u)'
  <2>1. UNCHANGED <<priv[u], user[u], size[u]>> BY <1>7, <1>8, <1>9, <1>10
  <2>2. Reaping' => Reaping /\ Within(done, done', u) BY <1>9, SameWithin DEF Reaping, EarnedInv
  <2>3. QED BY <1>2, <2>1, <2>2, LayStays DEF TypeInv
<1>14. QED BY <1>9, <1>11, <1>12, <1>13 DEF TypeInv

\* The call or timeout that starts a cancellation.
LEMMA CancelTyped ==
  ASSUME TypeInv, FlyingInv, EarnedInv, NEW t \in Transfers, StartCancel(t), LockFree(t),
         UNCHANGED <<fixed, size, buf, app, handler, kernel, calls>>, timing' \in Transfers \cup {NoTransfer}
  PROVE  TypeInv'
<1> DEFINE a == IF type[t] = "bulk" /\ priv[t].action = "error" THEN priv[t].action ELSE "cancelled"
           q == [priv[t] EXCEPT !.action = a]
<1>1. priv[t] \in Privs /\ priv[t].retired <= priv[t].n /\ DOMAIN priv = Transfers BY DEF TypeInv, TypeOK, Privs
<1>2. a \in Actions /\ priv' = [priv EXCEPT ![t].action = a] BY DEF StartCancel, Actions
<1> HIDE DEF a
<1>3. priv' = [priv EXCEPT ![t] = q] BY <1>1, <1>2
<1>4. q \in Privs /\ q.n = priv[t].n /\ q.retired = priv[t].retired /\ q.urbs = priv[t].urbs /\ q.moved = priv[t].moved
  BY <1>1, <1>2 DEF Privs
<1> HIDE DEF q
<1>5. /\ priv' \in [Transfers -> Privs] /\ \A u \in Transfers : priv'[u].retired <= priv'[u].n
      /\ priv'[t] = q /\ \A u \in Transfers \ {t} : priv'[u] = priv[u]
  BY <1>1, <1>3, <1>4, PrivTyped DEF TypeInv
<1>6. DOMAIN user = Transfers BY DEF FlyingInv, Shapes
<1>7. (user'[t] = Idle \/ user'[t].op = "discard") /\ \A u \in Transfers \ {t} : user'[u] = user[u]
  BY <1>6 DEF StartCancel
<1>8. TypeOK'
  <2>1. flags' \in [Transfers -> SUBSET {"timed_out", "cancelling"}] BY DEF StartCancel, TypeInv, TypeOK
  <2>2. \A u \in Transfers : user'[u] = Idle \/ user'[u].op \in {"submit", "discard"} BY <1>7 DEF TypeInv, TypeOK
  <2>3. QED BY <1>5, <2>1, <2>2 DEF TypeInv, TypeOK, Privs, fixed, kernel
<1>9. ASSUME NEW u \in Transfers PROVE LayInv(u)'
  <2>1. LayInv(u) /\ UNCHANGED <<type, size[u]>> BY DEF TypeInv, fixed
  <2>2. Reaping' => Reaping /\ Within(done, done', u) BY SameWithin DEF Reaping, EarnedInv, kernel
  <2>3. user'[u].op = "submit" => user'[u] = user[u] BY <1>7 DEF Idle
  <2>4. priv'[u].urbs = priv[u].urbs /\ priv'[u].n = priv[u].n /\ priv'[u].moved = priv[u].moved
        /\ priv'[u].retired = priv[u].retired
    BY <1>4, <1>5
  <2>5. QED BY <2>1, <2>2, <2>3, <2>4, LayStays
<1>10. QED BY <1>8, <1>9 DEF TypeInv, kernel

\* The calls that submit URBs.
LEMMA SubmitUrbTyped ==
  ASSUME TypeInv, FlyingInv, EarnedInv, NEW t \in Transfers, SubmitUrb(t), UNCHANGED fixed
  PROVE  TypeInv'
<1> DEFINE i == user[t].i
<1>1. /\ UNCHANGED <<type, continuation, priv, flags, size, buf, handler, timing, done, connected, sent, fault, calls>>
      /\ pend' = [pend EXCEPT ![t] = Append(@, i)] /\ cut' = (IF i = 1 THEN cut \ {t} ELSE cut) /\ connected
      /\ user' = [user EXCEPT ![t] = IF i = priv[t].n THEN Idle ELSE [@ EXCEPT !.i = i + 1]]
      /\ app' = IF i = priv[t].n THEN [app EXCEPT ![t] = "flying"] ELSE app
  BY DEF SubmitUrb, fixed
<1>2. user[t] \in [op : {"submit"}, i : 1 .. priv[t].n] /\ priv[t].n \in Nat
  BY DEF TypeInv, TypeOK, LayInv, Submitting, SubmitUrb
<1>3. i \in Nat /\ i \in 1 .. priv[t].n BY <1>2
<1>4. DOMAIN user = Transfers BY DEF FlyingInv, Shapes
<1>5. user'[t] = Idle \/ user'[t] \in [op : {"submit"}, i : 1 .. priv[t].n]
  <2>1. CASE i = priv[t].n BY <1>1, <1>4, <2>1
  <2>2. CASE i # priv[t].n
    <3> DEFINE v == [user[t] EXCEPT !.i = i + 1]
    <3>1. user'[t] = v BY <1>1, <1>4, <2>2
    <3>2. i + 1 \in 1 .. priv[t].n BY <1>2, <1>3, <2>2
    <3>3. v \in [op : {"submit"}, i : 1 .. priv[t].n] BY <1>2, <3>2
    <3>4. QED BY <3>1, <3>3
  <2>3. QED BY <2>1, <2>2
<1>6. \A u \in Transfers \ {t} : user'[u] = user[u] BY <1>1, <1>4
<1>7. TypeOK'
  <2>1. pend' \in [Transfers -> Seq(Nat)] BY <1>1, <1>3 DEF TypeInv, TypeOK
  <2>2. app' \in [Transfers -> {"idle", "flying"}] /\ cut' \subseteq Transfers BY <1>1 DEF TypeInv, TypeOK
  <2>3. \A u \in Transfers : user'[u] = Idle \/ user'[u].op \in {"submit", "discard"}
    BY <1>5, <1>6 DEF TypeInv, TypeOK
  <2>4. QED BY <1>1, <2>1, <2>2, <2>3 DEF TypeInv, TypeOK
<1>8. ASSUME NEW u \in Transfers \ {t} PROVE LayInv(u)'
  <2>1. Reaping' => Reaping /\ Within(done, done', u) BY <1>1, SameWithin DEF Reaping, EarnedInv
  <2>2. QED BY <1>1, <1>6, <2>1, LayStays DEF TypeInv
<1>9. LayInv(t)'
  <2>1. LayInv(t) BY DEF TypeInv
  <2>2. user'[t].op = "submit" => Submitting(t)'
    <3>1. Submitting(t) BY <2>1 DEF LayInv, SubmitUrb
    <3>2. QED BY <1>1, <1>5, <3>1 DEF Submitting, Idle
  <2>3. QED BY <1>1, <2>1, <2>2 DEF LayInv, Laid, Landed, Reaping
<1>10. QED BY <1>1, <1>7, <1>8, <1>9 DEF TypeInv

\* A refused URB leaves all fields what they should be.
LEMMA FailureTyped ==
  ASSUME TypeInv, FlyingInv, EarnedInv, NEW t \in Transfers, FirstUrbFails(t) \/ LaterUrbFails(t), UNCHANGED fixed
  PROVE  TypeInv'
<1>1. /\ UNCHANGED <<type, continuation, flags, size, buf, handler, timing, pend, done, cut, connected, sent, calls>>
  BY DEF FirstUrbFails, LaterUrbFails, fixed, kernel
<1>2. /\ user[t] \in [op : {"submit"}, i : 1 .. priv[t].n] /\ priv[t] \in Privs /\ priv[t].n \in Nat
      /\ priv[t].retired = 0 /\ DOMAIN priv = Transfers
  BY DEF TypeInv, TypeOK, LayInv, Submitting, FirstUrbFails, LaterUrbFails, Privs
<1>3. DOMAIN user = Transfers /\ DOMAIN fault = Transfers BY DEF FlyingInv, Shapes, TypeInv, TypeOK
<1>4. \E q \in Privs : /\ priv' = [priv EXCEPT ![t] = q] /\ q.retired <= q.n /\ q.n = priv[t].n
                       /\ q.moved = priv[t].moved /\ (q.urbs => priv[t].urbs)
  <2>1. CASE FirstUrbFails(t)
    <3> DEFINE q == [priv[t] EXCEPT !.urbs = FALSE]
    <3>1. priv' = [priv EXCEPT ![t] = q] BY <1>2, <2>1 DEF FirstUrbFails
    <3>2. q \in Privs /\ q.n = priv[t].n /\ q.moved = priv[t].moved /\ ~q.urbs /\ q.retired = 0 BY <1>2 DEF Privs
    <3> HIDE DEF q
    <3>3. q.retired <= q.n BY <1>2, <3>2
    <3>4. QED BY <3>1, <3>2, <3>3
  <2>2. CASE LaterUrbFails(t)
    <3> DEFINE a == IF Refused(t, user[t].i) /\ connected THEN "early" ELSE "submit_failed"
               m == Unsubmitted(t)
               x == priv[t].retired + m
               q == [priv[t] EXCEPT !.action = a, !.retired = x]
    <3>1. priv' = [priv EXCEPT ![t].action = a, ![t].retired = @ + m] BY <2>2 DEF LaterUrbFails
    <3>2. a \in Actions /\ m \in Nat /\ m <= priv[t].n BY <1>2 DEF Actions, Unsubmitted
    <3> HIDE DEF a, m
    <3>3. priv' = [priv EXCEPT ![t] = q] BY <1>2, <3>1
    <3>4. x = m BY <1>2, <3>2
    <3> HIDE DEF x
    <3>5. q \in Privs /\ q.n = priv[t].n /\ q.moved = priv[t].moved /\ q.urbs = priv[t].urbs /\ q.retired = x
      BY <1>2, <3>2, <3>4 DEF Privs
    <3> HIDE DEF q
    <3>6. QED BY <3>2, <3>3, <3>4, <3>5
  <2>3. QED BY <2>1, <2>2
<1>5. PICK q \in Privs : /\ priv' = [priv EXCEPT ![t] = q] /\ q.retired <= q.n /\ q.n = priv[t].n
                         /\ q.moved = priv[t].moved /\ (q.urbs => priv[t].urbs)
  BY <1>4
<1>6. /\ priv' \in [Transfers -> Privs] /\ \A u \in Transfers : priv'[u].retired <= priv'[u].n
      /\ priv'[t] = q /\ \A u \in Transfers \ {t} : priv'[u] = priv[u]
  BY <1>5, PrivTyped DEF TypeInv
<1>7. (user'[t] = Idle \/ user'[t].op = "discard") /\ \A u \in Transfers \ {t} : user'[u] = user[u]
  BY <1>3 DEF FirstUrbFails, LaterUrbFails
<1>8. TypeOK'
  <2>1. app' \in [Transfers -> {"idle", "flying"}] BY DEF FirstUrbFails, LaterUrbFails, TypeInv, TypeOK
  <2>2. fault' \in [Transfers -> SUBSET Faults]
    <3>1. fault \in [Transfers -> SUBSET Faults] /\ "refused" \in Faults BY DEF TypeInv, TypeOK, Faults
    <3>2. fault' = fault \/ fault' = [fault EXCEPT ![t] = @ \cup {"refused"}]
      BY DEF FirstUrbFails, LaterUrbFails, kernel
    <3>3. QED BY <3>1, <3>2
  <2>3. \A u \in Transfers : user'[u] = Idle \/ user'[u].op \in {"submit", "discard"} BY <1>7 DEF TypeInv, TypeOK
  <2>4. QED BY <1>1, <1>6, <2>1, <2>2, <2>3 DEF TypeInv, TypeOK, Privs
<1>9. ASSUME NEW u \in Transfers PROVE LayInv(u)'
  <2>1. Reaping' => Reaping /\ Within(done, done', u) BY <1>1, SameWithin DEF Reaping, EarnedInv
  <2>2. user'[u].op = "submit" => user'[u] = user[u] /\ priv'[u].retired = priv[u].retired
    BY <1>6, <1>7 DEF Idle
  <2>3. priv'[u].n = priv[u].n /\ priv'[u].moved = priv[u].moved /\ (priv'[u].urbs => priv[u].urbs) BY <1>5, <1>6
  <2>4. LayInv(u) /\ UNCHANGED <<type, size[u]>> BY <1>1 DEF TypeInv
  <2>5. QED BY <2>1, <2>2, <2>3, <2>4, LayStays
<1>10. QED BY <1>1, <1>8, <1>9 DEF TypeInv

\* How URBs come back to a transfer: r is what is put behind the URBs to be
\* reaped, and x the number of units that its first URB brings.
Returns(t, r, x) ==
  /\ done' = done \o r /\ r \in Seq(Range(r)) /\ x \in Nat /\ sent'[t] = sent[t] + x
  /\ \A k \in DOMAIN pend'[t] : \E j \in DOMAIN pend[t] : pend'[t][k] = pend[t][j]
  /\ \A j \in DOMAIN pend[t] : \/ \E k \in DOMAIN pend'[t] : pend'[t][k] = pend[t][j]
                               \/ \E k \in UrbsOf(r, t) : r[k].i = pend[t][j]
  /\ \A k \in UrbsOf(r, t) : (\E j \in DOMAIN pend[t] : r[k].i = pend[t][j]) /\ r[k].n = IF k = 1 THEN x ELSE 0
  /\ x = 0 => buf'[t] = buf[t]
  /\ x > 0 => /\ 1 \in UrbsOf(r, t) /\ x <= size[t][r[1].i] /\ type[t] # "iso"
              /\ \A j \in DOMAIN pend'[t] : r[1].i < pend'[t][j]
              /\ buf'[t] = Filled(buf[t], Offset(t, r[1].i), sent[t], x)

\* What the URBs to be reaped are afterwards.
Joined(t, r) ==
  /\ \A k \in UrbsOf(done, t) : k \in UrbsOf(done', t) /\ done'[k] = done[k] /\ k < Len(done) + 1
  /\ \A k \in UrbsOf(done', t) : k \notin UrbsOf(done, t) =>
       k > Len(done) /\ k - Len(done) \in UrbsOf(r, t) /\ done'[k] = r[k - Len(done)]
  /\ \A k \in UrbsOf(r, t) : Len(done) + k \in UrbsOf(done', t) /\ done'[Len(done) + k] = r[k]
  /\ UrbsOf(done', t) \subseteq Nat /\ UrbsOf(done, t) \subseteq Nat /\ Len(done) \in Nat
  /\ UrbsOf(r, t) \subseteq Nat

\* URBs that come back are added behind those to be reaped.
LEMMA MoreToReap ==
  ASSUME Fields, NEW r, done' = done \o r, r \in Seq(Range(r)), NEW t
  PROVE  Joined(t, r)
<1>1. done \in Seq(Range(done)) /\ done' \in Seq(Range(done')) BY RangeOfConcat DEF Fields
<1>2. /\ Len(done) \in Nat /\ Len(r) \in Nat /\ DOMAIN r = 1 .. Len(r) /\ UrbsOf(done, t) \subseteq 1 .. Len(done)
      /\ UrbsOf(r, t) \subseteq 1 .. Len(r) /\ UrbsOf(done', t) \subseteq Nat
  <2>1. Len(done) \in Nat /\ UrbsOf(done, t) \subseteq 1 .. Len(done) BY <1>1, UrbsOfFinite
  <2>2. Len(r) \in Nat /\ DOMAIN r = 1 .. Len(r) /\ UrbsOf(r, t) \subseteq 1 .. Len(r) BY UrbsOfFinite
  <2>3. Len(done') \in Nat /\ UrbsOf(done', t) \subseteq 1 .. Len(done') BY <1>1, UrbsOfFinite
  <2>4. UrbsOf(done', t) \subseteq Nat BY <2>3
  <2>5. QED BY <2>1, <2>2, <2>4
<1> DEFINE new == {k \in Len(done) + 1 .. Len(done) + Len(r) : r[k - Len(done)].t = t}
<1>3. UrbsOf(done', t) = UrbsOf(done, t) \cup new
  BY <1>1, UrbsOfConcat
<1>4. /\ \A k \in 1 .. Len(done) : done'[k] = done[k]
      /\ \A k \in Len(done) + 1 .. Len(done) + Len(r) : done'[k] = r[k - Len(done)]
  BY <1>1, UrbsOfConcat
<1>5. \A k \in UrbsOf(r, t) : /\ Len(done) + k \in Len(done) + 1 .. Len(done) + Len(r)
                              /\ (Len(done) + k) - Len(done) = k /\ r[k].t = t
  BY <1>2 DEF UrbsOf
<1>6. \A k \in new : k > Len(done) /\ k - Len(done) \in UrbsOf(r, t) /\ done'[k] = r[k - Len(done)]
  BY <1>2, <1>4 DEF UrbsOf
<1>7. \A k \in UrbsOf(r, t) : Len(done) + k \in new /\ done'[Len(done) + k] = r[k] BY <1>4, <1>5
<1> HIDE DEF new
<1>8. QED BY <1>2, <1>3, <1>4, <1>6, <1>7 DEF Joined

\* URBs are under way only of a transfer that is set up.
LEMMA PendKnown ==
  ASSUME TypeInv, FlyingInv, AddUpInv, NEW t \in Transfers
  PROVE  /\ pend[t] \in Seq(Nat) /\ DOMAIN pend[t] = 1 .. Len(pend[t]) /\ Len(pend[t]) \in Nat
         /\ \A j \in DOMAIN pend[t] :
              /\ connected /\ Reaping /\ priv[t].urbs /\ Laid(t) /\ InOrder(t) /\ Highest(t) \in 0 .. priv[t].n
              /\ pend[t][j] \in 1 .. Highest(t) /\ pend[t][j] \in 1 .. priv[t].n
<1>1. pend[t] \in Seq(Nat) BY DEF TypeInv, TypeOK
<1>2. DOMAIN pend[t] = 1 .. Len(pend[t]) /\ Len(pend[t]) \in Nat BY <1>1, LenProperties
<1> SUFFICES ASSUME NEW j \in DOMAIN pend[t]
             PROVE  /\ connected /\ Reaping /\ priv[t].urbs /\ Laid(t) /\ InOrder(t) /\ Highest(t) \in 0 .. priv[t].n
                    /\ pend[t][j] \in 1 .. Highest(t) /\ pend[t][j] \in 1 .. priv[t].n
  BY <1>1, <1>2
<1>3. pend[t] # <<>> OBVIOUS
<1>4. connected BY <1>3 DEF TypeInv
<1>5. Reaping BY <1>4 DEF TypeInv, TypeOK, FlyingInv, Reaping
<1>6. InOrder(t) BY <1>5 DEF AddUpInv, Whole
<1>7. priv[t].urbs /\ PendInOrder(t) /\ CallsInOrder(t) BY <1>3, <1>6 DEF InOrder
<1>8. Laid(t) BY <1>7 DEF TypeInv, LayInv
<1>9. Highest(t) \in 0 .. priv[t].n
  <2>1. priv[t].n \in Nat BY <1>7 DEF CallsInOrder
  <2>2. user[t].op = "submit" => user[t].i \in 1 .. priv[t].n BY <1>7 DEF CallsInOrder
  <2>3. QED BY <2>1, <2>2 DEF Highest
<1>10. pend[t][j] \in 1 .. Highest(t) BY <1>7 DEF PendInOrder
<1>11. pend[t][j] \in 1 .. priv[t].n
  <2>1. priv[t].n \in Nat BY <1>7 DEF CallsInOrder
  <2>2. QED BY <1>9, <1>10, <2>1
<1>12. QED BY <1>4, <1>5, <1>6, <1>7, <1>8, <1>9, <1>10, <1>11

\* Where the parts of a transfer lie.
LEMMA PartsLie ==
  ASSUME UsbfsAssumption, NEW t, Laid(t)
  PROVE  /\ priv[t].n \in Nat \ {0} /\ Offset(t, 1) = 0
         /\ \A i \in 1 .. priv[t].n : /\ Offset(t, i) \in Nat /\ size[t][i] \in Nat
                                      /\ Offset(t, i) + size[t][i] <= BufferLength
         /\ \A i \in 1 .. priv[t].n - 1 : Offset(t, i + 1) = Offset(t, i) + size[t][i]
         /\ IF type[t] = "iso" THEN Sum(size[t]) = Offset(t, priv[t].n) + size[t][priv[t].n]
            ELSE \A i \in 1 .. priv[t].n : \A j \in 1 .. i - 1 : Offset(t, j) + size[t][j] <= Offset(t, i)
<1>1. Lies(type[t], size[t], priv[t].n) BY DEF Laid
<1>2. \A i : Offset(t, i) = Begins(type[t], size[t], i) BY OffsetBegins
<1>3. size[t] \in Seq(Nat) /\ Len(size[t]) = priv[t].n BY <1>1 DEF Lies
<1>4. \A i \in 1 .. priv[t].n : size[t][i] \in Nat BY <1>3
<1>5. /\ priv[t].n \in Nat \ {0} /\ Begins(type[t], size[t], 1) = 0
      /\ \A i \in 1 .. priv[t].n : /\ Begins(type[t], size[t], i) \in Nat
                                   /\ Begins(type[t], size[t], i) + size[t][i] <= BufferLength
      /\ \A i \in 1 .. priv[t].n - 1 : Begins(type[t], size[t], i + 1) = Begins(type[t], size[t], i) + size[t][i]
      /\ IF type[t] = "iso" THEN Sum(size[t]) = Begins(type[t], size[t], priv[t].n) + size[t][priv[t].n]
         ELSE \A i \in 1 .. priv[t].n : \A j \in 1 .. i - 1 :
                Begins(type[t], size[t], j) + size[t][j] <= Begins(type[t], size[t], i)
  BY <1>1 DEF Lies
<1>6. type[t] = "iso" => Sum(size[t]) = Offset(t, priv[t].n) + size[t][priv[t].n] BY <1>2, <1>5
<1>7. type[t] # "iso" => \A i \in 1 .. priv[t].n : \A j \in 1 .. i - 1 : Offset(t, j) + size[t][j] <= Offset(t, i)
  BY <1>2, <1>5
<1>8. /\ priv[t].n \in Nat \ {0} /\ Offset(t, 1) = 0
      /\ \A i \in 1 .. priv[t].n : /\ Offset(t, i) \in Nat /\ size[t][i] \in Nat
                                   /\ Offset(t, i) + size[t][i] <= BufferLength
      /\ \A i \in 1 .. priv[t].n - 1 : Offset(t, i + 1) = Offset(t, i) + size[t][i]
  BY <1>2, <1>4, <1>5
<1>9. QED BY <1>6, <1>7, <1>8

\* Data that comes back lands in the part of the URB it came with.
LEMMA LandedReturns ==
  ASSUME UsbfsAssumption, Fields, NEW t \in Transfers, Laid(t), Landed(t), NEW r, NEW x, Returns(t, r, x),
         \A j \in DOMAIN pend[t] : pend[t][j] \in 1 .. priv[t].n, size'[t] = size[t]
  PROVE  Landed(t)'
<1> SUFFICES ASSUME NEW k \in UrbsOf(done', t) PROVE done'[k].n \in 0 .. size'[t][done'[k].i] BY DEF Landed
<1>1. done' = done \o r /\ r \in Seq(Range(r)) BY DEF Returns
<1>0. Joined(t, r) BY <1>1, MoreToReap
<1>2. CASE k \in UrbsOf(done, t)
  <2>1. done'[k] = done[k] BY <1>0, <1>2 DEF Joined
  <2>2. QED BY <1>2, <2>1 DEF Landed
<1>3. CASE k \notin UrbsOf(done, t)
  <2> DEFINE l == k - Len(done)
  <2>0. \A m \in UrbsOf(done', t) : m \notin UrbsOf(done, t) =>
          m > Len(done) /\ m - Len(done) \in UrbsOf(r, t) /\ done'[m] = r[m - Len(done)]
    BY <1>0 DEF Joined
  <2>1. l \in UrbsOf(r, t) /\ done'[k] = r[l] BY <1>3, <2>0
  <2> HIDE DEF l
  <2>2. PICK j \in DOMAIN pend[t] : r[l].i = pend[t][j] BY <2>1 DEF Returns
  <2>3. size[t][r[l].i] \in Nat BY <2>2, PartsLie
  <2>4. r[l].n = (IF l = 1 THEN x ELSE 0) /\ x \in Nat BY <2>1 DEF Returns
  <2>5. x > 0 => x <= size[t][r[1].i] BY DEF Returns
  <2>6. CASE l = 1 BY <2>1, <2>3, <2>4, <2>5, <2>6
  <2>7. CASE l # 1 BY <2>1, <2>3, <2>4, <2>7
  <2>8. QED BY <2>6, <2>7
<1>4. QED BY <1>2, <1>3

\* Only the transfer the URBs belong to is touched by them.
OnlyReturns(t, r, x) ==
  /\ Returns(t, r, x) /\ r \in Seq(Urbs) /\ \A k \in 1 .. Len(r) : r[k].t = t
  /\ \E p \in Seq(Nat) : pend' = [pend EXCEPT ![t] = p]
  /\ \E b : buf' = [buf EXCEPT ![t] = b]
  /\ \E m : sent' = [sent EXCEPT ![t] = m]

\* URBs that come back leave all fields what they should be.
LEMMA ReturnTyped ==
  ASSUME UsbfsAssumption, TypeInv, FlyingInv, EarnedInv, AddUpInv, NEW t \in Transfers,
         NEW r, NEW x, OnlyReturns(t, r, x),
         UNCHANGED <<fixed, priv, flags, size, app, timing, connected, calls>>,
         cut' \subseteq Transfers, fault' \in [Transfers -> SUBSET Faults],
         handler'.op \in {"poll", "discard", "report", "sweep", "clear", "swept", "gone"}, Reaping' => Reaping,
         \A u \in Transfers : /\ user'[u] = Idle \/ user'[u].op \in {"submit", "discard"}
                              /\ user'[u].op = "submit" => user'[u] = user[u]
  PROVE  TypeInv'
<1>1. UNCHANGED <<type, continuation>> /\ Fields BY DEF fixed, EarnedInv
<1>2. Returns(t, r, x) /\ r \in Seq(Urbs) /\ (\A k \in 1 .. Len(r) : r[k].t = t) BY DEF OnlyReturns
<1>3. done' = done \o r /\ r \in Seq(Range(r)) /\ x \in Nat /\ sent'[t] = sent[t] + x BY <1>2 DEF Returns
<1>4. done' \in Seq(Urbs) BY <1>2, <1>3, ConcatProperties DEF TypeInv, TypeOK
<1>5. sent' \in [Transfers -> Nat] /\ sent[t] \in Nat
  <2>1. sent \in [Transfers -> Nat] BY DEF TypeInv, TypeOK
  <2>2. PICK m : sent' = [sent EXCEPT ![t] = m] BY DEF OnlyReturns
  <2>3. m \in Nat BY <1>3, <2>1, <2>2
  <2>4. QED BY <2>1, <2>2, <2>3
<1>6. buf' \in [Transfers -> [Positions -> Nat]]
  <2>1. buf \in [Transfers -> [Positions -> Nat]] BY DEF TypeInv, TypeOK
  <2>2. PICK b : buf' = [buf EXCEPT ![t] = b] BY DEF OnlyReturns
  <2>3. b \in [Positions -> Nat]
    <3>1. b = buf'[t] BY <2>1, <2>2
    <3>2. CASE x = 0 BY <1>2, <2>1, <3>1, <3>2 DEF Returns
    <3>3. CASE x > 0
      <4> DEFINE a == Offset(t, r[1].i)
      <4>1. b = Filled(buf[t], a, sent[t], x) /\ 1 \in UrbsOf(r, t) BY <1>2, <3>1, <3>3 DEF Returns
      <4>2. PICK j \in DOMAIN pend[t] : r[1].i = pend[t][j] BY <1>2, <4>1 DEF Returns
      <4>3. a \in Nat BY <4>2, PendKnown, PartsLie
      <4> HIDE DEF a
      <4>4. \A k \in Positions : k \in Nat BY DEF Positions, UsbfsAssumption
      <4>5. QED BY <1>5, <2>1, <4>1, <4>3, <4>4 DEF Filled
    <3>4. QED BY <1>3, <3>2, <3>3
  <2>4. QED BY <2>1, <2>2, <2>3
<1>7. pend' \in [Transfers -> Seq(Nat)] /\ \A u \in Transfers \ {t} : pend'[u] = pend[u]
  <2>1. pend \in [Transfers -> Seq(Nat)] BY DEF TypeInv, TypeOK
  <2>2. QED BY <2>1 DEF OnlyReturns
<1>8. TypeOK' BY <1>1, <1>4, <1>5, <1>6, <1>7 DEF TypeInv, TypeOK
<1>9. ~connected' => \A u \in Transfers : pend'[u] = <<>>
  <2> SUFFICES ASSUME ~connected PROVE pend'[t] = <<>> BY <1>7 DEF TypeInv
  <2>1. DOMAIN pend[t] = {} BY PendKnown
  <2>2. DOMAIN pend'[t] = {} BY <1>2, <2>1 DEF Returns
  <2> DEFINE p == pend'[t]
  <2>3. p \in Seq(Nat) /\ DOMAIN p = {} BY <1>7, <2>2
  <2> HIDE DEF p
  <2>4. Len(p) \in Nat /\ DOMAIN p = 1 .. Len(p) BY <2>3, LenProperties
  <2>5. Len(p) = 0 BY <2>3, <2>4
  <2>6. p = <<>> BY <2>3, <2>5, EmptySeq
  <2>7. QED BY <2>6 DEF p
<1>10. ASSUME NEW u \in Transfers \ {t} PROVE LayInv(u)'
  <2>1. Within(done, done', u)
    <3>1. DOMAIN r = 1 .. Len(r) BY <1>2, LenProperties
    <3>2. QED BY <1>1, <1>2, <1>3, <3>1, MoreWithin
  <2>2. QED BY <1>1, <2>1, LayStays DEF TypeInv
<1>11. LayInv(t)'
  <2>1. LayInv(t) BY DEF TypeInv
  <2>2. user'[t].op = "submit" => Submitting(t)' BY <2>1 DEF LayInv, Submitting
  <2>3. ASSUME priv[t].urbs, Reaping' PROVE Landed(t)'
    <3>1. Laid(t) /\ Landed(t) BY <2>1, <2>3 DEF LayInv
    <3>2. QED BY <1>1, <1>2, <3>1, PendKnown, LandedReturns
  <2>4. QED BY <1>1, <2>1, <2>2, <2>3 DEF LayInv, Laid
<1>12. QED BY <1>8, <1>9, <1>10, <1>11 DEF TypeInv

\* Data of length zero changes nothing in the buffer.
LEMMA FilledNothing ==
  ASSUME UsbfsAssumption, NEW b \in [Positions -> Nat], NEW a \in Nat, NEW m PROVE Filled(b, a, m, 0) = b
<1>1. \A k \in Positions : k \in Nat BY DEF Positions, UsbfsAssumption
<1>2. \A k \in Positions : k \notin a + 1 .. a + 0 BY <1>1
<1>3. QED BY <1>2 DEF Filled

\* A discarded URB comes back, unless it is there already.
LEMMA DiscardReturns ==
  ASSUME UsbfsAssumption, TypeInv, FlyingInv, EarnedInv, AddUpInv, NEW t \in Transfers, NEW i, Discard(t, i)
  PROVE  \E r, x : OnlyReturns(t, r, x) /\ \A k \in 1 .. Len(r) : r[k].code = "cancelled"
<1>1. /\ pend \in [Transfers -> Seq(Nat)] /\ buf \in [Transfers -> [Positions -> Nat]] /\ sent \in [Transfers -> Nat]
      /\ done \in Seq(Urbs) /\ Fields
  BY DEF TypeInv, TypeOK, EarnedInv
<1>2. CASE ~Contains(pend[t], i)
  <2> DEFINE r == <<>>
  <2>1. UNCHANGED <<done, pend, buf, sent>> BY <1>2 DEF Discard
  <2>2. r \in Seq(Urbs) /\ r \in Seq(Range(r)) /\ Len(r) = 0 /\ UrbsOf(r, t) = {} /\ done \o r = done
    <3>1. r \in Seq(Urbs) /\ Len(r) = 0 /\ DOMAIN r = {} BY EmptySeq
    <3>2. r \in Seq(Range(r)) BY EmptySeq
    <3>3. done \o r = done BY <1>1, ConcatEmptySeq
    <3>4. QED BY <3>1, <3>2, <3>3 DEF UrbsOf
  <2> HIDE DEF r
  <2>3. Returns(t, r, 0)
    <3>1. sent'[t] = sent[t] + 0 BY <1>1, <2>1
    <3>2. done' = done \o r /\ pend' = pend /\ buf' = buf BY <2>1, <2>2
    <3>3. QED BY <2>2, <3>1, <3>2 DEF Returns
  <2>4. OnlyReturns(t, r, 0)
    <3>1. pend' = [pend EXCEPT ![t] = pend[t]] /\ buf' = [buf EXCEPT ![t] = buf[t]]
          /\ sent' = [sent EXCEPT ![t] = sent[t]]
      BY <1>1, <2>1
    <3>2. \E p \in Seq(Nat) : pend' = [pend EXCEPT ![t] = p]
      <4>1. pend[t] \in Seq(Nat) BY <1>1
      <4>2. QED BY <3>1, <4>1
    <3>3. (\E b : buf' = [buf EXCEPT ![t] = b]) /\ \E m : sent' = [sent EXCEPT ![t] = m] BY <3>1
    <3>4. \A k \in 1 .. Len(r) : r[k].t = t
      <4>1. 1 .. Len(r) = {} BY <2>2
      <4>2. QED BY <4>1
    <3>5. QED BY <2>2, <2>3, <3>2, <3>3, <3>4 DEF OnlyReturns
  <2>5. \A k \in 1 .. Len(r) : FALSE BY <2>2
  <2>6. QED BY <2>4, <2>5
<1>3. CASE Contains(pend[t], i)
  <2>1. PICK n \in IF pend[t][1] = i /\ size[t][i] > 0 /\ type[t] # "iso" THEN 0 .. size[t][i] - 1 ELSE {0} :
          /\ done' = Append(done, [t |-> t, i |-> i, code |-> "cancelled", n |-> n])
          /\ buf' = [buf EXCEPT ![t] = Filled(@, Offset(t, i), sent[t], n)]
          /\ sent' = [sent EXCEPT ![t] = @ + n]
          /\ pend' = [pend EXCEPT ![t] = RemoveAt(@, CHOOSE k \in DOMAIN @ : @[k] = i)]
    BY <1>3 DEF Discard
  <2> DEFINE p == CHOOSE k \in DOMAIN pend[t] : pend[t][k] = i
             u == [t |-> t, i |-> i, code |-> "cancelled", n |-> n]
             r == <<u>>
  <2>2. p \in DOMAIN pend[t] /\ pend[t][p] = i BY <1>1, <1>3, LenProperties DEF Contains
  <2> HIDE DEF p
  <2>3. /\ priv[t].urbs /\ Laid(t) /\ InOrder(t) /\ i \in 1 .. priv[t].n
        /\ \A j \in DOMAIN pend[t] : pend[t][j] \in 1 .. Highest(t)
    BY <2>2, PendKnown
  <2>4. size[t][i] \in Nat BY <2>3, PartsLie
  <2>5. n \in Nat /\ n <= size[t][i] /\ (n > 0 => pend[t][1] = i /\ type[t] # "iso") BY <2>1, <2>4
  <2>6. u \in Urbs /\ u.t = t /\ u.i = i /\ u.code = "cancelled" /\ u.n = n
    <3>1. i \in Nat BY <2>3, PartsLie
    <3>2. QED BY <2>5, <3>1 DEF Urbs, Codes
  <2>7. done' = Append(done, u) BY <2>1
  <2> HIDE DEF u
  <2>8. r \in Seq(Urbs) /\ Len(r) = 1 /\ r[1] = u /\ DOMAIN r = {1} /\ r \in Seq(Range(r)) /\ done' = done \o r
    <3>1. r \in Seq(Urbs) /\ Len(r) = 1 /\ r[1] = u /\ DOMAIN r = {1} BY <2>6
    <3>2. r \in Seq(Range(r)) BY <3>1, SeqOfRange
    <3>3. done' = done \o r BY <1>1, <2>6, <2>7, AppendIsConcat
    <3>4. QED BY <3>1, <3>2, <3>3
  <2> HIDE DEF r
  <2>9. UrbsOf(r, t) = {1} BY <2>6, <2>8 DEF UrbsOf
  <2> DEFINE s == pend[t]  q == RemoveAt(s, p)
  <2>10. pend' = [pend EXCEPT ![t] = q] /\ pend'[t] = q
    <3>1. pend' = [pend EXCEPT ![t] = RemoveAt(@, CHOOSE k \in DOMAIN @ : @[k] = i)] BY <2>1
    <3>2. QED BY <1>1, <3>1 DEF p
  <2>11. s \in Seq(Nat) /\ s \in Seq(Range(s)) /\ p \in DOMAIN s /\ Len(s) \in Nat /\ DOMAIN s = 1 .. Len(s) /\ s[p] = i
    BY <1>1, <2>2, LenProperties, SeqOfRange
  <2>12. \A j, k \in DOMAIN s : j < k => s[j] < s[k]
    BY <2>3 DEF InOrder, PendInOrder
  <2>13. \A k \in DOMAIN s : s[k] \in Nat BY SMTT(40), <2>11
  <2> HIDE DEF s
  <2>14. /\ Len(q) = Len(s) - 1 /\ DOMAIN q = 1 .. Len(s) - 1
         /\ \A k \in 1 .. Len(s) - 1 : q[k] = IF k < p THEN s[k] ELSE s[k + 1]
    BY ZenonT(30), <2>11, RemovalShifts
  <2>15. q \in Seq(Range(q)) BY <2>11, RangeOfRemoval
  <2> HIDE DEF q
  <2>16. \A k \in DOMAIN q : k + 1 \in DOMAIN s /\ k \in DOMAIN s /\ (q[k] = s[k] \/ q[k] = s[k + 1])
    <3> SUFFICES ASSUME NEW k \in DOMAIN q
                 PROVE  k + 1 \in DOMAIN s /\ k \in DOMAIN s /\ (q[k] = s[k] \/ q[k] = s[k + 1])
      OBVIOUS
    <3>1. k \in 1 .. Len(s) - 1 BY <2>14
    <3>2. k + 1 \in DOMAIN s /\ k \in DOMAIN s BY <2>11, <3>1
    <3>3. QED BY <2>14, <3>1, <3>2
  <2>17. \A k \in DOMAIN q : \E j \in DOMAIN s : q[k] = s[j] BY <2>16
  <2>18. \A j \in DOMAIN s : j = p \/ \E k \in DOMAIN q : q[k] = s[j]
    <3> SUFFICES ASSUME NEW j \in DOMAIN s, j # p PROVE \E k \in DOMAIN q : q[k] = s[j] OBVIOUS
    <3>1. j \in Nat /\ p \in Nat /\ j \in 1 .. Len(s) /\ p \in 1 .. Len(s) BY <2>11
    <3>2. CASE j < p
      <4>1. j \in 1 .. Len(s) - 1 BY <2>11, <3>1, <3>2
      <4>2. QED BY <2>14, <3>2, <4>1
    <3>3. CASE ~(j < p)
      <4>1. j - 1 \in 1 .. Len(s) - 1 /\ ~(j - 1 < p) /\ (j - 1) + 1 = j BY <2>11, <3>1, <3>3
      <4>2. QED BY <2>14, <4>1
    <3>4. QED BY <3>2, <3>3
  <2>19. n > 0 => \A k \in DOMAIN q : i < q[k]
    <3> SUFFICES ASSUME n > 0, NEW k \in DOMAIN q PROVE i < q[k] OBVIOUS
    <3>1. 1 \in DOMAIN s /\ s[1] = i
      <4>1. p \in 1 .. Len(s) BY <2>11
      <4>2. QED BY <2>5, <2>11, <4>1 DEF s
    <3>2. p = 1
      <4>1. ~(1 < p) BY <2>11, <2>12, <2>13, <3>1
      <4>2. QED BY <2>11, <4>1
    <3>3. k \in 1 .. Len(s) - 1 /\ q[k] = s[k + 1] BY <2>14, <3>2
    <3>4. 1 < k + 1 /\ k + 1 \in DOMAIN s BY <2>16, <3>3
    <3>5. QED BY <2>12, <3>1, <3>3, <3>4
  <2>20. q \in Seq(Nat)
    <3>1. \A k \in DOMAIN q : q[k] \in Nat BY <2>13, <2>17
    <3>2. Range(q) \subseteq Nat BY <3>1 DEF Range
    <3>3. QED BY <2>15, <3>2, SeqMonotonic
  <2>21. buf'[t] = Filled(buf[t], Offset(t, i), sent[t], n) /\ sent'[t] = sent[t] + n BY <1>1, <2>1
  <2>22. n = 0 => buf'[t] = buf[t]
    <3> SUFFICES ASSUME n = 0 PROVE Filled(buf[t], Offset(t, i), sent[t], 0) = buf[t] BY <2>21
    <3>1. Offset(t, i) \in Nat BY <2>3, PartsLie
    <3>2. QED BY <1>1, <3>1, FilledNothing
  <2>23. Returns(t, r, n)
    <3>1. \A k \in DOMAIN pend'[t] : \E j \in DOMAIN pend[t] : pend'[t][k] = pend[t][j] BY <2>10, <2>17 DEF s
    <3>2. \A j \in DOMAIN pend[t] : \/ \E k \in DOMAIN pend'[t] : pend'[t][k] = pend[t][j]
                                    \/ \E k \in UrbsOf(r, t) : r[k].i = pend[t][j]
      BY <2>2, <2>6, <2>8, <2>9, <2>10, <2>18 DEF s
    <3>3. \A k \in UrbsOf(r, t) : (\E j \in DOMAIN pend[t] : r[k].i = pend[t][j]) /\ r[k].n = IF k = 1 THEN n ELSE 0
      BY <2>2, <2>6, <2>8, <2>9
    <3>4. n > 0 => \A j \in DOMAIN pend'[t] : r[1].i < pend'[t][j] BY <2>6, <2>8, <2>10, <2>19
    <3>5. QED BY <2>5, <2>6, <2>8, <2>9, <2>21, <2>22, <3>1, <3>2, <3>3, <3>4 DEF Returns
  <2>24. OnlyReturns(t, r, n)
    <3>1. \A k \in 1 .. Len(r) : r[k].t = t BY <2>6, <2>8
    <3>2. QED BY <2>1, <2>8, <2>10, <2>20, <2>23, <3>1 DEF OnlyReturns
  <2>25. \A k \in 1 .. Len(r) : r[k].code = "cancelled" BY <2>6, <2>8
  <2>26. QED BY <2>24, <2>25
<1>4. QED BY <1>2, <1>3

\* What a step that reaps nothing of t leaves of it.
Keeps(t) ==
  /\ priv'[t].urbs => priv[t].urbs
  /\ priv'[t].moved = priv[t].moved
  /\ priv'[t].action = "normal" =>
       /\ priv[t].action = "normal" /\ priv'[t].retired = priv[t].retired /\ priv'[t].n = priv[t].n
       /\ priv'[t].off = priv[t].off /\ Highest(t)' = Highest(t)
  /\ user'[t].op = "submit" => user[t].op = "submit"
  /\ UNCHANGED <<type, continuation, size[t]>> /\ fault[t] \subseteq fault'[t]

\* URBs that come back leave the numbers to be reaped without a gap.
LEMMA GaplessKept ==
  ASSUME Fields, NEW t, Gapless(t), NEW r, NEW x, Returns(t, r, x),
         priv'[t].retired = priv[t].retired, Highest(t)' = Highest(t)
  PROVE  Gapless(t)'
<1>1. done' = done \o r /\ r \in Seq(Range(r)) BY DEF Returns
<1>2. Joined(t, r) BY <1>1, MoreToReap
<1>3. ASSUME NEW i \in priv[t].retired + 1 .. Highest(t)
      PROVE  (\E k \in UrbsOf(done', t) : done'[k].i = i) \/ (\E k \in DOMAIN pend'[t] : pend'[t][k] = i)
  <2>1. CASE \E k \in UrbsOf(done, t) : done[k].i = i BY <1>2, <2>1 DEF Joined
  <2>2. CASE \E k \in DOMAIN pend[t] : pend[t][k] = i
    <3>1. PICK j \in DOMAIN pend[t] : pend[t][j] = i BY <2>2
    <3>2. CASE \E k \in DOMAIN pend'[t] : pend'[t][k] = pend[t][j] BY <3>1, <3>2
    <3>3. CASE \E k \in UrbsOf(r, t) : r[k].i = pend[t][j] BY <1>2, <3>1, <3>3 DEF Joined
    <3>4. QED BY <3>2, <3>3 DEF Returns
  <2>3. QED BY <2>1, <2>2 DEF Gapless
<1>4. ASSUME NEW k \in UrbsOf(done', t) PROVE done'[k].i > priv[t].retired
  <2>1. CASE k \in UrbsOf(done, t) BY <1>2, <2>1 DEF Joined, Gapless
  <2>2. CASE k \notin UrbsOf(done, t)
    <3>1. k - Len(done) \in UrbsOf(r, t) /\ done'[k] = r[k - Len(done)] BY <1>2, <2>2 DEF Joined
    <3> DEFINE l == k - Len(done)
    <3>2. l \in UrbsOf(r, t) /\ done'[k] = r[l] BY <3>1
    <3> HIDE DEF l
    <3>3. QED BY <3>2 DEF Returns, Gapless
  <2>3. QED BY <2>1, <2>2
<1>5. \A k \in DOMAIN pend'[t] : pend'[t][k] > priv[t].retired BY DEF Returns, Gapless
<1>6. QED BY <1>3, <1>4, <1>5 DEF Gapless

\* Where a URB to be reaped lies, and that of one under way lies behind it.
LEMMA HoldsLie ==
  ASSUME UsbfsAssumption, TypeInv, FlyingInv, EarnedInv, AddUpInv, Reaping, NEW t \in Transfers, priv[t].urbs,
         type[t] # "iso", NEW k \in Holds(t)
  PROVE  /\ k \in UrbsOf(done, t) /\ k \in Nat /\ done[k].n \in Nat /\ done[k].n > 0 /\ At(t, k) \in Nat
         /\ done[k].i \in 1 .. priv[t].n /\ At(t, k) + done[k].n <= BufferLength
         /\ FirstUnit(t, k) \in Nat /\ LastUnit(t, k) \in Int
         /\ \A i \in 1 .. priv[t].n : done[k].i < i => At(t, k) + done[k].n <= Offset(t, i)
<1>1. Laid(t) /\ Landed(t) /\ InOrder(t) BY DEF TypeInv, LayInv, AddUpInv, Whole
<1>2. k \in UrbsOf(done, t) /\ done[k].n > 0 BY DEF Holds
<1>3. k \in Nat BY <1>2, UrbsOfFinite DEF EarnedInv, Fields
<1>4. priv[t].n \in Nat \ {0} BY <1>1, PartsLie
<1>5. done[k].i \in 1 .. priv[t].n
  <2>1. done[k].i \in 1 .. Highest(t) BY <1>1, <1>2 DEF InOrder, DoneInPlace
  <2>2. user[t].op = "submit" => user[t].i \in 1 .. priv[t].n BY <1>1 DEF InOrder, CallsInOrder
  <2>3. Highest(t) \in 0 .. priv[t].n BY <1>4, <2>2 DEF Highest
  <2>4. QED BY <1>4, <2>1, <2>3
<1> DEFINE i == done[k].i  n == done[k].n  s == size[t][i]  a == Offset(t, i)
<1>6. n \in 0 .. s BY <1>1, <1>2 DEF Landed
<1>7. a \in Nat /\ s \in Nat /\ a + s <= BufferLength BY <1>1, <1>5, PartsLie
<1>8. BufferLength \in Nat BY DEF UsbfsAssumption
<1>9. \A j \in 1 .. priv[t].n : i < j => a + s <= Offset(t, j) /\ Offset(t, j) \in Nat
  <2> SUFFICES ASSUME NEW j \in 1 .. priv[t].n, i < j PROVE a + s <= Offset(t, j) /\ Offset(t, j) \in Nat OBVIOUS
  <2>1. i \in 1 .. j - 1 BY <1>4, <1>5
  <2>2. QED BY <1>1, <2>1, PartsLie
<1>10. n > 0 BY <1>2
<1>11. a = At(t, k) BY DEF At
<1>14. n = done[k].n /\ i = done[k].i OBVIOUS
<1> HIDE DEF i, n, s, a
<1>12. n \in Nat /\ a + n <= BufferLength /\ \A j \in 1 .. priv[t].n : i < j => a + n <= Offset(t, j)
  BY <1>6, <1>7, <1>8, <1>9
<1>13. FirstUnit(t, k) \in Nat /\ LastUnit(t, k) \in Int
  <2>1. a + 1 \in Positions BY <1>7, <1>8, <1>10, <1>12 DEF Positions
  <2>2. buf[t] \in [Positions -> Nat] BY DEF TypeInv, TypeOK
  <2>3. FirstUnit(t, k) \in Nat BY <1>11, <2>1, <2>2 DEF FirstUnit
  <2>4. QED BY <1>12, <1>14, <2>3 DEF LastUnit
<1>15. QED BY <1>2, <1>3, <1>5, <1>7, <1>11, <1>12, <1>13, <1>14

\* The URBs that bring something, after others have come back.
Held(t, k) ==
  /\ k \in Holds(t)' /\ done'[k] = done[k] /\ At(t, k)' = At(t, k) /\ k < Len(done) + 1
  /\ \A y \in 1 .. done[k].n : buf'[t][At(t, k) + y] = buf[t][At(t, k) + y]
  /\ FirstUnit(t, k)' = FirstUnit(t, k) /\ LastUnit(t, k)' = LastUnit(t, k)

\* What the first of the URBs that come back brings.
Brought(t, k, r, x) ==
  /\ x > 0 /\ k = Len(done) + 1 /\ done'[k] = r[1] /\ done'[k].n = x /\ At(t, k)' = Offset(t, r[1].i)
  /\ \A y \in 1 .. x : buf'[t][At(t, k)' + y] = sent[t] + y
  /\ FirstUnit(t, k)' = sent[t] + 1 /\ LastUnit(t, k)' = sent[t] + x
  /\ \E j \in DOMAIN pend[t] : r[1].i = pend[t][j]

\* What URBs to be reaped have brought stays where it is when others
\* come back, and those others bring their own.
LEMMA HoldsAfter ==
  ASSUME UsbfsAssumption, TypeInv, FlyingInv, EarnedInv, AddUpInv, Reaping, NEW t \in Transfers, priv[t].urbs,
         type[t] # "iso", Carried(t), NEW r, NEW x, Returns(t, r, x), UNCHANGED <<type, size[t]>>
  PROVE  /\ \A k \in Holds(t) : Held(t, k)
         /\ \A y \in 1 .. priv[t].moved : buf'[t][y] = buf[t][y]
         /\ \A k \in Holds(t)' : k \notin Holds(t) => Brought(t, k, r, x)
         /\ x > 0 => Len(done) + 1 \in Holds(t)' /\ Len(done) + 1 \notin Holds(t)
<1>1. done' = done \o r /\ r \in Seq(Range(r)) /\ x \in Nat BY DEF Returns
<1>2. Joined(t, r) BY <1>1, MoreToReap DEF EarnedInv
<1>3. Laid(t) BY DEF TypeInv, LayInv
<1>4. /\ buf[t] \in [Positions -> Nat] /\ sent[t] \in Nat /\ priv[t].moved \in Nat /\ BufferLength \in Nat
      /\ priv[t].moved <= BufferLength
  BY DEF TypeInv, TypeOK, UsbfsAssumption, Carried
<1> DEFINE a == Offset(t, r[1].i)
<1>5. ASSUME x > 0
      PROVE  /\ a \in Nat /\ a + x <= BufferLength /\ priv[t].moved <= a
             /\ \A k \in Holds(t) : At(t, k) + done[k].n <= a
             /\ \A y \in Positions : buf'[t][y] = IF y \in a + 1 .. a + x THEN sent[t] + y - a ELSE buf[t][y]
             /\ \E j \in DOMAIN pend[t] : r[1].i = pend[t][j]
             /\ 1 \in UrbsOf(r, t) /\ r[1].n = x
  <2>1. 1 \in UrbsOf(r, t) /\ x <= size[t][r[1].i] /\ buf'[t] = Filled(buf[t], a, sent[t], x) BY <1>5 DEF Returns
  <2>2. PICK j \in DOMAIN pend[t] : r[1].i = pend[t][j] BY <2>1 DEF Returns
  <2>3. r[1].i \in 1 .. priv[t].n BY <2>2, PendKnown
  <2>4. a \in Nat /\ size[t][r[1].i] \in Nat /\ a + size[t][r[1].i] <= BufferLength BY <1>3, <2>3, PartsLie
  <2>5. priv[t].moved <= a BY <2>2 DEF Carried
  <2>6. \A k \in Holds(t) : done[k].i < r[1].i BY <2>2 DEF Carried
  <2>7. \A k \in Holds(t) : At(t, k) + done[k].n <= a BY <2>3, <2>6, HoldsLie
  <2>8. r[1].n = x BY <2>1 DEF Returns
  <2> DEFINE s == size[t][r[1].i]
  <2>9. x <= s /\ s \in Nat /\ a + s <= BufferLength /\ a \in Nat BY <2>1, <2>4
  <2> HIDE DEF a, s
  <2>10. a + x <= BufferLength BY <1>1, <1>4, <2>9
  <2>11. \A y \in Positions : buf'[t][y] = IF y \in a + 1 .. a + x THEN sent[t] + y - a ELSE buf[t][y]
    BY <2>1 DEF Filled
  <2>12. QED BY <2>1, <2>2, <2>5, <2>7, <2>8, <2>9, <2>10, <2>11
<1>6. r[1].i = r[1].i /\ a = Offset(t, r[1].i) OBVIOUS
<1>7. ASSUME NEW k \in Holds(t)
      PROVE  Held(t, k)
  <2>1. k \in UrbsOf(done, t) /\ done[k].n > 0 BY DEF Holds
  <2>2. k \in UrbsOf(done', t) /\ done'[k] = done[k] /\ k < Len(done) + 1 BY <1>2, <2>1 DEF Joined
  <2>3. k \in Holds(t)' BY <2>1, <2>2 DEF Holds
  <2>4. At(t, k)' = At(t, k) BY <2>2 DEF At, Offset
  <2> DEFINE p == At(t, k)  n == done[k].n
  <2>5. p \in Nat /\ n \in Nat /\ n > 0 /\ p + n <= BufferLength BY HoldsLie
  <2>6. x > 0 => p + n <= a BY <1>5
  <2>7. p = At(t, k) /\ n = done[k].n OBVIOUS
  <2> HIDE DEF p, n, a
  <2>8. ASSUME NEW y \in 1 .. n PROVE buf'[t][p + y] = buf[t][p + y]
    <3>1. CASE x = 0 BY <3>1 DEF Returns
    <3>2. CASE x > 0
      <4>1. p + y \in Positions BY <1>4, <2>5 DEF Positions
      <4>2. a \in Nat /\ p + n <= a BY <1>5, <2>6, <3>2
      <4>3. p + y \notin a + 1 .. a + x BY <1>1, <2>5, <4>2
      <4>4. QED BY <1>5, <3>2, <4>1, <4>3
    <3>3. QED BY <1>1, <3>1, <3>2
  <2>9. 1 \in 1 .. n BY <2>5
  <2>10. FirstUnit(t, k)' = FirstUnit(t, k) BY <2>4, <2>7, <2>8, <2>9 DEF FirstUnit
  <2>11. LastUnit(t, k)' = LastUnit(t, k) BY <2>2, <2>10 DEF LastUnit
  <2>12. QED BY <2>2, <2>3, <2>4, <2>7, <2>8, <2>10, <2>11 DEF Held
<1>8. ASSUME NEW y \in 1 .. priv[t].moved PROVE buf'[t][y] = buf[t][y]
  <2>1. CASE x = 0 BY <2>1 DEF Returns
  <2>2. CASE x > 0
    <3>1. a \in Nat /\ priv[t].moved <= a BY <1>5, <2>2
    <3> HIDE DEF a
    <3>2. y \in Positions /\ y \notin a + 1 .. a + x BY <1>1, <1>4, <3>1 DEF Positions
    <3>3. QED BY <1>5, <2>2, <3>2
  <2>3. QED BY <1>1, <2>1, <2>2
<1>9. ASSUME NEW k \in Holds(t)', k \notin Holds(t) PROVE Brought(t, k, r, x)
  <2>1. k \in UrbsOf(done', t) /\ done'[k].n > 0 BY DEF Holds
  <2>2. k \notin UrbsOf(done, t) BY <1>2, <1>9, <2>1 DEF Joined, Holds
  <2>3. k - Len(done) \in UrbsOf(r, t) /\ done'[k] = r[k - Len(done)] /\ k \in Nat /\ Len(done) \in Nat
    BY <1>2, <2>1, <2>2 DEF Joined
  <2> DEFINE l == k - Len(done)
  <2>4. l \in UrbsOf(r, t) /\ done'[k] = r[l] /\ k = Len(done) + l BY <2>3
  <2> HIDE DEF l
  <2>5. r[l].n = IF l = 1 THEN x ELSE 0 BY <2>4 DEF Returns
  <2>6. l = 1 /\ x > 0 BY <1>1, <2>1, <2>4, <2>5
  <2>7. k = Len(done) + 1 /\ done'[k] = r[1] /\ done'[k].n = x BY <2>4, <2>5, <2>6
  <2>8. At(t, k)' = a BY <2>7 DEF At, Offset
  <2> HIDE DEF a
  <2>9. ASSUME NEW y \in 1 .. x PROVE buf'[t][a + y] = sent[t] + y
    <3>1. a \in Nat /\ a + x <= BufferLength BY <1>5, <2>6
    <3>2. a + y \in Positions /\ a + y \in a + 1 .. a + x /\ (sent[t] + (a + y)) - a = sent[t] + y
      BY <1>1, <1>4, <3>1 DEF Positions
    <3>3. QED BY <1>5, <2>6, <3>2
  <2>10. 1 \in 1 .. x BY <1>1, <2>6
  <2>11. FirstUnit(t, k)' = sent[t] + 1 BY <2>8, <2>9, <2>10 DEF FirstUnit
  <2>12. LastUnit(t, k)' = sent[t] + x
    <3>1. LastUnit(t, k)' = (sent[t] + 1) + x - 1 BY <2>7, <2>11 DEF LastUnit
    <3>2. sent[t] \in Nat /\ x \in Nat BY <1>1, <1>4
    <3>3. (sent[t] + 1) + x - 1 = sent[t] + x
      <4> DEFINE m == sent[t]
      <4>1. m \in Nat BY <3>2
      <4> HIDE DEF m
      <4>2. (m + 1) + x - 1 = m + x BY <3>2, <4>1
      <4>3. QED BY <4>2 DEF m
    <3>4. QED BY <3>1, <3>3
  <2>13. \E j \in DOMAIN pend[t] : r[1].i = pend[t][j] BY <1>5, <2>6
  <2>14. QED BY <2>6, <2>7, <2>8, <2>9, <2>11, <2>12, <2>13 DEF Brought, a
<1>10. ASSUME x > 0 PROVE Len(done) + 1 \in Holds(t)' /\ Len(done) + 1 \notin Holds(t)
  <2>1. 1 \in UrbsOf(r, t) /\ r[1].n = x BY <1>5, <1>10
  <2>2. Len(done) + 1 \in UrbsOf(done', t) /\ done'[Len(done) + 1] = r[1] BY <1>2, <2>1 DEF Joined
  <2>3. Len(done) + 1 \in Holds(t)' BY <1>10, <2>1, <2>2 DEF Holds
  <2>4. Len(done) + 1 \notin UrbsOf(done, t)
    <3>1. Len(done) \in Nat BY <1>2 DEF Joined
    <3>2. \A k \in UrbsOf(done, t) : k < Len(done) + 1 BY <1>2 DEF Joined
    <3>3. ~(Len(done) + 1 < Len(done) + 1) BY <3>1
    <3>4. QED BY <3>2, <3>3
  <2>5. QED BY <2>3, <2>4 DEF Holds
<1>11. QED BY <1>7, <1>8, <1>9, <1>10

\* Carried is kept when URBs come back.
LEMMA CarriedKept ==
  ASSUME UsbfsAssumption, TypeInv, FlyingInv, EarnedInv, AddUpInv, Reaping, NEW t \in Transfers, priv[t].urbs,
         type[t] # "iso", Carried(t), NEW r, NEW x, Returns(t, r, x), Keeps(t)
  PROVE  Carried(t)'
<1>1. UNCHANGED <<type, size[t]>> /\ priv'[t].moved = priv[t].moved BY DEF Keeps
<1>2. sent'[t] = sent[t] + x /\ x \in Nat BY DEF Returns
<1>3. /\ buf[t] \in [Positions -> Nat] /\ sent[t] \in Nat /\ priv[t].moved \in Nat /\ BufferLength \in Nat
      /\ priv[t].moved <= BufferLength /\ priv[t].moved <= sent[t]
  BY DEF TypeInv, TypeOK, UsbfsAssumption, Carried
<1>4. /\ \A k \in Holds(t) : Held(t, k)
      /\ \A y \in 1 .. priv[t].moved : buf'[t][y] = buf[t][y]
      /\ \A k \in Holds(t)' : k \notin Holds(t) => Brought(t, k, r, x)
      /\ x > 0 => Len(done) + 1 \in Holds(t)' /\ Len(done) + 1 \notin Holds(t)
  BY <1>1, HoldsAfter
<1>5. /\ priv'[t].moved <= sent'[t] /\ priv'[t].moved <= BufferLength
      /\ \A y \in 1 .. priv'[t].moved : buf'[t][y] = y
  <2>1. \A y \in 1 .. priv[t].moved : buf'[t][y] = y BY <1>4 DEF Carried
  <2>2. priv[t].moved <= sent[t] + x BY <1>2, <1>3
  <2>3. QED BY <1>1, <1>2, <1>3, <2>1, <2>2
<1>6. ASSUME NEW y \in priv'[t].moved + 1 .. sent'[t]
      PROVE  \E k \in Holds(t)' : FirstUnit(t, k)' <= y /\ y <= LastUnit(t, k)'
  <2>1. CASE y <= sent[t]
    <3>1. y \in priv[t].moved + 1 .. sent[t] BY <1>1, <1>2, <1>3, <2>1
    <3>2. PICK k \in Holds(t) : FirstUnit(t, k) <= y /\ y <= LastUnit(t, k) BY <3>1 DEF Carried
    <3>3. Held(t, k) BY <1>4, <3>2
    <3>4. k \in Holds(t)' /\ FirstUnit(t, k)' <= y /\ y <= LastUnit(t, k)' BY <3>2, <3>3 DEF Held
    <3>5. QED BY <3>4
  <2>2. CASE ~(y <= sent[t])
    <3>0. PICK k : k = Len(done) + 1 OBVIOUS
    <3>1. x > 0 /\ sent[t] + 1 <= y /\ y <= sent[t] + x BY <1>1, <1>2, <1>3, <2>2
    <3>2. k \in Holds(t)' /\ k \notin Holds(t) BY <1>4, <3>0, <3>1
    <3>3. Brought(t, k, r, x) BY <1>4, <3>2
    <3>4. FirstUnit(t, k)' = sent[t] + 1 /\ LastUnit(t, k)' = sent[t] + x BY <3>3 DEF Brought
    <3>5. QED BY <3>1, <3>2, <3>4
  <2>3. QED BY <2>1, <2>2
<1>7. ASSUME NEW k \in Holds(t)'
      PROVE  /\ priv[t].moved <= At(t, k)' /\ priv[t].moved < FirstUnit(t, k)' /\ LastUnit(t, k)' <= sent'[t]
             /\ \A y \in 1 .. done'[k].n : buf'[t][At(t, k)' + y] = FirstUnit(t, k)' + y - 1
             /\ \A j \in Holds(t)' : j < k => done'[j].i < done'[k].i /\ LastUnit(t, j)' < FirstUnit(t, k)'
             /\ \A j \in DOMAIN pend'[t] : done'[k].i < pend'[t][j]
  <2>1. CASE k \in Holds(t)
    <3>1. Held(t, k) BY <1>4, <2>1
    <3>2. /\ done'[k] = done[k] /\ At(t, k)' = At(t, k) /\ FirstUnit(t, k)' = FirstUnit(t, k)
          /\ LastUnit(t, k)' = LastUnit(t, k) /\ k < Len(done) + 1
          /\ \A y \in 1 .. done[k].n : buf'[t][At(t, k) + y] = buf[t][At(t, k) + y]
      BY <3>1 DEF Held
    <3>3. /\ priv[t].moved <= At(t, k) /\ priv[t].moved < FirstUnit(t, k) /\ LastUnit(t, k) <= sent[t]
          /\ \A y \in 1 .. done[k].n : buf[t][At(t, k) + y] = FirstUnit(t, k) + y - 1
          /\ \A j \in Holds(t) : j < k => done[j].i < done[k].i /\ LastUnit(t, j) < FirstUnit(t, k)
          /\ \A j \in DOMAIN pend[t] : done[k].i < pend[t][j]
      BY <2>1 DEF Carried
    <3>4. LastUnit(t, k) \in Int BY <2>1, HoldsLie
    <3>5. LastUnit(t, k)' <= sent'[t] BY <1>2, <1>3, <3>2, <3>3, <3>4
    <3>6. ASSUME NEW j \in Holds(t)', j < k PROVE done'[j].i < done'[k].i /\ LastUnit(t, j)' < FirstUnit(t, k)'
      <4>1. j \in Holds(t)
        <5>1. SUFFICES ASSUME j \notin Holds(t) PROVE FALSE OBVIOUS
        <5>2. j = Len(done) + 1 BY <1>4, <5>1 DEF Brought
        <5>3. k \in Nat /\ Len(done) \in Nat BY <2>1, HoldsLie, LenProperties DEF EarnedInv, Fields
        <5>4. QED BY <3>2, <3>6, <5>2, <5>3
      <4>2. Held(t, j) BY <1>4, <4>1
      <4>3. done'[j] = done[j] /\ LastUnit(t, j)' = LastUnit(t, j) BY <4>2 DEF Held
      <4>4. QED BY <3>2, <3>3, <3>6, <4>1, <4>3
    <3>7. ASSUME NEW j \in DOMAIN pend'[t] PROVE done'[k].i < pend'[t][j]
      <4>1. PICK l \in DOMAIN pend[t] : pend'[t][j] = pend[t][l] BY DEF Returns
      <4>2. done[k].i < pend[t][l] BY <3>3
      <4>3. QED BY <3>2, <4>1, <4>2
    <3>8. QED BY <3>2, <3>3, <3>5, <3>6, <3>7
  <2>2. CASE k \notin Holds(t)
    <3>1. Brought(t, k, r, x) BY <1>4, <2>2
    <3>2. /\ x > 0 /\ k = Len(done) + 1 /\ done'[k] = r[1] /\ done'[k].n = x /\ At(t, k)' = Offset(t, r[1].i)
          /\ FirstUnit(t, k)' = sent[t] + 1 /\ LastUnit(t, k)' = sent[t] + x
      BY <3>1 DEF Brought
    <3>3. PICK l \in DOMAIN pend[t] : r[1].i = pend[t][l] BY <3>1 DEF Brought
    <3>4. priv[t].moved <= At(t, k)' BY <3>2, <3>3 DEF Carried
    <3>5. priv[t].moved < FirstUnit(t, k)' /\ LastUnit(t, k)' <= sent'[t] BY <1>2, <1>3, <3>2
    <3>6. ASSUME NEW y \in 1 .. done'[k].n PROVE buf'[t][At(t, k)' + y] = FirstUnit(t, k)' + y - 1
      <4>1. y \in 1 .. x /\ y \in Int BY <1>2, <3>2, <3>6
      <4>2. buf'[t][At(t, k)' + y] = sent[t] + y BY <3>1, <4>1 DEF Brought
      <4>3. (sent[t] + 1) + y - 1 = sent[t] + y BY <1>3, <4>1
      <4>4. QED BY <3>2, <4>2, <4>3
    <3>7. ASSUME NEW j \in Holds(t)', j < k PROVE done'[j].i < done'[k].i /\ LastUnit(t, j)' < FirstUnit(t, k)'
      <4>1. j \in Holds(t)
        <5>1. SUFFICES ASSUME j \notin Holds(t) PROVE FALSE OBVIOUS
        <5>2. j = Len(done) + 1 BY <1>4, <5>1 DEF Brought
        <5>3. Len(done) \in Nat BY LenProperties DEF EarnedInv, Fields
        <5>4. QED BY <3>2, <3>7, <5>2, <5>3
      <4>2. Held(t, j) BY <1>4, <4>1
      <4>3. done'[j] = done[j] /\ LastUnit(t, j)' = LastUnit(t, j) BY <4>2 DEF Held
      <4>4. done[j].i < r[1].i /\ LastUnit(t, j) <= sent[t] BY <3>3, <4>1 DEF Carried
      <4>5. LastUnit(t, j) \in Int BY <4>1, HoldsLie
      <4>6. LastUnit(t, j) < sent[t] + 1 BY <1>3, <4>4, <4>5
      <4>7. QED BY <3>2, <4>3, <4>4, <4>6
    <3>8. \A j \in DOMAIN pend'[t] : done'[k].i < pend'[t][j] BY <3>2 DEF Returns
    <3>9. QED BY <3>4, <3>5, <3>6, <3>7, <3>8
  <2>3. QED BY <2>1, <2>2
<1>8. ASSUME NEW j \in DOMAIN pend'[t] PROVE priv[t].moved <= Offset(t, pend[t][j])'
  <2>1. PICK l \in DOMAIN pend[t] : pend'[t][j] = pend[t][l] BY DEF Returns
  <2>2. Offset(t, pend[t][j])' = Offset(t, pend[t][l]) BY <1>1, <2>1 DEF Offset
  <2>3. QED BY <2>2 DEF Carried
<1>9. QED BY <1>1, <1>5, <1>6, <1>7, <1>8 DEF Carried

\* Who still has URBs under way has been told of no stall and no disconnection.
LEMMA NotEnded ==
  ASSUME TypeInv, FlyingInv, EarnedInv, AddUpInv, Reaping, NEW t \in Transfers,
         continuation, type[t] \in {"bulk", "interrupt"}, NEW l \in DOMAIN pend[t], NEW j \in UrbsOf(done, t)
  PROVE  done[j].code \notin Ending
<1>1. connected /\ priv[t].urbs /\ InOrder(t) BY PendKnown
<1>2. pend[t] # <<>> OBVIOUS
<1>3. done[j].code # "stall" BY <1>1, <1>2 DEF InOrder, Stopped
<1>4. done[j].code # "shutdown"
  <2>1. done[j] \in Range(done) /\ done[j].t = t BY DEF UrbsOf, Range
  <2>2. CodeEarned(done[j]) BY <1>1, <2>1 DEF EarnedInv
  <2>3. QED BY <1>1, <2>2 DEF CodeEarned
<1>5. QED BY <1>3, <1>4 DEF Ending

\* Once bulk data has ended, what comes back later brings nothing.
LEMMA QuietKept ==
  ASSUME UsbfsAssumption, TypeInv, FlyingInv, EarnedInv, AddUpInv, Reaping, NEW t \in Transfers, priv[t].urbs,
         type[t] # "iso", Carried(t), Quiet(t), NEW r, NEW x, Returns(t, r, x), Keeps(t)
  PROVE  Quiet(t)'
<1> SUFFICES ASSUME continuation, type[t] \in {"bulk", "interrupt"},
                    NEW k \in Holds(t)', NEW j \in UrbsOf(done', t), j < k
             PROVE  done'[j].code \notin Ending
  BY DEF Quiet, Keeps
<1>1. done' = done \o r /\ r \in Seq(Range(r)) BY DEF Returns
<1>2. Joined(t, r) BY <1>1, MoreToReap DEF EarnedInv
<1>3. UNCHANGED <<type, size[t]>> BY DEF Keeps
<1>4. /\ \A m \in Holds(t) : Held(t, m)
      /\ \A m \in Holds(t)' : m \notin Holds(t) => Brought(t, m, r, x)
  BY <1>3, HoldsAfter
<1>5. k < Len(done) + 1 \/ k = Len(done) + 1
  <2>1. CASE k \in Holds(t)
    <3>1. Held(t, k) BY <1>4, <2>1
    <3>2. QED BY <3>1 DEF Held
  <2>2. CASE k \notin Holds(t)
    <3>1. Brought(t, k, r, x) BY <1>4, <2>2
    <3>2. QED BY <3>1 DEF Brought
  <2>3. QED BY <2>1, <2>2
<1>6. j \in UrbsOf(done, t) /\ done'[j] = done[j]
  <2>1. Len(done) \in Nat /\ j \in Nat /\ k \in Nat
    <3>1. k \in UrbsOf(done', t) BY DEF Holds
    <3>2. QED BY <1>2, <3>1 DEF Joined
  <2>2. ~(j > Len(done)) BY <1>5, <2>1
  <2>3. j \in UrbsOf(done, t) BY <1>2, <2>2 DEF Joined
  <2>4. QED BY <1>2, <2>3 DEF Joined
<1>7. CASE k \in Holds(t) BY <1>6, <1>7 DEF Quiet
<1>8. CASE k \notin Holds(t)
  <2>1. Brought(t, k, r, x) BY <1>4, <1>8
  <2>2. PICK l \in DOMAIN pend[t] : r[1].i = pend[t][l] BY <2>1 DEF Brought
  <2>3. QED BY <1>6, <2>2, NotEnded
<1>9. QED BY <1>7, <1>8

\* What is to be moved fits before what is to be reaped.
LEMMA FittingKept ==
  ASSUME UsbfsAssumption, TypeInv, FlyingInv, EarnedInv, AddUpInv, Reaping, NEW t \in Transfers, priv[t].urbs,
         type[t] # "iso", Carried(t), Fitting(t), NEW r, NEW x, Returns(t, r, x), Keeps(t)
  PROVE  Fitting(t)'
<1> SUFFICES ASSUME priv'[t].action = "normal"
             PROVE  (priv'[t].retired < priv'[t].n /\ priv'[t].moved = Offset(t, priv[t].retired + 1)') \/ Spent(t)'
  BY DEF Fitting
<1>1. /\ priv[t].action = "normal" /\ priv'[t].retired = priv[t].retired /\ priv'[t].n = priv[t].n
      /\ priv'[t].moved = priv[t].moved /\ UNCHANGED <<type, size[t]>>
  BY DEF Keeps
<1>2. CASE priv[t].retired < priv[t].n /\ priv[t].moved = Offset(t, priv[t].retired + 1)
  <2>1. Offset(t, priv[t].retired + 1)' = Offset(t, priv[t].retired + 1) BY <1>1 DEF Offset
  <2>2. QED BY <1>1, <1>2, <2>1
<1>3. CASE Spent(t)
  <2>1. DOMAIN pend[t] = {} /\ user[t].op # "submit" /\ Holds(t) = {} BY <1>3 DEF Spent
  <2>2. DOMAIN pend'[t] = {} BY <2>1 DEF Returns
  <2>3. x = 0 BY <2>1 DEF Returns
  <2>4. Holds(t)' = {}
    <3>1. \A m \in Holds(t)' : m \notin Holds(t) => Brought(t, m, r, x) BY <1>1, HoldsAfter
    <3>2. QED BY <2>1, <2>3, <3>1 DEF Brought
  <2>5. user'[t].op # "submit" BY <2>1 DEF Keeps
  <2>6. QED BY <2>2, <2>4, <2>5 DEF Spent
<1>4. QED BY <1>1, <1>2, <1>3 DEF Fitting

\* The lengths of isochronous packets stay when URBs come back.
LEMMA ResultsKept ==
  ASSUME NEW t, type[t] = "iso", Results(t), NEW r, NEW x, Returns(t, r, x), Keeps(t)
  PROVE  Results(t)'
<1> SUFFICES ASSUME priv'[t].action = "normal" PROVE Results(t)' BY DEF Results
<1>1. /\ priv[t].action = "normal" /\ priv'[t].retired = priv[t].retired /\ priv'[t].n = priv[t].n
      /\ priv'[t].off = priv[t].off /\ UNCHANGED <<type, size[t]>>
  BY DEF Keeps
<1>2. buf'[t] = buf[t] BY DEF Returns
<1>3. Offset(t, priv[t].retired + 1)' = Offset(t, priv'[t].retired + 1) BY <1>1 DEF Offset
<1>4. QED BY <1>1, <1>2, <1>3 DEF Results, Offset

\* What is known of a transfer stays so while its URBs come back.
LEMMA KeepsSound ==
  ASSUME UsbfsAssumption, TypeInv, FlyingInv, EarnedInv, AddUpInv, Reaping, NEW t \in Transfers,
         priv[t].urbs /\ Steady(t) => Sound(t), NEW r, NEW x, Returns(t, r, x), Keeps(t)
  PROVE  priv'[t].urbs /\ Steady(t)' => Sound(t)'
<1> SUFFICES ASSUME priv'[t].urbs, Steady(t)' PROVE Sound(t)' OBVIOUS
<1>1. priv[t].urbs /\ UNCHANGED <<type, continuation>> /\ fault[t] \subseteq fault'[t] BY DEF Keeps
<1>2. Steady(t) BY <1>1 DEF Steady, Known
<1>3. Sound(t) BY <1>1, <1>2
<1>4. ASSUME priv'[t].action = "normal" PROVE Gapless(t)'
  <2>1. Gapless(t) /\ priv'[t].retired = priv[t].retired /\ Highest(t)' = Highest(t) BY <1>3, <1>4 DEF Sound, Keeps
  <2>2. QED BY <2>1, GaplessKept DEF EarnedInv
<1>5. CASE type[t] = "iso"
  <2>1. Results(t)' BY <1>3, <1>5, ResultsKept DEF Sound
  <2>2. QED BY <1>1, <1>4, <1>5, <2>1 DEF Sound
<1>6. CASE type[t] # "iso"
  <2>1. Carried(t) /\ Fitting(t) /\ Quiet(t) BY <1>3, <1>6 DEF Sound
  <2>2. Carried(t)' /\ Fitting(t)' /\ Quiet(t)' BY <1>1, <1>6, <2>1, CarriedKept, FittingKept, QuietKept
  <2>3. QED BY <1>1, <1>4, <1>6, <2>2 DEF Sound
<1>7. QED BY <1>5, <1>6

\* What is left to be reaped when the first URB has been taken.
Shifted(t) ==
  /\ \A k \in UrbsOf(done', t) : k + 1 \in UrbsOf(done, t) /\ done'[k] = done[k + 1] /\ k \in Nat /\ k + 1 # 1
  /\ \A k \in UrbsOf(done, t) : k # 1 => \E j \in UrbsOf(done', t) : k = j + 1 /\ done'[j] = done[k]

\* Reaping moves the URBs to be reaped by one place.
LEMMA TailShifts ==
  ASSUME Fields, done # <<>>, done' = Tail(done), NEW t
  PROVE  Shifted(t)
<1>1. done \in Seq(Range(done)) BY DEF Fields
<1>2. Len(done) \in Nat /\ DOMAIN done = 1 .. Len(done) /\ Len(done) # 0 BY <1>1, LenProperties, EmptySeq
<1>3. /\ done' \in Seq(Range(done)) /\ Len(done') = Len(done) - 1
      /\ \A k \in 1 .. Len(done) - 1 : done'[k] = done[k + 1]
  BY <1>1, HeadTailProperties
<1>4. DOMAIN done' = 1 .. Len(done) - 1 BY <1>3, LenProperties
<1>5. ASSUME NEW k \in UrbsOf(done', t)
      PROVE  k + 1 \in UrbsOf(done, t) /\ done'[k] = done[k + 1] /\ k \in Nat /\ k + 1 # 1
  <2>1. k \in 1 .. Len(done) - 1 /\ done'[k].t = t BY <1>4 DEF UrbsOf
  <2>2. k + 1 \in DOMAIN done /\ k \in Nat /\ k + 1 # 1 BY <1>2, <2>1
  <2>3. QED BY <1>3, <2>1, <2>2 DEF UrbsOf
<1>6. ASSUME NEW k \in UrbsOf(done, t), k # 1 PROVE \E j \in UrbsOf(done', t) : k = j + 1 /\ done'[j] = done[k]
  <2>1. k \in 1 .. Len(done) /\ done[k].t = t BY <1>2 DEF UrbsOf
  <2>2. k - 1 \in 1 .. Len(done) - 1 /\ k = (k - 1) + 1 BY <1>2, <1>6, <2>1
  <2>3. PICK j \in 1 .. Len(done) - 1 : k = j + 1 BY <2>2
  <2>4. done'[j] = done[k] BY <1>3, <2>3
  <2>5. j \in UrbsOf(done', t) BY <1>4, <2>1, <2>4 DEF UrbsOf
  <2>6. QED BY <2>3, <2>4, <2>5
<1>7. QED BY <1>5, <1>6 DEF Shifted

\* The URBs with data are those of before, but the one reaped.
LEMMA HoldsShift ==
  ASSUME NEW t, Shifted(t)
  PROVE  /\ \A k \in Holds(t)' : k + 1 \in Holds(t) /\ done'[k] = done[k + 1] /\ k \in Nat /\ k + 1 # 1
         /\ \A k \in Holds(t) : k # 1 => \E j \in Holds(t)' : k = j + 1 /\ done'[j] = done[k]
BY DEF Shifted, Holds

\* The handler takes one URB; what it leaves of what the transfer brings.
LEMMA CarriedOn ==
  ASSUME UsbfsAssumption, TypeInv, FlyingInv, EarnedInv, AddUpInv, Reaping, NEW t \in Transfers, priv[t].urbs,
         type[t] # "iso", Carried(t), Shifted(t),
         UNCHANGED <<type, size[t], pend[t], sent[t]>>,
         priv'[t].moved <= sent[t], priv'[t].moved <= BufferLength,
         \A y \in 1 .. priv'[t].moved : buf'[t][y] = y,
         \A k \in Holds(t) : k # 1 =>
           /\ priv'[t].moved <= At(t, k) /\ priv'[t].moved < FirstUnit(t, k)
           /\ \A y \in 1 .. done[k].n : buf'[t][At(t, k) + y] = buf[t][At(t, k) + y],
         \A y \in priv'[t].moved + 1 .. sent[t] :
           \E k \in Holds(t) : k # 1 /\ FirstUnit(t, k) <= y /\ y <= LastUnit(t, k),
         \A j \in DOMAIN pend[t] : priv'[t].moved <= Offset(t, pend[t][j])
  PROVE  Carried(t)'
<1>1. /\ \A k \in Holds(t)' : k + 1 \in Holds(t) /\ done'[k] = done[k + 1] /\ k \in Nat /\ k + 1 # 1
      /\ \A k \in Holds(t) : k # 1 => \E j \in Holds(t)' : k = j + 1 /\ done'[j] = done[k]
  BY HoldsShift
<1>2. ASSUME NEW k \in Holds(t)'
      PROVE  /\ At(t, k)' = At(t, k + 1) /\ FirstUnit(t, k)' = FirstUnit(t, k + 1)
             /\ LastUnit(t, k)' = LastUnit(t, k + 1)
  <2>1. k + 1 \in Holds(t) /\ done'[k] = done[k + 1] /\ k + 1 # 1 BY <1>1
  <2>2. At(t, k)' = At(t, k + 1) BY <2>1 DEF At, Offset
  <2>3. 1 \in 1 .. done[k + 1].n
    <3> DEFINE l == k + 1
    <3>1. l \in Holds(t) BY <2>1
    <3> HIDE DEF l
    <3>2. done[l].n \in Nat /\ done[l].n > 0 BY <3>1, HoldsLie
    <3>3. 1 \in 1 .. done[l].n BY <3>2
    <3>4. QED BY <3>3 DEF l
  <2>4. FirstUnit(t, k)' = FirstUnit(t, k + 1) BY <2>1, <2>2, <2>3 DEF FirstUnit
  <2>5. QED BY <2>1, <2>2, <2>4 DEF LastUnit
<1>3. ASSUME NEW y \in priv'[t].moved + 1 .. sent'[t]
      PROVE  \E k \in Holds(t)' : FirstUnit(t, k)' <= y /\ y <= LastUnit(t, k)'
  <2>1. PICK k \in Holds(t) : k # 1 /\ FirstUnit(t, k) <= y /\ y <= LastUnit(t, k) OBVIOUS
  <2>2. PICK j \in Holds(t)' : k = j + 1 BY <1>1, <2>1
  <2>3. FirstUnit(t, j)' = FirstUnit(t, k) /\ LastUnit(t, j)' = LastUnit(t, k) BY <1>2, <2>2
  <2>4. QED BY <2>1, <2>2, <2>3
<1>4. ASSUME NEW k \in Holds(t)'
      PROVE  /\ priv'[t].moved <= At(t, k)' /\ priv'[t].moved < FirstUnit(t, k)' /\ LastUnit(t, k)' <= sent'[t]
             /\ \A y \in 1 .. done'[k].n : buf'[t][At(t, k)' + y] = FirstUnit(t, k)' + y - 1
             /\ \A j \in Holds(t)' : j < k => done'[j].i < done'[k].i /\ LastUnit(t, j)' < FirstUnit(t, k)'
             /\ \A j \in DOMAIN pend'[t] : done'[k].i < pend'[t][j]
  <2>1. PICK l \in Holds(t) : l = k + 1 /\ done'[k] = done[l] /\ k \in Nat /\ l # 1 BY <1>1
  <2>2. At(t, k)' = At(t, l) /\ FirstUnit(t, k)' = FirstUnit(t, l) /\ LastUnit(t, k)' = LastUnit(t, l) BY <1>2, <2>1
  <2>3. /\ LastUnit(t, l) <= sent[t]
        /\ \A y \in 1 .. done[l].n : buf[t][At(t, l) + y] = FirstUnit(t, l) + y - 1
        /\ \A j \in Holds(t) : j < l => done[j].i < done[l].i /\ LastUnit(t, j) < FirstUnit(t, l)
        /\ \A j \in DOMAIN pend[t] : done[l].i < pend[t][j]
    BY DEF Carried
  <2>4. /\ priv'[t].moved <= At(t, l) /\ priv'[t].moved < FirstUnit(t, l)
        /\ \A y \in 1 .. done[l].n : buf'[t][At(t, l) + y] = buf[t][At(t, l) + y]
    BY <2>1
  <2>5. ASSUME NEW j \in Holds(t)', j < k PROVE done'[j].i < done'[k].i /\ LastUnit(t, j)' < FirstUnit(t, k)'
    <3>1. PICK m \in Holds(t) : m = j + 1 /\ done'[j] = done[m] /\ j \in Nat BY <1>1
    <3>2. LastUnit(t, j)' = LastUnit(t, m) BY <1>2, <3>1
    <3>3. m < l BY <2>1, <2>5, <3>1
    <3>4. QED BY <2>1, <2>2, <2>3, <3>1, <3>2, <3>3
  <2>6. QED BY <2>1, <2>2, <2>3, <2>4, <2>5
<1>5. ASSUME NEW j \in DOMAIN pend'[t] PROVE priv'[t].moved <= Offset(t, pend[t][j])'
  <2>1. Offset(t, pend[t][j])' = Offset(t, pend[t][j]) BY DEF Offset
  <2>2. QED BY <2>1
<1>6. priv'[t].moved <= sent'[t] OBVIOUS
<1>7. QED BY <1>3, <1>4, <1>5, <1>6 DEF Carried

\* It says nothing new of the other transfers.
LEMMA SoundShifts ==
  ASSUME UsbfsAssumption, TypeInv, FlyingInv, EarnedInv, AddUpInv, Reaping, NEW t \in Transfers,
         priv[t].urbs /\ Steady(t) => Sound(t), Shifted(t), 1 \notin UrbsOf(done, t),
         UNCHANGED <<type, continuation, priv[t], user[t], size[t], buf[t], pend[t], sent[t], fault[t]>>
  PROVE  priv'[t].urbs /\ Steady(t)' => Sound(t)'
<1> SUFFICES ASSUME priv[t].urbs, Steady(t)' PROVE Sound(t)' OBVIOUS
<1>1. Sound(t) BY DEF Steady, Known
<1>2. /\ \A k \in UrbsOf(done', t) : k + 1 \in UrbsOf(done, t) /\ done'[k] = done[k + 1] /\ k \in Nat
      /\ \A k \in UrbsOf(done, t) : \E j \in UrbsOf(done', t) : k = j + 1 /\ done'[j] = done[k]
  BY DEF Shifted
<1>3. Gapless(t) => Gapless(t)'
  <2> SUFFICES ASSUME Gapless(t) PROVE Gapless(t)' OBVIOUS
  <2>1. Highest(t)' = Highest(t) BY DEF Highest
  <2>2. ASSUME NEW i \in priv[t].retired + 1 .. Highest(t)
        PROVE  (\E k \in UrbsOf(done', t) : done'[k].i = i) \/ (\E k \in DOMAIN pend[t] : pend[t][k] = i)
    <3>1. CASE \E k \in UrbsOf(done, t) : done[k].i = i
      <4>1. PICK k \in UrbsOf(done, t) : done[k].i = i BY <3>1
      <4>2. PICK j \in UrbsOf(done', t) : done'[j] = done[k] BY <1>2
      <4>3. QED BY <4>1, <4>2
    <3>2. QED BY <3>1 DEF Gapless
  <2>3. \A k \in UrbsOf(done', t) : done'[k].i > priv[t].retired BY <1>2 DEF Gapless
  <2>4. QED BY <2>1, <2>2, <2>3 DEF Gapless
<1>4. CASE type[t] = "iso"
  <2>1. Results(t)' BY <1>1, <1>4 DEF Sound, Results, Offset
  <2>2. QED BY <1>1, <1>3, <1>4, <2>1 DEF Sound
<1>5. CASE type[t] # "iso"
  <2>1. Carried(t) /\ Fitting(t) /\ Quiet(t) BY <1>1, <1>5 DEF Sound
  <2>2. \A k \in Holds(t) : k # 1 BY DEF Holds
  <2>3. Carried(t)'
    <3>1. /\ priv[t].moved <= sent[t] /\ priv[t].moved <= BufferLength
          /\ \A y \in 1 .. priv[t].moved : buf[t][y] = y
          /\ \A k \in Holds(t) : priv[t].moved <= At(t, k) /\ priv[t].moved < FirstUnit(t, k)
          /\ \A y \in priv[t].moved + 1 .. sent[t] :
               \E k \in Holds(t) : FirstUnit(t, k) <= y /\ y <= LastUnit(t, k)
          /\ \A j \in DOMAIN pend[t] : priv[t].moved <= Offset(t, pend[t][j])
      BY <2>1 DEF Carried
    <3>2. QED BY <1>5, <2>1, <2>2, <3>1, CarriedOn
  <2>4. Holds(t) = {} => Holds(t)' = {} BY HoldsShift
  <2>5. Fitting(t)' BY <2>1, <2>4 DEF Fitting, Spent, Offset
  <2>6. Quiet(t)'
    <3> SUFFICES ASSUME continuation, type[t] \in {"bulk", "interrupt"},
                        NEW k \in Holds(t)', NEW j \in UrbsOf(done', t), j < k
                 PROVE  done'[j].code \notin Ending
      BY DEF Quiet
    <3>1. k + 1 \in Holds(t) /\ k \in Nat BY HoldsShift
    <3>2. j + 1 \in UrbsOf(done, t) /\ done'[j] = done[j + 1] /\ j \in Nat BY <1>2
    <3>3. j + 1 < k + 1 BY <3>1, <3>2
    <3>4. QED BY <2>1, <3>1, <3>2, <3>3 DEF Quiet
  <2>7. QED BY <1>1, <1>3, <1>5, <2>3, <2>5, <2>6 DEF Sound
<1>6. QED BY <1>4, <1>5

\* The handler reaps a URB of t and leaves q of its private part.
Ends(t, q) ==
  /\ Reaps(t) /\ q \in Privs /\ priv' = [priv EXCEPT ![t] = q] /\ q.n = priv[t].n /\ q.retired <= q.n
  /\ IF type[t] = "control" THEN ~q.urbs ELSE q.retired = priv[t].retired + 1
  /\ q.action = "normal" => priv[t].action = "normal"
  /\ q.urbs => handler'.op \in {"poll", "discard"}
  /\ ~q.urbs => handler'.op = "report" /\ handler'.t = t /\ pend[t] = <<>> /\ (Steady(t) => InKernel(t) = 1)
  /\ \E b : buf' = [buf EXCEPT ![t] = b]
  /\ UNCHANGED <<flags, size, app, timing, sent, calls>>

\* ... and the packets of an isochronous one,
EndsIso(t, q) ==
  /\ q.off = priv[t].off + size[t][Urb.i]
  /\ buf'[t] = Filled(buf[t], priv[t].off, Before(size[t], Urb.i), size[t][Urb.i])
  /\ ~q.urbs /\ handler'.st = "completed" => priv[t].action = "normal" /\ Urb.i = q.n
  /\ q.urbs /\ q.action = "normal" => Urb.i < q.n

\* ... or the data of another one: moved down, or where it should be already.
EndsOther(t, q) ==
  /\ q.moved = priv[t].moved + Urb.n
  /\ \/ buf'[t] = Moved(buf[t], Offset(t, Urb.i), priv[t].moved, Urb.n)
     \/ buf'[t] = buf[t] /\ (priv[t].action = "normal" \/ type[t] = "control")
  /\ q.urbs /\ q.action = "normal" =>
       /\ type[t] \in {"bulk", "interrupt"}
       /\ Urb.code \in Ending \/ (Urb.i < q.n /\ Urb.n = size[t][Urb.i])

\* As long as a transfer goes on normally its URBs are reaped one after the other.
LEMMA ReapsNext ==
  ASSUME TypeInv, FlyingInv, EarnedInv, AddUpInv, Reaping, NEW t \in Transfers, Reaps(t), Steady(t), Gapless(t),
         priv[t].action = "normal"
  PROVE  /\ Urb.i = priv[t].retired + 1 /\ priv[t].retired < priv[t].n
         /\ \A k \in UrbsOf(done, t) : k # 1 => Urb.i < done[k].i
         /\ \A j \in DOMAIN pend[t] : Urb.i < pend[t][j]
<1>1. Fields /\ Whole(t) /\ priv[t].urbs /\ user[t] = Idle /\ ~Discarding(t)
  BY DEF EarnedInv, AddUpInv, Reaps, Discarding, Poll
<1>2. DoneInPlace(t) /\ Ascending(done, t) BY <1>1 DEF Whole, InOrder, DoneInOrder
<1>3. /\ priv[t].n \in Nat /\ priv[t].retired \in Nat /\ InKernel(t) \in Nat \ {0}
      /\ priv[t].retired + InKernel(t) = priv[t].n /\ 1 \in UrbsOf(done, t) /\ done[1] = Urb
  BY OneLess
<1>4. priv[t].retired < priv[t].n /\ priv[t].retired + 1 \in priv[t].retired + 1 .. priv[t].n BY <1>3
<1>5. Highest(t) = priv[t].n BY <1>1 DEF Highest, Idle
<1>6. ASSUME NEW k \in UrbsOf(done, t), k # 1 PROVE Urb.i < done[k].i
  <2>1. k \in 1 .. Len(done) BY <1>1, UrbsOfFinite DEF Fields
  <2>2. 1 < k BY <1>6, <2>1
  <2>3. QED BY <1>2, <1>3, <2>2 DEF Ascending
<1>7. \A j \in DOMAIN pend[t] : Urb.i < pend[t][j] BY <1>1, <1>2, <1>3 DEF DoneInPlace
<1>8. Urb.i > priv[t].retired /\ Urb.i \in 1 .. priv[t].n BY <1>2, <1>3, <1>5 DEF Gapless, DoneInPlace
<1>9. CASE \E k \in UrbsOf(done, t) : done[k].i = priv[t].retired + 1
  <2>1. PICK k \in UrbsOf(done, t) : done[k].i = priv[t].retired + 1 BY <1>9
  <2>2. CASE k = 1 BY <1>3, <1>4, <1>6, <1>7, <2>1, <2>2
  <2>3. CASE k # 1
    <3>1. Urb.i < priv[t].retired + 1 BY <1>6, <2>1, <2>3
    <3>2. QED BY <1>3, <1>8, <3>1
  <2>4. QED BY <2>2, <2>3
<1>10. CASE \E j \in DOMAIN pend[t] : pend[t][j] = priv[t].retired + 1
  <2>1. Urb.i < priv[t].retired + 1 BY <1>7, <1>10
  <2>2. QED BY <1>3, <1>8, <2>1
<1>11. QED BY <1>4, <1>5, <1>9, <1>10 DEF Gapless

\* Reaping takes the lowest number, so that no gap appears.
LEMMA GaplessReaped ==
  ASSUME TypeInv, FlyingInv, EarnedInv, AddUpInv, Reaping, NEW t \in Transfers, NEW q, Ends(t, q), q.urbs, Steady(t),
         Gapless(t), q.action = "normal"
  PROVE  Gapless(t)'
<1>1. /\ Reaps(t) /\ priv[t].action = "normal" /\ q.n = priv[t].n /\ q.retired = priv[t].retired + 1
      /\ UNCHANGED <<pend, user>>
  BY DEF Ends, Reaps
<1>2. priv'[t] = q BY DEF Ends, FlyingInv, Shapes
<1>3. Shifted(t) BY <1>1, TailShifts DEF Reaps, EarnedInv
<1>4. /\ Urb.i = priv[t].retired + 1 /\ priv[t].retired < priv[t].n
      /\ \A k \in UrbsOf(done, t) : k # 1 => Urb.i < done[k].i
      /\ \A j \in DOMAIN pend[t] : Urb.i < pend[t][j]
  BY <1>1, ReapsNext
<1>5. priv[t].retired \in Nat /\ done[1] = Urb BY <1>1, OneLess
<1>6. Highest(t)' = Highest(t) BY <1>1, <1>2 DEF Highest
<1>7. ASSUME NEW i \in q.retired + 1 .. Highest(t)
      PROVE  (\E k \in UrbsOf(done', t) : done'[k].i = i) \/ (\E k \in DOMAIN pend[t] : pend[t][k] = i)
  <2>1. i \in priv[t].retired + 1 .. Highest(t) /\ i # Urb.i BY <1>1, <1>4, <1>5
  <2>2. CASE \E k \in UrbsOf(done, t) : done[k].i = i
    <3>1. PICK k \in UrbsOf(done, t) : done[k].i = i BY <2>2
    <3>2. k # 1 BY <1>5, <2>1, <3>1
    <3>3. PICK j \in UrbsOf(done', t) : done'[j] = done[k] BY <1>3, <3>2 DEF Shifted
    <3>4. QED BY <3>1, <3>3
  <2>3. QED BY <2>1, <2>2 DEF Gapless
<1>8. ASSUME NEW k \in UrbsOf(done', t) PROVE done'[k].i > q.retired
  <2>1. k + 1 \in UrbsOf(done, t) /\ done'[k] = done[k + 1] /\ k + 1 # 1 BY <1>3 DEF Shifted
  <2>2. QED BY <1>1, <1>4, <2>1
<1>9. \A j \in DOMAIN pend[t] : pend[t][j] > q.retired BY <1>1, <1>4
<1>10. QED BY <1>1, <1>2, <1>6, <1>7, <1>8, <1>9 DEF Gapless

\* The first URB that brings something is the next in the order of the units.
LEMMA NextUnit ==
  ASSUME UsbfsAssumption, TypeInv, FlyingInv, EarnedInv, AddUpInv, Reaping, NEW t \in Transfers, priv[t].urbs,
         type[t] # "iso", Carried(t), 1 \in Holds(t)
  PROVE  FirstUnit(t, 1) = priv[t].moved + 1 /\ \A k \in Holds(t) : k # 1 => 1 < k
<1>1. priv[t].moved \in Nat /\ sent[t] \in Nat BY DEF TypeInv, TypeOK
<1>2. done[1].n \in Nat /\ done[1].n > 0 /\ FirstUnit(t, 1) \in Nat BY HoldsLie
<1>3. LastUnit(t, 1) = FirstUnit(t, 1) + done[1].n - 1 BY DEF LastUnit
<1>4. priv[t].moved < FirstUnit(t, 1) /\ LastUnit(t, 1) <= sent[t] BY DEF Carried
<1>5. ASSUME NEW k \in Holds(t), k # 1 PROVE 1 < k
  <2>1. k \in UrbsOf(done, t) BY DEF Holds
  <2>2. k \in 1 .. Len(done) BY <2>1, UrbsOfFinite DEF EarnedInv, Fields
  <2>3. QED BY <1>5, <2>2
<1> DEFINE m == priv[t].moved  f == FirstUnit(t, 1)  n == done[1].n
<1>6. m \in Nat /\ f \in Nat /\ n \in Nat /\ n > 0 /\ m < f /\ f + n - 1 <= sent[t] BY <1>1, <1>2, <1>3, <1>4
<1> HIDE DEF m, f, n
<1>7. m + 1 \in m + 1 .. sent[t] BY <1>1, <1>6
<1>8. PICK k \in Holds(t) : FirstUnit(t, k) <= m + 1 /\ m + 1 <= LastUnit(t, k) BY <1>7 DEF Carried, m
<1>9. CASE k = 1
  <2>1. f <= m + 1 BY <1>8, <1>9 DEF f
  <2>2. f = m + 1 BY <1>6, <2>1
  <2>3. QED BY <1>5, <2>2 DEF m, f
<1>10. CASE k # 1
  <2>1. 1 < k BY <1>5, <1>10
  <2>2. LastUnit(t, 1) < FirstUnit(t, k) BY <2>1 DEF Carried
  <2>3. FirstUnit(t, k) \in Nat BY HoldsLie
  <2>4. LastUnit(t, 1) = f + n - 1 BY <1>3 DEF f, n
  <2>5. QED BY <1>6, <1>8, <2>2, <2>3, <2>4
<1>11. QED BY <1>9, <1>10

\* Where the handler puts what the URB has brought.
LEMMA UrbMoves ==
  ASSUME UsbfsAssumption, TypeInv, FlyingInv, EarnedInv, AddUpInv, Reaping, NEW t \in Transfers, priv[t].urbs,
         Steady(t), Sound(t), type[t] # "iso", NEW q, Ends(t, q), EndsOther(t, q)
  PROVE  /\ Urb.n \in Nat /\ Offset(t, Urb.i) \in Nat /\ priv[t].moved \in Nat /\ buf[t] \in [Positions -> Nat]
         /\ Urb.n > 0 => 1 \in Holds(t)
         /\ \A y \in Positions : buf'[t][y] = IF y \in priv[t].moved + 1 .. priv[t].moved + Urb.n
                                              THEN buf[t][y - priv[t].moved + Offset(t, Urb.i)] ELSE buf[t][y]
<1>1. Reaps(t) BY DEF Ends
<1>2. 1 \in UrbsOf(done, t) /\ done[1] = Urb BY <1>1, OneLess
<1>3. Laid(t) /\ Landed(t) /\ InOrder(t) BY DEF TypeInv, LayInv, AddUpInv, Whole
<1>4. priv[t].moved \in Nat /\ buf[t] \in [Positions -> Nat] BY DEF TypeInv, TypeOK
<1>5. Urb.i \in 1 .. priv[t].n
  <2>1. Highest(t) = priv[t].n BY <1>1 DEF Highest, Reaps, Idle
  <2>2. QED BY <1>2, <1>3, <2>1 DEF InOrder, DoneInPlace
<1>6. Offset(t, Urb.i) \in Nat /\ size[t][Urb.i] \in Nat BY <1>3, <1>5, PartsLie
<1>7. Urb.n \in Nat
  <2>1. Urb.n \in 0 .. size[t][Urb.i] BY <1>2, <1>3 DEF Landed
  <2>2. QED BY <1>6, <2>1
<1>8. Urb.n > 0 => 1 \in Holds(t) BY <1>2 DEF Holds
<1> DEFINE m == priv[t].moved  a == Offset(t, Urb.i)  n == Urb.n
<1>9. m \in Nat /\ a \in Nat /\ n \in Nat BY <1>4, <1>6, <1>7
<1>10. ASSUME NEW y \in Positions
       PROVE  buf'[t][y] = IF y \in m + 1 .. m + n THEN buf[t][y - m + a] ELSE buf[t][y]
  <2>1. CASE buf'[t] = Moved(buf[t], a, m, n) BY <2>1 DEF Moved
  <2>2. CASE buf'[t] = buf[t] /\ (priv[t].action = "normal" \/ type[t] = "control")
    <3>1. n > 0 => m = a
      <4> SUFFICES ASSUME n > 0 PROVE m = a OBVIOUS
      <4>1. CASE type[t] = "control"
        <5>1. m = 0 BY <4>1 DEF TypeInv, LayInv
        <5>2. priv[t].n = 1 BY <1>3, <4>1 DEF InOrder, CallsInOrder
        <5>3. Urb.i = 1 BY <1>5, <5>2
        <5>4. QED BY <1>3, <5>1, <5>3, PartsLie
      <4>2. CASE type[t] # "control"
        <5>1. priv[t].action = "normal" BY <2>2, <4>2
        <5>2. Gapless(t) /\ Fitting(t) BY <5>1 DEF Sound
        <5>3. Urb.i = priv[t].retired + 1 BY <1>1, <5>1, <5>2, ReapsNext
        <5>4. ~Spent(t) BY <1>8 DEF Spent
        <5>5. QED BY <5>1, <5>2, <5>3, <5>4 DEF Fitting
      <4>3. QED BY <4>1, <4>2
    <3>2. y \in Nat BY DEF Positions, UsbfsAssumption
    <3> HIDE DEF m, a, n
    <3>3. y \in m + 1 .. m + n => y - m + a = y BY <1>9, <3>1, <3>2
    <3>4. QED BY <2>2, <3>3
  <2>3. QED BY <2>1, <2>2 DEF EndsOther
<1>11. QED BY <1>4, <1>6, <1>7, <1>8, <1>10

\* The data of the URB at hand is moved behind what has been moved, or
\* lies there already; the rest is carried as before.
LEMMA CarriedReaped ==
  ASSUME UsbfsAssumption, TypeInv, FlyingInv, EarnedInv, AddUpInv, Reaping, NEW t \in Transfers, priv[t].urbs,
         Steady(t), Sound(t), type[t] # "iso", NEW q, Ends(t, q), EndsOther(t, q)
  PROVE  Carried(t)' /\ Shifted(t)
<1>1. Reaps(t) /\ UNCHANGED <<type, size[t], pend[t], sent[t]>> BY DEF Ends, Reaps
<1>2. Shifted(t) BY <1>1, TailShifts DEF Reaps, EarnedInv
<1>3. priv'[t] = q BY DEF Ends, FlyingInv, Shapes
<1>4. Carried(t) BY DEF Sound
<1> DEFINE m == priv[t].moved  a == Offset(t, Urb.i)  n == Urb.n  w == priv'[t].moved
<1>5. w = m + n BY <1>3 DEF EndsOther
<1>6. /\ n \in Nat /\ a \in Nat /\ m \in Nat /\ (n > 0 => 1 \in Holds(t))
      /\ \A y \in Positions : buf'[t][y] = IF y \in m + 1 .. m + n THEN buf[t][y - m + a] ELSE buf[t][y]
  BY UrbMoves
<1>7. done[1] = Urb BY <1>1, OneLess
<1>8. sent[t] \in Nat /\ BufferLength \in Nat BY DEF TypeInv, TypeOK, UsbfsAssumption
<1>9. /\ m <= sent[t] /\ m <= BufferLength /\ \A y \in 1 .. m : buf[t][y] = y
      /\ \A y \in m + 1 .. sent[t] : \E k \in Holds(t) : FirstUnit(t, k) <= y /\ y <= LastUnit(t, k)
      /\ \A k \in Holds(t) : m <= At(t, k) /\ m < FirstUnit(t, k) /\ LastUnit(t, k) <= sent[t]
      /\ \A j \in DOMAIN pend[t] : m <= Offset(t, pend[t][j])
  BY <1>4 DEF Carried
<1>10. CASE n = 0
  <2>1. w = m BY <1>5, <1>6, <1>10
  <2>2. \A k \in Holds(t) : k # 1 BY <1>7, <1>10 DEF Holds
  <2>3. \A y \in Positions : buf'[t][y] = buf[t][y]
    <3>1. \A y \in Positions : y \notin m + 1 .. m + n
      <4> HIDE DEF m, n
      <4>1. \A y : y \notin m + 1 .. m + n BY <1>6, <1>10
      <4>2. QED BY <4>1
    <3>2. QED BY <1>6, <3>1
  <2>4. \A y \in 1 .. m : y \in Positions BY <1>6, <1>8, <1>9 DEF Positions
  <2>5. ASSUME NEW k \in Holds(t), NEW y \in 1 .. done[k].n PROVE buf'[t][At(t, k) + y] = buf[t][At(t, k) + y]
    <3> DEFINE p == At(t, k)  l == done[k].n
    <3>1. p \in Nat /\ l \in Nat /\ p + l <= BufferLength BY HoldsLie
    <3>2. y \in 1 .. l OBVIOUS
    <3> HIDE DEF p, l
    <3>3. p + y \in Positions BY <1>8, <3>1, <3>2 DEF Positions
    <3>4. QED BY <2>3, <3>3 DEF p
  <2>6. \A y \in 1 .. m : buf'[t][y] = y BY <1>9, <2>3, <2>4
  <2>7. \A k \in Holds(t) : k # 1 => /\ w <= At(t, k) /\ w < FirstUnit(t, k)
                                     /\ \A y \in 1 .. done[k].n : buf'[t][At(t, k) + y] = buf[t][At(t, k) + y]
    BY <1>9, <2>1, <2>5
  <2>8. \A y \in w + 1 .. sent[t] : \E k \in Holds(t) : k # 1 /\ FirstUnit(t, k) <= y /\ y <= LastUnit(t, k)
    BY <1>9, <2>1, <2>2
  <2>9. w <= sent[t] /\ w <= BufferLength /\ \A j \in DOMAIN pend[t] : w <= Offset(t, pend[t][j]) BY <1>9, <2>1
  <2>10. QED BY <1>1, <1>2, <1>4, <2>1, <2>6, <2>7, <2>8, <2>9, CarriedOn
<1>11. CASE n # 0
  <2>1. n > 0 /\ 1 \in Holds(t) BY <1>6, <1>11
  <2>2. /\ At(t, 1) = a /\ done[1].n = n /\ a + n <= BufferLength
        /\ \A i \in 1 .. priv[t].n : done[1].i < i => a + n <= Offset(t, i)
    BY <1>7, <2>1, HoldsLie DEF At
  <2>3. FirstUnit(t, 1) = m + 1 /\ (\A k \in Holds(t) : k # 1 => 1 < k) BY <1>4, <2>1, NextUnit
  <2>4. LastUnit(t, 1) = m + n
    <3>1. LastUnit(t, 1) = (m + 1) + n - 1 BY <2>2, <2>3 DEF LastUnit
    <3>2. m \in Nat /\ n \in Nat BY <1>6
    <3> HIDE DEF m, n
    <3>3. (m + 1) + n - 1 = m + n BY <3>2
    <3>4. QED BY <3>1, <3>3
  <2>5. m <= a /\ m + n <= sent[t] BY <1>9, <2>1, <2>2, <2>4
  <2>6. \A x \in 1 .. n : buf[t][a + x] = m + x
    <3>1. \A x \in 1 .. n : buf[t][a + x] = (m + 1) + x - 1 BY <1>4, <2>1, <2>2, <2>3 DEF Carried
    <3> HIDE DEF m, n, a
    <3>2. \A x \in 1 .. n : (m + 1) + x - 1 = m + x BY <1>6
    <3>3. QED BY <3>1, <3>2
  <2>7. \A k \in Holds(t) : k # 1 => done[1].i < done[k].i /\ m + n < FirstUnit(t, k) BY <1>4, <2>1, <2>3, <2>4 DEF Carried
  <2>8. ASSUME NEW k \in Holds(t), k # 1 PROVE a + n <= At(t, k)
    <3>1. done[k].i \in 1 .. priv[t].n BY HoldsLie
    <3>2. QED BY <2>2, <2>7, <2>8, <3>1 DEF At
  <2>9. ASSUME NEW j \in DOMAIN pend[t] PROVE w <= Offset(t, pend[t][j])
    <3>1. pend[t][j] \in 1 .. priv[t].n /\ Laid(t) BY PendKnown
    <3>2. done[1].i < pend[t][j] BY <1>4, <2>1 DEF Carried
    <3>3. a + n <= Offset(t, pend[t][j]) /\ Offset(t, pend[t][j]) \in Nat BY <2>2, <3>1, <3>2, PartsLie
    <3> DEFINE o == Offset(t, pend[t][j])
    <3>4. a + n <= o /\ o \in Nat /\ w = m + n /\ m <= a BY <1>5, <2>5, <3>3
    <3> HIDE DEF o, a, n, m, w
    <3>5. w <= o BY <1>6, <3>4
    <3>6. QED BY <3>5 DEF o
  <2> HIDE DEF m, n, a
  <2>10. ASSUME NEW y \in 1 .. w PROVE buf'[t][y] = y
    <3>1. y \in Positions BY <1>5, <1>6, <1>8, <2>2, <2>5 DEF Positions
    <3>2. CASE y <= m
      <4>1. y \in 1 .. m /\ y \notin m + 1 .. m + n BY <1>6, <3>2
      <4>2. QED BY <1>6, <1>9, <3>1, <4>1
    <3>3. CASE ~(y <= m)
      <4>1. y \in m + 1 .. m + n /\ y - m \in 1 .. n /\ y - m + a = a + (y - m) /\ m + (y - m) = y
        BY <1>5, <1>6, <3>3
      <4>2. buf'[t][y] = buf[t][y - m + a] BY <1>6, <3>1, <4>1
      <4>3. QED BY <2>6, <4>1, <4>2
    <3>4. QED BY <3>2, <3>3
  <2>11. ASSUME NEW k \in Holds(t), k # 1, NEW y \in 1 .. done[k].n
         PROVE  buf'[t][At(t, k) + y] = buf[t][At(t, k) + y]
    <3> DEFINE p == At(t, k)  l == done[k].n
    <3>1. p \in Nat /\ l \in Nat /\ p + l <= BufferLength /\ a + n <= p BY <2>8, <2>11, HoldsLie
    <3>2. y \in 1 .. l OBVIOUS
    <3> HIDE DEF p, l
    <3>3. p + y \in Positions /\ p + y \notin m + 1 .. m + n BY <1>6, <1>8, <2>5, <3>1, <3>2 DEF Positions
    <3>4. QED BY <1>6, <3>3 DEF p
  <2>12. ASSUME NEW k \in Holds(t), k # 1 PROVE w <= At(t, k) /\ w < FirstUnit(t, k)
    <3>1. At(t, k) \in Nat /\ a + n <= At(t, k) BY <2>8, <2>12, HoldsLie
    <3>2. m + n <= At(t, k)
      <4> DEFINE p == At(t, k)
      <4>1. p \in Nat /\ a + n <= p BY <3>1
      <4> HIDE DEF p
      <4>2. m + n <= p BY <1>6, <2>5, <4>1
      <4>3. QED BY <4>2 DEF p
    <3>3. QED BY <1>5, <2>7, <2>12, <3>2
  <2>13. ASSUME NEW y \in w + 1 .. sent[t]
         PROVE  \E k \in Holds(t) : k # 1 /\ FirstUnit(t, k) <= y /\ y <= LastUnit(t, k)
    <3>1. y \in m + 1 .. sent[t] /\ ~(y <= m + n) BY <1>5, <1>6, <1>8
    <3>2. PICK k \in Holds(t) : FirstUnit(t, k) <= y /\ y <= LastUnit(t, k) BY <1>9, <3>1
    <3>3. k # 1 BY <2>4, <3>1, <3>2
    <3>4. QED BY <3>2, <3>3
  <2>14. w <= sent[t] /\ w <= BufferLength BY <1>5, <1>6, <1>8, <2>2, <2>5
  <2>15. QED BY <1>1, <1>2, <1>4, <2>9, <2>10, <2>11, <2>12, <2>13, <2>14, CarriedOn
<1>12. QED BY <1>10, <1>11

\* What is to be moved still fits after the URB at hand.
LEMMA FittingReaped ==
  ASSUME UsbfsAssumption, TypeInv, FlyingInv, EarnedInv, AddUpInv, Reaping, NEW t \in Transfers, priv[t].urbs,
         Steady(t), Sound(t), type[t] # "iso", NEW q, Ends(t, q), EndsOther(t, q), q.urbs
  PROVE  Fitting(t)'
<1>1. Reaps(t) /\ UNCHANGED <<type, continuation, size[t], pend[t], user[t]>> BY DEF Ends, Reaps
<1>2. priv'[t] = q /\ q.n = priv[t].n /\ q.moved = priv[t].moved + Urb.n BY DEF Ends, EndsOther, FlyingInv, Shapes
<1> SUFFICES ASSUME q.action = "normal"
             PROVE  (q.retired < q.n /\ q.moved = Offset(t, priv[t].retired + 1)') \/ Spent(t)'
  BY <1>2 DEF Fitting
<1>3. /\ priv[t].action = "normal" /\ type[t] \in {"bulk", "interrupt"} /\ q.retired = priv[t].retired + 1
      /\ Urb.code \in Ending \/ (Urb.i < q.n /\ Urb.n = size[t][Urb.i])
  BY DEF Ends, EndsOther
<1>4. Gapless(t) /\ Carried(t) /\ Fitting(t) /\ Quiet(t) BY <1>3 DEF Sound
<1>5. Shifted(t) BY <1>1, TailShifts DEF Reaps, EarnedInv
<1>6. \A k \in Holds(t)' : k + 1 \in Holds(t) /\ k \in Nat /\ k + 1 # 1 BY <1>5, HoldsShift
<1>7. 1 \in UrbsOf(done, t) /\ done[1] = Urb /\ priv[t].retired \in Nat /\ priv[t].n \in Nat BY <1>1, OneLess
<1>8. user'[t].op # "submit" BY <1>1 DEF Reaps, Idle
<1>9. Urb.i = priv[t].retired + 1 /\ priv[t].retired < priv[t].n BY <1>1, <1>3, <1>4, ReapsNext
<1>10. CASE Urb.code \in Ending
  <2>1. Urb \in Range(done) /\ Urb.t = t BY <1>1, <1>7 DEF UrbsOf, Range, Reaps
  <2>2. CodeEarned(Urb) BY <2>1 DEF EarnedInv
  <2>3. continuation
    <3>1. Urb.code \in fault[t] BY <1>10, <2>1, <2>2 DEF CodeEarned, Ending, Faults
    <3>2. QED BY <1>3, <3>1 DEF Steady
  <2>4. DOMAIN pend[t] = {} BY <1>3, <1>7, <1>10, <2>3, NotEnded
  <2>5. Holds(t)' = {}
    <3> SUFFICES ASSUME NEW k \in Holds(t)' PROVE FALSE OBVIOUS
    <3>1. k + 1 \in Holds(t) /\ 1 < k + 1
      <4>1. k + 1 \in Holds(t) /\ k \in Nat /\ k + 1 # 1 BY <1>6
      <4>2. QED BY <4>1
    <3>2. QED BY <1>3, <1>4, <1>7, <1>10, <2>3, <3>1 DEF Quiet
  <2>6. QED BY <1>1, <1>8, <2>4, <2>5 DEF Spent
<1>11. CASE Urb.i < q.n /\ Urb.n = size[t][Urb.i]
  <2>1. CASE Spent(t)
    <3>1. Holds(t)' = {} BY <1>6, <2>1 DEF Spent
    <3>2. QED BY <1>1, <1>8, <2>1, <3>1 DEF Spent
  <2>2. CASE priv[t].moved = Offset(t, priv[t].retired + 1)
    <3>1. Laid(t) BY DEF TypeInv, LayInv
    <3>2. Urb.i \in 1 .. priv[t].n - 1 BY <1>2, <1>7, <1>9, <1>11
    <3>3. Offset(t, Urb.i + 1) = Offset(t, Urb.i) + size[t][Urb.i] BY <3>1, <3>2, PartsLie
    <3>4. q.moved = Offset(t, Urb.i + 1) BY <1>2, <1>9, <1>11, <2>2, <3>3
    <3>5. Offset(t, priv[t].retired + 1)' = Offset(t, Urb.i + 1) BY <1>1, <1>2, <1>3, <1>9 DEF Offset
    <3>6. q.retired < q.n BY <1>3, <1>9, <1>11
    <3>7. QED BY <3>4, <3>5, <3>6
  <2>3. QED BY <1>3, <1>4, <2>1, <2>2 DEF Fitting
<1>12. QED BY <1>3, <1>10, <1>11

\* What is known of a transfer that goes on when one of its URBs has been reaped.
LEMMA ReapedSound ==
  ASSUME UsbfsAssumption, TypeInv, FlyingInv, EarnedInv, AddUpInv, Reaping, NEW t \in Transfers, priv[t].urbs,
         Steady(t), Sound(t), type[t] # "iso", NEW q, Ends(t, q), EndsOther(t, q), q.urbs
  PROVE  Sound(t)'
<1>1. UNCHANGED <<type, continuation>> BY DEF Ends, Reaps
<1>2. priv'[t] = q BY DEF Ends, FlyingInv, Shapes
<1>3. q.action = "normal" => Gapless(t)'
  <2> SUFFICES ASSUME q.action = "normal" PROVE Gapless(t)' OBVIOUS
  <2>1. Gapless(t) BY DEF Sound, Ends
  <2>2. QED BY <2>1, GaplessReaped
<1>4. Carried(t)' /\ Shifted(t) /\ Fitting(t)' BY CarriedReaped, FittingReaped
<1>5. Quiet(t)'
  <2> SUFFICES ASSUME continuation, type[t] \in {"bulk", "interrupt"},
                      NEW k \in Holds(t)', NEW j \in UrbsOf(done', t), j < k
               PROVE  done'[j].code \notin Ending
    BY <1>1 DEF Quiet
  <2>1. k + 1 \in Holds(t) /\ k \in Nat BY <1>4, HoldsShift
  <2>2. j + 1 \in UrbsOf(done, t) /\ done'[j] = done[j + 1] /\ j \in Nat BY <1>4 DEF Shifted
  <2>3. j + 1 < k + 1 BY <2>1, <2>2
  <2>4. QED BY <2>1, <2>2, <2>3 DEF Sound, Quiet
<1>6. QED BY <1>1, <1>2, <1>3, <1>4, <1>5 DEF Sound

\* What has arrived when the last one has been reaped.
LEMMA LastInPlace ==
  ASSUME UsbfsAssumption, TypeInv, FlyingInv, EarnedInv, AddUpInv, Reaping, NEW t \in Transfers, priv[t].urbs,
         Steady(t), Sound(t), type[t] # "iso", NEW q, Ends(t, q), EndsOther(t, q), ~q.urbs
  PROVE  q.moved = sent'[t] /\ \A y \in 1 .. q.moved : buf'[t][y] = y
<1>1. Reaps(t) /\ UNCHANGED <<type, size[t], pend[t], sent[t]>> BY DEF Ends, Reaps
<1>2. priv'[t] = q /\ q \in Privs BY DEF Ends, FlyingInv, Shapes
<1>3. Carried(t)' BY CarriedReaped
<1>4. UrbsOf(done', t) = {}
  <2>1. InKernel(t) = 1 BY DEF Ends
  <2>2. InKernel(t)' = 0 /\ done' \in Seq(Range(done')) BY <1>1, <2>1, OneLess
  <2>3. Len(pend[t]) \in Nat BY PendKnown
  <2>4. IsFiniteSet(UrbsOf(done', t)) /\ Cardinality(UrbsOf(done', t)) \in Nat BY <2>2, UrbsOfFinite
  <2>5. Cardinality(UrbsOf(done', t)) = 0 BY <1>1, <2>2, <2>3, <2>4 DEF InKernel
  <2>6. QED BY <2>4, <2>5, FS_EmptySet
<1>5. Holds(t)' = {} BY <1>4 DEF Holds
<1>6. q.moved \in Nat /\ sent'[t] \in Nat
  <2>1. sent[t] \in Nat BY DEF TypeInv, TypeOK
  <2>2. QED BY <1>1, <1>2, <2>1 DEF Privs
<1>7. q.moved <= sent'[t] /\ (\A y \in 1 .. q.moved : buf'[t][y] = y) /\ q.moved + 1 .. sent'[t] = {}
  BY <1>2, <1>3, <1>5 DEF Carried
<1>8. q.moved = sent'[t]
  <2> DEFINE m == q.moved  s == sent'[t]
  <2>1. m \in Nat /\ s \in Nat /\ m <= s /\ m + 1 .. s = {} BY <1>6, <1>7
  <2> HIDE DEF m, s
  <2>2. m = s
    <3> SUFFICES ASSUME m # s PROVE FALSE OBVIOUS
    <3>1. m + 1 \in m + 1 .. s BY <2>1
    <3>2. QED BY <2>1, <3>1
  <2>3. QED BY <2>2 DEF m, s
<1>9. QED BY <1>7, <1>8

\* The results of the next packets are put where they belong.
LEMMA PacketsFill ==
  ASSUME UsbfsAssumption, TypeInv, FlyingInv, EarnedInv, AddUpInv, Reaping, NEW t \in Transfers, priv[t].urbs,
         Sound(t), type[t] = "iso", NEW q, Ends(t, q), EndsIso(t, q), priv[t].action = "normal"
  PROVE  /\ Urb.i = priv[t].retired + 1 /\ Urb.i \in 1 .. priv[t].n /\ Laid(t)
         /\ q.off = Offset(t, Urb.i) + size[t][Urb.i] /\ q.off \in Nat
         /\ \A y \in 1 .. q.off : buf'[t][y] = y
<1>1. Reaps(t) BY DEF Ends
<1>2. Steady(t) /\ Gapless(t) /\ Results(t) BY DEF Steady, Sound
<1>3. Urb.i = priv[t].retired + 1 /\ priv[t].retired < priv[t].n BY <1>1, <1>2, ReapsNext
<1>4. Laid(t) /\ priv[t].retired \in Nat BY DEF TypeInv, TypeOK, LayInv
<1>5. priv[t].n \in Nat BY <1>4, PartsLie
<1>6. Urb.i \in 1 .. priv[t].n BY <1>3, <1>4, <1>5
<1> DEFINE a == priv[t].off  n == size[t][Urb.i]
<1>7. a = Offset(t, Urb.i) /\ \A y \in 1 .. a : buf[t][y] = y BY <1>2, <1>3 DEF Results
<1>8. a \in Nat /\ n \in Nat /\ a + n <= BufferLength BY <1>4, <1>6, <1>7, PartsLie
<1>9. q.off = a + n /\ buf'[t] = Filled(buf[t], a, a, n)
  <2>1. Offset(t, Urb.i) = Before(size[t], Urb.i) BY DEF Offset
  <2>2. QED BY <1>7, <2>1 DEF EndsIso
<1>10. BufferLength \in Nat BY DEF UsbfsAssumption
<1>11. q.off = Offset(t, Urb.i) + size[t][Urb.i] BY <1>7, <1>9
<1> HIDE DEF a, n
<1>12. ASSUME NEW y \in 1 .. a + n PROVE buf'[t][y] = y
  <2>1. y \in Positions /\ y \in Nat BY <1>8, <1>10 DEF Positions
  <2>2. CASE y <= a
    <3>1. y \in 1 .. a /\ y \notin a + 1 .. a + n BY <1>8, <2>1, <2>2
    <3>2. QED BY <1>7, <1>9, <2>1, <3>1 DEF Filled
  <2>3. CASE ~(y <= a)
    <3>1. y \in a + 1 .. a + n /\ a + y - a = y BY <1>8, <2>1, <2>3
    <3>2. QED BY <1>9, <2>1, <3>1 DEF Filled
  <2>4. QED BY <2>2, <2>3
<1>13. QED BY <1>3, <1>4, <1>6, <1>8, <1>9, <1>11, <1>12

\* The packets of a reaped isochronous URB are copied to the transfer's.
LEMMA PacketsSound ==
  ASSUME UsbfsAssumption, TypeInv, FlyingInv, EarnedInv, AddUpInv, Reaping, NEW t \in Transfers, priv[t].urbs,
         Sound(t), type[t] = "iso", NEW q, Ends(t, q), EndsIso(t, q), q.urbs
  PROVE  Sound(t)'
<1>1. UNCHANGED <<type, continuation, size>> BY DEF Ends, Reaps
<1>2. priv'[t] = q /\ q.n = priv[t].n BY DEF Ends, FlyingInv, Shapes
<1> SUFFICES ASSUME q.action = "normal" PROVE Gapless(t)' /\ Results(t)'
  BY <1>1, <1>2 DEF Sound, Results
<1>3. priv[t].action = "normal" /\ q.retired = priv[t].retired + 1 BY DEF Ends
<1>4. Steady(t) /\ Gapless(t) BY <1>3 DEF Steady, Sound
<1>5. Gapless(t)' BY <1>4, GaplessReaped
<1>6. /\ Urb.i = priv[t].retired + 1 /\ Urb.i \in 1 .. priv[t].n /\ Laid(t)
      /\ q.off = Offset(t, Urb.i) + size[t][Urb.i] /\ q.off \in Nat
      /\ \A y \in 1 .. q.off : buf'[t][y] = y
  BY <1>3, PacketsFill
<1>7. Urb.i < q.n BY DEF EndsIso
<1>8. Urb.i \in 1 .. priv[t].n - 1
  <2>1. priv[t].n \in Nat BY <1>6, PartsLie
  <2>2. QED BY <1>2, <1>6, <1>7, <2>1
<1>9. q.off = Offset(t, Urb.i + 1) BY <1>6, <1>8, PartsLie
<1>10. Offset(t, Urb.i + 1) = Offset(t, priv[t].retired + 1)' BY <1>1, <1>2, <1>3, <1>6 DEF Offset
<1>11. QED BY <1>2, <1>3, <1>5, <1>6, <1>7, <1>9, <1>10 DEF Results

\* The packets of a finished isochronous transfer lie where they should.
LEMMA PacketsInPlace ==
  ASSUME UsbfsAssumption, TypeInv, FlyingInv, EarnedInv, AddUpInv, Reaping, NEW t \in Transfers, priv[t].urbs,
         Sound(t), type[t] = "iso", NEW q, Ends(t, q), EndsIso(t, q), ~q.urbs, handler'.st = "completed"
  PROVE  q.off = FoldLeft(+, 0, size'[t]) /\ \A y \in 1 .. q.off : buf'[t][y] = y
<1>1. UNCHANGED size /\ q.n = priv[t].n BY DEF Ends
<1>2. priv[t].action = "normal" /\ Urb.i = q.n BY DEF EndsIso
<1>3. /\ Laid(t) /\ q.off = Offset(t, Urb.i) + size[t][Urb.i]
      /\ \A y \in 1 .. q.off : buf'[t][y] = y
  BY <1>2, PacketsFill
<1>4. q.off = Sum(size[t]) BY <1>1, <1>2, <1>3, PartsLie
<1>5. QED BY <1>1, <1>3, <1>4 DEF Sum

\* The URB at hand is one of its transfer, and not yet counted.
LEMMA UrbKnown ==
  ASSUME UsbfsAssumption, TypeInv, FlyingInv, EarnedInv, AddUpInv, Reaping, NEW t \in Transfers, Reaps(t)
  PROVE  /\ Urb \in Urbs /\ Urb.i \in 1 .. priv[t].n /\ Urb.n \in Nat /\ size[t][Urb.i] \in Nat
         /\ priv[t] \in Privs /\ priv[t].urbs /\ DOMAIN priv = Transfers
         /\ priv[t].retired + 1 \in Nat /\ priv[t].retired + 1 <= priv[t].n
<1>1. done \in Seq(Urbs) /\ done # <<>> BY DEF TypeInv, TypeOK, Reaps
<1>2. Urb \in Urbs BY <1>1, HeadTailProperties DEF Urb
<1>3. Urb.n \in Nat BY <1>2 DEF Urbs
<1>4. priv[t].urbs /\ Laid(t) /\ InOrder(t) BY DEF Reaps, TypeInv, LayInv, AddUpInv, Whole
<1>5. 1 \in UrbsOf(done, t) /\ done[1] = Urb /\ priv[t].n \in Nat /\ priv[t].retired \in Nat
      /\ InKernel(t) \in Nat \ {0} /\ priv[t].retired + InKernel(t) = priv[t].n
  BY OneLess
<1>6. Urb.i \in 1 .. priv[t].n
  <2>1. Highest(t) = priv[t].n BY DEF Highest, Reaps, Idle
  <2>2. QED BY <1>4, <1>5, <2>1 DEF InOrder, DoneInPlace
<1>7. size[t][Urb.i] \in Nat BY <1>4, <1>6, PartsLie
<1>8. priv[t] \in Privs /\ DOMAIN priv = Transfers BY DEF TypeInv, TypeOK, Privs
<1>9. priv[t].retired + 1 \in Nat /\ priv[t].retired + 1 <= priv[t].n BY <1>5
<1>10. QED BY <1>2, <1>3, <1>4, <1>6, <1>7, <1>8, <1>9

\* The handler waits, gives the URBs back or discards those that are left.
Goes(t, p, q) == Ends(t, q) /\ q.moved = p.moved /\ q.off = p.off /\ q.action = p.action

\* What the three ways in which a handler ends have in common.
LEMMA HandlingEnds ==
  ASSUME UsbfsAssumption, TypeInv, FlyingInv, EarnedInv, AddUpInv, Reaping, NEW t \in Transfers, Reaps(t),
         type[t] # "control", NEW p \in Privs, p.urbs, p.n = priv[t].n, p.retired = priv[t].retired + 1,
         p.action = "normal" => priv[t].action = "normal",
         NEW st,
         \/ Wait(p)
         \/ Completed(p, st) /\ pend[t] = <<>> /\ (Steady(t) => InKernel(t) = 1)
         \/ CancelRemaining(p),
         \E b : buf' = [buf EXCEPT ![t] = b], UNCHANGED <<flags, size, app, timing, sent, calls>>
  PROVE  \E q : Goes(t, p, q)
<1>1. /\ priv[t].n \in Nat /\ priv[t].retired \in Nat /\ priv[t].retired + InKernel(t) = priv[t].n
      /\ InKernel(t) \in Nat /\ (InKernel(t) = 1 => pend[t] = <<>>)
  BY OneLess
<1>2. Urb.t = t /\ p.retired <= p.n BY UrbKnown DEF Reaps
<1>3. ASSUME NEW r \in Privs, NEW s, Completed(r, s), r.n = p.n, r.retired = p.retired, r.action = p.action,
             r.moved = p.moved, r.off = p.off, pend[t] = <<>>, Steady(t) => InKernel(t) = 1
      PROVE  \E q : Goes(t, p, q)
  <2> DEFINE q == [r EXCEPT !.urbs = FALSE]
  <2>1. priv' = [priv EXCEPT ![t] = q] /\ handler'.op = "report" /\ handler'.t = t BY <1>2, <1>3 DEF Completed
  <2>2. /\ q \in Privs /\ ~q.urbs /\ q.n = p.n /\ q.retired = p.retired /\ q.action = p.action /\ q.moved = p.moved
        /\ q.off = p.off
    BY <1>3 DEF Privs
  <2> HIDE DEF q
  <2>3. q.retired <= q.n BY <1>2, <2>2
  <2>4. QED BY ZenonT(60), <1>3, <2>1, <2>2, <2>3 DEF Goes, Ends
<1>4. ASSUME NEW q \in Privs, priv' = [priv EXCEPT ![t] = q], q.urbs, handler'.op \in {"poll", "discard"},
             q.n = p.n, q.retired = p.retired, q.action = p.action, q.moved = p.moved, q.off = p.off
      PROVE  \E r : Goes(t, p, r)
  <2>1. q.retired <= q.n BY <1>2, <1>4
  <2>2. QED BY <1>4, <2>1 DEF Goes, Ends
<1>5. CASE Wait(p)
  <2>1. priv' = [priv EXCEPT ![t] = p] /\ handler'.op = "poll" BY <1>2, <1>5 DEF Wait, Poll
  <2>2. QED BY <1>4, <2>1
<1>6. CASE Completed(p, st) /\ pend[t] = <<>> /\ (Steady(t) => InKernel(t) = 1) BY <1>3, <1>6
<1>7. CASE CancelRemaining(p)
  <2> DEFINE q == [p EXCEPT !.status = IF p.action = "error" /\ @ = "completed" THEN "error" ELSE @]
  <2>1. /\ q \in Privs /\ q.urbs /\ q.n = p.n /\ q.retired = p.retired /\ q.action = p.action
        /\ q.moved = p.moved /\ q.off = p.off
    BY DEF Privs, Statuses
  <2>2. IF q.retired = q.n THEN Completed(q, "by_action")
        ELSE /\ priv' = [priv EXCEPT ![t] = q]
             /\ handler' = [op |-> "discard", t |-> t, i |-> q.n, low |-> Urb.i + 1]
    BY <1>2, <1>7 DEF CancelRemaining
  <2> HIDE DEF q
  <2>3. CASE q.retired = q.n
    <3>1. InKernel(t) = 1 /\ pend[t] = <<>> BY <1>1, <2>1, <2>3
    <3>2. QED BY <1>3, <2>1, <2>2, <2>3, <3>1
  <2>4. CASE q.retired # q.n
    <3>1. handler'.op = "discard" BY <2>2, <2>4
    <3>2. QED BY <1>4, <2>1, <2>2, <2>4, <3>1
  <2>5. QED BY <2>3, <2>4
<1>8. QED BY <1>5, <1>6, <1>7

\* What the completion of a URB is to the data.
Completes(t, q) == Ends(t, q) /\ IF type[t] = "iso" THEN EndsIso(t, q) ELSE EndsOther(t, q)

\* Each completion handler ends in one of the ways of Ends.
LEMMA CompletionEnds ==
  ASSUME UsbfsAssumption, TypeInv, FlyingInv, EarnedInv, AddUpInv, Reaping,
         BulkSurplus \/ BulkNormal \/ IsoCompletion \/ ControlCompletion, UNCHANGED fixed
  PROVE  \E t \in Transfers : \E q : Completes(t, q)
<1>1. PICK t \in Transfers : Urb.t = t /\ Reaps(t)
  <2>1. PICK t \in Transfers : Urb.t = t /\ LockFree(t) /\ priv[t].urbs
    BY DEF BulkSurplus, BulkNormal, IsoCompletion, ControlCompletion, Mine
  <2>2. handler = Poll /\ done # <<>> /\ Reaped
    BY DEF BulkSurplus, BulkNormal, IsoCompletion, ControlCompletion, Mine
  <2>3. QED BY <2>1, <2>2 DEF Reaps, Reaped, LockFree, fixed
<1>2. UNCHANGED <<flags, size, app, timing, sent, calls>>
  BY DEF BulkSurplus, BulkNormal, IsoCompletion, ControlCompletion, Reaped
<1>3. /\ Urb \in Urbs /\ Urb.i \in 1 .. priv[t].n /\ Urb.n \in Nat /\ size[t][Urb.i] \in Nat
      /\ priv[t] \in Privs /\ priv[t].urbs /\ DOMAIN priv = Transfers
      /\ priv[t].retired + 1 \in Nat /\ priv[t].retired + 1 <= priv[t].n
  BY <1>1, UrbKnown
<1>4. /\ Fields /\ InOrder(t) /\ buf \in [Transfers -> [Positions -> Nat]] /\ priv[t].moved \in Nat /\ priv[t].off \in Nat
  BY <1>3 DEF EarnedInv, AddUpInv, Whole, TypeInv, TypeOK, Privs
<1>5. /\ priv[t].n \in Nat /\ priv[t].retired \in Nat /\ priv[t].retired + InKernel(t) = priv[t].n
      /\ InKernel(t) \in Nat /\ 1 \in UrbsOf(done, t) /\ done[1] = Urb /\ (InKernel(t) = 1 => pend[t] = <<>>)
  BY <1>1, OneLess
<1>6. priv[t].retired + 1 = priv[t].n \/ (priv[t].action = "normal" /\ Urb.i = priv[t].n) =>
        pend[t] = <<>> /\ (Steady(t) => InKernel(t) = 1)
  BY <1>1, <1>5, LastIsReapedLast
<1>7. priv[t].moved + Urb.n \in Nat /\ priv[t].off + size[t][Urb.i] \in Nat BY SMTT(30), <1>3, <1>4
<1>8. CASE BulkSurplus
  <2> DEFINE p == priv[t]  last == p.retired + 1 = p.n
             r == [p EXCEPT !.retired = @ + 1, !.moved = @ + Urb.n,
                            !.status = IF last /\ p.action # "early" /\ @ = "completed" THEN "error" ELSE @]
  <2>1. /\ p.action # "normal" /\ type[t] \in {"bulk", "interrupt"}
        /\ IF last THEN Completed(r, "by_action") ELSE Wait(r)
        /\ buf' = [buf EXCEPT ![t] = Moved(buf[t], Offset(t, Urb.i), p.moved, Urb.n)]
    BY <1>1, <1>8 DEF BulkSurplus, Mine
  <2>2. /\ r \in Privs /\ r.urbs /\ r.n = p.n /\ r.retired = p.retired + 1 /\ r.action = p.action
        /\ r.moved = p.moved + Urb.n
    BY <1>3, <1>7 DEF Privs, Statuses
  <2> HIDE DEF r
  <2>3. PICK q : Goes(t, r, q) BY <1>1, <1>2, <1>6, <2>1, <2>2, HandlingEnds
  <2>4. EndsOther(t, q) BY <1>4, <2>1, <2>2, <2>3 DEF Goes, EndsOther
  <2>5. QED BY <2>1, <2>3, <2>4 DEF Goes, Completes
<1>9. CASE BulkNormal
  <2> DEFINE p == [priv[t] EXCEPT !.retired = @ + 1, !.moved = @ + Urb.n]
             first(s) == [p EXCEPT !.status = IF @ = "completed" THEN s ELSE @]
  <2>1. type[t] \in {"bulk", "interrupt"} /\ priv[t].action = "normal" /\ buf' = buf
    BY <1>1, <1>9 DEF BulkNormal, Mine
  <2>2. \/ Urb.i = p.n /\ Completed(p, "by_action")
        \/ CancelRemaining([p EXCEPT !.action = "early"])
        \/ Urb.i < p.n /\ Urb.n = size[t][Urb.i] /\ Wait(p)
        \/ Urb.code = "shutdown" /\ CancelRemaining([p EXCEPT !.status = "no_device"])
        \/ Urb.code = "stall" /\ CancelRemaining(first("stall"))
        \/ Urb.code = "overflow" /\ Completed(first("overflow"), "by_action")
        \/ CancelRemaining([p EXCEPT !.action = "error"])
    BY <1>1, <1>9 DEF BulkNormal
  <2>3. Urb.code = "overflow" => pend[t] = <<>> /\ (Steady(t) => InKernel(t) = 1)
    <3>1. DoneInPlace(t) BY <1>3, <1>4 DEF InOrder
    <3>2. QED BY <1>5, <1>6, <2>1, <3>1 DEF DoneInPlace
  <2>4. p \in Privs /\ p.urbs /\ p.n = priv[t].n /\ p.retired = priv[t].retired + 1 /\ p.action = "normal"
        /\ p.moved = priv[t].moved + Urb.n
    BY <1>3, <1>7, <2>1 DEF Privs
  <2> DEFINE Fine(r) == /\ r \in Privs /\ r.urbs /\ r.n = priv[t].n /\ r.retired = priv[t].retired + 1
                        /\ r.moved = priv[t].moved + Urb.n
  <2> HIDE DEF p
  <2>5. /\ Fine(p) /\ Fine([p EXCEPT !.action = "early"]) /\ Fine([p EXCEPT !.action = "error"])
        /\ Fine([p EXCEPT !.status = "no_device"])
        /\ \A s \in {"stall", "overflow"} : Fine(first(s))
        /\ [p EXCEPT !.action = "early"].action = "early" /\ [p EXCEPT !.action = "error"].action = "error"
    BY <2>4 DEF Privs, Actions, Statuses
  <2> HIDE DEF first
  <2>6. buf' = [buf EXCEPT ![t] = buf[t]] /\ \E b : buf' = [buf EXCEPT ![t] = b] BY <1>4, <2>1
  <2>7. ASSUME NEW r, Fine(r), NEW q, Goes(t, r, q),
               r.action = "normal" /\ q.urbs => Urb.code \in Ending \/ (Urb.i < q.n /\ Urb.n = size[t][Urb.i])
        PROVE  Completes(t, q)
    BY <2>1, <2>7 DEF Goes, Completes, EndsOther
  <2>8. CASE Urb.i = p.n /\ Completed(p, "by_action")
    <3>1. PICK q : Goes(t, p, q) BY <1>1, <1>2, <1>6, <2>1, <2>4, <2>5, <2>6, <2>8, HandlingEnds
    <3>2. handler'.op = "report" BY <2>8 DEF Completed
    <3>3. ~q.urbs BY <3>1, <3>2 DEF Goes, Ends
    <3>4. QED BY <2>5, <2>7, <3>1, <3>3
  <2>9. CASE CancelRemaining([p EXCEPT !.action = "early"])
    <3>1. PICK r : r = [p EXCEPT !.action = "early"] OBVIOUS
    <3>2. CancelRemaining(r) /\ Fine(r) /\ r.action # "normal" BY <2>5, <2>9, <3>1
    <3>3. PICK q : Goes(t, r, q) BY <1>1, <1>2, <2>1, <2>6, <3>2, HandlingEnds
    <3>4. QED BY <2>7, <3>2, <3>3
  <2>10. CASE Urb.i < p.n /\ Urb.n = size[t][Urb.i] /\ Wait(p)
    <3>1. PICK q : Goes(t, p, q) BY <1>1, <1>2, <2>1, <2>5, <2>6, <2>10, HandlingEnds
    <3>2. q.n = p.n BY <2>4, <3>1 DEF Goes, Ends
    <3>3. QED BY <2>5, <2>7, <2>10, <3>1, <3>2
  <2>11. CASE Urb.code = "shutdown" /\ CancelRemaining([p EXCEPT !.status = "no_device"])
    <3>1. PICK r : r = [p EXCEPT !.status = "no_device"] OBVIOUS
    <3>2. CancelRemaining(r) /\ Fine(r) BY <2>5, <2>11, <3>1
    <3>3. PICK q : Goes(t, r, q) BY <1>1, <1>2, <2>1, <2>6, <3>2, HandlingEnds
    <3>4. QED BY <2>7, <2>11, <3>2, <3>3 DEF Ending
  <2>12. CASE Urb.code = "stall" /\ CancelRemaining(first("stall"))
    <3>1. CancelRemaining(first("stall")) /\ Fine(first("stall")) BY <2>5, <2>12
    <3>2. PICK q : Goes(t, first("stall"), q) BY <1>1, <1>2, <2>1, <2>6, <3>1, HandlingEnds
    <3>3. QED BY <2>7, <2>12, <3>1, <3>2 DEF Ending
  <2>13. CASE Urb.code = "overflow" /\ Completed(first("overflow"), "by_action")
    <3>1. Fine(first("overflow")) BY <2>5
    <3>2. PICK q : Goes(t, first("overflow"), q) BY <1>1, <1>2, <2>1, <2>3, <2>6, <2>13, <3>1, HandlingEnds
    <3>3. handler'.op = "report" BY <2>13 DEF Completed
    <3>4. ~q.urbs BY <3>2, <3>3 DEF Goes, Ends
    <3>5. QED BY <2>7, <3>1, <3>2, <3>4
  <2>14. CASE CancelRemaining([p EXCEPT !.action = "error"])
    <3>1. PICK r : r = [p EXCEPT !.action = "error"] OBVIOUS
    <3>2. CancelRemaining(r) /\ Fine(r) /\ r.action # "normal" BY <2>5, <2>14, <3>1
    <3>3. PICK q : Goes(t, r, q) BY <1>1, <1>2, <2>1, <2>6, <3>2, HandlingEnds
    <3>4. QED BY <2>7, <3>2, <3>3
  <2>15. QED BY <2>2, <2>8, <2>9, <2>10, <2>11, <2>12, <2>13, <2>14
<1>10. CASE IsoCompletion
  <2> DEFINE p == priv[t]
             r == [p EXCEPT !.retired = @ + 1, !.off = @ + size[t][Urb.i]]
  <2>1. /\ type[t] = "iso"
        /\ buf' = [buf EXCEPT ![t] = Filled(buf[t], p.off, Before(size[t], Urb.i), size[t][Urb.i])]
        /\ \/ p.action # "normal" /\ r.retired = r.n
                 /\ Completed(r, IF p.action = "cancelled" THEN "cancellation" ELSE "error")
           \/ Wait(r) /\ p.action # "normal"
           \/ Wait(r) /\ Urb.i < r.n
           \/ /\ p.action = "normal" /\ Urb.i = r.n
              /\ Completed(r, IF Urb.code = "shutdown" THEN "no_device" ELSE "completed")
    BY <1>1, <1>10 DEF IsoCompletion, Mine
  <2>2. /\ r \in Privs /\ r.urbs /\ r.n = p.n /\ r.retired = p.retired + 1 /\ r.action = p.action
        /\ r.off = p.off + size[t][Urb.i]
    BY <1>3, <1>7 DEF Privs
  <2> HIDE DEF r
  <2>3. PICK q : Goes(t, r, q) BY <1>1, <1>2, <1>6, <2>1, <2>2, HandlingEnds
  <2>4. /\ q.n = p.n /\ q.off = r.off /\ q.action = r.action /\ Ends(t, q)
        /\ handler'.op = "report" => ~q.urbs
        /\ handler'.op = "poll" => q.urbs
    BY <2>3 DEF Goes, Ends
  <2>5. buf'[t] = Filled(buf[t], p.off, Before(size[t], Urb.i), size[t][Urb.i]) BY <1>4, <2>1
  <2>6. ~q.urbs /\ handler'.st = "completed" => p.action = "normal" /\ Urb.i = q.n
    BY <2>1, <2>2, <2>4 DEF Completed, Wait, Poll
  <2>7. q.urbs /\ q.action = "normal" => Urb.i < q.n BY <2>1, <2>2, <2>4 DEF Completed
  <2>8. QED BY <2>1, <2>2, <2>4, <2>5, <2>6, <2>7 DEF Completes, EndsIso
<1>11. CASE ControlCompletion
  <2> DEFINE q == [[priv[t] EXCEPT !.moved = @ + Urb.n] EXCEPT !.urbs = FALSE]
  <2>1. type[t] = "control" /\ priv' = [priv EXCEPT ![t] = q] /\ handler'.op = "report" /\ handler'.t = t /\ buf' = buf
    BY <1>1, <1>11 DEF ControlCompletion, Mine, Completed
  <2>2. q \in Privs /\ q.n = priv[t].n /\ q.retired = priv[t].retired /\ ~q.urbs
        /\ q.action = priv[t].action /\ q.moved = priv[t].moved + Urb.n
    BY <1>3, <1>7 DEF Privs
  <2>3. InKernel(t) = 1 /\ pend[t] = <<>> BY <1>3, <1>4, <1>5, <2>1 DEF InOrder, CallsInOrder
  <2> HIDE DEF q
  <2>4. q.retired <= q.n BY <1>5, <2>2
  <2>5. \E b : buf' = [buf EXCEPT ![t] = b]
    <3>1. buf' = [buf EXCEPT ![t] = buf[t]] BY <1>4, <2>1
    <3>2. QED BY <3>1
  <2>6. Ends(t, q) BY <1>1, <1>2, <2>1, <2>2, <2>3, <2>4, <2>5 DEF Ends
  <2>7. EndsOther(t, q) BY <2>1, <2>2 DEF EndsOther
  <2>8. QED BY <2>1, <2>6, <2>7 DEF Completes
<1>12. QED BY <1>8, <1>9, <1>10, <1>11

\* The completion handlers leave all fields what they should be.
LEMMA EndsTyped ==
  ASSUME UsbfsAssumption, TypeInv, FlyingInv, EarnedInv, AddUpInv, Reaping, NEW t \in Transfers, NEW q, Completes(t, q)
  PROVE  TypeInv'
<1>1. Ends(t, q) /\ Reaps(t) BY DEF Completes, Ends
<1>2. /\ UNCHANGED <<type, continuation, user, pend, cut, connected, fault, flags, size, app, timing, sent, calls>>
      /\ done' = Tail(done) /\ done # <<>> /\ user[t] = Idle
  BY <1>1 DEF Ends, Reaps
<1>3. /\ Urb \in Urbs /\ Urb.i \in 1 .. priv[t].n /\ Urb.n \in Nat /\ size[t][Urb.i] \in Nat
      /\ priv[t] \in Privs /\ priv[t].urbs
  BY <1>1, UrbKnown
<1>4. /\ priv' \in [Transfers -> Privs] /\ \A u \in Transfers : priv'[u].retired <= priv'[u].n
      /\ priv'[t] = q /\ \A u \in Transfers \ {t} : priv'[u] = priv[u]
  BY <1>1, PrivTyped DEF Ends, TypeInv
<1>5. Laid(t) /\ Landed(t) BY <1>3 DEF TypeInv, LayInv
<1>6. Urb.n <= size[t][Urb.i]
  <2>1. 1 \in UrbsOf(done, t) /\ done[1] = Urb BY <1>1, OneLess
  <2>2. Urb.n \in 0 .. size[t][Urb.i] BY <1>5, <2>1 DEF Landed
  <2>3. QED BY <1>3, <2>2
<1>7. buf' \in [Transfers -> [Positions -> Nat]]
  <2>1. buf \in [Transfers -> [Positions -> Nat]] /\ priv[t].moved \in Nat /\ priv[t].off \in Nat
    BY <1>3 DEF TypeInv, TypeOK, Privs
  <2>2. PICK b : buf' = [buf EXCEPT ![t] = b] BY <1>1 DEF Ends
  <2>3. b = buf'[t] BY <2>1, <2>2
  <2>4. \A y \in Positions : y \in Nat BY DEF Positions, UsbfsAssumption
  <2>5. CASE type[t] = "iso"
    <3> DEFINE a == priv[t].off  m == Before(size[t], Urb.i)  n == size[t][Urb.i]
    <3>1. b = Filled(buf[t], a, m, n) BY <2>3, <2>5 DEF Completes, EndsIso
    <3>2. m = Offset(t, Urb.i) BY <2>5 DEF Offset
    <3>3. m \in Nat /\ a \in Nat /\ n \in Nat BY <1>3, <1>5, <2>1, <3>2, PartsLie
    <3> HIDE DEF a, m, n
    <3>4. b \in [Positions -> Nat] BY <2>1, <2>4, <3>1, <3>3 DEF Filled
    <3>5. QED BY <2>1, <2>2, <3>4
  <2>6. CASE type[t] # "iso"
    <3> DEFINE a == Offset(t, Urb.i)  m == priv[t].moved  n == Urb.n  s == size[t][Urb.i]
    <3>1. b = Moved(buf[t], a, m, n) \/ b = buf[t] BY <2>3, <2>6 DEF Completes, EndsOther
    <3>2. a \in Nat /\ m \in Nat /\ n \in Nat /\ s \in Nat /\ n <= s /\ a + s <= BufferLength
      BY <1>3, <1>5, <1>6, <2>1, PartsLie
    <3>3. BufferLength \in Nat BY DEF UsbfsAssumption
    <3> HIDE DEF a, m, n, s
    <3>4. \A y \in Positions : y \in m + 1 .. m + n => y - m + a \in Positions BY <3>2, <3>3 DEF Positions
    <3>5. Moved(buf[t], a, m, n) \in [Positions -> Nat]
      <4>1. \A y \in Positions : (IF y \in m + 1 .. m + n THEN buf[t][y - m + a] ELSE buf[t][y]) \in Nat
        BY <2>1, <3>4
      <4>2. QED BY <4>1 DEF Moved
    <3>6. b \in [Positions -> Nat] BY <2>1, <3>1, <3>5
    <3>7. QED BY <2>1, <2>2, <3>6
  <2>7. QED BY <2>5, <2>6
<1>8. done' \in Seq(Urbs) BY <1>2, HeadTailProperties DEF TypeInv, TypeOK
<1>9. handler'.op \in {"poll", "discard", "report"} BY <1>1, <1>4 DEF Ends, Privs
<1>10. TypeOK' BY <1>2, <1>4, <1>7, <1>8, <1>9 DEF TypeInv, TypeOK, Privs
<1>11. \A u \in Transfers : Within(done, done', u) BY <1>1, OneLess
<1>12. LayInv(t)'
  <2>1. Laid(t)' BY <1>1, <1>2, <1>4, <1>5 DEF Laid, Ends
  <2>2. Landed(t)'
    <3>1. ASSUME NEW k \in UrbsOf(done', t) PROVE done'[k].n \in 0 .. size[t][done'[k].i]
      <4>1. Within(done, done', t) BY <1>11
      <4>2. PICK j \in UrbsOf(done, t) : done'[k] = done[j] BY <4>1 DEF Within
      <4>3. done[j].n \in 0 .. size[t][done[j].i] BY <1>5 DEF Landed
      <4>4. QED BY <4>2, <4>3
    <3>2. size' = size BY <1>2
    <3>3. QED BY <3>1, <3>2 DEF Landed
  <2>3. type[t] = "control" => ~q.urbs BY <1>1 DEF Ends
  <2>4. QED BY <1>2, <1>4, <2>1, <2>2, <2>3 DEF LayInv, Idle
<1>13. ASSUME NEW u \in Transfers \ {t} PROVE LayInv(u)'
  <2>1. LayInv(u) BY DEF TypeInv
  <2>2. QED BY <1>2, <1>4, <1>11, <2>1, LayStays
<1>14. QED BY <1>2, <1>10, <1>12, <1>13 DEF TypeInv

\* A URB is handled.
LEMMA EndsSound ==
  ASSUME UsbfsAssumption, TypeInv, FlyingInv, EarnedInv, AddUpInv, Reaping, DataInv,
         NEW t \in Transfers, NEW q, Completes(t, q)
  PROVE  DataInv'
<1>1. Ends(t, q) /\ Reaps(t) BY DEF Completes, Ends
<1>2. /\ UNCHANGED <<type, continuation, user, pend, cut, connected, fault, flags, size, app, timing, sent, calls>>
      /\ done' = Tail(done) /\ done # <<>> /\ priv[t].urbs /\ Urb.t = t
  BY <1>1 DEF Ends, Reaps
<1>3. DOMAIN priv = Transfers /\ DOMAIN buf = Transfers BY DEF FlyingInv, Shapes, TypeInv, TypeOK
<1>4. priv'[t] = q /\ \A u \in Transfers \ {t} : priv'[u] = priv[u] /\ buf'[u] = buf[u] BY <1>1, <1>3 DEF Ends
<1>5. Steady(t)' => Steady(t) /\ Sound(t) BY <1>2 DEF Steady, Known, DataInv
<1>6. ASSUME NEW u \in Transfers PROVE priv'[u].urbs /\ Steady(u)' => Sound(u)'
  <2>1. CASE u = t
    <3> SUFFICES ASSUME q.urbs, Steady(t)' PROVE Sound(t)' BY <1>4, <2>1
    <3>1. Steady(t) /\ Sound(t) BY <1>5
    <3>2. CASE type[t] = "iso" BY <1>2, <3>1, <3>2, PacketsSound DEF Completes
    <3>3. CASE type[t] # "iso" BY <1>2, <3>1, <3>3, ReapedSound DEF Completes
    <3>4. QED BY <3>2, <3>3
  <2>2. CASE u # t
    <3>1. Shifted(u) BY <1>2, TailShifts DEF EarnedInv
    <3>2. 1 \notin UrbsOf(done, u)
      <4>1. 1 \in UrbsOf(done, t) /\ done[1] = Urb BY <1>1, OneLess
      <4>2. QED BY <1>2, <2>2, <4>1 DEF UrbsOf
    <3>3. priv[u].urbs /\ Steady(u) => Sound(u) BY DEF DataInv
    <3>4. QED BY <1>2, <1>4, <2>2, <3>1, <3>2, <3>3, SoundShifts
  <2>3. QED BY <2>1, <2>2
<1>7. DataInPlace'
  <2> SUFFICES ASSUME handler'.op = "report" PROVE DataInPlace' BY DEF DataInPlace
  <2>1. ~q.urbs BY <1>1 DEF Ends
  <2>2. handler'.t = t BY <1>1, <2>1 DEF Ends
  <2>3. ASSUME type[t] = "iso", handler'.st = "completed"
        PROVE  q.off = FoldLeft(+, 0, size'[t]) /\ \A k \in 1 .. q.off : buf'[t][k] = k
    <3>1. Steady(t) BY <2>3 DEF Steady
    <3>2. Sound(t) BY <1>2, <3>1 DEF DataInv
    <3>3. QED BY <1>2, <2>1, <2>3, <3>2, PacketsInPlace DEF Completes
  <2>4. ASSUME type[t] # "iso", Steady(t)'
        PROVE  q.moved = sent'[t] /\ \A k \in 1 .. q.moved : buf'[t][k] = k
    BY <1>2, <1>5, <2>1, <2>4, LastInPlace DEF Completes
  <2>5. QED
    <3>1. CASE type[t] = "iso"
      <4>1. FoldLeft(+, 0, size[handler.t])' = Sum(size[handler.t])' BY DEF Sum
      <4>2. Sum(size[handler.t])' = Sum(size'[t]) BY <2>2
      <4>3. Sum(size'[t]) = FoldLeft(+, 0, size'[t]) BY DEF Sum
      <4>4. FoldLeft(+, 0, size[handler.t])' = FoldLeft(+, 0, size'[t]) BY <4>1, <4>2, <4>3
      <4>5. QED BY <1>2, <1>4, <2>2, <2>3, <3>1, <4>4 DEF DataInPlace
    <3>2. CASE type[t] # "iso" BY <1>2, <1>4, <2>2, <2>4, <3>2 DEF DataInPlace, Steady, Known
    <3>3. QED BY <3>1, <3>2
<1>8. QED BY <1>6, <1>7 DEF DataInv

\* What the kernel may answer with fits into the URB.
LEMMA AnswersFit ==
  ASSUME NEW t, NEW i, size[t][i] \in Nat, NEW a \in Answers(t, i)
  PROVE  /\ a.code \in Codes /\ a.n \in Nat /\ a.n <= size[t][i] /\ (type[t] = "iso" => a.n = 0)
<1> DEFINE c == size[t][i]
<1>1. c \in Nat OBVIOUS
<1>2. CASE type[t] = "iso" BY <1>1, <1>2 DEF Answers, Codes
<1>3. CASE type[t] # "iso"
  <2> DEFINE some == IF c > 0 THEN 0 .. c - 1 ELSE {0}
  <2>1. \A k \in some : k \in Nat /\ k <= c BY <1>1
  <2>2. \/ a = [code |-> "ok", n |-> c]
        \/ \E k \in some : \E f \in {"remote", "ok", "stall", "proto"} : a = [code |-> f, n |-> k]
        \/ a = [code |-> "overflow", n |-> c]
    BY <1>3 DEF Answers
  <2> HIDE DEF some, c
  <2>3. a.code \in {"ok", "remote", "stall", "proto", "overflow"} /\ a.n \in Nat /\ a.n <= c BY <1>1, <2>1, <2>2
  <2>4. QED BY <1>3, <2>3 DEF Codes, c
<1>4. QED BY <1>2, <1>3

\* URBs of t come back from the device.
LEMMA AnswerReturns ==
  ASSUME UsbfsAssumption, TypeInv, FlyingInv, EarnedInv, AddUpInv, NEW t \in Transfers, UrbCompletes(t)
  PROVE  \E r, x : OnlyReturns(t, r, x)
<1>1. pend[t] # <<>> /\ \E p : pend' = [pend EXCEPT ![t] = p] /\ p \in {<<>>, Tail(pend[t])}
  BY DEF UrbCompletes
<1>2. /\ pend \in [Transfers -> Seq(Nat)] /\ buf \in [Transfers -> [Positions -> Nat]] /\ sent \in [Transfers -> Nat]
      /\ Fields
  BY DEF TypeInv, TypeOK, EarnedInv
<1>3. PICK r : Comes(t, r) BY <1>2, AnswerComes
<1>4. pend'[t] \in Seq(Nat) /\ \E p \in Seq(Nat) : pend' = [pend EXCEPT ![t] = p]
  <2>1. PICK p : pend' = [pend EXCEPT ![t] = p] /\ p \in {<<>>, Tail(pend[t])} BY <1>1
  <2>2. Tail(pend[t]) \in Seq(Nat) BY <1>1, <1>2, HeadTailProperties
  <2>3. p \in Seq(Nat)
    <3>1. CASE p = <<>> BY <3>1, EmptySeq
    <3>2. CASE p = Tail(pend[t]) BY <2>2, <3>2
    <3>3. QED BY <2>1, <3>1, <3>2
  <2>4. p = pend'[t] BY <1>2, <2>1
  <2>5. QED BY <2>1, <2>3, <2>4
<1> DEFINE m == Len(r)  n == Len(pend'[t])  p == pend[t]  q == pend'[t]
<1>5. /\ done' = done \o r /\ r \in Seq(Range(r)) /\ r # <<>> /\ m + n = Len(p)
      /\ \A k \in 1 .. m : r[k].t = t /\ r[k].i = p[k]
      /\ \A k \in 1 .. n : q[k] = p[m + k]
      /\ \A k \in 2 .. m : r[k].code = "remote" /\ r[k].n = 0
      /\ \A k \in 1 .. m : r[k] = [t |-> t, i |-> p[k], code |-> r[k].code, n |-> r[k].n]
  BY <1>3 DEF Comes
<1>6. PICK a \in Answers(t, p[1]) :
         /\ r[1].code = a.code /\ r[1].n = a.n
         /\ buf' = [buf EXCEPT ![t] = Filled(@, Offset(t, p[1]), sent[t], a.n)]
         /\ sent' = [sent EXCEPT ![t] = @ + a.n]
  BY <1>3 DEF Comes
<1>7. /\ m \in Nat \ {0} /\ n \in Nat /\ DOMAIN r = 1 .. m /\ DOMAIN p = 1 .. m + n /\ DOMAIN q = 1 .. n
      /\ p \in Seq(Nat)
  <2>1. m \in Nat \ {0} /\ DOMAIN r = 1 .. m BY <1>5, LenProperties, EmptySeq
  <2>2. n \in Nat /\ DOMAIN q = 1 .. n BY <1>4, LenProperties
  <2>3. DOMAIN p = 1 .. Len(p) /\ p \in Seq(Nat) BY <1>2, LenProperties
  <2>4. QED BY <1>5, <2>1, <2>2, <2>3
<1>8. UrbsOf(r, t) = 1 .. m BY <1>5, AllOfOne
<1>9. 1 \in DOMAIN pend[t] /\ 1 \in 1 .. m BY <1>7
<1>10. priv[t].urbs /\ Laid(t) /\ InOrder(t) /\ p[1] \in 1 .. priv[t].n BY <1>9, PendKnown
<1>11. size[t][p[1]] \in Nat /\ Offset(t, p[1]) \in Nat BY <1>10, PartsLie
<1>12. a.code \in Codes /\ a.n \in Nat /\ a.n <= size[t][p[1]] /\ (type[t] = "iso" => a.n = 0)
  BY <1>11, AnswersFit
<1>13. \A k \in DOMAIN p : \A j \in DOMAIN p : j < k => p[j] < p[k] BY <1>10 DEF InOrder, PendInOrder
<1> DEFINE x == a.n
<1>14. buf'[t] = Filled(buf[t], Offset(t, p[1]), sent[t], x) /\ sent'[t] = sent[t] + x BY <1>2, <1>6
<1>15. x = 0 => buf'[t] = buf[t] BY <1>2, <1>11, <1>14, FilledNothing
<1>16. \A k \in 1 .. m : r[k].n = IF k = 1 THEN x ELSE 0
  <2> SUFFICES ASSUME NEW k \in 1 .. m, k # 1 PROVE r[k].n = 0 BY <1>6
  <2>1. k \in 2 .. m BY <1>7
  <2>2. QED BY <1>5, <2>1
<1>17. r[1].i = p[1] BY <1>5, <1>9
<1>18. r \in Seq(Urbs)
  <2>1. \A k \in 1 .. m : r[k].code \in Codes
    <3> SUFFICES ASSUME NEW k \in 1 .. m PROVE r[k].code \in Codes OBVIOUS
    <3>1. CASE k = 1 BY <1>6, <1>12, <3>1
    <3>2. CASE k # 1
      <4>1. k \in 2 .. m BY <1>7, <3>2
      <4>2. QED BY <1>5, <4>1 DEF Codes
    <3>3. QED BY <3>1, <3>2
  <2>2. \A k \in 1 .. m : r[k].n \in Nat BY <1>12, <1>16
  <2>3. \A k \in 1 .. m : p[k] \in Nat
    <3>1. \A k \in 1 .. m : k \in DOMAIN p BY <1>7
    <3>2. QED BY SMTT(30), <1>7, <3>1
  <2> HIDE DEF m, n, p, q, x
  <2>4. \A k \in 1 .. m : r[k] \in Urbs
    <3> SUFFICES ASSUME NEW k \in 1 .. m PROVE r[k] \in Urbs OBVIOUS
    <3> DEFINE c == r[k].code  l == r[k].n  i == p[k]  u == r[k]
    <3>1. u = [t |-> t, i |-> i, code |-> c, n |-> l] BY <1>5
    <3>2. c \in Codes /\ l \in Nat /\ i \in Nat BY <2>1, <2>2, <2>3
    <3> HIDE DEF c, l, i, u
    <3>3. u \in Urbs BY <3>1, <3>2 DEF Urbs
    <3>4. QED BY <3>3 DEF u
  <2>5. Range(r) \subseteq Urbs BY <1>7, <2>4 DEF Range
  <2>6. QED BY <1>5, <2>5, SeqMonotonic
<1> HIDE DEF m, n, p, q, x
<1>19. \A k \in 1 .. m : k \in DOMAIN p BY <1>7
<1>20. \A k \in DOMAIN q : m + k \in DOMAIN p /\ q[k] = p[m + k] BY SMTT(30), <1>5, <1>7
<1>21. \A j \in DOMAIN p : (\E k \in DOMAIN q : q[k] = p[j]) \/ \E k \in 1 .. m : r[k].i = p[j]
  <2> SUFFICES ASSUME NEW j \in DOMAIN p
               PROVE  (\E k \in DOMAIN q : q[k] = p[j]) \/ \E k \in 1 .. m : r[k].i = p[j]
    OBVIOUS
  <2>1. CASE j <= m
    <3>1. j \in 1 .. m BY <1>7, <2>1
    <3>2. QED BY <1>5, <3>1
  <2>2. CASE ~(j <= m)
    <3>1. j - m \in DOMAIN q /\ m + (j - m) = j BY <1>7, <2>2
    <3>2. QED BY <1>20, <3>1
  <2>3. QED BY <2>1, <2>2
<1>22. \A j \in DOMAIN q : p[1] < q[j]
  <2> SUFFICES ASSUME NEW j \in DOMAIN q PROVE p[1] < q[j] OBVIOUS
  <2>1. m + j \in DOMAIN p /\ q[j] = p[m + j] /\ 1 \in DOMAIN p /\ 1 < m + j BY <1>7, <1>20
  <2>2. QED BY <1>13, <2>1
<1>23. Returns(t, r, x)
  <2>1. \A k \in DOMAIN pend'[t] : \E j \in DOMAIN pend[t] : pend'[t][k] = pend[t][j] BY <1>20 DEF p, q
  <2>2. \A j \in DOMAIN pend[t] : \/ \E k \in DOMAIN pend'[t] : pend'[t][k] = pend[t][j]
                                  \/ \E k \in UrbsOf(r, t) : r[k].i = pend[t][j]
    BY <1>8, <1>21 DEF p, q
  <2>3. \A k \in UrbsOf(r, t) : (\E j \in DOMAIN pend[t] : r[k].i = pend[t][j]) /\ r[k].n = IF k = 1 THEN x ELSE 0
    BY <1>5, <1>8, <1>16, <1>19 DEF p
  <2>4. \A j \in DOMAIN pend'[t] : r[1].i < pend'[t][j] BY <1>17, <1>22 DEF q
  <2>5. x \in Nat /\ (x > 0 => x <= size[t][r[1].i] /\ type[t] # "iso") BY <1>12, <1>17 DEF x
  <2>6. buf'[t] = Filled(buf[t], Offset(t, r[1].i), sent[t], x) /\ 1 \in UrbsOf(r, t) BY <1>8, <1>9, <1>14, <1>17
  <2>7. QED BY <1>5, <1>14, <1>15, <2>1, <2>2, <2>3, <2>4, <2>5, <2>6 DEF Returns
<1>24. (\E b : buf' = [buf EXCEPT ![t] = b]) /\ \E l : sent' = [sent EXCEPT ![t] = l] BY <1>6
<1>25. \A k \in 1 .. Len(r) : r[k].t = t BY <1>5 DEF m
<1>26. OnlyReturns(t, r, x) BY <1>4, <1>18, <1>23, <1>24, <1>25 DEF OnlyReturns
<1>27. QED BY <1>26

\* Each URB that is lost is among those that come back.
LEMMA BackCovers ==
  ASSUME UsbfsAssumption, Fields, NEW back \in [1 .. Cardinality(Lost) -> Lost], IsInjective(back)
  PROVE  /\ back \in Seq(Lost) /\ back \in Seq(Range(back))
         /\ \A u \in Lost : \E k \in UrbsOf(back, u.t) : back[k] = u
<1>1. IsFiniteSet(Lost) /\ Cardinality(Lost) \in Nat BY LostIsFinite, FS_CardinalityType
<1>2. back \in Seq(Lost) /\ back \in Seq(Range(back))
  <2>1. back \in [1 .. Cardinality(Lost) -> Range(back)] BY DEF Range
  <2>2. QED BY <1>1, <2>1, SeqDef
<1>3. \A u \in Lost : \E k \in 1 .. Cardinality(Lost) : back[k] = u
  <2>1. IsFiniteSet(1 .. Cardinality(Lost)) /\ Cardinality(1 .. Cardinality(Lost)) = Cardinality(Lost)
    BY <1>1, FS_Interval
  <2>2. back \in Injection(1 .. Cardinality(Lost), Lost) BY DEF Injection
  <2>3. back \in Surjection(1 .. Cardinality(Lost), Lost) BY <1>1, <2>1, <2>2, FS_Injection
  <2>4. QED BY <2>3 DEF Surjection
<1>4. QED BY <1>2, <1>3 DEF UrbsOf

\* URBs of a lost device come back without data.
LEMMA BackReturns ==
  ASSUME UsbfsAssumption, Fields, NEW t \in Transfers, PendInOrder(t), sent[t] \in Nat,
         NEW back \in [1 .. Cardinality(Lost) -> Lost], IsInjective(back), done' = done \o back,
         pend'[t] = <<>>, buf'[t] = buf[t], sent'[t] = sent[t]
  PROVE  Returns(t, back, 0)
<1>1. /\ back \in Seq(Range(back)) /\ back \in Seq(Lost) /\ \A u \in Lost : \E k \in UrbsOf(back, u.t) : back[k] = u
  BY BackCovers
<1>2. \A k \in UrbsOf(back, t) : back[k].i \in Range(pend[t]) BY AllComeBack
<1>3. \A k \in UrbsOf(back, t) : (\E j \in DOMAIN pend[t] : back[k].i = pend[t][j]) /\ back[k].n = 0
  <2> SUFFICES ASSUME NEW k \in UrbsOf(back, t)
               PROVE  (\E j \in DOMAIN pend[t] : back[k].i = pend[t][j]) /\ back[k].n = 0
    OBVIOUS
  <2>1. back[k] \in Lost BY DEF UrbsOf
  <2>2. back[k].n = 0 BY <2>1 DEF Lost
  <2>3. QED BY <1>2, <2>2 DEF Range
<1>4. ASSUME NEW j \in DOMAIN pend[t] PROVE \E k \in UrbsOf(back, t) : back[k].i = pend[t][j]
  <2> DEFINE u == [t |-> t, i |-> pend[t][j], code |-> "shutdown", n |-> 0]
  <2>1. u \in Lost /\ u.t = t /\ u.i = pend[t][j] BY DEF Lost
  <2> HIDE DEF u
  <2>2. PICK k \in UrbsOf(back, u.t) : back[k] = u BY <1>1, <2>1
  <2>3. QED BY <2>1, <2>2
<1>5. DOMAIN pend'[t] = {} /\ sent'[t] = sent[t] + 0 /\ 0 \in Nat BY EmptySeq
<1>6. QED BY <1>1, <1>3, <1>4, <1>5 DEF Returns

\* The device is unplugged.
LEMMA DisconnectReturns ==
  ASSUME UsbfsAssumption, TypeInv, FlyingInv, EarnedInv, AddUpInv, Disconnect, UNCHANGED fixed
  PROVE  \E back : back \in Seq(Lost) /\ done' = done \o back /\ \A t \in Transfers : Returns(t, back, 0)
<1>1. PICK back \in [1 .. Cardinality(Lost) -> Lost] : IsInjective(back) /\ done' = done \o back
  BY DEF Disconnect
<1>2. back \in Seq(Lost) BY <1>1, BackCovers DEF EarnedInv
<1>3. ASSUME NEW t \in Transfers PROVE Returns(t, back, 0)
  <2>1. pend' = [u \in Transfers |-> <<>>] /\ UNCHANGED <<buf, sent>> BY DEF Disconnect
  <2>2. pend'[t] = <<>> /\ buf'[t] = buf[t] /\ sent'[t] = sent[t] BY <2>1
  <2>3. sent[t] \in Nat BY DEF TypeInv, TypeOK
  <2>4. PendInOrder(t)
    <3>1. CASE DOMAIN pend[t] = {} BY <3>1 DEF PendInOrder
    <3>2. CASE DOMAIN pend[t] # {} BY <3>2, PendKnown DEF InOrder
    <3>3. QED BY <3>1, <3>2
  <2>5. QED BY <1>1, <2>2, <2>3, <2>4, BackReturns DEF EarnedInv
<1>4. QED BY <1>1, <1>2, <1>3

\* The end of the device leaves all fields what they should be.
LEMMA DisconnectTyped ==
  ASSUME UsbfsAssumption, TypeInv, FlyingInv, EarnedInv, AddUpInv, Disconnect, UNCHANGED fixed
  PROVE  TypeInv'
<1>1. PICK back : back \in Seq(Lost) /\ done' = done \o back /\ \A t \in Transfers : Returns(t, back, 0)
  BY DisconnectReturns
<1>2. /\ UNCHANGED <<type, continuation, priv, flags, size, buf, app, user, handler, timing, cut, sent, calls>>
      /\ connected' = FALSE /\ pend' = [t \in Transfers |-> <<>>]
      /\ fault' = [t \in Transfers |-> IF pend[t] = <<>> THEN fault[t] ELSE fault[t] \cup {"shutdown"}]
  BY DEF Disconnect, fixed
<1>3. done' \in Seq(Urbs)
  <2>1. Lost \subseteq Urbs
    <3> SUFFICES ASSUME NEW t \in Transfers, NEW k \in DOMAIN pend[t]
                 PROVE  [t |-> t, i |-> pend[t][k], code |-> "shutdown", n |-> 0] \in Urbs
      BY DEF Lost
    <3>1. pend[t][k] \in Nat BY PendKnown, ElementOfSeq
    <3>2. QED BY <3>1 DEF Urbs, Codes
  <2>2. back \in Seq(Urbs) BY <1>1, <2>1, SeqMonotonic
  <2>3. QED BY <1>1, <2>2, ConcatProperties DEF TypeInv, TypeOK
<1>4. pend' \in [Transfers -> Seq(Nat)] /\ \A t \in Transfers : pend'[t] = <<>>
  <2>1. <<>> \in Seq(Nat) BY EmptySeq
  <2>2. QED BY <1>2, <2>1
<1>5. fault' \in [Transfers -> SUBSET Faults]
  <2>1. \A t \in Transfers : fault[t] \in SUBSET Faults BY DEF TypeInv, TypeOK
  <2>2. QED BY <1>2, <2>1 DEF Faults
<1>6. TypeOK' BY <1>2, <1>3, <1>4, <1>5 DEF TypeInv, TypeOK
<1>7. ASSUME NEW t \in Transfers PROVE LayInv(t)'
  <2>1. LayInv(t) BY DEF TypeInv
  <2>2. user'[t].op = "submit" => Submitting(t)' BY <1>2, <2>1 DEF LayInv, Submitting
  <2>3. ASSUME priv[t].urbs, Reaping' PROVE Landed(t)'
    <3>1. Laid(t) /\ Landed(t) BY <1>2, <2>1, <2>3 DEF LayInv, Reaping
    <3>2. \A j \in DOMAIN pend[t] : pend[t][j] \in 1 .. priv[t].n BY PendKnown
    <3>3. QED BY <1>1, <1>2, <3>1, <3>2, LandedReturns DEF EarnedInv
  <2>4. QED BY <1>2, <2>1, <2>2, <2>3 DEF LayInv, Laid
<1>8. QED BY <1>4, <1>6, <1>7 DEF TypeInv

\* A step without answers returns an empty sequence.
LEMMA NothingReturns ==
  ASSUME TypeInv, NEW t \in Transfers, UNCHANGED <<done, pend[t], buf[t], sent[t]>>
  PROVE  Returns(t, <<>>, 0)
<1> DEFINE r == <<>>
<1>1. done \in Seq(Urbs) /\ sent[t] \in Nat BY DEF TypeInv, TypeOK
<1>2. r \in Seq(Range(r)) /\ UrbsOf(r, t) = {} /\ done \o r = done
  <2>1. r \in Seq(Range(r)) /\ DOMAIN r = {} BY EmptySeq
  <2>2. done \o r = done BY <1>1, ConcatEmptySeq
  <2>3. QED BY <2>1, <2>2 DEF UrbsOf
<1> HIDE DEF r
<1>3. sent'[t] = sent[t] + 0 /\ done' = done \o r BY <1>1, <1>2
<1>4. Returns(t, r, 0) BY <1>2, <1>3 DEF Returns
<1>5. QED BY <1>4 DEF r

\* The transfer that is being reported is left alone.
LEMMA InPlaceStays ==
  ASSUME DataInPlace, handler' = handler, UNCHANGED <<type, continuation>>,
         handler.op = "report" => UNCHANGED <<size[handler.t], buf[handler.t], sent[handler.t]>>,
         handler.op = "report" => priv'[handler.t].moved = priv[handler.t].moved,
         handler.op = "report" => priv'[handler.t].off = priv[handler.t].off,
         handler.op = "report" => fault[handler.t] \subseteq fault'[handler.t]
  PROVE  DataInPlace'
<1> SUFFICES ASSUME handler.op = "report" PROVE DataInPlace' BY DEF DataInPlace
<1>1. PICK t : t = handler.t OBVIOUS
<1>2. /\ handler'.t = t /\ handler'.op = "report" /\ handler'.st = handler.st
      /\ UNCHANGED <<size[t], buf[t], sent[t]>> /\ priv'[t].moved = priv[t].moved /\ priv'[t].off = priv[t].off
      /\ fault[t] \subseteq fault'[t]
  BY <1>1
<1>3. CASE type[t] = "iso"
  <2>1. FoldLeft(+, 0, size[handler.t])' = Sum(size[handler.t])' BY DEF Sum
  <2>2. Sum(size[handler.t])' = Sum(size[t]) BY <1>2
  <2>3. Sum(size[t]) = FoldLeft(+, 0, size[t]) BY DEF Sum
  <2>4. FoldLeft(+, 0, size[handler.t])' = FoldLeft(+, 0, size[t]) BY <2>1, <2>2, <2>3
  <2>5. handler.st = "completed" => priv[t].off = FoldLeft(+, 0, size[t]) /\ \A k \in 1 .. priv[t].off : buf[t][k] = k
    BY <1>1, <1>3 DEF DataInPlace
  <2>6. QED BY <1>2, <1>3, <2>4, <2>5 DEF DataInPlace
<1>4. CASE type[t] # "iso"
  <2>1. Steady(t) => priv[t].moved = sent[t] /\ \A k \in 1 .. priv[t].moved : buf[t][k] = k
    BY <1>1, <1>4 DEF DataInPlace
  <2>2. Known(t) BY <1>1 DEF Known
  <2>3. ASSUME continuation \/ type[t] \notin {"bulk", "interrupt"} \/ fault'[t] = {} PROVE Steady(t)
    BY <1>2, <2>2, <2>3 DEF Steady
  <2>4. QED BY <1>2, <1>4, <2>1, <2>3 DEF DataInPlace, Steady, Known
<1>5. QED BY <1>3, <1>4

\* What each step has to show that reaps nothing.
LEMMA StepSound ==
  ASSUME UsbfsAssumption, TypeInv, FlyingInv, EarnedInv, AddUpInv, DataInv, Reaping,
         \A u \in Transfers : \/ Keeps(u) /\ \E r, x : Returns(u, r, x)
                              \/ priv'[u].urbs /\ Steady(u)' => Sound(u)',
         DataInPlace'
  PROVE  DataInv'
<1>1. ASSUME NEW u \in Transfers PROVE priv'[u].urbs /\ Steady(u)' => Sound(u)'
  <2>1. CASE Keeps(u) /\ \E r, x : Returns(u, r, x)
    <3>1. PICK r, x : Returns(u, r, x) BY <2>1
    <3>2. priv[u].urbs /\ Steady(u) => Sound(u) BY DEF DataInv
    <3>3. QED BY <2>1, <3>1, <3>2, KeepsSound
  <2>2. QED BY <2>1
<1>2. QED BY <1>1 DEF DataInv

\* Nothing that a step does not touch of a transfer.
LEMMA UntouchedKeeps ==
  ASSUME NEW u, UNCHANGED <<type, continuation, priv[u], user[u], size[u]>>, fault[u] \subseteq fault'[u]
  PROVE  Keeps(u)
BY DEF Keeps, Highest

\* A transfer to be reported is flying and has no URBs.
LEMMA ReportingKnown ==
  ASSUME FlyingInv, EarnedInv, handler.op = "report"
  PROVE  /\ handler.t \in Transfers /\ app[handler.t] = "flying" /\ ~priv[handler.t].urbs
         /\ user[handler.t].op \notin {"submit", "discard"} /\ Reaping
BY DEF FlyingInv, EarnedInv, InFlight, Reaping

\* A cancellation keeps everything but the action.
LEMMA CancelSound ==
  ASSUME UsbfsAssumption, TypeInv, FlyingInv, EarnedInv, AddUpInv, DataInv, Reaping,
         NEW t \in Transfers, StartCancel(t), LockFree(t), UNCHANGED <<fixed, size, buf, handler, kernel>>
  PROVE  DataInv'
<1>1. /\ UNCHANGED <<type, continuation, size, buf, handler, pend, done, sent, fault>> BY DEF fixed, kernel
<1>2. priv[t] \in Privs /\ DOMAIN priv = Transfers /\ DOMAIN user = Transfers
  BY DEF TypeInv, TypeOK, Privs, FlyingInv, Shapes
<1>3. /\ priv'[t].moved = priv[t].moved /\ priv'[t].off = priv[t].off /\ priv'[t].urbs = priv[t].urbs
      /\ priv'[t].action # "normal"
  BY <1>2 DEF StartCancel, Privs
<1>4. \A u \in Transfers \ {t} : priv'[u] = priv[u] /\ user'[u] = user[u] BY <1>2 DEF StartCancel
<1>5. user'[t].op # "submit" BY <1>2 DEF StartCancel, Idle
<1>6. ASSUME NEW u \in Transfers PROVE Keeps(u) /\ \E r, x : Returns(u, r, x)
  <2>1. Returns(u, <<>>, 0) BY <1>1, NothingReturns
  <2>2. CASE u = t BY <1>1, <1>3, <1>5, <2>1, <2>2 DEF Keeps
  <2>3. CASE u # t BY <1>1, <1>4, <2>1, <2>3, UntouchedKeeps
  <2>4. QED BY <2>2, <2>3
<1>7. DataInPlace'
  <2>1. handler.op = "report" => handler.t \in Transfers BY ReportingKnown
  <2>2. \A u \in Transfers : priv'[u].moved = priv[u].moved /\ priv'[u].off = priv[u].off BY <1>3, <1>4
  <2>3. DataInPlace BY DEF DataInv
  <2>4. QED BY <1>1, <2>1, <2>2, <2>3, InPlaceStays
<1>8. QED BY <1>6, <1>7, StepSound

\* A timeout marks a transfer.
LEMMA ExpireSound ==
  ASSUME UsbfsAssumption, TypeInv, FlyingInv, EarnedInv, AddUpInv, DataInv, Reaping,
         NEW t \in Transfers, Expire(t), UNCHANGED fixed
  PROVE  DataInv'
<1>1. /\ UNCHANGED <<type, continuation, priv, user, size, buf, handler, pend, done, sent, fault>>
  BY DEF Expire, fixed, kernel
<1>2. ASSUME NEW u \in Transfers PROVE Keeps(u) /\ \E r, x : Returns(u, r, x)
  <2>1. Returns(u, <<>>, 0) BY <1>1, NothingReturns
  <2>2. QED BY <1>1, <2>1, UntouchedKeeps
<1>3. DataInPlace' BY <1>1, InPlaceStays DEF DataInv
<1>4. QED BY <1>2, <1>3, StepSound

\* A submission fails.
LEMMA FailureSound ==
  ASSUME UsbfsAssumption, TypeInv, FlyingInv, EarnedInv, AddUpInv, DataInv, Reaping,
         NEW t \in Transfers, FirstUrbFails(t) \/ LaterUrbFails(t), UNCHANGED fixed
  PROVE  DataInv'
<1>1. UNCHANGED <<type, continuation, size, buf, handler, pend, done, sent>>
  BY DEF FirstUrbFails, LaterUrbFails, fixed, kernel
<1>2. priv[t] \in Privs /\ DOMAIN priv = Transfers /\ DOMAIN user = Transfers /\ DOMAIN fault = Transfers
  BY DEF TypeInv, TypeOK, Privs, FlyingInv, Shapes
<1>3. /\ priv'[t].moved = priv[t].moved /\ priv'[t].off = priv[t].off
      /\ ~priv'[t].urbs \/ (priv'[t].urbs = priv[t].urbs /\ priv'[t].action # "normal")
  <2>1. CASE FirstUrbFails(t) BY <1>2, <2>1 DEF FirstUrbFails, Privs
  <2>2. CASE LaterUrbFails(t)
    <3> DEFINE a == IF Refused(t, user[t].i) /\ connected THEN "early" ELSE "submit_failed"
               m == Unsubmitted(t)
    <3>1. priv' = [priv EXCEPT ![t].action = a, ![t].retired = @ + m] BY <2>2 DEF LaterUrbFails
    <3>2. a # "normal" OBVIOUS
    <3> HIDE DEF a, m
    <3>3. QED BY <1>2, <3>1, <3>2 DEF Privs
  <2>3. QED BY <2>1, <2>2
<1>4. /\ \A u \in Transfers \ {t} : priv'[u] = priv[u] /\ user'[u] = user[u]
      /\ \A u \in Transfers : fault[u] \subseteq fault'[u]
  BY <1>2 DEF FirstUrbFails, LaterUrbFails, kernel
<1>5. user'[t].op # "submit" BY <1>2 DEF FirstUrbFails, LaterUrbFails, Idle
<1>6. ASSUME NEW u \in Transfers PROVE (Keeps(u) /\ \E r, x : Returns(u, r, x)) \/ ~priv'[u].urbs
  <2>1. Returns(u, <<>>, 0) BY <1>1, NothingReturns
  <2>2. CASE u = t BY <1>1, <1>3, <1>4, <1>5, <2>1, <2>2 DEF Keeps
  <2>3. CASE u # t BY <1>1, <1>4, <2>1, <2>3, UntouchedKeeps
  <2>4. QED BY <2>2, <2>3
<1>7. DataInPlace'
  <2>1. handler.op = "report" => handler.t \in Transfers BY ReportingKnown
  <2>2. \A u \in Transfers : priv'[u].moved = priv[u].moved /\ priv'[u].off = priv[u].off BY <1>3, <1>4
  <2>3. DataInPlace BY DEF DataInv
  <2>4. QED BY <1>1, <1>4, <2>1, <2>2, <2>3, InPlaceStays
<1>8. QED BY <1>6, <1>7, StepSound

\* As long as no URB can be reaped nothing is claimed.
LEMMA NothingReaped ==
  ASSUME TypeInv, handler' = handler, ~Reaping PROVE DataInv'
BY DEF Reaping, DataInv, DataInPlace

\* Others see nothing of the URBs that come back to a transfer.
LEMMA OthersReturn ==
  ASSUME TypeInv, NEW t \in Transfers, NEW r, NEW x, OnlyReturns(t, r, x), NEW u \in Transfers \ {t}
  PROVE  Returns(u, r, 0) /\ UNCHANGED <<pend[u], buf[u], sent[u]>>
<1>1. Returns(t, r, x) /\ r \in Seq(Urbs) /\ \A k \in 1 .. Len(r) : r[k].t = t BY DEF OnlyReturns
<1>2. done' = done \o r /\ r \in Seq(Range(r)) BY <1>1 DEF Returns
<1>3. /\ pend \in [Transfers -> Seq(Nat)] /\ buf \in [Transfers -> [Positions -> Nat]] /\ sent \in [Transfers -> Nat]
  BY DEF TypeInv, TypeOK
<1>4. pend'[u] = pend[u] /\ buf'[u] = buf[u] /\ sent'[u] = sent[u]
  <2>1. pend'[u] = pend[u] BY <1>3 DEF OnlyReturns
  <2>2. buf'[u] = buf[u] BY <1>3 DEF OnlyReturns
  <2>3. sent'[u] = sent[u] BY <1>3 DEF OnlyReturns
  <2>4. QED BY <2>1, <2>2, <2>3
<1>5. UrbsOf(r, u) = {}
  <2>1. DOMAIN r = 1 .. Len(r) BY <1>1, LenProperties
  <2>2. QED BY <1>1, <2>1 DEF UrbsOf
<1>6. sent'[u] = sent[u] + 0 BY <1>3, <1>4
<1>7. QED BY <1>2, <1>4, <1>5, <1>6 DEF Returns

\* URBs come back to t.
LEMMA ReturnSound ==
  ASSUME UsbfsAssumption, TypeInv, FlyingInv, EarnedInv, AddUpInv, DataInv, Reaping,
         NEW t \in Transfers, NEW r, NEW x, OnlyReturns(t, r, x), Keeps(t), UNCHANGED <<fixed, priv, size>>,
         \A u \in Transfers : fault[u] \subseteq fault'[u],
         \A u \in Transfers \ {t} : user'[u] = user[u],
         handler'.op = "report" => handler' = handler /\ (handler.t = t => UNCHANGED <<buf[t], sent[t]>>)
  PROVE  DataInv'
<1>1. UNCHANGED <<type, continuation>> BY DEF fixed
<1>2. ASSUME NEW u \in Transfers PROVE Keeps(u) /\ \E z, y : Returns(u, z, y)
  <2>1. CASE u = t
    <3>1. Returns(t, r, x) BY DEF OnlyReturns
    <3>2. QED BY <2>1, <3>1
  <2>2. CASE u # t
    <3>1. Returns(u, r, 0) BY <2>2, OthersReturn
    <3>2. QED BY <1>1, <2>2, <3>1, UntouchedKeeps
  <2>3. QED BY <2>1, <2>2
<1>3. DataInPlace'
  <2>1. CASE handler'.op # "report" BY <2>1 DEF DataInPlace
  <2>2. CASE handler'.op = "report"
    <3>1. handler' = handler /\ handler.op = "report" BY <2>2
    <3>2. handler.t \in Transfers BY <3>1, ReportingKnown
    <3>3. UNCHANGED <<buf[handler.t], sent[handler.t]>>
      <4>1. CASE handler.t = t BY <2>2, <4>1
      <4>2. CASE handler.t # t
        <5>1. PICK u \in Transfers \ {t} : u = handler.t BY <3>2, <4>2
        <5>2. buf'[u] = buf[u] /\ sent'[u] = sent[u] BY OthersReturn
        <5>3. QED BY <3>1, <5>1, <5>2
      <4>3. QED BY <4>1, <4>2
    <3>4. QED BY <1>1, <3>1, <3>2, <3>3, InPlaceStays DEF DataInv
  <2>3. QED BY <2>1, <2>2
<1>4. QED BY <1>2, <1>3, StepSound

\* The device answers.
LEMMA AnswerKept ==
  ASSUME UsbfsAssumption, TypeInv, FlyingInv, EarnedInv, AddUpInv, DataInv, NEW t \in Transfers,
         UrbCompletes(t), UNCHANGED fixed
  PROVE  TypeInv' /\ DataInv'
<1>1. PICK r, x : OnlyReturns(t, r, x) BY AnswerReturns
<1>2. UNCHANGED <<type, continuation, priv, flags, size, app, user, handler, timing, connected, calls>>
  BY DEF UrbCompletes, fixed
<1>3. fault' \in [Transfers -> SUBSET Faults] /\ \A u \in Transfers : fault[u] \subseteq fault'[u]
  <2>1. fault \in [Transfers -> SUBSET Faults] BY DEF TypeInv, TypeOK
  <2>2. \E c : fault' = [fault EXCEPT ![t] = @ \cup ({c} \cap Faults)] BY DEF UrbCompletes
  <2>3. QED BY <2>1, <2>2
<1>4. cut' \subseteq Transfers BY DEF UrbCompletes, TypeInv, TypeOK
<1>5. TypeInv'
  <2>1. \A u \in Transfers : user'[u] = Idle \/ user'[u].op \in {"submit", "discard"} BY <1>2 DEF TypeInv, TypeOK
  <2>2. handler'.op \in {"poll", "discard", "report", "sweep", "clear", "swept", "gone"} BY <1>2 DEF TypeInv, TypeOK
  <2>3. Reaping' => Reaping BY <1>2 DEF Reaping
  <2>4. QED BY <1>1, <1>2, <1>3, <1>4, <2>1, <2>2, <2>3, ReturnTyped
<1>6. Reaping /\ (handler.op = "report" => handler.t # t)
  <2>1. pend[t] # <<>> BY DEF UrbCompletes
  <2>2. DOMAIN pend[t] # {}
    <3>1. pend[t] \in Seq(Nat) BY DEF TypeInv, TypeOK
    <3>2. Len(pend[t]) \in Nat /\ Len(pend[t]) # 0 /\ DOMAIN pend[t] = 1 .. Len(pend[t])
      BY <2>1, <3>1, LenProperties, EmptySeq
    <3>3. 1 \in DOMAIN pend[t] BY <3>2
    <3>4. QED BY <3>3
  <2>3. Reaping /\ priv[t].urbs BY <2>2, PendKnown
  <2>4. QED BY <2>3, ReportingKnown
<1>7. Keeps(t) BY <1>2, <1>3, UntouchedKeeps
<1>8. DataInv' BY <1>1, <1>2, <1>3, <1>6, <1>7, ReturnSound
<1>9. QED BY <1>5, <1>8

\* The application discards a URB.
LEMMA UserDiscardKept ==
  ASSUME UsbfsAssumption, TypeInv, FlyingInv, EarnedInv, AddUpInv, DataInv, NEW t \in Transfers,
         UserDiscards(t), UNCHANGED fixed
  PROVE  TypeInv' /\ DataInv'
<1>1. /\ UNCHANGED <<type, continuation, priv, flags, size, app, handler, timing, cut, connected, fault, calls>>
      /\ Discard(t, user[t].i) /\ user[t].op = "discard"
      /\ user' = [user EXCEPT ![t] = IF user[t].i = 1 THEN Idle ELSE [@ EXCEPT !.i = @ - 1]]
  BY DEF UserDiscards, fixed
<1>2. PICK r, x : OnlyReturns(t, r, x) BY <1>1, DiscardReturns
<1>3. DOMAIN user = Transfers /\ "op" \in DOMAIN user[t] BY DEF FlyingInv, Shapes
<1>4. (user'[t] = Idle \/ user'[t].op = "discard") /\ \A u \in Transfers \ {t} : user'[u] = user[u]
  <2>1. user'[t] = Idle \/ user'[t].op = user[t].op BY <1>1, <1>3
  <2>2. \A u \in Transfers \ {t} : user'[u] = user[u] BY <1>1, <1>3
  <2>3. QED BY <1>1, <2>1, <2>2
<1>5. TypeInv'
  <2>1. \A u \in Transfers : /\ user'[u] = Idle \/ user'[u].op \in {"submit", "discard"}
                             /\ user'[u].op = "submit" => user'[u] = user[u]
    <3> SUFFICES ASSUME NEW u \in Transfers
                 PROVE  /\ user'[u] = Idle \/ user'[u].op \in {"submit", "discard"}
                        /\ user'[u].op = "submit" => user'[u] = user[u]
      OBVIOUS
    <3>1. user[u] = Idle \/ user[u].op \in {"submit", "discard"} BY DEF TypeInv, TypeOK
    <3>2. Idle.op # "submit" BY DEF Idle
    <3>3. CASE u = t
      <4>1. user'[t].op # "submit" BY <1>4, <3>2
      <4>2. QED BY <1>4, <3>3, <4>1
    <3>4. CASE u # t BY <1>4, <3>1, <3>4
    <3>5. QED BY <3>3, <3>4
  <2>2. cut' \subseteq Transfers /\ fault' \in [Transfers -> SUBSET Faults]
        /\ handler'.op \in {"poll", "discard", "report", "sweep", "clear", "swept", "gone"} /\ (Reaping' => Reaping)
    BY <1>1 DEF TypeInv, TypeOK, Reaping
  <2>3. QED BY <1>1, <1>2, <2>1, <2>2, ReturnTyped
<1>6. CASE Reaping
  <2>1. priv[t].action # "normal" BY <1>1, <1>6 DEF AddUpInv, Whole, InOrder, CallsInOrder
  <2>2. Keeps(t) BY <1>1, <1>4, <2>1 DEF Keeps, Idle
  <2>3. handler.op = "report" => handler.t # t BY <1>1, ReportingKnown
  <2>4. DataInv' BY <1>1, <1>2, <1>4, <1>6, <2>2, <2>3, ReturnSound
  <2>5. QED BY <1>5, <2>4
<1>7. CASE ~Reaping
  <2>1. DataInv' BY <1>1, <1>7, NothingReaped
  <2>2. QED BY <1>5, <2>1
<1>8. QED BY <1>6, <1>7

\* So does the handler.
LEMMA HandlerDiscardKept ==
  ASSUME UsbfsAssumption, TypeInv, FlyingInv, EarnedInv, AddUpInv, DataInv, HandlerDiscards, UNCHANGED fixed
  PROVE  TypeInv' /\ DataInv'
<1>1. PICK t \in Transfers : t = handler.t /\ handler.op = "discard" BY DEF HandlerDiscards, FlyingInv
<1>2. /\ UNCHANGED <<type, continuation, priv, flags, size, app, user, timing, cut, connected, fault, calls>>
      /\ Discard(t, handler.i)
      /\ handler' = IF handler.i = handler.low THEN Poll ELSE [handler EXCEPT !.i = @ - 1]
  BY <1>1 DEF HandlerDiscards, fixed
<1>3. PICK r, x : OnlyReturns(t, r, x) BY <1>2, DiscardReturns
<1>4. handler'.op \in {"poll", "discard"}
  <2>1. CASE handler.i = handler.low BY <1>2, <2>1 DEF Poll
  <2>2. CASE handler.i # handler.low
    <3> DEFINE v == [handler EXCEPT !.i = handler.i - 1]
    <3>1. handler' = v BY <1>2, <2>2
    <3>2. v.op = "discard" BY <1>1 DEF FlyingInv, Shapes
    <3> HIDE DEF v
    <3>3. QED BY <3>1, <3>2
  <2>3. QED BY <2>1, <2>2
<1>5. Reaping BY <1>1 DEF Reaping
<1>6. TypeInv'
  <2>1. \A u \in Transfers : /\ user'[u] = Idle \/ user'[u].op \in {"submit", "discard"}
                             /\ user'[u].op = "submit" => user'[u] = user[u]
    BY <1>2 DEF TypeInv, TypeOK
  <2>2. cut' \subseteq Transfers /\ fault' \in [Transfers -> SUBSET Faults] BY <1>2 DEF TypeInv, TypeOK
  <2>3. QED BY <1>2, <1>3, <1>4, <1>5, <2>1, <2>2, ReturnTyped
<1>7. Keeps(t) BY <1>2, UntouchedKeeps
<1>8. handler'.op # "report" BY <1>4
<1>9. DataInv' BY <1>2, <1>3, <1>5, <1>7, <1>8, ReturnSound
<1>10. QED BY <1>6, <1>9

\* The device is unplugged.
LEMMA DisconnectKept ==
  ASSUME UsbfsAssumption, TypeInv, FlyingInv, EarnedInv, AddUpInv, DataInv, Disconnect, UNCHANGED fixed
  PROVE  TypeInv' /\ DataInv'
<1>1. TypeInv' BY DisconnectTyped
<1>2. /\ UNCHANGED <<type, continuation, priv, size, buf, user, handler, sent>>
      /\ \A t \in Transfers : fault[t] \subseteq fault'[t] /\ handler.op \in {"poll", "discard", "report"}
  BY DEF Disconnect, fixed, FlyingInv, TypeInv, TypeOK
<1>3. Reaping BY DEF Disconnect, FlyingInv, TypeInv, TypeOK, Reaping
<1>4. PICK back : \A t \in Transfers : Returns(t, back, 0) BY DisconnectReturns
<1>5. \A u \in Transfers : Keeps(u) BY <1>2, UntouchedKeeps
<1>6. DataInPlace'
  <2>1. handler.op = "report" => handler.t \in Transfers BY ReportingKnown
  <2>2. QED BY <1>2, <2>1, InPlaceStays DEF DataInv
<1>7. DataInv' BY <1>3, <1>4, <1>5, <1>6, StepSound
<1>8. QED BY <1>1, <1>7

\* A transfer that has just been set up.
LEMMA SubmitSound ==
  ASSUME UsbfsAssumption, SettingInv, TypeInv, FlyingInv, EarnedInv, AddUpInv, DataInv, Reaping,
         NEW t \in Transfers, Submit(t), UNCHANGED fixed
  PROVE  DataInv'
<1>1. /\ UNCHANGED <<type, continuation, handler, pend, done>> /\ InKernel(t) = 0 /\ app[t] = "idle"
      /\ user' = [user EXCEPT ![t] = [op |-> "submit", i |-> 1]]
      /\ buf' = [buf EXCEPT ![t] = Wiped] /\ sent' = [sent EXCEPT ![t] = 0] /\ fault' = [fault EXCEPT ![t] = {}]
  BY DEF Submit, fixed, Reaping
<1>2. PICK what : /\ size' = [size EXCEPT ![t] = Sizes(t, what)]
                  /\ priv' = [priv EXCEPT ![t] = [Blank EXCEPT !.urbs = TRUE, !.n = Len(Sizes(t, what)),
                                !.status = IF type[t] \in {"bulk", "interrupt"} THEN "completed" ELSE @]]
  BY DEF Submit
<1>3. /\ DOMAIN priv = Transfers /\ DOMAIN user = Transfers /\ DOMAIN size = Transfers /\ DOMAIN buf = Transfers
      /\ DOMAIN sent = Transfers /\ DOMAIN fault = Transfers
  BY DEF TypeInv, TypeOK, FlyingInv, Shapes
<1>4. priv'[t].urbs /\ priv'[t].retired = 0 /\ priv'[t].moved = 0 /\ priv'[t].off = 0
  BY <1>2, <1>3 DEF Blank
<1>5. sent'[t] = 0 /\ user'[t] = [op |-> "submit", i |-> 1] BY <1>1, <1>3
<1>6. \A u \in Transfers \ {t} : UNCHANGED <<priv[u], user[u], size[u], buf[u], sent[u], fault[u]>>
  BY <1>1, <1>2, <1>3
<1>7. Laid(t)' BY <1>4, SubmitTyped DEF TypeInv, LayInv
<1>8. Lies(type'[t], size'[t], priv'[t].n) BY <1>7 DEF Laid
<1>9. priv'[t].n \in Nat \ {0} /\ Begins(type'[t], size'[t], 1) = 0 BY <1>8 DEF Lies
<1>10. Offset(t, priv[t].retired + 1)' = 0
  <2>1. priv'[t].retired + 1 = 1 BY <1>4
  <2>2. QED BY <1>9, <2>1 DEF Offset, Begins
<1>11. UrbsOf(done', t) = {} /\ DOMAIN pend'[t] = {} /\ Holds(t)' = {}
  <2>1. UrbsOf(done, t) = {} /\ pend[t] = <<>> BY <1>1, KernelCounts DEF EarnedInv
  <2>2. UrbsOf(done', t) = {} /\ pend'[t] = <<>> BY <1>1, <2>1
  <2>3. QED BY <2>2, EmptySeq DEF Holds
<1>12. 0 < priv'[t].n /\ 0 \in Nat /\ BufferLength \in Nat BY <1>9 DEF UsbfsAssumption
<1>13. Sound(t)'
  <2>1. Gapless(t)'
    <3>1. Highest(t)' = 0 BY <1>5 DEF Highest
    <3>2. priv'[t].retired + 1 .. Highest(t)' = {} BY <1>4, <3>1
    <3>3. QED BY <1>11, <3>2 DEF Gapless
  <2>2. Results(t)'
    <3>1. priv'[t].off = Offset(t, priv[t].retired + 1)' /\ priv'[t].retired < priv'[t].n BY <1>4, <1>10, <1>12
    <3>2. 1 .. priv'[t].off = {} BY <1>4
    <3>3. QED BY <3>1, <3>2 DEF Results
  <2>3. Carried(t)'
    <3>1. priv'[t].moved <= sent'[t] /\ priv'[t].moved <= BufferLength BY <1>4, <1>5, <1>12
    <3>2. 1 .. priv'[t].moved = {} /\ priv'[t].moved + 1 .. sent'[t] = {} BY <1>4, <1>5
    <3>3. QED BY <1>11, <3>1, <3>2 DEF Carried
  <2>4. Fitting(t)'
    <3>1. priv'[t].moved = Offset(t, priv[t].retired + 1)' /\ priv'[t].retired < priv'[t].n BY <1>4, <1>10, <1>12
    <3>2. QED BY <3>1 DEF Fitting
  <2>5. Quiet(t)' BY <1>11 DEF Quiet
  <2>6. QED BY <2>1, <2>2, <2>3, <2>4, <2>5 DEF Sound
<1>14. ASSUME NEW u \in Transfers
       PROVE  \/ Keeps(u) /\ \E r, x : Returns(u, r, x)
              \/ priv'[u].urbs /\ Steady(u)' => Sound(u)'
  <2>1. CASE u = t BY <1>13, <2>1
  <2>2. CASE u # t
    <3>1. Returns(u, <<>>, 0) BY <1>1, <1>6, <2>2, NothingReturns
    <3>2. Keeps(u) BY <1>1, <1>6, <2>2, UntouchedKeeps
    <3>3. QED BY <3>1, <3>2
  <2>3. QED BY <2>1, <2>2
<1>15. DataInPlace'
  <2>1. handler.op = "report" => handler.t \in Transfers \ {t} BY <1>1, ReportingKnown
  <2>2. QED BY <1>1, <1>6, <2>1, InPlaceStays DEF DataInv
<1>16. QED BY <1>14, <1>15, StepSound

\* A URB is submitted behind the others.
LEMMA SubmitUrbSound ==
  ASSUME UsbfsAssumption, TypeInv, FlyingInv, EarnedInv, AddUpInv, DataInv, Reaping,
         NEW t \in Transfers, SubmitUrb(t), UNCHANGED fixed
  PROVE  DataInv'
<1> DEFINE i == user[t].i
<1>1. /\ UNCHANGED <<type, continuation, priv, size, buf, handler, done, sent, fault>> /\ user[t].op = "submit"
      /\ pend' = [pend EXCEPT ![t] = Append(@, i)]
      /\ user' = [user EXCEPT ![t] = IF i = priv[t].n THEN Idle ELSE [@ EXCEPT !.i = i + 1]]
  BY DEF SubmitUrb, fixed
<1>2. /\ DOMAIN user = Transfers /\ pend \in [Transfers -> Seq(Nat)] /\ "op" \in DOMAIN user[t]
  BY DEF TypeInv, TypeOK, FlyingInv, Shapes
<1>3. /\ user[t] \in [op : {"submit"}, i : 1 .. priv[t].n] /\ priv[t].n \in Nat /\ i \in 1 .. priv[t].n
      /\ priv[t].retired = 0 /\ priv[t].moved = 0
  BY <1>1 DEF TypeInv, TypeOK, LayInv, Submitting
<1>4. priv[t].urbs BY <1>1 DEF EarnedInv, InFlight
<1>5. Laid(t) /\ InOrder(t) /\ DoneInPlace(t)
  BY <1>4 DEF TypeInv, LayInv, AddUpInv, Whole, InOrder
<1>6. \A u \in Transfers \ {t} : UNCHANGED <<pend[u], user[u]>> BY <1>1, <1>2
<1>7. Highest(t) = i - 1 BY <1>1 DEF Highest
<1>8. Highest(t)' = i
  <2>1. CASE i = priv[t].n
    <3>1. user'[t] = Idle BY <1>1, <1>2, <2>1
    <3>2. QED BY <1>1, <2>1, <3>1 DEF Highest, Idle
  <2>2. CASE i # priv[t].n
    <3>1. user'[t] = [user[t] EXCEPT !.i = i + 1] BY <1>1, <1>2, <2>2
    <3>2. user'[t].op = "submit" /\ user'[t].i = i + 1 BY <1>3, <3>1
    <3>3. (i + 1) - 1 = i BY <1>3
    <3>4. QED BY <3>2, <3>3 DEF Highest
  <2>3. QED BY <2>1, <2>2
<1> HIDE DEF i
<1>9. i \in Nat /\ i >= 1 BY <1>3
<1> DEFINE p == pend[t]  q == pend'[t]
<1>10. /\ p \in Seq(Nat) /\ q = Append(p, i) BY <1>1, <1>2
<1> HIDE DEF p, q
<1>11. /\ Len(p) \in Nat /\ DOMAIN p = 1 .. Len(p) /\ DOMAIN q = 1 .. Len(p) + 1
       /\ \A k \in DOMAIN p : k \in DOMAIN q /\ q[k] = p[k]
       /\ Len(p) + 1 \in DOMAIN q /\ q[Len(p) + 1] = i
       /\ \A k \in DOMAIN q : k \in DOMAIN p \/ q[k] = i
  <2>1. Len(p) \in Nat /\ DOMAIN p = 1 .. Len(p) BY <1>10, LenProperties
  <2>2. q \in Seq(Nat) /\ Len(q) = Len(p) + 1 /\ (\A k \in 1 .. Len(p) : q[k] = p[k]) /\ q[Len(p) + 1] = i
    BY <1>9, <1>10, AppendProperties
  <2>3. DOMAIN q = 1 .. Len(p) + 1 BY <2>2, LenProperties
  <2> HIDE DEF p, q
  <2>4. QED BY <2>1, <2>2, <2>3
<1>12. (\A k \in DOMAIN q : (\E j \in DOMAIN p : q[k] = p[j]) \/ q[k] = i) /\ \A j \in DOMAIN p : \E k \in DOMAIN q : q[k] = p[j]
  BY <1>11
<1>13. \E k \in DOMAIN q : q[k] = i BY <1>11
<1>14. ASSUME Steady(t)' PROVE Sound(t)'
  <2>1. Steady(t) BY <1>1, <1>4, <1>14 DEF Steady, Known
  <2>2. Sound(t) BY <1>4, <2>1 DEF DataInv
  <2>3. priv[t].action = "normal" BY <1>1 DEF EarnedInv, InFlight
  <2>4. UrbsOf(done', t) = UrbsOf(done, t) /\ Holds(t)' = Holds(t) BY <1>1 DEF Holds
  <2>5. Gapless(t)'
    <3>0. Gapless(t) BY <2>2, <2>3 DEF Sound
    <3>1. /\ \A l \in 1 .. i - 1 : (\E k \in UrbsOf(done, t) : done[k].i = l) \/ (\E k \in DOMAIN p : p[k] = l)
          /\ \A k \in UrbsOf(done, t) : done[k].i > 0
          /\ \A k \in DOMAIN p : p[k] > 0
      <4>1. priv[t].retired + 1 .. Highest(t) = 1 .. i - 1 BY <1>3, <1>7
      <4>2. QED BY <1>3, <3>0, <4>1 DEF Gapless, p
    <3>2. \A l \in 1 .. i : (\E k \in UrbsOf(done, t) : done[k].i = l) \/ (\E k \in DOMAIN q : q[k] = l)
      <4> SUFFICES ASSUME NEW l \in 1 .. i
                   PROVE  (\E k \in UrbsOf(done, t) : done[k].i = l) \/ (\E k \in DOMAIN q : q[k] = l)
        OBVIOUS
      <4>1. CASE l = i BY <1>13, <4>1
      <4>2. CASE l # i
        <5>1. l \in 1 .. i - 1 BY <1>9, <4>2
        <5>2. QED BY <1>12, <3>1, <5>1
      <4>3. QED BY <4>1, <4>2
    <3>3. \A k \in DOMAIN q : q[k] > 0
      <4>1. i > 0 BY <1>9
      <4>2. QED BY <1>12, <3>1, <4>1
    <3>4. priv'[t].retired + 1 .. Highest(t)' = 1 .. i /\ priv'[t].retired = 0 BY <1>1, <1>3, <1>8
    <3>5. QED BY <1>1, <3>1, <3>2, <3>3, <3>4 DEF Gapless, q
  <2>6. CASE type[t] = "iso"
    <3>1. Results(t) BY <2>2, <2>6 DEF Sound
    <3>2. Results(t)' BY <1>1, <3>1 DEF Results, Offset
    <3>3. QED BY <1>1, <2>5, <2>6, <3>2 DEF Sound
  <2>7. CASE type[t] # "iso"
    <3>1. Carried(t) /\ Quiet(t) BY <2>2, <2>7 DEF Sound
    <3>2. Quiet(t)' BY <1>1, <2>4, <3>1 DEF Quiet
    <3>3. Offset(t, 1) = 0 /\ Offset(t, i) \in Nat BY <1>3, <1>5, PartsLie
    <3>4. Fitting(t)'
      <4>1. priv'[t].retired + 1 = 1 /\ priv'[t].retired < priv'[t].n BY <1>1, <1>3
      <4>2. Offset(t, priv[t].retired + 1)' = Offset(t, 1) BY <1>1, <4>1 DEF Offset
      <4>3. priv'[t].moved = Offset(t, priv[t].retired + 1)' BY <1>1, <1>3, <3>3, <4>2
      <4>4. QED BY <4>1, <4>3 DEF Fitting
    <3>5. \A k \in Holds(t) : done[k].i < i
      <4> SUFFICES ASSUME NEW k \in Holds(t) PROVE done[k].i < i OBVIOUS
      <4>1. k \in UrbsOf(done, t) BY DEF Holds
      <4>2. done[k].i \in 1 .. i - 1 BY <1>5, <1>7, <4>1 DEF DoneInPlace
      <4>3. QED BY <1>9, <4>2
    <3>6. \A k \in Holds(t) : \A j \in DOMAIN q : done[k].i < q[j]
      <4>1. \A k \in Holds(t) : \A j \in DOMAIN p : done[k].i < p[j] BY <3>1 DEF Carried, p
      <4>2. QED BY <1>12, <3>5, <4>1
    <3>7. \A j \in DOMAIN q : priv[t].moved <= Offset(t, q[j])
      <4>1. \A j \in DOMAIN p : priv[t].moved <= Offset(t, p[j]) BY <3>1 DEF Carried, p
      <4>2. priv[t].moved <= Offset(t, i) BY <1>3, <3>3
      <4>3. QED BY <1>12, <4>1, <4>2
    <3>8. \A l : Offset(t, l)' = Offset(t, l) BY <1>1 DEF Offset
    <3>9. Carried(t)'
      <4>1. \A k : At(t, k)' = At(t, k) /\ FirstUnit(t, k)' = FirstUnit(t, k) /\ LastUnit(t, k)' = LastUnit(t, k)
        BY <1>1 DEF At, FirstUnit, LastUnit, Offset
      <4>2. \A j \in DOMAIN q : Offset(t, pend[t][j])' = Offset(t, q[j]) BY <1>1 DEF Offset, q
      <4>3. QED BY <1>1, <2>4, <3>1, <3>6, <3>7, <4>1, <4>2 DEF Carried, q
    <3>10. QED BY <1>1, <2>5, <2>7, <3>2, <3>4, <3>9 DEF Sound
  <2>8. QED BY <2>6, <2>7
<1>15. ASSUME NEW u \in Transfers
       PROVE  \/ Keeps(u) /\ \E r, x : Returns(u, r, x)
              \/ priv'[u].urbs /\ Steady(u)' => Sound(u)'
  <2>1. CASE u = t BY <1>14, <2>1
  <2>2. CASE u # t
    <3>1. Returns(u, <<>>, 0) BY <1>1, <1>6, <2>2, NothingReturns
    <3>2. Keeps(u) BY <1>1, <1>6, <2>2, UntouchedKeeps
    <3>3. QED BY <3>1, <3>2
  <2>3. QED BY <2>1, <2>2
<1>16. DataInPlace' BY <1>1, InPlaceStays DEF DataInv
<1>17. QED BY <1>15, <1>16, StepSound

\* A timeout leaves all fields what they should be.
LEMMA ExpireTyped ==
  ASSUME TypeInv, FlyingInv, EarnedInv, NEW t \in Transfers, Expire(t), UNCHANGED fixed
  PROVE  TypeInv'
<1>1. UNCHANGED <<type, continuation, priv, size, buf, app, user, handler, pend, done, cut, connected, sent, fault, calls>>
  BY DEF Expire, fixed, kernel
<1>2. flags' \in [Transfers -> SUBSET {"timed_out", "cancelling"}] /\ timing' = t BY DEF Expire, TypeInv, TypeOK
<1>3. TypeOK' BY <1>1, <1>2 DEF TypeInv, TypeOK
<1>4. ASSUME NEW u \in Transfers PROVE LayInv(u)'
  <2>1. Reaping' => Reaping /\ Within(done, done', u) BY <1>1, SameWithin DEF Reaping, EarnedInv
  <2>2. QED BY <1>1, <2>1, LayStays DEF TypeInv
<1>5. QED BY <1>1, <1>3, <1>4 DEF TypeInv

\* The callback of a transfer that is reported.
LEMMA ReportKept ==
  ASSUME UsbfsAssumption, TypeInv, FlyingInv, EarnedInv, AddUpInv, DataInv, Report, UNCHANGED fixed
  PROVE  TypeInv' /\ DataInv'
<1>1. PICK t \in Transfers : t = handler.t /\ handler.op = "report" BY DEF Report, FlyingInv
<1>2. /\ UNCHANGED <<type, continuation, user, timing, pend, done, cut, connected>> /\ handler' = Poll
      /\ priv' = [priv EXCEPT ![t] = Blank] /\ flags' = [flags EXCEPT ![t] = {}]
      /\ size' = [size EXCEPT ![t] = <<>>] /\ buf' = [buf EXCEPT ![t] = Wiped]
      /\ sent' = [sent EXCEPT ![t] = 0] /\ fault' = [fault EXCEPT ![t] = {}]
      /\ calls' = [calls EXCEPT ![t] = 1 - @] /\ app' = [app EXCEPT ![t] = "idle"]
  BY <1>1 DEF Report, Forget, fixed
<1>3. /\ DOMAIN size = Transfers /\ DOMAIN buf = Transfers /\ DOMAIN sent = Transfers /\ DOMAIN fault = Transfers
      /\ DOMAIN priv = Transfers
  BY DEF TypeInv, TypeOK
<1>4. Blank \in Privs /\ ~Blank.urbs /\ Blank.retired <= Blank.n BY DEF Blank, Privs, Actions, Statuses
<1>5. /\ priv' \in [Transfers -> Privs] /\ \A u \in Transfers : priv'[u].retired <= priv'[u].n
      /\ priv'[t] = Blank /\ \A u \in Transfers \ {t} : priv'[u] = priv[u]
  BY <1>2, <1>4, PrivTyped DEF TypeInv
<1>6. \A u \in Transfers \ {t} : UNCHANGED <<size[u], buf[u], sent[u], fault[u], pend[u], user[u]>> BY <1>2, <1>3
<1>7. TypeOK'
  <2>1. size' \in [Transfers -> Seq(Nat)]
    <3>1. <<>> \in Seq(Nat) BY EmptySeq
    <3>2. QED BY <1>2, <3>1 DEF TypeInv, TypeOK
  <2>2. buf' \in [Transfers -> [Positions -> Nat]] BY <1>2 DEF TypeInv, TypeOK, Wiped
  <2>3. sent' \in [Transfers -> Nat] /\ fault' \in [Transfers -> SUBSET Faults]
        /\ flags' \in [Transfers -> SUBSET {"timed_out", "cancelling"}] /\ app' \in [Transfers -> {"idle", "flying"}]
    BY <1>2 DEF TypeInv, TypeOK
  <2>4. calls' \in [Transfers -> 0 .. 1]
    <3>1. calls \in [Transfers -> 0 .. 1] BY DEF TypeInv, TypeOK
    <3>2. 1 - calls[t] \in 0 .. 1 BY <3>1
    <3>3. QED BY <1>2, <3>1, <3>2
  <2>5. QED BY <1>2, <1>5, <2>1, <2>2, <2>3, <2>4 DEF TypeInv, TypeOK, Privs, Poll
<1>8. user[t].op # "submit" BY <1>1, ReportingKnown
<1>9. LayInv(t)' BY <1>2, <1>4, <1>5, <1>8 DEF LayInv
<1>10. Reaping BY <1>1 DEF Reaping
<1>11. ASSUME NEW u \in Transfers \ {t} PROVE LayInv(u)'
  <2>1. Within(done, done', u) BY <1>2, SameWithin DEF EarnedInv
  <2>2. QED BY <1>2, <1>5, <1>6, <1>10, <2>1, LayStays DEF TypeInv
<1>12. TypeInv' BY <1>2, <1>7, <1>9, <1>11 DEF TypeInv
<1>13. ASSUME NEW u \in Transfers
       PROVE  \/ Keeps(u) /\ \E r, x : Returns(u, r, x)
              \/ priv'[u].urbs /\ Steady(u)' => Sound(u)'
  <2>1. CASE u = t BY <1>4, <1>5, <2>1
  <2>2. CASE u # t
    <3>1. Returns(u, <<>>, 0) BY <1>2, <1>6, <2>2, NothingReturns
    <3>2. Keeps(u) BY <1>2, <1>5, <1>6, <2>2, UntouchedKeeps
    <3>3. QED BY <3>1, <3>2
  <2>3. QED BY <2>1, <2>2
<1>14. DataInPlace' BY <1>2 DEF DataInPlace, Poll
<1>15. QED BY <1>10, <1>12, <1>13, <1>14, StepSound

\* After the disconnection no URB is reaped any more, nor is one there to come back.
LEMMA SweepKept ==
  ASSUME TypeInv, FlyingInv, EarnedInv, DataInv, PollError \/ Sweep \/ ClearPriv \/ ReportGone, UNCHANGED fixed
  PROVE  TypeInv' /\ DataInv'
<1>1. UNCHANGED <<type, continuation, flags, size, buf, user, timing, pend, done, cut, connected, sent, fault>>
  BY DEF PollError, Sweep, ClearPriv, ReportGone, fixed, kernel
<1>2. handler'.op \in {"sweep", "clear", "gone", "swept"} BY DEF PollError, Sweep, ClearPriv, ReportGone
<1>3. /\ priv' \in [Transfers -> Privs]
      /\ \A u \in Transfers : /\ priv'[u].n = priv[u].n /\ priv'[u].retired = priv[u].retired
                              /\ priv'[u].moved = priv[u].moved /\ (priv'[u].urbs => priv[u].urbs)
  <2>1. priv \in [Transfers -> Privs] BY DEF TypeInv, TypeOK, Privs
  <2>2. CASE UNCHANGED priv BY <2>1, <2>2
  <2>3. CASE ClearPriv
    <3>1. PICK t \in Transfers : t = handler.t BY <2>3 DEF ClearPriv, FlyingInv
    <3> DEFINE q == [priv[t] EXCEPT !.urbs = FALSE]
    <3>2. priv' = [priv EXCEPT ![t] = q] BY <2>1, <2>3, <3>1 DEF ClearPriv
    <3>3. /\ q \in Privs /\ q.n = priv[t].n /\ q.retired = priv[t].retired /\ q.moved = priv[t].moved /\ ~q.urbs
      BY <2>1 DEF Privs
    <3> HIDE DEF q
    <3>4. QED BY <2>1, <3>2, <3>3
  <2>4. QED BY <2>2, <2>3 DEF PollError, Sweep, ReportGone
<1>4. app' \in [Transfers -> {"idle", "flying"}] /\ calls' \in [Transfers -> 0 .. 1]
  <2>1. app \in [Transfers -> {"idle", "flying"}] /\ calls \in [Transfers -> 0 .. 1] BY DEF TypeInv, TypeOK
  <2>2. CASE UNCHANGED <<app, calls>> BY <2>1, <2>2
  <2>3. CASE ReportGone
    <3>1. PICK t \in Transfers : t = handler.t BY <2>3 DEF ReportGone, FlyingInv
    <3>2. calls' = [calls EXCEPT ![t] = 1 - calls[t]] /\ app' = [app EXCEPT ![t] = "idle"]
      BY <2>1, <2>3, <3>1 DEF ReportGone
    <3>3. 1 - calls[t] \in 0 .. 1 BY <2>1
    <3>4. QED BY <2>1, <3>2, <3>3
  <2>4. QED BY <2>2, <2>3 DEF PollError, Sweep, ClearPriv
<1>5. \A u \in Transfers : priv'[u].retired <= priv'[u].n BY <1>3 DEF TypeInv, TypeOK
<1>6. TypeOK' BY <1>1, <1>2, <1>3, <1>4, <1>5 DEF TypeInv, TypeOK, Privs
<1>7. ~Reaping' BY <1>2 DEF Reaping
<1>8. \A u \in Transfers : LayInv(u)' BY <1>1, <1>3, <1>7, LayStays DEF TypeInv
<1>9. TypeInv' BY <1>1, <1>6, <1>8 DEF TypeInv
<1>10. DataInv' BY <1>2, <1>7 DEF DataInv, DataInPlace
<1>11. QED BY <1>9, <1>10

\* Calls of the application and the timeouts.
LEMMA CallKept ==
  ASSUME UsbfsAssumption, SettingInv, TypeInv, FlyingInv, EarnedInv, AddUpInv, DataInv, NEW t \in Transfers,
         Application(t) \/ Calls(t), UNCHANGED fixed
  PROVE  TypeInv' /\ DataInv'
<1>1. CASE Submit(t)
  <2>1. TypeInv' BY <1>1, SubmitTyped
  <2>2. handler' = handler BY <1>1 DEF Submit
  <2>3. DataInv' BY <1>1, <2>2, SubmitSound, NothingReaped
  <2>4. QED BY <2>1, <2>3
<1>2. CASE Cancel(t)
  <2>1. StartCancel(t) /\ LockFree(t) /\ UNCHANGED <<size, buf, app, handler, timing, kernel, calls>>
    BY <1>2 DEF Cancel
  <2>2. timing' \in Transfers \cup {NoTransfer} BY <2>1 DEF TypeInv, TypeOK
  <2>3. TypeInv' BY <2>1, <2>2, CancelTyped
  <2>4. DataInv' BY <2>1, CancelSound, NothingReaped
  <2>5. QED BY <2>3, <2>4
<1>3. CASE Expire(t)
  <2>1. TypeInv' BY <1>3, ExpireTyped
  <2>2. handler' = handler BY <1>3 DEF Expire
  <2>3. DataInv' BY <1>3, <2>2, ExpireSound, NothingReaped
  <2>4. QED BY <2>1, <2>3
<1>4. CASE SubmitUrb(t)
  <2>1. TypeInv' BY <1>4, SubmitUrbTyped
  <2>2. handler' = handler BY <1>4 DEF SubmitUrb
  <2>3. DataInv' BY <1>4, <2>2, SubmitUrbSound, NothingReaped
  <2>4. QED BY <2>1, <2>3
<1>5. CASE FirstUrbFails(t) \/ LaterUrbFails(t)
  <2>1. TypeInv' BY <1>5, FailureTyped
  <2>2. handler' = handler BY <1>5 DEF FirstUrbFails, LaterUrbFails
  <2>3. DataInv' BY <1>5, <2>2, FailureSound, NothingReaped
  <2>4. QED BY <2>1, <2>3
<1>6. CASE UserDiscards(t) BY <1>6, UserDiscardKept
<1>7. QED BY <1>1, <1>2, <1>3, <1>4, <1>5, <1>6 DEF Application, Calls

\* A step that changes nothing.
LEMMA StutterKept ==
  ASSUME UsbfsAssumption, TypeInv, FlyingInv, EarnedInv, AddUpInv, DataInv, UNCHANGED vars
  PROVE  TypeInv' /\ DataInv'
<1>1. /\ UNCHANGED <<type, continuation, priv, flags, size, buf, app, user, handler, timing, pend, done, cut, connected>>
      /\ UNCHANGED <<sent, fault, calls>>
  BY DEF vars, fixed, kernel
<1>2. TypeOK' BY <1>1 DEF TypeInv, TypeOK
<1>3. ASSUME NEW u \in Transfers PROVE LayInv(u)'
  <2>1. Reaping' => Reaping /\ Within(done, done', u) BY <1>1, SameWithin DEF Reaping, EarnedInv
  <2>2. QED BY <1>1, <2>1, LayStays DEF TypeInv
<1>4. TypeInv' BY <1>1, <1>2, <1>3 DEF TypeInv
<1>5. CASE Reaping
  <2>1. ASSUME NEW u \in Transfers PROVE Keeps(u) /\ \E r, x : Returns(u, r, x)
    <3>1. Returns(u, <<>>, 0) BY <1>1, NothingReturns
    <3>2. QED BY <1>1, <3>1, UntouchedKeeps
  <2>2. DataInPlace' BY <1>1, InPlaceStays DEF DataInv
  <2>3. DataInv' BY <1>5, <2>1, <2>2, StepSound
  <2>4. QED BY <1>4, <2>3
<1>6. CASE ~Reaping
  <2>1. DataInv' BY <1>1, <1>6, NothingReaped
  <2>2. QED BY <1>4, <2>1
<1>7. QED BY <1>5, <1>6

\* Every step keeps what the fields hold and where the data lies.
LEMMA StepKept ==
  ASSUME UsbfsAssumption, SettingInv, TypeInv, FlyingInv, EarnedInv, AddUpInv, DataInv, Next
  PROVE  TypeInv' /\ DataInv'
<1>1. UNCHANGED fixed BY DEF Next
<1>2. CASE HandlerDiscards BY <1>1, <1>2, HandlerDiscardKept
<1>3. CASE BulkSurplus \/ BulkNormal \/ IsoCompletion \/ ControlCompletion
  <2>1. Reaping BY <1>3 DEF BulkSurplus, BulkNormal, IsoCompletion, ControlCompletion, Mine, Reaping, Poll
  <2>2. PICK t \in Transfers : \E q : Completes(t, q) BY <1>1, <1>3, <2>1, CompletionEnds
  <2>3. PICK q : Completes(t, q) BY <2>2
  <2>4. TypeInv' /\ DataInv' BY <2>1, <2>3, EndsTyped, EndsSound
  <2>5. QED BY <2>4
<1>4. CASE Report BY <1>1, <1>4, ReportKept
<1>5. CASE PollError \/ Sweep \/ ClearPriv \/ ReportGone BY <1>1, <1>5, SweepKept
<1>6. CASE ExpireCancel
  <2>1. timing \in Transfers /\ StartCancel(timing) /\ LockFree(timing) BY <1>6 DEF ExpireCancel, EarnedInv, Fields
  <2>2. UNCHANGED <<size, buf, app, handler, kernel, calls>> /\ timing' \in Transfers \cup {NoTransfer}
    BY <1>6 DEF ExpireCancel
  <2>3. handler' = handler BY <2>2
  <2>4. TypeInv' BY <1>1, <2>1, <2>2, CancelTyped
  <2>5. DataInv' BY <1>1, <2>1, <2>2, <2>3, CancelSound, NothingReaped
  <2>6. QED BY <2>4, <2>5
<1>7. CASE Disconnect BY <1>1, <1>7, DisconnectKept
<1>8. ASSUME NEW t \in Transfers, Application(t) \/ Calls(t) PROVE TypeInv' /\ DataInv'
  BY <1>1, <1>8, CallKept
<1>9. ASSUME NEW t \in Transfers, UrbCompletes(t) PROVE TypeInv' /\ DataInv'
  BY <1>1, <1>9, AnswerKept
<1>10. QED BY <1>2, <1>3, <1>4, <1>5, <1>6, <1>7, <1>8, <1>9 DEF Next, Handler

\* All buffers are untouched in the beginning.
LEMMA InitKept == ASSUME UsbfsAssumption, SettingInv, Init PROVE TypeInv /\ DataInv
<1>1. /\ priv = [t \in Transfers |-> Blank] /\ flags = [t \in Transfers |-> {}]
      /\ size = [t \in Transfers |-> <<>>] /\ buf = [t \in Transfers |-> Wiped]
      /\ app = [t \in Transfers |-> "idle"] /\ user = [t \in Transfers |-> Idle]
      /\ handler = Poll /\ timing = NoTransfer
      /\ pend = [t \in Transfers |-> <<>>] /\ done = <<>> /\ cut = {} /\ connected = TRUE
      /\ sent = [t \in Transfers |-> 0] /\ fault = [t \in Transfers |-> {}]
      /\ calls = [t \in Transfers |-> 0]
  BY DEF Init
<1>2. Blank \in Privs /\ ~Blank.urbs /\ Blank.retired <= Blank.n BY DEF Blank, Privs, Actions, Statuses
<1>3. \A t \in Transfers : priv[t] = Blank /\ user[t] = Idle /\ pend[t] = <<>> BY <1>1
<1>4. priv \in [Transfers -> Privs] /\ \A t \in Transfers : priv[t].retired <= priv[t].n BY <1>1, <1>2
<1>5. <<>> \in Seq(Nat) /\ <<>> \in Seq(Urbs) BY EmptySeq
<1>6. /\ size \in [Transfers -> Seq(Nat)] /\ pend \in [Transfers -> Seq(Nat)] /\ done \in Seq(Urbs)
  BY <1>1, <1>5
<1>7. buf \in [Transfers -> [Positions -> Nat]] BY <1>1 DEF Wiped
<1>8. /\ flags \in [Transfers -> SUBSET {"timed_out", "cancelling"}] /\ app \in [Transfers -> {"idle", "flying"}]
      /\ sent \in [Transfers -> Nat] /\ fault \in [Transfers -> SUBSET Faults] /\ calls \in [Transfers -> 0 .. 1]
  BY <1>1
<1>9. TypeOK BY <1>1, <1>3, <1>4, <1>6, <1>7, <1>8 DEF TypeOK, SettingInv, Privs, Poll
<1>10. \A t \in Transfers : LayInv(t) BY <1>2, <1>3 DEF LayInv, Idle
<1>11. TypeInv BY <1>3, <1>9, <1>10 DEF TypeInv
<1>12. DataInv BY <1>1, <1>2, <1>3 DEF DataInv, DataInPlace, Poll
<1>13. QED BY <1>11, <1>12

\* What has arrived when a transfer is reported lies at the front of its buffer, in
\* order and without a hole, and is all the device has sent; the results of an
\* isochronous transfer that was neither cancelled nor cut short are at the packets
\* they belong to: for every length, every division into URBs and every order in
\* which they are completed, discarded and reaped.
THEOREM NothingLostCorrect == Spec => []NothingLost
<1>1. Init => SettingInv /\ EarnedInv /\ AddUpInv /\ TypeInv /\ DataInv
  <2>1. Init => SettingInv BY InitSetting
  <2>2. QED BY <2>1, InitEarned, InitAddsUp, InitKept, UsbfsAssumption
<1>2. SettingInv /\ FlyingInv /\ EarnedInv /\ AddUpInv /\ TypeInv /\ DataInv /\ [Next]_vars
        => SettingInv' /\ EarnedInv' /\ AddUpInv' /\ TypeInv' /\ DataInv'
  <2>1. SettingInv /\ FlyingInv /\ EarnedInv /\ AddUpInv /\ [Next]_vars => SettingInv' /\ EarnedInv' /\ AddUpInv'
    BY StepCounts
  <2>2. ASSUME SettingInv, FlyingInv, EarnedInv, AddUpInv, TypeInv, DataInv, [Next]_vars PROVE TypeInv' /\ DataInv'
    BY <2>2, StepKept, StutterKept, UsbfsAssumption
  <2>3. QED BY <2>1, <2>2
<1>3. TypeInv /\ DataInv => NothingLost BY DEF TypeInv, DataInv, NothingLost
<1>4. QED BY FlyingCorrect, <1>1, <1>2, <1>3, PTL DEF Spec
=============================================================================
