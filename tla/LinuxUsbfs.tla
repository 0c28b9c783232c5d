----------------------------- MODULE LinuxUsbfs -----------------------------
(***************************************************************************)
(* Transfers of libusbx over Linux usbfs (usb_test/include/os/             *)
(* linux_usbfs.c): a transfer is cut into URBs, the URBs are submitted,    *)
(* reaped and discarded one ioctl at a time, and the transfer is reported  *)
(* when all its URBs have come back.                                       *)
(*                                                                         *)
(* Three actors: the application (submit, cancel), the kernel with the     *)
(* device, and the one thread that handles events.  itransfer->lock is     *)
(* held by a call for as long as its entry in user, or the discard loop of *)
(* the handler, names the transfer.  Transfers read from the device; those *)
(* that write differ in that their URBs are never short.                   *)
(***************************************************************************)
EXTENDS Integers, FiniteSets, SequencesExt

CONSTANTS
  Transfers, NoTransfer,
  Settings,       (* the possible values of type and continuation          *)
  ShortNotOk,     (* transfers with LIBUSB_TRANSFER_SHORT_NOT_OK           *)
  Lengths,        (* transfer -> lengths it may have, unless isochronous   *)
  Packets,        (* isochronous transfers: sequences of packet lengths    *)
  MaxBulk, MaxIso, (* MAX_BULK_BUFFER_LENGTH, MAX_ISO_BUFFER_LENGTH        *)
  BufferLength    (* bound: length of a buffer, or number of packets       *)

ASSUME UsbfsAssumption ==
  /\ Settings \subseteq [type : [Transfers -> {"control", "bulk", "interrupt", "iso", "unused"}],
                          continuation : BOOLEAN]
  /\ IsFiniteSet(Transfers) /\ NoTransfer \notin Transfers
  /\ ShortNotOk \subseteq Transfers
  /\ MaxBulk \in Nat \ {0} /\ MaxIso \in Nat \ {0} /\ BufferLength \in Nat
  /\ Lengths \in [Transfers -> SUBSET (0 .. BufferLength)]
  /\ \A ps \in Packets : ps \in Seq(0 .. MaxIso) /\ Len(ps) <= BufferLength

Actions  == {"normal", "submit_failed", "cancelled", "early", "error"}  \* enum reap_action
Statuses == {"completed", "error", "timed_out", "cancelled", "stall", "no_device", "overflow"}
Codes    == {"ok", "remote", "cancelled", "stall", "proto", "overflow", "shutdown"}  \* urb->status
Faults   == {"refused", "stall", "proto", "overflow", "shutdown"}

VARIABLES
  type,       (* libusb_transfer.type                                      *)
  continuation, (* supports_flag_bulk_continuation                         *)
  priv,       (* struct linux_transfer_priv and itransfer->transferred     *)
  flags,      (* itransfer->flags                                          *)
  size,       (* buffer length, or number of packets, of each URB          *)
  buf,        (* position -> number of the unit or packet that lies there  *)
  app,        (* what the application knows: "idle" or "flying"            *)
  user,       (* the call of the application that holds itransfer->lock    *)
  handler,    (* the thread that handles events                            *)
  timing,     (* transfer that handle_timeout has marked and will cancel   *)
  pend, done, (* kernel: URBs under way; URBs to be reaped                 *)
  cut,        (* kernel: transfers whose continuation is refused           *)
  connected,
  sent,       (* units the device has put into the URBs of the transfer    *)
  fault,      (* faults among the URBs of the transfer                     *)
  calls       (* callbacks of the transfer, modulo 2                       *)

kernel  == <<pend, done, cut, connected, sent, fault>>
fixed == <<type, continuation>>
vars == <<fixed, priv, flags, size, buf, app, user, handler, timing, kernel, calls>>

Idle == [op |-> "none"]
Poll == [op |-> "poll"]
Blank == [urbs |-> FALSE, n |-> 0, retired |-> 0, action |-> "normal",
          status |-> "completed", moved |-> 0, off |-> 0]

-----------------------------------------------------------------------------
(* Division of a transfer into URBs.                                       *)

BulkSizes(len) ==
  IF len = 0 THEN <<0>>
  ELSE LET whole == len \div MaxBulk  part == len % MaxBulk
       IN [i \in 1 .. whole |-> MaxBulk] \o IF part > 0 THEN <<part>> ELSE <<>>

\* The first loop counts the URBs, the second fills them.
IsoCount(ps) ==
  FoldLeft(LAMBDA a, p : IF p > MaxIso - a.used THEN [n |-> a.n + 1, used |-> p]
                         ELSE [a EXCEPT !.used = @ + p],
           [n |-> 1, used |-> 0], ps).n

IsoFill(ps) ==
  FoldLeft(LAMBDA a, p : IF p <= a.room
                         THEN [a EXCEPT !.room = @ - p, !.urbs[Len(a.urbs)] = @ + 1]
                         ELSE [room |-> MaxIso - p, urbs |-> Append(a.urbs, 1)],
           [room |-> MaxIso, urbs |-> <<0>>], ps).urbs

IsoSizes(ps) == [i \in 1 .. IsoCount(ps) |-> IF i \in DOMAIN IsoFill(ps) THEN IsoFill(ps)[i] ELSE 0]

Sizes(t, what) == CASE type[t] = "iso" -> IsoSizes(what)
                    [] type[t] = "control" -> <<what>>
                    [] OTHER -> BulkSizes(what)

Before(s, i) == FoldLeft(+, 0, SubSeq(s, 1, i - 1))
Offset(t, i) == IF type[t] = "iso" THEN Before(size[t], i) ELSE (i - 1) * MaxBulk
Positions == 1 .. BufferLength
Wiped == [k \in Positions |-> 0]

\* Mutant: surplus data stays where it has arrived.
SurplusStays(b, at, to, n) == b

\* The n units after position at are moved to the n positions after to.
Moved(b, at, to, n) == [k \in Positions |-> IF k \in to + 1 .. to + n THEN b[k - to + at] ELSE b[k]]
Filled(b, at, first, n) == [k \in Positions |-> IF k \in at + 1 .. at + n THEN first + k - at ELSE b[k]]

-----------------------------------------------------------------------------
LockFree(t) == user[t] = Idle /\ ~(handler.op = "discard" /\ handler.t = t)

\* URBs of t the kernel still has, under way or to be reaped.
UrbsOf(urbs, t) == {k \in DOMAIN urbs : urbs[k].t = t}
InKernel(t) == Len(pend[t]) + Cardinality(UrbsOf(done, t))

Init ==
  /\ \E s \in Settings : type = s.type /\ continuation = s.continuation
  /\ priv = [t \in Transfers |-> Blank] /\ flags = [t \in Transfers |-> {}]
  /\ size = [t \in Transfers |-> <<>>] /\ buf = [t \in Transfers |-> Wiped]
  /\ app = [t \in Transfers |-> "idle"] /\ user = [t \in Transfers |-> Idle]
  /\ handler = Poll /\ timing = NoTransfer
  /\ pend = [t \in Transfers |-> <<>>] /\ done = <<>> /\ cut = {} /\ connected = TRUE
  /\ sent = [t \in Transfers |-> 0] /\ fault = [t \in Transfers |-> {}]
  /\ calls = [t \in Transfers |-> 0]

(* libusb_submit_transfer, op_submit_transfer: the URBs are allocated.     *)
Submit(t) ==
  /\ type[t] # "unused" /\ app[t] = "idle" /\ LockFree(t)
  /\ ~priv[t].urbs                                   \* else LIBUSB_ERROR_BUSY
  \* What follows a URB that outlived its transfer and can be reaped is left out.
  /\ InKernel(t) = 0 \/ handler.op = "gone"
  /\ \E what \in IF type[t] = "iso" THEN Packets ELSE Lengths[t] :
       /\ size' = [size EXCEPT ![t] = Sizes(t, what)]
       /\ priv' = [priv EXCEPT ![t] = [Blank EXCEPT !.urbs = TRUE, !.n = Len(Sizes(t, what)),
                     !.status = IF type[t] \in {"bulk", "interrupt"} THEN "completed" ELSE @]]
  /\ flags' = [flags EXCEPT ![t] = {}]
  /\ user' = [user EXCEPT ![t] = [op |-> "submit", i |-> 1]]
  /\ buf' = [buf EXCEPT ![t] = Wiped] /\ sent' = [sent EXCEPT ![t] = 0]
  /\ fault' = [fault EXCEPT ![t] = {}]
  /\ UNCHANGED <<app, handler, timing, pend, done, cut, connected, calls>>

(* IOCTL_USBFS_SUBMITURB for the next URB.  With the continuation flag the *)
(* kernel refuses it (EREMOTEIO) once an URB before it has failed.         *)
Refused(t, i) == continuation /\ type[t] \in {"bulk", "interrupt"} /\ i > 1 /\ t \in cut

SubmitUrb(t) ==
  /\ user[t].op = "submit"
  /\ connected
  /\ LET i == user[t].i  last == i = priv[t].n IN
       /\ ~Refused(t, i)
       /\ pend' = [pend EXCEPT ![t] = Append(@, i)]
       /\ cut' = IF i = 1 THEN cut \ {t} ELSE cut
       /\ user' = [user EXCEPT ![t] = IF last THEN Idle ELSE [@ EXCEPT !.i = i + 1]]
       /\ app' = IF last THEN [app EXCEPT ![t] = "flying"] ELSE app
  /\ UNCHANGED <<priv, flags, size, buf, handler, timing, done, connected, sent, fault, calls>>

\* Mutant: the URBs that are not submitted are waited for.
UnsubmittedNone(t) == 0

\* num_urbs - i of a submission that has failed at a later URB.
Unsubmitted(t) == priv[t].n - user[t].i + 1

\* Mutant: the error is returned although earlier URBs are under way.
AcceptedIfComplete(i) == FALSE

\* Whether a submission that fails at URB i returns success.
Accepted(i) == i > 1

\* The first URB fails: everything is given back, the submission fails.
FirstUrbFails(t) ==
  /\ user[t].op = "submit" /\ user[t].i = 1
  /\ priv' = [priv EXCEPT ![t].urbs = FALSE]
  /\ user' = [user EXCEPT ![t] = Idle]
  /\ UNCHANGED <<flags, size, buf, app, handler, timing, kernel, calls>>

\* A later one fails: the URBs that are not submitted count as retired.
LaterUrbFails(t) ==
  /\ user[t].op = "submit" /\ user[t].i > 1
  /\ LET i == user[t].i
         short == Refused(t, i) /\ connected
     IN /\ priv' = [priv EXCEPT ![t].action = IF short THEN "early" ELSE "submit_failed",
                                ![t].retired = @ + Unsubmitted(t)]
        /\ user' = [user EXCEPT ![t] = IF short THEN Idle
                                       ELSE [op |-> "discard", i |-> i - 1]]
        /\ fault' = IF short THEN fault ELSE [fault EXCEPT ![t] = @ \cup {"refused"}]
  /\ app' = IF Accepted(user[t].i) THEN [app EXCEPT ![t] = "flying"] ELSE app
  /\ UNCHANGED <<flags, size, buf, handler, timing, pend, done, cut, connected, sent, calls>>

-----------------------------------------------------------------------------
(* Cancellation: libusb_cancel_transfer, op_cancel_transfer, discard_urbs. *)

StartCancel(t) ==
  /\ priv' = [priv EXCEPT ![t].action =
                IF type[t] = "bulk" /\ @ = "error" THEN @ ELSE "cancelled"]
  /\ flags' = [flags EXCEPT ![t] = @ \cup {"cancelling"}]
  /\ user' = [user EXCEPT ![t] = IF priv[t].urbs THEN [op |-> "discard", i |-> priv[t].n] ELSE Idle]

Cancel(t) ==
  /\ app[t] = "flying" /\ LockFree(t)
  /\ "cancelling" \notin flags[t]               \* bound: it is cancelled once
  /\ StartCancel(t)
  /\ UNCHANGED <<size, buf, app, handler, timing, kernel, calls>>

(* handle_timeout marks the transfer without its lock, holding the lock of *)
(* the flying list, then cancels.  A submission is over before it expires  *)
(* here (UsbEvents has the other order).                                   *)
Expire(t) ==
  /\ timing = NoTransfer /\ app[t] = "flying" /\ "timed_out" \notin flags[t]
  /\ flags' = [flags EXCEPT ![t] = @ \cup {"timed_out"}]
  /\ timing' = t
  /\ UNCHANGED <<priv, size, buf, app, user, handler, kernel, calls>>

ExpireCancel ==
  /\ timing # NoTransfer /\ LockFree(timing)
  /\ StartCancel(timing)
  /\ timing' = NoTransfer
  /\ UNCHANGED <<size, buf, app, handler, kernel, calls>>

(* IOCTL_USBFS_DISCARDURB: an URB under way comes back, perhaps with some  *)
(* data in it; otherwise it is ready to be reaped already.                 *)
Discard(t, i) ==
  \/ /\ Contains(pend[t], i)
     /\ \E n \in IF pend[t][1] = i /\ size[t][i] > 0 /\ type[t] # "iso" THEN 0 .. size[t][i] - 1 ELSE {0} :
          /\ done' = Append(done, [t |-> t, i |-> i, code |-> "cancelled", n |-> n])
          /\ buf' = [buf EXCEPT ![t] = Filled(@, Offset(t, i), sent[t], n)]
          /\ sent' = [sent EXCEPT ![t] = @ + n]
     /\ pend' = [pend EXCEPT ![t] = RemoveAt(@, CHOOSE k \in DOMAIN @ : @[k] = i)]
  \/ ~Contains(pend[t], i) /\ UNCHANGED <<done, pend, buf, sent>>

UserDiscards(t) ==
  /\ user[t].op = "discard"
  /\ Discard(t, user[t].i)
  /\ user' = [user EXCEPT ![t] = IF user[t].i = 1 THEN Idle ELSE [@ EXCEPT !.i = @ - 1]]
  /\ UNCHANGED <<priv, flags, size, app, handler, timing, cut, connected, fault, calls>>

HandlerDiscards ==
  /\ handler.op = "discard"
  /\ Discard(handler.t, handler.i)
  /\ handler' = IF handler.i = handler.low THEN Poll ELSE [handler EXCEPT !.i = @ - 1]
  /\ UNCHANGED <<priv, flags, size, app, user, timing, cut, connected, fault, calls>>

-----------------------------------------------------------------------------
(* The kernel and the device.  URBs of one endpoint come back in order.    *)

Answers(t, i) ==       \* code and length
  LET c == size[t][i]
      full == [code |-> "ok", n |-> IF type[t] = "iso" THEN 0 ELSE c]
      some == IF c > 0 THEN 0 .. c - 1 ELSE {0}
      short == {[code |-> IF continuation /\ type[t] # "control" THEN "remote" ELSE "ok", n |-> k] : k \in some}
      bad == {[code |-> f, n |-> k] : f \in {"stall", "proto"}, k \in some}
      over == {[code |-> "overflow", n |-> c]}
  IN IF type[t] = "iso" THEN {full}
     ELSE {full} \cup (IF c > 0 THEN short ELSE {}) \cup bad \cup (IF i = priv[t].n THEN over ELSE {})

UrbCompletes(t) ==
  /\ pend[t] # <<>> /\ connected
  /\ LET i == Head(pend[t]) IN \E a \in Answers(t, i) :
       LET stops == a.code # "ok" /\ continuation /\ type[t] \in {"bulk", "interrupt"}
           rest == IF stops THEN [k \in 1 .. Len(pend[t]) - 1 |->
                                    [t |-> t, i |-> pend[t][k + 1], code |-> "remote", n |-> 0]]
                   ELSE <<>>
       IN /\ done' = Append(done, [t |-> t, i |-> i, code |-> a.code, n |-> a.n]) \o rest
          /\ pend' = [pend EXCEPT ![t] = IF stops THEN <<>> ELSE Tail(@)]
          /\ cut' = IF stops THEN cut \cup {t} ELSE cut
          /\ buf' = [buf EXCEPT ![t] = Filled(@, Offset(t, i), sent[t], a.n)]
          /\ sent' = [sent EXCEPT ![t] = @ + a.n]
          /\ fault' = [fault EXCEPT ![t] = @ \cup ({a.code} \cap Faults)]
  /\ UNCHANGED <<priv, flags, size, app, user, handler, timing, connected, calls>>

Lost == UNION {{[t |-> t, i |-> pend[t][k], code |-> "shutdown", n |-> 0] : k \in DOMAIN pend[t]} :
                t \in Transfers}

\* The URBs of each transfer come back in their order.
Disconnect ==
  /\ connected /\ connected' = FALSE
  /\ \E back \in [1 .. Cardinality(Lost) -> Lost] :
       /\ IsInjective(back)
       /\ \A j, k \in DOMAIN back : j < k /\ back[j].t = back[k].t => back[j].i < back[k].i
       /\ done' = done \o back
  /\ pend' = [t \in Transfers |-> <<>>]
  /\ fault' = [t \in Transfers |-> IF pend[t] = <<>> THEN fault[t] ELSE fault[t] \cup {"shutdown"}]
  /\ UNCHANGED <<priv, flags, size, buf, app, user, handler, timing, cut, sent, calls>>

-----------------------------------------------------------------------------
(* reap_for_handle and the completion handlers.  A handler ends in one of  *)
(* three ways: it waits for more URBs, it discards the remaining ones, or  *)
(* it gives the URBs back and goes on to the report.                       *)

Urb == Head(done)
Mine(types) ==
  /\ handler = Poll /\ done # <<>>
  /\ \E t \in Transfers : Urb.t = t /\ type[t] \in types /\ LockFree(t)
                          /\ priv[t].urbs  \* a URB of freed memory is undefined behaviour

Wait(p) == priv' = [priv EXCEPT ![Urb.t] = p] /\ handler' = Poll
Completed(p, st) ==
  /\ priv' = [priv EXCEPT ![Urb.t] = [p EXCEPT !.urbs = FALSE]]
  /\ handler' = [op |-> "report", t |-> Urb.t, st |-> st]
\* Mutant: the transfer is reported although URBs are still to come.
CancelRemainingAtOnce(p) == Completed(p, "by_action")

CancelRemaining(p) ==
  LET q == [p EXCEPT !.status = IF p.action = "error" /\ @ = "completed" THEN "error" ELSE @] IN
  IF q.retired = q.n THEN Completed(q, "by_action")
  ELSE /\ priv' = [priv EXCEPT ![Urb.t] = q]
       /\ handler' = [op |-> "discard", t |-> Urb.t, i |-> q.n, low |-> Urb.i + 1]

Reaped == done' = Tail(done) /\ UNCHANGED <<flags, size, app, user, timing, pend, cut, connected, sent, fault, calls>>

\* Cancelled, failed or completed early: what still arrives is surplus data.
BulkSurplus ==
  /\ Mine({"bulk", "interrupt"}) /\ priv[Urb.t].action # "normal"
  /\ LET t == Urb.t  p == priv[t]
         last == p.retired + 1 = p.n
         q == [p EXCEPT !.retired = @ + 1, !.moved = @ + Urb.n,
                        !.status = IF last /\ p.action # "early" /\ @ = "completed" THEN "error" ELSE @]
     IN /\ buf' = [buf EXCEPT ![t] = Moved(@, Offset(t, Urb.i), p.moved, Urb.n)]
        /\ IF last THEN Completed(q, "by_action") ELSE Wait(q)
  /\ Reaped

BulkNormal ==
  /\ Mine({"bulk", "interrupt"}) /\ priv[Urb.t].action = "normal"
  /\ LET p == [priv[Urb.t] EXCEPT !.retired = @ + 1, !.moved = @ + Urb.n]
         first(st) == [p EXCEPT !.status = IF @ = "completed" THEN st ELSE @]
     IN \/ /\ Urb.code \in {"ok", "remote", "cancelled"}
           /\ \/ Urb.i = p.n /\ Completed(p, "by_action")
              \/ Urb.i < p.n /\ Urb.n < size[Urb.t][Urb.i]
                             /\ CancelRemaining([p EXCEPT !.action = "early"])
              \/ Urb.i < p.n /\ Urb.n = size[Urb.t][Urb.i] /\ Wait(p)
        \/ Urb.code = "shutdown" /\ CancelRemaining([p EXCEPT !.status = "no_device"])
        \/ Urb.code = "stall" /\ CancelRemaining(first("stall"))
        \/ Urb.code = "overflow" /\ Completed(first("overflow"), "by_action")
        \/ Urb.code = "proto" /\ CancelRemaining([p EXCEPT !.action = "error"])
  /\ Reaped /\ UNCHANGED buf

\* The results go to the next packets of the transfer, in the order reaped.
IsoCompletion ==
  /\ Mine({"iso"})
  /\ LET t == Urb.t  p == priv[t]
         q == [p EXCEPT !.retired = @ + 1, !.off = @ + size[t][Urb.i]]
         last == q.retired = q.n
     IN /\ buf' = [buf EXCEPT ![t] = Filled(@, p.off, Before(size[t], Urb.i), size[t][Urb.i])]
        /\ \/ p.action # "normal" /\ last /\ Completed(q, IF p.action = "cancelled" THEN "cancellation" ELSE "error")
           \/ p.action # "normal" /\ ~last /\ Wait(q)
           \/ /\ p.action = "normal" /\ Urb.i = q.n
              /\ Completed(q, IF Urb.code = "shutdown" THEN "no_device" ELSE "completed")
           \/ p.action = "normal" /\ Urb.i < q.n /\ Wait(q)
  /\ Reaped

\* Mutant: a protocol error is taken for a stall.
ControlStatusStalls(code) == IF code = "ok" THEN "completed" ELSE "stall"

ControlStatus(code) == CASE code = "ok" -> "completed" [] code = "cancelled" -> "cancelled"
                         [] code = "shutdown" -> "no_device" [] code = "stall" -> "stall"
                         [] code = "overflow" -> "overflow" [] OTHER -> "error"

ControlCompletion ==
  /\ Mine({"control"})
  /\ LET p == [priv[Urb.t] EXCEPT !.moved = @ + Urb.n]
     IN Completed(p, IF p.action = "cancelled" THEN "cancellation" ELSE ControlStatus(Urb.code))
  /\ Reaped /\ UNCHANGED buf

\* usbi_handle_transfer_cancellation
Cancellation(t) == IF "timed_out" \in flags[t] THEN "timed_out" ELSE "cancelled"

(* usbi_handle_transfer_completion, without the lock of the transfer: for  *)
(* a bulk transfer reap_action is read only here.  The transfer leaves the *)
(* flying list, for which a timeout in progress has the lock.              *)
Final(t, st) ==
  LET p == priv[t]
      s == IF st = "by_action" THEN IF p.action = "cancelled" THEN "cancellation" ELSE p.status ELSE st
      short == t \in ShortNotOk /\ p.moved # FoldLeft(+, 0, size[t])
  IN CASE s = "cancellation" -> Cancellation(t)
       [] s = "completed" /\ short -> "error"
       [] OTHER -> s

\* What the next submission writes before it is read; the ghosts with it.
Forget(t) ==
  /\ priv' = [priv EXCEPT ![t] = Blank] /\ flags' = [flags EXCEPT ![t] = {}]
  /\ size' = [size EXCEPT ![t] = <<>>] /\ buf' = [buf EXCEPT ![t] = Wiped]
  /\ sent' = [sent EXCEPT ![t] = 0] /\ fault' = [fault EXCEPT ![t] = {}]

Report ==
  /\ handler.op = "report" /\ timing = NoTransfer
  /\ LET t == handler.t IN
       /\ calls' = [calls EXCEPT ![t] = 1 - @]
       /\ app' = [app EXCEPT ![t] = "idle"]
       /\ Forget(t)
  /\ handler' = Poll
  /\ UNCHANGED <<user, timing, pend, done, cut, connected>>

(* POLLERR: op_handle_events, usbi_handle_disconnect.  Whatever is on the  *)
(* flying list when it is looked at is picked, cleared and reported.       *)
Listed(t) == app[t] = "flying" \/ user[t].op = "submit"

PollError ==
  /\ handler = Poll /\ ~connected
  /\ handler' = [op |-> "sweep"]
  /\ UNCHANGED <<priv, flags, size, buf, app, user, timing, kernel, calls>>

Sweep ==
  /\ handler.op = "sweep"
  /\ \/ \E t \in Transfers : Listed(t) /\ handler' = [op |-> "clear", t |-> t]
     \/ (\A t \in Transfers : ~Listed(t)) /\ handler' = [op |-> "gone"]
  /\ UNCHANGED <<priv, flags, size, buf, app, user, timing, kernel, calls>>

ClearPriv ==           \* op_clear_transfer_priv takes the lock of the transfer
  /\ handler.op = "clear" /\ LockFree(handler.t)
  /\ priv' = [priv EXCEPT ![handler.t].urbs = FALSE]
  /\ handler' = [op |-> "swept", t |-> handler.t]
  /\ UNCHANGED <<flags, size, buf, app, user, timing, kernel, calls>>

ReportGone ==
  /\ handler.op = "swept" /\ timing = NoTransfer
  /\ calls' = [calls EXCEPT ![handler.t] = 1 - @]
  /\ app' = [app EXCEPT ![handler.t] = "idle"]
  /\ handler' = [op |-> "sweep"]
  /\ UNCHANGED <<priv, flags, size, buf, user, timing, kernel>>

Application(t) == Submit(t) \/ Cancel(t) \/ Expire(t)
Calls(t) == SubmitUrb(t) \/ FirstUrbFails(t) \/ LaterUrbFails(t) \/ UserDiscards(t)
Handler == \/ HandlerDiscards \/ BulkSurplus \/ BulkNormal \/ IsoCompletion \/ ControlCompletion
           \/ Report \/ PollError \/ Sweep \/ ClearPriv \/ ReportGone

Next ==
  /\ \/ Handler \/ ExpireCancel \/ Disconnect
     \/ \E t \in Transfers : Application(t) \/ Calls(t) \/ UrbCompletes(t)
  /\ UNCHANGED fixed

Fairness ==
  /\ WF_vars(Handler /\ UNCHANGED fixed) /\ WF_vars(ExpireCancel /\ UNCHANGED fixed)
  /\ \A t \in Transfers : WF_vars(Calls(t) /\ UNCHANGED fixed)
Spec == Init /\ [][Next]_vars /\ Fairness
-----------------------------------------------------------------------------
Urbs == [t : Transfers, i : Nat, code : Codes, n : Nat]

TypeOK ==
  /\ [type |-> type, continuation |-> continuation] \in Settings
  /\ priv \in [Transfers -> [urbs : BOOLEAN, n : Nat, retired : Nat, action : Actions,
                             status : Statuses, moved : Nat, off : Nat]]
  /\ \A t \in Transfers : priv[t].retired <= priv[t].n
  /\ flags \in [Transfers -> SUBSET {"timed_out", "cancelling"}]
  /\ size \in [Transfers -> Seq(Nat)] /\ buf \in [Transfers -> [Positions -> Nat]]
  /\ app \in [Transfers -> {"idle", "flying"}]
  /\ \A t \in Transfers : user[t] = Idle \/ user[t].op \in {"submit", "discard"}
  /\ handler.op \in {"poll", "discard", "report", "sweep", "clear", "swept", "gone"}
  /\ timing \in Transfers \cup {NoTransfer}
  /\ pend \in [Transfers -> Seq(Nat)] /\ done \in Seq(Urbs)
  /\ cut \subseteq Transfers /\ connected \in BOOLEAN
  /\ sent \in [Transfers -> Nat] /\ fault \in [Transfers -> SUBSET Faults]
  /\ calls \in [Transfers -> 0 .. 1]

Reaping == handler.op \in {"poll", "discard", "report"}

Ahead(t) == IF user[t].op = "submit" THEN priv[t].n - user[t].i + 1 ELSE 0
AddUp(t) == IF priv[t].urbs THEN priv[t].retired + InKernel(t) + Ahead(t) = priv[t].n ELSE InKernel(t) = 0

(* Nothing disorders the URBs of a transfer: it is not of a type that is    *)
(* discarded by the handler, or the kernel stops the endpoint after a      *)
(* fault, or there has been none since it was submitted.                   *)
Known(t) == priv[t].urbs \/ (handler.op = "report" /\ handler.t = t)
Steady(t) == \/ continuation \/ type[t] \notin {"bulk", "interrupt"}
             \/ fault[t] = {} /\ Known(t)

(* While URBs can be reaped, the URBs of a transfer that are retired, in   *)
(* the kernel and not yet submitted add up: the report waits for the last  *)
(* one and is not missed.  A URB the kernel has belongs to memory that is  *)
(* not given back (usercontext is read from it).  That is not so after a   *)
(* fault on a kernel without bulk continuation.                            *)
UrbsAddUp == Reaping => \A t \in Transfers : priv[t].urbs \/ Steady(t) => AddUp(t)

DataInPlace ==
  handler.op = "report" =>
    LET t == handler.t  p == priv[t] IN
    IF type[t] = "iso"
    THEN handler.st = "completed" => /\ p.off = FoldLeft(+, 0, size[t])
                                     /\ \A k \in 1 .. p.off : buf[t][k] = k
    ELSE Steady(t) => p.moved = sent[t] /\ \A k \in 1 .. p.moved : buf[t][k] = k

(* What has arrived when a transfer is reported lies at the front of the   *)
(* buffer, in order and without a hole, and is all the device has sent;    *)
(* the results of an isochronous transfer that was neither cancelled nor   *)
(* cut short are at the packets they belong to.  (After a fault without    *)
(* bulk continuation, URBs go on behind the hole.)                         *)
NothingLost == TypeOK /\ DataInPlace

(* The status tells of something that happened to this submission.         *)
StatusEarned ==
  handler.op = "report" =>
    LET t == handler.t  s == Final(t, handler.st) IN
    /\ s = "timed_out" => "timed_out" \in flags[t]
    /\ s = "cancelled" => "cancelling" \in flags[t]
    /\ s \in {"stall", "overflow"} => s \in fault[t]
    /\ s = "no_device" => "shutdown" \in fault[t] /\ ~connected
    /\ s = "error" => fault[t] \cap {"proto", "refused"} # {} \/ t \in ShortNotOk

(* Each accepted submission is answered once, for a reason that holds.     *)
Promise == INSTANCE UsbTransfer WITH state <- app, gone <- ~connected
ImplementsTransfer == Promise!Spec

(* A transfer that is cancelled, or has expired, or whose device is gone,  *)
(* comes back to the application, whatever the device does, unless the     *)
(* application keeps the locks busy with ever new submissions.             *)
EndComes ==
  continuation /\ <>[](\A u \in Transfers : user[u].op # "submit") =>
    \A t \in Transfers : app[t] = "flying" /\ (flags[t] # {} \/ ~connected) ~> app[t] = "idle"
-----------------------------------------------------------------------------
(* For the proof: who is being submitted is idle for the application, and  *)
(* URBs are reaped and reported for a transfer in flight.                  *)
Shapes ==
  /\ DOMAIN priv = Transfers /\ \A t \in Transfers : "urbs" \in DOMAIN priv[t]
  /\ DOMAIN user = Transfers /\ \A t \in Transfers : "op" \in DOMAIN user[t]
  /\ "op" \in DOMAIN handler
  /\ app \in [Transfers -> {"idle", "flying"}] /\ connected \in BOOLEAN

Answerable(t) == app[t] = "flying" \/ ~connected

FlyingInv ==
  /\ Shapes
  /\ \A t \in Transfers : user[t].op = "submit" => app[t] = "idle"
  /\ \A t \in Transfers : priv[t].urbs /\ user[t].op # "submit" => Answerable(t)
  /\ handler.op \in {"discard", "report", "clear", "swept"} => "t" \in DOMAIN handler /\ handler.t \in Transfers
  /\ handler.op = "report" => Answerable(handler.t)
  /\ handler.op \in {"sweep", "clear", "swept", "gone"} => ~connected

(* Why a status is earned: what an action, a status and a URB tell of has  *)
(* happened to the submission under way, as long as URBs can be reaped.    *)
Fields ==
  /\ \A t \in Transfers : {"action", "status", "n"} \subseteq DOMAIN priv[t]
  /\ flags \in [Transfers -> SUBSET {"timed_out", "cancelling"}]
  /\ fault \in [Transfers -> SUBSET Faults]
  /\ timing \in Transfers \cup {NoTransfer}
  /\ DOMAIN pend = Transfers /\ \A t \in Transfers : pend[t] \in Seq(Range(pend[t]))
  /\ done \in Seq(Range(done)) /\ \A u \in Range(done) : u.t \in Transfers

ActionEarned(t, p) ==
  /\ p.action \in Actions
  /\ p.action = "cancelled" => "cancelling" \in flags[t]
  /\ p.action = "submit_failed" => "refused" \in fault[t]
  /\ p.action = "error" => "proto" \in fault[t]
  /\ p.action = "early" => type[t] \in {"bulk", "interrupt"}

StatusKnown(t, p) ==
  LET st == p.status IN
  /\ st \in {"completed", "stall", "overflow", "no_device", "error"}
  /\ st \in {"stall", "overflow"} => st \in fault[t]
  /\ st = "no_device" => "shutdown" \in fault[t] /\ ~connected
  /\ st = "error" => fault[t] \cap {"proto", "refused"} # {} \/ p.action = "cancelled"

CodeEarned(u) ==
  /\ u.code \in Codes
  /\ u.code \in Faults => u.code \in fault[u.t]
  /\ u.code = "shutdown" => ~connected
  /\ type[u.t] = "control" => u.code # "remote" /\ (u.code = "cancelled" => "cancelling" \in flags[u.t])

ReportEarned(t, st) ==
  /\ st \in {"by_action", "cancellation", "completed", "cancelled", "stall", "overflow", "no_device", "error"}
  /\ st \in {"cancellation", "cancelled"} => "cancelling" \in flags[t]
  /\ st \in {"stall", "overflow"} => st \in fault[t]
  /\ st = "no_device" => "shutdown" \in fault[t] /\ ~connected
  /\ st = "error" => fault[t] \cap {"proto", "refused"} # {}

InFlight ==
  /\ \A t \in Transfers : priv[t].urbs /\ user[t].op # "submit" => app[t] = "flying"
  /\ handler.op = "report" => app[handler.t] = "flying" /\ ~priv[handler.t].urbs
  /\ handler.op = "discard" => type[handler.t] # "control"
  /\ \A t \in Transfers : user[t].op \in {"submit", "discard"} => priv[t].urbs
  /\ \A t \in Transfers : user[t].op = "submit" => priv[t].action = "normal"
  /\ \A t \in Transfers : user[t].op = "discard" /\ type[t] = "control" => "cancelling" \in flags[t]
  /\ \A t \in Transfers : user[t].op = "submit" /\ type[t] = "control" => user[t].i = 1 /\ priv[t].n = 1

EarnedInv ==
  /\ Fields
  /\ Reaping =>
       /\ InFlight
       /\ \A t \in Transfers : Known(t) => ActionEarned(t, priv[t]) /\ StatusKnown(t, priv[t])
       /\ \A u \in Range(done) : priv[u.t].urbs => CodeEarned(u)
       /\ handler.op = "report" => ReportEarned(handler.t, handler.st)

(* Why the URBs add up.  InOrder holds on every kernel; that URBs come     *)
(* back in their order as long as nothing has failed needs Steady: after a *)
(* fault the kernel with bulk continuation has stopped the endpoint, so    *)
(* that there is nothing for the handler to discard and to disorder.       *)
Highest(t) == IF user[t].op = "submit" THEN user[t].i - 1 ELSE priv[t].n
Discarding(t) == handler.op = "discard" /\ handler.t = t

Ascending(urbs, t) == \A j, k \in UrbsOf(urbs, t) : j < k => urbs[j].i < urbs[k].i

PendInOrder(t) ==
  \A k \in DOMAIN pend[t] : /\ pend[t][k] \in 1 .. Highest(t)
                            /\ \A j \in DOMAIN pend[t] : j < k => pend[t][j] < pend[t][k]

DoneInPlace(t) ==
  \A k \in UrbsOf(done, t) :
    /\ done[k].i \in 1 .. Highest(t)
    /\ done[k].code = "overflow" => done[k].i = priv[t].n
    /\ priv[t].action = "normal" /\ ~Discarding(t) => \A j \in DOMAIN pend[t] : done[k].i < pend[t][j]

Stopped(t) ==
  continuation /\ type[t] \in {"bulk", "interrupt"} =>
    \A k \in UrbsOf(done, t) : done[k].code \in {"remote", "stall", "proto", "overflow"} =>
      pend[t] = <<>> /\ t \in cut

CallsInOrder(t) ==
  /\ {"n", "retired"} \subseteq DOMAIN priv[t] /\ priv[t].n \in Nat /\ priv[t].retired \in Nat
  /\ user[t].op = "submit" => user[t] \in [op : {"submit"}, i : 1 .. priv[t].n] /\ priv[t].retired = 0
  /\ user[t].op = "discard" => priv[t].action # "normal"
  /\ type[t] = "control" /\ priv[t].urbs => priv[t].n = 1 /\ priv[t].retired = 0
  /\ Discarding(t) =>
       /\ user[t] = Idle /\ priv[t].urbs
       /\ {"i", "low"} \subseteq DOMAIN handler /\ handler.i \in Int /\ handler.low \in Int
       /\ \A k \in DOMAIN pend[t] : pend[t][k] \in handler.low .. handler.i

InOrder(t) ==
  /\ CallsInOrder(t) /\ PendInOrder(t) /\ Stopped(t)
  /\ priv[t].urbs => DoneInPlace(t)
  /\ ~priv[t].urbs \/ ~connected => pend[t] = <<>>

DoneInOrder(t) ==
  priv[t].urbs /\ priv[t].action = "normal" => Ascending(done, t) /\ (Discarding(t) => pend[t] = <<>>)

Whole(t) == /\ InOrder(t)
            /\ priv[t].urbs \/ Steady(t) => AddUp(t)
            /\ Steady(t) => DoneInOrder(t)

AddUpInv == Reaping => \A t \in Transfers : Whole(t)
=============================================================================
