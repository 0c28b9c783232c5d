------------------------------- MODULE WinUsb -------------------------------
(***************************************************************************)
(* Transfers of libusbx on Windows (os/windows_usb.c): one open device     *)
(* whose interfaces belong to WinUSB or to the HID driver, an application  *)
(* thread and the thread that handles events.  An interface that a control *)
(* transfer needs is claimed and released behind the application's back.   *)
(*                                                                         *)
(* The application submits a transfer, and again when it has come back;    *)
(* so does its callback.  It may hold the first interface from the         *)
(* beginning.                                                              *)
(* The device stays, and is not reset.  What Windows and the device do     *)
(* (the WinUsb and file functions, the end of an input or output) is a     *)
(* choice.                                                                 *)
(***************************************************************************)
EXTENDS WinPoll

CONSTANTS
  App, Handler,  (* the two threads                                        *)
  Ifaces,        (* interfaces, numbered from 0                            *)
  Settings,      (* pairs of a device, [composite, api, restricted], and   *)
                 (* of those transfers that are control transfers          *)
  Target,        (* the interface of a bulk or interrupt transfer          *)
  Timed,         (* the transfers with a timeout                           *)
  MaxAgain,      (* bound of the submissions that are not the first        *)
  MaxCalls       (* bound of the other calls of the application            *)

Threads == {App, Handler}
Apis == {"winusb", "hid"}
None == -1

ASSUME WinUsbAssumption ==
  /\ App # Handler /\ None \notin Transfers
  /\ Ifaces \subseteq Nat /\ 0 \in Ifaces
  /\ Settings \subseteq
       [composite : BOOLEAN, api : [Ifaces -> Apis], restricted : SUBSET Ifaces] \X SUBSET Transfers
  /\ \A s \in Settings : ~s[1].composite => \A i \in Ifaces : s[1].api[i] = s[1].api[0]
  /\ Timed \subseteq Transfers
  /\ Target \in [Transfers -> Ifaces]
  /\ MaxAgain \in Nat /\ MaxCalls \in Nat

VARIABLES
  dev, control,  (* the device, the control transfers                      *)
  claimed,       (* claimed_interfaces of the handle                       *)
  live,          (* interfaces with a handle (WinUSB) or the flag (HID)    *)
  known,         (* interfaces whose endpoints are known                   *)
  autoclaim_count,
  flying,        (* flying_transfers                                       *)
  fd, iface,     (* of a transfer: pollable_fd, interface_number           *)
  by,            (* the thread that has started it                         *)
  io,            (* its OVERLAPPED                                         *)
  timed_out,     (* transfers flagged USBI_TRANSFER_TIMED_OUT              *)
  pc, cur, use,  (* of a thread: where it is in the submission of which    *)
                 (* transfer, and the interface it has chosen              *)
  pollfds, modify, owner,             (* of the context                    *)
  ev, polled, todo, at,               (* the handler: where it is, ...     *)
  lost, kept,    (* entries, interfaces that refused submissions have left *)
  begun,         (* transfers that were submitted                          *)
  again, calls   (* counted up to their bounds                             *)

claimv == <<claimed, live, known, autoclaim_count>>
transv == <<flying, fd, iface, by, io, timed_out>>
subv   == <<pc, cur, use>>
ctxv   == <<pollfds, modify, owner>>
evv    == <<ev, polled, todo, at>>
boundv == <<dev, control, lost, kept, begun, again, calls>>
vars   == <<pollv, claimv, transv, subv, ctxv, evv, boundv>>

At(th, l) == pc[th] = l
Go(th, l) == pc' = [pc EXCEPT ![th] = l]

Init ==
  /\ \E s \in Settings : dev = s[1] /\ control = s[2]
  /\ PollInit
  /\ claimed \in {{}, {0}} /\ live = claimed /\ known = claimed /\ autoclaim_count = [i \in Ifaces |-> 0]
  /\ flying = {} /\ fd = [x \in Transfers |-> NoFd] /\ iface = [x \in Transfers |-> 0]
  /\ by = [x \in Transfers |-> App] /\ io = [x \in Transfers |-> "none"]
  /\ timed_out = {}
  /\ pc = [th \in Threads |-> "ready"] /\ cur = [th \in Threads |-> None]
  /\ use = [th \in Threads |-> None]
  /\ pollfds = {PipeFd} /\ modify = 0 /\ owner = None
  /\ ev = "gate" /\ polled = {} /\ todo = {} /\ at = None
  /\ lost = {} /\ kept = {} /\ begun = {} /\ again = 0 /\ calls = 0

-----------------------------------------------------------------------------
(* Interfaces                                                              *)

Of(api) == {i \in Ifaces : dev.api[i] = api}

\* get_valid_interface: the first that can be used, None if there is none.
Valid(api) == IF Of(api) \cap live = {} THEN None ELSE Min(Of(api) \cap live)

\* An interface of the HID driver is open as long as the device.
HasHandle(i) == dev.api[i] = "hid" \/ i \in live

\* interface_by_endpoint
HasEndpoint(i) == HasHandle(i) /\ i \in known

\* composite_submit_control_transfer: restricted ones come last.
ControlApi ==
  LET open == Ifaces \ dev.restricted
  IN IF ~dev.composite THEN dev.api[0]
     ELSE dev.api[Min(IF open = {} THEN Ifaces ELSE open)]

\* winusb_claim_interface: the first interface of a device comes along.
Along(i) == IF dev.api[i] = "winusb" /\ ~dev.composite THEN {0, i} ELSE {i}

\* windows_assign_endpoints, for an interface that has just been claimed
Assigned(i, gone) == (known \ gone) \cup {i}

(* What is live after claims of gone have failed.  WinUSB may have its     *)
(* handle, and HID has its flag, if windows_assign_endpoints was what      *)
(* failed; or else HID had its flag already.                               *)
Remains(gone) ==
  LET Handles == {S \in SUBSET UNION {Along(j) : j \in gone} :
                    /\ gone \cap Of("hid") \subseteq S
                    /\ \A j \in S : Along(j) \subseteq S}
  IN {(live \ gone) \cup S : S \in Handles}

(* libusb_claim_interface, windows_claim_interface: what it succeeds or    *)
(* fails with, after it has failed for the interfaces gone.  An interface  *)
(* that is claimed already is left alone.                                  *)
Claims(i, gone) ==
  LET new == i \notin claimed IN
  /\ gone \cap claimed = {} /\ (new => i \notin live \cap Of("hid"))
  /\ claimed' = claimed \cup {i}
  /\ \E rest \in Remains(gone) : live' = rest \cup (IF new THEN Along(i) ELSE {})
  /\ known' = IF new THEN Assigned(i, gone) ELSE known \ gone
ClaimFails(gone) ==
  /\ gone \cap claimed = {}
  /\ live' \in Remains(gone) /\ known' = known \ gone
  /\ UNCHANGED claimed

Pending(i) == {x \in Transfers : io[x] = "pending" /\ iface[x] = i}
Aborted(S) == [x \in Transfers |-> IF x \in S THEN "aborted" ELSE io[x]]

(* libusb_release_interface: what is pending there with WinUSB is aborted. *)
Release(i) ==
  IF i \in claimed /\ i \in live
  THEN /\ claimed' = claimed \ {i} /\ live' = live \ {i}
       /\ io' = IF dev.api[i] = "winusb" THEN Aborted(Pending(i)) ELSE io
  ELSE UNCHANGED <<claimed, live, io>>

ClaimInterface(i) ==
  /\ At(App, "ready") /\ calls < MaxCalls /\ calls' = calls + 1
  /\ Claims(i, {}) \/ ClaimFails({i})
  /\ UNCHANGED <<pollv, autoclaim_count, transv, subv, ctxv, evv, dev, control, lost, kept, begun, again>>

ReleaseInterface(i) ==
  /\ At(App, "ready") /\ i \in claimed
  /\ calls < MaxCalls /\ calls' = calls + 1
  /\ Release(i)
  /\ UNCHANGED <<pollv, known, autoclaim_count, flying, fd, iface, by, timed_out,
                 subv, ctxv, evv, dev, control, lost, kept, begun, again>>

-----------------------------------------------------------------------------
(* libusb_submit_transfer                                                  *)

Api(x) == IF x \in control THEN ControlApi ELSE dev.api[Target[x]]

\* flying_transfers_lock is free: handle_timeouts holds it from one transfer to the next.
ListUnlocked == ev # "expire"

\* add_to_flying_list.  The pollable_fd is the one of the last time.
Submit(th, x) ==
  /\ At(th, "ready") /\ x \notin flying /\ ListUnlocked
  /\ th = App \/ (th = Handler /\ ev = "callback" /\ at = x)
  /\ \/ x \notin begun /\ begun' = begun \cup {x} /\ again' = again
     \/ x \in begun /\ again < MaxAgain /\ again' = again + 1 /\ begun' = begun
  /\ Go(th, "choose") /\ cur' = [cur EXCEPT ![th] = x]
  /\ flying' = flying \cup {x}
  /\ UNCHANGED <<pollv, claimv, fd, iface, by, io, timed_out, use, ctxv, evv, dev, control, lost, kept, calls>>

\* The start of a control transfer: an interface that can be used, or has to be claimed
ChooseControl(th) ==
  LET x == cur[th] IN
  /\ At(th, "choose") /\ x \in control
  /\ fd' = [fd EXCEPT ![x] = NoFd] /\ io' = [io EXCEPT ![x] = "none"]
  /\ use' = [use EXCEPT ![th] = Valid(Api(x))]
  /\ Go(th, IF Valid(Api(x)) = None THEN "auto" ELSE "create")
  /\ UNCHANGED <<pollv, claimv, flying, iface, by, timed_out, cur, ctxv, evv, boundv>>

\* The start of a bulk or interrupt transfer: the interface of its endpoint
ChooseEndpoint(th) ==
  LET x == cur[th] IN
  /\ At(th, "choose") /\ x \notin control
  /\ fd' = [fd EXCEPT ![x] = NoFd] /\ io' = [io EXCEPT ![x] = "none"]
  /\ use' = [use EXCEPT ![th] = Target[x]]
  /\ Go(th, IF HasEndpoint(Target[x]) THEN "create" ELSE "refused")
  /\ UNCHANGED <<pollv, claimv, flying, iface, by, timed_out, cur, ctxv, evv, boundv>>

Counted(i) == [autoclaim_count EXCEPT ![i] = @ + 1]

\* auto_claim, with autoclaim_lock: the first interface that can be claimed
AutoClaim(th) ==
  LET mine == Of(Api(cur[th])) IN
  /\ At(th, "auto")
  /\ \/ \E i \in mine :
          /\ Claims(i, {j \in mine : j < i})
          /\ autoclaim_count' = Counted(i)
          /\ use' = [use EXCEPT ![th] = i]
          /\ Go(th, "create")
     \/ /\ ClaimFails(mine)
        /\ Go(th, "refused")
        /\ UNCHANGED <<autoclaim_count, use>>
  /\ UNCHANGED <<pollv, flying, fd, iface, by, io, timed_out, cur, ctxv, evv, boundv>>

\* usbi_create_fd of the interface's handle.  calloc: the status is zero.
CreateFd(th) ==
  /\ At(th, "create")
  /\ \/ HasHandle(use[th]) /\ Created(cur[th]) /\ Go(th, "start")
     \/ (FreeFds = {} \/ ~HasHandle(use[th])) /\ Go(th, "refused") /\ UNCHANGED poll_fd
  /\ UNCHANGED <<pipe, claimv, transv, cur, use, ctxv, evv, boundv>>

\* The entry that the submission of x has made
Entry(x) == CHOOSE f \in Fds \ lost : poll_fd[f] = x

\* Mutant: a transfer that could not be started keeps its entry.
KeepEntry(x) == poll_fd

DropEntry(x) == Freed(poll_fd, Entry(x))

\* WinUsb_ControlTransfer, WinUsb_ReadPipe, ...: pending, or done at once
Outcomes == {"pending", "sync"}

\* usbi_add_pollfd
Polled(f) == pollfds \cup {f}

Start(th) ==
  LET x == cur[th] IN
  /\ At(th, "start") /\ HasHandle(use[th]) /\ Go(th, "notify")
  /\ \E s \in Outcomes : io' = [io EXCEPT ![x] = s]
  /\ by' = [by EXCEPT ![x] = th]
  /\ fd' = [fd EXCEPT ![x] = Entry(x)] /\ iface' = [iface EXCEPT ![x] = use[th]]
  /\ use' = [use EXCEPT ![th] = None]
  /\ pollfds' = Polled(Entry(x))
  /\ UNCHANGED <<pollv, claimv, flying, timed_out, cur, modify, owner, evv, boundv>>

StartFails(th) ==
  /\ At(th, "start") /\ Go(th, "refused")
  /\ poll_fd' = DropEntry(cur[th])
  /\ UNCHANGED <<pipe, claimv, transv, cur, use, ctxv, evv, boundv>>

(* hid_submit_bulk_transfer: no memory for the report, or more read at     *)
(* once than was asked for.  The entry is not freed.                       *)
StartLeaks(th) ==
  /\ At(th, "start") /\ cur[th] \notin control /\ dev.api[use[th]] = "hid"
  /\ Go(th, "refused")
  /\ lost' = lost \cup {Entry(cur[th])}
  /\ \/ UNCHANGED <<fd, iface>>
     \/ /\ fd' = [fd EXCEPT ![cur[th]] = Entry(cur[th])]
        /\ iface' = [iface EXCEPT ![cur[th]] = use[th]]
  /\ UNCHANGED <<pollv, claimv, flying, by, io, timed_out, cur, use, ctxv, evv, dev, control, kept, begun, again, calls>>

\* libusb_submit_transfer returns an error.
Refused(th) ==
  /\ At(th, "refused") /\ Go(th, "ready") /\ ListUnlocked
  /\ flying' = flying \ {cur[th]}
  /\ cur' = [cur EXCEPT ![th] = None] /\ use' = [use EXCEPT ![th] = None]
  /\ kept' = IF cur[th] \in control THEN kept \cup ({use[th]} \ {None}) ELSE kept
  /\ UNCHANGED <<pollv, claimv, fd, iface, by, io, timed_out, ctxv, evv, dev, control, lost, begun, again, calls>>

(* usbi_fd_notification: interrupt the handler, who is to copy the list of *)
(* descriptors again.  The handler itself writes and reads.                *)
Notify ==
  /\ At(App, "notify") /\ Go(App, "lock")
  /\ modify' = modify + 1 /\ pipe' = Written(pipe)
  /\ UNCHANGED <<poll_fd, claimv, transv, cur, use, pollfds, owner, evv, boundv>>

\* Mutant: pollfd_modify is left as it is.
StillTold(m) == m

Told(m) == m - 1

NotifyLock ==
  /\ At(App, "lock") /\ Go(App, "read")
  /\ owner = None /\ owner' = App
  /\ UNCHANGED <<pollv, claimv, transv, cur, use, pollfds, modify, evv, boundv>>

NotifyRead ==
  /\ At(App, "read") /\ Go(App, "ready")
  /\ pipe.event /\ pipe' = Read(pipe)
  /\ modify' = Told(modify) /\ owner' = None /\ cur' = [cur EXCEPT ![App] = None]
  /\ UNCHANGED <<poll_fd, claimv, transv, use, pollfds, evv, boundv>>

NotifySelf ==
  /\ At(Handler, "notify") /\ Go(Handler, "ready")
  /\ pipe' = Read(Written(pipe)) /\ cur' = [cur EXCEPT ![Handler] = None]
  /\ UNCHANGED <<poll_fd, claimv, transv, use, ctxv, evv, boundv>>

-----------------------------------------------------------------------------
(* libusb_cancel_transfer                                                  *)

\* The lock of x is taken until the handler is to be told.
Submitting(x) == \E th \in Threads : cur[th] = x /\ pc[th] \notin {"notify", "lock", "read"}

(* What a cancellation of x by th aborts.  WinUSB aborts all there is on   *)
(* the endpoint, but no control transfer; CancelIo what this thread has    *)
(* started on the interface.                                               *)
Victims(th, x) ==
  LET api == dev.api[iface[x]] IN
  CASE api = "hid"                     -> {y \in Pending(iface[x]) : by[y] = th}
    [] api = "winusb" /\ x \in control -> {}
    [] OTHER                           -> Pending(iface[x]) \ control

Cancel(x) ==
  /\ At(App, "ready") /\ x \in begun /\ ~Submitting(x)
  /\ calls < MaxCalls /\ calls' = calls + 1
  /\ \E S \in {{}, Victims(App, x)} : io' = Aborted(S)
  /\ UNCHANGED <<pollv, claimv, flying, fd, iface, by, timed_out, subv, ctxv, evv, dev, control, lost, kept, begun, again>>

-----------------------------------------------------------------------------
(* libusb_handle_events, in the thread Handler                             *)

\* libusb_try_lock_events, and the copy of the list
Gate ==
  /\ ev = "gate" /\ ev' = "scan"
  /\ modify = 0 /\ owner = None /\ owner' = Handler
  /\ polled' = pollfds
  /\ UNCHANGED <<pollv, claimv, transv, subv, pollfds, modify, todo, at, boundv>>

\* libusb_unlock_events
Leave == ev' = "gate" /\ owner' = None /\ polled' = {} /\ todo' = {}

Scan ==
  /\ ev = "scan"
  /\ \/ Triggered(polled, io) # {}
        /\ todo' = Triggered(polled, io) \ {PipeFd}
        /\ ev' = "handle" /\ UNCHANGED <<owner, polled>>
     \/ Triggered(polled, io) = {} /\ ~CannotWait(polled)
        /\ ev' = "wait" /\ UNCHANGED <<owner, polled, todo>>
     \/ Triggered(polled, io) = {} /\ CannotWait(polled) /\ Leave
  /\ UNCHANGED <<pollv, claimv, transv, subv, pollfds, modify, at, boundv>>

\* WaitForMultipleObjects reports one.
Wait ==
  /\ ev = "wait" /\ ev' = "handle"
  /\ \E f \in Triggered(polled, io) : todo' = {f} \ {PipeFd}
  /\ UNCHANGED <<pollv, claimv, transv, subv, ctxv, polled, at, boundv>>

\* On the list, with a timeout that has not been handled
Expired == (flying \cap Timed) \ timed_out

\* The wait is over with the next timeout: handle_timeouts takes the lock of the list.
WaitTimesOut ==
  /\ ev = "wait" /\ ev' = "expire"
  /\ at' \in Expired /\ timed_out' = timed_out \cup {at'}
  /\ UNCHANGED <<pollv, claimv, flying, fd, iface, by, io, subv, ctxv, polled, todo, boundv>>

(* It cancels the transfer, for which it needs the transfer's lock, and    *)
(* goes on to the next one, or leaves.                                     *)
Expire ==
  /\ ev = "expire" /\ ~Submitting(at)
  /\ \E S \in {{}, Victims(Handler, at)} : io' = Aborted(S)
  /\ \/ at' \in Expired /\ timed_out' = timed_out \cup {at'} /\ UNCHANGED <<ev, owner, polled, todo>>
     \/ at' = None /\ UNCHANGED timed_out /\ Leave
  /\ UNCHANGED <<pollv, claimv, flying, fd, iface, by, subv, pollfds, modify, boundv>>

\* windows_handle_events: the transfer that a descriptor belongs to
Found(f) == {x \in flying : fd[x] = f}

\* Mutant: the context goes on polling the descriptor.
StillPolled(f) == pollfds

Unpolled(f) == pollfds \ {f}

Handle ==
  /\ ev = "handle"
  /\ \/ todo = {} /\ Leave /\ UNCHANGED <<pollfds, at>>
     \/ \E f \in todo :
          /\ poll_fd[f] \in Found(f)
          /\ at' = poll_fd[f]
          /\ pollfds' = Unpolled(f)
          /\ todo' = todo \ {f}
          /\ ev' = "clear" /\ UNCHANGED <<owner, polled>>
  /\ UNCHANGED <<pollv, claimv, transv, subv, modify, boundv>>

(* It takes another transfer, or none, for the one that has ended: what    *)
(* comes of it is undefined, and left out.                                 *)
HandleAstray ==
  /\ ev = "handle" /\ ev' = "astray"
  /\ \E f \in todo : Found(f) # {poll_fd[f]}
  /\ UNCHANGED <<pollv, claimv, transv, subv, ctxv, polled, todo, at, boundv>>

\* windows_clear_transfer_priv: usbi_free_fd ...
Clear ==
  /\ ev = "clear" /\ ev' = "release"
  /\ poll_fd' = Freed(poll_fd, fd[at])
  /\ io' = [io EXCEPT ![at] = "none"] /\ by' = [by EXCEPT ![at] = App]
  /\ UNCHANGED <<pipe, claimv, flying, fd, iface, timed_out, subv, ctxv, polled, todo, at, boundv>>

Discounted(i) == [autoclaim_count EXCEPT ![i] = IF @ > 0 THEN @ - 1 ELSE 0]

\* ... and auto_release, with autoclaim_lock
AutoRelease ==
  LET i == iface[at] IN
  /\ ev = "release" /\ ev' = "complete"
  /\ autoclaim_count' = Discounted(i)
  /\ IF autoclaim_count[i] = 1 THEN Release(i) ELSE UNCHANGED <<claimed, live, io>>
  /\ UNCHANGED <<pollv, known, flying, fd, iface, by, timed_out, subv, ctxv, polled, todo, at, boundv>>

(* usbi_handle_transfer_completion: off the list, and the callback begins  *)
(* (the flag has no meaning any more) ...                                  *)
Callback ==
  /\ ev = "complete" /\ ev' = "callback"
  /\ flying' = flying \ {at}
  /\ timed_out' = timed_out \ {at}
  /\ UNCHANGED <<pollv, claimv, fd, iface, by, io, subv, ctxv, polled, todo, at, boundv>>

\* ... and ends.
Return ==
  /\ ev = "callback" /\ At(Handler, "ready")
  /\ ev' = "handle" /\ at' = None
  /\ UNCHANGED <<pollv, claimv, transv, subv, ctxv, polled, todo, boundv>>

-----------------------------------------------------------------------------
\* The device, or Windows, ends what is pending.
DeviceAnswers(x) ==
  /\ io[x] = "pending" /\ io' = [io EXCEPT ![x] = "done"]
  /\ UNCHANGED <<pollv, claimv, flying, fd, iface, by, timed_out, subv, ctxv, evv, boundv>>

SubmitStep(th) == \/ ChooseControl(th) \/ ChooseEndpoint(th) \/ AutoClaim(th) \/ CreateFd(th)
                  \/ Start(th) \/ StartFails(th) \/ StartLeaks(th) \/ Refused(th)
AppStep == SubmitStep(App) \/ Notify \/ NotifyLock \/ NotifyRead
HandlerStep == \/ SubmitStep(Handler) \/ NotifySelf
               \/ Gate \/ Scan \/ Wait \/ Expire \/ Handle \/ Clear \/ AutoRelease \/ Callback \/ Return
AppCall == \/ \E x \in Transfers : Submit(App, x) \/ Cancel(x)
           \/ \E i \in Ifaces : ClaimInterface(i) \/ ReleaseInterface(i)

Next == \/ AppStep \/ AppCall \/ HandlerStep \/ WaitTimesOut \/ HandleAstray
        \/ \E x \in Transfers : Submit(Handler, x) \/ DeviceAnswers(x)

Fairness == WF_vars(AppStep) /\ WF_vars(HandlerStep)
Spec == Init /\ [][Next]_vars /\ Fairness
-----------------------------------------------------------------------------
TypeOK ==
  /\ PollTypeOK
  /\ claimed \subseteq Ifaces /\ live \subseteq Ifaces /\ known \subseteq Ifaces
  /\ autoclaim_count \in [Ifaces -> Nat]
  /\ flying \subseteq Transfers /\ fd \in [Transfers -> Fds \cup {NoFd}]
  /\ iface \in [Transfers -> Ifaces] /\ by \in [Transfers -> Threads]
  /\ io \in [Transfers -> {"none", "pending", "sync", "done", "aborted"}]
  /\ timed_out \subseteq Transfers
  /\ cur \in [Threads -> Transfers \cup {None}] /\ use \in [Threads -> Ifaces \cup {None}]
  /\ pollfds \subseteq Fds /\ modify \in 0 .. 1 /\ owner \in Threads \cup {None}
  /\ polled \subseteq Fds /\ todo \subseteq Fds /\ at \in Transfers \cup {None}

\* Transfers that are on the list again and still have the pollable_fd of the last time
Renewed == {cur[th] : th \in {t \in Threads : At(t, "choose")}}

(* What is polled has an entry, and what a poll reports belongs to one     *)
(* transfer on the list, but for those of Renewed: only with them can      *)
(* windows_handle_events complete a transfer that has not ended.  It never *)
(* finds none, and so never returns with open_devs_lock held.              *)
ReportedIsKnown ==
  /\ ev \in {"scan", "wait"} => ~Invalid(polled)
  /\ \A f \in todo : poll_fd[f] \in Found(f) /\ Found(f) \subseteq {poll_fd[f]} \cup Renewed

(* Every entry is polled for a transfer in flight, is on its way there or  *)
(* back, or is one of those that a refused HID transfer has left behind.   *)
NoEntryLeft ==
  \A f \in Fds \ ({PipeFd} \cup lost) : poll_fd[f] # Free => poll_fd[f] \in flying

(* An interface is claimed for control transfers only as long as there is  *)
(* one that needs it, or if one that needed it could not be started.       *)
ClaimIsUsed ==
  \A i \in Ifaces \ kept : autoclaim_count[i] > 0 =>
    \/ \E x \in control \cap flying : iface[x] = i
    \/ \E th \in Threads : use[th] = i

\* Refused and completed transfers leave nothing behind but what StartLeaks does.
NothingLeft == TypeOK /\ NoEntryLeft /\ ClaimIsUsed

(* A thread that reads from the pipe finds its event set: it would wait    *)
(* with the critical section that the next writer needs.                   *)
ReadFindsEvent == At(App, "read") => pipe.event

(* A timeout of a transfer whose submission fails just now: the one waits, *)
(* with the lock of the list, for the lock of the transfer, and the other  *)
(* the other way round.                                                    *)
Embraced == ev = "expire" /\ At(App, "refused") /\ cur[App] = at

(* Whatever has ended is called back, unless the handler has gone astray   *)
(* (see ReportedIsKnown) or waits for the application, which waits for it. *)
AnswerComesBack ==
  \A x \in Transfers :
    x \in flying /\ ~Submitting(x) /\ io[x] # "pending" ~> x \notin flying \/ Embraced \/ ev = "astray"
=============================================================================
