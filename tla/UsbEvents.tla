----------------------------- MODULE UsbEvents -----------------------------
(***************************************************************************)
(* Event handling of libusbx (usb_test/include/io.c, core.c, sync.c).      *)
(* Each thread opens its device, makes one blocking transfer, and closes   *)
(* the device.  All share one context: whoever gets the events lock polls  *)
(* for all, the others sleep until it has something for them, and a thread *)
(* that opens or closes a device interrupts the one that polls.            *)
(*                                                                         *)
(* In mode "plain" the time to the next timeout bounds each wait, in mode  *)
(* "timerfd" a timer wakes the poll and a wait ends after 60 seconds.  A   *)
(* submission of the backend succeeds.  The condition variable is that of  *)
(* pthreads or the one that libusbx makes of events (threads_windows.c).   *)
(***************************************************************************)
EXTENDS Integers, FiniteSets, SequencesExt

CONSTANTS
  Threads, NoThread,
  Settings,      (* the possible modes, conditions and timeouts (0: none), *)
                 (* and bounds of the calls of poll() that fail            *)
  MaxNow         (* bound of the clock                                     *)

ASSUME EventsAssumption ==
  /\ IsFiniteSet(Threads) /\ NoThread \notin Threads
  /\ Settings \subseteq [mode : {"plain", "timerfd"}, cond : {"pthreads", "windows"},
                          limit : [Threads -> Nat], errors : Nat]
  /\ MaxNow \in Nat \ {0}

VARIABLES
  mode, cond, limit,
  pc,            (* where each thread is                                   *)
  owner, depth,  (* events_lock, recursive                                 *)
  active,        (* event_handler_active                                   *)
  modify,        (* pollfd_modify                                          *)
  pipe,          (* bytes in the control pipe                              *)
  waiters,       (* who holds event_waiters_lock                           *)
  sleeping,      (* who waits for event_waiters_cond                       *)
  event,         (* windows: threads whose event is set                    *)
  pollfds,       (* devices whose descriptor is on the list of the context *)
  opened,        (* devices whose descriptor is open                       *)
  polled,        (* the copy of the list that a thread polls               *)
  todo,          (* devices of which poll() has reported something         *)
  wake,          (* end of the wait of a thread; 0: none                   *)
  ret,           (* "ok", "error", "again": result of handle_events so far *)
  io,            (* kernel: "none", "flying", "ready" transfer of a thread *)
  completed,     (* user_data of the transfer                              *)
  flying, due, timed_out, armed,  (* list, timeouts, flags, timerfd        *)
  now,
  errors         (* calls of poll() that may still fail                    *)

lockv  == <<owner, depth, active, modify, pipe>>
condv  == <<waiters, sleeping, event>>
fdv    == <<pollfds, opened, polled, todo>>
timev  == <<flying, due, timed_out, armed>>
callv  == <<wake, ret, io, completed>>
envv   == <<mode, cond, limit, now, errors>>
vars   == <<pc, lockv, condv, fdv, timev, callv, envv>>

At(t, l) == pc[t] = l
Go(t, l) == pc' = [pc EXCEPT ![t] = l]

Init ==
  /\ \E s \in Settings : mode = s.mode /\ cond = s.cond /\ limit = s.limit /\ errors = s.errors
  /\ pc = [t \in Threads |-> "open"]
  /\ owner = NoThread /\ depth = 0 /\ active = FALSE /\ modify = 0 /\ pipe = 0
  /\ waiters = NoThread /\ sleeping = {} /\ event = {}
  /\ pollfds = {} /\ opened = {}
  /\ polled = [t \in Threads |-> {}] /\ todo = [t \in Threads |-> {}]
  /\ wake = [t \in Threads |-> 0] /\ ret = [t \in Threads |-> "ok"]
  /\ io = [t \in Threads |-> "none"] /\ completed = [t \in Threads |-> FALSE]
  /\ flying = <<>> /\ due = [t \in Threads |-> 0] /\ timed_out = {} /\ armed = 0
  /\ now = 1

-----------------------------------------------------------------------------
(* events_lock and event_waiters_lock                                      *)

\* libusb_lock_events
LockEvents(t) ==
  /\ owner \in {NoThread, t}
  /\ owner' = t /\ depth' = depth + 1 /\ active' = TRUE

\* Mutant: the lock is not recursive, the first unlock gives it away.
ReleaseAll(t) == owner' = NoThread /\ depth' = 0

Release(t) == depth' = depth - 1 /\ owner' = IF depth = 1 THEN NoThread ELSE owner

\* libusb_unlock_events, up to the broadcast
UnlockEvents(t) == active' = FALSE /\ Release(t)

(* usbi_cond_broadcast with event_waiters_lock held.  On Windows a waiter  *)
(* takes itself from the list, when it has the lock again.                 *)
Broadcast(t, l) ==
  /\ waiters = NoThread /\ Go(t, l)
  /\ IF cond = "pthreads" THEN sleeping' = {} /\ UNCHANGED event
                          ELSE event' = event \cup sleeping /\ UNCHANGED sleeping
  /\ UNCHANGED <<waiters, lockv, fdv, timev, callv, envv>>

-----------------------------------------------------------------------------
(* Timeouts.  All of these run with flying_transfers_lock held.            *)

Expired(t) == due[t] > 0 /\ due[t] <= now

\* Mutant: a transfer goes behind all those that are flying.
InsertedLast(t, d) == Append(flying, t)

\* add_to_flying_list: before the first that is due later or never.
Inserted(t, d) ==
  LET later == {i \in DOMAIN flying : d > 0 /\ (due[flying[i]] = 0 \/ due[flying[i]] > d)}
  IN InsertAt(flying, Min(later \cup {Len(flying) + 1}), t)

\* list_del of a transfer, which is on the list at most once.
Without(t) ==
  IF Contains(flying, t) THEN RemoveAt(flying, CHOOSE i \in DOMAIN flying : flying[i] = t) ELSE flying

\* First of the flying transfers whose timeout has not been handled.
Waiting(list, handled) == {i \in DOMAIN list : list[i] \notin handled /\ due[list[i]] > 0}
NextDue(list, handled) ==
  IF Waiting(list, handled) = {} THEN 0 ELSE due[list[Min(Waiting(list, handled))]]

\* arm_timerfd_for_next_timeout; the timer is left alone if there is none.
Armed(list, handled) == IF NextDue(list, handled) = 0 THEN armed ELSE NextDue(list, handled)

\* The submission of t holds the lock of the transfer.
Submitting(t) == pc[t] \in {"submit_urb", "arm"}

\* handle_timeouts_locked: the transfers it goes on to, in the list's order.
Overdue ==
  LET late == {i \in DOMAIN flying : flying[i] \notin timed_out /\ ~Expired(flying[i])}
  IN {flying[i] : i \in 1 .. Min(late \cup {Len(flying) + 1}) - 1} \ timed_out

HandleTimeouts ==
  /\ \A t \in Overdue : ~Submitting(t)
  /\ timed_out' = timed_out \cup Overdue
  /\ io' = [t \in Threads |-> IF t \in Overdue /\ io[t] = "flying" THEN "ready" ELSE io[t]]

-----------------------------------------------------------------------------
(* libusb_open, and the notification that libusb_open sends.               *)

Open(t) ==
  /\ At(t, "open") /\ Go(t, "o_modify")
  /\ opened' = opened \cup {t} /\ pollfds' = pollfds \cup {t}
  /\ UNCHANGED <<lockv, condv, polled, todo, timev, callv, envv>>

\* usbi_fd_notification and libusb_close begin alike (o: open, c: close).
Modify(t) ==
  /\ \/ At(t, "o_modify") /\ Go(t, "o_write")
     \/ At(t, "c_modify") /\ Go(t, "c_write")
  /\ modify' = modify + 1
  /\ UNCHANGED <<owner, depth, active, pipe, condv, fdv, timev, callv, envv>>

Write(t) ==
  /\ \/ At(t, "o_write") /\ Go(t, "o_lock")
     \/ At(t, "c_write") /\ Go(t, "c_lock")
  /\ pipe' = pipe + 1
  /\ UNCHANGED <<owner, depth, active, modify, condv, fdv, timev, callv, envv>>

LockToModify(t) ==
  /\ \/ At(t, "o_lock") /\ Go(t, "o_read")
     \/ At(t, "c_lock") /\ Go(t, "c_read")
  /\ LockEvents(t)
  /\ UNCHANGED <<modify, pipe, condv, fdv, timev, callv, envv>>

Read(t) ==
  /\ \/ At(t, "o_read") /\ Go(t, "o_done")
     \/ At(t, "c_read") /\ Go(t, "c_lock2")
  /\ pipe > 0 /\ pipe' = pipe - 1
  /\ UNCHANGED <<owner, depth, active, modify, condv, fdv, timev, callv, envv>>

\* Mutant: a thread that has opened its device does not let the others poll again.
ModifiesOn(t) ==
  /\ \/ At(t, "o_done") /\ Go(t, "o_unlock") /\ UNCHANGED modify
     \/ At(t, "c_done") /\ Go(t, "c_unlock") /\ modify' = modify - 1
  /\ UNCHANGED <<owner, depth, active, pipe, condv, fdv, timev, callv, envv>>

Modified(t) ==
  /\ \/ At(t, "o_done") /\ Go(t, "o_unlock")
     \/ At(t, "c_done") /\ Go(t, "c_unlock")
  /\ modify' = modify - 1
  /\ UNCHANGED <<owner, depth, active, pipe, condv, fdv, timev, callv, envv>>

UnlockModified(t) ==
  /\ \/ At(t, "o_unlock") /\ Go(t, "o_broadcast")
     \/ At(t, "c_unlock") /\ Go(t, "c_broadcast")
  /\ UnlockEvents(t)
  /\ UNCHANGED <<modify, pipe, condv, fdv, timev, callv, envv>>

BroadcastModified(t) == \/ At(t, "o_broadcast") /\ Broadcast(t, "submit")
                        \/ At(t, "c_broadcast") /\ Broadcast(t, "end")

(* do_close, between Read and Modified: the lock is taken once more, and   *)
(* given back before the descriptor is closed.                             *)
CloseLock(t) ==
  /\ At(t, "c_lock2") /\ Go(t, "c_unlock2")
  /\ LockEvents(t)
  /\ flying' = Without(t)
  /\ UNCHANGED <<modify, pipe, condv, fdv, due, timed_out, armed, callv, envv>>

CloseUnlock(t) ==
  /\ At(t, "c_unlock2") /\ Go(t, "c_broadcast2")
  /\ UnlockEvents(t)
  /\ UNCHANGED <<modify, pipe, condv, fdv, timev, callv, envv>>

CloseBroadcast(t) == At(t, "c_broadcast2") /\ Broadcast(t, "c_close")

CloseDevice(t) ==      \* op_close
  /\ At(t, "c_close") /\ Go(t, "c_done")
  /\ pollfds' = pollfds \ {t} /\ opened' = opened \ {t}
  /\ UNCHANGED <<lockv, condv, polled, todo, timev, callv, envv>>

-----------------------------------------------------------------------------
(* libusb_submit_transfer                                                  *)

\* ret keeps whether add_to_flying_list has found t to be the next due.
Submit(t) ==
  /\ At(t, "submit") /\ Go(t, "submit_urb")
  /\ LET d == IF limit[t] = 0 THEN 0 ELSE now + limit[t]
         list == Inserted(t, d)
     IN /\ due' = [due EXCEPT ![t] = d]
        /\ flying' = list
        /\ ret' = [ret EXCEPT ![t] = IF d > 0 /\ list[1] = t THEN "first" ELSE "ok"]
  /\ UNCHANGED <<lockv, condv, fdv, timed_out, armed, wake, io, completed, envv>>

SubmitUrb(t) ==
  /\ At(t, "submit_urb") /\ Go(t, "arm")
  /\ io' = [io EXCEPT ![t] = "flying"]
  /\ UNCHANGED <<lockv, condv, fdv, timev, wake, ret, completed, envv>>

Arm(t) ==
  /\ At(t, "arm") /\ Go(t, "begin")
  /\ armed' = IF mode = "timerfd" /\ ret[t] = "first" THEN due[t] ELSE armed
  /\ ret' = [ret EXCEPT ![t] = "ok"]
  /\ UNCHANGED <<lockv, condv, fdv, flying, due, timed_out, wake, io, completed, envv>>

-----------------------------------------------------------------------------
(* libusb_handle_events_timeout_completed                                  *)

\* get_next_timeout: the wait is bounded, or a timeout is overdue already.
Begin(t) ==
  /\ At(t, "begin")
  /\ LET next == IF mode = "plain" THEN NextDue(flying, timed_out) ELSE 0 IN
       \/ /\ next > 0 /\ next <= now
          /\ HandleTimeouts /\ Go(t, "returned")
          /\ UNCHANGED wake
       \/ /\ next = 0 \/ next > now
          /\ wake' = [wake EXCEPT ![t] = next] /\ Go(t, "gate")
          /\ UNCHANGED <<timed_out, io>>
  /\ UNCHANGED <<lockv, condv, fdv, flying, due, armed, ret, completed, envv>>

GateOpen == modify = 0

\* libusb_try_lock_events: nobody wants to modify the list ...
Gate(t) ==
  /\ At(t, "gate")
  /\ Go(t, IF GateOpen THEN "trylock" ELSE "wait")
  /\ UNCHANGED <<lockv, condv, fdv, timev, callv, envv>>

\* ... and the lock is free.
TryLock(t) ==
  /\ At(t, "trylock")
  /\ \/ owner = NoThread /\ LockEvents(t) /\ Go(t, "locked")
     \/ owner # NoThread /\ Go(t, "wait") /\ UNCHANGED <<owner, depth, active>>
  /\ UNCHANGED <<modify, pipe, condv, fdv, timev, callv, envv>>

\* The copy of the list of descriptors, unless it is done already.
Copy(t) ==
  /\ At(t, "locked")
  /\ \/ completed[t] /\ Go(t, "unlock") /\ UNCHANGED polled
     \/ ~completed[t] /\ Go(t, "poll") /\ polled' = [polled EXCEPT ![t] = pollfds]
  /\ UNCHANGED <<lockv, condv, pollfds, opened, todo, timev, callv, envv>>

Ready(t) == {u \in polled[t] : io[u] = "ready"}
TimerRings == mode = "timerfd" /\ armed > 0 /\ armed <= now

(* In mode timerfd a wait ends after 60 seconds: by then the timeouts are  *)
(* over and nothing else is left to be done.                               *)
AtRest ==
  /\ now = MaxNow
  /\ \A u \in Threads :
       \/ At(u, "end")
       \/ At(u, "asleep") /\ u \in sleeping
       \/ At(u, "poll") /\ pipe = 0 /\ ~TimerRings /\ Ready(u) = {}
       \/ pc[u] \in {"o_lock", "c_lock"} /\ owner \notin {NoThread, u}
TimeIsUp(t) == IF mode = "plain" THEN wake[t] > 0 /\ wake[t] <= now ELSE AtRest

Poll(t) ==
  /\ At(t, "poll")
  /\ pipe > 0 \/ TimerRings \/ Ready(t) # {}
  /\ todo' = [todo EXCEPT ![t] = Ready(t)]
  /\ Go(t, IF TimerRings THEN "rung" ELSE "reap")
  /\ UNCHANGED <<lockv, condv, pollfds, opened, polled, timev, callv, envv>>

PollTimesOut(t) ==
  /\ At(t, "poll") /\ Go(t, "unlock")
  /\ pipe = 0 /\ ~TimerRings /\ Ready(t) = {} /\ TimeIsUp(t)
  /\ HandleTimeouts
  /\ polled' = [polled EXCEPT ![t] = {}]
  /\ UNCHANGED <<lockv, condv, pollfds, opened, todo, flying, due, armed, wake, ret, completed, envv>>

PollFails(t) ==
  /\ At(t, "poll") /\ Go(t, "unlock")
  /\ errors > 0 /\ errors' = errors - 1
  /\ ret' = [ret EXCEPT ![t] = IF @ = "cancelled" THEN "again" ELSE "error"]
  /\ polled' = [polled EXCEPT ![t] = {}]
  /\ UNCHANGED <<lockv, condv, pollfds, opened, todo, timev, wake, io, completed, mode, cond, limit, now>>

\* handle_timerfd_trigger
Disarm(t) ==
  /\ At(t, "rung") /\ Go(t, "handle")
  /\ armed' = 0
  /\ UNCHANGED <<lockv, condv, fdv, flying, due, timed_out, callv, envv>>

HandleRing(t) ==
  /\ At(t, "handle") /\ Go(t, "reap")
  /\ HandleTimeouts
  /\ armed' = Armed(flying, timed_out \cup Overdue)
  /\ UNCHANGED <<lockv, condv, fdv, flying, due, wake, ret, completed, envv>>

\* The backend reaps: the transfer leaves the list, the timer is set anew ...
Reap(t) ==
  /\ At(t, "reap")
  /\ \/ /\ todo[t] = {} /\ Go(t, "unlock")
        /\ polled' = [polled EXCEPT ![t] = {}]
        /\ UNCHANGED <<io, flying, armed>>
     \/ /\ \E u \in todo[t] :
             /\ ~Submitting(u)
             /\ io' = [io EXCEPT ![u] = "none"]
             /\ flying' = Without(u)
             /\ armed' = IF mode = "timerfd" THEN Armed(Without(u), timed_out) ELSE armed
             /\ Go(t, "disarm")
        /\ UNCHANGED polled
  /\ UNCHANGED <<lockv, condv, pollfds, opened, todo, due, timed_out, wake, ret, completed, envv>>

\* ... and, with the lock released, disarmed.  Then the callback.
Complete(t) ==
  /\ \E u \in todo[t] :
       /\ At(t, "disarm") /\ io[u] = "none"
       /\ completed' = [completed EXCEPT ![u] = TRUE]
       /\ todo' = [todo EXCEPT ![t] = @ \ {u}]
  /\ armed' = 0
  /\ Go(t, "broadcast")
  /\ UNCHANGED <<lockv, condv, pollfds, opened, polled, flying, due, timed_out, wake, ret, io, envv>>

BroadcastCompleted(t) == At(t, "broadcast") /\ Broadcast(t, "reap")

Unlock(t) ==
  /\ At(t, "unlock") /\ Go(t, "unlock_broadcast")
  /\ UnlockEvents(t)
  /\ UNCHANGED <<modify, pipe, condv, fdv, timev, callv, envv>>

UnlockBroadcast(t) == At(t, "unlock_broadcast") /\ Broadcast(t, "returned")

(* Another thread polls, or wants to modify the list: look again with the  *)
(* lock of the waiters, and sleep.                                         *)
LockWaiters(t) ==
  /\ At(t, "wait") /\ Go(t, "look")
  /\ waiters = NoThread /\ waiters' = t
  /\ UNCHANGED <<lockv, sleeping, event, fdv, timev, callv, envv>>

\* libusb_event_handler_active
Sleeps(t) == ~completed[t] /\ (modify > 0 \/ active)

Look(t) ==
  /\ At(t, "look")
  /\ \/ Sleeps(t) /\ sleeping' = sleeping \cup {t} /\ Go(t, "asleep")
     \/ ~Sleeps(t) /\ Go(t, IF completed[t] THEN "returned" ELSE "gate") /\ UNCHANGED sleeping
  /\ waiters' = NoThread
  /\ UNCHANGED <<lockv, event, fdv, timev, callv, envv>>

\* pthread_cond_timedwait
Wake(t) ==
  /\ At(t, "asleep") /\ cond = "pthreads" /\ waiters = NoThread
  /\ \/ t \notin sleeping /\ Go(t, "returned") /\ UNCHANGED sleeping
     \/ /\ t \in sleeping /\ TimeIsUp(t)
        /\ sleeping' = sleeping \ {t} /\ Go(t, "overslept")
  /\ UNCHANGED <<lockv, waiters, event, fdv, timev, callv, envv>>

\* usbi_cond_intwait: WaitForSingleObject resets the event.
Waited(t) ==
  /\ At(t, "asleep") /\ cond = "windows"
  /\ \/ t \in event /\ event' = event \ {t} /\ Go(t, "woken")
     \/ t \notin event /\ TimeIsUp(t) /\ Go(t, "late") /\ UNCHANGED event
  /\ UNCHANGED <<lockv, waiters, sleeping, fdv, timev, callv, envv>>

\* An event that is set before the lock is taken again wakes the next wait.
Relock(t) ==
  /\ \/ At(t, "woken") /\ Go(t, "returned")
     \/ At(t, "late") /\ Go(t, "overslept")
  /\ waiters = NoThread /\ sleeping' = sleeping \ {t}
  /\ UNCHANGED <<lockv, waiters, event, fdv, timev, callv, envv>>

Overslept(t) ==
  /\ At(t, "overslept") /\ Go(t, "returned")
  /\ HandleTimeouts
  /\ UNCHANGED <<lockv, condv, fdv, flying, due, armed, wake, ret, completed, envv>>

-----------------------------------------------------------------------------
(* do_sync_bulk_transfer, libusb_control_transfer: the loop around it.     *)

\* Mutant: after an error the transfer is freed without waiting for it.
GivesUpAtOnce(t) == ret[t] \in {"error", "again"}

\* A second error ends the wait for the cancelled transfer.
GivesUp(t) == ret[t] = "again"

Returned(t) ==
  /\ At(t, "returned")
  /\ \/ completed[t] /\ Go(t, "c_modify") /\ UNCHANGED <<io, ret>>
     \/ ~completed[t] /\ GivesUp(t) /\ Go(t, "c_modify") /\ UNCHANGED <<io, ret>>
     \/ /\ ~completed[t] /\ ret[t] = "error" /\ ~GivesUp(t) /\ Go(t, "begin")      \* libusb_cancel_transfer
        /\ io' = [io EXCEPT ![t] = IF @ = "flying" THEN "ready" ELSE @]
        /\ ret' = [ret EXCEPT ![t] = "cancelled"]
     \/ ~completed[t] /\ ret[t] \in {"ok", "cancelled"} /\ Go(t, "begin") /\ UNCHANGED <<io, ret>>
  /\ UNCHANGED <<lockv, condv, fdv, timev, wake, completed, envv>>

DeviceAnswers(t) ==
  /\ io[t] = "flying" /\ io' = [io EXCEPT ![t] = "ready"]
  /\ UNCHANGED <<pc, lockv, condv, fdv, timev, wake, ret, completed, envv>>

Tick ==
  /\ now < MaxNow /\ now' = now + 1
  /\ UNCHANGED <<pc, lockv, condv, fdv, timev, callv, mode, cond, limit, errors>>

Notify(t) == \/ Modify(t) \/ Write(t) \/ LockToModify(t) \/ Read(t) \/ Modified(t)
             \/ UnlockModified(t) \/ BroadcastModified(t)
Close(t) == CloseLock(t) \/ CloseUnlock(t) \/ CloseBroadcast(t) \/ CloseDevice(t)
HandleEvents(t) == \/ Begin(t) \/ Gate(t) \/ TryLock(t) \/ Copy(t) \/ Poll(t) \/ PollTimesOut(t)
                   \/ Disarm(t) \/ HandleRing(t) \/ Reap(t) \/ Complete(t) \/ BroadcastCompleted(t)
                   \/ Unlock(t) \/ UnlockBroadcast(t)
Wait(t) == LockWaiters(t) \/ Look(t) \/ Wake(t) \/ Waited(t) \/ Relock(t) \/ Overslept(t)
Step(t) == \/ Open(t) \/ Notify(t) \/ Close(t) \/ Submit(t) \/ SubmitUrb(t) \/ Arm(t)
           \/ HandleEvents(t) \/ Wait(t) \/ Returned(t)

Next == Tick \/ \E t \in Threads : Step(t) \/ PollFails(t) \/ DeviceAnswers(t)

Fairness == WF_vars(Tick) /\ \A t \in Threads : WF_vars(Step(t))
Spec == Init /\ [][Next]_vars /\ Fairness
-----------------------------------------------------------------------------
(* Where a thread may be: before its transfer, after it, with the lock.     *)
Opening == {"open", "o_modify", "o_write", "o_lock", "o_read", "o_done", "o_unlock",
            "o_broadcast", "submit"}
Closing == {"c_modify", "c_write", "c_lock", "c_read", "c_lock2", "c_unlock2", "c_broadcast2",
            "c_close", "c_done", "c_unlock", "c_broadcast"}
Polling == {"poll", "rung", "handle", "reap", "disarm", "broadcast"}
Holding == {"o_read", "o_done", "o_unlock", "c_read", "c_lock2", "c_unlock2", "c_broadcast2",
            "c_close", "c_done", "c_unlock", "locked", "unlock"} \cup Polling
Labels == Opening \cup Closing \cup Holding \cup
  {"submit_urb", "arm", "begin", "gate", "trylock", "unlock_broadcast", "wait", "look", "asleep",
   "woken", "late", "overslept", "returned", "end"}

TypeOK ==
  /\ \E s \in Settings : /\ mode = s.mode /\ cond = s.cond /\ limit = s.limit
                          /\ errors \in 0 .. s.errors
  /\ pc \in [Threads -> Labels]
  /\ owner \in Threads \cup {NoThread} /\ depth \in 0 .. 2 /\ (depth = 0 <=> owner = NoThread)
  /\ active \in BOOLEAN /\ modify \in 0 .. Cardinality(Threads) /\ pipe \in 0 .. Cardinality(Threads)
  /\ waiters \in Threads \cup {NoThread} /\ sleeping \subseteq Threads
  /\ event \subseteq Threads
  /\ pollfds \subseteq Threads /\ opened \subseteq Threads
  /\ polled \in [Threads -> SUBSET Threads] /\ todo \in [Threads -> SUBSET Threads]
  /\ wake \in [Threads -> Nat]
  /\ ret \in [Threads -> {"ok", "first", "error", "cancelled", "again"}]
  /\ io \in [Threads -> {"none", "flying", "ready"}] /\ completed \in [Threads -> BOOLEAN]
  /\ flying \in Seq(Threads) /\ due \in [Threads -> Nat] /\ timed_out \subseteq Threads
  /\ armed \in Nat /\ now \in 1 .. MaxNow

PolledIsOpen == \A t \in Threads : polled[t] \subseteq opened /\ todo[t] \subseteq opened

FlyingInOrder ==
  \A i, j \in DOMAIN flying : i < j /\ due[flying[j]] > 0 =>
    due[flying[i]] > 0 /\ due[flying[i]] <= due[flying[j]]

(* No descriptor is closed while a thread polls it or works on what a poll *)
(* has reported of it.                                                     *)
(* The list of flying transfers is in the order of their timeouts.         *)
OpenAndOrdered == TypeOK /\ PolledIsOpen /\ FlyingInOrder

(* A thread frees its transfer and closes the device only when nobody will *)
(* call back any more: the transfer has left the list and the kernel.  The *)
(* one exception is a thread whose wait for a cancelled transfer has ended *)
(* with a second error of poll(): sync.c frees the transfer all the same.  *)
FreedIsAnswered ==
  \A t \in Threads : pc[t] \in Closing \cup {"end"} /\ ret[t] # "again" =>
    io[t] = "none" /\ ~Contains(flying, t)

(* For the proof.  Who holds the events lock, and how often ...            *)
LockInv ==
  \A t \in Threads : /\ owner = t <=> pc[t] \in Holding
                     /\ owner = t => depth = IF At(t, "c_unlock2") THEN 2 ELSE 1

(* ... who counts in pollfd_modify, and whose byte is in the pipe ...      *)
Writing == {"o_lock", "o_read", "c_lock", "c_read"}
Modifying == Writing \cup {"o_write", "o_done", "c_write", "c_lock2", "c_unlock2", "c_broadcast2",
                           "c_close", "c_done"}
CountInv ==
  /\ modify = Cardinality({t \in Threads : pc[t] \in Modifying})
  /\ pipe = Cardinality({t \in Threads : pc[t] \in Writing})

(* ... what is polled, only with the lock ...                              *)
PollInv ==
  /\ pollfds \subseteq opened
  /\ \A t \in Threads : /\ polled[t] # {} => pc[t] \in Polling
                        /\ todo[t] \subseteq polled[t]
                        /\ todo[t] # {} => ~At(t, "poll")

(* ... and where a transfer is, from its submission to its callback.       *)
Fresh(t) == pc[t] \in Opening \cup {"submit_urb"}
OnceOnList == \A i, j \in DOMAIN flying : flying[i] = flying[j] => i = j
AnswerInv ==
  /\ OnceOnList
  /\ \A t \in Threads :
       /\ Fresh(t) => io[t] = "none" /\ ~completed[t] /\ \A u \in Threads : t \notin todo[u]
       /\ io[t] = "none" /\ ~At(t, "submit_urb") => ~Contains(flying, t)
       /\ completed[t] => io[t] = "none"
       /\ pc[t] \in Closing \cup {"end"} => completed[t] \/ ret[t] = "again"
EventsInv == /\ TypeOK /\ PolledIsOpen /\ FlyingInOrder
             /\ LockInv /\ CountInv /\ PollInv /\ AnswerInv

AnswerComesBack == \A t \in Threads : io[t] = "ready" ~> At(t, "end")

CloseReturns == \A t \in Threads : At(t, "c_modify") \/ At(t, "o_modify") ~> pc[t] \in {"submit", "end"}

(* A thread whose transfer is finished by the device comes back: in mode   *)
(* "plain" no wait ends by itself, so that no wake-up may be lost, also by *)
(* a condition variable that is made of one event for each thread.         *)
(* A device is opened and closed although other threads wait for transfers *)
(* that never end.                                                         *)
CallsReturn == AnswerComesBack /\ CloseReturns

(* A transfer that is due is dealt with, whoever polls.                    *)
TimeoutComes == \A t \in Threads : Contains(flying, t) /\ Expired(t) ~> ~Contains(flying, t)
=============================================================================
