# TLA+ verification of TestProjects

TestProjects collects programs and experiments, most of them a page long. Two of them
have protocols, threads and failure handling:

- the **hrast server** (`c_projects/logging/hrast.c`, with `hrast_api.h`): it offers the
  API of a switch driver ("the BCM API") to other processes over System V message queues;
- **libusbx** (`c_projects/usb_test/include`): the USB library kept and built with
  `usb_test`, of which the Linux and the Windows parts are modelled here.

This directory holds TLA+ models of both, TLC configurations that check them on small
instances, and TLAPS proofs.

    tlc -config Linkscan.cfg MCHrastLinkscan      # one run
    tlapm HrastLinkscanProofs.tla                 # the proofs of one module

## 1. The system

### hrast: threads, queues, shared variables

```
 clients --- requests ---> [ msqid ] ---> main thread ----+---> BCM API
    ^                          |           (hrast_init)   |
    +------- confirms ---------+               | Callback[], reg_callbacks   (no lock)
                                               |          |
 callback  <-- events, echoes -- [ cbqid ] <-- linkscan thread (BCM, hrast_linkscan_callback)
 threads   --- echo answers ---> [ cbqid ] --> keep-alive thread (hrast_linkscan_keep_alive)
                                               |
 the same again for RSTP packets: rx_Callback[], reg_rx_callbacks, rx_time, [ rxqid ],
 receive thread (BCM), RX keep-alive thread
```

A message carries a Linux type: `HRAST_MSG_TYPE` for the server, the client's pid for a
client. `msgrcv` takes the first message of a type. A header (`struct bcm_msgbuf`) whose
`mtype` is one of the `_E` types is followed by an extension (`struct bcm_extbuf`), a
message of its own under the same Linux type. An extension does not fit the buffer for
a header: `msgrcv` then fails with E2BIG and leaves it where it is.

| Component | State | Operations | Hard behaviour | What makes it correct |
| --- | --- | --- | --- | --- |
| linkscan registration and keep-alive | `Callback[]`, `reg_callbacks`, the handler at the BCM API | init, detach, register, unregister; the sweep that drops clients that do not answer | two threads, no lock; `++`/`--` on a shared counter; the sweep reads an entry, waits for seconds, then clears it | one entry per client; no entry is taken over; the counter and the BCM handler follow the table |
| RSTP receive | `rx_Callback[]`, `reg_rx_callbacks`, `rx_time` | register, unregister, packet handler, sweep | three threads, no lock; unregistering stops reception for everybody | the counter follows the table; a packet reaches every client that stays |
| receiving a message | `m_timout`, `msg_arrived`, two buffers | take, throw away, poll, take the extension | late answers, timeouts, senders between two polls | the confirm is the wanted one, with its own extension; the call ends |
| callback queue | `cbqid`, the state of three kinds of threads | link event, echo, answer, timeout, pull | three senders to one bounded queue; clients die; `msgsnd` blocks | events stay whole; one answer is expected at a time; with room, dead clients go and the BCM thread comes back |
| request loop | `msqid`, `bcm_buf`, `ext_buf`, `shutdown` | receive, dispatch, confirm, remove the queue; restart on the old queue | clients give up and send again; two-part messages of several clients; a full queue; a server that dies between two steps | confirms in whole pairs and to the right request; success means done; every known command is confirmed |
| command handlers | settings (levels, thresholds, `table_entries`) | about 100 commands, one BCM call each | error paths, buffers that outlive a request | the status tells the truth, but for the handlers that lose an error; no data of another request |

### libusbx: contexts, devices, handles, transfers

```
 application threads --- libusb_submit_transfer, libusb_cancel_transfer ---> backend
      |    ^                                                      (usbfs, WinUSB, HID)
      |    +--- callbacks --- whoever holds events_lock: poll, --------------- |
      |                       reap, timeouts (io.c)                       kernel
      |
      +-- libusb_init, _exit         contexts, default context, backend life cycle
      +-- libusb_get_device_list     device objects, references, topology
      +-- libusb_open, _close        handles; interrupts the thread that polls
      +-- libusb_claim_interface, _reset_device, _set_configuration, descriptors
```

| Component | State | Hard behaviour | What makes it correct |
| --- | --- | --- | --- |
| transfers over usbfs (`linux_usbfs.c`, `io.c`) | `linux_transfer_priv`, flags, flying list; URBs in the kernel | one transfer is many URBs that complete while others are being submitted or discarded; timeout, cancel and disconnection at once | no data is lost or out of place; the status has a reason; one callback for each accepted submission; it comes |
| event handling (`io.c`, `sync.c`, `core.c`, `threads_windows.c`) | events lock, waiters, control pipe, copy of the descriptors, timeouts | who polls, who sleeps, who is woken; a device closed while it is polled; a poll that fails | only open devices are polled; memory of a flying transfer is not freed; each call returns; timeouts are noticed |
| devices (`core.c`, `linux_usbfs.c`) | `usb_devs`, reference counts, `parent_dev`, session ids | devices vanish during enumeration; pointers without a reference; several layouts of sysfs and usbfs | the counts add up; one object per device; the list is complete; the path is that of the device |
| contexts (`core.c`) and Windows life cycle (`windows_usb.c`) | default context, counts, semaphore, timer thread | failures at each step of the first initialisation; the last exit against a request for the time | set up while it is used, and not longer unless an exit fails; the clock answers |
| handles and configurations (`core.c`, `linux_usbfs.c`) | `claimed_interfaces`, cached configuration; drivers in the kernel | a reset releases and reclaims without the handle's lock; SETCONFIG and the cache are two steps | claims agree with the kernel; a reset keeps them; the cache is current |
| descriptors (`descriptor.c`) | none | lengths sent by a device steer the parsing | what is read means what the configuration means |
| Windows transfers (`windows_usb.c`, `poll_windows.c`) | table `poll_fd`, flying list, claimed interfaces, automatic claims | descriptors that are used again; claims behind the application's back; a wake-up that is lost or read twice | what is reported is known; nothing is left over; reads find their event; answers come back, unless two locks are taken in both orders |

### The other programs

| Program | State | Hard behaviour |
| --- | --- | --- |
| `moduleTest/module/chardev.c`, `moduleRstp/mod_rstp.c` | `Device_Open`, `Message`, `Message_Ptr` | test and increment of the open count; a writer moves the reader's position |
| `servclient_simple` | descriptors watched by epoll | close on error, accept until EAGAIN |
| `websocket_client/websocket_handler.c` | none: splits a message | multiples of the frame size |
| `perl/socket_proxy.pl` | `%socket_map` | one loop, blocking writes |

The remaining directories are exercises, third-party programs (cJSON, icmpquery),
sequential clients of a library (ODBC, netlink, ssh) and shell, perl and python scripts.
They keep no state from one step to the next, or the state belongs to the library;
`PROJECT.json` lists each with the reason it is not modelled.

## 2. Modules

| Module | Models | Proofs |
| --- | --- | --- |
| `HrastLinkscan` | the table, the main thread's four handlers, the sweep | `HrastLinkscanProofs` |
| `LinkscanRegistry` | what the four commands promise (abstract) | `HrastLinkscanProofs` |
| `HrastRx` | the RX table, its requests, the sweep, the receive handler | `HrastServerProofs` |
| `HrastReceive` | one call of `hrast_sys_msg_receive` | `HrastMessagesProofs` |
| `HrastCallbackQueue` | cbqid, linkscan thread, keep-alive thread, clients | `HrastMessagesProofs` |
| `HrastCommands` | the command table: kind of handler, extended confirms | |
| `HrastServer` | request loop, msqid, clients, restarts (extends `HrastCommands`) | `HrastServerProofs` |
| `UsbTransfer` | what a backend promises for a transfer (abstract) | `LinuxUsbfsProofs` |
| `LinuxUsbfs` | submission, discarding, reaping of URBs | `LinuxUsbfsProofs` |
| `UsbEvents` | locks, waiters, poll, timeouts, open and close, blocking transfers | `UsbEventsProofs` |
| `UsbDevices` | enumeration, references, topology | `UsbDevicesProofs` |
| `UsbContext` | `libusb_init`, `libusb_exit`, the default context | `UsbDevicesProofs` |
| `WinContext` | `windows_init`, `windows_exit`, the clock thread (extends `UsbContext`) | `UsbDevicesProofs` |
| `UsbDescriptors` | the parser and the meaning of a configuration | |
| `UsbHandles` | claims, reset, configurations, reading them (extends `UsbDescriptors`) | `UsbHandlesProofs` |
| `WinPoll` | the table of poll descriptors | `WinUsbProofs` |
| `WinUsb` | transfers on WinUSB, HID and composite devices (extends `WinPoll`) | `WinUsbProofs` |

`MC...` modules give TLC small sets. Definitions marked `Mutant:` are plausible wrong
versions of the definition that follows them; putting one in its place makes the
property it is listed with fail, which shows that the property depends on that code.

### HrastLinkscan and LinkscanRegistry

A step makes at most one access to a shared variable. `m_pc` and `k_pc` say where the
main and the keep-alive thread are; labels are named for the code: `dup_scan` and
`free_scan` are the two loops of `hrast_linkscan_register`, `reg_test` its
`reg_callbacks > 1`, `inc_load`/`inc_store` are `reg_callbacks++`. `Dispatch` is the
main loop calling a handler, `Confirm` its end. The BCM API is external: a call succeeds
or fails, and init, detach and the sweep's unregister may or may not drop the handler.
The outcome of a connectivity check is open (`Check`); the exchange of messages behind
it is HrastCallbackQueue. `keep_alive` is chosen in `Init`, as `hrast_init` creates the
thread only if linkscan is up at boot.

An unregister uses `mparam[1]` as the client has sent it for an index (`Indices`). `Beyond`
stands for every index outside the table, `MAX_CALLBACKS` among them, which register
itself hands out when it fails. What lies there is some other word of the server: it may or
may not be equal to the client's pid, and if it is, it is cleared and the counter goes down
without an entry going. `strayed` is the history of that: it becomes true when such an
unregister is accepted, and false when an init has emptied the table. `CountExactIfSerial`
and `ImplementsRegistry` are claimed until then; an index beyond the table that is refused
is part of what they claim.

`overlap` is a history variable: it becomes true when a handler and a sweep have been
under way at once. `CountExactIfSerial` and `HandlerIfSerial` are claimed until then,
since without a lock they cannot be claimed after. `TableSound` and `EntryNotStolen`
need no such condition: only the main thread fills entries, and the sweep can only make
more of them free.

`LinkscanRegistry` is a registry of seats in which each request gets one answer, and the
answer is true. `ImplementsRegistry` says that a server without a keep-alive thread
implements it: scans, counter and BCM calls amount to one step of the registry each. An
entry counts as taken from `IncStore` on, when the confirm goes out. With the sweep the
refinement cannot hold: it removes clients that have not asked for it.

### HrastRx

The same shape with a third thread: the receive handler of the BCM API (`r_...`), which
sends a packet to each client of the table in turn and reads an entry twice, for its test
and for the message. `there` and `sent` are history: the entries that have been in the
table ever since the loop began, and who got the packet. `withdrawn` becomes true when
`hrast_rx_unregister_rstp` takes the handler away. A register finds the counter negative
only after lost updates: it is then refused (BCM_E_INIT), and so is every later one.
`rx_time` is `0`, "recent" (less than
two seconds ago) or older.

### HrastReceive

The queue holds the messages of the one Linux type the call asks for. Sequence number
and command matter only as "wanted" or "other". Senders may put header and extension
into the queue at any time during the call, not mixing the two parts of different
messages (that they can be mixed is HrastServer's and HrastCallbackQueue's subject).
`forever` is `HRAST_WAIT_FOREWER`, otherwise `m_timout` counts polls down. Each action is
one `msgrcv` with the branch it leads to; `Finish` is the test for a timeout.

### HrastCallbackQueue

`cbq` maps Linux types to sequences, since only the order within a type can be
observed; capacity counts them all together. `l` is the BCM thread in
`hrast_linkscan_callback`, `k` the keep-alive thread, with the pull loop of
`hrast_linkscan_pull_message`. A timeout can happen whenever there is no answer:
`HRAST_LONG_TIMEOUT` polls are not counted. Echo numbers are 1 for the echo being waited
for and 0 for an older one (`Age`), which is all `hrast_sys_msg_receive` compares. The
clients' callback threads are the library outside this repository, modelled from the
message format in `hrast_api.h` and marked external. `QueueWellFormed` is made of
`EventsInPairs` (a header in the queue is `Paired` with its extension, or `Unfinished`: it
is the last one and the linkscan thread is about to send the rest) and `OneAnswerExpected`
(at most one echo or answer is `Current`, the one the keep-alive thread waits for). The
specification is called `QueueSpec`, that of HrastRx `RxSpec` and that of WinContext
`WinSpec`, because one module of proofs extends them together with another model.

### HrastCommands and HrastServer

`Kind` gives every command of `hrast_init`'s switch the way its handler treats the
message: whether `bcm_rv` is set on every path, whether the extension buffer is cleared
and filled, whether the extension of the request is its input, whether it can return
before the BCM call, and whether `bcm_rv` is a value of its own. `Courses` are the ways the
steps of a handler may go (its test of the arguments, the BCM call whose status it keeps,
whatever else it does), and `Outcomes` what the client is told after each. `done` is about
the steps, and not derived from the status: in the handlers named in `Lossy` a step can fail
behind a status of success (section 5). The switch says separately which commands are
confirmed with an extension; `ConfirmFitsHandler` is the assumption, evaluated by TLC, that
the two agree.

HrastServer is the loop of `hrast_init` with `bcm_buf` and `ext_buf`, which live longer
than a request, and clients that send, wait, give up and send again. Data is the set of
requests it came from. `Restart` is the end of a server between any two steps and the
`msgget` of its successor, which finds the old queue with all that is in it. `used`,
`confirmed` and `cut` are history variables.

### UsbTransfer and LinuxUsbfs

`UsbTransfer` is the promise to the application: an accepted submission is answered by
one callback, and one callback too many is possible only while the device goes away.
`LinuxUsbfs` cuts a transfer into URBs, and `user`, `handler` and `timing` say which call
of the application or of the event thread is in which loop. Data are units: `buf` says
which unit the device has put where, and `sent` how many there were, so that
`NothingLost` can compare what is reported with what was sent. `UrbsAddUp` relates
`num_retired` and `num_urbs` to the URBs the kernel has (`InKernel`) and to those the
submission still has before it (`Ahead`). Refused continuations
(`USBFS_URB_BULK_CONTINUATION`) are in `cut`, and a kernel without them is among the
`Settings`. There, a fault lets the URBs behind it go on: what the two properties claim of
the transfer that is reported is claimed while it is `Steady`, that is on a kernel with
continuation, for a transfer that is not divided by size, or as long as no URB has failed. `ImplementsTransfer` instantiates UsbTransfer with `state <- app` and
`gone <- ~connected`.

### UsbEvents

Each thread opens its device, makes one blocking transfer as `sync.c` does, and closes
it, so that every combination of polling, sleeping and interrupting occurs. `owner` and
`depth` are the recursive events lock, `waiters` and `sleeping` the waiters' lock and
condition, `pipe` the control pipe, `polled` the copy of the descriptors that a thread
polls. In mode "plain" the time to the next timeout bounds each wait, in mode "timerfd"
a timer wakes the poll. `cond` chooses between a POSIX condition variable and the one
that `threads_windows.c` makes of events.

### UsbDevices

A directory of sysfs is a place on the bus and `addr` numbers the device in it. `heap`
holds objects in slots that are used again, so that a pointer left over finds nothing or
a stranger. `op_init` chooses `mode` from what it finds: sysfs with descriptors, sysfs
for the topology only, usbfs directories, or usbfs names. With `Serial` the application
does not enumerate and drop devices at once; without it, it may. `Held` counts the
references that lists, handles, enumerations and lost lists have to an object, and
`RefsAddUp` compares that with `refcnt`. `TreeAssumption` bounds the tree to a device
behind two hubs: `Behind` names the places of a bus without recursion. It also says what the
bus does: a device that is there at the start has its hub there too.

### UsbContext and WinContext

`UsbContext` has the steps of `libusb_init` and `libusb_exit` around a backend; `WinContext`
puts `windows_init` and `windows_exit` there, and composes them with the thread behind
`windows_clock_gettime` and the threads that ask it. A failure is possible at every call
that can fail, those for the semaphore included, in `windows_init` and in `windows_exit`. An
exit that cannot get the semaphore returns before it counts: `unbalanced` is the number of
them, and each keeps the backend for ever, as the contexts in `backed` do for a time. After the early end of the default context (section 5) its other user
does nothing more: what it would do is undefined.

### UsbDescriptors and UsbHandles

A configuration is a sequence of descriptors with the few bytes that steer the parser.
`ParseConfiguration` is `parse_configuration` with its callees, `Meaning` is a reference
definition that looks at the whole sequence; that both agree on every well-formed
configuration of up to five descriptors is an assumption that TLC evaluates
(`ParserReadsWhatIsMeant`). `UsbHandles` adds handles, threads and the kernel's account:
`driver` says what each interface is bound to, `claimed` is `claimed_interfaces`.
`op_reset_device` is taken ioctl by ioctl. `config` is what was last given to SETCONFIG: 0 and
-1 both leave the device without a configuration, but only -1 (`Cleared`) empties the cache.
`Known` excepts the time after a 0 from `CacheIsActive` and `ReadIsMeant`. `alone` and `before` are history; `shaken` are
handles whose claims the kernel has taken away by other means.

### WinPoll and WinUsb

`WinPoll` is `poll_fd[]` with `usbi_pipe`, `usbi_create_fd`, `usbi_read`, `usbi_write` and
`usbi_poll`, each under the critical section of its entry and hence one step. `WinUsb` is
the submission, completion and cancellation of transfers on a WinUSB, a HID or a
composite device, with `auto_claim` and `auto_release`. A transfer that has come back is
submitted again by the application or by its callback; it is then on the list with the
`pollable_fd` of the last time until the submission has chosen its interface (`Renewed`).
If `windows_handle_events` finds such a transfer in place of the one that has ended, it
takes over a transfer that has not (`HandleAstray`): what follows is undefined, and the
handler stops there. `flying_transfers_lock` is held by `handle_timeouts` from the first
expired transfer to the last (`ListUnlocked`), and the lock of a transfer by its submission
(`Submitting`). `Remains` says what failed claims leave: a handle if the endpoints could not
be read, and the flag of a HID interface.

## 3. Runs and bounds

| Run | Instance | States | Shows |
| --- | --- | --- | --- |
| `linkscan` | 4 clients, 3 slots, counter in -3..3; with the sweep, or without | 827 000 | `TableSound`, `EntryNotStolen`, `CountExactIfSerial`, `HandlerIfSerial`, `ImplementsRegistry` |
| `rx` | 3 clients, 2 slots, counter in -2..2 | 4 260 000 | `RegistryInStep`, `PacketReachesAll` |
| `receive` | 3 polls, 3 messages | 125 000 | `ConfirmIsWanted`, `ExtensionIsOwn`, `TimedCallReturns` |
| `callback_queue` | 2 clients of which one may die, 2 events, capacity 4 or 12 | 218 000 | `QueueWellFormed` also when the queue fills; with room `DeadIsRemoved`, `CallbackReturns` |
| `server` | 2 clients, 2 requests each; reports and two-part requests with capacity 3; plain ones with capacity 12 and a restart; two-part ones with capacity 2 and a restart | 588 000 | `ConfirmStreamWellFormed`, `AnswerIsOwn`, `OkMeansDone`, `KnownIsConfirmed` |
| `usbfs` | a bulk or interrupt transfer of length 0 or 5 (3 URBs), an isochronous one of 2 or 3 URBs, or two control transfers; with and without bulk continuation | 478 000 | `UrbsAddUp`, `NothingLost`, `StatusEarned`, `ImplementsTransfer`, `EndComes` |
| `usb_events` | 2 threads; plain or timerfd, POSIX or Windows condition, up to two failing polls | 141 000 | `OpenAndOrdered`, `FreedIsAnswered`, `CallsReturn`, `TimeoutComes` |
| `usb_devices` | 2 threads; root hub, hub and device, one of which comes back; three kinds of system | 1 090 000 | `RefsAddUp`, `OneObjectPerDevice`, `ListIsComplete`, `PathIsRight` |
| `usb_devices_race` | the same without turns | | violation: a device is freed while an enumeration hands it out |
| `usb_handles` | 2 threads, 2 handles, 2 interfaces, two devices of two configurations, one failing reset, one SETCONFIG | 1 900 000 | `ClaimsAgree`, `ResetKeepsClaims`, `CacheIsActive`, `ReadIsMeant` |
| `win_usb` | 2 transfers, 3 kinds of device, 2 interfaces, 3 descriptors, one resubmission and one other call | 865 000 | `ReportedIsKnown`, `NothingLeft`, `ReadFindsEvent`, `AnswerComesBack` |
| `win_context` | 3 users, 2 contexts, one failing `libusb_init`, one failing `windows_exit`, one wait for the clock that fails | 419 000 | `BackendBalanced`, `ClockAnswers` |

Why the bounds suffice. *Linkscan*: four clients and three slots give a full table, a
slot that changes hands, and the values 1 and 2 between which `reg_callbacks > 1`
decides; colliding updates move the counter without limit, so states are followed up to
±3, and beside a sweep a full table is reached but not followed further. *RX*: two slots
are one that stays and one that changes during a packet. *Receive*: three messages are an
unwanted one, the wanted one, and one that comes afterwards; three polls let each be
counted down in part. *Callback queue*: two clients are needed for an answer to be taken
for another one's; two events and echoes fill four places with the parts of different
messages, and can never fill twelve. *Server*: two requests per client make the first one
late for the second; three places fill when a client does not fetch its confirms; twelve
hold all that two clients can send and get; a predecessor that dies leaves two places
with the halves of one request. *usbfs*: three URBs are one that has come back, one
that is in trouble and one that is yet to be submitted; the last one is shorter, and length 0
is one empty URB. *Events*: one thread polls, the
other sleeps, opens or closes; the clock has to reach one timeout and pass it. *Devices*:
a device behind a hub is found before or after its parent, and its number or its place
is used again. *Handles*: one reset against one other call, through the same and through
another handle. *Windows*: three descriptors are those of the pipe and two transfers: the
table is full when another one is made; which transfers are control transfers is chosen with
the device (`Settings`); one resubmission (`MaxAgain`) is enough for a stale descriptor. *Contexts*: with three users the first has left
when the last one comes.

`CHECK_DEADLOCK FALSE` is set where the system really may stop: a call that has
returned, a server that has been shut down, a server and clients that all wait for room
in a queue, threads that have made their calls, users that have left, or a bound that
is reached.

### Fairness

- `HrastReceive`: `WF(Receive)`. The caller is a running thread; it polls, or `msgrcv`
  wakes it when a message arrives. Nothing is assumed of the senders.
- `HrastCallbackQueue`: weak fairness of the keep-alive thread, the linkscan thread and
  each client's callback thread. Link events and deaths need not happen. A thread blocked
  in `msgsnd` is continuously enabled only while there is room, so weak fairness does not
  promise it room: `DeadIsRemoved` and `CallbackReturns` are claimed for the capacity that
  has enough for everybody.
- `HrastServer`: weak fairness of the server's thread, between two starts; clients need
  not act at all, and nobody has to restart a server that has died.
- `LinuxUsbfs`: weak fairness of the event thread, of the cancellation after a timeout,
  and of calls the application has begun. Devices need not answer.
- `UsbEvents`: weak fairness of the clock and of each thread; devices need not answer.
- `UsbDevices`: weak fairness of each thread's steps.
- `WinUsb`: weak fairness of the application's call under way and of the event thread.
- `WinContext`: weak fairness of the clock thread and of a request's `SetEvent`; strong
  fairness of `Answered`, since the wait for the answer is on a semaphore that several
  threads compete for, and Windows serves its waiters in turn.

`HrastLinkscan`, `HrastRx` and `UsbHandles` state no fairness: only safety is claimed.

## 4. What is proved

All theorems are about `Spec` (`QueueSpec`, `RxSpec`, `WinSpec`), for all values of the constants that satisfy
the named assumption of the module: any number of clients, slots, threads, transfers,
handles, requests and failures. The bounds of the runs are constants too, so they are no
restriction; `CONSTRAINT`s of the MC modules play no part.

**HrastLinkscanProofs** (`LinkscanAssumption`). `TypeCorrect`, `TableSoundCorrect`,
`EntryNotStolenCorrect`, `CountExact`, `HandlerRegistered`, `RegistryImplemented`: all
five properties of run `linkscan`. That no client has two entries (`OnePerClient`) is not
inductive: a handler about to store an entry must remember what its scans have found.
`RegisterInv` adds that: at `dup_scan` no entry before `m_idx` is the client's, afterwards
none is, and the chosen entry is free. It survives the other thread because that one only
clears entries. For the counter, `SerialInv` says how far `reg_callbacks` is ahead of or
behind the number of entries at each label (as long as `strayed` is false, too) and where the
BCM handler must be there, as long as `overlap` is false. Lemmas on the cardinality of the occupied slots carry the
arithmetic. For the refinement, `RegistryInv` adds what a handler that is about to answer
knows of the seats: each step of the main thread is then shown to be one of the registry
or a stutter.

**HrastMessagesProofs**, on the messages between two processes. About HrastReceive
(`ReceiveAssumption`): `ReceiveTypeCorrect`, `ConfirmIsWantedCorrect`,
`ExtensionIsOwnCorrect`, and `SilenceFailsCorrect` (a call during which nothing arrives
returns -1, which no run checks). `ReceiveInv` adds to the properties `QueuePaired` (an
extended header in the queue is followed by its extension, or is the last one and its
sender still owes it) and `CallInv` (a timed call that is still waiting has polls left;
between the two loops the buffer holds the wanted header, and the next message of the
queue, if there is one, is its extension). About HrastCallbackQueue (`QueueAssumption`):
`QueueWellFormedCorrect`. `QueueInv` adds to `EventsInPairs` and `OneAnswerExpected` what
they rest on: `RoomInv`, with the places of all types of message counted together
(`Queued` is the set of them: a send adds one and a receive removes one), and
`ThreadsInv`, which says that the linkscan thread at `extension` still has the event and
the client of the header it has sent. Three senders share the queue, but only the linkscan
thread sends headers, and whoever takes messages takes the first one of a client, so that
a pair is lost from its head. A new echo is sent only when the last one has been answered
or given up, which makes it an old one (`Age`).

**HrastServerProofs** (the server's assumptions). `AnswerIsOwnCorrect`,
`OkMeansDoneCorrect`, `ConfirmStreamCorrect`. `ServerInv` follows a request through the
server: what `bcm_buf` names, what `ext_buf` may hold at each label of the loop for a
handler of each kind, and that a message under a client's type is of that client.
`OkMeansDone` excepts the commands of `Lossy`, and of all others it rests on what `Courses` and
`Outcomes` say of the handler. It
survives restarts because a new server starts with cleared buffers, whatever the queue
holds. For the stream of confirms, `CountInv` keeps the messages of all types together
within the capacity (`Queued` is the set of their places: a send adds one and a receive
removes one, whatever the lengths of the queues), and `PairsInv` adds to `ConfirmsInPairs`
that an extended confirm is only sent when there is an extension to follow it, and that at
`confirm_ext` the client's part of the queue is empty or ends with the header of that
confirm: the client may have fetched it already, but nobody else has put a message behind
it.

About HrastRx the same module proves `PacketReachesAllCorrect` and
`RegistryInStepCorrect`. `PacketInv`: at every label of the receive loop, the client of
each entry before `r_i` that has been there all along has been sent the packet, the message
at hand is for the entry at `r_i`, and the main thread, whose store could undo this, stores
only in a free entry. For the registry, `RegisterInv` is what a request remembers of its
scans, as in HrastLinkscan, and `SerialInv` speaks of the time before a request has
overlapped a sweep: `CounterInStep` says at each label how far `reg_rx_callbacks` is from
the number of entries, `HandlerInStep` that reception is on as soon as an entry is about to
be stored, unless `hrast_rx_unregister_rstp` has stopped it for everybody (`withdrawn`).

**LinuxUsbfsProofs** (`UsbfsAssumption`). `TransferImplemented` (LinuxUsbfs implements
UsbTransfer), `StatusEarnedCorrect`, `UrbsAddUpCorrect` and `NothingLostCorrect`.
`FlyingInv` relates what the application knows (`app`) to the calls under way: a transfer whose submission has not returned is
idle, and one that has URBs, or is about to be reported, is flying or its device is gone.
`EarnedInv` follows a status from the URB to the callback: the code of each URB that has
come back is a fault of its transfer (`CodeEarned`), what `reap_action` and `reap_status`
hold in `linux_transfer_priv` has a cause (`ActionEarned`, `StatusKnown`), and so has what
is handed to the report (`ReportEarned`). It needs `InFlight`, a sharper form of
`FlyingInv` for the time when URBs can be reaped (`Reaping`), because URBs of an earlier
submission would bring the faults of that one. `UrbsAddUp` is not inductive, because a
completion handler takes the URB with the highest number for the last one: `AddUpInv` says
why it is. `InOrder` holds on every kernel and needs no luck: URBs under way are in their
order, none of a transfer that has been given back, and a URB to be reaped is before those
under way as long as `reap_action` is normal. That URBs are reaped in their order
(`DoneInOrder`) needs `Steady`: what could disorder them is a discard, and before a discard
either `reap_action` has changed or a fault or the end of the device has emptied the
endpoint, so that nothing is left to discard (`Stopped`); without bulk continuation a fault
does not empty it, which is why the property ends there. The steps are cut into what
happens to one transfer and what every other one keeps (`OthersAddUp`); `ReturnAddsUp`
covers completions and disconnection, `EndAddsUp` the three ways a handler ends, and
`AllComeBack` shows that an injective sequence of the lost URBs has all of them. That
a transfer is divided into one URB at least is `SizesDivided`; for an isochronous one it
rests on `IsoDivides`: the fold that counts URBs agrees with the one that fills them, and
every packet is in one. `LoopResults` reads a fold over a sequence as the results after
each element, so that such facts follow by induction over a number (`Inductive`, a least
counterexample), which needs no theorem with an operator for a parameter.

`NothingLost` speaks of the moment of the report only. `TypeInv` and `DataInv`, on top of
`FlyingInv`, `EarnedInv` and `AddUpInv`, say where the data is until then. `Laid` and `Landed` (in
`TypeInv`): URBs lie in the buffer one behind the other, and a URB that has come back
brought no more than fits into its part. `Carried`: what has been moved to the front is an
initial piece of what the device has sent, the URBs to be reaped bring the rest, each a
piece that follows the one before, and all of it lies behind the front and before the
parts of the URBs under way; so the `memmove` of surplus data never overwrites data that is
yet to be reaped. `Gapless`: as long as `reap_action` is normal, the next URB to be reaped
is the one after those retired. `Fitting`: then its data is in place already, which is why
the code need not move it, or nothing more will come. `Quiet`: with bulk continuation no
URB behind one that has stalled brings data, because the code would not move it. `Results`
is the counterpart of all this for isochronous packets. `Returns` says what the kernel's
answers, discards and the end of the device have in common, and `Ends` what the completion
handlers have in common; each conjunct is then shown once for either of them
(`CarriedKept`, `CarriedReaped`, and so on), for the transfer concerned and, in `StepKept`,
for the others. As in `UrbsAddUp` the claim is made of a `Steady` transfer.

**UsbEventsProofs**. `OpenAndOrderedCorrect`, `FreedIsAnsweredCorrect`: the safety properties
of run `usb_events`, for any number of threads, limits and errors of `poll()`.
`EventsInv` adds to them who holds the events lock and how often (`LockInv`), that
`pollfd_modify` and the bytes in the control pipe count the threads that are opening or
closing a device (`CountInv`), that only the holder of the lock polls, and only what is in
the list of descriptors (`PollInv`), and where a transfer is between its submission and
its callback (`AnswerInv`, with `OnceOnList`: no transfer is on the flying list twice, or
one `list_del` would leave it there). A device closes only under the lock, and the one who
polls has it. Lemmas on `Inserted` and `Without` say what they contain and that they keep
the order.

**UsbHandlesProofs**. `ClaimsAgreeCorrect`, `ResetKeepsClaimsCorrect`,
`CacheIsActiveCorrect`, `ReadIsMeantCorrect`: the properties of run `usb_handles`.
`ClaimsInv`: who works on the claims of a handle has its lock; what the second loop of a
reset has passed is bound again if it is marked; nothing is bound to a handle while the
device is away or unconfigured. `AloneInv` says of each interface whether an undisturbed
reset has it released (`Awaits`) or bound. `CacheInv`: a thread at `cache` has the value
it has just set, and is the only one, and what is active follows from what was set last. `ReadInv` follows a thread through the three ways to
the descriptors (cache, file of sysfs, device node): as long as it is alone, the header
and the value it has read are of the configuration it means, and its result is the
parser's answer to that configuration, or a failure if there is none. `ReadIsMeantCorrect`
has a hypothesis: the parser reads each well-formed configuration of the possible devices
as what it means. TLC evaluates that for every stream of up to five descriptors
(`ParserReadsWhatIsMeant`); for all streams it is an induction over the sequence.

**UsbDevicesProofs** (`TreeAssumption`). `RefsAddUpCorrect`, `OneObjectPerDeviceCorrect`,
`ListIsCompleteCorrect`, `PathIsRightCorrect`, for any number of threads, places and
objects, and any tree of at most three levels. All four have the
hypothesis `Serial`, which run `usb_devices_race` shows to be needed: without it
`libusb_unref_device` frees what an enumeration hands out. `RefsInv` says who may be at
work (`Turns`), what a thread has at hand at each label (`AtHandInv`) and what it cannot
have, so that nothing is dropped when it goes on (`EmptyInv`), that the list has each
living object once (`HeapInv`), and that the count is the number of references
(`HeldInv`). The references of a thread are a union of sets of places in its sequences:
`Mine` is the sum of the parts, `Elsewhere` is what all others have, and a step is shown to
move as much in the sum as in the count. `NumbersInv` is that session ids differ
(`Distinct`), with what the lookup before an allocation has seen (`Wanted`). For the list,
`SeenInv` says that a number is given to one place only, and `BusyInv` what an enumeration
knows: what it found there and is still there (`There`), that no place is read twice
(`Once`), and that whatever was there all the time has been listed, or is still to be read
or behind a bus still to be opened (`Complete`).

`PathIsRight` rests on all of these, because nobody but the enumeration under way holds
the parents that `libusb_get_port_path` follows. `PathInv` adds that devices stay attached
no longer than their hubs (`HubsOn`, `Upward`), that the call has a handle all along
(`Meant`) whose device has a node that could be opened (`Opened`), and that from the end of
the directory on whatever has been listed has its port and the parent that has been listed
with it (`Charted`), and a root hub has none (`Rooted`). Then the hubs of a device that
stays connected have been listed too, and `Climb` goes from an object to its parent. That
the loop ends where such a way ends is `WayLeads`: a recursive function, unfolded up to a
least number at which it would differ. The theorem has a second hypothesis,
`HubsReadable`: where sysfs has no descriptors (mode `nodes`) a hub whose node the process
may not open is not listed, and a path behind it would be too short. In mode `sysfs` it is
not needed, and run `usb_devices` makes paths in that mode only.

The same module has `BackendBalancedCorrect` about WinContext. `IInv` has three parts: who
may be where with which context (`ContextsInv`), that the count of the backend is the
number of contexts between `windows_init` and `windows_exit` and of the exits that failed
(`BackendInv`), and where the
clock thread and its events are at each moment of an initialisation or exit (`TimerInv`).

**WinUsbProofs** (`WinUsbAssumption`, `PollAssumption`). `ReportedIsKnownCorrect`,
`NothingLeftCorrect`, `ReadFindsEventCorrect`, for any number of transfers, interfaces and
descriptors. In `WinUsbInv` a transfer is `Running` from the start of its I/O to
`windows_clear_transfer_priv`, and `Starting` just before. `TableInv`: each entry of the
table is the pipe's, or of exactly one such transfer, whose `pollable_fd` it is, or lost.
The descriptor that a cleared or refused transfer still names may be somebody else's by
then, and the transfer be on the list again: `PolledInv` says that the submission has
forgotten that descriptor before it does anything else, so that only the transfers of
`Renewed` can be mistaken for the one that is reported.
`ToldInv` ties the bytes in the pipe to `pollfd_modify`, and `ClaimInv` bounds the automatic
claims by the transfers in flight that use them (`Users`), with what section 5 says of their
count.

**Only model-checked.** Liveness (`TimedCallReturns`, `DeadIsRemoved`, `CallbackReturns`,
`KnownIsConfirmed`, `EndComes`, `CallsReturn`, `TimeoutComes`, `AnswerComesBack`,
`ClockAnswers`, and ENABLED, on which fairness rests), and what `ParseConfiguration`
computes for every input (the hypothesis of `ReadIsMeantCorrect`).

## 5. Where code and comments differ

Run `usb_devices_race` ends in a violation: `libusb_unref_device` (`core.c:898`) takes the
count to zero under one lock and the object from the list under another one, so that two
threads that only list devices can meet a freed object, although the library calls itself
thread safe.

The following was met while modelling. The properties above are stated so that they hold
in spite of it, and the models contain it unless it says here, or section 6 does, that it is
left out.

### hrast

- The sweep clears an entry by its index after the check (`hrast.c:2943`): by then it may
  belong to a client that has not been checked.
- Once a handler has overlapped a sweep, `reg_callbacks` can differ from the number of
  entries for good, and `bcm_linkscan_register` be skipped although it is needed.
- The timeout test (`hrast.c:4848`) asks whether any message has arrived, also one that was
  thrown away: the call returns 0 without a message.
- Header and extension are two calls. Echoes get between the parts of an event
  (`hrast.c:4687`), and other clients' requests between the parts of a request
  (`hrast.c:4827`).
- `msgsnd` waits for room in the one thread that could make some (`hrast.c:2999`).
- The answer to an older echo, thrown away, makes the check that follows a success.
- The pull loop stops at an extension and leaves what is behind it. A confirm with an
  extension that is thrown away leaves the extension, on which the next receive of a
  header fails; a restarted server whose predecessor died between the two parts of a
  request meets E2BIG again and again.
- A server that initialises linkscan late has `cbqid = -1` and no keep-alive thread:
  clients can register and get no event.
- `hrast_linkscan_unregister` uses the index in the request unchecked (`hrast.c:2819`, cleared
  at 2852), and register answers MAX_CALLBACKS when it has failed (2757-2759, 2779): a word
  beyond the table may be cleared and a client be counted off that was never counted.
- A counter that lost updates have made negative locks out every RSTP registration from then
  on (BCM_E_INIT, `hrast.c:4168`).
- Seven handlers report success although a step has failed; `Lossy` names them, and
  `OkMeansDone` excepts them. `hrast_port_interface_mode_set` does nothing for an unknown mode
  (1518-1529). `hrast_port_vlan_info_get` (1251-1257) and `hrast_vlan_show` (3164-3170) end a
  listing at the first error or the end of the buffer; the latter leaks the list on an error
  (3147). `hrast_linkscan_unregister` accepts an index beyond the table (2819).
  `hrast_diag_table_count_get` drops the results of `soc_mem_read` and of the field's reading
  (3581-3589). `hrast_rx_register_rstp` (4198-4209) and `hrast_rx_unregister_rstp`
  (4241-4247) overwrite an error of `bcm_rx_active` and of `bcm_rx_stop`.
- The confirm of `HRAST_BCM_SHUTDOWN` can be removed with the queue before it is read.
- `hrast_rx_unregister_rstp` (`hrast.c:4232`) stops reception for all clients and leaves the
  caller's entry in the table (line 4253 is commented out): until the sweep drops it, it is
  refused as a duplicate. The comment at 4026 says "send callback data to all registered
  clients".
- `rx_time` is reset by the sweep and set by the receive thread: a packet may be handled at
  once, or the next registration have no hold-off.

### libusbx on Linux

- A URB that fails while the rest of its transfer is being submitted is taken for a short
  transfer: a stalled bulk transfer is reported as completed (`linux_usbfs.c:1745`).
- On kernels without bulk continuation, after a stall or the loss of the device, URBs are
  freed while others of the transfer are in the kernel; what follows is left out.
- The disconnection walks the flying list without holding the lock across the report
  (`io.c:2420`, "FIXME: is this still potentially racy?").
- A control transfer that has completed and expires before it is reaped is reported as
  timed out. Isochronous results are stored in the order of reaping.
- Completing a transfer arms the timerfd for the next timeout and disarms it again
  (`io.c:1456-1471`): that timeout is noticed when the poll ends after 60 seconds.
  `calculate_timeout` compares `tv_nsec > 1000000000`, one off.
- The blocking calls of `sync.c` free the transfer after `libusb_handle_events` has failed a
  second time. A failed write to the control pipe leaves no trace but a decremented count.
- The release loop of a reset runs without the handle's lock (`linux_usbfs.c:1462`). A reset
  that fails leaves the marks of interfaces it has lost, and `libusb_claim_interface` then
  returns 0 without claiming.
- `op_set_configuration` frees the cached descriptors for -1 only (`linux_usbfs.c:1357`): after
  configuration 0, which the kernel takes for "none" just the same, the old ones stay and
  `libusb_get_active_config_descriptor` returns them with success.
- `op_set_configuration` has no lock. The cache may be freed while another thread copies it, and
  header and body of a configuration are read separately. (The model sets configurations
  one at a time.)
- `parse_interface` takes any descriptor for an interface; `config->extra` keeps the first
  run of unknown descriptors only.
- `libusb_get_port_path` leaves its list behind on overflow, and follows `parent_dev`
  pointers without a reference. A vanished device makes
  `libusb_open_device_with_vid_pid` return NULL although another one matches. With usbfs
  names the error of the last entry that fails is the result.
- `libusb_init` that fails leaves `usbi_default_context` pointing to freed memory. The first
  user of the default context is not counted (`core.c:1676`): with two users the first
  `libusb_exit` frees it, where the comment at `core.c:306` says that it is destroyed when
  the last one leaves.

### libusbx on Windows

- `auto_claim` increments the count in a branch that its callers never reach
  (`windows_usb.c:676`), so that the second control transfer is not counted and the first
  completion releases the interface under it. An interface the user claims after an
  automatic claim is released with it. A failure after `auto_claim` leaves the claim.
- A transfer that is submitted again is in the flying list with its old descriptor
  (`io.c:1306`; `windows_clear_transfer_priv` does not reset it) before it gets a new one. If
  another transfer has got that descriptor meanwhile, `windows_handle_events` may complete the
  wrong one (`windows_usb.c:2026`). It does not reset `found` between two descriptors either,
  and would return with `open_devs_lock` held if it found none; `ReportedIsKnown` says that this
  does not happen.
- Deadlock: `handle_timeouts` holds `flying_transfers_lock` (`io.c:1818-1826`) while it cancels a
  transfer, for which it takes the transfer's lock (1357). A submission of that transfer that
  fails holds this lock when it takes the other one (1309). `Embraced` is that state, excepted
  in `AnswerComesBack`; TLC reaches it.
- If the endpoints of an interface cannot be read after a successful claim
  (`windows_usb.c:1760-1762`, 568-608), the interface stays claimed by the driver and unclaimed
  for libusbx; with HID it cannot be claimed again until the device is closed.
- `usbi_add_pollfd` running out of memory is ignored.
- Cancelled WinUSB control transfers are not aborted; `AbortPipe` aborts other transfers of
  the endpoint as well, `CancelIo` only those of the calling thread.
- `windows_exit` has no way to fail: without its semaphore it returns before it counts
  (`windows_usb.c:1597-1606`), the context is freed all the same, and the backend with its
  thread stays until the process ends.
- `windows_init` returns with the semaphore held when a library is missing. A first
  initialisation that fails does not undo `init_polling`. Until the clock thread has run,
  the monotonic clock is the time of day; after a retry a late response gives an old time.
- In `threads_windows.c` the event of a broadcast that comes after a wait has timed out
  stays set and ends the thread's next wait at once; callers check their condition again.

## 6. Not modelled

- hrast: what BCM calls compute, the texts of reports, debug prints and syslog; messages
  that are corrupted, `msgsnd` or `msgrcv` failing for lack of memory or by a signal; pids
  that are used again; a restart with the old callback queue; the lost update of `seq++`
  by three threads (`seq++`, `hrast.c:4674`: two messages get one number); several receive calls of one caller after one another
  (HrastServer's clients excepted); the contents of `rxqid`.
- usbfs: transfers that write (their URBs are never short), running out of memory, what
  follows a use of freed memory.
- Events: submissions that the backend refuses, a full control pipe, callbacks of an
  application that has a poll loop of its own.
- Descriptors: strings, configurations that `wTotalLength` cuts off in the middle of a
  descriptor, allocation failures.
- Windows: enumeration (it walks trees of SetupDi and cfgmgr32: what it finds depends on
  Windows far more than on the code); resetting or closing a device with transfers in
  flight; the contents of HID reports; more than one device.
- Darwin and OpenBSD: two more backends, ports to IOKit and ugen(4).
- The other programs of section 1, with the reasons in `PROJECT.json`.

## 7. Plan

1. `WebSocketFrame` (pure: frames against a reference definition at the multiples of the
   frame size) and `CharDev` (two openers, reader against writer: `Device_Open` is tested and
   incremented in two steps, `chardev.c:45`).
2. `HrastCallbackQueue` with restarts on the old queue, registrations during events
   (composition with HrastLinkscan's table), and the race on `seq`.
3. `UsbEvents` with submissions that fail; `WinUsb` with a device that is closed.
4. Proofs: the hypothesis of `ReadIsMeantCorrect`.
