----------------------------- MODULE UsbDevices -----------------------------
(***************************************************************************)
(* The device objects of a libusbx context (core.c) as the Linux backend   *)
(* (linux_usbfs.c) finds them: enumeration, reference counts, topology,    *)
(* open and close, while devices are plugged in and out.                   *)
(*                                                                         *)
(* A directory of sysfs stands for a place on the bus; `addr' gives the    *)
(* device in it its number, from which libusbx makes the session id.  An   *)
(* object lives in a slot of the heap, and the slot is used again when it  *)
(* is freed: a pointer that is left over finds nothing, or a stranger.     *)
(***************************************************************************)
EXTENDS Integers, Sequences, FiniteSets, SequencesExt

CONSTANTS
  Threads,
  Dirs,      \* entries of /sys/bus/usb/devices
  NoDir,
  Hub,       \* the place that a place is behind; NoDir: a root hub
  Rank,      \* order in which readdir() gives the places
  Port,      \* port number of a place; 0: a root hub
  Sealed,    \* places whose device node the process may not open
  FirstAddr, \* numbers of the devices at the start; 0: place is empty
  MaxAddr,   \* bound: numbers that the kernel gives out, each once
  Slots,     \* bound: objects that are alive at a time
  PathLens,  \* per mode, lengths of the array handed to libusb_get_port_path
  MaxLost,   \* bound: lists that libusb_get_port_path leaves behind
  Systems,   \* where a system has its device nodes, and what is in sysfs
  Goals,     \* per mode, what the threads call libusb_get_device_list for
  Serial     \* the application does not enumerate and drop devices at once

NoObj == 0
Objs == 1 .. Slots
Free == [session |-> 0, dir |-> NoDir, refcnt |-> 0, parent |-> NoObj, port |-> 0]

Occupied == {d \in Dirs : FirstAddr[d] # 0}

ASSUME TreeAssumption ==
  /\ NoDir \notin Dirs /\ Sealed \subseteq Dirs /\ Serial \in BOOLEAN
  /\ IsFiniteSet(Threads) /\ IsFiniteSet(Dirs) /\ Slots \in Nat /\ MaxAddr \in Nat
  /\ Hub \in [Dirs -> Dirs \cup {NoDir}] /\ Port \in [Dirs -> Nat] /\ Rank \in [Dirs -> Nat]
  /\ \A d \in Dirs : (Port[d] = 0) <=> (Hub[d] = NoDir)
  /\ Goals \in [{"sysfs", "nodes", "usbfs", "names"} -> [Threads -> SUBSET {"list", "path", "vid_pid"}]]
  \* Bound: a device is behind two hubs at most.
  /\ \A d \in Dirs : Hub[d] # NoDir /\ Hub[Hub[d]] # NoDir => Hub[Hub[Hub[d]]] = NoDir
  /\ FirstAddr \in [Dirs -> 0 .. MaxAddr] /\ Cardinality(Occupied) <= MaxAddr
  /\ \A d \in Occupied : FirstAddr[d] <= Cardinality(Occupied) /\ \A e \in Dirs : FirstAddr[d] = FirstAddr[e] => d = e
  /\ Dirs # {} /\ \A d \in Dirs : Hub[d] = NoDir => d \in Occupied
  /\ \A d \in Occupied : Hub[d] \in Occupied \cup {NoDir}

VARIABLES
  mode,      (* what op_init has found: see Mode                          *)
  addr,      (* number of the device in each place; 0: none               *)
  next_addr,
  heap,      (* struct libusb_device                                      *)
  usb_devs,  (* ctx->usb_devs, its head first                             *)
  pc,
  goal,      (* who calls libusb_get_device_list: "list", "path", "vid_pid" *)
  buses,     (* directories of usbfs yet to be opened                     *)
  todo,      (* directory entries yet to be read, <<place, number>>       *)
  there,     (* devices attached ever since the directory was opened      *)
  entry,     (* the entry that is being enumerated                        *)
  dev,       (* dev of enumerate_device                                   *)
  discdevs,  (* devices discovered so far                                 *)
  r,         (* the enumeration has succeeded so far                      *)
  list,      (* the list that the application has                         *)
  drop,      (* references that the thread is giving up                   *)
  handle,    (* device of the handle that the thread has open             *)
  lost       (* lists that nobody will free                               *)

bus  == <<mode, addr, next_addr>>
objv == <<heap, usb_devs>>
scan == <<buses, todo, entry, dev, r>>
app  == <<goal, list, handle, lost>>
vars == <<bus, objv, scan, app, pc, there, discdevs, drop>>

At(t, l) == pc[t] = l
Go(t, l) == pc' = [pc EXCEPT ![t] = l]

\* Only sysfs names the places, and so tells which device is behind which.
Sysfs == mode \in {"sysfs", "nodes"}

Attached == {<<d, addr[d]>> : d \in {e \in Dirs : addr[e] # 0}}

RootHubs == {d \in Dirs : Hub[d] = NoDir}
Behind(d) == {e \in Dirs : e = d \/ Hub[e] = d \/ (Hub[e] # NoDir /\ Hub[Hub[e]] = d)}

-----------------------------------------------------------------------------
(* op_init                                                                 *)

\* find_usbfs_path: /dev/bus/usb or /proc/bus/usb, else /dev/usbdev*
Usbfs(system) ==
  IF {"/dev/bus/usb", "/proc/bus/usb"} \cap system.nodes # {} THEN "usbfs"
  ELSE IF "/dev/usbdev" \in system.nodes THEN "names" ELSE "none"

\* The files that sysfs has for the root hubs; one of them speaks for all.
CanRelate(system) == \E files \in system.hubs : {"busnum", "devnum", "bConfigurationValue"} \subseteq files
HasDescriptors(system) == CanRelate(system) /\ \E files \in system.hubs : "descriptors" \in files

\* Devices are found in sysfs, with their descriptors ("sysfs") or without
\* ("nodes"), or in usbfs, by directories ("usbfs") or by names ("names").
Mode(system) ==
  IF HasDescriptors(system) THEN "sysfs" ELSE IF CanRelate(system) THEN "nodes" ELSE Usbfs(system)

Init ==
  /\ \E s \in Systems : Usbfs(s) # "none" /\ mode = Mode(s)
  /\ addr = FirstAddr
  /\ next_addr = 1 + Cardinality(Occupied)
  /\ heap = [o \in Objs |-> Free] /\ usb_devs = <<>>
  /\ pc = [t \in Threads |-> "idle"] /\ goal = [t \in Threads |-> "list"]
  /\ buses = [t \in Threads |-> {}] /\ todo = [t \in Threads |-> {}] /\ there = [t \in Threads |-> {}]
  /\ entry = [t \in Threads |-> <<NoDir, 0>>] /\ dev = [t \in Threads |-> NoObj]
  /\ discdevs = [t \in Threads |-> <<>>] /\ r = [t \in Threads |-> FALSE]
  /\ list = [t \in Threads |-> <<>>] /\ drop = [t \in Threads |-> <<>>]
  /\ handle = [t \in Threads |-> NoObj] /\ lost = <<>>

-----------------------------------------------------------------------------
(* The bus.  A root hub is always present (comment at linux_usbfs.c:371).  *)

\* Bound: the bus rests once a list is lost.
Lively == lost = <<>>

Plug(d) ==
  /\ Lively /\ addr[d] = 0 /\ next_addr <= MaxAddr
  /\ Hub[d] # NoDir => addr[Hub[d]] # 0
  /\ addr' = [addr EXCEPT ![d] = next_addr] /\ next_addr' = next_addr + 1
  /\ UNCHANGED <<mode, objv, scan, app, pc, there, discdevs, drop>>

Unplug(d) ==
  /\ Lively /\ addr[d] # 0 /\ Hub[d] # NoDir
  /\ addr' = [e \in Dirs |-> IF e \in Behind(d) THEN 0 ELSE addr[e]]
  /\ there' = [t \in Threads |-> {x \in there[t] : x[1] \notin Behind(d)}]
  /\ UNCHANGED <<mode, next_addr, objv, scan, app, pc, discdevs, drop>>

-----------------------------------------------------------------------------
(* Reference counts                                                        *)

\* libusb_ref_device
Ref(o) == [heap EXCEPT ![o].refcnt = @ + 1]

\* usbi_alloc_device: a new object, with one reference, at the head of the list.
Alloc(o, session, d) ==
  /\ heap' = [heap EXCEPT ![o] = [Free EXCEPT !.session = session, !.dir = d, !.refcnt = 1]]
  /\ usb_devs' = <<o>> \o usb_devs

LastRef(o) == heap[o].refcnt <= 1

\* libusb_unref_device: the count, with dev->lock.
Unref(t) ==
  /\ At(t, "drop") /\ drop[t] # <<>>
  /\ LET o == Head(drop[t])
     IN /\ heap' = [heap EXCEPT ![o].refcnt = @ - 1]
        /\ IF LastRef(o) THEN Go(t, "destroy") /\ UNCHANGED drop
           ELSE drop' = [drop EXCEPT ![t] = Tail(@)] /\ UNCHANGED pc
  /\ UNCHANGED <<bus, usb_devs, scan, app, there, discdevs>>

Positions(o, s) == {i \in DOMAIN s : s[i] = o}

\* list_del
Without(s, o) == IF Positions(o, s) = {} THEN s ELSE RemoveAt(s, CHOOSE i \in Positions(o, s) : TRUE)

\* libusb_unref_device: backend, then usb_devs with its lock, then free().
Destroy(t) ==
  /\ At(t, "destroy") /\ Go(t, "drop")
  /\ LET o == Head(drop[t])
     IN usb_devs' = Without(usb_devs, o) /\ heap' = [heap EXCEPT ![o] = Free]
  /\ drop' = [drop EXCEPT ![t] = Tail(@)]
  /\ UNCHANGED <<bus, scan, app, there, discdevs>>

\* A call returns; what its variables held does not matter any more.
Return(t) ==
  /\ Go(t, "idle") /\ goal' = [goal EXCEPT ![t] = "list"]
  /\ there' = [there EXCEPT ![t] = {}] /\ r' = [r EXCEPT ![t] = FALSE]

\* All references are given up: the enumeration goes on, or the call returns.
Dropped(t) ==
  /\ At(t, "drop") /\ drop[t] = <<>>
  /\ IF entry[t][1] # NoDir
     THEN /\ Go(t, "scan") /\ entry' = [entry EXCEPT ![t] = <<NoDir, 0>>]
          /\ dev' = [dev EXCEPT ![t] = NoObj] /\ UNCHANGED <<goal, there, r>>
     ELSE Return(t) /\ UNCHANGED <<entry, dev>>
  /\ UNCHANGED <<bus, objv, buses, todo, list, handle, lost, discdevs, drop>>

GiveUp(t, refs) == drop' = [drop EXCEPT ![t] = refs] /\ Go(t, "drop")

-----------------------------------------------------------------------------
(* libusb_get_device_list                                                  *)

\* An application whose threads take turns, when Serial.
Alone(t) == Serial => \A u \in Threads \ {t} : pc[u] = "idle"

\* opendir and readdir: the entries as they are now.
GetDeviceList(t, g) ==
  /\ At(t, "idle") /\ Alone(t) /\ Go(t, "scan")
  /\ CASE g = "list" -> list[t] = <<>>
       [] g = "path" -> handle[t] # NoObj
       [] OTHER -> handle[t] = NoObj
  /\ goal' = [goal EXCEPT ![t] = g]
  /\ there' = [there EXCEPT ![t] = Attached]
  /\ buses' = [buses EXCEPT ![t] = IF mode = "usbfs" THEN RootHubs ELSE {}]
  /\ todo' = [todo EXCEPT ![t] = IF mode = "usbfs" THEN {} ELSE Attached]
  /\ r' = [r EXCEPT ![t] = ~Sysfs]
  /\ UNCHANGED <<bus, objv, entry, dev, list, handle, lost, discdevs, drop>>

\* usbfs_scan_busdir: fails unless some device of the bus can be enumerated.
ScanBus(t, b) ==
  /\ At(t, "scan") /\ todo[t] = {} /\ b \in buses[t] /\ r[t]
  /\ buses' = [buses EXCEPT ![t] = @ \ {b}]
  /\ todo' = [todo EXCEPT ![t] = {x \in Attached : x[1] \in Behind(b)}]
  /\ r' = [r EXCEPT ![t] = FALSE]
  /\ UNCHANGED <<bus, objv, entry, dev, app, pc, there, discdevs, drop>>

\* An entry counts: one success is enough, but of /dev/usbdev* the last one counts.
Counted(t, ok) == IF mode = "names" THEN ok ELSE r[t] \/ ok

\* The number of an entry: read from sysfs, or the name of the node.
Number(x) == IF Sysfs THEN addr[x[1]] ELSE x[2]

NextEntry(t) == CHOOSE x \in todo[t] : \A e \in todo[t] : Rank[x[1]] <= Rank[e[1]]

\* Mutant: an entry that cannot be read ends the enumeration.
SkipAll(t, x) ==
  /\ At(t, "scan") /\ x = NextEntry(t) /\ Number(x) = 0
  /\ todo' = [todo EXCEPT ![t] = {}]
  /\ UNCHANGED <<bus, objv, buses, entry, dev, r, app, pc, there, discdevs, drop>>

\* sysfs_scan_device: the device has been unplugged, the entry is skipped.
SkipEntry(t, x) ==
  /\ At(t, "scan") /\ x = NextEntry(t) /\ Number(x) = 0
  /\ todo' = [todo EXCEPT ![t] = @ \ {x}]
  /\ UNCHANGED <<bus, objv, buses, entry, dev, r, app, pc, there, discdevs, drop>>

\* Mutant: only the newest object is looked at.
KnownNewest(session) == {i \in DOMAIN usb_devs \cap {1} : heap[usb_devs[i]].session = session}

\* usbi_get_device_by_session_id, with usb_devs_lock: it stops at the first.
Known(session) == {i \in DOMAIN usb_devs : heap[usb_devs[i]].session = session}

ReadEntry(t, x) ==
  /\ At(t, "scan") /\ x = NextEntry(t) /\ Number(x) # 0
  /\ todo' = [todo EXCEPT ![t] = @ \ {x}]
  /\ entry' = [entry EXCEPT ![t] = <<x[1], Number(x)>>]
  /\ LET known == Known(Number(x))
     IN IF known = {} THEN Go(t, "alloc") /\ UNCHANGED dev
        ELSE /\ Go(t, "append")
             /\ \E i \in known : (\A j \in known : i <= j) /\ dev' = [dev EXCEPT ![t] = usb_devs[i]]
  /\ UNCHANGED <<bus, objv, buses, r, app, there, discdevs, drop>>

NewDevice(t) ==
  /\ At(t, "alloc") /\ Go(t, "initialize")
  /\ \E o \in Objs :
       /\ heap[o] = Free /\ \A q \in Objs : q < o => heap[q] # Free
       /\ Alloc(o, entry[t][2], entry[t][1])
       /\ dev' = [dev EXCEPT ![t] = o]
  /\ UNCHANGED <<bus, buses, todo, entry, r, app, there, discdevs, drop>>

\* The node of a device; its descriptors in sysfs, or read from the node.
Node(session) == {d \in Dirs \ Sealed : addr[d] = session}
Readable(d, session) == IF mode = "sysfs" THEN addr[d] # 0 ELSE d \in Node(session)

\* initialize_device and usbi_sanitize_device
Initialize(t) ==
  /\ At(t, "initialize")
  /\ IF Readable(entry[t][1], entry[t][2])
     THEN Go(t, "append_new") /\ UNCHANGED <<drop, r>>
     ELSE GiveUp(t, <<dev[t]>>) /\ r' = [r EXCEPT ![t] = Counted(t, FALSE)]
  /\ UNCHANGED <<bus, objv, buses, todo, entry, dev, app, there, discdevs>>

\* Mutant: the list takes over the reference of usbi_alloc_device.
AppendTakesOver(t) ==
  /\ discdevs' = [discdevs EXCEPT ![t] = Append(@, dev[t])]
  /\ heap' = IF At(t, "append") THEN Ref(dev[t]) ELSE heap

\* discovered_devs_append
AppendRef(t) ==
  /\ discdevs' = [discdevs EXCEPT ![t] = Append(@, dev[t])]
  /\ heap' = Ref(dev[t])

\* enumerate_device gives up the reference that usbi_alloc_device has made.
AppendDevice(t) ==
  /\ pc[t] \in {"append", "append_new"} /\ AppendRef(t)
  /\ r' = [r EXCEPT ![t] = Counted(t, TRUE)]
  /\ GiveUp(t, IF At(t, "append_new") THEN <<dev[t]>> ELSE <<>>)
  /\ UNCHANGED <<bus, usb_devs, buses, todo, entry, dev, app, there>>

\* Mutant: only an object without a parent is given one.
ParentOnce(o, devs) == IF heap[o].parent # NoObj THEN {} ELSE
  {p \in ToSet(devs) : heap[p].dir = Hub[heap[o].dir]}

\* The parent of a device, if it has been listed with it.
Parents(o, devs) == {p \in ToSet(devs) : heap[p].dir = Hub[heap[o].dir]}

\* sysfs_analyze_topology: what is not found keeps the parent it had.
Analyzed(devs) ==
  [o \in Objs |->
     IF o \notin ToSet(devs) \/ heap[o].dir \in RootHubs \cup {NoDir} THEN heap[o]
     ELSE [heap[o] EXCEPT !.port = Port[heap[o].dir],
                          !.parent = IF Parents(o, devs) = {} THEN @
                                     ELSE CHOOSE p \in Parents(o, devs) : TRUE]]

\* End of the directory, or of a bus without a device: a failure.
EndScan(t) ==
  /\ At(t, "scan") /\ todo[t] = {} /\ (buses[t] = {} \/ ~r[t])
  /\ heap' = IF Sysfs THEN Analyzed(discdevs[t]) ELSE heap
  /\ buses' = [buses EXCEPT ![t] = {}] /\ Go(t, "deliver")
  /\ UNCHANGED <<bus, usb_devs, todo, entry, dev, r, app, there, discdevs, drop>>

\* The result is handed to the caller.
Deliver(t) ==
  /\ At(t, "deliver") /\ r[t]
  /\ IF goal[t] = "list"
     THEN /\ Return(t) /\ list' = [list EXCEPT ![t] = discdevs[t]]
          /\ discdevs' = [discdevs EXCEPT ![t] = <<>>]
     ELSE Go(t, goal[t]) /\ UNCHANGED <<goal, there, r, list, discdevs>>
  /\ UNCHANGED <<bus, objv, buses, todo, entry, dev, handle, lost, drop>>

\* discovered_devs_free after a failure
Fail(t) ==
  /\ At(t, "deliver") /\ ~r[t]
  /\ GiveUp(t, discdevs[t]) /\ discdevs' = [discdevs EXCEPT ![t] = <<>>]
  /\ UNCHANGED <<bus, objv, scan, app, there>>

-----------------------------------------------------------------------------
(* The other operations of an application                                  *)

\* libusb_free_device_list, references included
FreeDeviceList(t) ==
  /\ At(t, "idle") /\ Alone(t) /\ list[t] # <<>>
  /\ GiveUp(t, list[t]) /\ list' = [list EXCEPT ![t] = <<>>]
  /\ UNCHANGED <<bus, objv, scan, goal, handle, lost, there, discdevs>>

\* libusb_open: the backend opens the node of the number.
OpenDevice(t, o) ==
  /\ Node(heap[o].session) # {}
  /\ heap' = Ref(o) /\ handle' = [handle EXCEPT ![t] = o]

Open(t) ==
  /\ At(t, "idle") /\ handle[t] = NoObj
  /\ \E o \in ToSet(list[t]) : OpenDevice(t, o)
  /\ UNCHANGED <<bus, usb_devs, scan, goal, list, lost, pc, there, discdevs, drop>>

\* op_get_device_descriptor: the file of sysfs goes with the device, the copy does not.
HasDescriptor(o) == mode = "sysfs" => addr[heap[o].dir] # 0

\* libusb_open_device_with_vid_pid: a descriptor that cannot be read ends the search.
FindAndOpen(t) ==
  /\ At(t, "vid_pid")
  /\ \/ \E i \in DOMAIN discdevs[t] :
          /\ \A j \in 1 .. i : HasDescriptor(discdevs[t][j])
          /\ OpenDevice(t, discdevs[t][i])
     \/ UNCHANGED <<heap, handle>>
  /\ GiveUp(t, discdevs[t]) /\ discdevs' = [discdevs EXCEPT ![t] = <<>>]
  /\ UNCHANGED <<bus, usb_devs, scan, goal, list, lost, there>>

\* libusb_close: do_close gives up the reference of the handle.
Close(t) ==
  /\ At(t, "idle") /\ Alone(t) /\ handle[t] # NoObj
  /\ GiveUp(t, <<handle[t]>>) /\ handle' = [handle EXCEPT ![t] = NoObj]
  /\ UNCHANGED <<bus, objv, scan, goal, list, lost, there, discdevs>>

\* The devices from o to the root hub.  Memory that was freed reads as zero.
Way(o) ==
  LET up[n \in 1 .. Cardinality(Dirs)] ==
        LET p == IF n = 1 THEN o ELSE IF up[n - 1] = NoObj THEN NoObj ELSE heap[up[n - 1]].parent
        IN IF p = NoObj \/ heap[p].port = 0 THEN NoObj ELSE p
      length == Cardinality({n \in DOMAIN up : up[n] # NoObj})
  IN [n \in 1 .. length |-> up[n]]

\* libusb_get_port_path: with too short an array it returns without its list.
GetPortPath(t, len) ==
  /\ At(t, "path") /\ discdevs' = [discdevs EXCEPT ![t] = <<>>]
  /\ IF Len(Way(handle[t])) > len
     THEN /\ Len(lost) < MaxLost /\ lost' = Append(lost, discdevs[t])
          /\ Return(t) /\ UNCHANGED drop
     ELSE GiveUp(t, discdevs[t]) /\ UNCHANGED <<goal, there, r, lost>>
  /\ UNCHANGED <<bus, objv, buses, todo, entry, dev, list, handle>>

Step(t) ==
  \/ \E b \in RootHubs : ScanBus(t, b)
  \/ \E x \in todo[t] : SkipEntry(t, x) \/ ReadEntry(t, x)
  \/ NewDevice(t) \/ Initialize(t) \/ AppendDevice(t)
  \/ EndScan(t) \/ Deliver(t) \/ Fail(t)
  \/ Unref(t) \/ Destroy(t) \/ Dropped(t)
  \/ FindAndOpen(t) \/ \E len \in PathLens[mode] : GetPortPath(t, len)

Call(t) ==
  \/ \E g \in Goals[mode][t] : GetDeviceList(t, g)
  \/ FreeDeviceList(t) \/ Open(t) \/ Close(t)

Next ==
  \/ \E d \in Dirs : Plug(d) \/ Unplug(d)
  \/ \E t \in Threads : Call(t) \/ Step(t)

Spec == Init /\ [][Next]_vars /\ \A t \in Threads : WF_vars(Step(t))
-----------------------------------------------------------------------------
(* Properties                                                              *)

TypeOK ==
  /\ mode \in {"sysfs", "nodes", "usbfs", "names"} /\ addr \in [Dirs -> 0 .. MaxAddr] /\ next_addr \in 1 .. MaxAddr + 1
  /\ heap \in [Objs -> [session : 0 .. MaxAddr, dir : Dirs \cup {NoDir}, refcnt : Nat,
                         parent : Objs \cup {NoObj}, port : Nat]]
  /\ usb_devs \in Seq(Objs)
  /\ pc \in [Threads -> {"idle", "scan", "alloc", "initialize", "append", "append_new",
                          "deliver", "drop", "destroy", "path", "vid_pid"}]
  /\ goal \in [Threads -> {"list", "path", "vid_pid"}]
  /\ buses \in [Threads -> SUBSET Dirs] /\ entry \in [Threads -> (Dirs \X (1 .. MaxAddr)) \cup {<<NoDir, 0>>}]
  /\ todo \in [Threads -> SUBSET (Dirs \X (1 .. MaxAddr))] /\ there \in [Threads -> SUBSET (Dirs \X (1 .. MaxAddr))]
  /\ dev \in [Threads -> Objs \cup {NoObj}] /\ handle \in [Threads -> Objs \cup {NoObj}]
  /\ discdevs \in [Threads -> Seq(Objs)] /\ list \in [Threads -> Seq(Objs)] /\ drop \in [Threads -> Seq(Objs)]
  /\ r \in [Threads -> BOOLEAN] /\ lost \in Seq(Seq(Objs))

Times(o, s) == Cardinality(Positions(o, s))

\* Where o is in the sequence s of x, and where thread t has references to o.
Places(kind, x, s, o) == {<<kind, x, i>> : i \in Positions(o, s)}
GivingUp(t) == IF At(t, "destroy") THEN Tail(drop[t]) ELSE drop[t]
New(t) == IF pc[t] \in {"initialize", "append_new"} THEN <<dev[t]>> ELSE <<>>

RefsOf(t, o) ==
  Places("list", t, list[t], o) \cup Places("found", t, discdevs[t], o) \cup Places("drop", t, GivingUp(t), o)
  \cup Places("handle", t, <<handle[t]>>, o) \cup Places("new", t, New(t), o)
LostRefs(o) == UNION {Places("lost", n, lost[n], o) : n \in DOMAIN lost}

\* The references to o that there are, those of lost lists included.
Held(o) == Cardinality((UNION {RefsOf(t, o) : t \in Threads}) \cup LostRefs(o))

CountsMatch ==
  \A o \in Objs :
    /\ heap[o].refcnt = Held(o)
    /\ Held(o) = 0 /\ heap[o] # Free => \E t \in Threads : At(t, "destroy") /\ Head(drop[t]) = o

HeldIsAlive == \A o \in Objs : Held(o) > 0 => heap[o] # Free /\ Times(o, usb_devs) = 1

\* The reference count of every object is the number of references there are
\* to it, and an object that nobody has a reference to is freed: whatever
\* fails, and whatever is unplugged, on the way through enumerate_device,
\* libusb_open and the lists (core.c:412-414).
\* A device is not freed while a list, a handle or an enumeration has it:
\* "A device is destroyed when its reference count reaches 0" (core.c:413),
\* in a library that is "Thread safe" (core.c:84).
RefsAddUp == TypeOK /\ CountsMatch /\ HeldIsAlive

\* A device on the bus has one object, however many lists and handles name it:
\* the handles on it share what the backend keeps about the device.
OneObjectPerDevice ==
  \A i, j \in DOMAIN usb_devs : heap[usb_devs[i]].session = heap[usb_devs[j]].session => i = j

\* A list has every device that was attached all the time it was made and can
\* be read, once, whatever happens to others meanwhile; with sysfs the root
\* hubs are enough for the enumeration to succeed.
ListIsComplete ==
  \A t \in Threads : At(t, "deliver") =>
    /\ mode = "sysfs" => r[t]
    /\ r[t] => \A x \in there[t] :
         Readable(x[1], x[2]) => \E i \in DOMAIN discdevs[t] : heap[discdevs[t][i]].session = x[2]
    /\ \A i, j \in DOMAIN discdevs[t] : discdevs[t][i] = discdevs[t][j] => i = j

\* The ports from a place up to its root hub.
Ports(d) == LET h == Hub[d] IN
  IF h = NoDir THEN <<>> ELSE IF Hub[h] = NoDir THEN <<Port[d]>> ELSE <<Port[d], Port[h]>>

\* libusb_get_port_path of an open device that is still connected follows
\* devices that are alive, and gives the ports of the way there, although
\* nobody has a reference to a parent ("The device needs to be open, else the
\* parents may have been destroyed", core.c:688).
PathIsRight ==
  \A t \in Threads :
    LET o == handle[t]
    IN At(t, "path") /\ Sysfs /\ <<heap[o].dir, heap[o].session>> \in there[t]
       => /\ [n \in DOMAIN Way(o) |-> heap[Way(o)[n]].port] = Ports(heap[o].dir)
          /\ \A p \in ToSet(Way(o)) : heap[p].parent \in ToSet(discdevs[t]) /\ heap[heap[p].parent] # Free
=============================================================================
