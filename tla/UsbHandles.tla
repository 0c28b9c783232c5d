----------------------------- MODULE UsbHandles -----------------------------
(***************************************************************************)
(* The handles that a process has open on one device, used by several      *)
(* threads: interfaces, configurations and the reset, and reading the      *)
(* descriptors of the active configuration (core.c, descriptor.c, and the  *)
(* ioctls of linux_usbfs.c).                                               *)
(*                                                                         *)
(* The kernel keeps its own account: `driver' tells what each interface is *)
(* bound to, a handle, a driver of the kernel or nothing.                  *)
(***************************************************************************)
EXTENDS UsbDescriptors

CONSTANTS
  Threads, NoThread,
  Handles,
  Uses,       \* the handles that each thread may use
  Kernel,     \* a driver of the kernel
  Unbound,
  LastIface,  \* interfaces are numbered 0 .. LastIface
  Devices,    \* devices: a configuration for each value
  Asks,       \* bound: the configurations that a thread asks for by number;
              \* with Unconfigured among them, it asks for the active one
  Modes,      \* "sysfs", or "cached": descriptors are kept by libusbx
  MaxErrors,  \* bound: resets that fail
  MaxConfigs  \* bound: configurations set

Ifaces == 0 .. LastIface
Unconfigured == 0
Cleared == -1      \* what libusb_set_configuration takes for "no configuration"

ASSUME HandlesAssumption ==
  /\ LastIface \in 0 .. USB_MAXINTERFACES - 1
  /\ Uses \in [Threads -> SUBSET Handles] /\ NoThread \notin Threads
  /\ {Kernel, Unbound} \cap Handles = {} /\ Kernel # Unbound
  /\ Asks \in [Threads -> SUBSET Nat]
  /\ Modes \subseteq {"sysfs", "cached"}
  /\ \A d \in Devices : 1 \in DOMAIN d /\ {Unconfigured, Cleared} \cap DOMAIN d = {}
  /\ MaxErrors \in Nat /\ MaxConfigs \in Nat

VARIABLES
  device, mode,
  attached,
  active,    (* configuration that is active in the device               *)
  driver,    (* what each interface is bound to                          *)
  cache,     (* priv->config_descriptor: value of the cached configuration *)
  config,    (* what libusb_set_configuration was called with last       *)
  claimed,   (* claimed_interfaces of each handle                        *)
  lock,      (* who holds the lock of each handle                        *)
  pc, using, (* where a thread is, and the handle it uses                *)
  iface,     (* loop variable of op_reset_device                         *)
  value,     (* configuration a thread is setting, or has read           *)
  asked,     (* configuration it has asked for; Unconfigured: the active *)
  header,    (* the configuration whose header was read first            *)
  result,    (* what libusb_get_active_config_descriptor gives           *)
  before,    (* claimed_interfaces when the reset began                  *)
  alone,     (* nobody has disturbed the call                            *)
  shaken,    (* handles whose claims the kernel has taken away           *)
  errors, configs

kernelv == <<device, mode, attached, active, driver>>
handlev == <<claimed, lock, shaken>>
readv   == <<value, asked, header, result>>
boundv  == <<errors, configs>>
vars    == <<kernelv, cache, config, handlev, pc, using, iface, readv, before, alone, boundv>>

At(t, l) == pc[t] = l
Idle(t) == At(t, "idle")
Go(t, l) == pc' = [pc EXCEPT ![t] = l]

Failed == [ok |-> FALSE, interfaces |-> <<>>, extra |-> <<>>]

Init ==
  /\ device \in Devices /\ mode \in Modes /\ attached = TRUE
  /\ active = 1 /\ config = 1 /\ cache = (IF mode = "cached" THEN 1 ELSE Unconfigured)
  /\ driver \in [Ifaces -> {Kernel, Unbound}]
  /\ claimed = [h \in Handles |-> {}] /\ lock = [h \in Handles |-> NoThread]
  /\ shaken = {}
  /\ pc = [t \in Threads |-> "idle"]
  /\ using \in [Threads -> Handles] /\ \A t \in Threads : using[t] \in Uses[t]
  /\ iface = [t \in Threads |-> 0]
  /\ value = [t \in Threads |-> Unconfigured] /\ asked = value
  /\ header = [t \in Threads |-> Unconfigured] /\ result = [t \in Threads |-> Failed]
  /\ before = [t \in Threads |-> {}] /\ alone = [t \in Threads |-> TRUE]
  /\ errors = 0 /\ configs = 0

ResetSteps == {"release", "lock", "reset", "reclaim", "unlock"}
Resetting(t) == pc[t] \in ResetSteps

\* t changes what interfaces are bound to; t sets a configuration, which is
\* nothing to those who read one that they have chosen themselves.
Rebinds(t) == alone' = [u \in Threads |-> alone[u] /\ (u = t \/ ~Resetting(u))]
Reconfigures(t) ==
  alone' = [u \in Threads |-> u = t \/ Idle(u) \/ (alone[u] /\ asked[u] # Unconfigured)]

-----------------------------------------------------------------------------
(* The kernel.  On a device that is gone every ioctl fails with ENODEV.    *)

CanClaim(h, i) == attached /\ driver[i] \in {Unbound, h} /\ active # Unconfigured
CanRelease(h, i) == attached /\ driver[i] = h

Unplug ==
  /\ attached /\ attached' = FALSE
  /\ driver' = [i \in Ifaces |-> Unbound]
  /\ shaken' = Handles /\ alone' = [t \in Threads |-> Idle(t)]
  /\ UNCHANGED <<device, mode, active, cache, config, claimed, lock, pc, using, iface, readv, before, boundv>>

-----------------------------------------------------------------------------
(* Interfaces                                                              *)

Unlocked(h) == lock[h] = NoThread

Bind(t, i, d) ==
  /\ driver' = [driver EXCEPT ![i] = d] /\ Rebinds(t)
  /\ UNCHANGED <<device, mode, attached, active, cache, config, lock, shaken, pc, using, iface, readv, before, boundv>>

\* libusb_claim_interface and IOCTL_USBFS_CLAIMINTF, under the handle's lock
ClaimInterface(t, i) ==
  LET h == using[t]
  IN /\ Idle(t) /\ Unlocked(h) /\ i \notin claimed[h] /\ CanClaim(h, i)
     /\ claimed' = [claimed EXCEPT ![h] = @ \cup {i}] /\ Bind(t, i, h)

\* libusb_release_interface and IOCTL_USBFS_RELEASEINTF, under the handle's lock
ReleaseInterface(t, i) ==
  LET h == using[t]
  IN /\ Idle(t) /\ Unlocked(h) /\ i \in claimed[h] /\ CanRelease(h, i)
     /\ claimed' = [claimed EXCEPT ![h] = @ \ {i}] /\ Bind(t, i, Unbound)

\* libusb_detach_kernel_driver, libusb_attach_kernel_driver: no lock, no bits
DetachKernelDriver(t, i) ==
  Idle(t) /\ attached /\ driver[i] = Kernel /\ Bind(t, i, Unbound) /\ UNCHANGED claimed

AttachKernelDriver(t, i) ==
  Idle(t) /\ attached /\ driver[i] = Unbound /\ Bind(t, i, Kernel) /\ UNCHANGED claimed

-----------------------------------------------------------------------------
(* op_reset_device                                                         *)

ResetDevice(t) ==
  /\ Idle(t) /\ Go(t, "release")
  /\ before' = [before EXCEPT ![t] = claimed[using[t]]]
  /\ alone' = [alone EXCEPT ![t] = using[t] \notin shaken /\ \A u \in Threads : using[u] = using[t] => ~Resetting(u)]
  /\ UNCHANGED <<kernelv, cache, config, handlev, using, iface, readv, boundv>>

NextIface(t, l) ==
  IF iface[t] = LastIface THEN Go(t, l) /\ iface' = [iface EXCEPT ![t] = 0]
  ELSE iface' = [iface EXCEPT ![t] = @ + 1] /\ UNCHANGED pc

\* Mutant: the interfaces stay bound to usbfs during the reset.
KeepBound(h, i) == driver

\* op_release_interface, whose result is ignored; the handle is not locked.
LetGo(h, i) == IF i \in claimed[h] /\ CanRelease(h, i) THEN [driver EXCEPT ![i] = Unbound] ELSE driver

ReleaseNext(t) ==
  /\ At(t, "release") /\ NextIface(t, "lock")
  /\ driver' = LetGo(using[t], iface[t]) /\ Rebinds(t)
  /\ UNCHANGED <<device, mode, attached, active, cache, config, handlev, using, readv, before, boundv>>

LockHandle(t) ==
  /\ At(t, "lock") /\ Unlocked(using[t]) /\ Go(t, "reset")
  /\ lock' = [lock EXCEPT ![using[t]] = t]
  /\ UNCHANGED <<kernelv, cache, config, claimed, shaken, using, iface, readv, before, alone, boundv>>

Unlock(t) == [lock EXCEPT ![using[t]] = NoThread]

Return(t) ==
  /\ Go(t, "idle") /\ lock' = Unlock(t)
  /\ before' = [before EXCEPT ![t] = {}] /\ alone' = [alone EXCEPT ![t] = TRUE]
  /\ UNCHANGED <<kernelv, cache, config, claimed, using, iface, readv, configs>>

\* IOCTL_USBFS_RESET: what is bound to usbfs gets its driver of the kernel.
Reset(t) ==
  /\ At(t, "reset") /\ attached /\ Go(t, "reclaim")
  /\ \E d \in {Kernel, Unbound} : driver' = [i \in Ifaces |-> IF driver[i] \in Handles THEN d ELSE driver[i]]
  /\ shaken' = shaken \cup ({driver[i] : i \in Ifaces} \cap (Handles \ {using[t]}))
  /\ Rebinds(t)
  /\ UNCHANGED <<device, mode, attached, active, cache, config, claimed, lock, using, iface, readv, before, boundv>>

\* The reset fails: the interfaces have been released, their bits stay.
ResetFails(t) ==
  /\ At(t, "reset") /\ Return(t)
  /\ \/ ~attached /\ UNCHANGED errors
     \/ errors < MaxErrors /\ errors' = errors + 1
  /\ shaken' = shaken \cup {using[t]}

\* Mutant: the interfaces that were claimed when the reset began.
ClaimedBefore(t) == before[t]

\* claimed_interfaces, read again with the lock held
ClaimedNow(t) == claimed[using[t]]

Lost(h, i) == [claimed EXCEPT ![h] = @ \ {i}]

\* op_claim_interface of what was claimed, with the lock held
ReclaimNext(t) ==
  LET h == using[t]
      i == iface[t]
  IN /\ At(t, "reclaim") /\ NextIface(t, "unlock") /\ Rebinds(t)
     /\ IF i \notin ClaimedNow(t) THEN UNCHANGED <<driver, claimed>>
        ELSE IF CanClaim(h, i) THEN driver' = [driver EXCEPT ![i] = h] /\ UNCHANGED claimed
        ELSE claimed' = Lost(h, i) /\ UNCHANGED driver
     /\ UNCHANGED <<device, mode, attached, active, cache, config, lock, shaken, using, readv, before, boundv>>

UnlockHandle(t) == At(t, "unlock") /\ Return(t) /\ UNCHANGED <<shaken, errors>>

-----------------------------------------------------------------------------
(* Configurations                                                          *)

\* usbi_get_config_index_by_value
HasConfig(v) == v \in DOMAIN device

\* get_config_descriptor: the node has all configurations, as long as it is there.
NodeReads == attached

CanCache(v) == HasConfig(v) /\ NodeReads

\* The configuration that SETCONFIG makes active.
Activated(v) == IF v = Cleared THEN Unconfigured ELSE v

\* IOCTL_USBFS_SETCONFIG: refused while an interface is claimed; the interfaces
\* of the new configuration may get drivers of the kernel.  Applications set
\* configurations one at a time: op_set_configuration has no lock.
SetConfiguration(t, v) ==
  /\ Idle(t) /\ attached /\ configs < MaxConfigs
  /\ \A u \in Threads : ~At(u, "cache")
  /\ \A i \in Ifaces : driver[i] = Unbound
  /\ active' = Activated(v) /\ config' = v /\ configs' = configs + 1 /\ Reconfigures(t)
  /\ \E d \in {Kernel, Unbound} :
       driver' = [i \in Ifaces |-> IF Activated(v) = Unconfigured THEN Unbound ELSE d]
  /\ IF mode = "sysfs" THEN UNCHANGED <<pc, value>>
     ELSE Go(t, "cache") /\ value' = [value EXCEPT ![t] = v]
  /\ UNCHANGED <<device, mode, attached, cache, handlev, using, iface, asked, header, result, before, errors>>

\* Mutant: the old descriptors stay whenever there are no new ones.
KeepsOld(v) == IF CanCache(v) THEN v ELSE cache

\* The descriptors are freed for -1; in other cases cache_active_config looks
\* for the configuration, and if it fails, as it does for 0, the old ones stay.
Cached(v) == IF v = Cleared THEN Unconfigured ELSE IF CanCache(v) THEN v ELSE cache

CacheConfiguration(t) ==
  /\ At(t, "cache") /\ Go(t, "idle")
  /\ cache' = Cached(value[t]) /\ value' = [value EXCEPT ![t] = Unconfigured]
  /\ Reconfigures(t)
  /\ UNCHANGED <<kernelv, config, handlev, using, iface, asked, header, result, before, boundv>>

-----------------------------------------------------------------------------
(* libusb_get_active_config_descriptor and libusb_get_config_descriptor    *)
(* read the header, then all of it.                                        *)

First == IF mode = "sysfs" THEN "value" ELSE "cached"

GetActiveConfig(t) ==
  /\ Idle(t) /\ Unconfigured \in Asks[t] /\ Go(t, First)
  /\ alone' = [alone EXCEPT ![t] = attached /\ \A u \in Threads : ~At(u, "cache")]
  /\ UNCHANGED <<kernelv, cache, config, handlev, using, iface, readv, before, boundv>>

\* libusb_get_config_descriptor, libusb_get_config_descriptor_by_value
GetConfigDescriptor(t, v) ==
  /\ Idle(t) /\ HasConfig(v) /\ Go(t, "node")
  /\ asked' = [asked EXCEPT ![t] = v] /\ alone' = [alone EXCEPT ![t] = attached]
  /\ UNCHANGED <<kernelv, cache, config, handlev, using, iface, value, header, result, before, boundv>>

Fails(t) ==
  /\ Go(t, "return") /\ header' = [header EXCEPT ![t] = Unconfigured]
  /\ value' = [value EXCEPT ![t] = Unconfigured] /\ UNCHANGED <<asked, result>>

\* Length of a configuration without its header.
Length(v) == Size(device[v].descs, 1)

\* The descriptors of v have been read, those of the header first.  A body
\* that is longer is cut off, one that is shorter ends the read (sysfs) or is
\* followed by other memory (the cache): either way the parser may fail.
Got(t, v) ==
  LET h == header[t]
  IN /\ value' = [value EXCEPT ![t] = Unconfigured] /\ UNCHANGED asked
     /\ IF h = Unconfigured
        THEN Go(t, IF asked[t] = Unconfigured THEN First ELSE "node") /\ header' = [header EXCEPT ![t] = v] /\ UNCHANGED result
        ELSE /\ Go(t, "return") /\ header' = [header EXCEPT ![t] = Unconfigured]
             /\ \E zeros \in BOOLEAN :
                  \/ result' = [result EXCEPT ![t] = ParseConfiguration(device[v], zeros)]
                  \/ Length(v) # Length(h) /\ result' = [result EXCEPT ![t] = Failed]

\* usbfs_get_active_config_descriptor
ReadCached(t) ==
  /\ At(t, "cached")
  /\ IF cache = Unconfigured THEN Fails(t) ELSE Got(t, cache)
  /\ UNCHANGED <<kernelv, cache, config, handlev, using, iface, before, alone, boundv>>

\* sysfs_get_active_config: bConfigurationValue
ReadValue(t) ==
  /\ At(t, "value")
  /\ \/ /\ attached /\ active # Unconfigured
        /\ Go(t, "descriptors") /\ value' = [value EXCEPT ![t] = active] /\ UNCHANGED <<asked, header, result>>
     \/ ~attached /\ Fails(t)
     \/ active = Unconfigured /\ Fails(t)
  /\ UNCHANGED <<kernelv, cache, config, handlev, using, iface, before, alone, boundv>>

\* Mutant: the first configuration in the file, whatever its value.
FirstInFile(v) == CHOOSE x \in DOMAIN device : \A y \in DOMAIN device : x <= y

\* The configuration in the file with the bConfigurationValue that was read.
Sought(v) == v

\* sysfs_get_active_config_descriptor: old kernels have the descriptors of
\* the active configuration only, and the search for others finds the end.
ReadDescriptors(t) ==
  /\ At(t, "descriptors")
  /\ \/ attached /\ value[t] \in DOMAIN device /\ Got(t, Sought(value[t]))
     \/ attached /\ active # value[t] /\ Fails(t)
     \/ ~attached /\ Fails(t)
  /\ UNCHANGED <<kernelv, cache, config, handlev, using, iface, before, alone, boundv>>

\* op_get_config_descriptor
ReadNode(t) ==
  /\ At(t, "node")
  /\ IF NodeReads THEN Got(t, asked[t]) ELSE Fails(t)
  /\ UNCHANGED <<kernelv, cache, config, handlev, using, iface, before, alone, boundv>>

\* The application is done with it: libusb_free_config_descriptor
FreeConfig(t) ==
  /\ At(t, "return") /\ Go(t, "idle")
  /\ result' = [result EXCEPT ![t] = Failed] /\ asked' = [asked EXCEPT ![t] = Unconfigured]
  /\ alone' = [alone EXCEPT ![t] = TRUE]
  /\ UNCHANGED <<kernelv, cache, config, handlev, using, iface, value, header, before, boundv>>

Step(t) ==
  \/ ReleaseNext(t) \/ LockHandle(t) \/ Reset(t) \/ ResetFails(t) \/ ReclaimNext(t) \/ UnlockHandle(t)
  \/ CacheConfiguration(t) \/ ReadCached(t) \/ ReadValue(t) \/ ReadDescriptors(t) \/ ReadNode(t)
  \/ FreeConfig(t)

Call(t) ==
  \/ \E i \in Ifaces : ClaimInterface(t, i) \/ ReleaseInterface(t, i)
                        \/ DetachKernelDriver(t, i) \/ AttachKernelDriver(t, i)
  \/ ResetDevice(t)
  \/ \E v \in DOMAIN device \cup {Unconfigured, Cleared} : SetConfiguration(t, v)
  \/ GetActiveConfig(t) \/ \E v \in Asks[t] : GetConfigDescriptor(t, v)

Next == Unplug \/ \E t \in Threads : Call(t) \/ Step(t)

Spec == Init /\ [][Next]_vars

-----------------------------------------------------------------------------
(* Properties                                                              *)

Values == DOMAIN device \cup {Unconfigured}
ReadSteps == {"cached", "value", "descriptors", "node", "return"}

TypeOK ==
  /\ device \in Devices /\ mode \in Modes /\ attached \in BOOLEAN
  /\ active \in Values /\ cache \in Values /\ config \in Values \cup {Cleared}
  /\ driver \in [Ifaces -> Handles \cup {Kernel, Unbound}]
  /\ claimed \in [Handles -> SUBSET Ifaces] /\ shaken \subseteq Handles
  /\ lock \in [Handles -> Threads \cup {NoThread}]
  /\ \A h \in Handles : lock[h] # NoThread => using[lock[h]] = h /\ pc[lock[h]] \in {"reset", "reclaim", "unlock"}
  /\ pc \in [Threads -> {"idle", "cache"} \cup ResetSteps \cup ReadSteps]
  /\ using \in [Threads -> Handles] /\ iface \in [Threads -> Ifaces]
  /\ value \in [Threads -> Values \cup {Cleared}] /\ asked \in [Threads -> Values] /\ header \in [Threads -> Values]
  /\ before \in [Threads -> SUBSET Ifaces] /\ alone \in [Threads -> BOOLEAN]
  /\ errors \in 0 .. MaxErrors /\ configs \in 0 .. MaxConfigs

OwnedIsClaimed == \A i \in Ifaces : driver[i] \in Handles => i \in claimed[driver[i]]

ClaimedIsOwned ==
  \A h \in Handles \ shaken :
    (\A t \in Threads : using[t] = h => ~Resetting(t)) => \A i \in claimed[h] : driver[i] = h

\* What the kernel has bound to a handle, the handle knows as claimed, also in
\* the middle of a reset: otherwise libusb_release_interface refuses to give
\* it back and the reset does not release it ("if (handle->claimed_interfaces
\* & (1L << i))").
\* And the other way round, whatever other threads and handles have claimed,
\* released or reset meanwhile: an interface marked as claimed is bound to the
\* handle once no reset is on the way.  Only a reset through another handle, a
\* reset that failed and an unplugged device (shaken) leave stale marks.
ClaimsAgree == TypeOK /\ OwnedIsClaimed /\ ClaimedIsOwned

\* "And re-claim any interfaces which were claimed before the reset": a reset
\* that nobody disturbs ends with the interfaces it began with.
ResetKeepsClaims ==
  \A t \in Threads : At(t, "unlock") /\ alone[t] =>
    claimed[using[t]] = before[t] /\ \A i \in before[t] : driver[i] = using[t]

\* Libusbx knows what is active: always where the kernel is asked, and where the
\* descriptors are cached unless the device was unconfigured with 0 instead of
\* -1, for then the cache holds what was active before.
Known == mode = "sysfs" \/ config # Unconfigured

\* The cached descriptors are those of the active configuration, or none if there
\* is none, except between SETCONFIG and the update of the cache, and after 0 was
\* set until another configuration or -1 is.
CacheIsActive ==
  mode = "cached" /\ Known /\ attached /\ (\A t \in Threads : ~At(t, "cache")) => cache = active

Told(t) == asked[t] # Unconfigured \/ Known

Meant(t) == IF asked[t] = Unconfigured THEN active ELSE asked[t]

\* Who asks for the active configuration while nobody sets one, and libusbx
\* knows it, is told what its descriptors mean, or that there is none; who asks
\* for any other one is told what that means, whatever is set meanwhile.
ReadIsMeant ==
  \A t \in Threads : At(t, "return") /\ alone[t] /\ Told(t) =>
    LET v == Meant(t)
    IN IF v = Unconfigured THEN ~result[t].ok
       ELSE WellFormed(device[v]) => result[t] = Meaning(device[v])
-----------------------------------------------------------------------------
(* For the proof.  A reset holds the lock from its ioctl to its end; while *)
(* it is the only one of its handle, what it has passed on its second way  *)
(* through the interfaces is bound to the handle again, or unmarked.       *)

Locking(t) == pc[t] \in {"reset", "reclaim", "unlock"}

LocksInv ==
  /\ \A t \in Threads : Locking(t) => lock[using[t]] = t
  /\ \A t \in Threads : iface[t] # 0 => pc[t] \in {"release", "reclaim"}

OnlyReset(t) == \A u \in Threads \ {t} : using[u] = using[t] => ~Resetting(u)

Passed(t, i) == At(t, "unlock") \/ (At(t, "reclaim") /\ i < iface[t])

ReclaimedInv ==
  \A t \in Threads : using[t] \notin shaken /\ OnlyReset(t) =>
    \A i \in claimed[using[t]] : Passed(t, i) => driver[i] = using[t]

BoundInv == ~attached \/ active = Unconfigured => \A i \in Ifaces : driver[i] \notin Handles

ClaimsInv == OwnedIsClaimed /\ ClaimedIsOwned /\ LocksInv /\ ReclaimedInv /\ BoundInv

\* A reset that nobody disturbs: what it has claimed is bound to its handle,
\* except between the two ways through the interfaces, when it is free.
Awaits(t, i) ==
  \/ At(t, "release") /\ i < iface[t]
  \/ At(t, "lock") \/ At(t, "reset")
  \/ At(t, "reclaim") /\ i >= iface[t]

AloneInv ==
  /\ \A t \in Threads : asked[t] # Unconfigured => pc[t] \in ReadSteps
  /\ \A t \in Threads : Resetting(t) /\ alone[t] =>
       /\ claimed[using[t]] = before[t]
       /\ \A i \in before[t] : attached /\ active # Unconfigured /\ driver[i] = IF Awaits(t, i) THEN Unbound ELSE using[t]

\* SETCONFIG and the update of the cache are made by one thread at a time.
CacheInv ==
  /\ \A t, u \in Threads : At(t, "cache") /\ At(u, "cache") => t = u
  /\ \A t \in Threads : At(t, "cache") => value[t] = config
  /\ active = Activated(config)
  /\ CacheIsActive

\* What a thread has read so far is of the configuration it means, as long as
\* nobody disturbs it, and its result is what the parser makes of that.
Parsed(t) ==
  IF Meant(t) = Unconfigured THEN ~result[t].ok
  ELSE \E zeros \in BOOLEAN : result[t] = ParseConfiguration(device[Meant(t)], zeros)

ReadSound(t) ==
  /\ asked[t] # Unconfigured => pc[t] \in {"node", "return"} /\ HasConfig(asked[t])
  /\ At(t, "node") => asked[t] # Unconfigured
  /\ pc[t] \in {"value", "descriptors"} => mode = "sysfs"
  /\ At(t, "cached") => mode = "cached"
  /\ ~At(t, "return") => result[t] = Failed
  /\ pc[t] \notin ReadSteps \ {"return"} => header[t] = Unconfigured
  /\ pc[t] \in ReadSteps /\ alone[t] =>
       /\ attached
       /\ asked[t] = Unconfigured => \A u \in Threads : ~At(u, "cache")
       /\ At(t, "descriptors") => value[t] = active /\ active # Unconfigured
       /\ Told(t) => header[t] \in {Unconfigured, Meant(t)}
       /\ Told(t) /\ At(t, "return") => Parsed(t)

ReadInv == DOMAIN result = Threads /\ \A t \in Threads : ReadSound(t)
=============================================================================
