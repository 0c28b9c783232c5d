-------------------------- MODULE UsbHandlesProofs --------------------------
(* Theorems about UsbHandles, for every set of threads, handles, devices    *)
(* and number of interfaces.                                               *)
EXTENDS UsbHandles, TLAPS

-----------------------------------------------------------------------------
(* The type invariant                                                      *)

LEMMA InitTyped == Init => TypeOK
<1> SUFFICES ASSUME Init PROVE TypeOK OBVIOUS
<1> USE HandlesAssumption
<1>1. device \in Devices /\ 1 \in Values /\ Unconfigured \in Values BY DEF Init, Values
<1>2. /\ active \in Values /\ cache \in Values
      /\ value \in [Threads -> Values \cup {Cleared}] /\ asked \in [Threads -> Values] /\ header \in [Threads -> Values]
  BY <1>1 DEF Init
<1>3. alone \in [Threads -> BOOLEAN] /\ attached \in BOOLEAN BY Zenon DEF Init
<1>4. iface \in [Threads -> Ifaces] /\ errors \in 0 .. MaxErrors /\ configs \in 0 .. MaxConfigs
  BY DEF Init, Ifaces
<1>5. /\ driver \in [Ifaces -> Handles \cup {Kernel, Unbound}] /\ mode \in Modes
      /\ claimed \in [Handles -> SUBSET Ifaces] /\ shaken \subseteq Handles
      /\ lock \in [Handles -> Threads \cup {NoThread}]
      /\ \A h \in Handles : lock[h] = NoThread
      /\ pc \in [Threads -> {"idle", "cache"} \cup ResetSteps \cup ReadSteps]
      /\ using \in [Threads -> Handles] /\ before \in [Threads -> SUBSET Ifaces]
  BY DEF Init
<1>6. config \in Values \cup {Cleared} BY <1>1 DEF Init
<1>7. QED BY <1>1, <1>2, <1>3, <1>4, <1>5, <1>6 DEF TypeOK

\* Whatever is said of `alone' is true or false.
LEMMA AloneTyped ==
  ASSUME alone \in [Threads -> BOOLEAN], NEW t \in Threads,
         \/ UNCHANGED alone
         \/ Rebinds(t) \/ Reconfigures(t)
         \/ alone' = [u \in Threads |-> Idle(u)]
         \/ \E b \in BOOLEAN : alone' = [alone EXCEPT ![t] = b]
  PROVE  alone' \in [Threads -> BOOLEAN]
<1>1. CASE UNCHANGED alone BY <1>1
<1>2. CASE Rebinds(t) BY <1>2, Zenon DEF Rebinds
<1>3. CASE Reconfigures(t) BY <1>3, Zenon DEF Reconfigures
<1>4. CASE alone' = [u \in Threads |-> Idle(u)] BY <1>4, Zenon DEF Idle, At
<1>5. CASE \E b \in BOOLEAN : alone' = [alone EXCEPT ![t] = b] BY <1>5
<1>6. QED BY <1>1, <1>2, <1>3, <1>4, <1>5

\* The interfaces, from the calls of the application.
LEMMA InterfacesTyped ==
  ASSUME TypeOK, NEW t \in Threads, NEW i \in Ifaces,
         ClaimInterface(t, i) \/ ReleaseInterface(t, i) \/ DetachKernelDriver(t, i) \/ AttachKernelDriver(t, i)
  PROVE  TypeOK'
<1> USE DEF TypeOK, Values, readv, boundv
<1>1. \E d : Bind(t, i, d)
  BY DEF ClaimInterface, ReleaseInterface, DetachKernelDriver, AttachKernelDriver
<1>2. alone' \in [Threads -> BOOLEAN] BY <1>1, AloneTyped DEF Bind
<1>3. CASE ClaimInterface(t, i) BY <1>2, <1>3 DEF ClaimInterface, Bind
<1>4. CASE ReleaseInterface(t, i) BY <1>2, <1>4 DEF ReleaseInterface, Bind
<1>5. CASE DetachKernelDriver(t, i) BY <1>2, <1>5 DEF DetachKernelDriver, Bind
<1>6. CASE AttachKernelDriver(t, i) BY <1>2, <1>6 DEF AttachKernelDriver, Bind
<1>7. QED BY <1>3, <1>4, <1>5, <1>6

\* The way through the interfaces stays among them.
LEMMA NextIfaceTyped ==
  ASSUME TypeOK, NEW t \in Threads, NEW l \in ResetSteps, At(t, "release") \/ At(t, "reclaim"), NextIface(t, l)
  PROVE  /\ iface' \in [Threads -> Ifaces]
         /\ pc' \in [Threads -> {"idle", "cache"} \cup ResetSteps \cup ReadSteps]
         /\ \A u \in Threads : u # t => pc'[u] = pc[u]
         /\ pc'[t] \in {pc[t], l}
<1>1. LastIface \in Nat /\ iface[t] \in 0 .. LastIface BY HandlesAssumption DEF TypeOK, Ifaces
<1>2. CASE iface[t] = LastIface
  <2>1. 0 \in Ifaces BY <1>1 DEF Ifaces
  <2>2. iface' = [iface EXCEPT ![t] = 0] /\ pc' = [pc EXCEPT ![t] = l] BY <1>2 DEF NextIface, Go
  <2>3. QED BY <2>1, <2>2 DEF TypeOK
<1>3. CASE iface[t] # LastIface
  <2>1. iface[t] + 1 \in 0 .. LastIface BY <1>1, <1>3
  <2>2. QED BY <1>3, <2>1 DEF TypeOK, NextIface, Ifaces
<1>4. QED BY <1>2, <1>3

LEMMA ResetTyped ==
  ASSUME TypeOK, NEW t \in Threads,
         \/ ResetDevice(t) \/ ReleaseNext(t) \/ LockHandle(t) \/ Reset(t) \/ ResetFails(t)
         \/ ReclaimNext(t) \/ UnlockHandle(t)
  PROVE  TypeOK'
<1> USE DEF TypeOK, Values, At, Idle
<1>1. CASE ResetDevice(t)
  <2>1. alone' \in [Threads -> BOOLEAN] BY <1>1, Zenon, AloneTyped DEF ResetDevice
  <2>2. QED BY <1>1, <2>1 DEF ResetDevice, Go, ResetSteps, kernelv, handlev, readv, boundv
<1>2. CASE ReleaseNext(t)
  <2>1. alone' \in [Threads -> BOOLEAN] BY <1>2, AloneTyped DEF ReleaseNext
  <2>2. NextIface(t, "lock") /\ "lock" \in ResetSteps /\ At(t, "release") BY <1>2 DEF ReleaseNext, ResetSteps
  <2>3. /\ iface' \in [Threads -> Ifaces]
        /\ pc' \in [Threads -> {"idle", "cache"} \cup ResetSteps \cup ReadSteps]
        /\ \A u \in Threads : u # t => pc'[u] = pc[u]
    BY <2>2, NextIfaceTyped
  <2>4. driver' \in [Ifaces -> Handles \cup {Kernel, Unbound}] BY <1>2 DEF ReleaseNext, LetGo
  <2>5. QED BY <1>2, <2>1, <2>3, <2>4 DEF ReleaseNext, handlev, readv, boundv
<1>3. CASE LockHandle(t)
  <2>1. lock' \in [Handles -> Threads \cup {NoThread}] BY <1>3 DEF LockHandle
  <2>2. pc' = [pc EXCEPT ![t] = "reset"] BY <1>3 DEF LockHandle, Go
  <2>3. \A h \in Handles : lock'[h] # NoThread => using[lock'[h]] = h /\ pc'[lock'[h]] \in {"reset", "reclaim", "unlock"}
    BY <1>3, <2>2 DEF LockHandle
  <2>4. QED BY <1>3, <2>1, <2>2, <2>3 DEF LockHandle, ResetSteps, kernelv, readv, boundv
<1>4. CASE Reset(t)
  <2>1. alone' \in [Threads -> BOOLEAN] BY <1>4, AloneTyped DEF Reset
  <2>2. driver' \in [Ifaces -> Handles \cup {Kernel, Unbound}] /\ shaken' \subseteq Handles BY <1>4 DEF Reset
  <2>3. pc' = [pc EXCEPT ![t] = "reclaim"] /\ "reclaim" \in ResetSteps BY <1>4 DEF Reset, Go, ResetSteps
  <2>4. pc' \in [Threads -> {"idle", "cache"} \cup ResetSteps \cup ReadSteps] BY <2>3
  <2>5. \A h \in Handles : lock'[h] # NoThread => using[lock'[h]] = h /\ pc'[lock'[h]] \in {"reset", "reclaim", "unlock"}
    BY <1>4, <2>3 DEF Reset
  <2>6. QED BY <1>4, <2>1, <2>2, <2>4, <2>5 DEF Reset, readv, boundv
<1>5. CASE ResetFails(t)
  <2>1. alone' \in [Threads -> BOOLEAN] BY <1>5, AloneTyped DEF ResetFails, Return
  <2>2. errors' \in 0 .. MaxErrors BY <1>5, HandlesAssumption DEF ResetFails
  <2>3. lock' \in [Handles -> Threads \cup {NoThread}] BY <1>5 DEF ResetFails, Return, Unlock
  <2>4. \A h \in Handles : lock'[h] # NoThread => using[lock'[h]] = h /\ pc'[lock'[h]] \in {"reset", "reclaim", "unlock"}
    BY <1>5, HandlesAssumption DEF ResetFails, Return, Unlock, Go
  <2>5. QED BY <1>5, <2>1, <2>2, <2>3, <2>4 DEF ResetFails, Return, Go, kernelv, readv
<1>6. CASE ReclaimNext(t)
  <2>1. alone' \in [Threads -> BOOLEAN] BY <1>6, AloneTyped DEF ReclaimNext
  <2>2. NextIface(t, "unlock") /\ "unlock" \in ResetSteps /\ At(t, "reclaim") BY <1>6 DEF ReclaimNext, ResetSteps
  <2>3. /\ iface' \in [Threads -> Ifaces]
        /\ pc' \in [Threads -> {"idle", "cache"} \cup ResetSteps \cup ReadSteps]
        /\ \A u \in Threads : u # t => pc'[u] = pc[u]
        /\ pc'[t] \in {"reclaim", "unlock"}
    BY <2>2, NextIfaceTyped
  <2>4. driver' \in [Ifaces -> Handles \cup {Kernel, Unbound}] BY <1>6 DEF ReclaimNext
  <2>6. \/ UNCHANGED claimed
        \/ claimed' = [claimed EXCEPT ![using[t]] = @ \ {iface[t]}]
    BY <1>6 DEF ReclaimNext, Lost
  <2>7. claimed' \in [Handles -> SUBSET Ifaces] BY <2>6
  <2>8. QED BY <1>6, <2>1, <2>3, <2>4, <2>7 DEF ReclaimNext, readv, boundv
<1>7. CASE UnlockHandle(t)
  <2>1. alone' \in [Threads -> BOOLEAN] BY <1>7, AloneTyped DEF UnlockHandle, Return
  <2>2. lock' \in [Handles -> Threads \cup {NoThread}] BY <1>7 DEF UnlockHandle, Return, Unlock
  <2>3. \A h \in Handles : lock'[h] # NoThread => using[lock'[h]] = h /\ pc'[lock'[h]] \in {"reset", "reclaim", "unlock"}
    BY <1>7, HandlesAssumption DEF UnlockHandle, Return, Unlock, Go
  <2>4. QED BY <1>7, <2>1, <2>2, <2>3 DEF UnlockHandle, Return, Go, kernelv, readv
<1>8. QED BY <1>1, <1>2, <1>3, <1>4, <1>5, <1>6, <1>7

\* The descriptors of v are there to be read.
LEMMA GotTyped ==
  ASSUME TypeOK, NEW t \in Threads, NEW v \in Values, Got(t, v)
  PROVE  /\ value' \in [Threads -> Values \cup {Cleared}] /\ asked' \in [Threads -> Values] /\ header' \in [Threads -> Values]
         /\ pc' \in [Threads -> {"idle", "cache"} \cup ResetSteps \cup ReadSteps]
         /\ \A u \in Threads : u # t => pc'[u] = pc[u] /\ value'[u] = value[u]
         /\ pc'[t] \in ReadSteps
<1>1. Unconfigured \in Values BY DEF Values
<1>2. \E l \in ReadSteps : Go(t, l) BY DEF Got, ReadSteps, First
<1>3. value' = [value EXCEPT ![t] = Unconfigured] /\ UNCHANGED asked BY DEF Got
<1>4. \E w \in Values : header' = [header EXCEPT ![t] = w] BY <1>1 DEF Got
<1>5. QED BY <1>1, <1>2, <1>3, <1>4 DEF TypeOK, Go

LEMMA FailsTyped ==
  ASSUME TypeOK, NEW t \in Threads, Fails(t)
  PROVE  /\ value' \in [Threads -> Values \cup {Cleared}] /\ asked' \in [Threads -> Values] /\ header' \in [Threads -> Values]
         /\ pc' \in [Threads -> {"idle", "cache"} \cup ResetSteps \cup ReadSteps]
         /\ \A u \in Threads : u # t => pc'[u] = pc[u] /\ value'[u] = value[u]
         /\ pc'[t] \in ReadSteps
BY DEF Fails, TypeOK, Go, Values, ReadSteps

\* A thread that reads descriptors touches nothing but what it has read.
LEMMA ReadMoves ==
  ASSUME TypeOK, NEW t \in Threads,
         ReadCached(t) \/ ReadValue(t) \/ ReadDescriptors(t) \/ ReadNode(t)
  PROVE  /\ value' \in [Threads -> Values \cup {Cleared}] /\ asked' \in [Threads -> Values] /\ header' \in [Threads -> Values]
         /\ pc' \in [Threads -> {"idle", "cache"} \cup ResetSteps \cup ReadSteps]
         /\ \A u \in Threads : u # t => pc'[u] = pc[u] /\ value'[u] = value[u]
         /\ pc[t] \in ReadSteps /\ pc'[t] \in ReadSteps
         /\ UNCHANGED <<kernelv, cache, config, handlev, using, iface, before, alone, boundv>>
<1>1. pc[t] \in ReadSteps BY DEF ReadCached, ReadValue, ReadDescriptors, ReadNode, At, ReadSteps
<1>2. UNCHANGED <<kernelv, cache, config, handlev, using, iface, before, alone, boundv>>
  BY DEF ReadCached, ReadValue, ReadDescriptors, ReadNode
<1>3. \/ Fails(t)
      \/ \E v \in Values : Got(t, v)
      \/ Go(t, "descriptors") /\ value' = [value EXCEPT ![t] = active] /\ UNCHANGED <<asked, header>>
  BY DEF ReadCached, ReadValue, ReadDescriptors, ReadNode, TypeOK, Values, Sought
<1>4. CASE Fails(t) BY <1>1, <1>2, <1>4, FailsTyped
<1>5. CASE \E v \in Values : Got(t, v) BY <1>1, <1>2, <1>5, GotTyped
<1>6. CASE Go(t, "descriptors") /\ value' = [value EXCEPT ![t] = active] /\ UNCHANGED <<asked, header>>
  BY <1>1, <1>2, <1>6 DEF Go, TypeOK, ReadSteps
<1>7. QED BY <1>3, <1>4, <1>5, <1>6

LEMMA ReadTyped ==
  ASSUME TypeOK, NEW t \in Threads,
         \/ ReadCached(t) \/ ReadValue(t) \/ ReadDescriptors(t) \/ ReadNode(t)
         \/ GetActiveConfig(t) \/ FreeConfig(t) \/ \E v \in Asks[t] : GetConfigDescriptor(t, v)
  PROVE  TypeOK'
<1> USE DEF TypeOK, Values, At, Idle, kernelv, handlev, boundv
<1>1. CASE ReadCached(t) \/ ReadValue(t) \/ ReadDescriptors(t) \/ ReadNode(t)
  <2>1. /\ value' \in [Threads -> Values \cup {Cleared}] /\ asked' \in [Threads -> Values] /\ header' \in [Threads -> Values]
        /\ pc' \in [Threads -> {"idle", "cache"} \cup ResetSteps \cup ReadSteps]
        /\ \A u \in Threads : u # t => pc'[u] = pc[u]
        /\ pc[t] \in ReadSteps
        /\ UNCHANGED <<kernelv, cache, config, handlev, using, iface, before, alone, boundv>>
    BY <1>1, ReadMoves
  <2>2. QED BY <2>1 DEF ReadSteps
<1>2. CASE GetActiveConfig(t)
  <2>1. alone' \in [Threads -> BOOLEAN] BY <1>2, Zenon, AloneTyped DEF GetActiveConfig
  <2>2. \E l \in ReadSteps : Go(t, l) BY <1>2 DEF GetActiveConfig, First, ReadSteps
  <2>3. QED BY <1>2, <2>1, <2>2 DEF GetActiveConfig, Go, readv
<1>3. CASE FreeConfig(t)
  <2>1. alone' \in [Threads -> BOOLEAN] BY <1>3, AloneTyped DEF FreeConfig
  <2>2. QED BY <1>3, <2>1 DEF FreeConfig, Go
<1>4. ASSUME NEW v \in Asks[t], GetConfigDescriptor(t, v) PROVE TypeOK'
  <2>1. alone' \in [Threads -> BOOLEAN] BY <1>4, Zenon, AloneTyped DEF GetConfigDescriptor
  <2>2. QED BY <1>4, <2>1 DEF GetConfigDescriptor, HasConfig, Go, ReadSteps
<1>5. QED BY <1>1, <1>2, <1>3, <1>4

LEMMA ConfigurationTyped ==
  ASSUME TypeOK, NEW t \in Threads,
         CacheConfiguration(t) \/ \E v \in Values \cup {Cleared} : SetConfiguration(t, v)
  PROVE  TypeOK'
<1> USE DEF TypeOK, At, Idle
<1>1. CASE CacheConfiguration(t)
  <2>1. alone' \in [Threads -> BOOLEAN] BY <1>1, AloneTyped DEF CacheConfiguration
  <2>2. cache' \in Values BY <1>1 DEF CacheConfiguration, Cached, CanCache, HasConfig, Values
  <2>3. QED BY ZenonT(30), <1>1, <2>1, <2>2 DEF CacheConfiguration, Go, Values, kernelv, handlev, boundv
<1>2. ASSUME NEW v \in Values \cup {Cleared}, SetConfiguration(t, v) PROVE TypeOK'
  <2>1. alone' \in [Threads -> BOOLEAN] BY <1>2, AloneTyped DEF SetConfiguration
  <2>2. configs' \in 0 .. MaxConfigs BY <1>2, HandlesAssumption DEF SetConfiguration
  <2>3. driver' \in [Ifaces -> Handles \cup {Kernel, Unbound}] BY <1>2 DEF SetConfiguration
  <2>4. active' \in Values /\ config' \in Values \cup {Cleared} /\ value' \in [Threads -> Values \cup {Cleared}]
    BY <1>2 DEF SetConfiguration, Activated, Values
  <2>5. QED BY <1>2, <2>1, <2>2, <2>3, <2>4 DEF SetConfiguration, Go, Values, handlev
<1>3. QED BY <1>1, <1>2

LEMMA UnplugTyped == ASSUME TypeOK, Unplug PROVE TypeOK'
<1>1. alone' \in [Threads -> BOOLEAN] BY Zenon DEF Unplug, Idle, At
<1>2. attached' \in BOOLEAN BY Zenon DEF Unplug
<1>3. QED BY <1>1, <1>2 DEF TypeOK, Unplug, Values, readv, boundv

LEMMA StillTyped == ASSUME TypeOK, UNCHANGED vars PROVE TypeOK'
BY DEF TypeOK, Values, vars, kernelv, handlev, readv, boundv

LEMMA NextTyped == ASSUME TypeOK, [Next]_vars PROVE TypeOK'
<1>1. CASE UNCHANGED vars BY <1>1, StillTyped
<1>2. CASE Unplug BY <1>2, UnplugTyped
<1>3. ASSUME NEW t \in Threads, Call(t) PROVE TypeOK'
  BY <1>3, InterfacesTyped, ResetTyped, ReadTyped, ConfigurationTyped DEF Call, Values
<1>4. ASSUME NEW t \in Threads, Step(t) PROVE TypeOK'
  BY <1>4, ResetTyped, ReadTyped, ConfigurationTyped DEF Step
<1>5. QED BY <1>1, <1>2, <1>3, <1>4 DEF Next

-----------------------------------------------------------------------------
(* The cached descriptors                                                  *)

LEMMA InitCache == ASSUME Init PROVE CacheInv
BY DEF Init, CacheInv, CacheIsActive, Activated, Cleared, At

\* What neither sets a configuration nor comes back from it.
LEMMA CacheSame ==
  ASSUME CacheInv, UNCHANGED <<mode, active, cache, config>>, attached' => attached,
         \A u \in Threads : At(u, "cache")' <=> At(u, "cache"),
         \A u \in Threads : At(u, "cache") => value'[u] = value[u]
  PROVE  CacheInv'
BY DEF CacheInv, CacheIsActive, Known

LEMMA NextCache == ASSUME TypeOK, CacheInv, [Next]_vars PROVE CacheInv'
<1>1. CASE UNCHANGED vars BY <1>1, CacheSame DEF vars, kernelv, readv, At
<1>2. CASE Unplug BY <1>2, CacheSame DEF Unplug, readv, At
<1>3. ASSUME NEW t \in Threads, NEW v \in Values \cup {Cleared}, SetConfiguration(t, v) PROVE CacheInv'
  <2>1. CASE mode = "sysfs" BY <1>3, <2>1 DEF SetConfiguration, CacheInv, CacheIsActive, At
  <2>2. CASE mode # "sysfs"
    <3>1. pc' = [pc EXCEPT ![t] = "cache"] /\ value' = [value EXCEPT ![t] = v] /\ config' = v /\ active' = Activated(v)
      BY <1>3, <2>2 DEF SetConfiguration, Go
    <3>2. \A u \in Threads : ~At(u, "cache") BY <1>3 DEF SetConfiguration
    <3>3. \A u \in Threads : At(u, "cache")' <=> u = t BY <3>1, <3>2 DEF At, TypeOK
    <3>4. value'[t] = config' BY <3>1 DEF TypeOK
    <3>5. QED BY <3>1, <3>3, <3>4 DEF CacheInv, CacheIsActive
  <2>3. QED BY <2>1, <2>2
<1>4. ASSUME NEW t \in Threads, CacheConfiguration(t) PROVE CacheInv'
  <2>1. At(t, "cache") /\ value[t] = config /\ active = Activated(config) /\ pc' = [pc EXCEPT ![t] = "idle"]
        /\ cache' = Cached(config) /\ UNCHANGED <<kernelv, config>>
    BY <1>4 DEF CacheConfiguration, CacheInv, Go
  <2>2. \A u \in Threads : ~At(u, "cache")' BY <2>1 DEF CacheInv, At, TypeOK
  <2>3. attached /\ config # Unconfigured => Cached(config) = active
    BY <2>1 DEF Cached, CanCache, HasConfig, NodeReads, Activated, TypeOK, Values
  <2>4. QED BY <2>1, <2>2, <2>3 DEF CacheInv, CacheIsActive, Known, kernelv
<1>5. ASSUME NEW t \in Threads, NEW i \in Ifaces,
             ClaimInterface(t, i) \/ ReleaseInterface(t, i) \/ DetachKernelDriver(t, i) \/ AttachKernelDriver(t, i)
      PROVE  CacheInv'
  <2>1. \E d : Bind(t, i, d)
    BY <1>5 DEF ClaimInterface, ReleaseInterface, DetachKernelDriver, AttachKernelDriver
  <2>2. QED BY <2>1, CacheSame DEF Bind, readv, At
<1>6. ASSUME NEW t \in Threads,
             \/ ReleaseNext(t) \/ ReclaimNext(t) \/ ResetDevice(t) \/ LockHandle(t)
             \/ Reset(t) \/ ResetFails(t) \/ UnlockHandle(t) \/ GetActiveConfig(t)
      PROVE  CacheInv'
  <2>1. UNCHANGED <<mode, active, cache, config, value, attached>>
    BY <1>6 DEF ReleaseNext, ReclaimNext, ResetDevice, LockHandle, Reset, ResetFails, UnlockHandle,
      GetActiveConfig, Return, kernelv, readv
  <2>2. \A l \in ResetSteps \cup ReadSteps \cup {"idle"} : l # "cache" BY DEF ResetSteps, ReadSteps
  <2>3. \A u \in Threads : At(u, "cache")' <=> At(u, "cache")
    <3>1. CASE ReleaseNext(t) \/ ReclaimNext(t)
      <4>1. \E l \in ResetSteps : NextIface(t, l) BY <3>1 DEF ReleaseNext, ReclaimNext, ResetSteps
      <4>2. pc[t] # "cache" BY <3>1 DEF ReleaseNext, ReclaimNext, At
      <4>3. QED BY <2>2, <4>1, <4>2 DEF NextIface, Go, At, TypeOK
    <3>2. CASE ~(ReleaseNext(t) \/ ReclaimNext(t))
      <4>1. \E l \in ResetSteps \cup ReadSteps \cup {"idle"} : Go(t, l)
        BY <1>6, <3>2 DEF ResetDevice, LockHandle, Reset, ResetFails, UnlockHandle, GetActiveConfig, Return,
          First, ResetSteps, ReadSteps
      <4>2. pc[t] # "cache"
        BY <1>6, <3>2 DEF ResetDevice, LockHandle, Reset, ResetFails, UnlockHandle, GetActiveConfig, At, Idle
      <4>3. QED BY <2>2, <4>1, <4>2 DEF Go, At, TypeOK
    <3>3. QED BY <3>1, <3>2
  <2>4. QED BY <2>1, <2>3, CacheSame
<1>7. ASSUME NEW t \in Threads, ReadCached(t) \/ ReadValue(t) \/ ReadDescriptors(t) \/ ReadNode(t)
      PROVE  CacheInv'
  <2>1. UNCHANGED <<mode, active, cache, config, attached>> BY <1>7, ReadMoves DEF kernelv
  <2>2. \A u \in Threads : At(u, "cache")' <=> At(u, "cache") BY <1>7, ReadMoves DEF At, ReadSteps
  <2>3. \A u \in Threads : u # t => value'[u] = value[u] BY <1>7, ReadMoves
  <2>4. ~At(t, "cache") BY <1>7, ReadMoves DEF At, ReadSteps
  <2>5. QED BY <2>1, <2>2, <2>3, <2>4, CacheSame
<1>8. ASSUME NEW t \in Threads, FreeConfig(t) \/ \E v \in Asks[t] : GetConfigDescriptor(t, v)
      PROVE  CacheInv'
  <2>1. UNCHANGED <<mode, active, cache, config, attached, value>>
    BY <1>8 DEF FreeConfig, GetConfigDescriptor, kernelv
  <2>2. \A u \in Threads : At(u, "cache")' <=> At(u, "cache")
    BY <1>8 DEF FreeConfig, GetConfigDescriptor, Go, At, Idle, TypeOK
  <2>3. QED BY <2>1, <2>2, CacheSame
<1>9. QED BY <1>1, <1>2, <1>3, <1>4, <1>5, <1>6, <1>7, <1>8 DEF Next, Call, Step, Values

\* libusb_set_configuration leaves the descriptors of the configuration it has
\* set in the cache, and none for -1, for every number of threads and
\* configurations; what it leaves for 0 is not claimed.
THEOREM CacheIsActiveCorrect == Spec => []CacheIsActive
<1>1. Init => TypeOK /\ CacheInv BY InitTyped, InitCache
<1>2. TypeOK /\ CacheInv /\ [Next]_vars => (TypeOK /\ CacheInv)' BY NextTyped, NextCache
<1>3. TypeOK /\ CacheInv => CacheIsActive BY DEF CacheInv
<1>4. QED BY <1>1, <1>2, <1>3, PTL DEF Spec

-----------------------------------------------------------------------------
(* Claims and resets                                                       *)

LEMMA InitClaims == ASSUME Init PROVE ClaimsInv
<1>1. \A h \in Handles : claimed[h] = {} BY DEF Init
<1>2. \A i \in Ifaces : driver[i] \notin Handles BY HandlesAssumption DEF Init
<1>3. \A t \in Threads : pc[t] = "idle" /\ iface[t] = 0 /\ using[t] \in Handles BY DEF Init
<1>4. LocksInv BY <1>3 DEF LocksInv, Locking
<1>5. OwnedIsClaimed /\ BoundInv BY <1>2 DEF OwnedIsClaimed, BoundInv
<1>6. ClaimedIsOwned /\ ReclaimedInv BY <1>1, <1>3 DEF ClaimedIsOwned, ReclaimedInv
<1>7. QED BY <1>4, <1>5, <1>6 DEF ClaimsInv

\* What no interface, no claim and no reset is touched by.
LEMMA ClaimsSame ==
  ASSUME TypeOK, ClaimsInv, UNCHANGED <<attached, active, driver, claimed, lock, shaken, using, iface>>,
         \A u \in Threads : pc'[u] = pc[u] \/ (~Resetting(u) /\ ~Resetting(u)')
  PROVE  ClaimsInv'
<1>1. \A u \in Threads : Resetting(u)' <=> Resetting(u) BY DEF Resetting
<1>2. \A u \in Threads : Locking(u)' <=> Locking(u) BY DEF Resetting, Locking, ResetSteps
<1>3. \A u \in Threads, i \in Ifaces : Passed(u, i)' <=> Passed(u, i) BY DEF Resetting, Passed, At, ResetSteps
<1>4. \A u \in Threads : OnlyReset(u)' <=> OnlyReset(u) BY <1>1 DEF OnlyReset
<1>5. OwnedIsClaimed' /\ BoundInv' BY DEF ClaimsInv, OwnedIsClaimed, BoundInv
<1>6. ClaimedIsOwned' BY <1>1 DEF ClaimsInv, ClaimedIsOwned
<1>7. LocksInv' BY <1>2 DEF ClaimsInv, LocksInv, Resetting, ResetSteps
<1>8. ReclaimedInv' BY <1>3, <1>4 DEF ClaimsInv, ReclaimedInv, TypeOK
<1>9. QED BY <1>5, <1>6, <1>7, <1>8 DEF ClaimsInv

\* A thread that has passed interfaces holds the lock of its handle.
LEMMA PassedLocks == ASSUME ClaimsInv, NEW t \in Threads, NEW i, Passed(t, i) PROVE lock[using[t]] = t
BY DEF ClaimsInv, LocksInv, Locking, Passed, At

LEMMA InterfacesClaims ==
  ASSUME TypeOK, ClaimsInv, NEW t \in Threads, NEW i \in Ifaces,
         ClaimInterface(t, i) \/ ReleaseInterface(t, i) \/ DetachKernelDriver(t, i) \/ AttachKernelDriver(t, i)
  PROVE  ClaimsInv'
<1> DEFINE h == using[t]
<1>0. h \in Handles /\ h # Unbound /\ Kernel \notin Handles /\ Unbound \notin Handles /\ NoThread \notin Threads
  BY HandlesAssumption DEF TypeOK
<1>1. PICK d : Bind(t, i, d) /\ attached
  BY DEF ClaimInterface, ReleaseInterface, DetachKernelDriver, AttachKernelDriver, CanClaim, CanRelease
<1>2. /\ UNCHANGED <<attached, active, lock, shaken, using, iface, pc>>
      /\ driver'[i] = d /\ \A j \in Ifaces : j # i => driver'[j] = driver[j]
  BY <1>1 DEF Bind, TypeOK
<1>3. /\ \A u \in Threads : Resetting(u)' <=> Resetting(u)
      /\ \A u \in Threads : OnlyReset(u)' <=> OnlyReset(u)
      /\ \A u \in Threads, j \in Ifaces : Passed(u, j)' <=> Passed(u, j)
      /\ LocksInv'
  BY <1>2 DEF Resetting, OnlyReset, Passed, At, LocksInv, Locking, ClaimsInv
<1>4. CASE ClaimInterface(t, i)
  <2>1. /\ d = h /\ driver[i] \in {Unbound, h} /\ active # Unconfigured /\ lock[h] = NoThread
        /\ claimed'[h] = claimed[h] \cup {i} /\ \A g \in Handles : g # h => claimed'[g] = claimed[g]
    BY <1>0, <1>1, <1>2, <1>4 DEF ClaimInterface, Bind, CanClaim, Unlocked, TypeOK
  <2>2. OwnedIsClaimed' BY <1>0, <1>2, <2>1 DEF OwnedIsClaimed, ClaimsInv
  <2>3. BoundInv' BY <1>1, <1>2, <2>1 DEF BoundInv
  <2>4. ClaimedIsOwned'
    <3>1. ASSUME NEW g \in Handles \ shaken, \A u \in Threads : using[u] = g => ~Resetting(u), NEW j \in claimed'[g]
          PROVE  driver'[j] = g
      <4>1. j \in Ifaces /\ (j \in claimed[g] => driver[j] = g)
        BY <2>1, <3>1 DEF ClaimedIsOwned, ClaimsInv, TypeOK
      <4>2. j \in claimed[g] \/ (g = h /\ j = i) BY <2>1, <3>1
      <4>3. QED BY <1>0, <1>2, <2>1, <3>1, <4>1, <4>2
    <3>2. QED BY <1>2, <1>3, <3>1 DEF ClaimedIsOwned
  <2>5. ASSUME NEW u \in Threads, using[u] \notin shaken, OnlyReset(u), NEW j \in claimed'[using[u]], Passed(u, j)
        PROVE  driver'[j] = using[u]
    <3>1. using[u] # h BY <1>0, <2>1, <2>5, PassedLocks
    <3>2. using[u] \in Handles /\ j \in claimed[using[u]] BY <2>1, <2>5, <3>1 DEF TypeOK
    <3>3. driver[j] = using[u] /\ j \in Ifaces BY <2>5, <3>2 DEF ClaimsInv, ReclaimedInv, TypeOK
    <3>4. QED BY <1>0, <1>2, <2>1, <3>1, <3>2, <3>3
  <2>6. ReclaimedInv'
    <3>1. ASSUME NEW u \in Threads PROVE claimed'[using[u]] \subseteq Ifaces BY <2>1 DEF TypeOK
    <3>2. QED BY <1>2, <1>3, <2>5, <3>1 DEF ReclaimedInv
  <2>7. QED BY <1>3, <2>2, <2>3, <2>4, <2>6 DEF ClaimsInv
<1>5. CASE ReleaseInterface(t, i)
  <2>1. /\ d = Unbound /\ driver[i] = h /\ lock[h] = NoThread
        /\ claimed'[h] = claimed[h] \ {i} /\ \A g \in Handles : g # h => claimed'[g] = claimed[g]
    BY <1>0, <1>1, <1>2, <1>5 DEF ReleaseInterface, Bind, CanRelease, Unlocked, TypeOK
  <2>2. OwnedIsClaimed' BY <1>0, <1>2, <2>1 DEF OwnedIsClaimed, ClaimsInv, TypeOK
  <2>3. BoundInv' BY <1>0, <1>2, <2>1 DEF BoundInv, ClaimsInv
  <2>4. ClaimedIsOwned'
    <3>1. ASSUME NEW g \in Handles \ shaken, \A u \in Threads : using[u] = g => ~Resetting(u), NEW j \in claimed'[g]
          PROVE  driver'[j] = g
      <4>1. j \in Ifaces /\ (j \in claimed[g] => driver[j] = g)
        BY <2>1, <3>1 DEF ClaimedIsOwned, ClaimsInv, TypeOK
      <4>2. j \in claimed[g] \/ (g = h /\ j = i) BY <2>1, <3>1
      <4>3. QED BY <1>0, <1>2, <2>1, <3>1, <4>1, <4>2
    <3>2. QED BY <1>2, <1>3, <3>1 DEF ClaimedIsOwned
  <2>5. ASSUME NEW u \in Threads, using[u] \notin shaken, OnlyReset(u), NEW j \in claimed'[using[u]], Passed(u, j)
        PROVE  driver'[j] = using[u]
    <3>1. using[u] # h BY <1>0, <2>1, <2>5, PassedLocks
    <3>2. using[u] \in Handles /\ j \in claimed[using[u]] BY <2>1, <2>5, <3>1 DEF TypeOK
    <3>3. driver[j] = using[u] /\ j \in Ifaces BY <2>5, <3>2 DEF ClaimsInv, ReclaimedInv, TypeOK
    <3>4. QED BY <1>0, <1>2, <2>1, <3>1, <3>2, <3>3
  <2>6. ReclaimedInv'
    <3>1. ASSUME NEW u \in Threads PROVE claimed'[using[u]] \subseteq Ifaces BY <2>1 DEF TypeOK
    <3>2. QED BY <1>2, <1>3, <2>5, <3>1 DEF ReclaimedInv
  <2>7. QED BY <1>3, <2>2, <2>3, <2>4, <2>6 DEF ClaimsInv
<1>6. CASE DetachKernelDriver(t, i) \/ AttachKernelDriver(t, i)
  <2>1. driver[i] \notin Handles /\ driver'[i] \notin Handles /\ UNCHANGED claimed
    BY <1>0, <1>6 DEF DetachKernelDriver, AttachKernelDriver, Bind, TypeOK
  <2>2. \A j \in Ifaces, g \in Handles : driver'[j] = g <=> driver[j] = g BY <1>2, <2>1
  <2>3. OwnedIsClaimed' BY <1>2, <2>1, <2>2 DEF OwnedIsClaimed, ClaimsInv
  <2>4. BoundInv' BY <1>2, <2>1, <2>2 DEF BoundInv, ClaimsInv
  <2>5. ClaimedIsOwned' BY <1>2, <1>3, <2>1, <2>2 DEF ClaimedIsOwned, ClaimsInv, TypeOK
  <2>6. ReclaimedInv' BY <1>2, <1>3, <2>1, <2>2 DEF ReclaimedInv, ClaimsInv, TypeOK
  <2>7. QED BY <1>3, <2>3, <2>4, <2>5, <2>6 DEF ClaimsInv
<1>7. QED BY <1>4, <1>5, <1>6

\* A reset that begins has passed nothing, and hides the others of its handle.
LEMMA ResetDeviceClaims == ASSUME TypeOK, ClaimsInv, NEW t \in Threads, ResetDevice(t) PROVE ClaimsInv'
<1>1. /\ pc[t] = "idle" /\ pc' = [pc EXCEPT ![t] = "release"]
      /\ UNCHANGED <<attached, active, driver, claimed, lock, shaken, using, iface>>
  BY DEF ResetDevice, Idle, At, Go, kernelv, handlev
<1>2. \A u \in Threads : Resetting(u) => Resetting(u)' BY <1>1 DEF Resetting, TypeOK, ResetSteps
<1>3. \A u \in Threads : OnlyReset(u)' => OnlyReset(u) BY <1>1, <1>2 DEF OnlyReset
<1>4. \A u \in Threads, i \in Ifaces : Passed(u, i)' => Passed(u, i) BY <1>1 DEF Passed, At, TypeOK
<1>5. \A u \in Threads : claimed[using[u]] \subseteq Ifaces BY DEF TypeOK
<1>6. OwnedIsClaimed' /\ BoundInv' BY <1>1 DEF ClaimsInv, OwnedIsClaimed, BoundInv
<1>7. ClaimedIsOwned' BY <1>1, <1>2 DEF ClaimsInv, ClaimedIsOwned
<1>8. LocksInv' BY <1>1 DEF ClaimsInv, LocksInv, Locking, TypeOK
<1>9. ReclaimedInv' BY <1>1, <1>3, <1>4, <1>5 DEF ClaimsInv, ReclaimedInv
<1>10. QED BY <1>6, <1>7, <1>8, <1>9 DEF ClaimsInv

LEMMA ReleaseNextClaims == ASSUME TypeOK, ClaimsInv, NEW t \in Threads, ReleaseNext(t) PROVE ClaimsInv'
<1> DEFINE h == using[t]
           i == iface[t]
<1>0. h \in Handles /\ i \in Ifaces /\ Kernel \notin Handles /\ Unbound \notin Handles BY HandlesAssumption DEF TypeOK
<1>1. pc[t] = "release" /\ NextIface(t, "lock") BY DEF ReleaseNext, At
<1>2. UNCHANGED <<attached, active, claimed, lock, shaken, using>> BY DEF ReleaseNext, handlev
<1>3. /\ iface' \in [Threads -> Ifaces]
      /\ \A u \in Threads : u # t => pc'[u] = pc[u] /\ iface'[u] = iface[u]
      /\ pc'[t] = "release" \/ (pc'[t] = "lock" /\ iface'[t] = 0)
  BY <1>1, NextIfaceTyped DEF NextIface, Go, At, TypeOK, ResetSteps
<1>4. /\ \A j \in Ifaces : driver'[j] = driver[j] \/ (driver[j] = h /\ driver'[j] = Unbound)
      /\ driver' \in [Ifaces -> Handles \cup {Kernel, Unbound}]
  BY <1>0 DEF ReleaseNext, LetGo, CanRelease, TypeOK
<1>5. /\ Resetting(t) /\ \A u \in Threads : Resetting(u)' <=> Resetting(u)
  BY <1>1, <1>3 DEF Resetting, ResetSteps
<1>6. \A u \in Threads : OnlyReset(u)' <=> OnlyReset(u) BY <1>2, <1>5 DEF OnlyReset
<1>7. /\ \A u \in Threads, j \in Ifaces : u # t => (Passed(u, j)' <=> Passed(u, j))
      /\ \A j \in Ifaces : ~Passed(t, j)'
  BY <1>3 DEF Passed, At
<1>8. OwnedIsClaimed' /\ BoundInv' BY <1>0, <1>2, <1>4 DEF ClaimsInv, OwnedIsClaimed, BoundInv
<1>9. ClaimedIsOwned'
  <2>1. ASSUME NEW g \in Handles \ shaken, \A u \in Threads : using[u] = g => ~Resetting(u), NEW j \in claimed[g]
        PROVE  driver'[j] = g
    <3>1. j \in Ifaces /\ driver[j] = g /\ g # h BY <1>5, <2>1 DEF ClaimsInv, ClaimedIsOwned, TypeOK
    <3>2. QED BY <1>4, <3>1
  <2>2. QED BY <1>2, <1>5, <2>1 DEF ClaimedIsOwned
<1>10. LocksInv' BY <1>1, <1>2, <1>3 DEF ClaimsInv, LocksInv, Locking
<1>11. ReclaimedInv'
  <2>1. ASSUME NEW u \in Threads, using[u] \notin shaken, OnlyReset(u), NEW j \in claimed[using[u]], Passed(u, j), u # t
        PROVE  driver'[j] = using[u]
    <3>1. using[u] # h BY <1>5, <2>1 DEF OnlyReset
    <3>2. j \in Ifaces /\ driver[j] = using[u] BY <2>1 DEF ClaimsInv, ReclaimedInv, TypeOK
    <3>3. QED BY <1>4, <3>1, <3>2
  <2>2. \A u \in Threads : claimed[using[u]] \subseteq Ifaces BY DEF TypeOK
  <2>3. QED BY <1>2, <1>6, <1>7, <2>1, <2>2 DEF ReclaimedInv
<1>12. QED BY <1>8, <1>9, <1>10, <1>11 DEF ClaimsInv

LEMMA LockHandleClaims == ASSUME TypeOK, ClaimsInv, NEW t \in Threads, LockHandle(t) PROVE ClaimsInv'
<1>1. /\ pc[t] = "lock" /\ pc' = [pc EXCEPT ![t] = "reset"] /\ lock[using[t]] = NoThread
      /\ lock' = [lock EXCEPT ![using[t]] = t]
      /\ UNCHANGED <<attached, active, driver, claimed, shaken, using, iface>>
  BY DEF LockHandle, At, Go, Unlocked, kernelv
<1>2. \A u \in Threads : Resetting(u)' <=> Resetting(u) BY <1>1 DEF Resetting, TypeOK, ResetSteps
<1>3. \A u \in Threads : OnlyReset(u)' <=> OnlyReset(u) BY <1>1, <1>2 DEF OnlyReset
<1>4. \A u \in Threads, i \in Ifaces : Passed(u, i)' => Passed(u, i) BY <1>1 DEF Passed, At, TypeOK
<1>5. \A u \in Threads : claimed[using[u]] \subseteq Ifaces BY DEF TypeOK
<1>6. OwnedIsClaimed' /\ BoundInv' BY <1>1 DEF ClaimsInv, OwnedIsClaimed, BoundInv
<1>7. ClaimedIsOwned' BY <1>1, <1>2 DEF ClaimsInv, ClaimedIsOwned
<1>8. LocksInv'
  <2>1. \A u \in Threads : iface'[u] # 0 => pc'[u] \in {"release", "reclaim"} BY <1>1 DEF ClaimsInv, LocksInv, TypeOK
  <2>2. ASSUME NEW u \in Threads, Locking(u)' PROVE lock'[using'[u]] = u
    <3>1. CASE u = t BY <1>1, <3>1 DEF TypeOK
    <3>2. CASE u # t
      <4>1. lock[using[u]] = u BY <1>1, <2>2, <3>2 DEF ClaimsInv, LocksInv, Locking, TypeOK
      <4>2. using[u] # using[t] BY <1>1, <4>1, HandlesAssumption
      <4>3. QED BY <1>1, <4>1, <4>2 DEF TypeOK
    <3>3. QED BY <3>1, <3>2
  <2>3. QED BY <2>1, <2>2 DEF LocksInv
<1>9. ReclaimedInv' BY <1>1, <1>3, <1>4, <1>5 DEF ClaimsInv, ReclaimedInv
<1>10. QED BY <1>6, <1>7, <1>8, <1>9 DEF ClaimsInv

\* The reset of one handle takes away what is bound to another one; who has
\* claimed nothing is not shaken.
LEMMA ResetClaims == ASSUME TypeOK, ClaimsInv, NEW t \in Threads, Reset(t) PROVE ClaimsInv'
<1> DEFINE h == using[t]
<1>0. h \in Handles /\ Kernel \notin Handles /\ Unbound \notin Handles BY HandlesAssumption DEF TypeOK
<1>1. /\ pc[t] = "reset" /\ pc' = [pc EXCEPT ![t] = "reclaim"]
      /\ UNCHANGED <<attached, active, claimed, lock, using, iface>>
      /\ shaken' = shaken \cup ({driver[i] : i \in Ifaces} \cap (Handles \ {h}))
  BY DEF Reset, At, Go
<1>2. \A i \in Ifaces : driver'[i] \notin Handles BY <1>0 DEF Reset
<1>3. Resetting(t) /\ \A u \in Threads : Resetting(u)' <=> Resetting(u) BY <1>1 DEF Resetting, TypeOK, ResetSteps
<1>4. \A u \in Threads : OnlyReset(u)' <=> OnlyReset(u) BY <1>1, <1>3 DEF OnlyReset
<1>5. lock[h] = t /\ iface[t] = 0 BY <1>1 DEF ClaimsInv, LocksInv, Locking
<1>6. \A i \in Ifaces : i >= 0 /\ ~(i < 0) BY HandlesAssumption DEF Ifaces
<1>7. /\ \A u \in Threads, j \in Ifaces : u # t => (Passed(u, j)' <=> Passed(u, j))
      /\ \A j \in Ifaces : ~Passed(t, j)'
  <2>1. \A u \in Threads : u # t => pc'[u] = pc[u] BY <1>1 DEF TypeOK
  <2>2. pc'[t] = "reclaim" /\ iface'[t] = 0 BY <1>1, <1>5 DEF TypeOK
  <2>3. \A u \in Threads, j \in Ifaces : u # t => (Passed(u, j)' <=> Passed(u, j)) BY <1>1, <2>1 DEF Passed, At
  <2>4. \A j \in Ifaces : ~Passed(t, j)' BY <1>6, <2>2 DEF Passed, At
  <2>5. QED BY <2>3, <2>4
<1>8. OwnedIsClaimed' /\ BoundInv' BY <1>2 DEF OwnedIsClaimed, BoundInv
<1>9. ClaimedIsOwned'
  <2>1. ASSUME NEW g \in Handles \ shaken', \A u \in Threads : using[u] = g => ~Resetting(u), NEW j \in claimed[g]
        PROVE  FALSE
    <3>1. g \notin shaken /\ g # h BY <1>1, <1>3, <2>1
    <3>2. j \in Ifaces /\ driver[j] = g BY <2>1, <3>1 DEF ClaimsInv, ClaimedIsOwned, TypeOK
    <3>3. QED BY <1>1, <2>1, <3>1, <3>2
  <2>2. QED BY <1>1, <1>3, <2>1 DEF ClaimedIsOwned
<1>10. LocksInv' BY <1>1, <1>5 DEF ClaimsInv, LocksInv, Locking, TypeOK
<1>11. ReclaimedInv'
  <2>1. ASSUME NEW u \in Threads, using[u] \notin shaken', OnlyReset(u), NEW j \in claimed[using[u]], Passed(u, j), u # t
        PROVE  FALSE
    <3>1. using[u] # h BY <1>5, <2>1, PassedLocks
    <3>2. using[u] \notin shaken /\ using[u] \in Handles BY <1>1, <2>1 DEF TypeOK
    <3>3. j \in Ifaces /\ driver[j] = using[u] BY <2>1, <3>2 DEF ClaimsInv, ReclaimedInv, TypeOK
    <3>4. QED BY <1>1, <2>1, <3>1, <3>2, <3>3
  <2>2. \A u \in Threads : claimed[using[u]] \subseteq Ifaces BY DEF TypeOK
  <2>3. QED BY <1>1, <1>4, <1>7, <2>1, <2>2 DEF ReclaimedInv
<1>12. QED BY <1>8, <1>9, <1>10, <1>11 DEF ClaimsInv

\* An interface that cannot be claimed again is not bound to the handle.
LEMMA ReclaimNextClaims == ASSUME TypeOK, ClaimsInv, NEW t \in Threads, ReclaimNext(t) PROVE ClaimsInv'
<1> DEFINE h == using[t]
           i == iface[t]
<1>0. h \in Handles /\ i \in Ifaces /\ Unbound \notin Handles BY HandlesAssumption DEF TypeOK
<1>1. pc[t] = "reclaim" /\ NextIface(t, "unlock") BY DEF ReclaimNext, At
<1>2. UNCHANGED <<attached, active, lock, shaken, using>> BY DEF ReclaimNext
<1>3. /\ iface' \in [Threads -> Ifaces]
      /\ \A u \in Threads : u # t => pc'[u] = pc[u] /\ iface'[u] = iface[u]
      /\ \/ pc'[t] = "reclaim" /\ iface'[t] = i + 1
         \/ pc'[t] = "unlock" /\ iface'[t] = 0 /\ i = LastIface
  BY <1>1, NextIfaceTyped DEF NextIface, Go, At, TypeOK, ResetSteps
<1>4. /\ \A j \in Ifaces : j # i => driver'[j] = driver[j]
      /\ \A g \in Handles : g # h => claimed'[g] = claimed[g]
      /\ \A j \in Ifaces : j # i => (j \in claimed'[h] <=> j \in claimed[h])
      /\ \/ i \notin claimed[h] /\ i \notin claimed'[h] /\ driver'[i] = driver[i]
         \/ i \in claimed'[h] /\ driver'[i] = h /\ CanClaim(h, i)
         \/ i \notin claimed'[h] /\ driver'[i] = driver[i] /\ ~CanClaim(h, i)
  BY <1>0 DEF ReclaimNext, ClaimedNow, Lost, TypeOK
<1>5. /\ Resetting(t) /\ \A u \in Threads : Resetting(u)' <=> Resetting(u)
  BY <1>1, <1>3 DEF Resetting, ResetSteps
<1>6. \A u \in Threads : OnlyReset(u)' <=> OnlyReset(u) BY <1>2, <1>5 DEF OnlyReset
<1>7. driver[i] = h => CanClaim(h, i) BY <1>0 DEF ClaimsInv, BoundInv, CanClaim
<1>8. \A j \in Ifaces, g \in Handles : g # h => (driver'[j] = g <=> driver[j] = g)
  BY <1>0, <1>4 DEF CanClaim
<1>9. claimed' \in [Handles -> SUBSET Ifaces] BY ResetTyped DEF TypeOK
<1>10. OwnedIsClaimed'
  <2>1. ASSUME NEW j \in Ifaces, driver'[j] \in Handles PROVE j \in claimed'[driver'[j]]
    <3>1. CASE driver'[j] # h BY <1>4, <1>8, <2>1, <3>1 DEF ClaimsInv, OwnedIsClaimed
    <3>2. CASE driver'[j] = h BY <1>0, <1>4, <1>7, <2>1, <3>2 DEF ClaimsInv, OwnedIsClaimed
    <3>3. QED BY <3>1, <3>2
  <2>2. QED BY <2>1 DEF OwnedIsClaimed
<1>11. BoundInv' BY <1>0, <1>2, <1>4 DEF ClaimsInv, BoundInv, CanClaim
<1>12. ClaimedIsOwned'
  <2>1. ASSUME NEW g \in Handles \ shaken, \A u \in Threads : using[u] = g => ~Resetting(u), NEW j \in claimed'[g]
        PROVE  driver'[j] = g
    <3>1. g # h BY <1>5, <2>1
    <3>2. j \in Ifaces /\ j \in claimed[g] BY <1>4, <1>9, <2>1, <3>1
    <3>3. driver[j] = g BY <2>1, <3>2 DEF ClaimsInv, ClaimedIsOwned
    <3>4. QED BY <1>8, <3>1, <3>2, <3>3
  <2>2. QED BY <1>2, <1>5, <2>1 DEF ClaimedIsOwned
<1>13. LocksInv' BY <1>1, <1>2, <1>3 DEF ClaimsInv, LocksInv, Locking
<1>14. \A j \in Ifaces : Passed(t, j)' => j = i \/ Passed(t, j)
  BY <1>0, <1>1, <1>3, HandlesAssumption DEF Passed, At, Ifaces
<1>15. ReclaimedInv'
  <2>1. ASSUME NEW u \in Threads, using[u] \notin shaken, OnlyReset(u), NEW j \in claimed'[using[u]], Passed(u, j)'
        PROVE  driver'[j] = using[u]
    <3>1. using[u] \in Handles BY DEF TypeOK
    <3>2. j \in Ifaces BY <1>9, <2>1, <3>1
    <3>3. CASE u = t
      <4>1. CASE j = i BY <1>4, <2>1, <3>3, <4>1
      <4>2. CASE j # i
        <5>1. Passed(t, j) /\ j \in claimed[h] BY <1>4, <1>14, <2>1, <3>2, <3>3, <4>2
        <5>2. driver[j] = h BY <2>1, <3>3, <5>1 DEF ClaimsInv, ReclaimedInv
        <5>3. QED BY <1>4, <3>2, <3>3, <4>2, <5>2
      <4>3. QED BY <4>1, <4>2
    <3>4. CASE u # t
      <4>1. using[u] # h BY <1>5, <2>1, <3>4 DEF OnlyReset
      <4>2. Passed(u, j) BY <1>3, <2>1, <3>4 DEF Passed, At
      <4>3. driver[j] = using[u] BY <1>4, <2>1, <3>1, <4>1, <4>2 DEF ClaimsInv, ReclaimedInv
      <4>4. QED BY <1>8, <3>1, <3>2, <4>1, <4>3
    <3>5. QED BY <3>3, <3>4
  <2>2. QED BY <1>2, <1>6, <2>1 DEF ReclaimedInv
<1>16. QED BY <1>10, <1>11, <1>12, <1>13, <1>15 DEF ClaimsInv

\* A reset gives the lock back.  If it was the only one of its handle and has
\* passed all interfaces, the claims agree again.
LEMMA ReturnClaims ==
  ASSUME TypeOK, ClaimsInv, NEW t \in Threads, ResetFails(t) \/ UnlockHandle(t) PROVE ClaimsInv'
<1> DEFINE h == using[t]
<1>0. h \in Handles /\ NoThread \notin Threads BY HandlesAssumption DEF TypeOK
<1>1. /\ pc[t] \in {"reset", "unlock"} /\ pc' = [pc EXCEPT ![t] = "idle"]
      /\ lock' = [lock EXCEPT ![h] = NoThread]
      /\ UNCHANGED <<attached, active, driver, claimed, using, iface>>
      /\ shaken \subseteq shaken'
      /\ h \in shaken' \/ pc[t] = "unlock"
  BY DEF ResetFails, UnlockHandle, Return, Go, At, Unlock, kernelv
<1>2. /\ Resetting(t) /\ ~Resetting(t)'
      /\ \A u \in Threads : u # t => (Resetting(u)' <=> Resetting(u))
  BY <1>1 DEF Resetting, TypeOK, ResetSteps
<1>3. /\ lock[h] = t /\ iface[t] = 0
      /\ \A u \in Threads : u # t /\ Locking(u) => using[u] # h
  BY <1>1 DEF ClaimsInv, LocksInv, Locking
<1>4. /\ \A u \in Threads, j \in Ifaces : u # t => (Passed(u, j)' <=> Passed(u, j))
      /\ \A j \in Ifaces : ~Passed(t, j)'
      /\ \A u \in Threads : u # t => (Locking(u)' <=> Locking(u))
      /\ ~Locking(t)'
  BY <1>1 DEF Passed, At, Locking, TypeOK
<1>5. \A u \in Threads : claimed[using[u]] \subseteq Ifaces BY DEF TypeOK
<1>6. OwnedIsClaimed' /\ BoundInv' BY <1>1 DEF ClaimsInv, OwnedIsClaimed, BoundInv
<1>7. ClaimedIsOwned'
  <2>1. ASSUME NEW g \in Handles \ shaken', \A u \in Threads : using[u] = g => ~Resetting(u)', NEW j \in claimed[g]
        PROVE  driver[j] = g
    <3>1. CASE g # h BY <1>1, <1>2, <2>1, <3>1 DEF ClaimsInv, ClaimedIsOwned
    <3>2. CASE g = h
      <4>1. Passed(t, j) /\ h \notin shaken BY <1>1, <2>1, <3>2 DEF Passed, At
      <4>2. OnlyReset(t) BY <1>2, <2>1, <3>2 DEF OnlyReset
      <4>3. QED BY <2>1, <3>2, <4>1, <4>2 DEF ClaimsInv, ReclaimedInv
    <3>3. QED BY <3>1, <3>2
  <2>2. QED BY <1>1, <2>1 DEF ClaimedIsOwned
<1>8. LocksInv'
  <2>1. \A u \in Threads : iface'[u] # 0 => pc'[u] \in {"release", "reclaim"}
    BY <1>1, <1>3 DEF ClaimsInv, LocksInv, TypeOK
  <2>2. \A u \in Threads : Locking(u)' => lock'[using'[u]] = u
    BY <1>1, <1>3, <1>4 DEF ClaimsInv, LocksInv, TypeOK
  <2>3. QED BY <2>1, <2>2 DEF LocksInv
<1>9. ReclaimedInv'
  <2>1. ASSUME NEW u \in Threads, using[u] \notin shaken', OnlyReset(u)', NEW j \in claimed[using[u]], Passed(u, j), u # t
        PROVE  driver[j] = using[u]
    <3>1. using[u] # h BY <1>3, <2>1 DEF Passed, At, Locking
    <3>2. OnlyReset(u) BY <1>1, <1>2, <2>1, <3>1 DEF OnlyReset
    <3>3. QED BY <1>1, <2>1, <3>2 DEF ClaimsInv, ReclaimedInv
  <2>2. QED BY <1>1, <1>4, <1>5, <2>1 DEF ReclaimedInv
<1>10. QED BY <1>6, <1>7, <1>8, <1>9 DEF ClaimsInv

LEMMA UnplugClaims == ASSUME TypeOK, ClaimsInv, Unplug PROVE ClaimsInv'
<1>1. /\ UNCHANGED <<claimed, lock, using, iface, pc>> /\ shaken' = Handles
      /\ \A i \in Ifaces : driver'[i] = Unbound /\ Unbound \notin Handles
  BY HandlesAssumption DEF Unplug
<1>2. OwnedIsClaimed' /\ ClaimedIsOwned' /\ BoundInv' BY <1>1 DEF OwnedIsClaimed, ClaimedIsOwned, BoundInv
<1>3. LocksInv' BY <1>1 DEF ClaimsInv, LocksInv, Locking
<1>4. ReclaimedInv' BY <1>1 DEF ReclaimedInv, TypeOK
<1>5. QED BY <1>2, <1>3, <1>4 DEF ClaimsInv

\* A configuration is set while nothing is bound: no handle that is not being
\* reset or shaken has a claim.
LEMMA SetConfigurationClaims ==
  ASSUME TypeOK, ClaimsInv, NEW t \in Threads, NEW v \in Values \cup {Cleared}, SetConfiguration(t, v) PROVE ClaimsInv'
<1>1. /\ UNCHANGED <<attached, claimed, lock, shaken, using, iface>>
      /\ pc[t] = "idle" /\ pc' \in {pc, [pc EXCEPT ![t] = "cache"]}
      /\ \A i \in Ifaces : driver[i] = Unbound /\ driver'[i] \in {Kernel, Unbound}
      /\ Kernel \notin Handles /\ Unbound \notin Handles
  BY HandlesAssumption DEF SetConfiguration, Idle, At, Go, handlev
<1>2. \A u \in Threads : pc'[u] = pc[u] \/ (~Resetting(u) /\ ~Resetting(u)' /\ ~Locking(u)')
  BY <1>1 DEF Resetting, ResetSteps, Locking, TypeOK
<1>3. \A u \in Threads : Resetting(u)' <=> Resetting(u) BY <1>2 DEF Resetting
<1>4. \A u \in Threads : OnlyReset(u)' <=> OnlyReset(u) BY <1>1, <1>3 DEF OnlyReset
<1>5. \A u \in Threads, j \in Ifaces : Passed(u, j)' <=> Passed(u, j)
  BY <1>1, <1>2 DEF Passed, At, Resetting, ResetSteps
<1>6. OwnedIsClaimed' /\ BoundInv' BY <1>1 DEF OwnedIsClaimed, BoundInv
<1>7. ClaimedIsOwned' BY <1>1, <1>3 DEF ClaimsInv, ClaimedIsOwned, TypeOK
<1>8. LocksInv' BY <1>1, <1>2 DEF ClaimsInv, LocksInv, Locking, Resetting, ResetSteps
<1>9. ReclaimedInv' BY <1>1, <1>4, <1>5 DEF ClaimsInv, ReclaimedInv, TypeOK
<1>10. QED BY <1>6, <1>7, <1>8, <1>9 DEF ClaimsInv

\* Descriptors are read without touching an interface.
LEMMA DescriptorsClaims ==
  ASSUME TypeOK, ClaimsInv, NEW t \in Threads,
         \/ ReadCached(t) \/ ReadValue(t) \/ ReadDescriptors(t) \/ ReadNode(t)
         \/ GetActiveConfig(t) \/ FreeConfig(t) \/ CacheConfiguration(t)
         \/ \E v \in Asks[t] : GetConfigDescriptor(t, v)
  PROVE  ClaimsInv'
<1>1. CASE ReadCached(t) \/ ReadValue(t) \/ ReadDescriptors(t) \/ ReadNode(t)
  <2>1. /\ UNCHANGED <<kernelv, handlev, using, iface>>
        /\ \A u \in Threads : u # t => pc'[u] = pc[u]
        /\ pc[t] \in ReadSteps /\ pc'[t] \in ReadSteps
    BY <1>1, ReadMoves
  <2>2. QED BY <2>1, ClaimsSame DEF Resetting, ResetSteps, ReadSteps, kernelv, handlev
<1>2. CASE GetActiveConfig(t) \/ FreeConfig(t) \/ CacheConfiguration(t) \/ \E v \in Asks[t] : GetConfigDescriptor(t, v)
  <2>1. /\ UNCHANGED <<kernelv, handlev, using, iface>>
        /\ pc[t] \in {"idle", "return", "cache"}
        /\ \E l \in {"idle", "value", "cached", "node"} : pc' = [pc EXCEPT ![t] = l]
    BY <1>2 DEF GetActiveConfig, FreeConfig, CacheConfiguration, GetConfigDescriptor, Go, Idle, At, First
  <2>2. QED BY <2>1, ClaimsSame DEF Resetting, ResetSteps, TypeOK, kernelv, handlev
<1>3. QED BY <1>1, <1>2

LEMMA NextClaims == ASSUME TypeOK, ClaimsInv, [Next]_vars PROVE ClaimsInv'
<1>1. CASE UNCHANGED vars BY <1>1, ClaimsSame DEF vars, kernelv, handlev
<1>2. ASSUME NEW t \in Threads, Call(t) PROVE ClaimsInv'
  BY <1>2, InterfacesClaims, ResetDeviceClaims, SetConfigurationClaims, DescriptorsClaims DEF Call, Values
<1>3. ASSUME NEW t \in Threads, Step(t) PROVE ClaimsInv'
  BY <1>3, ReleaseNextClaims, LockHandleClaims, ResetClaims, ReclaimNextClaims, ReturnClaims, DescriptorsClaims DEF Step
<1>4. QED BY <1>1, <1>2, <1>3, UnplugClaims DEF Next

\* The claims of every handle agree with the kernel's account of them,
\* whatever is claimed, released, detached, reset and unplugged meanwhile.
THEOREM ClaimsAgreeCorrect == Spec => []ClaimsAgree
<1>1. Init => TypeOK /\ ClaimsInv BY InitTyped, InitClaims
<1>2. TypeOK /\ ClaimsInv /\ [Next]_vars => (TypeOK /\ ClaimsInv)' BY NextTyped, NextClaims
<1>3. TypeOK /\ ClaimsInv => ClaimsAgree BY DEF ClaimsInv, ClaimsAgree
<1>4. QED BY <1>1, <1>2, <1>3, PTL DEF Spec

-----------------------------------------------------------------------------
(* A reset that nobody disturbs                                            *)

\* The second part of AloneInv, for one reset.
Kept(t) ==
  Resetting(t) /\ alone[t] =>
    /\ claimed[using[t]] = before[t]
    /\ \A i \in before[t] : attached /\ active # Unconfigured /\ driver[i] = IF Awaits(t, i) THEN Unbound ELSE using[t]

\* What leaves a thread alone.
LEMMA Undisturbed ==
  ASSUME NEW t \in Threads, NEW u \in Threads, Rebinds(t), alone'[u]
  PROVE  alone[u] /\ (u = t \/ ~Resetting(u))
BY Zenon DEF Rebinds

LEMMA Unconfigures ==
  ASSUME NEW t \in Threads, NEW u \in Threads, Reconfigures(t), alone'[u]
  PROVE  u = t \/ Idle(u) \/ asked[u] # Unconfigured
BY Zenon DEF Reconfigures

LEMMA InitAlone == ASSUME Init PROVE AloneInv
BY DEF Init, AloneInv, Resetting, ResetSteps

LEMMA KeptSame ==
  ASSUME NEW u \in Threads, Kept(u), Resetting(u)' => Resetting(u), alone'[u] => alone[u],
         UNCHANGED <<attached, active, driver, claimed, using, before[u], iface[u], pc[u]>>
  PROVE  Kept(u)'
BY DEF Kept, Awaits, At

\* Who asks for a configuration by number reads it.
LEMMA AskedReads ==
  ASSUME TypeOK, \A u \in Threads : asked[u] # Unconfigured => pc[u] \in ReadSteps, [Next]_vars
  PROVE  \A u \in Threads : asked'[u] # Unconfigured => pc'[u] \in ReadSteps
<1>1. CASE UNCHANGED vars BY <1>1 DEF vars, readv
<1>2. CASE Unplug BY <1>2 DEF Unplug, readv
<1>3. ASSUME NEW t \in Threads, NEW i \in Ifaces,
             ClaimInterface(t, i) \/ ReleaseInterface(t, i) \/ DetachKernelDriver(t, i) \/ AttachKernelDriver(t, i)
      PROVE  UNCHANGED <<asked, pc>>
  BY <1>3 DEF ClaimInterface, ReleaseInterface, DetachKernelDriver, AttachKernelDriver, Bind, readv
<1>4. ASSUME NEW t \in Threads,
             \/ ResetDevice(t) \/ ReleaseNext(t) \/ LockHandle(t) \/ Reset(t) \/ ResetFails(t) \/ ReclaimNext(t) \/ UnlockHandle(t)
             \/ CacheConfiguration(t) \/ \E v \in Values \cup {Cleared} : SetConfiguration(t, v)
      PROVE  /\ UNCHANGED asked
             /\ pc[t] \notin ReadSteps /\ \A u \in Threads : u # t => pc'[u] = pc[u]
  BY <1>4 DEF ResetDevice, ReleaseNext, LockHandle, Reset, ResetFails, ReclaimNext, UnlockHandle, Return,
    CacheConfiguration, SetConfiguration, NextIface, Go, Idle, At, ReadSteps, TypeOK, readv
<1>5. ASSUME NEW t \in Threads, ReadCached(t) \/ ReadValue(t) \/ ReadDescriptors(t) \/ ReadNode(t)
      PROVE  UNCHANGED asked
  BY <1>5 DEF ReadCached, ReadValue, ReadDescriptors, ReadNode, Got, Fails
<1>6. ASSUME NEW t \in Threads, GetActiveConfig(t) \/ FreeConfig(t) \/ \E v \in Asks[t] : GetConfigDescriptor(t, v)
      PROVE  /\ \A u \in Threads : u # t => pc'[u] = pc[u] /\ asked'[u] = asked[u]
             /\ asked'[t] # Unconfigured => pc'[t] \in ReadSteps
  BY <1>6 DEF GetActiveConfig, FreeConfig, GetConfigDescriptor, Go, Idle, At, ReadSteps, First, TypeOK, readv
<1>7. ASSUME NEW t \in Threads, Call(t)
      PROVE  \A u \in Threads : asked'[u] # Unconfigured => pc'[u] \in ReadSteps
  BY <1>3, <1>4, <1>6, <1>7 DEF Call, Values
<1>8. ASSUME NEW t \in Threads, Step(t)
      PROVE  \A u \in Threads : asked'[u] # Unconfigured => pc'[u] \in ReadSteps
  <2>1. CASE ReadCached(t) \/ ReadValue(t) \/ ReadDescriptors(t) \/ ReadNode(t)
    BY <1>5, <2>1, ReadMoves
  <2>2. CASE ~(ReadCached(t) \/ ReadValue(t) \/ ReadDescriptors(t) \/ ReadNode(t))
    BY <1>4, <1>6, <1>8, <2>2 DEF Step
  <2>3. QED BY <2>1, <2>2
<1>9. QED BY <1>1, <1>2, <1>7, <1>8 DEF Next

LEMMA KeptByReset ==
  ASSUME TypeOK, ClaimsInv, NEW t \in Threads, Kept(t),
         ReleaseNext(t) \/ LockHandle(t) \/ Reset(t) \/ ReclaimNext(t) \/ ResetDevice(t)
  PROVE  Kept(t)'
<1> DEFINE h == using[t]
           i == iface[t]
<1>0. /\ h \in Handles /\ i \in Ifaces /\ before[t] \subseteq Ifaces /\ claimed[h] \subseteq Ifaces
      /\ Unbound \notin Handles /\ \A j \in Ifaces : j \in 0 .. LastIface /\ LastIface \in Nat
  BY HandlesAssumption DEF TypeOK, Ifaces
<1>1. CASE ResetDevice(t)
  <2>1. /\ pc[t] = "idle" /\ pc'[t] = "release" /\ before'[t] = claimed[h] /\ iface'[t] = 0
        /\ UNCHANGED <<attached, active, driver, claimed, using>>
    BY <1>1 DEF ResetDevice, Idle, At, Go, kernelv, handlev, TypeOK, ClaimsInv, LocksInv
  <2>2. alone'[t] => h \notin shaken /\ \A u \in Threads : using[u] = h => ~Resetting(u)
    BY <1>1, Zenon DEF ResetDevice, TypeOK
  <2>3. \A j \in Ifaces : ~Awaits(t, j)' BY <1>0, <2>1 DEF Awaits, At
  <2>4. ASSUME alone'[t], NEW j \in claimed[h] PROVE driver[j] = h /\ attached /\ active # Unconfigured
    <3>1. driver[j] = h /\ j \in Ifaces BY <1>0, <2>2, <2>4 DEF ClaimsInv, ClaimedIsOwned
    <3>2. QED BY <1>0, <3>1 DEF ClaimsInv, BoundInv
  <2>5. QED BY <1>0, <2>1, <2>3, <2>4 DEF Kept
<1>2. CASE ReleaseNext(t)
  <2>1. /\ pc[t] = "release" /\ UNCHANGED <<attached, active, claimed, using, before>> /\ Rebinds(t)
        /\ NextIface(t, "lock")
    BY <1>2 DEF ReleaseNext, At, handlev
  <2>2. \/ pc'[t] = "release" /\ iface'[t] = i + 1
        \/ pc'[t] = "lock" /\ i = LastIface
    BY <2>1 DEF NextIface, Go, TypeOK
  <2>3. alone'[t] => alone[t] BY <2>1, Undisturbed
  <2>4. Resetting(t) BY <2>1 DEF Resetting, ResetSteps
  <2>5. \A j \in Ifaces : Awaits(t, j)' <=> (j = i \/ Awaits(t, j))
    BY <1>0, <2>1, <2>2 DEF Awaits, At
  <2>6. ASSUME alone[t], NEW j \in before[t]
        PROVE  attached /\ active # Unconfigured /\ driver'[j] = IF Awaits(t, j)' THEN Unbound ELSE h
    <3>1. attached /\ active # Unconfigured /\ j \in claimed[h] /\ j \in Ifaces
      BY <1>0, <2>4, <2>6 DEF Kept
    <3>2. driver[j] = IF Awaits(t, j) THEN Unbound ELSE h BY <2>4, <2>6 DEF Kept
    <3>3. ~Awaits(t, i) BY <1>0, <2>1 DEF Awaits, At
    <3>4. driver' = LetGo(h, i) BY <1>2 DEF ReleaseNext
    <3>5. CASE j = i
      <4>1. driver[j] = h BY <3>2, <3>3, <3>5
      <4>2. CanRelease(h, i) BY <3>1, <3>5, <4>1 DEF CanRelease
      <4>3. driver'[j] = Unbound BY <1>0, <3>1, <3>4, <3>5, <4>2 DEF LetGo, TypeOK
      <4>4. QED BY <1>0, <2>5, <3>1, <3>5, <4>3
    <3>6. CASE j # i
      <4>1. driver'[j] = driver[j] BY <1>0, <3>1, <3>4, <3>6 DEF LetGo, TypeOK
      <4>2. QED BY <2>5, <3>1, <3>2, <3>6, <4>1
    <3>7. QED BY <3>5, <3>6
  <2>7. QED BY <2>1, <2>3, <2>4, <2>6 DEF Kept
<1>3. CASE LockHandle(t)
  <2>1. /\ pc[t] = "lock" /\ pc'[t] = "reset"
        /\ UNCHANGED <<attached, active, driver, claimed, using, before, alone>>
    BY <1>3 DEF LockHandle, At, Go, kernelv, TypeOK
  <2>2. \A j : Awaits(t, j)' /\ Awaits(t, j) BY <2>1 DEF Awaits, At
  <2>3. QED BY <2>1, <2>2 DEF Kept, Resetting, ResetSteps
<1>4. CASE Reset(t)
  <2>1. /\ pc[t] = "reset" /\ pc'[t] = "reclaim" /\ iface'[t] = 0
        /\ UNCHANGED <<attached, active, claimed, using, before>> /\ Rebinds(t)
    BY <1>4 DEF Reset, At, Go, TypeOK, ClaimsInv, LocksInv
  <2>2. alone'[t] => alone[t] BY <2>1, Undisturbed
  <2>3. \A j \in Ifaces : Awaits(t, j)' /\ Awaits(t, j) BY <1>0, <2>1 DEF Awaits, At
  <2>4. \A j \in Ifaces : driver[j] = Unbound => driver'[j] = Unbound BY <1>0, <1>4 DEF Reset
  <2>5. QED BY <1>0, <2>1, <2>2, <2>3, <2>4 DEF Kept, Resetting, ResetSteps
<1>5. CASE ReclaimNext(t)
  <2>1. /\ pc[t] = "reclaim" /\ UNCHANGED <<attached, active, using, before>> /\ Rebinds(t)
        /\ NextIface(t, "unlock")
    BY <1>5 DEF ReclaimNext, At
  <2>2. \/ pc'[t] = "reclaim" /\ iface'[t] = i + 1
        \/ pc'[t] = "unlock" /\ i = LastIface
    BY <2>1 DEF NextIface, Go, TypeOK
  <2>3. alone'[t] => alone[t] BY <2>1, Undisturbed
  <2>4. Resetting(t) BY <2>1 DEF Resetting, ResetSteps
  <2>5. \A j \in Ifaces : Awaits(t, j)' <=> (j # i /\ Awaits(t, j))
    BY <1>0, <2>1, <2>2 DEF Awaits, At
  <2>6. Awaits(t, i) BY <1>0, <2>1 DEF Awaits, At
  <2>7. ASSUME alone[t]
        PROVE  /\ claimed' = claimed
               /\ \A j \in Ifaces : j # i => driver'[j] = driver[j]
               /\ i \in claimed[h] => driver'[i] = h
    <3>1. CASE i \in claimed[h]
      <4>1. attached /\ active # Unconfigured /\ driver[i] = Unbound BY <2>4, <2>6, <2>7, <3>1 DEF Kept
      <4>2. CanClaim(h, i) BY <4>1 DEF CanClaim
      <4>3. QED BY <1>0, <1>5, <3>1, <4>2 DEF ReclaimNext, ClaimedNow, TypeOK
    <3>2. CASE i \notin claimed[h] BY <1>5, <3>2 DEF ReclaimNext, ClaimedNow
    <3>3. QED BY <3>1, <3>2
  <2>8. ASSUME alone[t], NEW j \in before[t]
        PROVE  attached /\ active # Unconfigured /\ driver'[j] = IF Awaits(t, j)' THEN Unbound ELSE h
    <3>1. /\ attached /\ active # Unconfigured /\ j \in claimed[h] /\ j \in Ifaces
          /\ driver[j] = IF Awaits(t, j) THEN Unbound ELSE h
      BY <1>0, <2>4, <2>8 DEF Kept
    <3>2. CASE j = i BY <2>5, <2>7, <2>8, <3>1, <3>2
    <3>3. CASE j # i BY <2>5, <2>7, <2>8, <3>1, <3>3
    <3>4. QED BY <3>2, <3>3
  <2>9. QED BY <2>1, <2>3, <2>4, <2>7, <2>8 DEF Kept
<1>6. QED BY <1>1, <1>2, <1>3, <1>4, <1>5

\* The steps of another thread either disturb a reset or leave it as it is.
LEMMA KeptByOthers ==
  ASSUME TypeOK, AloneInv, NEW t \in Threads, Call(t) \/ Step(t), NEW u \in Threads, u # t
  PROVE  Kept(u)'
<1>0. Kept(u) /\ (Resetting(u) => asked[u] = Unconfigured /\ ~Idle(u))
  BY DEF AloneInv, Kept, Resetting, ResetSteps, ReadSteps, Idle, At
<1>1. ASSUME NEW i \in Ifaces,
             ClaimInterface(t, i) \/ ReleaseInterface(t, i) \/ DetachKernelDriver(t, i) \/ AttachKernelDriver(t, i)
      PROVE  Kept(u)'
  <2>1. Rebinds(t) /\ UNCHANGED pc
    BY <1>1 DEF ClaimInterface, ReleaseInterface, DetachKernelDriver, AttachKernelDriver, Bind
  <2>2. QED BY <2>1, Undisturbed DEF Kept, Resetting
<1>2. CASE ReleaseNext(t) \/ Reset(t) \/ ReclaimNext(t)
  <2>1. Rebinds(t) /\ pc'[u] = pc[u]
    BY <1>2 DEF ReleaseNext, Reset, ReclaimNext, NextIface, Go, TypeOK
  <2>2. QED BY <2>1, Undisturbed DEF Kept, Resetting
<1>3. CASE CacheConfiguration(t) \/ \E v \in Values \cup {Cleared} : SetConfiguration(t, v)
  <2>1. Reconfigures(t) /\ pc'[u] = pc[u]
    BY <1>3 DEF CacheConfiguration, SetConfiguration, Go, TypeOK
  <2>2. QED BY <1>0, <2>1, Unconfigures DEF Kept, Resetting
<1>4. CASE \/ ResetDevice(t) \/ LockHandle(t) \/ ResetFails(t) \/ UnlockHandle(t)
           \/ GetActiveConfig(t) \/ FreeConfig(t) \/ \E v \in Asks[t] : GetConfigDescriptor(t, v)
  <2>1. UNCHANGED <<attached, active, driver, claimed, using, iface>>
    BY <1>4 DEF ResetDevice, LockHandle, ResetFails, UnlockHandle, Return, GetActiveConfig, FreeConfig,
      GetConfigDescriptor, kernelv, handlev
  <2>2. pc'[u] = pc[u] /\ before'[u] = before[u]
    BY <1>4 DEF ResetDevice, LockHandle, ResetFails, UnlockHandle, Return, GetActiveConfig, FreeConfig,
      GetConfigDescriptor, Go, TypeOK
  <2>3. alone'[u] = alone[u]
    BY <1>4, Zenon DEF ResetDevice, LockHandle, ResetFails, UnlockHandle, Return, GetActiveConfig, FreeConfig,
      GetConfigDescriptor, TypeOK
  <2>4. QED BY <1>0, <2>1, <2>2, <2>3, KeptSame DEF Resetting
<1>5. CASE ReadCached(t) \/ ReadValue(t) \/ ReadDescriptors(t) \/ ReadNode(t)
  <2>1. UNCHANGED <<attached, active, driver, claimed, using, before, iface, alone>> /\ pc'[u] = pc[u]
    BY <1>5, ReadMoves DEF kernelv, handlev
  <2>2. QED BY <1>0, <2>1, KeptSame DEF Resetting
<1>6. QED BY <1>1, <1>2, <1>3, <1>4, <1>5 DEF Call, Step, Values

\* A thread that is not in a reset has nothing to keep.
LEMMA KeptByItself ==
  ASSUME TypeOK, ClaimsInv, AloneInv, NEW t \in Threads, Call(t) \/ Step(t)
  PROVE  Kept(t)'
<1>0. Kept(t) BY DEF AloneInv, Kept
<1>1. CASE ReleaseNext(t) \/ LockHandle(t) \/ Reset(t) \/ ReclaimNext(t) \/ ResetDevice(t)
  BY <1>0, <1>1, KeptByReset
<1>2. ASSUME NEW i \in Ifaces,
             ClaimInterface(t, i) \/ ReleaseInterface(t, i) \/ DetachKernelDriver(t, i) \/ AttachKernelDriver(t, i)
      PROVE  Kept(t)'
  <2>1. pc'[t] = "idle"
    BY <1>2 DEF ClaimInterface, ReleaseInterface, DetachKernelDriver, AttachKernelDriver, Bind, Idle, At
  <2>2. QED BY <2>1 DEF Kept, Resetting, ResetSteps
<1>3. CASE \/ ResetFails(t) \/ UnlockHandle(t) \/ GetActiveConfig(t) \/ FreeConfig(t) \/ CacheConfiguration(t)
           \/ \E v \in Values \cup {Cleared} : SetConfiguration(t, v)
           \/ \E v \in Asks[t] : GetConfigDescriptor(t, v)
  <2>1. pc'[t] \in {"idle", "cache", "value", "cached", "node"}
    BY <1>3 DEF ResetFails, UnlockHandle, Return, GetActiveConfig, FreeConfig, CacheConfiguration,
      SetConfiguration, GetConfigDescriptor, Go, Idle, At, First, TypeOK
  <2>2. QED BY <2>1 DEF Kept, Resetting, ResetSteps
<1>4. CASE ReadCached(t) \/ ReadValue(t) \/ ReadDescriptors(t) \/ ReadNode(t)
  BY <1>4, ReadMoves DEF Kept, Resetting, ResetSteps, ReadSteps
<1>5. QED BY <1>1, <1>2, <1>3, <1>4 DEF Call, Step, Values

LEMMA NextAlone == ASSUME TypeOK, ClaimsInv, AloneInv, [Next]_vars PROVE AloneInv'
<1>1. \A u \in Threads : asked'[u] # Unconfigured => pc'[u] \in ReadSteps BY AskedReads DEF AloneInv
<1>2. ASSUME NEW u \in Threads PROVE Kept(u)'
  <2>0. Kept(u) BY DEF AloneInv, Kept
  <2>1. CASE UNCHANGED vars BY <2>0, <2>1, KeptSame DEF vars, kernelv, handlev, Resetting
  <2>2. CASE Unplug
    <3>1. UNCHANGED pc /\ (alone'[u] => Idle(u)) BY <2>2, Zenon DEF Unplug
    <3>2. QED BY <3>1 DEF Kept, Resetting, ResetSteps, Idle, At
  <2>3. ASSUME NEW t \in Threads, Call(t) \/ Step(t) PROVE Kept(u)'
    BY <2>3, KeptByOthers, KeptByItself
  <2>4. QED BY <2>1, <2>2, <2>3 DEF Next
<1>3. QED BY <1>1, <1>2 DEF AloneInv, Kept

\* A reset that nobody disturbs ends with the interfaces it began with.
THEOREM ResetKeepsClaimsCorrect == Spec => []ResetKeepsClaims
<1>1. Init => TypeOK /\ ClaimsInv /\ AloneInv BY InitTyped, InitClaims, InitAlone
<1>2. TypeOK /\ ClaimsInv /\ AloneInv /\ [Next]_vars => (TypeOK /\ ClaimsInv /\ AloneInv)'
  BY NextTyped, NextClaims, NextAlone
<1>3. TypeOK /\ ClaimsInv /\ AloneInv => ResetKeepsClaims
  BY DEF AloneInv, ResetKeepsClaims, Resetting, ResetSteps, Awaits, At
<1>4. QED BY <1>1, <1>2, <1>3, PTL DEF Spec

-----------------------------------------------------------------------------
(* Reading the descriptors                                                 *)

LEMMA InitRead == ASSUME Init PROVE ReadInv
BY DEF Init, ReadInv, ReadSound, At, ReadSteps

\* What others do to a thread that reads: they disturb it, or they leave the
\* device as it is.
LEMMA OthersRead ==
  ASSUME TypeOK, DOMAIN result = Threads, NEW t \in Threads, Call(t) \/ Step(t), NEW u \in Threads, u # t
  PROVE  /\ UNCHANGED <<device, mode, attached>> /\ DOMAIN result' = DOMAIN result
         /\ UNCHANGED <<pc[u], asked[u], header[u], value[u], result[u]>>
         /\ pc[u] \in ReadSteps /\ alone'[u] => alone[u]
         /\ \/ UNCHANGED <<active, config>> /\ \A w \in Threads : At(w, "cache")' => At(w, "cache")
            \/ pc[u] \in ReadSteps /\ alone'[u] => asked[u] # Unconfigured
<1>1. ASSUME NEW i \in Ifaces,
             ClaimInterface(t, i) \/ ReleaseInterface(t, i) \/ DetachKernelDriver(t, i) \/ AttachKernelDriver(t, i)
      PROVE  /\ UNCHANGED <<device, mode, attached, active, config, pc, asked, header, value, result>>
             /\ Rebinds(t)
  BY <1>1 DEF ClaimInterface, ReleaseInterface, DetachKernelDriver, AttachKernelDriver, Bind, readv
<1>2. CASE ReleaseNext(t) \/ Reset(t) \/ ReclaimNext(t)
  <2>1. /\ UNCHANGED <<device, mode, attached, active, config, asked, header, value, result>>
        /\ Rebinds(t) /\ pc[t] \in ResetSteps /\ \E l \in ResetSteps : Go(t, l) \/ UNCHANGED pc
    BY <1>2 DEF ReleaseNext, Reset, ReclaimNext, NextIface, ResetSteps, At, readv
  <2>2. \A w \in Threads : (w # t => pc'[w] = pc[w]) /\ (At(w, "cache")' => At(w, "cache"))
    BY <2>1 DEF Go, At, ResetSteps, TypeOK
  <2>3. alone'[u] => alone[u] BY <2>1, Undisturbed
  <2>4. QED BY <2>1, <2>2, <2>3
<1>3. CASE CacheConfiguration(t) \/ \E v \in Values \cup {Cleared} : SetConfiguration(t, v)
  <2>1. /\ UNCHANGED <<device, mode, attached, asked, header, result>> /\ Reconfigures(t)
        /\ pc'[u] = pc[u] /\ value'[u] = value[u]
    BY <1>3 DEF CacheConfiguration, SetConfiguration, Go, TypeOK, kernelv, handlev, boundv
  <2>2. alone'[u] => Idle(u) \/ (alone[u] /\ asked[u] # Unconfigured) BY <2>1, Zenon DEF Reconfigures
  <2>3. Idle(u) => pc[u] \notin ReadSteps BY DEF Idle, At, ReadSteps
  <2>4. QED BY <2>1, <2>2, <2>3
<1>4. CASE \/ ResetDevice(t) \/ LockHandle(t) \/ ResetFails(t) \/ UnlockHandle(t)
           \/ GetActiveConfig(t) \/ FreeConfig(t) \/ \E v \in Asks[t] : GetConfigDescriptor(t, v)
  <2>1. UNCHANGED <<device, mode, attached, active, config>> /\ DOMAIN result' = DOMAIN result
    BY <1>4 DEF ResetDevice, LockHandle, ResetFails, UnlockHandle, Return, GetActiveConfig, FreeConfig,
      GetConfigDescriptor, kernelv, readv
  <2>2. UNCHANGED <<pc[u], asked[u], header[u], value[u], result[u]>>
    <3>1. CASE ResetDevice(t) \/ LockHandle(t) \/ ResetFails(t) \/ UnlockHandle(t)
      BY <1>4, <3>1 DEF ResetDevice, LockHandle, ResetFails, UnlockHandle, Return, Go, TypeOK, readv
    <3>2. CASE GetActiveConfig(t) \/ \E v \in Asks[t] : GetConfigDescriptor(t, v)
      BY <1>4, <3>2 DEF GetActiveConfig, GetConfigDescriptor, Go, TypeOK, readv
    <3>3. CASE FreeConfig(t) BY <3>3 DEF FreeConfig, Go, TypeOK
    <3>4. QED BY <1>4, <3>1, <3>2, <3>3
  <2>3. \A w \in Threads : At(w, "cache")' => At(w, "cache")
    BY <1>4 DEF ResetDevice, LockHandle, ResetFails, UnlockHandle, Return, GetActiveConfig, FreeConfig,
      GetConfigDescriptor, Go, At, First, TypeOK
  <2>4. alone'[u] = alone[u]
    BY <1>4, Zenon DEF ResetDevice, LockHandle, ResetFails, UnlockHandle, Return, GetActiveConfig, FreeConfig,
      GetConfigDescriptor, TypeOK
  <2>5. QED BY <2>1, <2>2, <2>3, <2>4
<1>5. CASE ReadCached(t) \/ ReadValue(t) \/ ReadDescriptors(t) \/ ReadNode(t)
  <2>1. /\ UNCHANGED <<device, mode, attached, active, config, alone>>
        /\ \A w \in Threads : w # t => pc'[w] = pc[w] /\ value'[w] = value[w]
        /\ pc'[t] \in ReadSteps
    BY <1>5, ReadMoves DEF kernelv
  <2>2. DOMAIN result' = DOMAIN result /\ UNCHANGED <<asked[u], header[u], result[u]>>
    <3>1. ASSUME Fails(t) PROVE UNCHANGED <<asked, result>> /\ header'[u] = header[u]
      BY <3>1 DEF Fails, TypeOK
    <3>2. ASSUME NEW v, Got(t, v)
          PROVE  UNCHANGED asked /\ DOMAIN result' = DOMAIN result /\ header'[u] = header[u] /\ result'[u] = result[u]
      BY <3>2 DEF Got, TypeOK
    <3>3. QED BY <1>5, <3>1, <3>2 DEF ReadCached, ReadValue, ReadDescriptors, ReadNode, TypeOK
  <2>3. \A w \in Threads : At(w, "cache")' => At(w, "cache") BY <2>1 DEF At, ReadSteps
  <2>4. QED BY <2>1, <2>2, <2>3
<1>6. ASSUME NEW i \in Ifaces, UNCHANGED <<device, mode, attached, active, config, pc, asked, header, value, result>>, Rebinds(t)
      PROVE  alone'[u] => alone[u]
  BY <1>6, Undisturbed
<1>7. QED BY <1>1, <1>2, <1>3, <1>4, <1>5, <1>6 DEF Call, Step, Values, At

LEMMA ReadByOthers ==
  ASSUME TypeOK, ReadInv, NEW t \in Threads, Call(t) \/ Step(t), NEW u \in Threads, u # t
  PROVE  ReadSound(u)'
<1>1. /\ UNCHANGED <<device, mode, attached>>
      /\ UNCHANGED <<pc[u], asked[u], header[u], value[u], result[u]>>
      /\ pc[u] \in ReadSteps /\ alone'[u] => alone[u]
      /\ \/ UNCHANGED <<active, config>> /\ \A w \in Threads : At(w, "cache")' => At(w, "cache")
         \/ pc[u] \in ReadSteps /\ alone'[u] => asked[u] # Unconfigured
  BY OthersRead DEF ReadInv
<1>2. ReadSound(u) BY DEF ReadInv
<1>3. pc[u] \in ReadSteps /\ alone'[u] => Meant(u)' = Meant(u) /\ (Told(u)' => Told(u))
  BY <1>1 DEF Meant, Told, Known
<1>4. pc[u] \in ReadSteps /\ alone'[u] /\ Told(u)' /\ At(u, "return") => Parsed(u)'
  BY <1>1, <1>2, <1>3 DEF ReadSound, Parsed
<1>5. pc[u] \in ReadSteps /\ alone'[u] /\ At(u, "descriptors") => value'[u] = active' /\ active' # Unconfigured
  BY <1>1, <1>2 DEF ReadSound, At
<1>6. QED BY <1>1, <1>2, <1>3, <1>4, <1>5 DEF ReadSound, HasConfig, At

\* A step of the thread that fails, or that has got the descriptors of v.
LEMMA FailsSound ==
  ASSUME TypeOK, ReadInv, NEW t \in Threads, Fails(t), pc[t] \in ReadSteps \ {"return"},
         alone[t] /\ Told(t) => Meant(t) = Unconfigured, UNCHANGED <<device, mode, attached, active, config, alone>>
  PROVE  ReadSound(t)'
<1>1. /\ pc' = [pc EXCEPT ![t] = "return"] /\ header' = [header EXCEPT ![t] = Unconfigured]
      /\ UNCHANGED <<asked, result>> /\ pc \in [Threads -> {"idle", "cache"} \cup ResetSteps \cup ReadSteps]
      /\ header \in [Threads -> Values]
  BY DEF Fails, Go, TypeOK
<1>2. ReadSound(t) /\ result[t] = Failed BY DEF ReadInv, ReadSound, At
<1>3. pc'[t] = "return" /\ header'[t] = Unconfigured /\ \A u \in Threads : u # t => pc'[u] = pc[u] BY <1>1
<1>4. Told(t)' <=> Told(t) BY <1>1 DEF Told, Known
<1>5. alone[t] /\ Told(t) => Parsed(t)' BY <1>1, <1>2 DEF Parsed, Meant, Failed
<1>6. QED BY <1>1, <1>2, <1>3, <1>4, <1>5 DEF ReadSound, HasConfig, At, ReadSteps

LEMMA GotSound ==
  ASSUME TypeOK, ReadInv, NEW t \in Threads, NEW v, Got(t, v), pc[t] \in {"cached", "descriptors", "node"},
         v # Unconfigured, alone[t] /\ Told(t) => v = Meant(t), UNCHANGED <<device, mode, attached, active, config, alone>>
  PROVE  ReadSound(t)'
<1> DEFINE h == header[t]
<1>1. ReadSound(t) /\ result[t] = Failed /\ DOMAIN result = Threads BY DEF ReadInv, ReadSound, At
<1>2. UNCHANGED asked /\ Meant(t)' = Meant(t) /\ (Told(t)' <=> Told(t)) /\ header \in [Threads -> Values]
      /\ pc \in [Threads -> {"idle", "cache"} \cup ResetSteps \cup ReadSteps]
  BY DEF Got, Meant, Told, Known, TypeOK
<1>3. mode \in {"sysfs", "cached"} BY HandlesAssumption DEF TypeOK
<1>4. CASE h = Unconfigured
  <2> DEFINE l == IF asked[t] = Unconfigured THEN First ELSE "node"
  <2>1. pc' = [pc EXCEPT ![t] = l] /\ header' = [header EXCEPT ![t] = v] /\ UNCHANGED result
    BY <1>4 DEF Got, Go
  <2>2. /\ l \in {"value", "cached", "node"} /\ (l = "node" <=> asked[t] # Unconfigured)
        /\ (l = "value" => mode = "sysfs") /\ (l = "cached" => mode = "cached")
    BY <1>3 DEF First
  <2> HIDE DEF l
  <2>3. pc'[t] = l /\ header'[t] = v /\ \A u \in Threads : u # t => pc'[u] = pc[u] BY <1>2, <2>1
  <2>4. asked[t] # Unconfigured => HasConfig(asked[t]) BY <1>1 DEF ReadSound
  <2>5. alone[t] => attached /\ (asked[t] = Unconfigured => \A u \in Threads : ~At(u, "cache"))
    BY <1>1 DEF ReadSound, ReadSteps
  <2>6. QED BY <1>1, <1>2, <2>1, <2>2, <2>3, <2>4, <2>5 DEF ReadSound, HasConfig, At, ReadSteps
<1>5. CASE h # Unconfigured
  <2>1. /\ pc' = [pc EXCEPT ![t] = "return"] /\ header' = [header EXCEPT ![t] = Unconfigured]
        /\ \E zeros \in BOOLEAN :
             \/ result' = [result EXCEPT ![t] = ParseConfiguration(device[v], zeros)]
             \/ Length(v) # Length(h) /\ result' = [result EXCEPT ![t] = Failed]
    BY <1>5 DEF Got, Go
  <2>2. pc'[t] = "return" /\ header'[t] = Unconfigured /\ \A u \in Threads : u # t => pc'[u] = pc[u] BY <1>2, <2>1
  <2>3. asked[t] # Unconfigured => HasConfig(asked[t]) BY <1>1 DEF ReadSound
  <2>4. alone[t] => attached /\ (asked[t] = Unconfigured => \A u \in Threads : ~At(u, "cache"))
                    /\ (Told(t) => h \in {Unconfigured, Meant(t)})
    BY <1>1 DEF ReadSound, ReadSteps
  <2>5. ASSUME alone[t], Told(t) PROVE Parsed(t)'
    <3>1. h = v BY <1>5, <2>4, <2>5
    <3>2. Length(v) = Length(h) BY <3>1
    <3> HIDE DEF h
    <3>3. PICK zeros \in BOOLEAN : result' = [result EXCEPT ![t] = ParseConfiguration(device[v], zeros)]
      BY <2>1, <3>2
    <3>4. result'[t] = ParseConfiguration(device[v], zeros) BY <1>1, <3>3
    <3>5. Meant(t)' = v /\ device' = device BY <1>2, <2>5
    <3>6. QED BY <3>4, <3>5 DEF Parsed
  <2>6. QED BY <1>1, <1>2, <2>2, <2>3, <2>4, <2>5 DEF ReadSound, HasConfig, At, ReadSteps
<1>6. QED BY <1>4, <1>5

\* The steps of the thread itself.
LEMMA ReadByItself ==
  ASSUME TypeOK, CacheInv, ReadInv, NEW t \in Threads, Call(t) \/ Step(t)
  PROVE  ReadSound(t)' /\ DOMAIN result' = DOMAIN result
<1>0. ReadSound(t) /\ DOMAIN result = Threads BY DEF ReadInv
<1>1. ASSUME pc[t] \notin ReadSteps, pc'[t] \notin ReadSteps, UNCHANGED <<asked, header, result>>
      PROVE  ReadSound(t)'
  BY <1>0, <1>1 DEF ReadSound, At, ReadSteps
<1>2. ASSUME NEW i \in Ifaces,
             ClaimInterface(t, i) \/ ReleaseInterface(t, i) \/ DetachKernelDriver(t, i) \/ AttachKernelDriver(t, i)
      PROVE  ReadSound(t)' /\ DOMAIN result' = DOMAIN result
  <2>1. pc[t] = "idle" /\ UNCHANGED <<pc, asked, header, result>>
    BY <1>2 DEF ClaimInterface, ReleaseInterface, DetachKernelDriver, AttachKernelDriver, Bind, Idle, At, readv
  <2>2. QED BY <1>1, <2>1 DEF ReadSteps
<1>3. CASE \/ ResetDevice(t) \/ ReleaseNext(t) \/ LockHandle(t) \/ Reset(t) \/ ResetFails(t) \/ ReclaimNext(t)
           \/ UnlockHandle(t) \/ CacheConfiguration(t) \/ \E v \in Values \cup {Cleared} : SetConfiguration(t, v)
  <2>1. pc[t] \notin ReadSteps /\ pc'[t] \notin ReadSteps /\ UNCHANGED <<asked, header, result>>
    BY <1>3 DEF ResetDevice, ReleaseNext, LockHandle, Reset, ResetFails, ReclaimNext, UnlockHandle, Return,
      CacheConfiguration, SetConfiguration, NextIface, Go, Idle, At, ReadSteps, TypeOK, readv
  <2>2. QED BY <1>1, <2>1
<1>4. CASE GetActiveConfig(t)
  <2>1. /\ pc[t] = "idle" /\ pc' = [pc EXCEPT ![t] = First]
        /\ UNCHANGED <<device, mode, attached, active, asked, header, result>>
        /\ alone' = [alone EXCEPT ![t] = attached /\ \A u \in Threads : ~At(u, "cache")]
    BY <1>4 DEF GetActiveConfig, Idle, At, Go, kernelv, readv
  <2>2. asked[t] = Unconfigured /\ header[t] = Unconfigured /\ result[t] = Failed
    BY <1>0, <2>1 DEF ReadSound, At, ReadSteps
  <2>3. mode \in {"sysfs", "cached"} BY HandlesAssumption DEF TypeOK
  <2>4. pc'[t] = First /\ \A u \in Threads : u # t => pc'[u] = pc[u] BY <2>1 DEF TypeOK
  <2>5. alone'[t] => attached /\ \A u \in Threads : ~At(u, "cache") BY <2>1, Zenon DEF TypeOK
  <2>6. \A u \in Threads : At(u, "cache")' => At(u, "cache") BY <2>4 DEF At, First
  <2>7. QED BY <2>1, <2>2, <2>3, <2>4, <2>5, <2>6 DEF ReadSound, First, At, ReadSteps
<1>5. ASSUME NEW v \in Asks[t], GetConfigDescriptor(t, v) PROVE ReadSound(t)' /\ DOMAIN result' = DOMAIN result
  <2>1. /\ pc[t] = "idle" /\ pc' = [pc EXCEPT ![t] = "node"] /\ HasConfig(v)
        /\ UNCHANGED <<device, mode, attached, active, header, result>>
        /\ asked' = [asked EXCEPT ![t] = v] /\ alone' = [alone EXCEPT ![t] = attached]
    BY <1>5 DEF GetConfigDescriptor, Idle, At, Go, kernelv
  <2>2. header[t] = Unconfigured /\ result[t] = Failed BY <1>0, <2>1 DEF ReadSound, At, ReadSteps
  <2>3. v # Unconfigured BY <2>1, HandlesAssumption DEF HasConfig, TypeOK
  <2>4. pc'[t] = "node" /\ asked'[t] = v BY <2>1 DEF TypeOK
  <2>5. alone'[t] => attached BY <2>1, Zenon DEF TypeOK
  <2>6. QED BY <2>1, <2>2, <2>3, <2>4, <2>5 DEF ReadSound, HasConfig, At, ReadSteps
<1>6. CASE FreeConfig(t)
  <2>1. /\ pc[t] = "return" /\ pc' = [pc EXCEPT ![t] = "idle"] /\ UNCHANGED header
        /\ result' = [result EXCEPT ![t] = Failed] /\ asked' = [asked EXCEPT ![t] = Unconfigured]
    BY <1>6 DEF FreeConfig, At, Go
  <2>2. header[t] = Unconfigured BY <1>0, <2>1 DEF ReadSound
  <2>3. pc'[t] = "idle" /\ asked'[t] = Unconfigured /\ result'[t] = Failed BY <1>0, <2>1 DEF TypeOK
  <2>4. QED BY <2>1, <2>2, <2>3 DEF ReadSound, At, ReadSteps
<1>7. CASE ReadCached(t) \/ ReadValue(t) \/ ReadDescriptors(t) \/ ReadNode(t)
  <2>0. UNCHANGED <<device, mode, attached, active, config, alone>> BY <1>7, ReadMoves DEF kernelv
  <2>1. CASE ReadCached(t)
    <3>1. pc[t] = "cached" /\ IF cache = Unconfigured THEN Fails(t) ELSE Got(t, cache)
      BY <2>1 DEF ReadCached, At
    <3>2. ASSUME alone[t], Told(t) PROVE cache = Meant(t)
      <4>1. asked[t] = Unconfigured /\ mode = "cached" /\ attached /\ \A u \in Threads : ~At(u, "cache")
        BY <1>0, <3>1, <3>2 DEF ReadSound, At, ReadSteps
      <4>2. QED BY <3>2, <4>1 DEF Meant, Told, CacheInv, CacheIsActive
    <3>3. CASE cache = Unconfigured BY <2>0, <3>1, <3>2, <3>3, FailsSound DEF ReadSteps, Fails
    <3>4. CASE cache # Unconfigured BY <2>0, <3>1, <3>2, <3>4, GotSound DEF Got
    <3>5. QED BY <3>3, <3>4
  <2>2. CASE ReadValue(t)
    <3>1. pc[t] = "value" /\ mode = "sysfs" /\ asked[t] = Unconfigured /\ Meant(t) = active
      BY <1>0, <2>2 DEF ReadValue, ReadSound, At, Meant
    <3>2. CASE Fails(t) /\ (~attached \/ active = Unconfigured)
      <4>1. alone[t] => attached BY <1>0, <3>1 DEF ReadSound, ReadSteps
      <4>2. QED BY <2>0, <3>1, <3>2, <4>1, FailsSound DEF ReadSteps, Fails
    <3>3. CASE /\ active # Unconfigured /\ Go(t, "descriptors") /\ value' = [value EXCEPT ![t] = active]
               /\ UNCHANGED <<asked, header, result>>
      <4>1. /\ pc'[t] = "descriptors" /\ value'[t] = active /\ \A u \in Threads : u # t => pc'[u] = pc[u]
        BY <3>3 DEF Go, TypeOK
      <4>2. Meant(t)' = Meant(t) /\ (Told(t)' <=> Told(t)) BY <2>0, <3>3 DEF Meant, Told, Known
      <4>3. QED BY <1>0, <2>0, <3>1, <3>3, <4>1, <4>2 DEF ReadSound, At, ReadSteps
    <3>4. QED BY <2>2, <3>2, <3>3 DEF ReadValue
  <2>3. CASE ReadDescriptors(t)
    <3>1. pc[t] = "descriptors" /\ asked[t] = Unconfigured /\ Meant(t) = active
      BY <1>0, <2>3 DEF ReadDescriptors, ReadSound, At, Meant
    <3>2. alone[t] => attached /\ value[t] = active BY <1>0, <3>1 DEF ReadSound, At, ReadSteps
    <3>3. CASE Fails(t) /\ (~attached \/ active # value[t])
      BY <2>0, <3>1, <3>2, <3>3, FailsSound DEF ReadSteps, Fails
    <3>4. CASE value[t] \in DOMAIN device /\ Got(t, value[t])
      <4>1. value[t] # Unconfigured BY <3>4, HandlesAssumption DEF TypeOK
      <4>2. QED BY <2>0, <3>1, <3>2, <3>4, <4>1, GotSound DEF Got
    <3>5. QED BY <2>3, <3>3, <3>4 DEF ReadDescriptors, Sought
  <2>4. CASE ReadNode(t)
    <3>1. pc[t] = "node" /\ asked[t] # Unconfigured /\ Meant(t) = asked[t] /\ IF NodeReads THEN Got(t, asked[t]) ELSE Fails(t)
      BY <1>0, <2>4 DEF ReadNode, ReadSound, At, Meant
    <3>2. alone[t] => attached BY <1>0, <3>1 DEF ReadSound, ReadSteps
    <3>3. CASE NodeReads BY <2>0, <3>1, <3>3, GotSound DEF Got
    <3>4. CASE ~NodeReads BY <2>0, <3>1, <3>2, <3>4, FailsSound DEF NodeReads, ReadSteps, Fails
    <3>5. QED BY <3>3, <3>4
  <2>5. QED BY <1>7, <2>1, <2>2, <2>3, <2>4
<1>8. QED BY <1>2, <1>3, <1>4, <1>5, <1>6, <1>7 DEF Call, Step, Values

LEMMA NextRead == ASSUME TypeOK, CacheInv, ReadInv, [Next]_vars PROVE ReadInv'
<1>1. CASE UNCHANGED vars
  BY <1>1 DEF ReadInv, ReadSound, Parsed, Meant, Told, Known, HasConfig, At, vars, kernelv, readv
<1>2. CASE Unplug
  <2>1. UNCHANGED <<device, mode, pc, asked, header, value, result>>
        /\ \A u \in Threads : alone'[u] => Idle(u)
    BY <1>2, Zenon DEF Unplug, readv
  <2>2. \A u \in Threads : pc[u] \in ReadSteps => ~alone'[u] BY <2>1 DEF Idle, At, ReadSteps
  <2>3. QED BY <2>1, <2>2 DEF ReadInv, ReadSound, HasConfig, At
<1>3. ASSUME NEW t \in Threads, Call(t) \/ Step(t) PROVE ReadInv'
  BY <1>3, ReadByOthers, ReadByItself DEF ReadInv
<1>4. QED BY <1>1, <1>2, <1>3 DEF Next

\* Whoever reads a configuration undisturbed is told what its descriptors mean,
\* through the cache (unless 0 was set), the file of the active configuration or
\* the node: if the
\* parser reads well-formed descriptors as what they mean, then so do all the
\* ways to them, whatever is claimed, reset, set and unplugged meanwhile.
THEOREM ReadIsMeantCorrect ==
  ASSUME \A d \in Devices : \A v \in DOMAIN d : \A zeros \in BOOLEAN :
           WellFormed(d[v]) => ParseConfiguration(d[v], zeros) = Meaning(d[v])
  PROVE  Spec => []ReadIsMeant
<1>1. Init => TypeOK /\ CacheInv /\ ReadInv BY InitTyped, InitCache, InitRead
<1>2. TypeOK /\ CacheInv /\ ReadInv /\ [Next]_vars => (TypeOK /\ CacheInv /\ ReadInv)'
  BY NextTyped, NextCache, NextRead
<1>3. TypeOK /\ ReadInv => ReadIsMeant
  <2> SUFFICES ASSUME TypeOK, ReadInv, NEW t \in Threads, At(t, "return"), alone[t], Told(t)
               PROVE  IF Meant(t) = Unconfigured THEN ~result[t].ok
                      ELSE WellFormed(device[Meant(t)]) => result[t] = Meaning(device[Meant(t)])
    BY DEF ReadIsMeant
  <2>1. Parsed(t) BY DEF ReadInv, ReadSound, At, ReadSteps
  <2>2. device \in Devices /\ (Meant(t) # Unconfigured => Meant(t) \in DOMAIN device)
    BY DEF Meant, TypeOK, Values
  <2>3. QED BY <2>1, <2>2 DEF Parsed
<1>4. QED BY <1>1, <1>2, <1>3, PTL DEF Spec
=============================================================================
