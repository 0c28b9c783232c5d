------------------------------ MODULE HrastRx ------------------------------
(***************************************************************************)
(* RSTP packets for the clients of the hrast server (hrast.c): the table   *)
(* rx_Callback[] of the clients that want them, and the one handler that   *)
(* hrast registers at the BCM API for all of them.                         *)
(*                                                                         *)
(* Three threads, and no lock:                                             *)
(*   - the main thread registers, and takes the handler away (m_...);      *)
(*   - the keep-alive thread drops the clients that do not answer (k_...); *)
(*   - the receive thread of the BCM API is in the handler with a packet,  *)
(*     and sends it to every client of the table (r_...).                  *)
(* A step makes at most one access to a shared variable.  What lies in the *)
(* queue rxqid is left out: HrastCallbackQueue is about such a queue.      *)
(***************************************************************************)
EXTENDS Integers, FiniteSets

CONSTANTS
  Pids, NoPid,   (* the clients; c_pid = 0                                 *)
  MaxCallbacks   (* MAX_CALLBACKS                                          *)

ASSUME RxAssumption == NoPid \notin Pids /\ MaxCallbacks \in Nat \ {0}

VARIABLES
  rx_Callback, reg_rx_callbacks,
  rx_time,                   (* 0, or the time of the first packet: less   *)
                             (* than two seconds ago ("recent"), or more   *)
  bcm_handler, bcm_started,  (* of the BCM API                             *)
  m_pc, m_pid, m_idx, m_cnt,
  k_pc, k_i, k_cnt,
  r_pc, r_i, r_to,
  there,         (* history: the entries that are there since the loop     *)
  sent,          (* over them began; the clients the packet was sent to    *)
  overlap,       (* history: a request has overlapped a sweep              *)
  withdrawn      (* history: a client has taken the handler away           *)

table   == <<rx_Callback, reg_rx_callbacks>>
bcm     == <<bcm_handler, bcm_started>>
main    == <<m_pc, m_pid, m_idx, m_cnt>>
keeper  == <<k_pc, k_i, k_cnt>>
receive == <<r_pc, r_i, r_to, sent>>
rxv     == <<table, rx_time, bcm, main, keeper, receive, there, overlap, withdrawn>>

Slots == 0 .. MaxCallbacks - 1
Owner == Pids \cup {NoPid}
MainPc == {"idle", "dup_scan", "free_scan", "active", "start", "register", "save",
           "inc_load", "inc_store", "only_start", "stop", "unregister"}
KeepPc == {"sleep", "scan", "check", "dec_load", "dec_store", "release", "test",
           "bcm_unregister", "reset"}
ReceivePc == {"idle", "first", "stamp", "age", "test", "read", "header", "extension", "done"}

RxInit ==
  /\ rx_Callback = [s \in Slots |-> NoPid] /\ reg_rx_callbacks = 0
  /\ rx_time = "zero" /\ bcm_handler = FALSE /\ bcm_started \in BOOLEAN
  /\ m_pc = "idle" /\ m_pid = NoPid /\ m_idx = 0 /\ m_cnt = 0
  /\ k_pc = "sleep" /\ k_i = 0 /\ k_cnt = 0
  /\ r_pc = "idle" /\ r_i = 0 /\ r_to = NoPid
  /\ there = {} /\ sent = {} /\ overlap = FALSE /\ withdrawn = FALSE

-----------------------------------------------------------------------------
(* Main thread: hrast_rx_register_rstp, hrast_rx_unregister_rstp and       *)
(* hrast_rx_start.  "idle" is also the confirm.                            *)

Goto(pc) == m_pc' = pc

\* A counter below 0 means "RX not initialized": nobody is registered any more.
RxRequest(p, first) ==
  /\ m_pc = "idle" /\ m_pid' = p /\ m_idx' = 0
  /\ Goto(IF first = "dup_scan" /\ reg_rx_callbacks < 0 THEN "idle" ELSE first)
  /\ withdrawn' = (withdrawn \/ first = "stop")
  /\ UNCHANGED <<table, bcm, m_cnt>>

\* Only one registration per client is allowed.
DupScan ==
  /\ m_pc = "dup_scan"
  /\ IF rx_Callback[m_idx] = m_pid THEN Goto("idle") /\ UNCHANGED m_idx
     ELSE IF m_idx + 1 \in Slots THEN m_idx' = m_idx + 1 /\ UNCHANGED m_pc
          ELSE m_idx' = 0 /\ Goto("free_scan")
  /\ UNCHANGED <<table, bcm, m_pid, m_cnt, withdrawn>>

FreeScan ==
  /\ m_pc = "free_scan"
  /\ IF rx_Callback[m_idx] = NoPid THEN Goto("active") /\ UNCHANGED m_idx
     ELSE IF m_idx + 1 \in Slots THEN m_idx' = m_idx + 1 /\ UNCHANGED m_pc
          ELSE Goto("idle") /\ UNCHANGED m_idx
  /\ UNCHANGED <<table, bcm, m_pid, m_cnt, withdrawn>>

Active ==
  /\ m_pc = "active" /\ Goto(IF bcm_started THEN "register" ELSE "start")
  /\ UNCHANGED <<table, bcm, m_pid, m_idx, m_cnt, withdrawn>>

BcmStart ==
  /\ m_pc = "start"
  /\ \/ bcm_started' = TRUE /\ Goto("register")
     \/ Goto("idle") /\ UNCHANGED bcm_started
  /\ UNCHANGED <<table, bcm_handler, m_pid, m_idx, m_cnt, withdrawn>>

BcmRegister ==
  /\ m_pc = "register"
  /\ \/ bcm_handler' = TRUE /\ Goto("save")
     \/ Goto("idle") /\ UNCHANGED bcm_handler
  /\ UNCHANGED <<table, bcm_started, m_pid, m_idx, m_cnt, withdrawn>>

Save ==
  /\ m_pc = "save" /\ Goto("inc_load")
  /\ rx_Callback' = [rx_Callback EXCEPT ![m_idx] = m_pid]
  /\ UNCHANGED <<reg_rx_callbacks, bcm, m_pid, m_idx, m_cnt, withdrawn>>

IncLoad ==
  /\ m_pc = "inc_load" /\ Goto("inc_store") /\ m_cnt' = reg_rx_callbacks
  /\ UNCHANGED <<table, bcm, m_pid, m_idx, withdrawn>>

IncStore ==
  /\ m_pc = "inc_store" /\ Goto("idle") /\ reg_rx_callbacks' = m_cnt + 1
  /\ UNCHANGED <<rx_Callback, bcm, m_pid, m_idx, m_cnt, withdrawn>>

OnlyStart ==
  /\ m_pc = "only_start" /\ Goto("idle") /\ bcm_started' \in {bcm_started, TRUE}
  /\ UNCHANGED <<table, bcm_handler, m_pid, m_idx, m_cnt, withdrawn>>

\* A client that unregisters takes the packets from all of them, and stays
\* in the table.  What fails is only reported.
BcmStop ==
  /\ m_pc = "stop" /\ Goto("unregister") /\ bcm_started' \in {bcm_started, FALSE}
  /\ UNCHANGED <<table, bcm_handler, m_pid, m_idx, m_cnt, withdrawn>>

BcmUnregister ==
  /\ m_pc = "unregister" /\ Goto("idle") /\ bcm_handler' \in {bcm_handler, FALSE}
  /\ UNCHANGED <<table, bcm_started, m_pid, m_idx, m_cnt, withdrawn>>

MainStep ==
  /\ \/ \E p \in Pids, first \in {"dup_scan", "stop", "only_start"} : RxRequest(p, first)
     \/ DupScan \/ FreeScan \/ Active \/ BcmStart \/ BcmRegister \/ Save
     \/ IncLoad \/ IncStore \/ OnlyStart \/ BcmStop \/ BcmUnregister
  /\ UNCHANGED <<rx_time, keeper, receive, there>>

-----------------------------------------------------------------------------
(* Keep-alive thread: hrast_rx_keep_alive.  Nobody else clears an entry.   *)

KeepGoto(pc) == k_pc' = pc /\ UNCHANGED k_i

NextClient ==
  IF k_i + 1 \in Slots THEN k_i' = k_i + 1 /\ k_pc' = "scan"
                       ELSE k_i' = 0 /\ k_pc' = "sleep"

Wake ==
  /\ k_pc = "sleep" /\ reg_rx_callbacks > 0 /\ KeepGoto("scan")
  /\ UNCHANGED <<table, rx_time, bcm_handler, k_cnt, there>>

Scan ==
  /\ k_pc = "scan" /\ IF rx_Callback[k_i] # NoPid THEN KeepGoto("check") ELSE NextClient
  /\ UNCHANGED <<table, rx_time, bcm_handler, k_cnt, there>>

\* hrast_rx_connectivity_check: the client answers or it does not.
Check ==
  /\ k_pc = "check" /\ (NextClient \/ KeepGoto("dec_load"))
  /\ UNCHANGED <<table, rx_time, bcm_handler, k_cnt, there>>

KeepDecLoad ==
  /\ k_pc = "dec_load" /\ KeepGoto("dec_store") /\ k_cnt' = reg_rx_callbacks
  /\ UNCHANGED <<table, rx_time, bcm_handler, there>>

KeepDecStore ==
  /\ k_pc = "dec_store" /\ KeepGoto("release") /\ reg_rx_callbacks' = k_cnt - 1
  /\ UNCHANGED <<rx_Callback, rx_time, bcm_handler, k_cnt, there>>

KeepRelease ==
  /\ k_pc = "release" /\ KeepGoto("test")
  /\ rx_Callback' = [rx_Callback EXCEPT ![k_i] = NoPid]
  /\ there' = there \ {k_i}
  /\ UNCHANGED <<reg_rx_callbacks, rx_time, bcm_handler, k_cnt>>

\* Mutant: the last but one client takes the handler with it.
LastButOne == reg_rx_callbacks <= 1

LastDropped == reg_rx_callbacks = 0

KeepTest ==
  /\ k_pc = "test" /\ IF LastDropped THEN KeepGoto("bcm_unregister") ELSE NextClient
  /\ UNCHANGED <<table, rx_time, bcm_handler, k_cnt, there>>

KeepBcmUnregister ==
  /\ k_pc = "bcm_unregister" /\ KeepGoto("reset")
  /\ bcm_handler' \in {bcm_handler, FALSE}
  /\ UNCHANGED <<table, rx_time, k_cnt, there>>

ResetTime ==
  /\ k_pc = "reset" /\ NextClient /\ rx_time' = "zero"
  /\ UNCHANGED <<table, bcm_handler, k_cnt, there>>

KeepStep ==
  /\ \/ Wake \/ Scan \/ Check \/ KeepDecLoad \/ KeepDecStore \/ KeepRelease
     \/ KeepTest \/ KeepBcmUnregister \/ ResetTime
  /\ UNCHANGED <<bcm_started, main, receive, withdrawn>>

-----------------------------------------------------------------------------
(* Receive thread: hrast_rx_receive_rstp_cb.                               *)

ReceiveGoto(pc) == r_pc' = pc /\ UNCHANGED <<r_i, r_to, sent>>

NextEntry ==
  IF r_i + 1 \in Slots THEN r_i' = r_i + 1 /\ r_pc' = "test" ELSE r_i' = 0 /\ r_pc' = "done"

Packet ==
  /\ r_pc = "idle" /\ bcm_handler /\ bcm_started /\ ReceiveGoto("first")
  /\ UNCHANGED <<rx_time, there>>

FirstPacket ==
  /\ r_pc = "first" /\ ReceiveGoto(IF rx_time = "zero" THEN "stamp" ELSE "age")
  /\ UNCHANGED <<rx_time, there>>

Stamp ==
  /\ r_pc = "stamp" /\ ReceiveGoto("age") /\ rx_time' = "recent"
  /\ UNCHANGED there

\* In the first two seconds, and if it is not one of the protocol, the
\* packet is left to others.
Age ==
  /\ r_pc = "age"
  /\ \/ ReceiveGoto("idle") /\ UNCHANGED there
     \/ /\ rx_time # "recent"
        /\ r_pc' = "test" /\ r_i' = 0 /\ sent' = {} /\ UNCHANGED r_to
        /\ there' = {s \in Slots : rx_Callback[s] # NoPid}
  /\ UNCHANGED rx_time

TestEntry ==
  /\ r_pc = "test"
  /\ IF rx_Callback[r_i] # NoPid THEN r_pc' = "read" /\ UNCHANGED r_i ELSE NextEntry
  /\ UNCHANGED <<rx_time, r_to, sent, there>>

\* c_pid is read once more: it may be 0 by now.
ReadPid ==
  /\ r_pc = "read" /\ r_pc' = "header" /\ r_to' = rx_Callback[r_i]
  /\ UNCHANGED <<rx_time, r_i, sent, there>>

\* Mutant: break instead of continue.
LeaveLoop == r_pc' = "done" /\ r_i' = 0

AfterFailure == NextEntry

\* hrast_sys_msg_send_rstp: there is no message of type 0.  The packet
\* follows its header.
SendHeader ==
  /\ r_pc = "header"
  /\ IF r_to = NoPid THEN AfterFailure ELSE r_pc' = "extension" /\ UNCHANGED r_i
  /\ UNCHANGED <<rx_time, r_to, sent, there>>

SendPacket ==
  /\ r_pc = "extension" /\ NextEntry /\ sent' = sent \cup {r_to}
  /\ UNCHANGED <<rx_time, r_to, there>>

Handled ==
  /\ r_pc = "done" /\ r_pc' = "idle" /\ there' = {} /\ sent' = {} /\ r_to' = NoPid
  /\ UNCHANGED <<rx_time, r_i>>

ReceiveStep ==
  /\ \/ Packet \/ FirstPacket \/ Stamp \/ Age \/ TestEntry \/ ReadPid
     \/ SendHeader \/ SendPacket \/ Handled
  /\ UNCHANGED <<table, bcm, main, keeper, withdrawn>>

\* Two seconds have gone since the first packet.
TimePasses ==
  /\ rx_time = "recent" /\ rx_time' = "old"
  /\ UNCHANGED <<table, bcm, main, keeper, receive, there, withdrawn>>

-----------------------------------------------------------------------------
Overlapping == m_pc # "idle" /\ k_pc # "sleep"

RxNext ==
  /\ MainStep \/ KeepStep \/ ReceiveStep \/ TimePasses
  /\ overlap' = (overlap \/ Overlapping')

RxSpec == RxInit /\ [][RxNext]_rxv
-----------------------------------------------------------------------------
RxTypeOK ==
  /\ rx_Callback \in [Slots -> Owner] /\ reg_rx_callbacks \in Int
  /\ rx_time \in {"zero", "recent", "old"} /\ bcm_handler \in BOOLEAN /\ bcm_started \in BOOLEAN
  /\ m_pc \in MainPc /\ m_pid \in Owner /\ m_idx \in Slots /\ m_cnt \in Int
  /\ k_pc \in KeepPc /\ k_i \in Slots /\ k_cnt \in Int
  /\ r_pc \in ReceivePc /\ r_i \in Slots /\ r_to \in Owner
  /\ there \in SUBSET Slots /\ sent \in SUBSET Owner
  /\ overlap \in BOOLEAN /\ withdrawn \in BOOLEAN

Registered == {s \in Slots : rx_Callback[s] # NoPid}
AtRest == m_pc = "idle" /\ k_pc = "sleep"

OnePerClient ==
  \A s, t \in Slots : s # t /\ rx_Callback[s] = rx_Callback[t] => rx_Callback[s] = NoPid

(* No client has two entries.  As long as no request has overlapped a      *)
(* sweep, the counter is the number of entries; and if besides no client   *)
(* has unregistered, packets come as long as there is an entry.            *)
RegistryInStep ==
  /\ RxTypeOK /\ OnePerClient
  /\ ~overlap /\ AtRest => reg_rx_callbacks = Cardinality(Registered)
  /\ ~overlap /\ ~withdrawn /\ AtRest /\ Registered # {} => bcm_handler /\ bcm_started

(* "send callback data to all registered clients": a packet that is        *)
(* handled has been sent to every client whose entry was there all the     *)
(* time, whatever happened to the other entries meanwhile.                 *)
PacketReachesAll ==
  r_pc = "done" => \A s \in there : rx_Callback[s] \in sent
-----------------------------------------------------------------------------
(* For the proof: the main thread stores only in a free entry, and the     *)
(* loop has served what it has passed.                                     *)
PacketInv ==
  /\ RxTypeOK
  /\ m_pc \in {"active", "start", "register", "save"} => rx_Callback[m_idx] = NoPid
  /\ \A s \in there : rx_Callback[s] # NoPid
  /\ r_pc \in {"test", "read", "header", "extension"} =>
       \A s \in there : s < r_i => rx_Callback[s] \in sent
  /\ r_pc \in {"header", "extension"} /\ r_i \in there => r_to = rx_Callback[r_i]
  /\ PacketReachesAll

(* A request remembers what its scans have found: no entry is its client's *)
(* when it stores one.                                                     *)
RegisterInv ==
  /\ OnePerClient
  /\ m_pc # "idle" => m_pid \in Pids
  /\ m_pc = "dup_scan" => \A s \in Slots : s < m_idx => rx_Callback[s] # m_pid
  /\ m_pc \in {"free_scan", "active", "start", "register", "save"} =>
       \A s \in Slots : rx_Callback[s] # m_pid

(* As long as requests and sweeps take turns: how far the counter is from  *)
(* the number of entries, and what the sweep knows of its entry.           *)
CounterInStep ==
  /\ reg_rx_callbacks = Cardinality(Registered)
                        - (IF m_pc \in {"inc_load", "inc_store"} \/ k_pc = "release" THEN 1 ELSE 0)
  /\ m_pc = "inc_store" => m_cnt = reg_rx_callbacks
  /\ k_pc \in {"check", "dec_load", "dec_store", "release"} => rx_Callback[k_i] # NoPid
  /\ k_pc = "dec_store" => k_cnt = reg_rx_callbacks
  /\ k_pc \in {"bcm_unregister", "reset"} => Registered = {}

(* Where the handler is needed it is there, unless a client took it away.  *)
HandlerInStep ==
  ~withdrawn =>
    /\ m_pc \notin {"stop", "unregister"}
    /\ m_pc \in {"register", "save"} => bcm_started
    /\ m_pc = "save" => bcm_handler
    /\ Registered # {} => bcm_handler /\ bcm_started

SerialInv == ~overlap => ~Overlapping /\ CounterInStep /\ HandlerInStep
=============================================================================
